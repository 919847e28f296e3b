----------------------------- MODULE LocalSync -----------------------------
(***************************************************************************)
(* The files of cloud workspaces applied to one local directory:            *)
(*   modules/projects/local_sync.py     preview, application, replacement    *)
(*   modules/workspaces/host_mirror.py  the strict mirror and its conflicts  *)
(*                                                                          *)
(* An entry is a type and a version of its contents, a manifest the entry of *)
(* every path.  Paths do not contain one another: rules about parents, the   *)
(* creation and removal of directories, and what a plain temporary file may  *)
(* leave behind are left out.  A signature is the entry it was taken from,   *)
(* and a revision its manifest, under whose checksum it is stored.           *)
(***************************************************************************)
EXTENDS Naturals, FiniteSets

CONSTANTS
    Links,        \* workspaces that apply their files to the directory
    Paths,        \* paths in the directory
    MaxEdits,     \* bound: edits of the local files by others
    MaxRevisions, \* bound: edits of the files of the workspaces
    MaxTroubles   \* bound: failing operations and crashes

NoPath == "none"

ASSUME SyncAssumption ==
    /\ NoPath \notin Links \cup Paths
    /\ {MaxEdits, MaxRevisions, MaxTroubles} \subseteq Nat

Types == {"file", "symlink"}
Nothing == [type |-> "none", version |-> 0]
Entry(type, version) == [type |-> type, version |-> version]
Entries == {Nothing} \cup [type : Types, version : Nat]
Manifests == [Paths -> Entries]
Empty == [p \in Paths |-> Nothing]

VARIABLES
    dir,      \* the local directory
    temp,     \* temp[w]: what the replacement directory of w holds, .k41-sync-<id>
    journal,  \* journal[w]: the path that w replaces, as recorded on disk
    policy,   \* sync_policy(w)
    head,     \* head[w]: the saved files of the workspace, head_revision
    previous, \* previous[w]: previous_revision, Empty if there is none
    base,     \* base[w]: the baseline, local_sync_revision, Empty if there is none
    backup,   \* backup[w]: host_backup_revision, Empty if there is none
    stored,   \* stored[w]: the revisions in the store of the workspace
    token,    \* the last preview or conflict its user has seen
    at,       \* where the writer is, "idle" when nobody holds the directory
    job,      \* its local variables
    put,      \* history: the entry an edit or the writer last meant p to have
    owed,     \* history: the entry an edit last gave p, until a revision is released
    had,      \* history: the entries p ever had in the directory
    exposed,  \* history: entries written between the last check of p and its change
    spent     \* bounds

disk    == <<dir, temp, journal>>
rows    == <<policy, head, previous, base, backup, token>>
links   == <<rows, stored>>
history == <<put, owed, had, exposed>>
vars    == <<disk, links, at, job, history, spent>>

NoTemp    == [original |-> Nothing, prepared |-> Nothing]
NoToken   == [given |-> FALSE, revision |-> Empty, base |-> Empty, current |-> Empty]
NoJob     == [link |-> NoPath, kind |-> "none", current |-> Empty, desired |-> Empty, base |-> Empty,
              todo |-> {}, path |-> NoPath, failed |-> FALSE]

Fault == spent.troubles < MaxTroubles /\ spent' = [spent EXCEPT !.troubles = @ + 1]

-----------------------------------------------------------------------------
(* _plan() and plan_changes(): the three-way comparison. *)

Changes(old, new, actual) ==
    {p \in Paths : old[p] # new[p] /\ actual[p] # new[p] /\ actual[p] = old[p]}

Conflicts(old, new, actual) ==
    {p \in Paths : old[p] # new[p] /\ actual[p] # new[p] /\ actual[p] # old[p]}

(* The strict mirror does not keep independent local edits either. *)
StrictConflicts(old, new, actual) ==
    Conflicts(old, new, actual) \cup {p \in Paths : actual[p] # old[p] /\ actual[p] # new[p]}

PlanConflicts(how, old, new, actual) ==
    IF how = "mirror_strict" THEN StrictConflicts(old, new, actual) ELSE Conflicts(old, new, actual)

(* _replace_entry() is for a change of type. *)
Replaced(names, before, after) ==
    {p \in names : before[p] # Nothing /\ after[p] # Nothing /\ before[p].type # after[p].type}

Verified(old, new, actual) == \A p \in Paths : old[p] # new[p] => actual[p] = new[p]

-----------------------------------------------------------------------------
(* Others: an editor of the local files, the tools of the sandbox. *)

(* The steps between the last check of a path and its change. *)
Window == IF at \in {"move", "publish", "unlink", "place"} THEN {job.path} ELSE {}

Edit(p, entry) ==
    /\ spent.edits < MaxEdits /\ entry # dir[p]
    /\ spent' = [spent EXCEPT !.edits = @ + 1]
    /\ dir' = [dir EXCEPT ![p] = entry]
    /\ put' = [put EXCEPT ![p] = entry]
    /\ owed' = [owed EXCEPT ![p] = entry]
    /\ had' = [had EXCEPT ![p] = @ \cup {entry}]
    /\ exposed' = IF p \in Window THEN exposed \cup {entry} ELSE exposed
    /\ UNCHANGED <<temp, journal, links, at, job>>

Edits(p) == \E type \in Types : Edit(p, Entry(type, 10 + spent.edits))

Deletes(p) == Edit(p, Nothing)

(* A checkpoint stores the files of the workspace, names them in its row and *)
(* then collects the revisions that the row does not name, if it gets there. *)
SaveWithoutBackup(w, files) ==  \* mutant of Save: does not spare the backup
    LET before    == IF files = head[w] THEN previous[w] ELSE head[w]
        available == stored[w] \cup {files}
    IN /\ head' = [head EXCEPT ![w] = files]
       /\ previous' = [previous EXCEPT ![w] = before]
       /\ \E kept \in {available, available \cap {files, before, base[w]}} :
             stored' = [stored EXCEPT ![w] = kept]

Save(w, files) ==
    LET before    == IF files = head[w] THEN previous[w] ELSE head[w]
        available == stored[w] \cup {files}
    IN /\ head' = [head EXCEPT ![w] = files]
       /\ previous' = [previous EXCEPT ![w] = before]
       /\ \E kept \in {available, available \cap {files, before, base[w], backup[w]}} :
             stored' = [stored EXCEPT ![w] = kept]

(* It holds the lock of the workspace, as the writer does. *)
Checkpoint(w, files) ==
    /\ at # "idle" => job.link # w
    /\ Save(w, files)
    /\ UNCHANGED <<disk, policy, base, backup, token, at, job, history>>

CheckpointAgain(w) == Checkpoint(w, head[w]) /\ UNCHANGED spent

Revise(w, p, entry) ==
    /\ spent.revisions < MaxRevisions /\ entry # head[w][p]
    /\ spent' = [spent EXCEPT !.revisions = @ + 1]
    /\ Checkpoint(w, [head[w] EXCEPT ![p] = entry])

Revises(w, p) == \E type \in Types : Revise(w, p, Entry(type, 20 + spent.revisions))
                 \/ Revise(w, p, Nothing)

-----------------------------------------------------------------------------
(* apply_workspace_revision(), HostMirrorService._apply() and _resolve(). *)

Goto(next) == at' = next
End == at' = "idle" /\ job' = NoJob

(* prepare_local_capture() of a workspace that runs in the directory ends    *)
(* after the sweep: kind "checkpoint".                                       *)
Kinds(how) == IF how = "manual_apply" THEN {"preview", "apply", "checkpoint"} ELSE {"mirror", "checkpoint"}

Begin(w, kind) ==
    /\ at = "idle" /\ kind \in Kinds(policy[w])
    /\ kind = "apply" => token[w].given
    /\ Goto("recover")
    /\ job' = [NoJob EXCEPT !.link = w, !.kind = kind, !.desired = head[w], !.base = base[w]]
    /\ UNCHANGED <<disk, links, history, spent>>

(* _resolve(): the user decides on the conflicts that were shown. *)
Shown(w) == [given |-> TRUE, revision |-> head[w], base |-> base[w], current |-> dir]

(* Nothing is owed any more that a revision kept which is given up, unless   *)
(* the directory has it still.                                               *)
Released(revision) ==
    [p \in Paths |-> IF owed[p] = revision[p] /\ owed[p] # dir[p] THEN Nothing ELSE owed[p]]

(* The one backup is that of the last resolution.  Files of the sandbox that *)
(* the user gave up are replaced there and saved.                            *)
Resolve(w, action) ==
    /\ at = "idle" /\ policy[w] = "mirror_strict" /\ token[w] = Shown(w)
    /\ LET conflicts == StrictConflicts(base[w], head[w], dir)
           desired   == IF action = "keep_sandbox" THEN head[w]
                        ELSE [p \in Paths |-> IF p \in conflicts THEN dir[p] ELSE head[w][p]]
       IN /\ conflicts # {}
          /\ backup' = [backup EXCEPT ![w] = dir]
          /\ owed' = Released(backup[w])
          /\ head' = [head EXCEPT ![w] = desired]
          /\ previous' = [previous EXCEPT ![w] = IF desired = head[w] THEN @ ELSE head[w]]
          /\ stored' = [stored EXCEPT ![w] = @ \cup {dir, desired}]
          /\ job' = [NoJob EXCEPT !.link = w, !.kind = IF action = "keep_sandbox" THEN "force" ELSE "mirror",
                                  !.desired = desired, !.base = base[w], !.current = dir]
    /\ Goto("recover")
    /\ UNCHANGED <<disk, policy, base, token, put, had, exposed, spent>>

(* _recover_replacement() of its own journal, then _sweep_temporary(). *)
Recover ==
    /\ at = "recover"
    /\ IF journal[job.link] = NoPath THEN Goto("sweep") /\ UNCHANGED job
       ELSE Goto("settle") /\ job' = [job EXCEPT !.path = NoPath]
    /\ UNCHANGED <<disk, links, history, spent>>

Sweep ==
    /\ at = "sweep"
    /\ temp' = [w \in Links |-> NoTemp]
    /\ IF job.kind = "checkpoint" THEN End ELSE Goto("compare") /\ UNCHANGED job
    /\ UNCHANGED <<dir, journal, links, history, spent>>

(* _capture() and the plan; what the user has seen must still be true. *)
Compare ==
    /\ at = "compare"
    /\ LET w == job.link
           conflicts == PlanConflicts(policy[w], job.base, job.desired, dir)
           changes == Changes(job.base, job.desired, dir)
           Go(old, todo) == /\ job' = [job EXCEPT !.current = dir, !.base = old, !.todo = todo]
                            /\ Goto(IF todo # {} THEN "check"
                                 ELSE IF job.kind = "apply" THEN "verify" ELSE "record")
       IN \/ /\ job.kind = "preview"
             /\ token' = [token EXCEPT ![w] = Shown(w)]
             /\ End
          \/ /\ job.kind = "apply"
             /\ IF token[w] = Shown(w) /\ conflicts = {} THEN Go(job.base, changes) ELSE End
             /\ UNCHANGED token
          \/ /\ job.kind = "mirror"
             /\ IF conflicts = {} THEN Go(job.base, changes) ELSE End
             /\ token' = [token EXCEPT ![w] = Shown(w)]
          \/ /\ job.kind = "force"
             /\ IF dir = job.current THEN Go(dir, Changes(dir, job.desired, dir)) ELSE End
             /\ UNCHANGED token
    /\ UNCHANGED <<disk, policy, head, previous, base, backup, stored, history, spent>>

-----------------------------------------------------------------------------
(* _apply(): the whole plan is checked, then one path after the other. *)

RecordAhead ==                  \* mutant of Check: the baseline first
    /\ at = "check"
    /\ base' = [base EXCEPT ![job.link] = job.desired]
    /\ Goto("next")
    /\ UNCHANGED <<disk, policy, head, previous, backup, stored, token, job, history, spent>>

Check ==
    /\ at = "check"
    /\ IF \A p \in job.todo : dir[p] = job.current[p] THEN Goto("next") /\ UNCHANGED job ELSE End
    /\ UNCHANGED <<disk, links, history, spent>>

(* Replacements, then deletions, then additions and updates. *)
First(todo) ==
    LET replaced == Replaced(todo, job.current, job.desired)
        deleted  == {p \in todo : job.desired[p] = Nothing}
    IN IF replaced # {} THEN replaced ELSE IF deleted # {} THEN deleted ELSE todo

TakePath(p) ==
    /\ at = "next" /\ p \in First(job.todo)
    /\ job' = [job EXCEPT !.path = p]
    /\ Goto(IF p \in Replaced(job.todo, job.current, job.desired) THEN "journal" ELSE "recheck")
    /\ UNCHANGED <<disk, links, history, spent>>

AllDone ==
    /\ at = "next" /\ job.todo = {}
    /\ Goto("verify")
    /\ UNCHANGED <<disk, links, job, history, spent>>

Done(p) == [job EXCEPT !.todo = @ \ {p}, !.path = NoPath]

Changed(p, entry) ==
    /\ dir' = [dir EXCEPT ![p] = entry]
    /\ put' = [put EXCEPT ![p] = entry]
    /\ had' = [had EXCEPT ![p] = @ \cup {entry}]

Recheck ==
    /\ at = "recheck"
    /\ LET p == job.path
       IN IF dir[p] = job.current[p]
          THEN Goto(IF job.desired[p] = Nothing THEN "unlink" ELSE "place") /\ UNCHANGED job
          ELSE End
    /\ UNCHANGED <<disk, links, history, spent>>

Unlink ==
    /\ at = "unlink"
    /\ IF dir[job.path] = Nothing THEN End /\ UNCHANGED <<dir, put, had>>
       ELSE Changed(job.path, Nothing) /\ job' = Done(job.path) /\ Goto("next")
    /\ UNCHANGED <<temp, journal, links, owed, exposed, spent>>

(* A new path is linked, which does not overwrite; an old one is replaced. *)
Place ==
    /\ at = "place"
    /\ IF job.current[job.path] = Nothing /\ dir[job.path] # Nothing
       THEN End /\ UNCHANGED <<dir, put, had>>
       ELSE Changed(job.path, job.desired[job.path]) /\ job' = Done(job.path) /\ Goto("next")
    /\ UNCHANGED <<temp, journal, links, owed, exposed, spent>>

-----------------------------------------------------------------------------
(* _replace_entry(): prepare, move the original away, publish, settle. *)

WriteJournal ==
    /\ at = "journal"
    /\ journal' = [journal EXCEPT ![job.link] = job.path]
    /\ Goto("prepare")
    /\ UNCHANGED <<dir, temp, links, job, history, spent>>

Prepare ==
    /\ at = "prepare"
    /\ temp' = [temp EXCEPT ![job.link].prepared = job.desired[job.path]]
    /\ IF dir[job.path] = job.current[job.path] THEN Goto("move") /\ UNCHANGED job
       ELSE Goto("settle") /\ job' = [job EXCEPT !.failed = TRUE]
    /\ UNCHANGED <<dir, journal, links, history, spent>>

Move ==
    /\ at = "move"
    /\ IF dir[job.path] = Nothing
       THEN Goto("settle") /\ job' = [job EXCEPT !.failed = TRUE] /\ UNCHANGED <<dir, temp>>
       ELSE /\ temp' = [temp EXCEPT ![job.link].original = dir[job.path]]
            /\ dir' = [dir EXCEPT ![job.path] = Nothing]
            /\ Goto("clear") /\ UNCHANGED job
    /\ UNCHANGED <<journal, links, history, spent>>

Clear ==
    /\ at = "clear"
    /\ IF dir[job.path] = Nothing THEN Goto("publish") /\ UNCHANGED job
       ELSE Goto("settle") /\ job' = [job EXCEPT !.failed = TRUE]
    /\ UNCHANGED <<disk, links, history, spent>>

Publish ==
    /\ at = "publish"
    /\ Changed(job.path, temp[job.link].prepared)
    /\ temp' = [temp EXCEPT ![job.link].prepared = Nothing]
    /\ Goto("settle")
    /\ UNCHANGED <<journal, links, job, owed, exposed, spent>>

(* _settle_replacement(): put an unpublished original back, or refuse to     *)
(* choose between it and a file that appeared meanwhile; else discard.       *)
SettleDiscards ==               \* mutant of Settle: discards whatever happened
    /\ at = "settle"
    /\ temp' = [temp EXCEPT ![job.link] = NoTemp]
    /\ Goto("settled")
    /\ UNCHANGED <<dir, journal, links, job, history, spent>>

Settle ==
    /\ at = "settle"
    /\ LET w == job.link
           p == journal[w]
           aside     == temp[w].original # Nothing
           published == temp[w].prepared = Nothing
       IN \/ /\ aside /\ dir[p] = Nothing
             /\ Changed(p, temp[w].original)
             /\ temp' = [temp EXCEPT ![w].original = Nothing]
             /\ UNCHANGED <<at, job>>
          \/ /\ aside /\ dir[p] # Nothing /\ ~published
             /\ End /\ UNCHANGED <<dir, temp, put, had>>
          \/ /\ ~aside \/ (dir[p] # Nothing /\ published)
             /\ temp' = [temp EXCEPT ![w] = NoTemp]
             /\ Goto("settled") /\ UNCHANGED <<dir, put, had, job>>
    /\ UNCHANGED <<journal, links, owed, exposed, spent>>

Settled ==
    /\ at = "settled"
    /\ journal' = [journal EXCEPT ![job.link] = NoPath]
    /\ IF job.path = NoPath THEN Goto("sweep") /\ UNCHANGED job
       ELSE IF job.failed THEN End
       ELSE job' = Done(job.path) /\ Goto("next")
    /\ UNCHANGED <<dir, temp, links, history, spent>>

-----------------------------------------------------------------------------
(* _verify(); then the baseline is what was applied.  A switch to the local   *)
(* directory saves it as it is now, and both sides have that.                *)

Verify ==
    /\ at = "verify"
    /\ IF /\ Verified(job.base, job.desired, dir)
          /\ job.kind # "apply" => dir = job.desired
       THEN Goto("record") /\ UNCHANGED job
       ELSE End
    /\ UNCHANGED <<disk, links, history, spent>>

Record ==
    /\ at = "record"
    /\ base' = [base EXCEPT ![job.link] = job.desired]
    /\ owed' = Released(base[job.link])
    /\ token' = [token EXCEPT ![job.link] = NoToken]
    /\ End
    /\ UNCHANGED <<disk, policy, head, previous, backup, stored, put, had, exposed, spent>>

Merge ==
    /\ at = "record" /\ job.kind = "apply"
    /\ job' = [job EXCEPT !.desired = dir]
    /\ stored' = [stored EXCEPT ![job.link] = @ \cup {dir}]
    /\ Goto("merged")
    /\ UNCHANGED <<disk, rows, history, spent>>

RecordMerged ==
    /\ at = "merged"
    /\ base' = [base EXCEPT ![job.link] = job.desired]
    /\ head' = [head EXCEPT ![job.link] = job.desired]
    /\ previous' = [previous EXCEPT ![job.link] = head[job.link]]
    /\ owed' = Released(base[job.link])
    /\ token' = [token EXCEPT ![job.link] = NoToken]
    /\ End
    /\ UNCHANGED <<disk, policy, backup, stored, put, had, exposed, spent>>

(* An operation fails: the finally block of a replacement settles it. *)
Fails ==
    /\ at # "idle" /\ Fault
    /\ IF at \in {"prepare", "move", "clear", "publish"}
       THEN Goto("settle") /\ job' = [job EXCEPT !.failed = TRUE]
       ELSE End
    /\ UNCHANGED <<disk, links, history>>

Crash ==
    /\ at # "idle" /\ Fault /\ End
    /\ UNCHANGED <<disk, links, history>>

-----------------------------------------------------------------------------
Init ==
    /\ dir = [p \in Paths |-> Entry("file", 1)]
    /\ temp = [w \in Links |-> NoTemp]
    /\ journal = [w \in Links |-> NoPath]
    /\ policy \in [Links -> {"manual_apply", "mirror_strict"}]
    /\ \A v, w \in Links : v # w => policy[w] = "manual_apply"   \* those of a local home
    /\ head = [w \in Links |-> dir]
    /\ base \in [Links -> {dir, Empty}]       \* some have no baseline yet
    /\ previous = [w \in Links |-> Empty] /\ backup = [w \in Links |-> Empty]
    /\ stored = [w \in Links |-> {dir}]
    /\ token = [w \in Links |-> NoToken]
    /\ at = "idle" /\ job = NoJob
    /\ put = dir /\ owed = dir
    /\ had = [p \in Paths |-> {Nothing, dir[p]}]
    /\ exposed = {}
    /\ spent = [edits |-> 0, revisions |-> 0, troubles |-> 0]

Apply ==
    \/ Check \/ (\E p \in Paths : TakePath(p)) \/ AllDone \/ Recheck \/ Unlink \/ Place
    \/ WriteJournal \/ Prepare \/ Move \/ Clear \/ Publish
    \/ Verify \/ Record \/ Merge \/ RecordMerged

Next ==
    \/ \E p \in Paths : Edits(p) \/ Deletes(p)
    \/ \E w \in Links : CheckpointAgain(w) \/ \E p \in Paths : Revises(w, p)
    \/ \E w \in Links, kind \in {"preview", "apply", "mirror", "checkpoint"} : Begin(w, kind)
    \/ \E w \in Links, action \in {"keep_host", "keep_sandbox"} : Resolve(w, action)
    \/ Recover \/ Sweep \/ Compare \/ Apply \/ Settle \/ Settled
    \/ Fails \/ Crash

Spec == Init /\ [][Next]_vars

-----------------------------------------------------------------------------
Replacing == {"journal", "prepare", "move", "clear", "publish"}
Tidy == {"compare", "check", "next", "recheck", "unlink", "place", "journal", "verify", "record", "merged"}

DiskOK ==
    /\ dir \in Manifests
    /\ temp \in [Links -> [original : Entries, prepared : Entries]]
    /\ journal \in [Links -> Paths \cup {NoPath}]
LinksOK ==
    /\ policy \in [Links -> {"manual_apply", "mirror_strict"}]
    /\ head \in [Links -> Manifests] /\ previous \in [Links -> Manifests]
    /\ base \in [Links -> Manifests] /\ backup \in [Links -> Manifests]
    /\ stored \in [Links -> SUBSET Manifests]
    /\ spent \in [edits : Nat, revisions : Nat, troubles : Nat]
JobOK ==
    /\ job \in [link : Links \cup {NoPath}, path : Paths \cup {NoPath}, todo : SUBSET Paths, failed : BOOLEAN,
               current : Manifests, desired : Manifests, base : Manifests,
               kind : {"none", "preview", "apply", "mirror", "checkpoint", "force"}]
    /\ at # "idle" => job.link \in Links
    /\ at \in Replacing \cup {"recheck", "unlink", "place"} => job.path \in Paths
HistoryOK ==
    /\ put \in Manifests /\ owed \in Manifests
    /\ had \in [Paths -> SUBSET Entries]
TypeOK == DiskOK /\ LinksOK /\ JobOK /\ HistoryOK

(* What somebody wrote into the directory is there, or in a revision that is *)
(* in the store still, whatever checkpoints have collected: one of before a  *)
(* baseline both sides had moved on, or the backup of a resolution until the *)
(* next resolution.  The exception is what was written while the very path   *)
(* was being changed ("files are rechecked before replacement",              *)
(* docs/project-workspaces.md:276).                                          *)
EditsSurvive ==
    \A p \in Paths : \/ owed[p] \in {Nothing, dir[p]} \cup exposed
                     \/ \E w \in Links : \E revision \in stored[w] : revision[p] = owed[p]

(* At every step, so after a crash in any of them, a path has the entry it    *)
(* was given last, or a journal leads to the directory that keeps it ("a      *)
(* durable recovery record restores that backup", docs:285).                 *)
NothingVanishes ==
    \A p \in Paths : \/ dir[p] = put[p]
                     \/ \E w \in Links : journal[w] = p /\ temp[w].original = put[p]

(* A baseline names entries the directory really had: a file that did not    *)
(* arrive would be taken for one that was deleted locally.                   *)
BaselineWasThere == \A w \in Links, p \in Paths : base[w][p] \in had[p]

-----------------------------------------------------------------------------
(* Why: the replacement journal is open from its first write to its          *)
(* settlement, and none is left when the sweep or a new replacement comes.   *)
Journaled ==
    /\ at \in Replacing \ {"journal"} => journal[job.link] = job.path
    /\ at = "settle" => journal[job.link] # NoPath
    /\ at \in Tidy \cup {"sweep"} => journal[job.link] = NoPath
Prepared ==
    /\ at \in Tidy \cup {"prepare", "settled"} => temp[job.link] = NoTemp
    /\ at = "move" => temp[job.link].original = Nothing

(* What the comparison starts from is the baseline, and was there. *)
Compared ==
    /\ BaselineWasThere
    /\ \A p \in Paths : /\ {Nothing, dir[p], job.base[p]} \subseteq had[p]
                        /\ at \in {"record", "merged"} => job.desired[p] \in had[p]
    /\ job.kind \in {"apply", "mirror"} => job.base = base[job.link]
    /\ job.kind = "mirror" => policy[job.link] = "mirror_strict"

(* What a row names, or will, is in the store. *)
RowsAreStored ==
    /\ \A w \in Links : {head[w], previous[w], base[w], backup[w]} \subseteq stored[w] \cup {Empty}
    /\ at # "idle" => job.desired \in stored[job.link] \cup {Empty}

(* So what is about to be replaced is in a baseline or a backup, but for what *)
(* came too late.                                                            *)
Named(p) == {Nothing} \cup {base[w][p] : w \in Links} \cup {backup[w][p] : w \in Links}
Kept(p) == owed[p] \in Named(p) \cup exposed
Replaceable ==
    /\ \A p \in Paths : owed[p] = dir[p] \/ Kept(p)
    /\ \A p \in Paths : p \in job.todo \/ job.kind = "force" => job.current[p] \in Named(p)
    /\ at \in {"recheck", "journal", "prepare"} => job.path \in job.todo
    /\ at \in {"unlink", "place", "move", "publish"} => Kept(job.path)

IInv == TypeOK /\ Journaled /\ Prepared /\ Compared /\ RowsAreStored /\ Replaceable

(* And a workspace that has the directory for itself finds what it moved      *)
(* away: a path is empty only from its move to its settlement, under a journal. *)
Away == \A p \in Paths : \/ dir[p] = put[p]
                         \/ /\ dir[p] = Nothing /\ put[p] # Nothing
                            /\ \E w \in Links : journal[w] = p /\ temp[w].original = put[p]
=============================================================================
