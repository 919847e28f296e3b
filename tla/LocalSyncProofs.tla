-------------------------- MODULE LocalSyncProofs --------------------------
(***************************************************************************)
(* Why an application of files, with checkpoints that collect revisions      *)
(* between its steps, overwrites no edit but those a row keeps, and has a    *)
(* true baseline, for any workspaces, paths, edits and faults; and why an    *)
(* interrupted replacement loses nothing in a directory that one workspace   *)
(* alone uses (with two it can: the sweep of one deletes what the other      *)
(* moved away).                                                              *)
(***************************************************************************)
EXTENDS LocalSync, TLAPS

Alone == \A v, w \in Links : v = w

(* The journal and the replacement directory follow the writer. *)
Machine == TypeOK /\ Journaled /\ Prepared

USE DEF disk, rows, links, history

(* The values the actions are built from. *)
LEMMA Values ==
    /\ NoPath \notin Paths /\ NoPath \notin Links
    /\ Nothing \in Entries /\ Empty \in Manifests
    /\ NoTemp \in [original : Entries, prepared : Entries]
    /\ \A type \in Types, n \in Nat : Entry(type, n) \in Entries /\ Entry(type, n) # Nothing
    /\ NoJob.path = NoPath
<1>1. NoPath \notin Paths /\ NoPath \notin Links
  BY SyncAssumption DEF SyncAssumption
<1>2. Nothing \in Entries /\ \A type \in Types, n \in Nat : Entry(type, n) \in Entries /\ Entry(type, n) # Nothing
  BY DEF Nothing, Entries, Entry, Types
<1>3. Empty \in Manifests /\ NoTemp \in [original : Entries, prepared : Entries]
  BY <1>2 DEF Empty, Manifests, NoTemp
<1> QED
  BY <1>1, <1>2, <1>3 DEF NoJob

LEMMA EndIsTyped == ASSUME End PROVE JobOK'
BY Values DEF End, NoJob, JobOK, Replacing, Manifests

(* A step that leaves the job as it is, or marks it failed. *)
LEMMA JobGoesOn ==
  ASSUME JobOK, at # "idle", at \in Replacing \/ at' = "settle",
         job' = job \/ job' = [job EXCEPT !.failed = TRUE]
  PROVE  JobOK'
<1>1. job'.link = job.link /\ job'.path = job.path
  BY DEF JobOK
<1> QED BY <1>1 DEF JobOK, Replacing

LEMMA ChangeIsTyped ==
  ASSUME TypeOK, NEW p \in Paths, NEW e \in Entries, Changed(p, e), owed' = owed
  PROVE  dir' \in Manifests /\ HistoryOK'
BY DEF TypeOK, DiskOK, HistoryOK, Changed, Manifests

LEMMA InitMachine == Init => Machine /\ Away
<1> SUFFICES ASSUME Init PROVE Machine /\ Away
  OBVIOUS
<1>1. dir \in Manifests
  BY Values DEF Init, Manifests, Types
<1>2. TypeOK
  BY <1>1, Values DEF Init, TypeOK, DiskOK, LinksOK, JobOK, HistoryOK, NoJob, Replacing, Manifests
<1>3. Away /\ Journaled /\ Prepared
  BY DEF Init, Away, Journaled, Prepared, Replacing, Tidy
<1> QED
  BY <1>2, <1>3 DEF Machine

LEMMA ReleasedIsTyped ==
  ASSUME HistoryOK, NEW revision PROVE Released(revision) \in Manifests
BY Values DEF HistoryOK, Manifests, Released

LEMMA EditKeeps ==
  ASSUME Machine, NEW p \in Paths, NEW e \in Entries, Edit(p, e)
  PROVE  Machine' /\ (Alone /\ Away => Away')
<1>1. TypeOK'
  <2>1. DiskOK'
    BY Values DEF Machine, TypeOK, DiskOK, JobOK, Manifests, Edit
  <2>2. LinksOK'
    BY Values DEF Machine, TypeOK, LinksOK, Edit
  <2>3. JobOK'
    BY Values DEF Machine, TypeOK, DiskOK, LinksOK, JobOK, Manifests, Edit, Goto, Replacing
  <2>4. HistoryOK'
    BY DEF Machine, TypeOK, HistoryOK, JobOK, Manifests, Edit
  <2> QED
    BY <2>1, <2>2, <2>3, <2>4 DEF TypeOK
<1>2. ASSUME Alone, Away PROVE Away'
  BY <1>2, Values DEF Alone, Machine, TypeOK, DiskOK, JobOK, HistoryOK, Manifests, Away, Journaled, Prepared, Edit, Replacing, Tidy, NoTemp
<1>3. Journaled' /\ Prepared'
  BY Values DEF Machine, TypeOK, DiskOK, JobOK, Journaled, Prepared, Edit, Goto, End, Replacing, Tidy, NoTemp
<1> QED
  BY <1>1, <1>2, <1>3 DEF Machine

(* A checkpoint is about the revisions of a workspace alone. *)
LEMMA SaveIsTyped ==
  ASSUME LinksOK, NEW w \in Links, NEW files \in Manifests, Save(w, files)
  PROVE  head' \in [Links -> Manifests] /\ previous' \in [Links -> Manifests] /\ stored' \in [Links -> SUBSET Manifests]
<1>1. PICK before, kept :
        /\ head' = [head EXCEPT ![w] = files] /\ previous' = [previous EXCEPT ![w] = before]
        /\ stored' = [stored EXCEPT ![w] = kept]
        /\ before \in {previous[w], head[w]} /\ kept \subseteq stored[w] \cup {files}
  BY DEF Save
<1>2. before \in Manifests /\ kept \in SUBSET Manifests
  BY <1>1 DEF LinksOK
<1> QED
  BY <1>1, <1>2 DEF LinksOK

LEMMA CheckpointKeeps ==
  ASSUME Machine, NEW w \in Links, NEW files \in Manifests, Checkpoint(w, files),
         spent' \in [edits : Nat, revisions : Nat, troubles : Nat]
  PROVE  Machine' /\ (Alone /\ Away => Away')
<1>1. LinksOK'
  BY SaveIsTyped DEF Machine, TypeOK, LinksOK, Checkpoint
<1>2. UNCHANGED <<dir, temp, journal, at, job, put, owed, had>>
  BY DEF Checkpoint
<1>3. DiskOK' /\ JobOK' /\ HistoryOK'
  BY <1>2 DEF Machine, TypeOK, DiskOK, JobOK, HistoryOK
<1>4. Journaled' /\ Prepared' /\ (Away => Away')
  BY <1>2 DEF Machine, Journaled, Prepared, Away
<1> QED
  BY <1>1, <1>3, <1>4 DEF Machine, TypeOK

(* The files of a revision are those of the head but for one. *)
LEMMA CheckpointsAreTyped ==
  ASSUME Machine, NEW w \in Links
  PROVE  /\ CheckpointAgain(w) => \E files \in Manifests : Checkpoint(w, files) /\ spent' \in [edits : Nat, revisions : Nat, troubles : Nat]
         /\ \A p \in Paths : Revises(w, p) =>
              \E files \in Manifests : Checkpoint(w, files) /\ spent' \in [edits : Nat, revisions : Nat, troubles : Nat]
<1>1. head[w] \in Manifests /\ spent \in [edits : Nat, revisions : Nat, troubles : Nat]
  BY DEF Machine, TypeOK, LinksOK
<1>2. ASSUME NEW p \in Paths, NEW e \in Entries, Revise(w, p, e)
      PROVE  \E files \in Manifests : Checkpoint(w, files) /\ spent' \in [edits : Nat, revisions : Nat, troubles : Nat]
  <2>1. [head[w] EXCEPT ![p] = e] \in Manifests
    BY <1>1 DEF Manifests
  <2>2. Checkpoint(w, [head[w] EXCEPT ![p] = e])
    BY <1>2 DEF Revise
  <2>3. spent' \in [edits : Nat, revisions : Nat, troubles : Nat]
    BY <1>1, <1>2 DEF Revise
  <2> QED
    BY <2>1, <2>2, <2>3
<1>3. \A type \in Types : Entry(type, 20 + spent.revisions) \in Entries
  BY <1>1, Values
<1> QED
  BY <1>1, <1>2, <1>3, Values DEF CheckpointAgain, Revises

LEMMA BeginKeeps ==
  ASSUME Machine, NEW w \in Links, NEW kind, Begin(w, kind)
  PROVE  Machine' /\ (Alone /\ Away => Away')
<1>1. TypeOK'
  <2>1. DiskOK'
    BY Values DEF Machine, TypeOK, DiskOK, JobOK, Manifests, Begin
  <2>2. LinksOK'
    BY Values DEF Machine, TypeOK, DiskOK, LinksOK, JobOK, Manifests, Begin
  <2>3. JobOK'
    <3>1. head[w] \in Manifests /\ base[w] \in Manifests /\ kind \in {"preview", "apply", "mirror", "checkpoint"}
      BY DEF Machine, TypeOK, LinksOK, Begin, Kinds
    <3> QED
      BY <3>1, Values DEF JobOK, Begin, NoJob, Goto, Replacing
  <2>4. HistoryOK'
    BY DEF Machine, TypeOK, HistoryOK, JobOK, Manifests, Begin
  <2> QED
    BY <2>1, <2>2, <2>3, <2>4 DEF TypeOK
<1>2. ASSUME Alone, Away PROVE Away'
  BY <1>2, Values DEF Alone, Machine, TypeOK, DiskOK, JobOK, HistoryOK, Manifests, Away, Journaled, Prepared, Begin, Replacing, Tidy, NoTemp
<1>3. Journaled' /\ Prepared'
  BY Values DEF Machine, TypeOK, DiskOK, JobOK, Journaled, Prepared, Begin, Goto, End, Replacing, Tidy, NoTemp
<1> QED
  BY <1>1, <1>2, <1>3 DEF Machine

LEMMA ResolveKeeps ==
  ASSUME Machine, NEW w \in Links, NEW action, Resolve(w, action)
  PROVE  Machine' /\ (Alone /\ Away => Away')
<1>1. TypeOK'
  <2>1. DiskOK'
    BY Values DEF Machine, TypeOK, DiskOK, JobOK, Manifests, Resolve
  <2>a. PICK desired :
          /\ desired = head[w] \/ desired = [p \in Paths |-> IF p \in StrictConflicts(base[w], head[w], dir) THEN dir[p] ELSE head[w][p]]
          /\ head' = [head EXCEPT ![w] = desired] /\ stored' = [stored EXCEPT ![w] = @ \cup {dir, desired}]
          /\ previous' = [previous EXCEPT ![w] = IF desired = head[w] THEN @ ELSE head[w]]
          /\ \E kind \in {"force", "mirror"} :
               job' = [NoJob EXCEPT !.link = w, !.kind = kind, !.desired = desired, !.base = base[w], !.current = dir]
    BY DEF Resolve
  <2>b. desired \in Manifests /\ head[w] \in Manifests /\ base[w] \in Manifests /\ dir \in Manifests
    <3>1. head[w] \in Manifests /\ base[w] \in Manifests /\ dir \in Manifests
      BY DEF Machine, TypeOK, DiskOK, LinksOK
    <3>2. \A C : [p \in Paths |-> IF p \in C THEN dir[p] ELSE head[w][p]] \in Manifests
      BY <3>1 DEF Manifests
    <3> QED
      BY <2>a, <3>1, <3>2
  <2>2. LinksOK'
    <3>1. head' \in [Links -> Manifests] /\ previous' \in [Links -> Manifests] /\ stored' \in [Links -> SUBSET Manifests]
      BY <2>a, <2>b DEF Machine, TypeOK, LinksOK
    <3>2. backup' \in [Links -> Manifests] /\ UNCHANGED <<policy, base, spent>>
      BY <2>b DEF Machine, TypeOK, LinksOK, Resolve
    <3> QED
      BY <3>1, <3>2 DEF Machine, TypeOK, LinksOK
  <2>3. JobOK'
    <3>1. at' = "recover"
      BY DEF Resolve, Goto
    <3>2. PICK kind \in {"force", "mirror"} :
            job' = [NoJob EXCEPT !.link = w, !.kind = kind, !.desired = desired, !.base = base[w], !.current = dir]
      BY <2>a
    <3> QED
      BY <2>b, <3>1, <3>2, Values DEF JobOK, NoJob, Replacing
  <2>4. HistoryOK'
    <3>1. owed' \in Manifests
      BY ReleasedIsTyped DEF Machine, TypeOK, HistoryOK, Resolve
    <3> QED
      BY <3>1 DEF Machine, TypeOK, HistoryOK, Resolve
  <2> QED
    BY <2>1, <2>2, <2>3, <2>4 DEF TypeOK
<1>2. ASSUME Alone, Away PROVE Away'
  BY <1>2, Values DEF Alone, Machine, TypeOK, DiskOK, JobOK, HistoryOK, Manifests, Away, Journaled, Prepared, Resolve, Replacing, Tidy, NoTemp
<1>3. Journaled' /\ Prepared'
  BY Values DEF Machine, TypeOK, DiskOK, JobOK, Journaled, Prepared, Resolve, Goto, End, Replacing, Tidy, NoTemp
<1> QED
  BY <1>1, <1>2, <1>3 DEF Machine

LEMMA RecoverKeeps ==
  ASSUME Machine, Recover
  PROVE  Machine' /\ (Alone /\ Away => Away')
<1>1. TypeOK'
  <2>1. DiskOK'
    BY Values DEF Machine, TypeOK, DiskOK, JobOK, Manifests, Recover
  <2>2. LinksOK'
    BY Values DEF Machine, TypeOK, DiskOK, LinksOK, JobOK, Manifests, Recover
  <2>3. JobOK'
    <3>1. CASE UNCHANGED job
      BY <3>1, Values DEF Machine, TypeOK, JobOK, Recover, Goto, Replacing
    <3>2. CASE job' = [job EXCEPT !.path = NoPath]
      BY <3>2, Values DEF Machine, TypeOK, JobOK, Recover, Goto, Replacing
    <3> QED
      BY <3>1, <3>2 DEF Recover
  <2>4. HistoryOK'
    BY DEF Machine, TypeOK, HistoryOK, JobOK, Manifests, Recover
  <2> QED
    BY <2>1, <2>2, <2>3, <2>4 DEF TypeOK
<1>2. ASSUME Alone, Away PROVE Away'
  BY <1>2, Values DEF Alone, Machine, TypeOK, DiskOK, JobOK, HistoryOK, Manifests, Away, Journaled, Prepared, Recover, Replacing, Tidy, NoTemp
<1>3. Journaled' /\ Prepared'
  BY Values DEF Machine, TypeOK, DiskOK, JobOK, Journaled, Prepared, Recover, Goto, End, Replacing, Tidy, NoTemp
<1> QED
  BY <1>1, <1>2, <1>3 DEF Machine

LEMMA SweepKeeps ==
  ASSUME Machine, Sweep
  PROVE  Machine' /\ (Alone /\ Away => Away')
<1>1. TypeOK'
  <2>1. DiskOK'
    BY Values DEF Machine, TypeOK, DiskOK, JobOK, Manifests, Sweep
  <2>2. LinksOK'
    BY Values DEF Machine, TypeOK, DiskOK, LinksOK, JobOK, Manifests, Sweep
  <2>3. JobOK'
    <3>1. CASE End
      BY <3>1, EndIsTyped
    <3>2. CASE ~End
      BY <3>2, Values DEF Machine, TypeOK, DiskOK, JobOK, Manifests, Sweep, Goto, Replacing
    <3> QED
      BY <3>1, <3>2
  <2>4. HistoryOK'
    BY DEF Machine, TypeOK, HistoryOK, JobOK, Manifests, Sweep
  <2> QED
    BY <2>1, <2>2, <2>3, <2>4 DEF TypeOK
<1>2. ASSUME Alone, Away PROVE Away'
  BY <1>2, Values DEF Alone, Machine, TypeOK, DiskOK, JobOK, HistoryOK, Manifests, Away, Journaled, Prepared, Sweep, Replacing, Tidy, NoTemp
<1>3. Journaled' /\ Prepared'
  BY Values DEF Machine, TypeOK, DiskOK, JobOK, Journaled, Prepared, Sweep, Goto, End, Replacing, Tidy, NoTemp
<1> QED
  BY <1>1, <1>2, <1>3 DEF Machine

LEMMA CompareKeeps ==
  ASSUME Machine, Compare
  PROVE  Machine' /\ (Alone /\ Away => Away')
<1>1. TypeOK'
  <2>1. DiskOK'
    BY Values DEF Machine, TypeOK, DiskOK, JobOK, Manifests, Compare
  <2>2. LinksOK'
    BY Values DEF Machine, TypeOK, DiskOK, LinksOK, JobOK, Manifests, Compare
  <2>3. JobOK'
    <3>1. CASE End
      BY <3>1, EndIsTyped
    <3>2. CASE ~End
      <4>1. \E old \in {job.base, dir}, todo \in SUBSET Paths :
              job' = [job EXCEPT !.current = dir, !.base = old, !.todo = todo]
        BY <3>2 DEF Compare, Changes
      <4>2. at' \in {"check", "verify", "record"}
        BY <3>2 DEF Compare, Goto
      <4>3. at = "compare"
        BY DEF Compare
      <4>4. job.link \in Links /\ dir \in Manifests /\ JobOK
        BY <4>3 DEF Machine, TypeOK, DiskOK, JobOK
      <4>5. PICK old \in Manifests, todo \in SUBSET Paths :
              job' = [job EXCEPT !.current = dir, !.base = old, !.todo = todo]
        BY <4>1, <4>4 DEF JobOK
      <4>6. job'.link = job.link
        BY <4>4, <4>5 DEF JobOK
      <4> QED
        BY <4>2, <4>4, <4>5, <4>6 DEF JobOK, Replacing
    <3> QED
      BY <3>1, <3>2
  <2>4. HistoryOK'
    BY DEF Machine, TypeOK, HistoryOK, JobOK, Manifests, Compare
  <2> QED
    BY <2>1, <2>2, <2>3, <2>4 DEF TypeOK
<1>2. ASSUME Alone, Away PROVE Away'
  BY <1>2, Values DEF Alone, Machine, TypeOK, DiskOK, JobOK, HistoryOK, Manifests, Away, Journaled, Prepared, Compare, Replacing, Tidy, NoTemp
<1>3. Journaled' /\ Prepared'
  <2>1. journal[job.link] = NoPath /\ temp[job.link] = NoTemp
    BY DEF Machine, Journaled, Prepared, Tidy, Compare
  <2>2. CASE End
    BY <2>2 DEF End, Journaled, Prepared, Replacing, Tidy
  <2>3. CASE ~End
    <3>1. \E old \in {job.base, dir}, todo \in SUBSET Paths :
            job' = [job EXCEPT !.current = dir, !.base = old, !.todo = todo]
      BY <2>3 DEF Compare, Changes
    <3>2. job'.link = job.link
      BY <3>1 DEF Machine, TypeOK, JobOK
    <3>3. at' \in {"check", "verify", "record"} /\ UNCHANGED <<journal, temp>>
      BY <2>3 DEF Compare, Goto, disk
    <3> QED BY <2>1, <3>2, <3>3 DEF Journaled, Prepared, Replacing, Tidy
  <2> QED BY <2>2, <2>3
<1> QED
  BY <1>1, <1>2, <1>3 DEF Machine

LEMMA CheckKeeps ==
  ASSUME Machine, Check
  PROVE  Machine' /\ (Alone /\ Away => Away')
<1>1. TypeOK'
  <2>1. DiskOK'
    BY Values DEF Machine, TypeOK, DiskOK, JobOK, Manifests, Check
  <2>2. LinksOK'
    BY Values DEF Machine, TypeOK, DiskOK, LinksOK, JobOK, Manifests, Check
  <2>3. JobOK'
    <3>1. CASE End
      BY <3>1, EndIsTyped
    <3>2. CASE ~End
      BY <3>2, Values DEF Machine, TypeOK, DiskOK, JobOK, Manifests, Check, Goto, Replacing
    <3> QED
      BY <3>1, <3>2
  <2>4. HistoryOK'
    BY DEF Machine, TypeOK, HistoryOK, JobOK, Manifests, Check
  <2> QED
    BY <2>1, <2>2, <2>3, <2>4 DEF TypeOK
<1>2. ASSUME Alone, Away PROVE Away'
  BY <1>2, Values DEF Alone, Machine, TypeOK, DiskOK, JobOK, HistoryOK, Manifests, Away, Journaled, Prepared, Check, Replacing, Tidy, NoTemp
<1>3. Journaled' /\ Prepared'
  BY Values DEF Machine, TypeOK, DiskOK, JobOK, Journaled, Prepared, Check, Goto, End, Replacing, Tidy, NoTemp
<1> QED
  BY <1>1, <1>2, <1>3 DEF Machine

LEMMA TakePathKeeps ==
  ASSUME Machine, NEW p \in Paths, TakePath(p)
  PROVE  Machine' /\ (Alone /\ Away => Away')
<1>1. TypeOK'
  <2>1. DiskOK'
    BY Values DEF Machine, TypeOK, DiskOK, JobOK, Manifests, TakePath
  <2>2. LinksOK'
    BY Values DEF Machine, TypeOK, DiskOK, LinksOK, JobOK, Manifests, TakePath
  <2>3. JobOK'
    BY Values DEF Machine, TypeOK, DiskOK, LinksOK, JobOK, Manifests, TakePath, First, Replaced, Goto, Replacing
  <2>4. HistoryOK'
    BY DEF Machine, TypeOK, HistoryOK, JobOK, Manifests, TakePath
  <2> QED
    BY <2>1, <2>2, <2>3, <2>4 DEF TypeOK
<1>2. ASSUME Alone, Away PROVE Away'
  BY <1>2, Values DEF Alone, Machine, TypeOK, DiskOK, JobOK, HistoryOK, Manifests, Away, Journaled, Prepared, TakePath, Replacing, Tidy, NoTemp
<1>3. Journaled' /\ Prepared'
  BY Values DEF Machine, TypeOK, DiskOK, JobOK, Journaled, Prepared, TakePath, Goto, End, Replacing, Tidy, NoTemp
<1> QED
  BY <1>1, <1>2, <1>3 DEF Machine

LEMMA AllDoneKeeps ==
  ASSUME Machine, AllDone
  PROVE  Machine' /\ (Alone /\ Away => Away')
<1>1. TypeOK'
  <2>1. DiskOK'
    BY Values DEF Machine, TypeOK, DiskOK, JobOK, Manifests, AllDone
  <2>2. LinksOK'
    BY Values DEF Machine, TypeOK, DiskOK, LinksOK, JobOK, Manifests, AllDone
  <2>3. JobOK'
    BY Values DEF Machine, TypeOK, DiskOK, LinksOK, JobOK, Manifests, AllDone, Goto, Replacing
  <2>4. HistoryOK'
    BY DEF Machine, TypeOK, HistoryOK, JobOK, Manifests, AllDone
  <2> QED
    BY <2>1, <2>2, <2>3, <2>4 DEF TypeOK
<1>2. ASSUME Alone, Away PROVE Away'
  BY <1>2, Values DEF Alone, Machine, TypeOK, DiskOK, JobOK, HistoryOK, Manifests, Away, Journaled, Prepared, AllDone, Replacing, Tidy, NoTemp
<1>3. Journaled' /\ Prepared'
  BY Values DEF Machine, TypeOK, DiskOK, JobOK, Journaled, Prepared, AllDone, Goto, End, Replacing, Tidy, NoTemp
<1> QED
  BY <1>1, <1>2, <1>3 DEF Machine

LEMMA RecheckKeeps ==
  ASSUME Machine, Recheck
  PROVE  Machine' /\ (Alone /\ Away => Away')
<1>1. TypeOK'
  <2>1. DiskOK'
    BY Values DEF Machine, TypeOK, DiskOK, JobOK, Manifests, Recheck
  <2>2. LinksOK'
    BY Values DEF Machine, TypeOK, DiskOK, LinksOK, JobOK, Manifests, Recheck
  <2>3. JobOK'
    <3>1. CASE End
      BY <3>1, EndIsTyped
    <3>2. CASE ~End
      BY <3>2, Values DEF Machine, TypeOK, DiskOK, JobOK, Manifests, Recheck, Goto, Replacing
    <3> QED
      BY <3>1, <3>2
  <2>4. HistoryOK'
    BY DEF Machine, TypeOK, HistoryOK, JobOK, Manifests, Recheck
  <2> QED
    BY <2>1, <2>2, <2>3, <2>4 DEF TypeOK
<1>2. ASSUME Alone, Away PROVE Away'
  BY <1>2, Values DEF Alone, Machine, TypeOK, DiskOK, JobOK, HistoryOK, Manifests, Away, Journaled, Prepared, Recheck, Replacing, Tidy, NoTemp
<1>3. Journaled' /\ Prepared'
  BY Values DEF Machine, TypeOK, DiskOK, JobOK, Journaled, Prepared, Recheck, Goto, End, Replacing, Tidy, NoTemp
<1> QED
  BY <1>1, <1>2, <1>3 DEF Machine

LEMMA UnlinkKeeps ==
  ASSUME Machine, Unlink
  PROVE  Machine' /\ (Alone /\ Away => Away')
<1>a. job.path \in Paths /\ Nothing \in Entries /\ TypeOK /\ owed' = owed
  BY Values DEF Machine, TypeOK, JobOK, Manifests, Unlink, Replacing
<1>b. Changed(job.path, Nothing) \/ UNCHANGED <<dir, put, had>>
  BY DEF Unlink
<1>c. dir' \in Manifests /\ HistoryOK'
  BY <1>a, <1>b, ChangeIsTyped DEF TypeOK, DiskOK, HistoryOK
<1>1. TypeOK'
  <2>1. DiskOK'
    BY <1>c, Values DEF Machine, TypeOK, DiskOK, JobOK, Manifests, Unlink
  <2>2. LinksOK'
    BY Values DEF Machine, TypeOK, DiskOK, LinksOK, JobOK, Manifests, Unlink
  <2>3. JobOK'
    <3>1. CASE End
      BY <3>1, EndIsTyped
    <3>2. CASE ~End
      <4>1. job' = Done(job.path) /\ at' = "next" /\ job.link \in Links
        BY <3>2 DEF Machine, TypeOK, JobOK, Goto, Unlink
      <4> QED
        BY <4>1, Values DEF Machine, TypeOK, JobOK, Done, Replacing
    <3> QED
      BY <3>1, <3>2
  <2>4. HistoryOK'
    BY <1>c
  <2> QED
    BY <2>1, <2>2, <2>3, <2>4 DEF TypeOK
<1>2. ASSUME Alone, Away PROVE Away'
  BY <1>2, Values DEF Alone, Machine, TypeOK, DiskOK, JobOK, HistoryOK, Manifests, Away, Journaled, Prepared, Unlink, Changed, Replacing, Tidy, NoTemp
<1>3. Journaled' /\ Prepared'
  <2>1. journal[job.link] = NoPath /\ temp[job.link] = NoTemp
    BY DEF Machine, Journaled, Prepared, Tidy, Unlink
  <2>2. CASE End
    BY <2>2 DEF End, Journaled, Prepared, Replacing, Tidy
  <2>3. CASE job' = Done(job.path) /\ at' = "next"
    <3>1. job'.link = job.link
      BY <2>3 DEF Machine, TypeOK, JobOK, Done
    <3> QED
      BY <2>1, <2>3, <3>1 DEF Journaled, Prepared, Replacing, Tidy, Unlink
  <2> QED
    BY <2>2, <2>3 DEF Unlink, Goto
<1> QED
  BY <1>1, <1>2, <1>3 DEF Machine

LEMMA PlaceKeeps ==
  ASSUME Machine, Place
  PROVE  Machine' /\ (Alone /\ Away => Away')
<1>a. job.path \in Paths /\ job.desired[job.path] \in Entries /\ TypeOK /\ owed' = owed
  BY Values DEF Machine, TypeOK, JobOK, Manifests, Place, Replacing
<1>b. Changed(job.path, job.desired[job.path]) \/ UNCHANGED <<dir, put, had>>
  BY DEF Place
<1>c. dir' \in Manifests /\ HistoryOK'
  BY <1>a, <1>b, ChangeIsTyped DEF TypeOK, DiskOK, HistoryOK
<1>1. TypeOK'
  <2>1. DiskOK'
    BY <1>c, Values DEF Machine, TypeOK, DiskOK, JobOK, Manifests, Place
  <2>2. LinksOK'
    BY Values DEF Machine, TypeOK, DiskOK, LinksOK, JobOK, Manifests, Place
  <2>3. JobOK'
    <3>1. CASE End
      BY <3>1, EndIsTyped
    <3>2. CASE ~End
      <4>1. job' = Done(job.path) /\ at' = "next" /\ job.link \in Links
        BY <3>2 DEF Machine, TypeOK, JobOK, Goto, Place
      <4> QED
        BY <4>1, Values DEF Machine, TypeOK, JobOK, Done, Replacing
    <3> QED
      BY <3>1, <3>2
  <2>4. HistoryOK'
    BY <1>c
  <2> QED
    BY <2>1, <2>2, <2>3, <2>4 DEF TypeOK
<1>2. ASSUME Alone, Away PROVE Away'
  BY <1>2, Values DEF Alone, Machine, TypeOK, DiskOK, JobOK, HistoryOK, Manifests, Away, Journaled, Prepared, Place, Changed, Replacing, Tidy, NoTemp
<1>3. Journaled' /\ Prepared'
  <2>1. journal[job.link] = NoPath /\ temp[job.link] = NoTemp
    BY DEF Machine, Journaled, Prepared, Tidy, Place
  <2>2. CASE End
    BY <2>2 DEF End, Journaled, Prepared, Replacing, Tidy
  <2>3. CASE job' = Done(job.path) /\ at' = "next"
    <3>1. job'.link = job.link
      BY <2>3 DEF Machine, TypeOK, JobOK, Done
    <3> QED
      BY <2>1, <2>3, <3>1 DEF Journaled, Prepared, Replacing, Tidy, Place
  <2> QED
    BY <2>2, <2>3 DEF Place, Goto
<1> QED
  BY <1>1, <1>2, <1>3 DEF Machine

LEMMA WriteJournalKeeps ==
  ASSUME Machine, WriteJournal
  PROVE  Machine' /\ (Alone /\ Away => Away')
<1>1. TypeOK'
  <2>1. DiskOK'
    BY Values DEF Machine, TypeOK, DiskOK, JobOK, Manifests, WriteJournal
  <2>2. LinksOK'
    BY Values DEF Machine, TypeOK, DiskOK, LinksOK, JobOK, Manifests, WriteJournal
  <2>3. JobOK'
    BY Values DEF Machine, TypeOK, DiskOK, LinksOK, JobOK, Manifests, WriteJournal, Goto, Replacing
  <2>4. HistoryOK'
    BY DEF Machine, TypeOK, HistoryOK, JobOK, Manifests, WriteJournal
  <2> QED
    BY <2>1, <2>2, <2>3, <2>4 DEF TypeOK
<1>2. ASSUME Alone, Away PROVE Away'
  BY <1>2, Values DEF Alone, Machine, TypeOK, DiskOK, JobOK, HistoryOK, Manifests, Away, Journaled, Prepared, WriteJournal, Replacing, Tidy, NoTemp
<1>3. Journaled' /\ Prepared'
  BY Values DEF Machine, TypeOK, DiskOK, JobOK, Journaled, Prepared, WriteJournal, Goto, End, Replacing, Tidy, NoTemp
<1> QED
  BY <1>1, <1>2, <1>3 DEF Machine

LEMMA PrepareKeeps ==
  ASSUME Machine, Prepare
  PROVE  Machine' /\ (Alone /\ Away => Away')
<1>1. TypeOK'
  <2>1. DiskOK'
    <3>1. job.path \in Paths /\ job.link \in Links /\ dir[job.path] \in Entries /\ job.desired[job.path] \in Entries
      BY DEF Machine, TypeOK, DiskOK, JobOK, Manifests, Prepare, Replacing
    <3>2. temp' \in [Links -> [original : Entries, prepared : Entries]]
      BY <3>1 DEF Machine, TypeOK, DiskOK, Prepare
    <3>3. dir' \in Manifests /\ journal' \in [Links -> Paths \cup {NoPath}]
      BY <3>1, Values DEF Machine, TypeOK, DiskOK, Manifests, Prepare
    <3> QED
      BY <3>2, <3>3 DEF DiskOK
  <2>2. LinksOK'
    BY Values DEF Machine, TypeOK, DiskOK, LinksOK, JobOK, Manifests, Prepare
  <2>3. JobOK'
    <3>1. at \in Replacing /\ (job' = job \/ job' = [job EXCEPT !.failed = TRUE])
      BY DEF Prepare, Replacing
    <3> QED BY <3>1, JobGoesOn DEF Machine, TypeOK, Replacing
  <2>4. HistoryOK'
    BY DEF Machine, TypeOK, HistoryOK, JobOK, Manifests, Prepare
  <2> QED
    BY <2>1, <2>2, <2>3, <2>4 DEF TypeOK
<1>2. ASSUME Alone, Away PROVE Away'
  BY <1>2, Values DEF Alone, Machine, TypeOK, DiskOK, JobOK, HistoryOK, Manifests, Away, Journaled, Prepared, Prepare, Replacing, Tidy, NoTemp
<1>3. Journaled' /\ Prepared'
  BY Values DEF Machine, TypeOK, DiskOK, JobOK, Journaled, Prepared, Prepare, Goto, End, Replacing, Tidy, NoTemp
<1> QED
  BY <1>1, <1>2, <1>3 DEF Machine

LEMMA MoveKeeps ==
  ASSUME Machine, Move
  PROVE  Machine' /\ (Alone /\ Away => Away')
<1>1. TypeOK'
  <2>1. DiskOK'
    <3>1. job.path \in Paths /\ job.link \in Links /\ dir[job.path] \in Entries /\ job.desired[job.path] \in Entries
      BY DEF Machine, TypeOK, DiskOK, JobOK, Manifests, Move, Replacing
    <3>2. temp' \in [Links -> [original : Entries, prepared : Entries]]
      BY <3>1 DEF Machine, TypeOK, DiskOK, Move
    <3>3. dir' \in Manifests /\ journal' \in [Links -> Paths \cup {NoPath}]
      BY <3>1, Values DEF Machine, TypeOK, DiskOK, Manifests, Move
    <3> QED
      BY <3>2, <3>3 DEF DiskOK
  <2>2. LinksOK'
    BY Values DEF Machine, TypeOK, DiskOK, LinksOK, JobOK, Manifests, Move
  <2>3. JobOK'
    <3>1. at \in Replacing /\ (job' = job \/ job' = [job EXCEPT !.failed = TRUE])
      BY DEF Move, Replacing
    <3> QED BY <3>1, JobGoesOn DEF Machine, TypeOK, Replacing
  <2>4. HistoryOK'
    BY DEF Machine, TypeOK, HistoryOK, JobOK, Manifests, Move
  <2> QED
    BY <2>1, <2>2, <2>3, <2>4 DEF TypeOK
<1>2. ASSUME Alone, Away PROVE Away'
  BY <1>2, Values DEF Alone, Machine, TypeOK, DiskOK, JobOK, HistoryOK, Manifests, Away, Journaled, Prepared, Move, Replacing, Tidy, NoTemp
<1>3. Journaled' /\ Prepared'
  BY Values DEF Machine, TypeOK, DiskOK, JobOK, Journaled, Prepared, Move, Goto, End, Replacing, Tidy, NoTemp
<1> QED
  BY <1>1, <1>2, <1>3 DEF Machine

LEMMA ClearKeeps ==
  ASSUME Machine, Clear
  PROVE  Machine' /\ (Alone /\ Away => Away')
<1>1. TypeOK'
  <2>1. DiskOK'
    BY Values DEF Machine, TypeOK, DiskOK, JobOK, Manifests, Clear
  <2>2. LinksOK'
    BY Values DEF Machine, TypeOK, DiskOK, LinksOK, JobOK, Manifests, Clear
  <2>3. JobOK'
    <3>1. at \in Replacing /\ (job' = job \/ job' = [job EXCEPT !.failed = TRUE])
      BY DEF Clear, Replacing
    <3> QED BY <3>1, JobGoesOn DEF Machine, TypeOK, Replacing
  <2>4. HistoryOK'
    BY DEF Machine, TypeOK, HistoryOK, JobOK, Manifests, Clear
  <2> QED
    BY <2>1, <2>2, <2>3, <2>4 DEF TypeOK
<1>2. ASSUME Alone, Away PROVE Away'
  BY <1>2, Values DEF Alone, Machine, TypeOK, DiskOK, JobOK, HistoryOK, Manifests, Away, Journaled, Prepared, Clear, Replacing, Tidy, NoTemp
<1>3. Journaled' /\ Prepared'
  BY Values DEF Machine, TypeOK, DiskOK, JobOK, Journaled, Prepared, Clear, Goto, End, Replacing, Tidy, NoTemp
<1> QED
  BY <1>1, <1>2, <1>3 DEF Machine

LEMMA PublishKeeps ==
  ASSUME Machine, Publish
  PROVE  Machine' /\ (Alone /\ Away => Away')
<1>a. job.path \in Paths /\ temp[job.link].prepared \in Entries /\ TypeOK /\ owed' = owed
  BY Values DEF Machine, TypeOK, JobOK, Manifests, Publish, Replacing, DiskOK
<1>b. Changed(job.path, temp[job.link].prepared) \/ UNCHANGED <<dir, put, had>>
  BY DEF Publish
<1>c. dir' \in Manifests /\ HistoryOK'
  BY <1>a, <1>b, ChangeIsTyped DEF TypeOK, DiskOK, HistoryOK
<1>1. TypeOK'
  <2>1. DiskOK'
    BY <1>c, Values DEF Machine, TypeOK, DiskOK, JobOK, Manifests, Publish
  <2>2. LinksOK'
    BY Values DEF Machine, TypeOK, DiskOK, LinksOK, JobOK, Manifests, Publish
  <2>3. JobOK'
    BY Values DEF Machine, TypeOK, DiskOK, LinksOK, JobOK, Manifests, Publish, Goto, Replacing
  <2>4. HistoryOK'
    BY <1>c
  <2> QED
    BY <2>1, <2>2, <2>3, <2>4 DEF TypeOK
<1>2. ASSUME Alone, Away PROVE Away'
  BY <1>2, Values DEF Alone, Machine, TypeOK, DiskOK, JobOK, HistoryOK, Manifests, Away, Journaled, Prepared, Publish, Changed, Replacing, Tidy, NoTemp
<1>3. Journaled' /\ Prepared'
  BY Values DEF Machine, TypeOK, DiskOK, JobOK, Journaled, Prepared, Publish, Goto, End, Replacing, Tidy, NoTemp
<1> QED
  BY <1>1, <1>2, <1>3 DEF Machine

LEMMA SettleKeeps ==
  ASSUME Machine, Settle
  PROVE  Machine' /\ (Alone /\ Away => Away')
<1>a. journal[job.link] \in Paths /\ temp[job.link].original \in Entries /\ TypeOK /\ owed' = owed
  BY Values DEF Machine, TypeOK, JobOK, Manifests, Settle, Replacing, DiskOK, Journaled
<1>b. Changed(journal[job.link], temp[job.link].original) \/ UNCHANGED <<dir, put, had>>
  BY DEF Settle
<1>c. dir' \in Manifests /\ HistoryOK'
  BY <1>a, <1>b, ChangeIsTyped DEF TypeOK, DiskOK, HistoryOK
<1>1. TypeOK'
  <2>1. DiskOK'
    BY <1>c, Values DEF Machine, TypeOK, DiskOK, JobOK, Manifests, Settle
  <2>2. LinksOK'
    BY Values DEF Machine, TypeOK, DiskOK, LinksOK, JobOK, Manifests, Settle
  <2>3. JobOK'
    <3>1. CASE End
      BY <3>1, EndIsTyped
    <3>2. CASE ~End
      BY <3>2, Values DEF Machine, TypeOK, DiskOK, JobOK, Manifests, Settle, Goto, Replacing
    <3> QED
      BY <3>1, <3>2
  <2>4. HistoryOK'
    BY <1>c
  <2> QED
    BY <2>1, <2>2, <2>3, <2>4 DEF TypeOK
<1>2. ASSUME Alone, Away PROVE Away'
  BY <1>2, Values DEF Alone, Machine, TypeOK, DiskOK, JobOK, HistoryOK, Manifests, Away, Journaled, Prepared, Settle, Changed, Replacing, Tidy, NoTemp
<1>3. Journaled' /\ Prepared'
  BY Values DEF Machine, TypeOK, DiskOK, JobOK, Journaled, Prepared, Settle, Goto, End, Replacing, Tidy, NoTemp
<1> QED
  BY <1>1, <1>2, <1>3 DEF Machine

LEMMA SettledKeeps ==
  ASSUME Machine, Settled
  PROVE  Machine' /\ (Alone /\ Away => Away')
<1>1. TypeOK'
  <2>1. DiskOK'
    BY Values DEF Machine, TypeOK, DiskOK, JobOK, Manifests, Settled
  <2>2. LinksOK'
    BY Values DEF Machine, TypeOK, DiskOK, LinksOK, JobOK, Manifests, Settled
  <2>3. JobOK'
    <3>1. CASE End
      BY <3>1, EndIsTyped
    <3>2. CASE ~End
      <4>1. CASE UNCHANGED job
        BY <3>2, <4>1, Values DEF Machine, TypeOK, JobOK, Settled, Goto, Replacing
      <4>2. CASE job' = Done(job.path) /\ at' = "next"
        BY <4>2, Values DEF Machine, TypeOK, JobOK, Settled, Done, Replacing
      <4> QED
        BY <3>2, <4>1, <4>2 DEF Settled, Goto
    <3> QED
      BY <3>1, <3>2
  <2>4. HistoryOK'
    BY DEF Machine, TypeOK, HistoryOK, JobOK, Manifests, Settled
  <2> QED
    BY <2>1, <2>2, <2>3, <2>4 DEF TypeOK
<1>2. ASSUME Alone, Away PROVE Away'
  BY <1>2, Values DEF Alone, Machine, TypeOK, DiskOK, JobOK, HistoryOK, Manifests, Away, Journaled, Prepared, Settled, Replacing, Tidy, NoTemp
<1>3. Journaled' /\ Prepared'
  <2>1. job.link \in Links /\ temp[job.link] = NoTemp
    BY DEF Machine, TypeOK, JobOK, Prepared, Settled, Tidy
  <2>2. journal'[job.link] = NoPath /\ temp' = temp
    BY <2>1 DEF Machine, TypeOK, DiskOK, Settled
  <2>3. CASE End
    BY <2>3 DEF End, Journaled, Prepared, Replacing, Tidy
  <2>4. CASE job'.link = job.link /\ at' \in {"sweep", "next"}
    BY <2>1, <2>2, <2>4 DEF Journaled, Prepared, Replacing, Tidy
  <2>5. job' = job \/ job' = Done(job.path) => job'.link = job.link
    BY DEF Machine, TypeOK, JobOK, Done
  <2> QED
    BY <2>3, <2>4, <2>5 DEF Settled, Goto
<1> QED
  BY <1>1, <1>2, <1>3 DEF Machine

LEMMA VerifyKeeps ==
  ASSUME Machine, Verify
  PROVE  Machine' /\ (Alone /\ Away => Away')
<1>1. TypeOK'
  <2>1. DiskOK'
    BY Values DEF Machine, TypeOK, DiskOK, JobOK, Manifests, Verify
  <2>2. LinksOK'
    BY Values DEF Machine, TypeOK, DiskOK, LinksOK, JobOK, Manifests, Verify
  <2>3. JobOK'
    <3>1. CASE End
      BY <3>1, EndIsTyped
    <3>2. CASE ~End
      BY <3>2, Values DEF Machine, TypeOK, DiskOK, JobOK, Manifests, Verify, Goto, Replacing
    <3> QED
      BY <3>1, <3>2
  <2>4. HistoryOK'
    BY DEF Machine, TypeOK, HistoryOK, JobOK, Manifests, Verify
  <2> QED
    BY <2>1, <2>2, <2>3, <2>4 DEF TypeOK
<1>2. ASSUME Alone, Away PROVE Away'
  BY <1>2, Values DEF Alone, Machine, TypeOK, DiskOK, JobOK, HistoryOK, Manifests, Away, Journaled, Prepared, Verify, Replacing, Tidy, NoTemp
<1>3. Journaled' /\ Prepared'
  BY Values DEF Machine, TypeOK, DiskOK, JobOK, Journaled, Prepared, Verify, Goto, End, Replacing, Tidy, NoTemp
<1> QED
  BY <1>1, <1>2, <1>3 DEF Machine

LEMMA RecordKeeps ==
  ASSUME Machine, Record
  PROVE  Machine' /\ (Alone /\ Away => Away')
<1>1. TypeOK'
  <2>1. DiskOK'
    BY Values DEF Machine, TypeOK, DiskOK, JobOK, Manifests, Record
  <2>2. LinksOK'
    BY Values DEF Machine, TypeOK, DiskOK, LinksOK, JobOK, Manifests, Record
  <2>3. JobOK'
    <3>1. CASE End
      BY <3>1, EndIsTyped
    <3>2. CASE ~End
      BY <3>2, Values DEF Machine, TypeOK, DiskOK, JobOK, Manifests, Record, Goto, Replacing
    <3> QED
      BY <3>1, <3>2
  <2>4. HistoryOK'
    <3>1. owed' \in Manifests
      BY ReleasedIsTyped DEF Machine, TypeOK, HistoryOK, Record
    <3> QED
      BY <3>1 DEF Machine, TypeOK, HistoryOK, Record
  <2> QED
    BY <2>1, <2>2, <2>3, <2>4 DEF TypeOK
<1>2. ASSUME Alone, Away PROVE Away'
  BY <1>2, Values DEF Alone, Machine, TypeOK, DiskOK, JobOK, HistoryOK, Manifests, Away, Journaled, Prepared, Record, Replacing, Tidy, NoTemp
<1>3. Journaled' /\ Prepared'
  BY Values DEF Machine, TypeOK, DiskOK, JobOK, Journaled, Prepared, Record, Goto, End, Replacing, Tidy, NoTemp
<1> QED
  BY <1>1, <1>2, <1>3 DEF Machine

LEMMA MergeKeeps ==
  ASSUME Machine, Merge
  PROVE  Machine' /\ (Alone /\ Away => Away')
<1>1. TypeOK'
  <2>1. DiskOK'
    BY Values DEF Machine, TypeOK, DiskOK, JobOK, Manifests, Merge
  <2>2. LinksOK'
    BY Values DEF Machine, TypeOK, DiskOK, LinksOK, JobOK, Manifests, Merge
  <2>3. JobOK'
    BY Values DEF Machine, TypeOK, DiskOK, LinksOK, JobOK, Manifests, Merge, Goto, Replacing
  <2>4. HistoryOK'
    BY DEF Machine, TypeOK, HistoryOK, JobOK, Manifests, Merge
  <2> QED
    BY <2>1, <2>2, <2>3, <2>4 DEF TypeOK
<1>2. ASSUME Alone, Away PROVE Away'
  BY <1>2, Values DEF Alone, Machine, TypeOK, DiskOK, JobOK, HistoryOK, Manifests, Away, Journaled, Prepared, Merge, Replacing, Tidy, NoTemp
<1>3. Journaled' /\ Prepared'
  BY Values DEF Machine, TypeOK, DiskOK, JobOK, Journaled, Prepared, Merge, Goto, End, Replacing, Tidy, NoTemp
<1> QED
  BY <1>1, <1>2, <1>3 DEF Machine

LEMMA RecordMergedKeeps ==
  ASSUME Machine, RecordMerged
  PROVE  Machine' /\ (Alone /\ Away => Away')
<1>1. TypeOK'
  <2>1. DiskOK'
    BY Values DEF Machine, TypeOK, DiskOK, JobOK, Manifests, RecordMerged
  <2>2. LinksOK'
    BY Values DEF Machine, TypeOK, DiskOK, LinksOK, JobOK, Manifests, RecordMerged
  <2>3. JobOK'
    <3>1. CASE End
      BY <3>1, EndIsTyped
    <3>2. CASE ~End
      BY <3>2, Values DEF Machine, TypeOK, DiskOK, JobOK, Manifests, RecordMerged, Goto, Replacing
    <3> QED
      BY <3>1, <3>2
  <2>4. HistoryOK'
    <3>1. owed' \in Manifests
      BY ReleasedIsTyped DEF Machine, TypeOK, HistoryOK, RecordMerged
    <3> QED
      BY <3>1 DEF Machine, TypeOK, HistoryOK, RecordMerged
  <2> QED
    BY <2>1, <2>2, <2>3, <2>4 DEF TypeOK
<1>2. ASSUME Alone, Away PROVE Away'
  BY <1>2, Values DEF Alone, Machine, TypeOK, DiskOK, JobOK, HistoryOK, Manifests, Away, Journaled, Prepared, RecordMerged, Replacing, Tidy, NoTemp
<1>3. Journaled' /\ Prepared'
  BY Values DEF Machine, TypeOK, DiskOK, JobOK, Journaled, Prepared, RecordMerged, Goto, End, Replacing, Tidy, NoTemp
<1> QED
  BY <1>1, <1>2, <1>3 DEF Machine

LEMMA FailsKeeps ==
  ASSUME Machine, Fails
  PROVE  Machine' /\ (Alone /\ Away => Away')
<1>1. TypeOK'
  <2>1. DiskOK'
    BY Values DEF Machine, TypeOK, DiskOK, JobOK, Manifests, Fails, Fault
  <2>2. LinksOK'
    BY DEF Machine, TypeOK, LinksOK, Fails, Fault
  <2>3. JobOK'
    <3>1. CASE End
      BY <3>1, EndIsTyped
    <3>2. CASE ~End
      <4>1. at # "idle" /\ at' = "settle" /\ job' = [job EXCEPT !.failed = TRUE]
        BY <3>2 DEF Fails, Goto
      <4> QED BY <4>1, JobGoesOn DEF Machine, TypeOK
    <3> QED
      BY <3>1, <3>2
  <2>4. HistoryOK'
    BY DEF Machine, TypeOK, HistoryOK, JobOK, Manifests, Fails, Fault
  <2> QED
    BY <2>1, <2>2, <2>3, <2>4 DEF TypeOK
<1>2. ASSUME Alone, Away PROVE Away'
  BY <1>2, Values DEF Alone, Machine, TypeOK, DiskOK, JobOK, HistoryOK, Manifests, Away, Journaled, Prepared, Fails, Replacing, Tidy, NoTemp, Fault
<1>3. Journaled' /\ Prepared'
  BY Values DEF Machine, TypeOK, DiskOK, JobOK, Journaled, Prepared, Fails, Goto, End, Replacing, Tidy, NoTemp, Fault
<1> QED
  BY <1>1, <1>2, <1>3 DEF Machine

LEMMA CrashKeeps ==
  ASSUME Machine, Crash
  PROVE  Machine' /\ (Alone /\ Away => Away')
<1>1. TypeOK'
  <2>1. DiskOK'
    BY Values DEF Machine, TypeOK, DiskOK, JobOK, Manifests, Crash, Fault
  <2>2. LinksOK'
    BY DEF Machine, TypeOK, LinksOK, Crash, Fault
  <2>3. JobOK'
    <3>1. CASE End
      BY <3>1, EndIsTyped
    <3>2. CASE ~End
      BY <3>2, Values DEF Machine, TypeOK, DiskOK, JobOK, Manifests, Crash, Goto, Replacing, Fault
    <3> QED
      BY <3>1, <3>2
  <2>4. HistoryOK'
    BY DEF Machine, TypeOK, HistoryOK, JobOK, Manifests, Crash, Fault
  <2> QED
    BY <2>1, <2>2, <2>3, <2>4 DEF TypeOK
<1>2. ASSUME Alone, Away PROVE Away'
  BY <1>2, Values DEF Alone, Machine, TypeOK, DiskOK, JobOK, HistoryOK, Manifests, Away, Journaled, Prepared, Crash, Replacing, Tidy, NoTemp, Fault
<1>3. Journaled' /\ Prepared'
  BY Values DEF Machine, TypeOK, DiskOK, JobOK, Journaled, Prepared, Crash, Goto, End, Replacing, Tidy, NoTemp, Fault
<1> QED
  BY <1>1, <1>2, <1>3 DEF Machine

LEMMA StillKeeps == ASSUME Machine, UNCHANGED vars PROVE Machine' /\ (Away => Away')
BY DEF Machine, TypeOK, DiskOK, LinksOK, JobOK, HistoryOK, Away, Journaled, Prepared, vars

LEMMA StepKeeps == ASSUME Machine, Next PROVE Machine' /\ (Alone /\ Away => Away')
<1>1. CASE \E p \in Paths : Edits(p) \/ Deletes(p)
  <2>1. spent.edits \in Nat
    BY DEF Machine, TypeOK, LinksOK
  <2>2. \A type \in Types : Entry(type, 10 + spent.edits) \in Entries
    BY <2>1, Values
  <2> QED
    BY <1>1, <2>2, EditKeeps, Values DEF Edits, Deletes
<1>2. CASE \E w \in Links : CheckpointAgain(w) \/ \E p \in Paths : Revises(w, p)
  BY <1>2, CheckpointKeeps, CheckpointsAreTyped
<1>3. CASE \E w \in Links, kind \in {"preview", "apply", "mirror", "checkpoint"} : Begin(w, kind)
  BY <1>3, BeginKeeps
<1>4. CASE \E w \in Links, action \in {"keep_host", "keep_sandbox"} : Resolve(w, action)
  BY <1>4, ResolveKeeps
<1>5. CASE Recover \/ Sweep \/ Compare
  BY <1>5, RecoverKeeps, SweepKeeps, CompareKeeps
<1>6. CASE Check \/ (\E p \in Paths : TakePath(p)) \/ AllDone \/ Recheck \/ Unlink \/ Place
  BY <1>6, CheckKeeps, TakePathKeeps, AllDoneKeeps, RecheckKeeps, UnlinkKeeps, PlaceKeeps
<1>7. CASE WriteJournal \/ Prepare \/ Move \/ Clear \/ Publish \/ Settle \/ Settled
  BY <1>7, WriteJournalKeeps, PrepareKeeps, MoveKeeps, ClearKeeps, PublishKeeps, SettleKeeps, SettledKeeps
<1>8. CASE Verify \/ Record \/ Merge \/ RecordMerged
  BY <1>8, VerifyKeeps, RecordKeeps, MergeKeeps, RecordMergedKeeps
<1>9. CASE Fails \/ Crash
  BY <1>9, FailsKeeps, CrashKeeps
<1> QED
  BY <1>1, <1>2, <1>3, <1>4, <1>5, <1>6, <1>7, <1>8, <1>9 DEF Next, Apply


-----------------------------------------------------------------------------
(* What an action does to the writer's variables: nothing, or a flag, or the *)
(* path it is about.                                                         *)
SameJob ==
    /\ job'.link = job.link /\ job'.kind = job.kind
    /\ job'.base = job.base /\ job'.desired = job.desired /\ job'.current = job.current
    /\ job'.todo \subseteq job.todo

LEMMA JobFrame ==
  ASSUME JobOK,
         \/ job' = job \/ job' = [job EXCEPT !.failed = TRUE] \/ \E p : job' = [job EXCEPT !.path = p]
         \/ \E p : job' = Done(p)
  PROVE  SameJob
<1>1. ASSUME NEW p, job' = Done(p) PROVE SameJob
  BY <1>1 DEF JobOK, SameJob, Done
<1>2. ASSUME NEW p, job' = [job EXCEPT !.path = p] PROVE SameJob
  BY <1>2 DEF JobOK, SameJob
<1>3. ASSUME job' = job \/ job' = [job EXCEPT !.failed = TRUE] PROVE SameJob
  BY <1>3 DEF JobOK, SameJob
<1> QED
  BY <1>1, <1>2, <1>3

LEMMA NoJobFacts ==
    /\ NoJob.base = Empty /\ NoJob.desired = Empty /\ NoJob.current = Empty
    /\ NoJob.todo = {} /\ NoJob.kind = "none"
    /\ \A p \in Paths : Empty[p] = Nothing
BY DEF NoJob, Empty

LEMMA InitCompares == Init => Compared /\ RowsAreStored /\ Replaceable
<1> SUFFICES ASSUME Init PROVE Compared /\ RowsAreStored /\ Replaceable
  OBVIOUS
<1>1. \A p \in Paths : {Nothing, dir[p]} \subseteq had[p] /\ owed[p] = dir[p]
  BY DEF Init
<1>2. \A w \in Links, p \in Paths : base[w][p] \in {dir[p], Nothing}
  BY NoJobFacts DEF Init
<1>3. job = NoJob /\ at = "idle"
  BY DEF Init
<1>4. RowsAreStored
  BY <1>3 DEF Init, RowsAreStored
<1> QED
  BY <1>1, <1>2, <1>3, <1>4, NoJobFacts DEF Compared, BaselineWasThere, Replaceable

(* The directory gets an entry, and the history knows it. *)
LEMMA ChangeIsHad ==
  ASSUME Machine, Compared, NEW p \in Paths, NEW e \in Entries, Changed(p, e)
  PROVE  \A q \in Paths : {Nothing, dir'[q]} \subseteq had'[q] /\ had[q] \subseteq had'[q]
BY DEF Machine, TypeOK, DiskOK, HistoryOK, Manifests, Compared, Changed

(* A step between the comparison and the record, or one that ends early.     *)
LEMMA OnTheWay ==
  ASSUME Machine, Compared, RowsAreStored, UNCHANGED links, at # "idle",
         at' \notin {"record", "merged"}, End \/ SameJob,
         \A p \in Paths : {Nothing, dir'[p]} \subseteq had'[p] /\ had[p] \subseteq had'[p]
  PROVE  Compared' /\ RowsAreStored'
<1>1. \A p \in Paths : {Nothing, dir'[p], job'.base[p]} \subseteq had'[p]
  BY NoJobFacts DEF Compared, SameJob, End
<1>2. /\ job'.kind = "mirror" => policy'[job'.link] = "mirror_strict"
      /\ job'.kind \in {"apply", "mirror"} => job'.base = base'[job'.link]
  BY NoJobFacts DEF Compared, SameJob, End
<1>3. BaselineWasThere'
  BY DEF Compared, BaselineWasThere
<1>4. RowsAreStored'
  BY DEF RowsAreStored, SameJob, End
<1> QED
  BY <1>1, <1>2, <1>3, <1>4 DEF Compared

LEMMA StepOnTheWay ==
  ASSUME Machine, Compared, RowsAreStored,
         \/ Recover \/ Sweep \/ Check \/ (\E p \in Paths : TakePath(p)) \/ AllDone \/ Recheck \/ Unlink \/ Place
         \/ WriteJournal \/ Prepare \/ Move \/ Clear \/ Publish \/ Settle \/ Settled \/ Fails \/ Crash
  PROVE  Compared' /\ RowsAreStored'
<1> USE DEF Machine, TypeOK
<1>1. JobOK /\ DiskOK /\ HistoryOK /\ \A p \in Paths : {Nothing, dir[p]} \subseteq had[p]
  BY DEF Compared
<1>2. CASE Recover \/ Sweep \/ Check \/ (\E p \in Paths : TakePath(p)) \/ AllDone \/ Recheck
  <2>1. UNCHANGED links /\ UNCHANGED <<dir, had>> /\ at # "idle" /\ at' \notin {"record", "merged"} /\ (End \/ SameJob)
    BY <1>1, <1>2, JobFrame DEF Recover, Sweep, Check, TakePath, AllDone, Recheck, Goto, End
  <2> QED
    BY <1>1, <2>1, OnTheWay
<1>3. CASE WriteJournal \/ Prepare \/ Clear \/ Settled \/ Fails \/ Crash
  <2>1. UNCHANGED links /\ UNCHANGED <<dir, had>> /\ at # "idle" /\ at' \notin {"record", "merged"} /\ (End \/ SameJob)
    BY <1>1, <1>3, JobFrame DEF WriteJournal, Prepare, Clear, Settled, Fails, Crash, Goto, End
  <2> QED
    BY <1>1, <2>1, OnTheWay
<1>4. CASE Move
  <2>1. UNCHANGED links /\ had' = had /\ at # "idle" /\ at' \notin {"record", "merged"} /\ (End \/ SameJob)
    BY <1>1, <1>4, JobFrame DEF Move, Goto, End
  <2>2. \A p \in Paths : dir'[p] \in {Nothing, dir[p]}
    BY <1>1, <1>4 DEF Move, DiskOK, Manifests
  <2> QED
    BY <1>1, <2>1, <2>2, OnTheWay
<1>5. CASE Unlink \/ Place
  <2>1. UNCHANGED links /\ at # "idle" /\ at' \notin {"record", "merged"} /\ (End \/ SameJob)
    BY <1>1, <1>5, JobFrame DEF Unlink, Place, Goto, End
  <2>2. job.path \in Paths /\ job.desired[job.path] \in Entries
    BY <1>5 DEF JobOK, Unlink, Place, Manifests
  <2>3. UNCHANGED <<dir, had>> \/ Changed(job.path, Nothing) \/ Changed(job.path, job.desired[job.path])
    BY <1>5 DEF Unlink, Place
  <2> QED
    BY <1>1, <2>1, <2>2, <2>3, ChangeIsHad, OnTheWay, Values
<1>6. CASE Publish \/ Settle
  <2>1. UNCHANGED links /\ at # "idle" /\ at' \notin {"record", "merged"} /\ (End \/ SameJob)
    BY <1>1, <1>6, JobFrame DEF Publish, Settle, Goto, End
  <2>2. job.link \in Links
    BY <1>6 DEF JobOK, Publish, Settle
  <2>3. \/ UNCHANGED <<dir, had>>
        \/ job.path \in Paths /\ Changed(job.path, temp[job.link].prepared)
        \/ journal[job.link] \in Paths /\ Changed(journal[job.link], temp[job.link].original)
    BY <1>6, <2>2 DEF Publish, Settle, JobOK, DiskOK, Journaled, Replacing
  <2>4. {temp[job.link].prepared, temp[job.link].original} \subseteq Entries
    BY <2>2 DEF DiskOK
  <2> QED
    BY <1>1, <2>1, <2>3, <2>4, ChangeIsHad, OnTheWay
<1> QED
  BY <1>2, <1>3, <1>4, <1>5, <1>6

(* The collection of a checkpoint spares what the row names, and the revision *)
(* that a writer applies is that of a workspace it has locked.               *)
LEMMA CheckpointSpares ==
  ASSUME Machine, Compared, RowsAreStored, Replaceable, NEW w \in Links, NEW files \in Manifests, Checkpoint(w, files)
  PROVE  Compared' /\ RowsAreStored' /\ Replaceable'
<1>1. UNCHANGED <<disk, policy, base, backup, token, at, job, history>> /\ (at # "idle" => job.link # w)
  BY DEF Checkpoint
<1>2. Compared' /\ Replaceable'
  BY <1>1 DEF Compared, BaselineWasThere, Replaceable, Kept, Named
<1>3. ASSUME NEW v \in Links PROVE {head[v], previous[v], base[v], backup[v]}' \subseteq stored'[v] \cup {Empty}
  <2>1. CASE v = w
    <3>1. PICK before, kept :
            /\ head' = [head EXCEPT ![w] = files] /\ previous' = [previous EXCEPT ![w] = before]
            /\ stored' = [stored EXCEPT ![w] = kept]
            /\ before \in {previous[w], head[w]}
            /\ (stored[w] \cup {files}) \cap {files, before, base[w], backup[w]} \subseteq kept
      BY DEF Checkpoint, Save
    <3>2. head'[w] = files /\ previous'[w] = before /\ stored'[w] = kept
      BY <3>1 DEF Machine, TypeOK, LinksOK
    <3>3. {before, base[w], backup[w]} \subseteq stored[w] \cup {Empty}
      BY <3>1 DEF RowsAreStored
    <3> QED
      BY <1>1, <2>1, <3>1, <3>2, <3>3
  <2>2. CASE v # w
    <3>1. head'[v] = head[v] /\ previous'[v] = previous[v] /\ stored'[v] = stored[v]
      BY <2>2 DEF Checkpoint, Save, Machine, TypeOK, LinksOK
    <3> QED
      BY <1>1, <3>1 DEF RowsAreStored
  <2> QED
    BY <2>1, <2>2
<1>4. ASSUME at' # "idle" PROVE job'.desired \in stored'[job'.link] \cup {Empty}
  <2>1. at # "idle" /\ job.link \in Links /\ job.link # w
    BY <1>1, <1>4 DEF Machine, TypeOK, JobOK
  <2>2. stored'[job.link] = stored[job.link]
    BY <2>1 DEF Checkpoint, Save, Machine, TypeOK, LinksOK
  <2> QED
    BY <1>1, <2>1, <2>2 DEF RowsAreStored
<1> QED
  BY <1>2, <1>3, <1>4 DEF RowsAreStored

(* A resolution: the conflicting files are backed up, and those of the        *)
(* sandbox replaced, or not.                                                 *)
LEMMA ResolveCompares ==
  ASSUME Machine, Compared, RowsAreStored, NEW w \in Links, NEW action, Resolve(w, action)
  PROVE  Compared' /\ RowsAreStored'
<1>1. PICK desired :
        /\ head' = [head EXCEPT ![w] = desired] /\ stored' = [stored EXCEPT ![w] = @ \cup {dir, desired}]
        /\ previous' = [previous EXCEPT ![w] = IF desired = head[w] THEN @ ELSE head[w]]
        /\ job'.link = w /\ job'.desired = desired /\ job'.base = base[w]
  BY DEF Resolve, NoJob
<1>2. /\ backup' = [backup EXCEPT ![w] = dir] /\ at' = "recover"
      /\ UNCHANGED <<dir, had, policy, base>> /\ policy[w] = "mirror_strict"
  BY DEF Resolve, Goto
<1>3. Compared'
  BY <1>1, <1>2 DEF Compared, BaselineWasThere
<1>4. ASSUME NEW v \in Links PROVE {head[v], previous[v], base[v], backup[v]}' \subseteq stored'[v] \cup {Empty}
  <2>1. CASE v = w
    <3>1. /\ head'[w] = desired /\ previous'[w] \in {previous[w], head[w]} /\ backup'[w] = dir
          /\ stored'[w] = stored[w] \cup {dir, desired}
      BY <1>1, <1>2 DEF Machine, TypeOK, LinksOK
    <3> QED
      BY <1>2, <2>1, <3>1 DEF RowsAreStored
  <2>2. CASE v # w
    <3>1. head'[v] = head[v] /\ previous'[v] = previous[v] /\ stored'[v] = stored[v] /\ backup'[v] = backup[v]
      BY <1>1, <1>2, <2>2 DEF Machine, TypeOK, LinksOK
    <3> QED
      BY <1>2, <3>1 DEF RowsAreStored
  <2> QED
    BY <2>1, <2>2
<1>5. job'.desired \in stored'[job'.link]
  BY <1>1 DEF Machine, TypeOK, LinksOK
<1> QED
  BY <1>3, <1>4, <1>5 DEF RowsAreStored

(* Others change the directory, or a writer starts. *)
LEMMA OthersCompare ==
  ASSUME Machine, Compared, RowsAreStored
  PROVE  /\ \A p \in Paths, e \in Entries : Edit(p, e) => Compared' /\ RowsAreStored'
         /\ \A w \in Links : \A kind : Begin(w, kind) => Compared' /\ RowsAreStored'
<1>1. ASSUME NEW p \in Paths, NEW e \in Entries, Edit(p, e) PROVE Compared' /\ RowsAreStored'
  <2>1. Compared'
    BY <1>1, Values DEF Machine, TypeOK, DiskOK, LinksOK, HistoryOK, Manifests, Compared, BaselineWasThere, Edit
  <2>2. RowsAreStored'
    BY <1>1 DEF RowsAreStored, Edit
  <2> QED
    BY <2>1, <2>2
<1>2. ASSUME NEW w \in Links, NEW kind, Begin(w, kind) PROVE Compared' /\ RowsAreStored'
  <2>1. job'.link = w /\ job'.kind = kind /\ job'.desired = head[w] /\ job'.base = base[w]
    BY <1>2 DEF Begin, NoJob
  <2>2. at' = "recover" /\ UNCHANGED <<dir, had, links>> /\ (kind = "mirror" => policy[w] = "mirror_strict")
    BY <1>2, Values DEF Begin, Goto, Kinds, Machine, TypeOK, LinksOK
  <2> QED
    BY <2>1, <2>2 DEF Compared, BaselineWasThere, RowsAreStored
<1> QED
  BY <1>1, <1>2

(* A mirror without conflicts and without changes has the files already. *)
LEMMA NothingToMirror ==
  ASSUME NEW old, NEW new, NEW p \in Paths, StrictConflicts(old, new, dir) = {}, Changes(old, new, dir) = {}
  PROVE  dir[p] = new[p]
BY DEF StrictConflicts, Conflicts, Changes

(* A comparison that goes on starts from the baseline without conflicts, or   *)
(* from the directory the user decided on.                                    *)
Went(old) ==
    /\ job' = [job EXCEPT !.current = dir, !.base = old, !.todo = Changes(old, job.desired, dir)]
    /\ at' \in {"check", "verify", "record"}
    /\ at' = "record" => Changes(old, job.desired, dir) = {} /\ job.kind # "apply"

LEMMA CompareGoes ==
  ASSUME Compare, ~End
  PROVE  \/ /\ job.kind \in {"apply", "mirror"} /\ Went(job.base)
            /\ PlanConflicts(policy[job.link], job.base, job.desired, dir) = {}
         \/ job.kind = "force" /\ Went(dir) /\ dir = job.current
<1>1. CASE job.kind \in {"apply", "mirror"}
  BY <1>1 DEF Compare, Goto, Went
<1>2. CASE job.kind = "force"
  BY <1>2 DEF Compare, Goto, Went
<1> QED
  BY <1>1, <1>2 DEF Compare

LEMMA CompareCompares == ASSUME Machine, Compared, RowsAreStored, Compare PROVE Compared' /\ RowsAreStored'
<1>1. CASE End
  <2>1. RowsAreStored'
    BY <1>1 DEF Compare, End, RowsAreStored
  <2> QED
    BY <1>1, <2>1, NoJobFacts DEF Compare, End, Compared, BaselineWasThere
<1>2. CASE ~End
  <2>0. PICK old :
           /\ Went(old)
           /\ \/ /\ old = job.base /\ job.kind \in {"apply", "mirror"}
                 /\ PlanConflicts(policy[job.link], job.base, job.desired, dir) = {}
              \/ old = dir /\ job.kind = "force" /\ dir = job.current
    BY <1>2, CompareGoes
  <2> DEFINE todo == Changes(old, job.desired, dir)
  <2>1. /\ job' = [job EXCEPT !.current = dir, !.base = old, !.todo = todo]
        /\ old = job.base \/ (job.kind = "force" /\ old = dir /\ dir = job.current)
        /\ at' \in {"record", "merged"} => at' = "record" /\ todo = {} /\ job.kind # "apply"
        /\ job.kind = "mirror" => PlanConflicts(policy[job.link], job.base, job.desired, dir) = {}
        /\ job.kind \in {"apply", "mirror"} => old = job.base
        /\ job.kind = "force" => old = dir
        /\ job.kind \in {"apply", "mirror", "force"}
    BY <2>0 DEF Went
  <2>2. /\ job'.link = job.link /\ job'.kind = job.kind /\ job'.desired = job.desired
        /\ job'.base = old /\ UNCHANGED <<dir, had, policy, head, previous, base, backup, stored>> /\ at # "idle"
    BY <2>1 DEF Machine, TypeOK, JobOK, Compare
  <2>3. ASSUME NEW p \in Paths PROVE old[p] \in had[p]
    BY <2>1 DEF Compared
  <2>4. ASSUME NEW p \in Paths, at' \in {"record", "merged"} PROVE job.desired[p] = dir[p]
    <3>1. CASE job.kind = "mirror"
      BY <2>1, <2>4, <3>1, NothingToMirror DEF Compared, PlanConflicts
    <3>2. CASE job.kind = "force" /\ old = dir
      BY <2>1, <2>4, <3>2 DEF Changes
    <3> QED
      BY <2>1, <2>4, <3>1, <3>2
  <2>5. job'.kind \in {"apply", "mirror"} => job'.base = base'[job'.link]
    BY <2>1, <2>2 DEF Compared
  <2>6. RowsAreStored'
    BY <2>2 DEF RowsAreStored
  <2> QED
    BY <2>2, <2>3, <2>4, <2>5, <2>6 DEF Compared, BaselineWasThere
<1> QED
  BY <1>1, <1>2

(* What is recorded is what the directory has, or what it had already, and   *)
(* is stored.                                                                *)
LEMMA RecordCompares ==
  ASSUME Machine, Compared, RowsAreStored, Verify \/ Record \/ Merge \/ RecordMerged PROVE Compared' /\ RowsAreStored'
<1>a. at # "idle" /\ job.link \in Links
  BY DEF Verify, Record, Merge, RecordMerged, Machine, TypeOK, JobOK
<1>1. CASE Verify
  <2>1. (job' = NoJob /\ at' = "idle") \/ job' = job
    BY <1>1 DEF Verify, End
  <2>2. UNCHANGED <<dir, had, links>>
    BY <1>1 DEF Verify
  <2>3. ASSUME NEW p \in Paths, at' = "record"
        PROVE  job.desired[p] \in had[p] /\ job' = job
    <3>1. Verified(job.base, job.desired, dir) /\ job' = job
      BY <1>1, <2>3 DEF Verify, Goto, End
    <3>2. job.base[p] = job.desired[p] \/ dir[p] = job.desired[p]
      BY <3>1 DEF Verified
    <3> QED
      BY <3>1, <3>2 DEF Compared
  <2>4. at' # "merged"
    BY <1>1 DEF Verify, Goto, End
  <2>5. RowsAreStored'
    BY <1>a, <2>1, <2>2 DEF RowsAreStored
  <2> QED
    BY <2>1, <2>2, <2>3, <2>4, <2>5, NoJobFacts DEF Compared, BaselineWasThere
<1>2. CASE Record \/ RecordMerged
  <2>1. job' = NoJob /\ at' = "idle" /\ UNCHANGED <<dir, had, policy, backup, stored>>
    BY <1>2 DEF Record, RecordMerged, End
  <2>2. \A p \in Paths : job.desired[p] \in had[p]
    BY <1>2 DEF Record, RecordMerged, Compared
  <2>3. \A w \in Links : base'[w] \in {base[w], job.desired}
    BY <1>2 DEF Record, RecordMerged, Machine, TypeOK, LinksOK
  <2>4. ASSUME NEW w \in Links PROVE {head[w], previous[w], base[w], backup[w]}' \subseteq stored'[w] \cup {Empty}
    <3>1. /\ w # job.link => head'[w] = head[w] /\ previous'[w] = previous[w] /\ base'[w] = base[w]
          /\ w = job.link => {head[w], previous[w], base[w]}' \subseteq {head[w], previous[w], job.desired}
      BY <1>2 DEF Record, RecordMerged, Machine, TypeOK, LinksOK
    <3> QED
      BY <1>a, <2>1, <3>1 DEF RowsAreStored
  <2> QED
    BY <2>1, <2>2, <2>3, <2>4, NoJobFacts DEF Compared, BaselineWasThere, RowsAreStored
<1>3. CASE Merge
  <2>1. /\ UNCHANGED <<dir, had, rows>> /\ at' = "merged"
        /\ job'.desired = dir /\ job'.base = job.base /\ job'.link = job.link /\ job'.kind = job.kind
    BY <1>3 DEF Merge, Goto, Machine, TypeOK, JobOK
  <2>2. \A w \in Links : stored'[w] = IF w = job.link THEN stored[w] \cup {dir} ELSE stored[w]
    BY <1>3 DEF Merge, Machine, TypeOK, LinksOK
  <2>3. RowsAreStored'
    BY <1>a, <2>1, <2>2 DEF RowsAreStored
  <2> QED
    BY <2>1, <2>3 DEF Compared, BaselineWasThere
<1> QED
  BY <1>1, <1>2, <1>3

-----------------------------------------------------------------------------
(* No step of the writer but a change of its path touches what others wrote.  *)
LEMMA NothingTouched ==
  ASSUME Machine, Replaceable, UNCHANGED <<dir, owed, exposed, base, backup>>,
         End \/ SameJob, End \/ at' \notin {"recheck", "journal", "prepare", "unlink", "place", "move", "publish"}
  PROVE  Replaceable'
<1>1. \A p \in Paths : owed'[p] = dir'[p] \/ Kept(p)'
  BY DEF Replaceable, Kept, Named
<1>2. \A p \in Paths : p \in job'.todo \/ job'.kind = "force" => job'.current[p] \in Named(p)'
  BY NoJobFacts DEF Replaceable, Named, SameJob, End
<1>3. at' \notin {"recheck", "journal", "prepare", "unlink", "place", "move", "publish"}
  BY DEF End
<1> QED
  BY <1>1, <1>2, <1>3 DEF Replaceable

(* A revision is given up: what only it kept is not owed any more. *)
LEMMA ReleasedIsKept ==
  ASSUME Replaceable, NEW revision, owed' = Released(revision), UNCHANGED <<dir, exposed>>,
         \A p \in Paths : Named(p) \subseteq Named(p)' \cup {revision[p]}
  PROVE  \A p \in Paths : owed'[p] = dir'[p] \/ Kept(p)'
<1> SUFFICES ASSUME NEW p \in Paths PROVE owed'[p] = dir'[p] \/ Kept(p)'
  OBVIOUS
<1>1. owed'[p] = IF owed[p] = revision[p] /\ owed[p] # dir[p] THEN Nothing ELSE owed[p]
  BY DEF Released
<1>2. Nothing \in Named(p)'
  BY DEF Named
<1>3. owed[p] = dir[p] \/ owed[p] \in Named(p) \cup exposed
  BY DEF Replaceable, Kept
<1>4. owed'[p] = dir[p] \/ owed'[p] \in Named(p)' \cup exposed
  BY <1>1, <1>2, <1>3
<1> QED
  BY <1>4 DEF Kept

LEMMA IdleReplaces ==
  ASSUME Machine, Replaceable,
         \/ Recover \/ Sweep \/ Check \/ AllDone \/ Settled \/ Fails \/ Crash \/ Verify \/ Merge
  PROVE  Replaceable'
<1>1. JobOK
  BY DEF Machine, TypeOK
<1>2. CASE Recover \/ Sweep \/ Check \/ AllDone \/ Settled \/ Fails \/ Crash \/ Verify
  <2>1. UNCHANGED <<dir, owed, exposed, base, backup>> /\ (End \/ SameJob)
    BY <1>1, <1>2, JobFrame DEF Recover, Sweep, Check, AllDone, Settled, Fails, Crash, Verify, End
  <2>2. End \/ at' \notin {"recheck", "journal", "prepare", "unlink", "place", "move", "publish"}
    BY <1>2 DEF Recover, Sweep, Check, AllDone, Settled, Fails, Crash, Verify, Goto
  <2> QED
    BY <2>1, <2>2, NothingTouched
<1>3. CASE Merge
  <2>1. UNCHANGED <<dir, owed, exposed, base, backup>> /\ at' = "merged"
    BY <1>3 DEF Merge, Goto
  <2>2. job'.todo = job.todo /\ job'.kind = job.kind /\ job'.current = job.current
    BY <1>1, <1>3 DEF Merge, JobOK
  <2> QED
    BY <2>1, <2>2 DEF Replaceable, Kept, Named
<1> QED
  BY <1>2, <1>3

(* The baseline that is replaced, or the backup, is not counted on any more.  *)
LEMMA RecordReplaces == ASSUME Machine, Replaceable, Record \/ RecordMerged PROVE Replaceable'
<1>1. /\ owed' = Released(base[job.link]) /\ UNCHANGED <<dir, exposed, backup>> /\ job' = NoJob /\ at' = "idle"
      /\ base' = [base EXCEPT ![job.link] = job.desired] /\ base \in [Links -> Manifests]
  BY DEF Record, RecordMerged, End, Machine, TypeOK, LinksOK
<1>2. ASSUME NEW p \in Paths PROVE Named(p) \subseteq Named(p)' \cup {base[job.link][p]}
  <2>1. \A v \in Links : v = job.link \/ base'[v] = base[v]
    BY <1>1
  <2> QED
    BY <1>1, <2>1 DEF Named
<1>3. \A p \in Paths : owed'[p] = dir'[p] \/ Kept(p)'
  BY <1>1, <1>2, ReleasedIsKept
<1> QED
  BY <1>1, <1>3, NoJobFacts DEF Replaceable

LEMMA ResolveReplaces ==
  ASSUME Machine, Replaceable, NEW w \in Links, NEW action, Resolve(w, action) PROVE Replaceable'
<1>1. /\ owed' = Released(backup[w]) /\ UNCHANGED <<dir, exposed, base>> /\ at' = "recover"
      /\ backup' = [backup EXCEPT ![w] = dir] /\ backup \in [Links -> Manifests]
      /\ job'.todo = {} /\ job'.current = dir
  BY NoJobFacts DEF Resolve, Goto, NoJob, Machine, TypeOK, LinksOK
<1>2. ASSUME NEW p \in Paths PROVE Named(p) \subseteq Named(p)' \cup {backup[w][p]}
  <2>1. \A v \in Links : v = w \/ backup'[v] = backup[v]
    BY <1>1
  <2> QED
    BY <1>1, <2>1 DEF Named
<1>3. \A p \in Paths : owed'[p] = dir'[p] \/ Kept(p)'
  BY <1>1, <1>2, ReleasedIsKept
<1>4. \A p \in Paths : dir[p] \in Named(p)'
  <2>1. backup'[w] = dir
    BY <1>1
  <2> QED
    BY <2>1 DEF Named
<1> QED
  BY <1>1, <1>3, <1>4 DEF Replaceable

LEMMA StartReplaces ==
  ASSUME Machine, Replaceable
  PROVE  /\ \A p \in Paths, e \in Entries : Edit(p, e) => Replaceable'
         /\ \A w \in Links : \A kind : Begin(w, kind) => Replaceable'
         /\ \A p \in Paths : TakePath(p) => Replaceable'
<1>1. ASSUME NEW p \in Paths, NEW e \in Entries, Edit(p, e) PROVE Replaceable'
  <2>1. /\ owed'[p] = e /\ dir'[p] = e /\ UNCHANGED <<job, at, base, backup>> /\ exposed \subseteq exposed'
        /\ \A q \in Paths \ {p} : owed'[q] = owed[q] /\ dir'[q] = dir[q]
    BY <1>1 DEF Edit, Machine, TypeOK, DiskOK, HistoryOK, Manifests
  <2>2. \A q \in Paths : owed'[q] = dir'[q] \/ Kept(q)'
    BY <2>1 DEF Replaceable, Kept, Named
  <2>3. at \in {"unlink", "place", "move", "publish"} => Kept(job.path)'
    <3>1. CASE at \in {"unlink", "place", "move", "publish"} /\ job.path = p
      BY <1>1, <2>1, <3>1 DEF Edit, Window, Kept
    <3>2. CASE at \in {"unlink", "place", "move", "publish"} /\ job.path # p
      <4>1. job.path \in Paths
        BY <3>2 DEF Machine, TypeOK, JobOK, Replacing
      <4> QED
        BY <2>1, <3>2, <4>1 DEF Replaceable, Kept, Named
    <3> QED
      BY <3>1, <3>2
  <2> QED
    BY <2>1, <2>2, <2>3 DEF Replaceable, Named
<1>2. ASSUME NEW w \in Links, NEW kind, Begin(w, kind) PROVE Replaceable'
  <2>1. UNCHANGED <<dir, owed, exposed, base, backup>> /\ at' = "recover"
    BY <1>2 DEF Begin, Goto
  <2>2. job'.todo = {} /\ job'.kind # "force"
    BY <1>2 DEF Begin, Kinds, NoJob
  <2> QED
    BY <2>1, <2>2 DEF Replaceable, Kept, Named
<1>3. ASSUME NEW p \in Paths, TakePath(p) PROVE Replaceable'
  <2>1. p \in job.todo /\ UNCHANGED <<dir, owed, exposed, base, backup>> /\ at' \in {"journal", "recheck"}
    BY <1>3 DEF TakePath, First, Replaced, Goto
  <2>2. job'.path = p /\ job'.todo = job.todo /\ job'.kind = job.kind /\ job'.current = job.current
    BY <1>3 DEF TakePath, Machine, TypeOK, JobOK
  <2> QED
    BY <2>1, <2>2 DEF Replaceable, Kept, Named
<1> QED
  BY <1>1, <1>2, <1>3

(* A change of one path, when the last edit of it is kept, or it is empty.    *)
LEMMA PathChanges ==
  ASSUME Machine, Replaceable, NEW p \in Paths, NEW e \in Entries,
         dir' = [dir EXCEPT ![p] = e], UNCHANGED <<owed, exposed, base, backup>>, Kept(p) \/ dir[p] = Nothing,
         End \/ SameJob, End \/ at' \in {"next", "settle", "clear"}
  PROVE  Replaceable'
<1>1. \A q \in Paths : q = p \/ dir'[q] = dir[q]
  BY DEF Machine, TypeOK, DiskOK, Manifests
<1>2. \A q \in Paths : owed'[q] = dir'[q] \/ Kept(q)'
  BY <1>1 DEF Replaceable, Kept, Named
<1>3. \A q \in Paths : q \in job'.todo \/ job'.kind = "force" => job'.current[q] \in Named(q)'
  BY NoJobFacts DEF Replaceable, Named, SameJob, End
<1>4. at' \notin {"recheck", "journal", "prepare", "unlink", "place", "move", "publish"}
  BY DEF End
<1> QED
  BY <1>2, <1>3, <1>4 DEF Replaceable

(* Just before its change the last edit of a path is kept.                   *)
LEMMA CheckedIsKept ==
  ASSUME Replaceable, NEW p \in Paths, dir[p] = Nothing \/ (p \in job.todo /\ dir[p] = job.current[p])
  PROVE  Kept(p)
BY DEF Replaceable, Named, Kept

LEMMA ApplyReplaces ==
  ASSUME Machine, Replaceable,
         \/ Recheck \/ Unlink \/ Place \/ WriteJournal \/ Prepare \/ Move \/ Clear \/ Publish \/ Settle
  PROVE  Replaceable'
<1>1. JobOK /\ DiskOK
  BY DEF Machine, TypeOK
<1>2. CASE Recheck \/ Prepare \/ Clear
  <2>1. job.path \in Paths
    BY <1>1, <1>2 DEF JobOK, Recheck, Prepare, Clear, Replacing
  <2>2. UNCHANGED <<dir, owed, exposed, base, backup>> /\ (End \/ SameJob)
    BY <1>1, <1>2, JobFrame DEF Recheck, Prepare, Clear, End
  <2>3. CASE at' \in {"unlink", "place", "move", "publish"}
    <3>1. job' = job /\ Kept(job.path)
      BY <1>2, <2>1, <2>3, CheckedIsKept DEF Recheck, Prepare, Clear, Goto, End, Replaceable
    <3> QED
      BY <2>2, <2>3, <3>1 DEF Replaceable, Kept, Named
  <2>4. CASE at' \notin {"unlink", "place", "move", "publish"}
    <3>1. End \/ at' = "settle"
      BY <1>2, <2>4 DEF Recheck, Prepare, Clear, Goto
    <3> QED
      BY <2>2, <2>4, <3>1, NothingTouched
  <2> QED
    BY <2>3, <2>4
<1>3. CASE WriteJournal
  BY <1>3 DEF WriteJournal, Goto, Replaceable, Kept, Named
<1>4. CASE (Unlink \/ Place \/ Move \/ Publish) /\ dir' # dir
  <2>1. job.path \in Paths /\ job.link \in Links /\ Kept(job.path)
    BY <1>1, <1>4 DEF JobOK, Unlink, Place, Move, Publish, Replacing, Replaceable
  <2>2. UNCHANGED <<owed, exposed, base, backup>> /\ (End \/ SameJob)
    BY <1>1, <1>4, JobFrame DEF Unlink, Place, Move, Publish, End
  <2>3. \E e \in Entries : dir' = [dir EXCEPT ![job.path] = e]
    BY <1>1, <1>4, <2>1, Values DEF JobOK, DiskOK, Manifests, Unlink, Place, Move, Publish, Changed
  <2>4. End \/ at' \in {"next", "settle", "clear"}
    BY <1>4 DEF Unlink, Place, Move, Publish, Goto
  <2> QED
    BY <2>1, <2>2, <2>3, <2>4, PathChanges
<1>5. CASE (Unlink \/ Place \/ Move \/ Publish \/ Settle) /\ dir' = dir
  <2>1. UNCHANGED <<owed, exposed, base, backup>> /\ (End \/ SameJob)
    BY <1>1, <1>5, JobFrame DEF Unlink, Place, Move, Publish, Settle, End
  <2>2. End \/ at' \in {"next", "settle", "clear", "settled"}
    BY <1>5 DEF Unlink, Place, Move, Publish, Settle, Goto
  <2> QED
    BY <1>5, <2>1, <2>2, NothingTouched
<1>6. CASE Settle /\ dir' # dir
  <2>1. job.link \in Links /\ journal[job.link] \in Paths
    BY <1>1, <1>6 DEF JobOK, DiskOK, Settle, Machine, Journaled
  <2>2. UNCHANGED <<owed, exposed, base, backup, job, at>> /\ dir[journal[job.link]] = Nothing
    BY <1>6 DEF Settle, End
  <2>3. dir' = [dir EXCEPT ![journal[job.link]] = temp[job.link].original] /\ temp[job.link].original \in Entries
    BY <1>1, <1>6, <2>1 DEF Settle, Changed, DiskOK
  <2> QED
    BY <1>1, <1>6, <2>1, <2>2, <2>3, PathChanges, JobFrame DEF Settle
<1> QED
  BY <1>2, <1>3, <1>4, <1>5, <1>6

LEMMA CompareReplaces == ASSUME Machine, Compared, Replaceable, Compare PROVE Replaceable'
<1>1. UNCHANGED <<dir, owed, exposed, base, backup>> /\ job.link \in Links
  BY DEF Compare, Machine, TypeOK, JobOK
<1>2. CASE End
  BY <1>1, <1>2, NothingTouched
<1>3. CASE ~End
  <2>1. PICK old \in {job.base, dir}, todo \in SUBSET Paths :
           /\ job' = [job EXCEPT !.current = dir, !.base = old, !.todo = todo]
           /\ (old = job.base /\ job.kind \in {"apply", "mirror"}) \/ job.kind = "force"
           /\ todo = Changes(old, job.desired, dir)
           /\ job.kind = "force" => dir = job.current
           /\ at' \in {"check", "verify", "record"}
    BY <1>3, CompareGoes DEF Went, Changes
  <2>2. job'.kind = job.kind /\ job'.current = dir /\ job'.todo = todo
    BY <2>1 DEF Machine, TypeOK, JobOK
  <2>3. \A p \in Paths : p \in todo \/ job.kind = "force" => dir[p] \in Named(p)
    <3>1. CASE job.kind = "force"
      BY <2>1, <3>1 DEF Replaceable
    <3>2. CASE job.kind # "force"
      <4>1. \A p \in todo : dir[p] = base[job.link][p]
        BY <2>1, <3>2 DEF Changes, Compared
      <4> QED
        BY <1>1, <3>2, <4>1 DEF Named
    <3> QED
      BY <3>1, <3>2
  <2> QED
    BY <1>1, <2>1, <2>2, <2>3 DEF Replaceable, Kept, Named
<1> QED
  BY <1>2, <1>3

LEMMA StillCompares ==
  ASSUME Machine, Compared, RowsAreStored, Replaceable, UNCHANGED vars
  PROVE  Compared' /\ RowsAreStored' /\ Replaceable'
<1>1. Compared' /\ RowsAreStored'
  BY DEF vars, Compared, BaselineWasThere, RowsAreStored
<1>2. Replaceable'
  BY DEF vars, Replaceable, Kept, Named
<1> QED
  BY <1>1, <1>2

LEMMA StepCompares ==
  ASSUME Machine, Compared, RowsAreStored, Replaceable, Next PROVE Compared' /\ RowsAreStored' /\ Replaceable'
<1> USE DEF Apply
<1>1. CASE \E p \in Paths : Edits(p) \/ Deletes(p)
  <2>1. \A type \in Types : Entry(type, 10 + spent.edits) \in Entries
    BY Values DEF Machine, TypeOK, LinksOK
  <2> QED
    BY <1>1, <2>1, Values, OthersCompare, StartReplaces DEF Edits, Deletes
<1>2. CASE \E w \in Links : CheckpointAgain(w) \/ \E p \in Paths : Revises(w, p)
  BY <1>2, CheckpointsAreTyped, CheckpointSpares
<1>3. CASE \E w \in Links, kind \in {"preview", "apply", "mirror", "checkpoint"} : Begin(w, kind)
  BY <1>3, OthersCompare, StartReplaces
<1>4. CASE \E w \in Links, action \in {"keep_host", "keep_sandbox"} : Resolve(w, action)
  BY <1>4, ResolveCompares, ResolveReplaces
<1>5. CASE Compare
  BY <1>5, CompareCompares, CompareReplaces
<1>6. CASE \E p \in Paths : TakePath(p)
  BY <1>6, StepOnTheWay, StartReplaces
<1>7. CASE Verify \/ Record \/ Merge \/ RecordMerged
  BY <1>7, RecordCompares, IdleReplaces, RecordReplaces
<1>8. CASE Recover \/ Sweep \/ Check \/ AllDone \/ Settled \/ Fails \/ Crash
  BY <1>8, StepOnTheWay, IdleReplaces
<1>9. CASE Recheck \/ Unlink \/ Place \/ WriteJournal \/ Prepare \/ Move \/ Clear \/ Publish \/ Settle
  BY <1>9, StepOnTheWay, ApplyReplaces
<1> QED
  BY <1>1, <1>2, <1>3, <1>4, <1>5, <1>6, <1>7, <1>8, <1>9 DEF Next

-----------------------------------------------------------------------------
(* The writer, its journal, the revisions in the store and what the writer    *)
(* compares agree in every reachable state, however many workspaces share     *)
(* the directory.                                                             *)
THEOREM Invariance == Spec => []IInv
<1>1. Init => IInv
  BY InitMachine, InitCompares DEF IInv, Machine
<1>2. IInv /\ [Next]_vars => IInv'
  BY StepKeeps, StillKeeps, StepCompares, StillCompares DEF IInv, Machine
<1> QED
  BY <1>1, <1>2, PTL DEF Spec

(* What others wrote into the directory is there, or in a revision that no    *)
(* checkpoint has collected, until the row gives that revision up; unless it   *)
(* came between the last check of its path and the change (_checkpoint(),     *)
(* checkpoint_thread(), _apply(), _resolve()).                                *)
THEOREM EditsAreKept == Spec => []EditsSurvive
<1>1. ASSUME IInv PROVE EditsSurvive
  <2> SUFFICES ASSUME NEW p \in Paths
               PROVE  \/ owed[p] \in {Nothing, dir[p]} \cup exposed
                      \/ \E w \in Links : \E revision \in stored[w] : revision[p] = owed[p]
    BY DEF EditsSurvive
  <2>1. \A w \in Links : /\ base[w] \in stored[w] \/ base[w][p] = Nothing
                         /\ backup[w] \in stored[w] \/ backup[w][p] = Nothing
    BY <1>1, NoJobFacts DEF IInv, RowsAreStored
  <2>2. \/ owed[p] \in {Nothing, dir[p]} \cup exposed
        \/ \E w \in Links : owed[p] \in {base[w][p], backup[w][p]}
    BY <1>1 DEF IInv, Replaceable, Kept, Named
  <2> QED
    BY <2>1, <2>2
<1> QED
  BY <1>1, Invariance, PTL

(* local_sync_revision names what the directory really had (_verify()).       *)
THEOREM BaselineIsTrue == Spec => []BaselineWasThere
<1>1. IInv => BaselineWasThere
  BY DEF IInv, Compared
<1> QED
  BY <1>1, Invariance, PTL

(* A path is away only under a journal that leads to it, in every reachable   *)
(* state, so after a crash in any step of _replace_entry().                   *)
THEOREM ReplacementsAreJournaled == Alone => (Spec => [](Machine /\ Away))
<1>1. ASSUME Alone PROVE Machine /\ Away /\ [Next]_vars => (Machine /\ Away)'
  BY <1>1, StepKeeps, StillKeeps
<1>2. ASSUME Alone PROVE Spec => [](Machine /\ Away)
  BY <1>1, <1>2, InitMachine, PTL DEF Spec
<1> QED
  BY <1>2

(* What an interrupted replacement moved away is always in the directory its *)
(* own journal names (_replace_entry(), _settle_replacement()).              *)
THEOREM NothingIsLost == Alone => (Spec => []NothingVanishes)
<1>1. Away => NothingVanishes
  BY DEF Away, NothingVanishes
<1>2. ASSUME Alone PROVE Spec => []NothingVanishes
  BY <1>1, <1>2, ReplacementsAreJournaled, PTL
<1> QED
  BY <1>2

=============================================================================
