--------------------------- MODULE ProjectRuntime ---------------------------
(***************************************************************************)
(* One project workspace and its replaceable execution environment:         *)
(*   modules/projects/runtime_switch.py   switches, recovery, abandonment    *)
(*   modules/projects/workspaces.py       checkpoints, writes, ensure, retire*)
(*   modules/tools/coding/service.py      a tool's write and its checkpoint  *)
(*   modules/workspaces/transitions.py, runtime.py   allocation, ownership   *)
(*                                                                          *)
(* The contents of an environment are the number of the write they show, and *)
(* a revision is the contents it saved (0: none).  The local directory is    *)
(* applied under the manual policy; session forks are left out.  Checks that *)
(* can only refuse a request (interrupts, processes) are refusals.           *)
(***************************************************************************)
EXTENDS Integers, FiniteSets

CONSTANTS
    Runs,       \* agent runs of the workspace
    MaxOps,     \* bound: switches and recoveries
    MaxWrites,  \* bound: writes of tools
    MaxTroubles \* bound: failing calls, database outages, lost environments and restarts

Coroutines == {"switch",    \* the task of request()
               "recovery",  \* replace(), called by the holder of the lock
               "mend"}      \* recover() and abandon()

ASSUME ProjectAssumption ==
    /\ {"nobody", "user", "retire"} \cap Runs = {} /\ Coroutines \cap Runs = {}
    /\ {MaxOps, MaxWrites, MaxTroubles} \subseteq Nat

Sandboxes == 0..MaxOps     \* the first environment, and the one each operation allocates
Local     == -1            \* the local directory
Refs      == Sandboxes \cup {Local}
NoRef     == -2

VARIABLES
    row,       \* WorkspaceRuntime: ref, generation, status, whether a decision is pending
    ws,        \* ProjectWorkspace: head and pinned revision, persistence status
    journal,   \* transition_json
    boxes,     \* what exists: the state and the files of each environment
    stored,    \* revisions in the object store
    overwritten, \* history: transitions on record when an older one was written over them
    owner,     \* who holds service.lock(workspace_id)
    switching, \* workspace_id in switcher.switching
    state,     \* state[k]: the state dict coroutine k works on ...
    at,        \* ... and where it is; "switch" is idle when it is not in switcher.tasks
    caller,    \* who called replace()
    pc,        \* pc[r]: "out", "leased", "prepared" or "written"
    context,   \* context[r]: ref and generation of the tool's InvocationContext
    retire,    \* retire_matching(): its action, its generation and where it is
    last,      \* the number of the last write
    spent      \* bounds: operations and troubles so far

book    == <<journal, overwritten>>
durable == <<row, ws, book, boxes, stored>>
transit == <<switching, state, at, caller>>
tools   == <<pc, context>>
vars    == <<durable, owner, transit, tools, retire, last, spent>>

ACTIVE_PHASES == {"saving", "provisioning", "restoring", "verifying", "activating",
                  "allocation_unknown"}

NoOp == [id |-> 0, phase |-> "none", kind |-> "none", target |-> NoRef, local |-> FALSE,
         source |-> Local, generation |-> 0, revision |-> 0, previous |-> 0, cleanup |-> {}]

NoContext == [ref |-> NoRef, generation |-> 0]
NoRetire  == [at |-> "idle", action |-> "stop", generation |-> 0]

(* assert_available(), without and with the row at hand. *)
Free      == ~switching
Available == ~switching /\ journal.phase \notin ACTIVE_PHASES

Exists(ref) == boxes[ref].state \in {"up", "stopped"}
Leases      == {r \in Runs : pc[r] # "out"}

Fault == spent.troubles < MaxTroubles /\ spent' = [spent EXCEPT !.troubles = @ + 1]
Works == UNCHANGED spent

(* _write(): the whole state, over whatever is on record. *)
Wrote(now) ==
    /\ journal' = now
    /\ overwritten' = overwritten \cup (now.id + 1)..journal.id

(* A write that fails may have been committed. *)
MayHaveWritten(now) == UNCHANGED book \/ Wrote(now)

-----------------------------------------------------------------------------
(* _checkpoint(), by the holder of the lock. *)

SavingCollectsOld(files) ==     \* mutant of Saving: collects before the head moves
    /\ ws' = [ws EXCEPT !.head = files, !.persistence = "clean"]
    /\ stored' = (stored \cup {files}) \cap {ws.head, ws.pinned}

Saving(files) ==
    /\ ws' = [ws EXCEPT !.head = files, !.persistence = "clean"]
    /\ \/ stored' = stored \cup {files}    \* collecting old revisions may fail
       \/ stored' = (stored \cup {files}) \cap {files, ws.head, ws.pinned}

SavingFails ==
    /\ ws' = [ws EXCEPT !.persistence = "error"]
    /\ UNCHANGED stored

Saved ==
    /\ Exists(row.ref)
    /\ Saving(boxes[row.ref].files)
    /\ UNCHANGED <<row, spent>>

NotSaved ==
    /\ SavingFails
    /\ \/ Exists(row.ref) /\ Fault /\ UNCHANGED row
       \/ /\ ~Exists(row.ref) /\ Works
          /\ row' = [row EXCEPT !.status = "unavailable", !.decision = TRUE]

(* checkpoint(): on request, at the end of a run, after a process, at shutdown. *)
Checkpoint ==
    /\ Available /\ owner = "nobody"
    /\ Saved \/ NotSaved
    /\ UNCHANGED <<book, boxes, owner, transit, tools, retire, last>>

-----------------------------------------------------------------------------
(* A run and its tools. *)

(* run_lease(): admission looks at the switch only. *)
Admit(r) ==
    /\ pc[r] = "out" /\ Free
    /\ pc' = [pc EXCEPT ![r] = "leased"]
    /\ UNCHANGED <<durable, owner, transit, context, retire, last, spent>>

Leave(r) ==
    /\ pc[r] \in {"leased", "prepared"} /\ caller # r
    /\ pc' = [pc EXCEPT ![r] = "out"]
    /\ context' = [context EXCEPT ![r] = NoContext]
    /\ UNCHANGED <<durable, owner, transit, retire, last, spent>>

Prepared(r, now) ==
    /\ pc' = [pc EXCEPT ![r] = "prepared"]
    /\ context' = [context EXCEPT ![r] = [ref |-> now.ref, generation |-> now.generation]]

Unsaved == ws.head = 0 \/ ws.persistence = "dirty"

(* ensure(recover=True) finds the environment, and starts it if it is stopped. *)
Ensure(r) ==
    /\ pc[r] \in {"leased", "prepared"} /\ Available /\ owner = "nobody"
    /\ ~row.decision /\ Exists(row.ref)
    /\ boxes' = [boxes EXCEPT ![row.ref].state = "up"]
    /\ \/ ~Unsaved /\ UNCHANGED <<ws, stored>> /\ Works
       \/ Unsaved /\ Saving(boxes[row.ref].files) /\ Works
       \/ Unsaved /\ SavingFails /\ Fault
    /\ IF ws.head = 0 /\ ws'.head = 0
       THEN UNCHANGED <<row, tools>>      \* the first checkpoint must succeed
       ELSE /\ row' = [row EXCEPT !.status = "ready"]
            /\ Prepared(r, row)
    /\ UNCHANGED <<book, owner, transit, retire, last>>

(* mutation() and the effect of the tool, in the environment of its context. *)
Write(r) ==
    /\ pc[r] = "prepared" /\ Available /\ owner = "nobody"
    /\ ws.persistence # "error" /\ row.status = "ready"
    /\ context[r].generation = row.generation
    /\ owner' = r
    /\ ws' = [ws EXCEPT !.persistence = "dirty"]
    /\ pc' = [pc EXCEPT ![r] = "written"]
    /\ IF Exists(context[r].ref)
       THEN /\ last < MaxWrites + 1
            /\ last' = last + 1
            /\ boxes' = [boxes EXCEPT ![context[r].ref] = [state |-> "up", files |-> last + 1]]
       ELSE UNCHANGED <<last, boxes>>
    /\ UNCHANGED <<row, book, stored, transit, context, retire, spent>>

(* persist_result(): the tool has run whatever becomes of the checkpoint. *)
Persist(r) ==
    /\ pc[r] = "written"
    /\ Saved \/ NotSaved
    /\ owner' = "nobody"
    /\ pc' = [pc EXCEPT ![r] = "leased"]
    /\ context' = [context EXCEPT ![r] = NoContext]
    /\ UNCHANGED <<book, boxes, transit, retire, last>>

-----------------------------------------------------------------------------
(* retire_matching(): stop or delete the environment from the sandbox list. *)

RetireCheck(action) ==
    /\ retire.at = "idle" /\ row.ref # Local
    /\ Available /\ Leases = {}
    /\ retire' = [at |-> "lock", action |-> action, generation |-> row.generation]
    /\ UNCHANGED <<durable, owner, transit, tools, last, spent>>

RetireSaveAnyway ==             \* mutant of RetireSave: a failed checkpoint is not in the way
    /\ retire.at = "lock" /\ owner = "nobody" /\ Available
    /\ Saved \/ NotSaved
    /\ owner' = "retire" /\ retire' = [retire EXCEPT !.at = "provider"]
    /\ UNCHANGED <<book, boxes, transit, tools, last>>

RetireSave ==
    /\ retire.at = "lock" /\ owner = "nobody"
    /\ \/ /\ Available /\ retire.generation = row.generation
          /\ \/ Saved /\ owner' = "retire" /\ retire' = [retire EXCEPT !.at = "provider"]
             \/ NotSaved /\ UNCHANGED owner /\ retire' = NoRetire
       \/ /\ ~Available \/ retire.generation # row.generation
          /\ retire' = NoRetire
          /\ UNCHANGED <<row, ws, stored, owner, spent>>
    /\ UNCHANGED <<book, boxes, transit, tools, last>>

RetireProvider ==
    /\ retire.at = "provider"
    /\ LET ends == [boxes EXCEPT ![row.ref].state = IF retire.action = "stop" /\ Exists(row.ref)
                                                     THEN "stopped" ELSE "gone"]
       IN \/ boxes' = ends /\ Works /\ retire' = [retire EXCEPT !.at = "status"] /\ UNCHANGED owner
          \/ boxes' \in {boxes, ends} /\ Fault /\ retire' = NoRetire /\ owner' = "nobody"
    /\ UNCHANGED <<row, ws, book, stored, transit, tools, last>>

RetireStatus ==
    /\ retire.at = "status"
    /\ \/ /\ row' = [row EXCEPT !.status = IF retire.action = "stop" THEN "stopped" ELSE "destroyed"]
          /\ Works
       \/ UNCHANGED row /\ Fault
    /\ retire' = NoRetire
    /\ owner' = "nobody"
    /\ UNCHANGED <<ws, book, boxes, stored, transit, tools, last>>

Retire == (\E action \in {"stop", "delete"} : RetireCheck(action))
          \/ RetireSave \/ RetireProvider \/ RetireStatus

-----------------------------------------------------------------------------
(* A transition starts: a request reserves the workspace while nobody uses    *)
(* it; a recovery runs in the hands of whoever holds the lock.               *)

Begin(k, kind, local, revision) ==
    /\ spent.ops < MaxOps /\ spent' = [spent EXCEPT !.ops = @ + 1]
    /\ state' = [state EXCEPT ![k] =
          [id |-> spent.ops + 1, phase |-> "saving", kind |-> kind, target |-> NoRef, local |-> local,
           source |-> row.ref, generation |-> row.generation, revision |-> revision,
           previous |-> ws.pinned, cleanup |-> journal.cleanup]]
    /\ at' = [at EXCEPT ![k] = "journal"]
    /\ switching' = TRUE

RequestBusy(local) ==           \* mutant of Request: does not look at the leases
    /\ Available /\ owner = "nobody" /\ at["switch"] = "idle"
    /\ row.status = "ready" /\ (local => row.ref # Local)
    /\ Begin("switch", "switch", local, 0)
    /\ UNCHANGED <<durable, owner, caller, tools, retire, last>>

Request(local) ==
    /\ Available /\ Leases = {} /\ owner = "nobody" /\ at["switch"] = "idle"
    /\ row.status = "ready" /\ (local => row.ref # Local)
    /\ Begin("switch", "switch", local, 0)
    /\ UNCHANGED <<durable, owner, caller, tools, retire, last>>

Recovery(who, local) ==
    /\ Available /\ ws.head \in stored
    /\ owner = "nobody" /\ owner' = who /\ caller' = who
    /\ row' = [row EXCEPT !.status = "unavailable", !.decision = TRUE]
    /\ Begin("recovery", "recovery", local, ws.head)
    /\ UNCHANGED <<ws, book, boxes, stored, tools, retire, last>>

EnsureLostEager(r) ==           \* mutant of EnsureLost: so is one that could not be saved
    /\ pc[r] \in {"leased", "prepared"}
    /\ row.decision \/ ~Exists(row.ref) \/ ws.persistence = "error"
    /\ Recovery(r, FALSE)

(* ensure(recover=True): the environment is lost, or was found to be. *)
EnsureLost(r) ==
    /\ pc[r] \in {"leased", "prepared"}
    /\ row.decision \/ ~Exists(row.ref)
    /\ Recovery(r, FALSE)

(* confirm_provision(): "restore" or "local". *)
ConfirmProvision == row.decision /\ \E local \in BOOLEAN : Recovery("user", local)

-----------------------------------------------------------------------------
(* The steps of _run().  A database outage outlives the handlers that write:  *)
(* the write may have been committed or not.                                 *)

Goto(k, next) == at' = [at EXCEPT ![k] = next]

(* The exits of a coroutine: replace() hands the new binding to its caller. *)
End(k, succeeded) ==
    /\ at' = [at EXCEPT ![k] = "idle"]
    /\ state' = [state EXCEPT ![k] = NoOp]
    /\ switching' = (switching /\ k = "mend")
    /\ owner' = IF k = "switch" THEN owner ELSE "nobody"
    /\ caller' = IF k = "recovery" THEN "nobody" ELSE caller
    /\ IF k = "recovery" /\ caller \in Runs
       THEN IF succeeded
            THEN Prepared(caller, row)
            ELSE /\ pc' = [pc EXCEPT ![caller] = "leased"]
                 /\ context' = [context EXCEPT ![caller] = NoContext]
       ELSE UNCHANGED tools

(* The first write is in request() and in replace(), before _run(). *)
Journal(k) ==
    /\ at[k] = "journal"
    /\ \/ /\ Wrote(state[k]) /\ Works
          /\ Goto(k, "start")
          /\ UNCHANGED <<owner, switching, state, caller, tools>>
       \/ /\ Fault
          /\ \/ MayHaveWritten(state[k])
             \/ k = "switch" /\ Wrote([state[k] EXCEPT !.phase = "failed"])
          /\ End(k, FALSE)
    /\ UNCHANGED <<row, ws, boxes, stored, retire, last>>

(* The lock of a request ends with the block of the exit stack. *)
RaiseTo(k, handler) ==
    /\ Goto(k, handler)
    /\ owner' = IF k = "switch" THEN "nobody" ELSE owner
Raise(k) == RaiseTo(k, "handler")

Start(k) ==
    /\ at[k] = "start"
    /\ \/ /\ k = "switch" /\ owner = "nobody" /\ row.generation = state[k].generation
          /\ \/ /\ Saved
                /\ state' = [state EXCEPT ![k].revision = boxes[row.ref].files]
                /\ Goto(k, "pin") /\ owner' = "switch"
             \/ NotSaved /\ UNCHANGED state /\ Raise(k)
       \/ /\ k = "switch" /\ owner = "nobody" /\ row.generation # state[k].generation
          /\ Raise(k)
          /\ UNCHANGED <<row, ws, stored, state, spent>>
       \/ /\ k = "recovery"
          /\ Goto(k, "pin")
          /\ UNCHANGED <<row, ws, stored, state, owner, spent>>
    /\ UNCHANGED <<book, boxes, switching, caller, tools, retire, last>>

Pin(k) ==
    /\ at[k] = "pin"
    /\ \/ /\ ws' = [ws EXCEPT !.pinned = state[k].revision] /\ Works
          /\ Goto(k, "provisioning") /\ UNCHANGED owner
       \/ /\ ws' \in {ws, [ws EXCEPT !.pinned = state[k].revision]} /\ Fault
          /\ Raise(k)
    /\ UNCHANGED <<row, book, boxes, stored, switching, state, caller, tools, retire, last>>

(* _phase() and _write(). *)
Recorded(k, now, next) ==
    /\ state' = [state EXCEPT ![k] = now]
    /\ \/ Wrote(now) /\ Works /\ Goto(k, next) /\ UNCHANGED owner
       \/ MayHaveWritten(now) /\ Fault /\ Raise(k)

Provisioning(k) ==
    /\ at[k] = "provisioning"
    /\ Recorded(k, [state[k] EXCEPT !.phase = "provisioning"],
                IF state[k].local THEN "restoring" ELSE "allocate")
    /\ UNCHANGED <<row, ws, boxes, stored, switching, caller, tools, retire, last>>

(* create_workspace_backend(): its answer may be lost, or precede the sandbox. *)
Allocate(k) ==
    /\ at[k] = "allocate"
    /\ \/ /\ boxes' = [boxes EXCEPT ![state[k].id] = [state |-> "up", files |-> 0]] /\ Works
          /\ state' = [state EXCEPT ![k].target = state[k].id]
          /\ Goto(k, "remember") /\ UNCHANGED owner
       \/ /\ \E found \in {"none", "coming", "up"} :
                boxes' = [boxes EXCEPT ![state[k].id].state = found]
          /\ Fault /\ RaiseTo(k, "uncertain")
          /\ UNCHANGED state
       \/ /\ Fault /\ Raise(k)
          /\ UNCHANGED <<boxes, state>>
    /\ UNCHANGED <<row, ws, book, stored, switching, caller, tools, retire, last>>

Remember(k) ==
    /\ at[k] = "remember"
    /\ Recorded(k, state[k], "restoring")
    /\ UNCHANGED <<row, ws, boxes, stored, switching, caller, tools, retire, last>>

Restoring(k) ==
    /\ at[k] = "restoring"
    /\ Recorded(k, [state[k] EXCEPT !.phase = "restoring", !.target = IF state[k].local THEN Local ELSE @],
                "restore")
    /\ UNCHANGED <<row, ws, boxes, stored, switching, caller, tools, retire, last>>

(* transfer.restore() or apply_workspace_revision(); nobody else uses the target. *)
Restore(k) ==
    /\ at[k] = "restore"
    /\ LET target == state[k].target
       IN \/ /\ Exists(target) /\ state[k].revision \in stored /\ Works
             /\ boxes' = [boxes EXCEPT ![target].files = state[k].revision]
             /\ Goto(k, "verifying") /\ UNCHANGED owner
          \/ ~Exists(target) /\ UNCHANGED <<boxes, spent>> /\ Raise(k)
          \/ /\ Exists(target) /\ Fault /\ Raise(k)
             /\ IF target = Local THEN UNCHANGED boxes
                ELSE boxes' = [boxes EXCEPT ![target].files = 0]
    /\ UNCHANGED <<row, ws, book, stored, switching, state, caller, tools, retire, last>>

Verifying(k) ==
    /\ at[k] = "verifying"
    /\ Recorded(k, [state[k] EXCEPT !.phase = "verifying"], "verify")
    /\ UNCHANGED <<row, ws, boxes, stored, switching, caller, tools, retire, last>>

Verify(k) ==
    /\ at[k] = "verify"
    /\ IF Exists(state[k].target) THEN Goto(k, "activating") /\ UNCHANGED owner ELSE Raise(k)
    /\ UNCHANGED <<durable, switching, state, caller, tools, retire, last, spent>>

Activating(k) ==
    /\ at[k] = "activating"
    /\ Recorded(k, [state[k] EXCEPT !.phase = "activating"], "publish")
    /\ UNCHANGED <<row, ws, boxes, stored, switching, caller, tools, retire, last>>

(* _publish_runtime(): one transaction. *)
Publish(k) ==
    /\ at[k] = "publish"
    /\ LET now == [state[k] EXCEPT !.phase = "completed",
                    !.cleanup = @ \cup IF state[k].source # Local /\ state[k].kind = "switch"
                                       THEN {[ref |-> state[k].source, action |-> "retire"]} ELSE {}]
           Committed ==
              /\ row.generation = now.generation
              /\ row' = [ref |-> now.target, generation |-> now.generation + 1,
                         status |-> "ready", decision |-> FALSE]
              /\ ws' = [ws EXCEPT !.persistence = "clean", !.head = IF now.local THEN now.revision ELSE @]
              /\ Wrote(now)
       IN /\ state' = [state EXCEPT ![k] = now]
          /\ \/ Committed /\ Works /\ Goto(k, "unpin") /\ UNCHANGED owner
             \/ Committed /\ Fault /\ Raise(k)
             \/ UNCHANGED <<row, ws, book>> /\ Fault /\ Raise(k)
    /\ UNCHANGED <<boxes, stored, switching, caller, tools, retire, last>>

Unpinned(s) == [ws EXCEPT !.pinned = IF @ = s.revision THEN s.previous ELSE @]

(* The new environment is in service before the old one is retired. *)
Unpin(k) ==
    /\ at[k] = "unpin"
    /\ \/ /\ ws' = Unpinned(state[k]) /\ Works
          /\ Goto(k, "cleanup")
          /\ switching' = FALSE
          /\ owner' = IF k = "switch" THEN "nobody" ELSE owner
       \/ /\ ws' \in {ws, Unpinned(state[k])} /\ Fault
          /\ RaiseTo(k, "activated") /\ UNCHANGED switching
    /\ UNCHANGED <<row, book, boxes, stored, state, caller, tools, retire, last>>

(* runtime_is_owned(): the environment serves a workspace. *)
Owned(ref) == ref = row.ref /\ row.status # "destroyed"

CleanupForgets(k) ==            \* mutant of Cleanup: tries once
    /\ at[k] \in {"cleanup", "sweep"}
    /\ \/ Fault /\ UNCHANGED boxes
       \/ /\ Works
          /\ boxes' = [ref \in Refs |->
                IF ref # row.ref /\ ref \in {item.ref : item \in state[k].cleanup}
                THEN [boxes[ref] EXCEPT !.state = "gone"] ELSE boxes[ref]]
    /\ state' = [state EXCEPT ![k].cleanup = {}]
    /\ Goto(k, IF at[k] = "cleanup" THEN "record" ELSE "swept")
    /\ UNCHANGED <<row, ws, book, stored, owner, switching, caller, tools, retire, last>>

(* _cleanup(): an environment in use and one the provider fails on stay listed. *)
Cleanup(k) ==
    /\ at[k] \in {"cleanup", "sweep"}
    /\ \E failing \in SUBSET {item \in state[k].cleanup : ~Owned(item.ref)} :
          LET done == {item \in state[k].cleanup \ failing : ~Owned(item.ref)}
              Ending(ref) == IF [ref |-> ref, action |-> "delete"] \in done THEN "gone"
                             ELSE IF \E item \in done : item.ref = ref /\ Exists(ref) THEN "stopped"
                             ELSE boxes[ref].state
          IN /\ boxes' = [ref \in Refs |-> [boxes[ref] EXCEPT !.state = Ending(ref)]]
             /\ state' = [state EXCEPT ![k].cleanup = @ \ done]
             /\ IF failing = {} THEN Works ELSE Fault
    /\ Goto(k, IF at[k] = "cleanup" THEN "record" ELSE "swept")
    /\ UNCHANGED <<row, ws, book, stored, owner, switching, caller, tools, retire, last>>

Record(k) ==
    /\ at[k] = "record"
    /\ \/ Wrote(state[k]) /\ Works /\ End(k, TRUE)
       \/ /\ MayHaveWritten(state[k]) /\ Fault /\ Goto(k, "activated")
          /\ UNCHANGED <<owner, switching, state, caller, tools>>
    /\ UNCHANGED <<row, ws, boxes, stored, retire, last>>

-----------------------------------------------------------------------------
(* The handler of _run(), and what it shares with recover() and abandon().    *)

FailedForgets(s) == [s EXCEPT !.phase = "failed"]  \* mutant of Failed

Failed(s) == [s EXCEPT !.phase = "failed",
                       !.cleanup = @ \cup IF s.target \in Sandboxes
                                          THEN {[ref |-> s.target, action |-> "delete"]} ELSE {}]
Unknown(s) == [s EXCEPT !.phase = "allocation_unknown"]

(* A publication whose acknowledgement was lost is found in the row. *)
Published(s) == row.generation = s.generation + 1 /\ journal.id = s.id /\ journal.phase = "completed"

Handler(k) ==
    /\ at[k] \in {"handler", "uncertain"}
    /\ \/ /\ IF Published(state[k]) THEN Goto(k, "activated") /\ UNCHANGED state
             ELSE /\ LET blind == ~state[k].local /\ state[k].phase = "provisioning" /\ state[k].target = NoRef
                     IN \/ at[k] = "handler" /\ state' = [state EXCEPT ![k] = Failed(@)]
                        \/ blind /\ state' = [state EXCEPT ![k] = Unknown(@)]
                  /\ Goto(k, "settle")
          /\ Works
          /\ UNCHANGED <<owner, switching, caller, tools>>
       \/ Fault /\ End(k, FALSE)
    /\ UNCHANGED <<durable, retire, last>>

Activated(k) ==
    /\ at[k] = "activated"
    /\ switching' = FALSE
    /\ state' = [state EXCEPT ![k].phase = "completed"]
    /\ Goto(k, "settle")
    /\ UNCHANGED <<durable, owner, caller, tools, retire, last, spent>>

Settle(k) ==
    /\ at[k] = "settle"
    /\ \/ /\ Wrote(state[k]) /\ Works
          /\ IF state[k].phase = "allocation_unknown" /\ k = "mend" THEN End(k, FALSE)
             ELSE /\ Goto(k, IF state[k].phase = "allocation_unknown" THEN "sweep" ELSE "forgive")
                  /\ UNCHANGED <<owner, switching, state, caller, tools>>
       \/ MayHaveWritten(state[k]) /\ Fault /\ End(k, FALSE)
    /\ UNCHANGED <<row, ws, boxes, stored, retire, last>>

Forgive(k) ==
    /\ at[k] = "forgive"
    /\ \/ /\ ws' = Unpinned(state[k]) /\ Works
          /\ Goto(k, "sweep")
          /\ UNCHANGED <<owner, switching, state, caller, tools>>
       \/ ws' \in {ws, Unpinned(state[k])} /\ Fault /\ End(k, FALSE)
    /\ UNCHANGED <<row, book, boxes, stored, retire, last>>

Swept(k) ==
    /\ at[k] = "swept"
    /\ \/ Wrote(state[k]) /\ Works /\ End(k, state[k].phase = "completed")
       \/ MayHaveWritten(state[k]) /\ Fault /\ End(k, FALSE)
    /\ UNCHANGED <<row, ws, boxes, stored, retire, last>>

-----------------------------------------------------------------------------
(* recover(), at start and every half minute, and abandon(), by the operator. *)

Mend(now, next) ==
    /\ ~switching /\ at["switch"] = "idle" /\ at["mend"] = "idle" /\ owner = "nobody"
    /\ owner' = "mend"
    /\ state' = [state EXCEPT !["mend"] = now]
    /\ at' = [at EXCEPT !["mend"] = next]
    /\ UNCHANGED <<durable, switching, caller, tools, retire, last>>

(* find_allocation(): the sandbox that carries the id of the operation. *)
Located == journal.id \in Sandboxes /\ Exists(journal.id)
Claimed == Failed([journal EXCEPT !.target = journal.id])

Blind(s) == ~s.local /\ \/ s.phase = "allocation_unknown"
                        \/ s.phase = "provisioning" /\ s.target = NoRef

RecoverBlind ==                 \* mutant of Recover: sees to allocations and cleanup only
    \/ Blind(journal) /\ Located /\ Mend(Claimed, "settle") /\ Works
    \/ Blind(journal) /\ journal.phase = "provisioning" /\ Mend(Unknown(journal), "settle") /\ Works
    \/ journal.phase \in {"completed", "failed"} /\ journal.cleanup # {} /\ Mend(journal, "forgive") /\ Works

Recover ==
    \/ Blind(journal) /\ Located /\ Mend(Claimed, "settle") /\ Works
    \/ Blind(journal) /\ journal.phase = "provisioning" /\ Mend(Unknown(journal), "settle")
             /\ IF Located THEN Fault ELSE Works    \* what is unknown already stays so
    \/ ~Blind(journal) /\ journal.phase \in ACTIVE_PHASES /\ Mend(Failed(journal), "settle") /\ Works
    \/ /\ journal.phase \in {"completed", "failed"}
       /\ journal.cleanup # {} \/ Unpinned(journal) # ws    \* or it does nothing
       /\ Mend(journal, "forgive") /\ Works

(* The operator reconciled the provider's inventory: nothing is on its way. *)
Abandon ==
    /\ journal.phase = "allocation_unknown" /\ boxes[journal.id].state # "coming"
    /\ Mend(IF Located THEN Claimed ELSE Failed(journal), "settle")
    /\ Works

-----------------------------------------------------------------------------
(* The environment of the program. *)

Arrive(s) ==
    /\ boxes[s].state = "coming"
    /\ boxes' = [boxes EXCEPT ![s] = [state |-> "up", files |-> 0]]
    /\ UNCHANGED <<row, ws, book, stored, owner, transit, tools, retire, last, spent>>

SandboxLost(s) ==
    /\ Exists(s) /\ Fault
    /\ boxes' = [boxes EXCEPT ![s].state = "gone"]
    /\ UNCHANGED <<row, ws, book, stored, owner, transit, tools, retire, last>>

Crash ==
    /\ Fault
    /\ owner' = "nobody" /\ caller' = "nobody" /\ switching' = FALSE
    /\ state' = [k \in Coroutines |-> NoOp]
    /\ at' = [k \in Coroutines |-> "idle"]
    /\ pc' = [r \in Runs |-> "out"]
    /\ context' = [r \in Runs |-> NoContext]
    /\ retire' = NoRetire
    /\ UNCHANGED <<durable, last>>

-----------------------------------------------------------------------------
Init ==
    /\ row = [ref |-> 0, generation |-> 1, status |-> "ready", decision |-> FALSE]
    /\ ws = [head |-> 0, pinned |-> 0, persistence |-> "clean"]
    /\ journal = NoOp /\ overwritten = {}
    /\ boxes = [ref \in Refs |-> [state |-> IF ref \in {0, Local} THEN "up" ELSE "none",
                                  files |-> IF ref = 0 THEN 1 ELSE 0]]
    /\ stored = {}
    /\ owner = "nobody" /\ switching = FALSE /\ caller = "nobody"
    /\ state = [k \in Coroutines |-> NoOp]
    /\ at = [k \in Coroutines |-> "idle"]
    /\ pc = [r \in Runs |-> "out"]
    /\ context = [r \in Runs |-> NoContext]
    /\ retire = NoRetire
    /\ last = 1
    /\ spent = [ops |-> 0, troubles |-> 0]

Step(k) ==
    \/ Journal(k) \/ Start(k) \/ Pin(k) \/ Provisioning(k) \/ Allocate(k) \/ Remember(k)
    \/ Restoring(k) \/ Restore(k) \/ Verifying(k) \/ Verify(k) \/ Activating(k) \/ Publish(k)
    \/ Unpin(k) \/ Cleanup(k) \/ Record(k)
    \/ Handler(k) \/ Activated(k) \/ Settle(k) \/ Forgive(k) \/ Swept(k)

Use(r) == Admit(r) \/ Leave(r) \/ Ensure(r) \/ EnsureLost(r) \/ Write(r) \/ Persist(r)

Next ==
    \/ Checkpoint \/ Retire \/ ConfirmProvision \/ Recover \/ Abandon \/ Crash
    \/ \E local \in BOOLEAN : Request(local)
    \/ \E r \in Runs : Use(r)
    \/ \E k \in Coroutines : Step(k)
    \/ \E s \in Sandboxes : Arrive(s) \/ SandboxLost(s)

(* The event loop runs what is ready, recover() is called again and again, and *)
(* an asyncio.Lock serves its waiters in order.                              *)
Fairness ==
    /\ \A k \in Coroutines : WF_vars(Step(k))
    /\ \A r \in Runs : WF_vars(Persist(r))
    /\ WF_vars(RetireProvider \/ RetireStatus)
    /\ SF_vars(Start("switch"))
    /\ SF_vars(Recover)

Spec     == Init /\ [][Next]_vars
FairSpec == Spec /\ Fairness

-----------------------------------------------------------------------------
Phases == ACTIVE_PHASES \cup {"none", "completed", "failed"}

Operations ==
    [id : 0..MaxOps, phase : Phases, kind : {"none", "switch", "recovery"}, target : Refs \cup {NoRef},
     local : BOOLEAN, source : Refs, generation : Nat, revision : Nat, previous : Nat,
     cleanup : SUBSET [ref : Sandboxes, action : {"retire", "delete"}]]

\* Before the publication; from there to the release; the handler; what follows it.
Working  == {"journal", "start", "pin", "provisioning", "allocate", "remember", "restoring",
             "restore", "verifying", "verify", "activating", "publish"}
Late     == {"unpin", "cleanup", "record", "activated"}
Handling == {"handler", "uncertain"}
Settling == {"settle", "forgive", "sweep", "swept"}

DataOK ==
    /\ row \in [ref : Refs, generation : Nat, decision : BOOLEAN,
               status : {"ready", "stopped", "destroyed", "unavailable"}]
    /\ ws \in [head : Nat, pinned : Nat, persistence : {"clean", "dirty", "error"}]
    /\ journal \in Operations /\ overwritten \subseteq Sandboxes
    /\ boxes \in [Refs -> [state : {"none", "coming", "up", "stopped", "gone"}, files : Nat]]
    /\ stored \subseteq Nat
TransitOK ==
    /\ owner \in Runs \cup {"switch", "mend", "nobody", "user", "retire"}
    /\ switching \in BOOLEAN /\ caller \in Runs \cup {"nobody", "user"}
    /\ state \in [Coroutines -> Operations]
    /\ at \in [Coroutines -> {"idle"} \cup Working \cup Late \cup Handling \cup Settling]
ToolsOK ==
    /\ pc \in [Runs -> {"out", "leased", "prepared", "written"}]
    /\ context \in [Runs -> [ref : Refs \cup {NoRef}, generation : Nat]]
    /\ retire \in [at : {"idle", "lock", "provider", "status"}, action : {"stop", "delete"},
                  generation : Nat]
    /\ last \in Nat /\ spent \in [ops : 0..MaxOps, troubles : Nat]
TypeOK == DataOK /\ TransitOK /\ ToolsOK

(* The promise of the component: the files follow the workspace. *)
Files == INSTANCE ProjectFiles WITH
    latest    <- boxes[row.ref].files,
    saved     <- ws.head,
    available <- Exists(row.ref),
    written   <- last
IsProjectFiles == Files!Spec

(* The revision a workspace names is in the store: it can be restored (the  *)
(* collection after a checkpoint works with what was read before it).       *)
RevisionsKept == ws.head # 0 => ws.head \in stored

(* Admission and reservation exclude each other: until a requested switch is *)
(* published, or given up, no run holds the workspace.                       *)
Engaged(k) == at[k] \in Working
SwitchExcludesRuns == Engaged("switch") => Leases = {} /\ owner \in {"nobody", "switch", "retire"}

(* A running sandbox the workspace does not use is on record, so that it will *)
(* be stopped, whatever crash comes; unless the record that named it was the *)
(* one that the late cleanup of an older transition wrote its state over.    *)
Listed(j) == {item.ref : item \in j.cleanup}
OnRecord(s, j) == s \in Listed(j) \/ (s = j.id /\ j.phase \in ACTIVE_PHASES)
SandboxesAccounted ==
    \A s \in Sandboxes \ overwritten :
        boxes[s].state = "up" /\ s # row.ref => OnRecord(s, journal)

(* No provider call of the program ends the environment of the workspace     *)
(* before its files are saved: neither a retirement nor a late cleanup.      *)
EndsOnlyWhatIsSaved ==
    [][\A s \in Sandboxes :
        s = row.ref /\ boxes[s].state = "up" /\ boxes'[s].state # "up"
            => ws.head = boxes[s].files \/ SandboxLost(s)]_vars

(* A transition that a crash or an outage interrupts is brought to an end.   *)
Unsettled == journal.phase \in ACTIVE_PHASES \ {"allocation_unknown"}
SwitchSettles == Unsettled ~> ~Unsettled

(* What was left behind is stopped in the end, failures of the provider and   *)
(* crashes notwithstanding; an unknown allocation holds everything up, and a *)
(* newer transition takes the list over.                                     *)
LeftBehind(s) == boxes[s].state = "up" /\ s # row.ref /\ s \in {item.ref : item \in journal.cleanup}
LeftBehindIsStopped ==
    \A s \in Sandboxes : LeftBehind(s) ~> \/ boxes[s].state # "up" \/ journal.id < spent.ops
                                      \/ journal.phase = "allocation_unknown"

-----------------------------------------------------------------------------
(* Why the invariants hold.  Who works on the workspace: the lock and the    *)
(* reservation say so, and only a switch that has released its reservation   *)
(* meets a recovery.                                                         *)
Holding == (Working \ {"journal", "start"}) \cup {"unpin"}
Reserved == \/ at["switch"] \in Working \cup Handling \cup {"unpin"}
            \/ at["switch"] \in Settling /\ state["switch"].phase # "completed"

OwnersWork ==
    /\ owner = "switch" <=> at["switch"] \in Holding
    /\ owner = "mend" <=> at["mend"] # "idle"
    /\ owner = "retire" <=> retire.at \in {"provider", "status"}
    /\ caller # "nobody" <=> at["recovery"] # "idle"
    /\ caller # "nobody" => owner = caller
    /\ owner = "user" => caller = "user"
    /\ \A r \in Runs : /\ pc[r] = "written" => owner = r /\ caller # r
                       /\ owner = r => caller = r \/ pc[r] = "written"
    /\ at["mend"] \in {"idle"} \cup Settling
OneTransition ==
    /\ Reserved => switching /\ at["recovery"] = "idle" /\ at["mend"] = "idle"
    /\ at["switch"] \in Working => Leases = {}
    /\ at["mend"] # "idle" => at["switch"] = "idle"
    /\ \A k \in Coroutines : at[k] \in {"unpin", "cleanup", "record"} => state[k].phase = "completed"

(* The number of a transition names the sandbox it allocates.                *)
Targets(s) == {NoRef, Local, s.id}
Numbered ==
    /\ row.ref <= spent.ops /\ journal.id <= spent.ops
    /\ journal.target \in Targets(journal) /\ \A s \in Listed(journal) : s <= journal.id
    /\ \A k \in Coroutines :
          /\ state[k].id <= spent.ops
          /\ state[k].target \in Targets(state[k]) /\ \A s \in Listed(state[k]) : s <= state[k].id
          /\ at[k] \in Working => state[k].source = row.ref /\ row.ref < state[k].id
    /\ at["switch"] # "idle" /\ at["recovery"] # "idle" => state["switch"].id < state["recovery"].id

Destined ==
    \A k \in Coroutines :
        /\ at[k] \in {"journal", "start", "pin", "provisioning", "allocate"} => state[k].target = NoRef
        /\ at[k] \in {"allocate", "remember"} => ~state[k].local /\ state[k].phase = "provisioning"
        /\ at[k] = "remember" => state[k].target = state[k].id
        /\ at[k] = "restoring" => state[k].target = IF state[k].local THEN NoRef ELSE state[k].id
        /\ at[k] \in {"restore", "verifying", "verify", "activating", "publish"} =>
              state[k].target = IF state[k].local THEN Local ELSE state[k].id
        /\ at[k] \in Working => state[k].phase \in ACTIVE_PHASES

(* The revision a transition restores is the one the workspace has.          *)
Pinned ==
    /\ 0 \notin stored
    /\ \A k \in Coroutines : at[k] \in Working =>
          /\ at[k] \notin {"journal", "start"} \/ k = "recovery" =>
                state[k].revision = ws.head /\ ws.head # 0
          /\ state[k].local => row.ref # Local

(* The environment in service, and the one that will be.                     *)
InService ==
    /\ boxes[row.ref].files # 0 /\ boxes[row.ref].state \notin {"none", "coming"}
    /\ boxes[Local].state = "up"
    /\ row.decision \/ row.status = "destroyed" => ~Exists(row.ref)
    /\ at["recovery"] \in Working => row.decision
    /\ at["switch"] \in Working \ {"journal", "start"} => boxes[row.ref].files = ws.head
    /\ \A k \in Coroutines :
          /\ at[k] \in Working => state[k].generation = row.generation
          /\ at[k] \in {"remember", "restoring", "restore", "verifying", "verify", "activating", "publish"}
             /\ state[k].target # NoRef => boxes[state[k].target].state \notin {"none", "coming"}
          /\ at[k] \in {"verifying", "verify", "activating", "publish"} =>
                boxes[state[k].target].files = state[k].revision
InContext ==
    /\ row.generation >= 1
    /\ \A r \in Runs : /\ context[r].generation <= row.generation
                       /\ context[r].generation = row.generation => context[r].ref = row.ref
Retiring ==
    /\ retire.generation <= row.generation
    /\ retire.at # "idle" /\ retire.generation = row.generation => row.ref # Local
    /\ retire.at \in {"provider", "status"} => row.ref # Local
    /\ retire.at = "provider" => boxes[row.ref].files = ws.head
    /\ retire.at = "status" /\ retire.action = "delete" => ~Exists(row.ref)

(* Every transition under way could write the record: it accounts for what   *)
(* is up, except what newer ones allocated.                                  *)
Covers(k) ==
    \A s \in Sandboxes \ overwritten :
        boxes[s].state = "up" /\ s # row.ref /\ s <= state[k].id =>
            s \in Listed(state[k]) \/ (s = state[k].id /\ (at[k] \in Handling \/ state[k].phase \in ACTIVE_PHASES))
Accounts ==
    \A k \in Coroutines : at[k] # "idle" =>
        /\ Covers(k)
        /\ k = "switch" => state[k].kind = "switch"
        /\ journal.phase \in ACTIVE_PHASES => state[k].id <= journal.id
        /\ at[k] \in Working \cup {"handler"} /\ state[k].target # state[k].id =>
              boxes[state[k].id].state = "none"
        /\ at[k] = "allocate" => \/ state[k].id \in overwritten /\ journal.id # state[k].id
                                 \/ journal.id = state[k].id /\ Blind(journal)
        /\ at[k] = "uncertain" => state[k].phase = "provisioning" /\ ~state[k].local /\ state[k].target = NoRef
        /\ at[k] \in Handling => \/ row.generation = state[k].generation
                                 \/ /\ row.generation = state[k].generation + 1
                                    /\ row.ref = state[k].target /\ state[k].phase = "completed"
        /\ at[k] = "activated" => state[k].phase = "completed"
        /\ at[k] \in Settling => \/ state[k].phase \in {"completed", "failed"}
                                 \/ state[k].phase = "allocation_unknown" /\ ~state[k].local
        /\ boxes[state[k].id].state = "coming" =>
              at[k] = "uncertain" \/ (at[k] \in Settling /\ state[k].phase = "allocation_unknown")
Arrivals ==
    /\ \A s \in Sandboxes : s > spent.ops => boxes[s].state = "none"
    /\ \A s \in Sandboxes : boxes[s].state = "coming" =>
          s \in overwritten \/ (s = journal.id /\ Blind(journal))
    /\ boxes[journal.id].state = "coming" => Blind(journal)
    /\ journal.phase \in ACTIVE_PHASES /\ ~Blind(journal) /\ journal.id \notin overwritten
       /\ journal.target # journal.id => boxes[journal.id].state # "up"

IInv == /\ TypeOK /\ OwnersWork /\ OneTransition /\ Numbered /\ Destined
        /\ Pinned /\ InService /\ InContext /\ Retiring
        /\ RevisionsKept /\ SandboxesAccounted /\ Accounts /\ Arrivals
=============================================================================
