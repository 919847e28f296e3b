--------------------------- MODULE BackgroundTasks ---------------------------
(***************************************************************************)
(* The background task manager of agent/modules/agent_runtime: the          *)
(* in-memory registry, the asyncio attempt coroutines it launches, the      *)
(* background_task rows it persists, cancellation, retries, removal, the    *)
(* conversation-thread reservations that can refuse an attempt its session, *)
(* and what a server restart finds.                                         *)
(*                                                                          *)
(* One action is one stretch of code between two awaits.  An asyncio        *)
(* cancellation is a flag (hit) that is delivered when the coroutine next   *)
(* resumes, so it can land on any await, those of the finally block         *)
(* included.                                                                *)
(***************************************************************************)
EXTENDS Integers, FiniteSets

CONSTANTS
    NumTasks,      \* tasks submitted in a behaviour; ids are in created_at order
    MaxRetries,    \* max_retries of every task
    MaxCompleted,  \* MAX_COMPLETED_TASKS: history kept in memory, rows restored
    MaxCancels,    \* bound: cancel requests in a behaviour
    MaxCrashes,    \* bound: server crashes in a behaviour
    MaxFaults,     \* bound: failed database writes in a behaviour
    Requests       \* bound: the requests users make, of remove, delete and fork

ASSUME ConstantsAssumption ==
    /\ NumTasks \in Nat \ {0}
    /\ MaxRetries \in Nat
    /\ MaxCompleted \in Nat \ {0}
    /\ MaxCancels \in Nat /\ MaxCrashes \in Nat /\ MaxFaults \in Nat
    /\ Requests \subseteq {"remove", "delete", "fork"}

Tasks    == 1..NumTasks
Attempts == 0..MaxRetries      \* an attempt is named by the retry_count it starts with
NoAttempt == -1                \* task._async_task is None

Active   == {"pending", "running"}
Terminal == {"completed", "failed", "cancelled"}

(* Where an attempt coroutine waits.  "none": not created; "created": its   *)
(* first step has not run; "ended": the coroutine is done.                  *)
Trying     == {"admitting", "running", "publishing"}    \* inside the try
Finalizing == {"finalSave", "finalThread", "notifying", "cleaning"}
InSession  == Trying \cup Finalizing \cup {"retrySave"} \* inside track_active_session
Live       == InSession \cup {"created", "starting", "leaving"}

VARIABLES
    server,       \* "up", "down" (crashed), "restoring" (startup, before any submit)
    submit,       \* submit[t]: progress of the submit() call of t
    registered,   \* keys of BackgroundTaskManager._tasks
    status,       \* status[t]: task.status of the object in memory
    completedAt,  \* completedAt[t]: order of task.completed_at, 0 for None
    clock,        \* time of the newest completed_at
    asyncTask,    \* asyncTask[t]: the attempt task._async_task refers to
    pc,           \* pc[t][k]: where attempt k of t waits
    hit,          \* hit[t][k]: cancel() called on it, not delivered yet
    leased,       \* leased[t]: attempts that hold a workspace run lease
    row,          \* row[t]: the persisted BackgroundTaskRecord
    thread,       \* thread[t]: the conversation thread row of the task
    removal,      \* removal[t]: progress of a remove() or delete-thread request
    reserved,     \* reserved[t]: who holds the thread's mutation reservation
    restoring,    \* rows listed by restore_from_persistence
    cleanups,     \* history: completed runs of cleanup_hook
    cancels, crashes, faults   \* what is left of the bounds

stamps == <<completedAt, clock>>
memory == <<registered, status, stamps, asyncTask>>
coros  == <<pc, hit, leased>>
budget == <<cancels, crashes, faults>>
calls  == <<server, submit, removal, reserved, restoring>>
vars   == <<server, submit, registered, status, completedAt, clock, asyncTask, pc, hit, leased,
            row, thread, removal, reserved, restoring, cleanups, budget>>

-----------------------------------------------------------------------------
(* Helpers *)

Later(t, at) == {u \in Tasks : at[u] > at[t]}

(* Mutant: the history limit also counts tasks without an outcome. *)
TrimmedAnyStatus(reg, st, at) ==
    {t \in reg : Cardinality(reg \cap Later(t, at)) < MaxCompleted}

(* _trim_completed: of the terminal tasks the newest MaxCompleted stay. *)
Trimmed(reg, st, at) ==
    LET done == {t \in reg : st[t] \in Terminal}
    IN  (reg \ done) \cup {t \in done : Cardinality(done \cap Later(t, at)) < MaxCompleted}

(* completed_at = time.time(). *)
Stamp(t) ==
    /\ clock' = clock + 1
    /\ completedAt' = [completedAt EXCEPT ![t] = clock + 1]

Finish(t, outcome) ==
    /\ status' = [status EXCEPT ![t] = outcome]
    /\ Stamp(t)

Fault == faults > 0 /\ faults' = faults - 1 /\ UNCHANGED <<cancels, crashes>>

(* repository.upsert: writes every column, and clears deleted_at. *)
Upsert(t, st) == row' = [row EXCEPT ![t] = [status |-> st, deleted |-> FALSE]]
UpsertOrWarn(t, st) == \/ Upsert(t, st) /\ UNCHANGED budget
                       \/ Fault /\ UNCHANGED row

Goto(t, k, at) == pc' = [pc EXCEPT ![t][k] = at]

(* Leaving the coroutine closes its AsyncExitStack, which awaits a          *)
(* checkpoint before it drops the lease, if there is one.                   *)
Exit(t, k) == IF k \in leased[t] THEN "leaving" ELSE "ended"

Resumes(t, k, at) == server = "up" /\ pc[t][k] = at /\ ~hit[t][k]

-----------------------------------------------------------------------------
(* submit(): persist the row, create the conversation thread, register and  *)
(* launch the first attempt.                                                *)

SubmitPersist(t) ==
    /\ server = "up" /\ submit[t] = "unsent"
    /\ \A u \in 1..(t - 1) : submit[u] # "unsent"
    /\ submit' = [submit EXCEPT ![t] = "thread"]
    /\ Upsert(t, "pending")
    /\ UNCHANGED <<memory, coros, server, thread, removal, reserved, restoring,
                   cleanups, budget>>

SubmitLaunch(t) ==
    /\ server = "up" /\ submit[t] = "thread"
    /\ submit' = [submit EXCEPT ![t] = "done"]
    /\ thread' = [thread EXCEPT ![t] = "live"]
    /\ status' = [status EXCEPT ![t] = "pending"]
    /\ registered' = Trimmed(registered \cup {t}, status', completedAt)
    /\ asyncTask' = [asyncTask EXCEPT ![t] = 0]
    /\ Goto(t, 0, "created")
    /\ UNCHANGED <<stamps, hit, leased, row, server, removal, reserved, restoring,
                   cleanups, budget>>

(* upsert_conversation_thread raises: the caller gets the error, the row stays. *)
SubmitFails(t) ==
    /\ server = "up" /\ submit[t] = "thread"
    /\ Fault
    /\ submit' = [submit EXCEPT ![t] = "done"]
    /\ UNCHANGED <<memory, coros, row, thread, server, removal, reserved, restoring,
                   cleanups>>

-----------------------------------------------------------------------------
(* _execute / _execute_attempt *)

Begin(t, k) ==
    /\ Resumes(t, k, "created")
    /\ status' = [status EXCEPT ![t] = "running"]
    /\ Goto(t, k, "starting")
    /\ UNCHANGED <<registered, stamps, asyncTask, hit, leased, row, thread, calls,
                   cleanups, budget>>

(* The start is persisted, then track_active_session acquires the session,  *)
(* outside the try: a reserved thread makes acquire raise, and the attempt  *)
(* is over.                                                                 *)
SaveStart(t, k) ==
    /\ Resumes(t, k, "starting")
    /\ UpsertOrWarn(t, "running")
    /\ Goto(t, k, IF reserved[t] = "none" THEN "admitting" ELSE "ended")
    /\ UNCHANGED <<memory, hit, leased, thread, calls, cleanups>>

(* workspace_run: a managed workspace gives a run lease, another one none. *)
Admit(t, k) ==
    /\ Resumes(t, k, "admitting")
    /\ \E managed \in BOOLEAN :
          leased' = [leased EXCEPT ![t] = IF managed THEN @ \cup {k} ELSE @]
    /\ Goto(t, k, "running")
    /\ UNCHANGED <<memory, hit, row, thread, calls, cleanups, budget>>

RunReturns(t, k) ==
    /\ Resumes(t, k, "running")
    /\ Goto(t, k, "publishing")
    /\ UNCHANGED <<memory, hit, leased, row, thread, calls, cleanups, budget>>

(* completion_hook returned. *)
Complete(t, k) ==
    /\ Resumes(t, k, "publishing")
    /\ Finish(t, "completed")
    /\ Goto(t, k, "finalSave")
    /\ UNCHANGED <<registered, asyncTask, hit, leased, row, thread, calls,
                   cleanups, budget>>

(* Mutant: the retry counter is compared before it is incremented. *)
RetryOffByOne(t, k) ==
    /\ \E at \in Trying : Resumes(t, k, at)
    /\ k <= MaxRetries
    /\ status' = [status EXCEPT ![t] = "pending"]
    /\ Goto(t, k, "retrySave")
    /\ UNCHANGED <<registered, stamps, asyncTask, hit, leased, row, thread, calls,
                   cleanups, budget>>

(* Admission refused, run failed, timed out, or completion_hook raised. *)
Retry(t, k) ==
    /\ \E at \in Trying : Resumes(t, k, at)
    /\ k + 1 <= MaxRetries
    /\ status' = [status EXCEPT ![t] = "pending"]
    /\ Goto(t, k, "retrySave")
    /\ UNCHANGED <<registered, stamps, asyncTask, hit, leased, row, thread, calls,
                   cleanups, budget>>

Fail(t, k) ==
    /\ \E at \in Trying : Resumes(t, k, at)
    /\ k + 1 > MaxRetries
    /\ Finish(t, "failed")
    /\ Goto(t, k, "finalSave")
    /\ UNCHANGED <<registered, asyncTask, hit, leased, row, thread, calls,
                   cleanups, budget>>

(* Mutant: the next attempt is launched without updating _async_task. *)
SaveRetryUntracked(t, k) ==
    /\ Resumes(t, k, "retrySave")
    /\ UpsertOrWarn(t, status[t])
    /\ registered' = Trimmed(registered, status, completedAt)
    /\ pc' = [pc EXCEPT ![t][k] = Exit(t, k), ![t][k + 1] = "created"]
    /\ UNCHANGED <<asyncTask, status, stamps, hit, leased, thread, calls, cleanups>>

(* Mutant: the cleanup hook also runs in a retrying attempt's finally. *)
SaveRetryCleans(t, k) ==
    /\ Resumes(t, k, "retrySave")
    /\ UpsertOrWarn(t, status[t])
    /\ registered' = Trimmed(registered, status, completedAt)
    /\ asyncTask' = [asyncTask EXCEPT ![t] = k + 1]
    /\ pc' = [pc EXCEPT ![t][k] = Exit(t, k), ![t][k + 1] = "created"]
    /\ cleanups' = [cleanups EXCEPT ![t] = @ + 1]
    /\ UNCHANGED <<status, stamps, hit, leased, thread, calls>>

(* Mutant: a failed write of the pending row gives the retry up. *)
SaveRetryGivesUp(t, k) ==
    /\ Resumes(t, k, "retrySave")
    /\ UpsertOrWarn(t, status[t])
    /\ Goto(t, k, Exit(t, k))
    /\ UNCHANGED <<memory, hit, leased, thread, calls, cleanups>>

(* The finally block of a retrying attempt: persist, trim, launch the next  *)
(* attempt, and only then leave the admission stack.                        *)
SaveRetry(t, k) ==
    /\ Resumes(t, k, "retrySave")
    /\ UpsertOrWarn(t, status[t])
    /\ registered' = Trimmed(registered, status, completedAt)
    /\ IF status[t] = "pending"
       THEN /\ asyncTask' = [asyncTask EXCEPT ![t] = k + 1]
            /\ pc' = [pc EXCEPT ![t][k] = Exit(t, k), ![t][k + 1] = "created"]
       ELSE /\ asyncTask' = [asyncTask EXCEPT ![t] = IF @ = k THEN NoAttempt ELSE @]
            /\ Goto(t, k, Exit(t, k))
    /\ UNCHANGED <<status, stamps, hit, leased, thread, calls, cleanups>>

(* Mutant: a failed write of the outcome is not caught. *)
SaveFinalUncaught(t, k) ==
    /\ Resumes(t, k, "finalSave")
    /\ \/ Upsert(t, status[t]) /\ Goto(t, k, "finalThread") /\ UNCHANGED budget
       \/ Fault /\ Goto(t, k, Exit(t, k)) /\ UNCHANGED row
    /\ UNCHANGED <<memory, hit, leased, thread, calls, cleanups>>

(* The finally block of the last attempt: persist the outcome, refresh the  *)
(* thread, publish done, notify, run cleanup_hook, trim.  A failed write    *)
(* skips the rest of its own try only.                                      *)
SaveFinal(t, k) ==
    /\ Resumes(t, k, "finalSave")
    /\ \/ Upsert(t, status[t]) /\ Goto(t, k, "finalThread") /\ UNCHANGED budget
       \/ Fault /\ Goto(t, k, "notifying") /\ UNCHANGED row
    /\ UNCHANGED <<memory, hit, leased, thread, calls, cleanups>>

SaveFinalThread(t, k) ==
    /\ Resumes(t, k, "finalThread")
    /\ \/ thread' = [thread EXCEPT ![t] = "live"] /\ UNCHANGED budget
       \/ Fault /\ UNCHANGED thread
    /\ Goto(t, k, "notifying")
    /\ UNCHANGED <<memory, hit, leased, row, calls, cleanups>>

Notify(t, k) ==
    /\ Resumes(t, k, "notifying")
    /\ Goto(t, k, "cleaning")
    /\ UNCHANGED <<memory, hit, leased, row, thread, calls, cleanups, budget>>

(* Mutant: the finished attempt does not trim the history. *)
CleanUpUntrimmed(t, k) ==
    /\ Resumes(t, k, "cleaning")
    /\ cleanups' = [cleanups EXCEPT ![t] = @ + 1]
    /\ asyncTask' = [asyncTask EXCEPT ![t] = IF @ = k THEN NoAttempt ELSE @]
    /\ Goto(t, k, Exit(t, k))
    /\ UNCHANGED <<registered, status, stamps, hit, leased, row, thread, calls, budget>>

CleanUp(t, k) ==
    /\ Resumes(t, k, "cleaning")
    /\ cleanups' = [cleanups EXCEPT ![t] = @ + 1]
    /\ registered' = Trimmed(registered, status, completedAt)
    /\ asyncTask' = [asyncTask EXCEPT ![t] = IF @ = k THEN NoAttempt ELSE @]
    /\ Goto(t, k, Exit(t, k))
    /\ UNCHANGED <<status, stamps, hit, leased, row, thread, calls, budget>>

Leave(t, k) ==
    /\ server = "up" /\ pc[t][k] = "leaving"
    /\ leased' = [leased EXCEPT ![t] = @ \ {k}]
    /\ hit' = [hit EXCEPT ![t][k] = FALSE]
    /\ Goto(t, k, "ended")
    /\ UNCHANGED <<memory, row, thread, calls, cleanups, budget>>

-----------------------------------------------------------------------------
(* Cancellation *)

(* cancel(task_id) of a task whose _async_task is not done. *)
Cancel(t, k) ==
    /\ server = "up" /\ t \in registered
    /\ asyncTask[t] = k /\ pc[t][k] \in Live /\ ~hit[t][k]
    /\ cancels > 0 /\ cancels' = cancels - 1
    /\ hit' = [hit EXCEPT ![t][k] = TRUE]
    /\ UNCHANGED <<memory, pc, leased, row, thread, calls, cleanups, crashes, faults>>

(* The dashboard stops the session of the thread (cancel_by_thread). *)
StopSession(t, k) ==
    /\ server = "up" /\ pc[t][k] \in InSession /\ ~hit[t][k]
    /\ cancels > 0 /\ cancels' = cancels - 1
    /\ hit' = [hit EXCEPT ![t][k] = TRUE]
    /\ UNCHANGED <<memory, pc, leased, row, thread, calls, cleanups, crashes, faults>>

Interrupted(t, k, at) ==
    /\ server = "up" /\ pc[t][k] = at /\ hit[t][k]
    /\ hit' = [hit EXCEPT ![t][k] = FALSE]

(* CancelledError inside the try: the task is cancelled and finalized. *)
InterruptRun(t, k) ==
    /\ \E at \in Trying : Interrupted(t, k, at)
    /\ Finish(t, "cancelled")
    /\ Goto(t, k, "finalSave")
    /\ UNCHANGED <<registered, asyncTask, leased, row, thread, calls, cleanups,
                   budget>>

(* CancelledError on an awaited _persist_task: except Exception does not    *)
(* stop it, and the write may or may not have committed.                    *)
InterruptSave(t, k) ==
    /\ \E at \in {"starting", "retrySave", "finalSave"} : Interrupted(t, k, at)
    /\ Upsert(t, status[t]) \/ UNCHANGED row
    /\ Goto(t, k, Exit(t, k))
    /\ UNCHANGED <<memory, leased, thread, calls, cleanups, budget>>

(* Mutant: a cancel that lands past the outcome replaces it. *)
InterruptRestCancels(t, k) ==
    /\ \E at \in {"created", "finalThread", "notifying", "cleaning"} : Interrupted(t, k, at)
    /\ status' = [status EXCEPT ![t] = "cancelled"]
    /\ UNCHANGED thread
    /\ Goto(t, k, Exit(t, k))
    /\ UNCHANGED <<registered, stamps, asyncTask, leased, row, calls, cleanups, budget>>

(* CancelledError before the first step, or on an await past the outcome. *)
InterruptRest(t, k) ==
    /\ \E at \in {"created", "finalThread", "notifying", "cleaning"} : Interrupted(t, k, at)
    /\ \/ UNCHANGED thread
       \/ pc[t][k] = "finalThread" /\ thread' = [thread EXCEPT ![t] = "live"]
    /\ Goto(t, k, Exit(t, k))
    /\ UNCHANGED <<memory, leased, row, calls, cleanups, budget>>

-----------------------------------------------------------------------------
(* remove() and the dashboard's delete-by-thread request *)

StepRemoval(t, from, to) ==
    /\ server = "up" /\ removal[t].at = from
    /\ removal' = [removal EXCEPT ![t] = [at |-> to, by |-> removal[t].by]]

Remove(t) ==
    /\ "remove" \in Requests
    /\ server = "up" /\ removal[t].at = "no"
    /\ t \in registered /\ status[t] \notin Active
    /\ removal' = [removal EXCEPT ![t] = [at |-> "mark", by |-> "remove"]]
    /\ UNCHANGED <<memory, coros, row, thread, server, submit, reserved, restoring,
                   cleanups, budget>>

DeleteThread(t) ==
    /\ "delete" \in Requests
    /\ server = "up" /\ removal[t].at = "no" /\ thread[t] = "live"
    /\ removal' = [removal EXCEPT ![t] = [at |-> "mark", by |-> "delete"]]
    /\ UNCHANGED <<memory, coros, row, thread, server, submit, reserved, restoring,
                   cleanups, budget>>

MarkDeleted(t) ==
    /\ StepRemoval(t, "mark", "purge")
    /\ row' = IF row[t].status = "none" THEN row ELSE [row EXCEPT ![t].deleted = TRUE]
    /\ UNCHANGED <<memory, coros, thread, server, submit, reserved, restoring,
                   cleanups, budget>>

PurgeThread(t) ==
    /\ StepRemoval(t, "purge", "reserve")
    /\ thread' = [thread EXCEPT ![t] = IF @ = "live" THEN "deleted" ELSE @]
    /\ UNCHANGED <<memory, coros, row, server, submit, reserved, restoring,
                   cleanups, budget>>

(* delete_workflow_thread_tree waits for the thread's mutation reservation. *)
ReserveTree(t) ==
    /\ reserved[t] = "none"
    /\ StepRemoval(t, "reserve", "drop")
    /\ reserved' = [reserved EXCEPT ![t] = "delete"]
    /\ UNCHANGED <<memory, coros, row, thread, server, submit, restoring,
                   cleanups, budget>>

DropTask(t) ==
    /\ StepRemoval(t, "drop", "no")
    /\ reserved' = [reserved EXCEPT ![t] = "none"]
    /\ IF removal[t].by = "remove"
       THEN registered' = IF status[t] \notin Active THEN registered \ {t} ELSE registered
       ELSE UNCHANGED registered
    /\ UNCHANGED <<status, stamps, asyncTask, coros, row, thread, server, submit,
                   restoring, cleanups, budget>>

(* A step raises: the caller gets the error, the steps before it stay done. *)
RemovalFails(t) ==
    /\ \E at \in {"mark", "purge", "reserve", "drop"} : StepRemoval(t, at, "no")
    /\ reserved' = [reserved EXCEPT ![t] = IF removal[t].at = "drop" THEN "none" ELSE @]
    /\ Fault
    /\ UNCHANGED <<memory, coros, row, thread, server, submit, restoring, cleanups>>

(* fork_conversation_thread reserves the idle thread before it looks at the *)
(* task's status, and lets go after its first awaits.                       *)
ForkReserve(t) ==
    /\ "fork" \in Requests
    /\ server = "up" /\ thread[t] # "none" /\ reserved[t] = "none"
    /\ \A k \in Attempts : pc[t][k] \notin InSession
    /\ reserved' = [reserved EXCEPT ![t] = "fork"]
    /\ UNCHANGED <<memory, coros, row, thread, server, submit, removal, restoring,
                   cleanups, budget>>

ForkRelease(t) ==
    /\ server = "up" /\ reserved[t] = "fork"
    /\ reserved' = [reserved EXCEPT ![t] = "none"]
    /\ UNCHANGED <<memory, coros, row, thread, server, submit, removal, restoring,
                   cleanups, budget>>

-----------------------------------------------------------------------------
(* Crash, restart, restore_from_persistence *)

NoRemoval == [at |-> "no", by |-> "remove"]

Crash ==
    /\ server # "down"
    /\ crashes > 0 /\ crashes' = crashes - 1
    /\ server' = "down"
    /\ submit' = [t \in Tasks |-> IF submit[t] = "thread" THEN "done" ELSE submit[t]]
    /\ registered' = {}
    /\ status' = [t \in Tasks |-> "none"]
    /\ clock' = clock
    /\ completedAt' = [t \in Tasks |-> IF row[t].status \in Terminal THEN completedAt[t] ELSE 0]
    /\ asyncTask' = [t \in Tasks |-> NoAttempt]
    /\ pc' = [t \in Tasks |-> [k \in Attempts |-> "none"]]
    /\ hit' = [t \in Tasks |-> [k \in Attempts |-> FALSE]]
    /\ leased' = [t \in Tasks |-> {}]
    /\ removal' = [t \in Tasks |-> NoRemoval]
    /\ reserved' = [t \in Tasks |-> "none"]
    /\ restoring' = {}
    /\ UNCHANGED <<row, thread, cleanups, cancels, faults>>

(* Mutant: the listing does not filter deleted rows, which the restore rewrites. *)
ListedWithDeleted ==
    LET rows == {t \in Tasks : row[t].status # "none"}
    IN  {t \in rows : Cardinality({u \in rows : u > t}) < MaxCompleted}

(* repository.list(limit=MAX_COMPLETED_TASKS): the newest undeleted rows. *)
Listed ==
    LET rows == {t \in Tasks : row[t].status # "none" /\ ~row[t].deleted}
    IN  {t \in rows : Cardinality({u \in rows : u > t}) < MaxCompleted}

RestoreList ==
    /\ server = "down"
    /\ server' = "restoring"
    /\ restoring' = Listed
    /\ UNCHANGED <<memory, coros, row, thread, submit, removal, reserved, cleanups,
                   budget>>

(* An interrupted row is failed and persisted, newest first. *)
RestoreRow(t) ==
    /\ server = "restoring"
    /\ t \in restoring /\ row[t].status \in Active
    /\ \A u \in restoring : u > t => row[u].status \notin Active
    /\ Upsert(t, "failed")
    /\ Stamp(t)
    /\ UNCHANGED <<registered, status, asyncTask, coros, thread, calls, cleanups,
                   budget>>

(* Mutant: rows are recalled as they are, interrupted ones included. *)
RestoreDoneAsIs ==
    /\ server = "restoring"
    /\ server' = "up"
    /\ status' = [t \in Tasks |-> IF t \in restoring THEN row[t].status ELSE status[t]]
    /\ registered' = Trimmed(registered \cup restoring, status', completedAt)
    /\ restoring' = {}
    /\ UNCHANGED <<stamps, asyncTask, coros, row, thread, submit, removal, reserved,
                   cleanups, budget>>

RestoreDone ==
    /\ server = "restoring"
    /\ \A t \in restoring : row[t].status \notin Active
    /\ server' = "up"
    /\ status' = [t \in Tasks |-> IF t \in restoring THEN row[t].status ELSE status[t]]
    /\ registered' = Trimmed(registered \cup restoring, status', completedAt)
    /\ restoring' = {}
    /\ UNCHANGED <<stamps, asyncTask, coros, row, thread, submit, removal, reserved,
                   cleanups, budget>>

(* Any exception abandons the restore, and startup goes on. *)
RestoreAborts ==
    /\ server = "restoring"
    /\ Fault
    /\ server' = "up"
    /\ restoring' = {}
    /\ UNCHANGED <<memory, coros, row, thread, submit, removal, reserved, cleanups>>

-----------------------------------------------------------------------------
Init ==
    /\ server = "up" /\ restoring = {}
    /\ submit = [t \in Tasks |-> "unsent"]
    /\ registered = {}
    /\ status = [t \in Tasks |-> "none"]
    /\ completedAt = [t \in Tasks |-> 0] /\ clock = 0
    /\ asyncTask = [t \in Tasks |-> NoAttempt]
    /\ pc = [t \in Tasks |-> [k \in Attempts |-> "none"]]
    /\ hit = [t \in Tasks |-> [k \in Attempts |-> FALSE]]
    /\ leased = [t \in Tasks |-> {}]
    /\ row = [t \in Tasks |-> [status |-> "none", deleted |-> FALSE]]
    /\ thread = [t \in Tasks |-> "none"]
    /\ removal = [t \in Tasks |-> NoRemoval]
    /\ reserved = [t \in Tasks |-> "none"]
    /\ cleanups = [t \in Tasks |-> 0]
    /\ cancels = MaxCancels /\ crashes = MaxCrashes /\ faults = MaxFaults

Submitting(t) == SubmitPersist(t) \/ SubmitLaunch(t) \/ SubmitFails(t)

Progress(t, k) ==
    \/ Begin(t, k) \/ SaveStart(t, k) \/ Admit(t, k) \/ RunReturns(t, k)
    \/ Complete(t, k) \/ Retry(t, k) \/ Fail(t, k) \/ SaveRetry(t, k)
    \/ SaveFinal(t, k) \/ SaveFinalThread(t, k) \/ Notify(t, k) \/ CleanUp(t, k)
    \/ Leave(t, k)
    \/ InterruptRun(t, k) \/ InterruptSave(t, k) \/ InterruptRest(t, k)

Removing(t) == \/ MarkDeleted(t) \/ PurgeThread(t) \/ ReserveTree(t) \/ DropTask(t)
               \/ RemovalFails(t)

Restoring == RestoreList \/ RestoreDone \/ RestoreAborts \/ \E t \in Tasks : RestoreRow(t)

Next ==
    \/ \E t \in Tasks : Submitting(t) \/ Removing(t) \/ ForkRelease(t)
    \/ \E t \in Tasks : Remove(t) \/ DeleteThread(t) \/ ForkReserve(t)
    \/ \E t \in Tasks, k \in Attempts : Progress(t, k) \/ Cancel(t, k) \/ StopSession(t, k)
    \/ Crash \/ Restoring

Spec == Init /\ [][Next]_vars

(* The event loop keeps resuming every coroutine: an attempt's awaits end   *)
(* (the agent run by task_timeout, which every GitHub task has), and so do  *)
(* those of requests and of startup.  Nothing forces a new request.         *)
Fairness ==
    /\ \A t \in Tasks : WF_vars(SubmitLaunch(t) \/ SubmitFails(t))
    /\ \A t \in Tasks, k \in Attempts : WF_vars(Progress(t, k))
    /\ \A t \in Tasks : WF_vars(Removing(t)) /\ WF_vars(ForkRelease(t))
    /\ WF_vars(Restoring)

FairSpec == Spec /\ Fairness

-----------------------------------------------------------------------------
(* Properties *)

Statuses == {"none"} \cup Active \cup Terminal

MemoryTyped ==
    /\ registered \in SUBSET Tasks
    /\ status \in [Tasks -> Statuses]
    /\ completedAt \in [Tasks -> Nat] /\ clock \in Nat
    /\ asyncTask \in [Tasks -> Attempts \cup {NoAttempt}]

CorosTyped ==
    /\ pc \in [Tasks -> [Attempts -> Live \cup {"none", "ended"}]]
    /\ hit \in [Tasks -> [Attempts -> BOOLEAN]]
    /\ leased \in [Tasks -> SUBSET Attempts]

DbTyped ==
    /\ row \in [Tasks -> [status : Statuses, deleted : BOOLEAN]]
    /\ thread \in [Tasks -> {"none", "live", "deleted"}]

CallsTyped ==
    /\ server \in {"up", "down", "restoring"}
    /\ submit \in [Tasks -> {"unsent", "thread", "done"}]
    /\ removal \in [Tasks -> [at : {"no", "mark", "purge", "reserve", "drop"},
                              by : {"remove", "delete"}]]
    /\ reserved \in [Tasks -> {"none", "fork", "delete"}]
    /\ restoring \in SUBSET Tasks

HistoryTyped ==
    /\ cleanups \in [Tasks -> Nat]
    /\ cancels \in Nat /\ crashes \in Nat /\ faults \in Nat

TypeOK == MemoryTyped /\ CorosTyped /\ DbTyped /\ CallsTyped /\ HistoryTyped

Working == Live \ {"leaving"}   \* launched, and not past its finally block

HasAttempt(t) == \E k \in Attempts : pc[t][k] \in Live

(* At most one attempt of a task is between its launch and the end of its   *)
(* finally block, and the manager's _async_task refers to it, so a cancel   *)
(* request reaches the attempt that is doing the work.                      *)
AttemptIsReachable ==
    \A t \in Tasks, k \in Attempts :
        pc[t][k] \in Working =>
            /\ asyncTask[t] = k
            /\ \A j \in Attempts \ {k} : pc[t][j] \notin Working

(* Trimming the history never drops a task that is still to be run: an      *)
(* attempt without an outcome belongs to a task cancel() can find.          *)
UnfinishedStaysRegistered ==
    \A t \in Tasks, k \in Attempts :
        pc[t][k] \in {"created", "starting", "retrySave"} \cup Trying =>
            t \in registered /\ status[t] \in Active

(* The cleanup hook (which deletes a GitHub worktree) runs at most once,    *)
(* and only for a task whose outcome is final.                              *)
CleanupOnce ==
    \A t \in Tasks :
        /\ cleanups[t] <= 1
        /\ cleanups[t] = 1 /\ status[t] # "none" => status[t] \in Terminal

(* The manager keeps the promises of TaskLifecycle: no cancel, retry,       *)
(* failed write, crash or restore makes a reported or stored outcome        *)
(* change, and the row only ever stores what the task was at.               *)
Lifecycle == INSTANCE TaskLifecycle WITH
                 shown <- status, stored <- [t \in Tasks |-> row[t].status]
KeepsLifecycle == Lifecycle!Spec

(* A row deleted when no attempt of the task was left stays deleted,        *)
(* through every later restart.                                             *)
DeletedStaysDeleted ==
    [][\A t \in Tasks :
          row[t].deleted /\ submit[t] = "done" /\ ~HasAttempt(t) => row'[t].deleted]_vars

(* Without cancellations, forks and deletions under a running task: a task  *)
(* the dashboard shows as pending or running has an attempt behind it,      *)
(* whatever the retries, failed writes, trims, removals and restarts.       *)
ActiveTaskHasAttempt ==
    \A t \in registered : status[t] \in Active => HasAttempt(t)

(* Memory is bounded by MAX_COMPLETED_TASKS: of the registered tasks that   *)
(* have left their finally block at most MaxCompleted are kept, and until   *)
(* the next trim one more for each cancellation that cut a block short.     *)
Left == {t \in registered : status[t] \in Terminal /\ \A k \in Attempts : pc[t][k] \notin Finalizing}
HistoryIsBounded == Cardinality(Left) <= MaxCompleted + (MaxCancels - cancels)

(* Every launched task reaches an outcome, or the server crashes.           *)
EveryTaskSettles ==
    \A t \in Tasks : submit[t] = "done" /\ status[t] \in Active ~>
                        status[t] \in Terminal \cup {"none"}

(* A task that reached an outcome has its cleanup hook run.                 *)
CleanupHappens ==
    \A t \in Tasks : (\E k \in Attempts : pc[t][k] \in Finalizing) ~>
                        cleanups[t] = 1 \/ status[t] = "none"

-----------------------------------------------------------------------------
(* The inductive invariant behind the safety properties. *)

(* The status of a task says where its attempt is. *)
StatusFitsAttempt ==
    \A t \in Tasks, k \in Attempts :
        /\ pc[t][k] \in {"created", "retrySave"} => status[t] = "pending"
        /\ pc[t][k] \in {"starting"} \cup Trying => status[t] = "running"
        /\ pc[t][k] \in Finalizing => status[t] \in Terminal
        /\ pc[t][k] = "retrySave" => k < MaxRetries

(* An outcome is stored only if it is the one the manager shows. *)
RowFitsStatus ==
    \A t \in Tasks : status[t] # "none" /\ row[t].status \in Terminal =>
                        row[t].status = status[t]

(* Until submit() has launched a task, nothing but its pending row exists. *)
SubmitIsFresh ==
    \A t \in Tasks : submit[t] # "done" =>
        /\ status[t] = "none" /\ t \notin registered /\ thread[t] = "none"
        /\ removal[t].at = "no" /\ cleanups[t] = 0
        /\ \A k \in Attempts : pc[t][k] = "none"
        /\ row[t].status = IF submit[t] = "unsent" THEN "none" ELSE "pending"
        /\ submit[t] = "thread" => server = "up"

(* A server that is down or restoring runs nothing and shows nothing. *)
QuietWhenDown ==
    /\ server # "up" => /\ registered = {}
                        /\ \A t \in Tasks : /\ status[t] = "none"
                                            /\ \A k \in Attempts : pc[t][k] = "none"
    /\ \A t \in restoring : /\ server = "restoring"
                            /\ row[t].status # "none" /\ ~row[t].deleted

(* A task still at work has not been cleaned up. *)
CleanupFitsStatus ==
    \A t \in Tasks :
        /\ cleanups[t] <= 1
        /\ cleanups[t] = 1 => status[t] \in {"none"} \cup Terminal
        /\ \A k \in Attempts : pc[t][k] \in Working => cleanups[t] = 0

(* What every reachable state satisfies, of the control of submit, the      *)
(* attempts, cancellation, removal, crash and restore taken together.       *)
IInv ==
    /\ TypeOK /\ AttemptIsReachable /\ UnfinishedStaysRegistered /\ StatusFitsAttempt
    /\ RowFitsStatus /\ SubmitIsFresh /\ QuietWhenDown /\ CleanupFitsStatus

(* Outcomes have different times, so that the newest are well defined. *)
Stamped ==
    \A t \in Tasks :
        /\ completedAt[t] <= clock
        /\ status[t] \in Terminal \/ row[t].status \in Terminal => completedAt[t] # 0
        /\ \A u \in Tasks \ {t} : completedAt[t] = completedAt[u] => completedAt[t] = 0

(* A task that skips its trim was cancelled, and a cancellation hits once. *)
Hits == {c \in Tasks \X Attempts : hit[c[1]][c[2]]}
Counted ==
    /\ Cardinality(Hits) <= MaxCancels - cancels
    /\ Cardinality(Left) + Cardinality(Hits) <= MaxCompleted + (MaxCancels - cancels)

(* Nobody cancels, forks, or deletes the thread of a task at work: what     *)
(* reserves a thread removes a task that has its outcome.                   *)
Undisturbed ==
    /\ cancels = 0 /\ \A t \in Tasks, k \in Attempts : ~hit[t][k]
    /\ \A t \in Tasks : /\ removal[t].at # "no" => removal[t].by = "remove" /\ status[t] \notin Active
                        /\ reserved[t] # "none" => removal[t].at = "drop"
                        /\ status[t] \in Active =>
                              \E k \in Attempts : pc[t][k] \in Working \ Finalizing

=============================================================================
