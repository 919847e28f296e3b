------------------------ MODULE BackgroundTasksProofs ------------------------
(***************************************************************************)
(* Machine-checked proofs about BackgroundTasks, for any number of tasks,   *)
(* retries, kept outcomes, cancels, crashes and failed writes.              *)
(*                                                                          *)
(* IInv is inductive: one lemma per conjunct X shows that every step from   *)
(* a state of IInv leads to a state of X.  Each of them disposes of the     *)
(* steps that leave X's variables alone, then takes the other actions one   *)
(* by one, and collects them along the structure of Next.  Two more         *)
(* inductive facts build on it: the account of the finally blocks that were *)
(* cut short (Stamped, Counted), which bounds the history in memory, and    *)
(* what nobody cancelling or forking leaves alone (Undisturbed).            *)
(***************************************************************************)
EXTENDS BackgroundTasks, FiniteSetTheorems, TLAPS

USE DEF Tasks, Attempts, NoAttempt, Active, Terminal, Trying, Finalizing, InSession, Live,
        Statuses, Working, stamps, memory, coros, calls, budget

-----------------------------------------------------------------------------
(* What the helpers of the model do. *)

(* Trimming only drops tasks, and never one without an outcome. *)
LEMMA TrimmedFacts ==
    ASSUME NEW reg, NEW st, NEW at
    PROVE  /\ Trimmed(reg, st, at) \subseteq reg
           /\ \A t \in reg : st[t] \notin Terminal => t \in Trimmed(reg, st, at)
BY DEF Trimmed

(* Goto moves one attempt, and no other. *)
LEMMA GotoFacts ==
    ASSUME CorosTyped, NEW t \in Tasks, NEW k \in Attempts,
           NEW at \in Live \cup {"none", "ended"}, Goto(t, k, at)
    PROVE  /\ pc' \in [Tasks -> [Attempts -> Live \cup {"none", "ended"}]]
           /\ pc'[t][k] = at
           /\ \A u \in Tasks, j \in Attempts : u # t \/ j # k => pc'[u][j] = pc[u][j]
BY DEF Goto, CorosTyped

(* A row that is written is a row. *)
LEMMA UpsertFacts ==
    ASSUME DbTyped, NEW t \in Tasks, NEW st \in Statuses, Upsert(t, st)
    PROVE  row' \in [Tasks -> [status : Statuses, deleted : BOOLEAN]]
BY DEF Upsert, DbTyped

(* The launch registers the task, with its first attempt and no other. *)
LEMMA LaunchFacts ==
    ASSUME IInv, NEW t \in Tasks, SubmitLaunch(t)
    PROVE  /\ \A u \in Tasks \ {t} : /\ pc'[u] = pc[u] /\ status'[u] = status[u]
                                     /\ asyncTask'[u] = asyncTask[u]
           /\ status'[t] = "pending" /\ asyncTask'[t] = 0
           /\ \A j \in Attempts : pc'[t][j] = IF j = 0 THEN "created" ELSE "none"
           /\ \A u \in registered \cup {t} : status'[u] \in Active => u \in registered'
<1>1. 0 \in Attempts
    BY ConstantsAssumption
<1>2. \A j \in Attempts : pc[t][j] = "none"
    BY DEF SubmitLaunch, IInv, SubmitIsFresh
<1>3. \A u \in registered \cup {t} : status'[u] \in Active => u \in registered'
    BY TrimmedFacts DEF SubmitLaunch
<1>4. /\ pc' = [pc EXCEPT ![t][0] = "created"]
      /\ status' = [status EXCEPT ![t] = "pending"]
      /\ asyncTask' = [asyncTask EXCEPT ![t] = 0]
    BY DEF SubmitLaunch, Goto
<1> QED
    BY <1>1, <1>2, <1>3, <1>4 DEF IInv, TypeOK, MemoryTyped, CorosTyped

(* The working attempt moves and its task gets the status that fits. *)
LEMMA StatusAfterMove ==
    ASSUME IInv, NEW t \in Tasks, NEW k \in Attempts, NEW at \in Live, NEW st \in Statuses,
           pc[t][k] \in Working,
           Goto(t, k, at), status' = [status EXCEPT ![t] = st],
           at \in {"created", "retrySave"} => st = "pending",
           at \in {"starting"} \cup Trying => st = "running",
           at \in Finalizing => st \in Terminal,
           at = "retrySave" => k < MaxRetries
    PROVE  StatusFitsAttempt'
<1>1. /\ pc'[t][k] = at
      /\ \A u \in Tasks, j \in Attempts : u # t \/ j # k => pc'[u][j] = pc[u][j]
    BY GotoFacts DEF IInv, TypeOK
<1>2. status'[t] = st /\ \A u \in Tasks \ {t} : status'[u] = status[u]
    BY DEF IInv, TypeOK, MemoryTyped
<1>3. \A j \in Attempts \ {k} : pc[t][j] \notin Working
    BY DEF IInv, AttemptIsReachable
<1> QED
    BY <1>1, <1>2, <1>3 DEF IInv, StatusFitsAttempt

(* Reaching an outcome takes the attempt out of the unfinished ones. *)
LEMMA UnfinishedAfterOutcome ==
    ASSUME IInv, NEW t \in Tasks, NEW k \in Attempts, NEW at \in Finalizing, NEW st \in Statuses,
           pc[t][k] \in Working,
           Goto(t, k, at), status' = [status EXCEPT ![t] = st], UNCHANGED registered
    PROVE  UnfinishedStaysRegistered'
<1>1. /\ pc'[t][k] = at
      /\ \A u \in Tasks, j \in Attempts : u # t \/ j # k => pc'[u][j] = pc[u][j]
    BY GotoFacts DEF IInv, TypeOK
<1>2. \A u \in Tasks \ {t} : status'[u] = status[u]
    BY DEF IInv, TypeOK, MemoryTyped
<1>3. \A j \in Attempts \ {k} : pc[t][j] \notin Working
    BY DEF IInv, AttemptIsReachable
<1> QED
    BY <1>1, <1>2, <1>3 DEF IInv, UnfinishedStaysRegistered

(* A retrying attempt leaves, and the next one is created: the task is     *)
(* pending, so the manager's condition for the launch holds.               *)
LEMMA SaveRetryFacts ==
    ASSUME IInv, NEW t \in Tasks, NEW k \in Attempts, SaveRetry(t, k)
    PROVE  /\ k + 1 \in Attempts /\ pc[t][k] = "retrySave" /\ status[t] = "pending"
           /\ pc'[t][k] \in {"leaving", "ended"} /\ pc'[t][k + 1] = "created"
           /\ asyncTask'[t] = k + 1
           /\ \A u \in Tasks, j \in Attempts : u # t \/ j \notin {k, k + 1} => pc'[u][j] = pc[u][j]
           /\ \A u \in Tasks \ {t} : asyncTask'[u] = asyncTask[u] /\ row'[u] = row[u]
           /\ \A u \in registered : status[u] \in Active => u \in registered'
<1>1. /\ pc[t][k] = "retrySave" /\ status[t] = "pending"
      /\ k + 1 \in Attempts
    BY ConstantsAssumption DEF SaveRetry, Resumes, IInv, StatusFitsAttempt
<1>2. pc' = [pc EXCEPT ![t][k] = Exit(t, k), ![t][k + 1] = "created"]
    BY <1>1 DEF SaveRetry
<1>3. asyncTask' = [asyncTask EXCEPT ![t] = k + 1]
    BY <1>1 DEF SaveRetry
<1>4. row' = row \/ Upsert(t, status[t])
    BY DEF SaveRetry, UpsertOrWarn
<1>5. \A u \in Tasks \ {t} : row'[u] = row[u]
    BY <1>4 DEF Upsert, IInv, TypeOK, DbTyped
<1>6. \A u \in registered : status[u] \in Active => u \in registered'
    BY TrimmedFacts DEF SaveRetry
<1>7. Exit(t, k) \in {"leaving", "ended"}
    BY DEF Exit
<1>8. /\ pc'[t][k] \in {"leaving", "ended"} /\ pc'[t][k + 1] = "created"
      /\ \A u \in Tasks, j \in Attempts : u # t \/ j \notin {k, k + 1} => pc'[u][j] = pc[u][j]
    <2>1. pc'[t] = [pc[t] EXCEPT ![k] = Exit(t, k), ![k + 1] = "created"]
        BY <1>1, <1>2 DEF IInv, TypeOK, CorosTyped
    <2>2. \A u \in Tasks \ {t} : pc'[u] = pc[u]
        BY <1>2 DEF IInv, TypeOK, CorosTyped
    <2>3. pc[t] \in [Attempts -> Live \cup {"none", "ended"}]
        BY DEF IInv, TypeOK, CorosTyped
    <2>4. pc'[t][k] = Exit(t, k)
        BY <1>1, <2>1, <2>3, ConstantsAssumption
    <2>5. pc'[t][k + 1] = "created"
        BY <1>1, <2>1, <2>3
    <2>6. \A j \in Attempts \ {k, k + 1} : pc'[t][j] = pc[t][j]
        BY <2>1, <2>3
    <2> QED BY <1>7, <2>2, <2>4, <2>5, <2>6
<1>9. asyncTask'[t] = k + 1 /\ \A u \in Tasks \ {t} : asyncTask'[u] = asyncTask[u]
    BY <1>3 DEF IInv, TypeOK, MemoryTyped
<1> QED
    BY <1>1, <1>5, <1>6, <1>8, <1>9

(* The final save lets the attempt go on, whether or not it succeeded. *)
LEMMA SaveFinalFacts ==
    ASSUME IInv, NEW t \in Tasks, NEW k \in Attempts, SaveFinal(t, k)
    PROVE  /\ pc[t][k] = "finalSave" /\ pc'[t][k] \in {"finalThread", "notifying"}
           /\ \A u \in Tasks, j \in Attempts : u # t \/ j # k => pc'[u][j] = pc[u][j]
           /\ \A u \in Tasks \ {t} : row'[u] = row[u]
<1>1. PICK at \in {"finalThread", "notifying"} : Goto(t, k, at)
    BY DEF SaveFinal
<1>2. \A u \in Tasks \ {t} : row'[u] = row[u]
    BY DEF SaveFinal, Upsert, IInv, TypeOK, DbTyped
<1> QED
    BY <1>1, <1>2, GotoFacts DEF SaveFinal, Resumes, IInv, TypeOK

(* A step of an attempt touches its own task only, and lists no new one. *)
LEMMA ProgressFacts ==
    ASSUME IInv, NEW t \in Tasks, NEW k \in Attempts, Progress(t, k)
    PROVE  /\ pc[t][k] \in Live /\ server = "up"
           /\ pc[t][k] \in Working \/ Leave(t, k)
           /\ CleanUp(t, k) \/ UNCHANGED cleanups
           /\ UNCHANGED <<submit, server, removal>> /\ registered' \subseteq registered
           /\ \A u \in Tasks \ {t} :
                /\ pc'[u] = pc[u] /\ status'[u] = status[u] /\ row'[u] = row[u]
                /\ thread'[u] = thread[u] /\ cleanups'[u] = cleanups[u]
<1>1. /\ pc[t][k] \in Live /\ server = "up"
      /\ pc[t][k] \in Working \/ Leave(t, k)
    BY DEF Progress, Begin, SaveStart, Admit, RunReturns, Complete, Retry, Fail, SaveRetry,
        SaveFinal, SaveFinalThread, Notify, CleanUp, Leave, InterruptRun, InterruptSave,
        InterruptRest, Resumes, Interrupted, Live, InSession, Trying, Working
<1>2. UNCHANGED <<submit, server, removal>> /\ (CleanUp(t, k) \/ UNCHANGED cleanups)
    BY DEF Progress, Begin, SaveStart, Admit, RunReturns, Complete, Retry, Fail, SaveRetry,
        SaveFinal, SaveFinalThread, Notify, CleanUp, Leave, InterruptRun, InterruptSave,
        InterruptRest, calls
<1>3. registered' \subseteq registered
    <2>1. UNCHANGED registered \/ registered' = Trimmed(registered, status, completedAt)
        BY DEF Progress, Begin, SaveStart, Admit, RunReturns, Complete, Retry, Fail, SaveRetry,
        SaveFinal, SaveFinalThread, Notify, CleanUp, Leave, InterruptRun, InterruptSave,
        InterruptRest, memory
    <2> QED BY <2>1, TrimmedFacts
<1>4. \/ \E at : pc' = [pc EXCEPT ![t][k] = at]
      \/ \E at, new : pc' = [pc EXCEPT ![t][k] = at, ![t][k + 1] = new]
    BY DEF Progress, Begin, SaveStart, Admit, RunReturns, Complete, Retry, Fail, SaveRetry,
        SaveFinal, SaveFinalThread, Notify, CleanUp, Leave, InterruptRun, InterruptSave,
        InterruptRest, Goto
<1>5. UNCHANGED status \/ \E x : status' = [status EXCEPT ![t] = x]
    BY DEF Progress, Begin, SaveStart, Admit, RunReturns, Complete, Retry, Fail, SaveRetry,
        SaveFinal, SaveFinalThread, Notify, CleanUp, Leave, InterruptRun, InterruptSave,
        InterruptRest, Finish, memory
<1>6. UNCHANGED row \/ \E x : row' = [row EXCEPT ![t] = x]
    BY DEF Progress, Begin, SaveStart, Admit, RunReturns, Complete, Retry, Fail, SaveRetry,
        SaveFinal, SaveFinalThread, Notify, CleanUp, Leave, InterruptRun, InterruptSave,
        InterruptRest, UpsertOrWarn, Upsert
<1>7. UNCHANGED thread \/ \E x : thread' = [thread EXCEPT ![t] = x]
    BY DEF Progress, Begin, SaveStart, Admit, RunReturns, Complete, Retry, Fail, SaveRetry,
        SaveFinal, SaveFinalThread, Notify, CleanUp, Leave, InterruptRun, InterruptSave,
        InterruptRest
<1>8. UNCHANGED cleanups \/ \E x : cleanups' = [cleanups EXCEPT ![t] = x]
    BY DEF Progress, Begin, SaveStart, Admit, RunReturns, Complete, Retry, Fail, SaveRetry,
        SaveFinal, SaveFinalThread, Notify, CleanUp, Leave, InterruptRun, InterruptSave,
        InterruptRest
<1>9. \A u \in Tasks \ {t} : pc'[u] = pc[u]
    BY <1>4 DEF IInv, TypeOK, CorosTyped
<1>10. \A u \in Tasks \ {t} : status'[u] = status[u]
    BY <1>5 DEF IInv, TypeOK, MemoryTyped
<1>11. \A u \in Tasks \ {t} : row'[u] = row[u] /\ thread'[u] = thread[u]
    BY <1>6, <1>7 DEF IInv, TypeOK, DbTyped
<1>12. \A u \in Tasks \ {t} : cleanups'[u] = cleanups[u]
    BY <1>8 DEF IInv, TypeOK, HistoryTyped
<1> QED BY <1>1, <1>2, <1>3, <1>9, <1>10, <1>11, <1>12

-----------------------------------------------------------------------------
(* Every step preserves IInv. *)

(* The manager's objects keep their types: SaveRetry names an attempt that exists. *)
LEMMA MemoryTypedNext ==
    ASSUME IInv, [Next]_vars
    PROVE  MemoryTyped'
<1> USE ConstantsAssumption, TrimmedFacts DEF IInv, TypeOK, MemoryTyped, DbTyped, CallsTyped,
        StatusFitsAttempt
<1>1. CASE UNCHANGED <<registered, status, completedAt, clock, asyncTask>>
    BY <1>1
<1>2. ASSUME NEW t \in Tasks, SubmitLaunch(t) PROVE MemoryTyped'
    BY <1>2 DEF SubmitLaunch, Goto
<1>3. ASSUME NEW t \in Tasks, NEW k \in Attempts, Begin(t, k) PROVE MemoryTyped'
    BY <1>3 DEF Begin, Resumes, Goto
<1>4. ASSUME NEW t \in Tasks, NEW k \in Attempts, Complete(t, k) PROVE MemoryTyped'
    BY <1>4 DEF Complete, Resumes, Goto, Finish, Stamp
<1>5. ASSUME NEW t \in Tasks, NEW k \in Attempts, Retry(t, k) PROVE MemoryTyped'
    BY <1>5 DEF Retry, Resumes, Goto
<1>6. ASSUME NEW t \in Tasks, NEW k \in Attempts, Fail(t, k) PROVE MemoryTyped'
    BY <1>6 DEF Fail, Resumes, Goto, Finish, Stamp
<1>7. ASSUME NEW t \in Tasks, NEW k \in Attempts, SaveRetry(t, k) PROVE MemoryTyped'
    <2>1. status[t] = "pending" /\ k + 1 \in Attempts
        BY <1>7 DEF SaveRetry, Resumes, StatusFitsAttempt
    <2>2. /\ pc' = [pc EXCEPT ![t][k] = Exit(t, k), ![t][k + 1] = "created"]
          /\ asyncTask' = [asyncTask EXCEPT ![t] = k + 1]
        BY <1>7, <2>1 DEF SaveRetry
    <2> QED BY <1>7, <2>1, <2>2 DEF SaveRetry, Resumes, Exit
<1>8. ASSUME NEW t \in Tasks, NEW k \in Attempts, CleanUp(t, k) PROVE MemoryTyped'
    BY <1>8 DEF CleanUp, Resumes, Goto, Exit
<1>9. ASSUME NEW t \in Tasks, NEW k \in Attempts, InterruptRun(t, k) PROVE MemoryTyped'
    BY <1>9 DEF InterruptRun, Interrupted, Goto, Finish, Stamp
<1>10. ASSUME NEW t \in Tasks, DropTask(t) PROVE MemoryTyped'
    <2>1. registered' \subseteq registered
        BY <1>10 DEF DropTask
    <2> QED BY <1>10, <2>1 DEF DropTask
<1>11. ASSUME Crash PROVE MemoryTyped'
    BY <1>11 DEF Crash, NoRemoval
<1>12. ASSUME NEW t \in Tasks, RestoreRow(t) PROVE MemoryTyped'
    BY <1>12 DEF RestoreRow, Stamp, Upsert
<1>13. ASSUME RestoreDone PROVE MemoryTyped'
    <2>1. registered' \subseteq registered \cup restoring
        BY <1>13 DEF RestoreDone
    <2>2. status' \in [Tasks -> Statuses]
        BY <1>13 DEF RestoreDone
    <2> QED BY <1>13, <2>1, <2>2 DEF RestoreDone
<1> HIDE ConstantsAssumption, TrimmedFacts DEF IInv, TypeOK, MemoryTyped, DbTyped, CallsTyped,
        StatusFitsAttempt
<1>14. ASSUME NEW t \in Tasks, Submitting(t) \/ Removing(t) PROVE MemoryTyped'
    BY <1>14, <1>1, <1>2, <1>10 DEF Submitting, Removing, SubmitPersist, SubmitFails,
        MarkDeleted, PurgeThread, RemovalFails, ReserveTree, Fault
<1>15. ASSUME NEW t \in Tasks, Remove(t) \/ DeleteThread(t) \/ ForkReserve(t) \/ ForkRelease(t) PROVE MemoryTyped'
    BY <1>15, <1>1 DEF Remove, DeleteThread, ForkReserve, ForkRelease
<1>16. ASSUME NEW t \in Tasks, NEW k \in Attempts, Progress(t, k) PROVE MemoryTyped'
    BY <1>16, <1>1, <1>3, <1>4, <1>5, <1>6, <1>7, <1>8, <1>9 DEF Progress, SaveStart, Admit,
        RunReturns, SaveFinal, SaveFinalThread, Notify, Leave, InterruptSave, InterruptRest,
        Fault, UpsertOrWarn
<1>17. ASSUME NEW t \in Tasks, NEW k \in Attempts, Cancel(t, k) \/ StopSession(t, k) PROVE MemoryTyped'
    BY <1>17, <1>1 DEF Cancel, StopSession
<1>18. ASSUME Crash \/ Restoring PROVE MemoryTyped'
    BY <1>18, <1>1, <1>11, <1>13, <1>12 DEF Restoring, RestoreList, RestoreAborts, Fault
<1> QED BY <1>1, <1>14, <1>15, <1>16, <1>17, <1>18 DEF Next, vars

(* The attempts keep their types: SaveRetry launches one only below MaxRetries. *)
LEMMA CorosTypedNext ==
    ASSUME IInv, [Next]_vars
    PROVE  CorosTyped'
<1> USE ConstantsAssumption, TrimmedFacts DEF IInv, TypeOK, CorosTyped, StatusFitsAttempt
<1>1. CASE UNCHANGED <<pc, hit, leased>>
    BY <1>1
<1>2. ASSUME NEW t \in Tasks, SubmitLaunch(t) PROVE CorosTyped'
    BY <1>2 DEF SubmitLaunch, Goto
<1>3. ASSUME NEW t \in Tasks, NEW k \in Attempts, Begin(t, k) PROVE CorosTyped'
    BY <1>3 DEF Begin, Resumes, Goto
<1>4. ASSUME NEW t \in Tasks, NEW k \in Attempts, SaveStart(t, k) PROVE CorosTyped'
    BY <1>4 DEF SaveStart, Resumes, Goto, UpsertOrWarn, Upsert, Fault
<1>5. ASSUME NEW t \in Tasks, NEW k \in Attempts, Admit(t, k) PROVE CorosTyped'
    BY <1>5 DEF Admit, Resumes, Goto
<1>6. ASSUME NEW t \in Tasks, NEW k \in Attempts, RunReturns(t, k) PROVE CorosTyped'
    BY <1>6 DEF RunReturns, Resumes, Goto
<1>7. ASSUME NEW t \in Tasks, NEW k \in Attempts, Complete(t, k) PROVE CorosTyped'
    BY <1>7 DEF Complete, Resumes, Goto, Finish, Stamp
<1>8. ASSUME NEW t \in Tasks, NEW k \in Attempts, Retry(t, k) PROVE CorosTyped'
    BY <1>8 DEF Retry, Resumes, Goto
<1>9. ASSUME NEW t \in Tasks, NEW k \in Attempts, Fail(t, k) PROVE CorosTyped'
    BY <1>9 DEF Fail, Resumes, Goto, Finish, Stamp
<1>10. ASSUME NEW t \in Tasks, NEW k \in Attempts, SaveRetry(t, k) PROVE CorosTyped'
    <2>1. status[t] = "pending" /\ k + 1 \in Attempts
        BY <1>10 DEF SaveRetry, Resumes, StatusFitsAttempt
    <2>2. /\ pc' = [pc EXCEPT ![t][k] = Exit(t, k), ![t][k + 1] = "created"]
          /\ asyncTask' = [asyncTask EXCEPT ![t] = k + 1]
        BY <1>10, <2>1 DEF SaveRetry
    <2> QED BY <1>10, <2>1, <2>2 DEF SaveRetry, Resumes, Exit
<1>11. ASSUME NEW t \in Tasks, NEW k \in Attempts, SaveFinal(t, k) PROVE CorosTyped'
    <2>1. CASE Upsert(t, status[t]) /\ Goto(t, k, "finalThread")
        BY <1>11, <2>1 DEF SaveFinal, Resumes, Goto
    <2>2. CASE Goto(t, k, "notifying") /\ UNCHANGED row
        BY <1>11, <2>2 DEF SaveFinal, Resumes, Goto
    <2> QED BY <1>11, <2>1, <2>2 DEF SaveFinal
<1>12. ASSUME NEW t \in Tasks, NEW k \in Attempts, SaveFinalThread(t, k) PROVE CorosTyped'
    BY <1>12 DEF SaveFinalThread, Resumes, Goto, Fault
<1>13. ASSUME NEW t \in Tasks, NEW k \in Attempts, Notify(t, k) PROVE CorosTyped'
    BY <1>13 DEF Notify, Resumes, Goto
<1>14. ASSUME NEW t \in Tasks, NEW k \in Attempts, CleanUp(t, k) PROVE CorosTyped'
    BY <1>14 DEF CleanUp, Resumes, Goto, Exit
<1>15. ASSUME NEW t \in Tasks, NEW k \in Attempts, Leave(t, k) PROVE CorosTyped'
    BY <1>15 DEF Leave, Goto
<1>16. ASSUME NEW t \in Tasks, NEW k \in Attempts, Cancel(t, k) PROVE CorosTyped'
    BY <1>16 DEF Cancel
<1>17. ASSUME NEW t \in Tasks, NEW k \in Attempts, StopSession(t, k) PROVE CorosTyped'
    BY <1>17 DEF StopSession
<1>18. ASSUME NEW t \in Tasks, NEW k \in Attempts, InterruptRun(t, k) PROVE CorosTyped'
    BY <1>18 DEF InterruptRun, Interrupted, Goto, Finish, Stamp
<1>19. ASSUME NEW t \in Tasks, NEW k \in Attempts, InterruptSave(t, k) PROVE CorosTyped'
    BY <1>19 DEF InterruptSave, Interrupted, Goto, Exit, Upsert
<1>20. ASSUME NEW t \in Tasks, NEW k \in Attempts, InterruptRest(t, k) PROVE CorosTyped'
    BY <1>20 DEF InterruptRest, Interrupted, Goto, Exit
<1>21. ASSUME Crash PROVE CorosTyped'
    BY <1>21 DEF Crash, NoRemoval
<1> HIDE ConstantsAssumption, TrimmedFacts DEF IInv, TypeOK, CorosTyped, StatusFitsAttempt
<1>22. ASSUME NEW t \in Tasks, Submitting(t) \/ Removing(t) PROVE CorosTyped'
    BY <1>22, <1>1, <1>2 DEF Submitting, Removing, SubmitPersist, SubmitFails, MarkDeleted,
        PurgeThread, RemovalFails, ReserveTree, DropTask, Fault
<1>23. ASSUME NEW t \in Tasks, Remove(t) \/ DeleteThread(t) \/ ForkReserve(t) \/ ForkRelease(t) PROVE CorosTyped'
    BY <1>23, <1>1 DEF Remove, DeleteThread, ForkReserve, ForkRelease
<1>24. ASSUME NEW t \in Tasks, NEW k \in Attempts, Progress(t, k) PROVE CorosTyped'
    BY <1>24, <1>3, <1>4, <1>5, <1>6, <1>7, <1>8, <1>9, <1>10, <1>11, <1>12, <1>13, <1>14,
        <1>15, <1>18, <1>19, <1>20 DEF Progress
<1>25. ASSUME NEW t \in Tasks, NEW k \in Attempts, Cancel(t, k) \/ StopSession(t, k) PROVE CorosTyped'
    BY <1>25, <1>16, <1>17
<1>26. ASSUME Crash \/ Restoring PROVE CorosTyped'
    BY <1>26, <1>1, <1>21 DEF Restoring, RestoreList, RestoreDone, RestoreAborts, RestoreRow,
        Fault
<1> QED BY <1>1, <1>22, <1>23, <1>24, <1>25, <1>26 DEF Next, vars

(* The persisted rows keep their types. *)
LEMMA DbTypedNext ==
    ASSUME IInv, [Next]_vars
    PROVE  DbTyped'
<1> USE ConstantsAssumption DEF IInv, TypeOK, DbTyped, MemoryTyped
<1>1. CASE UNCHANGED <<row, thread>>
    BY <1>1
<1>2. ASSUME NEW t \in Tasks, SubmitPersist(t) PROVE DbTyped'
    BY <1>2 DEF SubmitPersist, Upsert
<1>3. ASSUME NEW t \in Tasks, SubmitLaunch(t) PROVE DbTyped'
    BY <1>3 DEF SubmitLaunch, Goto
<1>4. ASSUME NEW t \in Tasks, NEW k \in Attempts, SaveStart(t, k) PROVE DbTyped'
    BY <1>4, UpsertFacts DEF SaveStart, UpsertOrWarn
<1>5. ASSUME NEW t \in Tasks, NEW k \in Attempts, SaveRetry(t, k) PROVE DbTyped'
    BY <1>5, UpsertFacts DEF SaveRetry, UpsertOrWarn
<1>6. ASSUME NEW t \in Tasks, NEW k \in Attempts, SaveFinal(t, k) PROVE DbTyped'
    <2>1. CASE Upsert(t, status[t]) /\ Goto(t, k, "finalThread")
        BY <1>6, <2>1, UpsertFacts DEF SaveFinal, Resumes, Goto
    <2>2. CASE Goto(t, k, "notifying") /\ UNCHANGED row
        BY <1>6, <2>2 DEF SaveFinal, Resumes, Goto
    <2> QED BY <1>6, <2>1, <2>2 DEF SaveFinal
<1>7. ASSUME NEW t \in Tasks, NEW k \in Attempts, SaveFinalThread(t, k) PROVE DbTyped'
    <2>1. row' = row /\ (thread' = thread \/ thread' = [thread EXCEPT ![t] = "live"])
        BY <1>7 DEF SaveFinalThread, Fault
    <2> QED BY <2>1
<1>8. ASSUME NEW t \in Tasks, NEW k \in Attempts, InterruptSave(t, k) PROVE DbTyped'
    BY <1>8, UpsertFacts DEF InterruptSave
<1>9. ASSUME NEW t \in Tasks, NEW k \in Attempts, InterruptRest(t, k) PROVE DbTyped'
    BY <1>9 DEF InterruptRest, Interrupted, Goto, Exit
<1>10. ASSUME NEW t \in Tasks, MarkDeleted(t) PROVE DbTyped'
    <2>1. row' = row \/ row' = [row EXCEPT ![t].deleted = TRUE]
        BY <1>10 DEF MarkDeleted
    <2>2. row[t] \in [status : Statuses, deleted : BOOLEAN]
        OBVIOUS
    <2>3. [row[t] EXCEPT !.deleted = TRUE] \in [status : Statuses, deleted : BOOLEAN]
        BY <2>2
    <2> QED BY <1>10, <2>1, <2>3 DEF MarkDeleted
<1>11. ASSUME NEW t \in Tasks, PurgeThread(t) PROVE DbTyped'
    BY <1>11 DEF PurgeThread, StepRemoval
<1>12. ASSUME NEW t \in Tasks, RestoreRow(t) PROVE DbTyped'
    BY <1>12 DEF RestoreRow, Stamp, Upsert
<1> HIDE ConstantsAssumption, TrimmedFacts DEF IInv, TypeOK, DbTyped, MemoryTyped
<1>13. ASSUME NEW t \in Tasks, Submitting(t) \/ Removing(t) PROVE DbTyped'
    BY <1>13, <1>1, <1>2, <1>3, <1>10, <1>11 DEF Submitting, Removing, SubmitFails,
        RemovalFails, ReserveTree, DropTask, Fault
<1>14. ASSUME NEW t \in Tasks, Remove(t) \/ DeleteThread(t) \/ ForkReserve(t) \/ ForkRelease(t) PROVE DbTyped'
    BY <1>14, <1>1 DEF Remove, DeleteThread, ForkReserve, ForkRelease
<1>15. ASSUME NEW t \in Tasks, NEW k \in Attempts, Progress(t, k) PROVE DbTyped'
    BY <1>15, <1>1, <1>4, <1>5, <1>6, <1>7, <1>8, <1>9 DEF Progress, Begin, Admit, RunReturns,
        Complete, Retry, Fail, Notify, CleanUp, Leave, InterruptRun
<1>16. ASSUME NEW t \in Tasks, NEW k \in Attempts, Cancel(t, k) \/ StopSession(t, k) PROVE DbTyped'
    BY <1>16, <1>1 DEF Cancel, StopSession
<1>17. ASSUME Crash \/ Restoring PROVE DbTyped'
    BY <1>17, <1>1, <1>12 DEF Restoring, Crash, RestoreList, RestoreDone, RestoreAborts, Fault
<1> QED BY <1>1, <1>13, <1>14, <1>15, <1>16, <1>17 DEF Next, vars

(* The requests in progress keep their types. *)
LEMMA CallsTypedNext ==
    ASSUME IInv, [Next]_vars
    PROVE  CallsTyped'
<1> USE ConstantsAssumption, TrimmedFacts DEF IInv, TypeOK, CallsTyped, DbTyped
<1>1. CASE UNCHANGED <<server, submit, removal, reserved, restoring>>
    BY <1>1
<1>2. ASSUME NEW t \in Tasks, SubmitPersist(t) PROVE CallsTyped'
    BY <1>2 DEF SubmitPersist, Upsert
<1>3. ASSUME NEW t \in Tasks, SubmitLaunch(t) PROVE CallsTyped'
    BY <1>3 DEF SubmitLaunch, Goto
<1>4. ASSUME NEW t \in Tasks, SubmitFails(t) PROVE CallsTyped'
    BY <1>4 DEF SubmitFails, Fault
<1>5. ASSUME NEW t \in Tasks, Remove(t) PROVE CallsTyped'
    BY <1>5 DEF Remove
<1>6. ASSUME NEW t \in Tasks, DeleteThread(t) PROVE CallsTyped'
    BY <1>6 DEF DeleteThread
<1>7. ASSUME NEW t \in Tasks, MarkDeleted(t) PROVE CallsTyped'
    BY <1>7 DEF MarkDeleted, StepRemoval
<1>8. ASSUME NEW t \in Tasks, PurgeThread(t) PROVE CallsTyped'
    BY <1>8 DEF PurgeThread, StepRemoval
<1>8a. ASSUME NEW t \in Tasks, RemovalFails(t) PROVE CallsTyped'
    BY <1>8a DEF RemovalFails, StepRemoval
<1>9. ASSUME NEW t \in Tasks, ReserveTree(t) PROVE CallsTyped'
    BY <1>9 DEF ReserveTree, StepRemoval
<1>10. ASSUME NEW t \in Tasks, DropTask(t) PROVE CallsTyped'
    BY <1>10 DEF DropTask, StepRemoval
<1>11. ASSUME NEW t \in Tasks, ForkReserve(t) PROVE CallsTyped'
    BY <1>11 DEF ForkReserve
<1>12. ASSUME NEW t \in Tasks, ForkRelease(t) PROVE CallsTyped'
    BY <1>12 DEF ForkRelease
<1>13. ASSUME Crash PROVE CallsTyped'
    BY <1>13 DEF Crash, NoRemoval
<1>14. ASSUME RestoreList PROVE CallsTyped'
    BY <1>14 DEF RestoreList, Listed
<1>15. ASSUME RestoreDone PROVE CallsTyped'
    BY <1>15 DEF RestoreDone
<1>16. ASSUME RestoreAborts PROVE CallsTyped'
    BY <1>16 DEF RestoreAborts, Fault
<1> HIDE ConstantsAssumption, TrimmedFacts DEF IInv, TypeOK, CallsTyped, DbTyped
<1>17. ASSUME NEW t \in Tasks, Submitting(t) \/ Removing(t) PROVE CallsTyped'
    BY <1>17, <1>2, <1>3, <1>4, <1>7, <1>8, <1>8a, <1>9, <1>10 DEF Submitting, Removing
<1>18. ASSUME NEW t \in Tasks, Remove(t) \/ DeleteThread(t) \/ ForkReserve(t) \/ ForkRelease(t) PROVE CallsTyped'
    BY <1>18, <1>5, <1>6, <1>11, <1>12
<1>19. ASSUME NEW t \in Tasks, NEW k \in Attempts, Progress(t, k) PROVE CallsTyped'
    BY <1>19, <1>1 DEF Progress, Begin, SaveStart, Admit, RunReturns, Complete, Retry, Fail,
        SaveRetry, SaveFinal, SaveFinalThread, Notify, CleanUp, Leave, InterruptRun,
        InterruptSave, InterruptRest, Fault, UpsertOrWarn
<1>20. ASSUME NEW t \in Tasks, NEW k \in Attempts, Cancel(t, k) \/ StopSession(t, k) PROVE CallsTyped'
    BY <1>20, <1>1 DEF Cancel, StopSession
<1>21. ASSUME Crash \/ Restoring PROVE CallsTyped'
    BY <1>21, <1>1, <1>13, <1>14, <1>15, <1>16 DEF Restoring, RestoreRow
<1> QED BY <1>1, <1>17, <1>18, <1>19, <1>20, <1>21 DEF Next, vars

(* The histories and what is left of the bounds keep their types. *)
LEMMA HistoryTypedNext ==
    ASSUME IInv, [Next]_vars
    PROVE  HistoryTyped'
<1> USE ConstantsAssumption, TrimmedFacts DEF IInv, TypeOK, HistoryTyped
<1>1. CASE UNCHANGED <<cleanups, cancels, crashes, faults>>
    BY <1>1
<1>2. ASSUME NEW t \in Tasks, SubmitFails(t) PROVE HistoryTyped'
    BY <1>2 DEF SubmitFails, Fault
<1>3. ASSUME NEW t \in Tasks, NEW k \in Attempts, SaveStart(t, k) PROVE HistoryTyped'
    BY <1>3 DEF SaveStart, Resumes, Goto, UpsertOrWarn, Upsert, Fault
<1>4. ASSUME NEW t \in Tasks, NEW k \in Attempts, SaveRetry(t, k) PROVE HistoryTyped'
    BY <1>4 DEF SaveRetry, Resumes, Goto, Exit, UpsertOrWarn, Upsert, Fault
<1>5. ASSUME NEW t \in Tasks, NEW k \in Attempts, SaveFinal(t, k) PROVE HistoryTyped'
    BY <1>5 DEF SaveFinal, Resumes, Goto, Upsert, Fault
<1>6. ASSUME NEW t \in Tasks, NEW k \in Attempts, SaveFinalThread(t, k) PROVE HistoryTyped'
    BY <1>6 DEF SaveFinalThread, Resumes, Goto, Fault
<1>7. ASSUME NEW t \in Tasks, NEW k \in Attempts, CleanUp(t, k) PROVE HistoryTyped'
    BY <1>7 DEF CleanUp, Resumes, Goto, Exit
<1>8. ASSUME NEW t \in Tasks, NEW k \in Attempts, Cancel(t, k) PROVE HistoryTyped'
    BY <1>8 DEF Cancel
<1>9. ASSUME NEW t \in Tasks, NEW k \in Attempts, StopSession(t, k) PROVE HistoryTyped'
    BY <1>9 DEF StopSession
<1>10. ASSUME NEW t \in Tasks, DropTask(t) PROVE HistoryTyped'
    BY <1>10 DEF DropTask, StepRemoval
<1>10a. ASSUME NEW t \in Tasks, RemovalFails(t) PROVE HistoryTyped'
    BY <1>10a DEF RemovalFails, Fault
<1>11. ASSUME Crash PROVE HistoryTyped'
    BY <1>11 DEF Crash, NoRemoval
<1>12. ASSUME RestoreAborts PROVE HistoryTyped'
    BY <1>12 DEF RestoreAborts, Fault
<1> HIDE ConstantsAssumption, TrimmedFacts DEF IInv, TypeOK, HistoryTyped
<1>13. ASSUME NEW t \in Tasks, Submitting(t) \/ Removing(t) PROVE HistoryTyped'
    BY <1>13, <1>1, <1>2, <1>10, <1>10a DEF Submitting, Removing, SubmitPersist, SubmitLaunch,
        MarkDeleted, PurgeThread, ReserveTree
<1>14. ASSUME NEW t \in Tasks, Remove(t) \/ DeleteThread(t) \/ ForkReserve(t) \/ ForkRelease(t) PROVE HistoryTyped'
    BY <1>14, <1>1 DEF Remove, DeleteThread, ForkReserve, ForkRelease
<1>15. ASSUME NEW t \in Tasks, NEW k \in Attempts, Progress(t, k) PROVE HistoryTyped'
    BY <1>15, <1>1, <1>3, <1>4, <1>5, <1>6, <1>7 DEF Progress, Begin, Admit, RunReturns,
        Complete, Retry, Fail, Notify, Leave, InterruptRun, InterruptSave, InterruptRest
<1>16. ASSUME NEW t \in Tasks, NEW k \in Attempts, Cancel(t, k) \/ StopSession(t, k) PROVE HistoryTyped'
    BY <1>16, <1>8, <1>9
<1>17. ASSUME Crash \/ Restoring PROVE HistoryTyped'
    BY <1>17, <1>1, <1>11, <1>12 DEF Restoring, RestoreList, RestoreDone, RestoreRow
<1> QED BY <1>1, <1>13, <1>14, <1>15, <1>16, <1>17 DEF Next, vars

(* SaveRetry hands _async_task over to the next attempt as it leaves. *)
LEMMA AttemptIsReachableNext ==
    ASSUME IInv, [Next]_vars
    PROVE  AttemptIsReachable'
<1>1. ASSUME NEW t \in Tasks, SubmitLaunch(t) PROVE AttemptIsReachable'
    BY <1>1, LaunchFacts DEF IInv, AttemptIsReachable
<1>2. ASSUME NEW t \in Tasks, NEW k \in Attempts, SaveRetry(t, k) PROVE AttemptIsReachable'
    <2>1. AttemptIsReachable
        BY DEF IInv
    <2> QED BY <1>2, <2>1, SaveRetryFacts DEF AttemptIsReachable
<1>3. ASSUME NEW t \in Tasks, NEW k \in Attempts, SaveFinal(t, k) PROVE AttemptIsReachable'
    BY <1>3, SaveFinalFacts DEF SaveFinal, IInv, AttemptIsReachable
<1>16. ASSUME NEW t \in Tasks, NEW k \in Attempts, InterruptRun(t, k) PROVE AttemptIsReachable'
    <2>1. pc[t][k] \in Working /\ UNCHANGED asyncTask
        BY <1>16 DEF InterruptRun, Interrupted, Trying, Working, Live, InSession
    <2>2. \A u \in Tasks, j \in Attempts : u # t \/ j # k => pc'[u][j] = pc[u][j]
        <3>1. Goto(t, k, "finalSave") /\ "finalSave" \in Live
            BY <1>16 DEF InterruptRun, Live, InSession
        <3> QED BY <3>1, GotoFacts DEF IInv, TypeOK
    <2> QED BY <2>1, <2>2 DEF IInv, AttemptIsReachable
<1> USE ConstantsAssumption, TrimmedFacts DEF IInv, TypeOK, MemoryTyped, CorosTyped,
        CallsTyped, AttemptIsReachable, SubmitIsFresh, StatusFitsAttempt
<1>4. CASE UNCHANGED <<pc, asyncTask>>
    BY <1>4
<1>5. ASSUME NEW t \in Tasks, NEW k \in Attempts, Begin(t, k) PROVE AttemptIsReachable'
    BY <1>5 DEF Begin, Resumes, Goto
<1>6. ASSUME NEW t \in Tasks, NEW k \in Attempts, SaveStart(t, k) PROVE AttemptIsReachable'
    BY <1>6 DEF SaveStart, Resumes, Goto, UpsertOrWarn, Upsert, Fault
<1>7. ASSUME NEW t \in Tasks, NEW k \in Attempts, Admit(t, k) PROVE AttemptIsReachable'
    BY <1>7 DEF Admit, Resumes, Goto
<1>8. ASSUME NEW t \in Tasks, NEW k \in Attempts, RunReturns(t, k) PROVE AttemptIsReachable'
    BY <1>8 DEF RunReturns, Resumes, Goto
<1>9. ASSUME NEW t \in Tasks, NEW k \in Attempts, Complete(t, k) PROVE AttemptIsReachable'
    BY <1>9 DEF Complete, Resumes, Goto, Finish, Stamp
<1>10. ASSUME NEW t \in Tasks, NEW k \in Attempts, Retry(t, k) PROVE AttemptIsReachable'
    BY <1>10 DEF Retry, Resumes, Goto
<1>11. ASSUME NEW t \in Tasks, NEW k \in Attempts, Fail(t, k) PROVE AttemptIsReachable'
    BY <1>11 DEF Fail, Resumes, Goto, Finish, Stamp
<1>12. ASSUME NEW t \in Tasks, NEW k \in Attempts, SaveFinalThread(t, k) PROVE AttemptIsReachable'
    BY <1>12 DEF SaveFinalThread, Resumes, Goto, Fault
<1>13. ASSUME NEW t \in Tasks, NEW k \in Attempts, Notify(t, k) PROVE AttemptIsReachable'
    BY <1>13 DEF Notify, Resumes, Goto
<1>14. ASSUME NEW t \in Tasks, NEW k \in Attempts, CleanUp(t, k) PROVE AttemptIsReachable'
    BY <1>14 DEF CleanUp, Resumes, Goto, Exit
<1>15. ASSUME NEW t \in Tasks, NEW k \in Attempts, Leave(t, k) PROVE AttemptIsReachable'
    BY <1>15 DEF Leave, Goto
<1>17. ASSUME NEW t \in Tasks, NEW k \in Attempts, InterruptSave(t, k) PROVE AttemptIsReachable'
    BY <1>17 DEF InterruptSave, Interrupted, Goto, Exit, Upsert
<1>18. ASSUME NEW t \in Tasks, NEW k \in Attempts, InterruptRest(t, k) PROVE AttemptIsReachable'
    BY <1>18 DEF InterruptRest, Interrupted, Goto, Exit
<1>19. ASSUME Crash PROVE AttemptIsReachable'
    <2>1. \A u \in Tasks, j \in Attempts : pc'[u][j] = "none"
        BY <1>19 DEF Crash
    <2> QED BY <2>1
<1> HIDE ConstantsAssumption, TrimmedFacts DEF IInv, TypeOK, MemoryTyped, CorosTyped,
        CallsTyped, AttemptIsReachable, SubmitIsFresh, StatusFitsAttempt
<1>20. ASSUME NEW t \in Tasks, Submitting(t) \/ Removing(t) PROVE AttemptIsReachable'
    BY <1>20, <1>4, <1>1 DEF Submitting, Removing, SubmitPersist, SubmitFails, MarkDeleted,
        PurgeThread, RemovalFails, ReserveTree, DropTask, Fault
<1>21. ASSUME NEW t \in Tasks, Remove(t) \/ DeleteThread(t) \/ ForkReserve(t) \/ ForkRelease(t) PROVE AttemptIsReachable'
    BY <1>21, <1>4 DEF Remove, DeleteThread, ForkReserve, ForkRelease
<1>22. ASSUME NEW t \in Tasks, NEW k \in Attempts, Progress(t, k) PROVE AttemptIsReachable'
    BY <1>22, <1>5, <1>6, <1>7, <1>8, <1>9, <1>10, <1>11, <1>2, <1>3, <1>12, <1>13, <1>14,
        <1>15, <1>16, <1>17, <1>18 DEF Progress
<1>23. ASSUME NEW t \in Tasks, NEW k \in Attempts, Cancel(t, k) \/ StopSession(t, k) PROVE AttemptIsReachable'
    BY <1>23, <1>4 DEF Cancel, StopSession
<1>24. ASSUME Crash \/ Restoring PROVE AttemptIsReachable'
    BY <1>24, <1>4, <1>19 DEF Restoring, RestoreList, RestoreDone, RestoreAborts, RestoreRow,
        Fault
<1> QED BY <1>4, <1>20, <1>21, <1>22, <1>23, <1>24 DEF Next, vars

(* Trimming touches terminal tasks only, and remove() refuses an active one. *)
LEMMA UnfinishedStaysRegisteredNext ==
    ASSUME IInv, [Next]_vars
    PROVE  UnfinishedStaysRegistered'
<1>1. ASSUME NEW t \in Tasks, SubmitLaunch(t) PROVE UnfinishedStaysRegistered'
    BY <1>1, LaunchFacts DEF IInv, UnfinishedStaysRegistered
<1>2. ASSUME NEW t \in Tasks, NEW k \in Attempts, Complete(t, k) PROVE UnfinishedStaysRegistered'
    <2>1. pc[t][k] \in Working
        BY <1>2 DEF Complete, Resumes, Interrupted
    <2>2. Goto(t, k, "finalSave") /\ status' = [status EXCEPT ![t] = "completed"] /\ UNCHANGED registered
        BY <1>2 DEF Complete, Finish
    <2> QED BY <2>1, <2>2, UnfinishedAfterOutcome
<1>3. ASSUME NEW t \in Tasks, NEW k \in Attempts, Fail(t, k) PROVE UnfinishedStaysRegistered'
    <2>1. pc[t][k] \in Working
        BY <1>3 DEF Fail, Resumes, Interrupted
    <2>2. Goto(t, k, "finalSave") /\ status' = [status EXCEPT ![t] = "failed"] /\ UNCHANGED registered
        BY <1>3 DEF Fail, Finish
    <2> QED BY <2>1, <2>2, UnfinishedAfterOutcome
<1>4. ASSUME NEW t \in Tasks, NEW k \in Attempts, SaveRetry(t, k) PROVE UnfinishedStaysRegistered'
    <2>1. AttemptIsReachable /\ UnfinishedStaysRegistered /\ status' = status
        BY <1>4 DEF IInv, SaveRetry
    <2> QED BY <1>4, <2>1, SaveRetryFacts DEF AttemptIsReachable, UnfinishedStaysRegistered
<1>5. ASSUME NEW t \in Tasks, NEW k \in Attempts, SaveFinal(t, k) PROVE UnfinishedStaysRegistered'
    BY <1>5, SaveFinalFacts DEF SaveFinal, IInv, UnfinishedStaysRegistered
<1>6. ASSUME NEW t \in Tasks, NEW k \in Attempts, CleanUp(t, k) PROVE UnfinishedStaysRegistered'
    <2>1. pc[t][k] = "cleaning" /\ \A j \in Attempts \ {k} : pc[t][j] \notin Working
        BY <1>6 DEF CleanUp, Resumes, IInv, AttemptIsReachable
    <2>2. Exit(t, k) \in {"leaving", "ended"} /\ Goto(t, k, Exit(t, k))
        BY <1>6 DEF CleanUp, Exit
    <2>3. /\ pc'[t][k] \in {"leaving", "ended"}
          /\ \A u \in Tasks, j \in Attempts : u # t \/ j # k => pc'[u][j] = pc[u][j]
        BY <2>2, GotoFacts DEF IInv, TypeOK
    <2>4. status' = status /\ \A u \in registered : status[u] \in Active => u \in registered'
        BY <1>6, TrimmedFacts DEF CleanUp
    <2> QED BY <2>1, <2>3, <2>4 DEF IInv, UnfinishedStaysRegistered
<1>7. ASSUME NEW t \in Tasks, NEW k \in Attempts, InterruptRun(t, k) PROVE UnfinishedStaysRegistered'
    <2>1. pc[t][k] \in Working
        BY <1>7 DEF InterruptRun, Resumes, Interrupted
    <2>2. Goto(t, k, "finalSave") /\ status' = [status EXCEPT ![t] = "cancelled"] /\ UNCHANGED registered
        BY <1>7 DEF InterruptRun, Finish
    <2> QED BY <2>1, <2>2, UnfinishedAfterOutcome
<1> USE ConstantsAssumption, TrimmedFacts DEF IInv, TypeOK, MemoryTyped, CorosTyped,
        CallsTyped, AttemptIsReachable, UnfinishedStaysRegistered, SubmitIsFresh,
        StatusFitsAttempt, QuietWhenDown
<1>8. CASE UNCHANGED <<pc, registered, status>>
    BY <1>8
<1>9. ASSUME NEW t \in Tasks, NEW k \in Attempts, Begin(t, k) PROVE UnfinishedStaysRegistered'
    BY <1>9 DEF Begin, Resumes, Goto
<1>10. ASSUME NEW t \in Tasks, NEW k \in Attempts, SaveStart(t, k) PROVE UnfinishedStaysRegistered'
    BY <1>10 DEF SaveStart, Resumes, Goto, UpsertOrWarn, Upsert, Fault
<1>11. ASSUME NEW t \in Tasks, NEW k \in Attempts, Admit(t, k) PROVE UnfinishedStaysRegistered'
    BY <1>11 DEF Admit, Resumes, Goto
<1>12. ASSUME NEW t \in Tasks, NEW k \in Attempts, RunReturns(t, k) PROVE UnfinishedStaysRegistered'
    BY <1>12 DEF RunReturns, Resumes, Goto
<1>13. ASSUME NEW t \in Tasks, NEW k \in Attempts, Retry(t, k) PROVE UnfinishedStaysRegistered'
    BY <1>13 DEF Retry, Resumes, Goto
<1>14. ASSUME NEW t \in Tasks, NEW k \in Attempts, SaveFinalThread(t, k) PROVE UnfinishedStaysRegistered'
    BY <1>14 DEF SaveFinalThread, Resumes, Goto, Fault
<1>15. ASSUME NEW t \in Tasks, NEW k \in Attempts, Notify(t, k) PROVE UnfinishedStaysRegistered'
    BY <1>15 DEF Notify, Resumes, Goto
<1>16. ASSUME NEW t \in Tasks, NEW k \in Attempts, Leave(t, k) PROVE UnfinishedStaysRegistered'
    BY <1>16 DEF Leave, Goto
<1>17. ASSUME NEW t \in Tasks, NEW k \in Attempts, InterruptSave(t, k) PROVE UnfinishedStaysRegistered'
    BY <1>17 DEF InterruptSave, Interrupted, Goto, Exit, Upsert
<1>18. ASSUME NEW t \in Tasks, NEW k \in Attempts, InterruptRest(t, k) PROVE UnfinishedStaysRegistered'
    BY <1>18 DEF InterruptRest, Interrupted, Goto, Exit
<1>19. ASSUME NEW t \in Tasks, DropTask(t) PROVE UnfinishedStaysRegistered'
    BY <1>19 DEF DropTask, StepRemoval
<1>20. ASSUME Crash PROVE UnfinishedStaysRegistered'
    BY <1>20 DEF Crash, NoRemoval
<1>21. ASSUME RestoreDone PROVE UnfinishedStaysRegistered'
    BY <1>21 DEF RestoreDone
<1> HIDE ConstantsAssumption, TrimmedFacts DEF IInv, TypeOK, MemoryTyped, CorosTyped,
        CallsTyped, AttemptIsReachable, UnfinishedStaysRegistered, SubmitIsFresh,
        StatusFitsAttempt, QuietWhenDown
<1>22. ASSUME NEW t \in Tasks, Submitting(t) \/ Removing(t) PROVE UnfinishedStaysRegistered'
    BY <1>22, <1>8, <1>1, <1>19 DEF Submitting, Removing, SubmitPersist, SubmitFails,
        MarkDeleted, PurgeThread, RemovalFails, ReserveTree, Fault
<1>23. ASSUME NEW t \in Tasks, Remove(t) \/ DeleteThread(t) \/ ForkReserve(t) \/ ForkRelease(t) PROVE UnfinishedStaysRegistered'
    BY <1>23, <1>8 DEF Remove, DeleteThread, ForkReserve, ForkRelease
<1>24. ASSUME NEW t \in Tasks, NEW k \in Attempts, Progress(t, k) PROVE UnfinishedStaysRegistered'
    BY <1>24, <1>9, <1>10, <1>11, <1>12, <1>2, <1>13, <1>3, <1>4, <1>5, <1>14, <1>15, <1>6,
        <1>16, <1>7, <1>17, <1>18 DEF Progress
<1>25. ASSUME NEW t \in Tasks, NEW k \in Attempts, Cancel(t, k) \/ StopSession(t, k) PROVE UnfinishedStaysRegistered'
    BY <1>25, <1>8 DEF Cancel, StopSession
<1>26. ASSUME Crash \/ Restoring PROVE UnfinishedStaysRegistered'
    BY <1>26, <1>8, <1>20, <1>21 DEF Restoring, RestoreList, RestoreAborts, RestoreRow, Fault
<1> QED BY <1>8, <1>22, <1>23, <1>24, <1>25, <1>26 DEF Next, vars

(* Each step moves the attempt and the status of its task together. *)
LEMMA StatusFitsAttemptNext ==
    ASSUME IInv, [Next]_vars
    PROVE  StatusFitsAttempt'
<1>1. ASSUME NEW t \in Tasks, SubmitLaunch(t) PROVE StatusFitsAttempt'
    BY <1>1, LaunchFacts DEF IInv, StatusFitsAttempt
<1>2. ASSUME NEW t \in Tasks, NEW k \in Attempts, Begin(t, k) PROVE StatusFitsAttempt'
    <2>1. pc[t][k] \in Working
        BY <1>2 DEF Begin, Resumes, Interrupted
    <2>2. Goto(t, k, "starting") /\ status' = [status EXCEPT ![t] = "running"]
        BY <1>2 DEF Begin, Finish
    <2> QED BY <2>1, <2>2, StatusAfterMove
<1>3. ASSUME NEW t \in Tasks, NEW k \in Attempts, Complete(t, k) PROVE StatusFitsAttempt'
    <2>1. pc[t][k] \in Working
        BY <1>3 DEF Complete, Resumes, Interrupted
    <2>2. Goto(t, k, "finalSave") /\ status' = [status EXCEPT ![t] = "completed"]
        BY <1>3 DEF Complete, Finish
    <2> QED BY <2>1, <2>2, StatusAfterMove
<1>4. ASSUME NEW t \in Tasks, NEW k \in Attempts, Retry(t, k) PROVE StatusFitsAttempt'
    <2>1. pc[t][k] \in Working
        BY <1>4 DEF Retry, Resumes, Interrupted
    <2>2. Goto(t, k, "retrySave") /\ status' = [status EXCEPT ![t] = "pending"]
        BY <1>4 DEF Retry, Finish
    <2>3. k < MaxRetries
        BY <1>4, ConstantsAssumption DEF Retry
    <2> QED BY <2>1, <2>2, <2>3, StatusAfterMove
<1>5. ASSUME NEW t \in Tasks, NEW k \in Attempts, Fail(t, k) PROVE StatusFitsAttempt'
    <2>1. pc[t][k] \in Working
        BY <1>5 DEF Fail, Resumes, Interrupted
    <2>2. Goto(t, k, "finalSave") /\ status' = [status EXCEPT ![t] = "failed"]
        BY <1>5 DEF Fail, Finish
    <2> QED BY <2>1, <2>2, StatusAfterMove
<1>6. ASSUME NEW t \in Tasks, NEW k \in Attempts, SaveRetry(t, k) PROVE StatusFitsAttempt'
    <2>1. \A j \in Attempts \ {k} : pc[t][j] \notin Working
        BY <1>6, SaveRetryFacts DEF IInv, AttemptIsReachable
    <2>2. UNCHANGED status
        BY <1>6 DEF SaveRetry
    <2>3. \A u \in Tasks \ {t}, j \in Attempts : pc'[u][j] = pc[u][j]
        BY <1>6, SaveRetryFacts
    <2>4. \A j \in Attempts : pc'[t][j] \in Working => pc'[t][j] = "created"
        BY <1>6, <2>1, SaveRetryFacts
    <2> QED BY <1>6, <2>2, <2>3, <2>4, SaveRetryFacts DEF IInv, StatusFitsAttempt
<1>7. ASSUME NEW t \in Tasks, NEW k \in Attempts, SaveFinal(t, k) PROVE StatusFitsAttempt'
    BY <1>7, SaveFinalFacts DEF SaveFinal, IInv, StatusFitsAttempt
<1>8. ASSUME NEW t \in Tasks, NEW k \in Attempts, InterruptRun(t, k) PROVE StatusFitsAttempt'
    <2>1. pc[t][k] \in Working
        BY <1>8 DEF InterruptRun, Resumes, Interrupted
    <2>2. Goto(t, k, "finalSave") /\ status' = [status EXCEPT ![t] = "cancelled"]
        BY <1>8 DEF InterruptRun, Finish
    <2> QED BY <2>1, <2>2, StatusAfterMove
<1> USE ConstantsAssumption, TrimmedFacts DEF IInv, TypeOK, MemoryTyped, CorosTyped,
        CallsTyped, AttemptIsReachable, SubmitIsFresh, StatusFitsAttempt, QuietWhenDown
<1>9. CASE UNCHANGED <<pc, status>>
    BY <1>9
<1>10. ASSUME NEW t \in Tasks, NEW k \in Attempts, SaveStart(t, k) PROVE StatusFitsAttempt'
    BY <1>10 DEF SaveStart, Resumes, Goto, UpsertOrWarn, Upsert, Fault
<1>11. ASSUME NEW t \in Tasks, NEW k \in Attempts, Admit(t, k) PROVE StatusFitsAttempt'
    BY <1>11 DEF Admit, Resumes, Goto
<1>12. ASSUME NEW t \in Tasks, NEW k \in Attempts, RunReturns(t, k) PROVE StatusFitsAttempt'
    BY <1>12 DEF RunReturns, Resumes, Goto
<1>13. ASSUME NEW t \in Tasks, NEW k \in Attempts, SaveFinalThread(t, k) PROVE StatusFitsAttempt'
    BY <1>13 DEF SaveFinalThread, Resumes, Goto, Fault
<1>14. ASSUME NEW t \in Tasks, NEW k \in Attempts, Notify(t, k) PROVE StatusFitsAttempt'
    BY <1>14 DEF Notify, Resumes, Goto
<1>15. ASSUME NEW t \in Tasks, NEW k \in Attempts, CleanUp(t, k) PROVE StatusFitsAttempt'
    BY <1>15 DEF CleanUp, Resumes, Goto, Exit
<1>16. ASSUME NEW t \in Tasks, NEW k \in Attempts, Leave(t, k) PROVE StatusFitsAttempt'
    BY <1>16 DEF Leave, Goto
<1>17. ASSUME NEW t \in Tasks, NEW k \in Attempts, InterruptSave(t, k) PROVE StatusFitsAttempt'
    BY <1>17 DEF InterruptSave, Interrupted, Goto, Exit, Upsert
<1>18. ASSUME NEW t \in Tasks, NEW k \in Attempts, InterruptRest(t, k) PROVE StatusFitsAttempt'
    BY <1>18 DEF InterruptRest, Interrupted, Goto, Exit
<1>19. ASSUME Crash PROVE StatusFitsAttempt'
    BY <1>19 DEF Crash, NoRemoval
<1>20. ASSUME RestoreDone PROVE StatusFitsAttempt'
    <2>1. \A u \in Tasks, j \in Attempts : pc[u][j] = "none" /\ pc' = pc
        BY <1>20 DEF RestoreDone
    <2> QED BY <2>1
<1> HIDE ConstantsAssumption, TrimmedFacts DEF IInv, TypeOK, MemoryTyped, CorosTyped,
        CallsTyped, AttemptIsReachable, SubmitIsFresh, StatusFitsAttempt, QuietWhenDown
<1>21. ASSUME NEW t \in Tasks, Submitting(t) \/ Removing(t) PROVE StatusFitsAttempt'
    BY <1>21, <1>9, <1>1 DEF Submitting, Removing, SubmitPersist, SubmitFails, MarkDeleted,
        PurgeThread, RemovalFails, ReserveTree, DropTask, Fault
<1>22. ASSUME NEW t \in Tasks, Remove(t) \/ DeleteThread(t) \/ ForkReserve(t) \/ ForkRelease(t) PROVE StatusFitsAttempt'
    BY <1>22, <1>9 DEF Remove, DeleteThread, ForkReserve, ForkRelease
<1>23. ASSUME NEW t \in Tasks, NEW k \in Attempts, Progress(t, k) PROVE StatusFitsAttempt'
    BY <1>23, <1>2, <1>10, <1>11, <1>12, <1>3, <1>4, <1>5, <1>6, <1>7, <1>13, <1>14, <1>15,
        <1>16, <1>8, <1>17, <1>18 DEF Progress
<1>24. ASSUME NEW t \in Tasks, NEW k \in Attempts, Cancel(t, k) \/ StopSession(t, k) PROVE StatusFitsAttempt'
    BY <1>24, <1>9 DEF Cancel, StopSession
<1>25. ASSUME Crash \/ Restoring PROVE StatusFitsAttempt'
    BY <1>25, <1>9, <1>19, <1>20 DEF Restoring, RestoreList, RestoreAborts, RestoreRow, Fault
<1> QED BY <1>9, <1>21, <1>22, <1>23, <1>24, <1>25 DEF Next, vars

(* An outcome is written by the attempt that reached it. *)
LEMMA RowFitsStatusNext ==
    ASSUME IInv, [Next]_vars
    PROVE  RowFitsStatus'
<1> USE ConstantsAssumption DEF IInv, TypeOK, MemoryTyped, CorosTyped, DbTyped,
        CallsTyped, RowFitsStatus, SubmitIsFresh, StatusFitsAttempt, QuietWhenDown
<1>1. CASE UNCHANGED <<row, status>>
    BY <1>1
<1>2. ASSUME NEW t \in Tasks, SubmitPersist(t) PROVE RowFitsStatus'
    BY <1>2 DEF SubmitPersist, Upsert
<1>3. ASSUME NEW t \in Tasks, SubmitLaunch(t) PROVE RowFitsStatus'
    BY <1>3 DEF SubmitLaunch, Goto
<1>4. ASSUME NEW t \in Tasks, NEW k \in Attempts, Begin(t, k) PROVE RowFitsStatus'
    BY <1>4 DEF Begin, Resumes, Goto
<1>5. ASSUME NEW t \in Tasks, NEW k \in Attempts, SaveStart(t, k) PROVE RowFitsStatus'
    BY <1>5 DEF SaveStart, Resumes, Goto, UpsertOrWarn, Upsert, Fault
<1>6. ASSUME NEW t \in Tasks, NEW k \in Attempts, Complete(t, k) PROVE RowFitsStatus'
    BY <1>6 DEF Complete, Resumes, Goto, Finish, Stamp
<1>7. ASSUME NEW t \in Tasks, NEW k \in Attempts, Retry(t, k) PROVE RowFitsStatus'
    BY <1>7 DEF Retry, Resumes, Goto
<1>8. ASSUME NEW t \in Tasks, NEW k \in Attempts, Fail(t, k) PROVE RowFitsStatus'
    BY <1>8 DEF Fail, Resumes, Goto, Finish, Stamp
<1>9. ASSUME NEW t \in Tasks, NEW k \in Attempts, SaveRetry(t, k) PROVE RowFitsStatus'
    <2>1. /\ status' = status
          /\ row' = row \/ row' = [row EXCEPT ![t] = [status |-> status[t], deleted |-> FALSE]]
        BY <1>9 DEF SaveRetry, UpsertOrWarn, Upsert, Fault
    <2> QED BY <2>1
<1>10. ASSUME NEW t \in Tasks, NEW k \in Attempts, SaveFinal(t, k) PROVE RowFitsStatus'
    BY <1>10 DEF SaveFinal, Resumes, Goto, Upsert, Fault
<1>11. ASSUME NEW t \in Tasks, NEW k \in Attempts, InterruptRun(t, k) PROVE RowFitsStatus'
    BY <1>11 DEF InterruptRun, Interrupted, Goto, Finish, Stamp
<1>12. ASSUME NEW t \in Tasks, NEW k \in Attempts, InterruptSave(t, k) PROVE RowFitsStatus'
    <2>1. /\ status' = status
          /\ row' = row \/ row' = [row EXCEPT ![t] = [status |-> status[t], deleted |-> FALSE]]
        BY <1>12 DEF InterruptSave, Upsert
    <2> QED BY <2>1
<1>13. ASSUME NEW t \in Tasks, MarkDeleted(t) PROVE RowFitsStatus'
    BY <1>13 DEF MarkDeleted, StepRemoval
<1>14. ASSUME Crash PROVE RowFitsStatus'
    BY <1>14 DEF Crash, NoRemoval
<1>15. ASSUME NEW t \in Tasks, RestoreRow(t) PROVE RowFitsStatus'
    BY <1>15 DEF RestoreRow, Stamp, Upsert
<1>16. ASSUME RestoreDone PROVE RowFitsStatus'
    BY <1>16 DEF RestoreDone
<1> HIDE ConstantsAssumption, TrimmedFacts DEF IInv, TypeOK, MemoryTyped, CorosTyped, DbTyped,
        CallsTyped, RowFitsStatus, SubmitIsFresh, StatusFitsAttempt, QuietWhenDown
<1>17. ASSUME NEW t \in Tasks, Submitting(t) \/ Removing(t) PROVE RowFitsStatus'
    BY <1>17, <1>1, <1>2, <1>3, <1>13 DEF Submitting, Removing, SubmitFails, PurgeThread, RemovalFails,
        ReserveTree, DropTask, Fault
<1>18. ASSUME NEW t \in Tasks, Remove(t) \/ DeleteThread(t) \/ ForkReserve(t) \/ ForkRelease(t) PROVE RowFitsStatus'
    BY <1>18, <1>1 DEF Remove, DeleteThread, ForkReserve, ForkRelease
<1>19. ASSUME NEW t \in Tasks, NEW k \in Attempts, Progress(t, k) PROVE RowFitsStatus'
    BY <1>19, <1>1, <1>4, <1>5, <1>6, <1>7, <1>8, <1>9, <1>10, <1>11, <1>12 DEF Progress,
        Admit, RunReturns, SaveFinalThread, Notify, CleanUp, Leave, InterruptRest, Fault
<1>20. ASSUME NEW t \in Tasks, NEW k \in Attempts, Cancel(t, k) \/ StopSession(t, k) PROVE RowFitsStatus'
    BY <1>20, <1>1 DEF Cancel, StopSession
<1>21. ASSUME Crash \/ Restoring PROVE RowFitsStatus'
    BY <1>21, <1>1, <1>14, <1>16, <1>15 DEF Restoring, RestoreList, RestoreAborts, Fault
<1> QED BY <1>1, <1>17, <1>18, <1>19, <1>20, <1>21 DEF Next, vars

(* Nothing can find a task before submit() has registered it. *)
LEMMA SubmitIsFreshNext ==
    ASSUME IInv, [Next]_vars
    PROVE  SubmitIsFresh'
<1>30. ASSUME RestoreDone PROVE SubmitIsFresh'
    <2>1. registered' \subseteq restoring
        BY <1>30, TrimmedFacts DEF RestoreDone, IInv, QuietWhenDown
    <2>2. \A u \in Tasks : submit[u] # "done" => u \notin restoring /\ submit[u] # "thread"
        BY <1>30 DEF RestoreDone, IInv, SubmitIsFresh, QuietWhenDown, TypeOK, CallsTyped
    <2>3. \A u \in Tasks : u \notin restoring => status'[u] = status[u]
        BY <1>30 DEF RestoreDone
    <2>4. UNCHANGED <<submit, thread, removal, cleanups, pc, row>>
        BY <1>30 DEF RestoreDone, coros
    <2> QED BY <2>1, <2>2, <2>3, <2>4 DEF IInv, SubmitIsFresh
<1> USE ConstantsAssumption DEF IInv, TypeOK, MemoryTyped, CorosTyped, DbTyped,
        CallsTyped, HistoryTyped, SubmitIsFresh, QuietWhenDown
<1>3. CASE UNCHANGED <<submit, status, registered, thread, removal, cleanups, pc, row, server>>
    BY <1>3
<1>4. ASSUME NEW t \in Tasks, SubmitPersist(t) PROVE SubmitIsFresh'
    BY <1>4 DEF SubmitPersist, Upsert
<1>5. ASSUME NEW t \in Tasks, SubmitLaunch(t) PROVE SubmitIsFresh'
    <2>1. registered' \subseteq registered \cup {t}
        BY <1>5, TrimmedFacts DEF SubmitLaunch
    <2>2. submit'[t] = "done" /\ server' = server
          /\ \A u \in Tasks \ {t} :
                /\ submit'[u] = submit[u] /\ status'[u] = status[u] /\ thread'[u] = thread[u]
                /\ pc'[u] = pc[u]
        BY <1>5 DEF SubmitLaunch, Goto
    <2>3. UNCHANGED <<removal, cleanups, row>>
        BY <1>5 DEF SubmitLaunch
    <2> QED BY <2>1, <2>2, <2>3
<1>6. ASSUME NEW t \in Tasks, SubmitFails(t) PROVE SubmitIsFresh'
    BY <1>6 DEF SubmitFails, Fault
<1>21. ASSUME NEW t \in Tasks, Remove(t) PROVE SubmitIsFresh'
    BY <1>21 DEF Remove
<1>22. ASSUME NEW t \in Tasks, DeleteThread(t) PROVE SubmitIsFresh'
    BY <1>22 DEF DeleteThread
<1>23. ASSUME NEW t \in Tasks, MarkDeleted(t) PROVE SubmitIsFresh'
    BY <1>23 DEF MarkDeleted, StepRemoval
<1>24. ASSUME NEW t \in Tasks, PurgeThread(t) PROVE SubmitIsFresh'
    BY <1>24 DEF PurgeThread, StepRemoval
<1>24a. ASSUME NEW t \in Tasks, RemovalFails(t) PROVE SubmitIsFresh'
    BY <1>24a DEF RemovalFails, StepRemoval
<1>25. ASSUME NEW t \in Tasks, ReserveTree(t) PROVE SubmitIsFresh'
    BY <1>25 DEF ReserveTree, StepRemoval
<1>26. ASSUME NEW t \in Tasks, DropTask(t) PROVE SubmitIsFresh'
    BY <1>26 DEF DropTask, StepRemoval
<1>27. ASSUME Crash PROVE SubmitIsFresh'
    BY <1>27 DEF Crash, NoRemoval
<1>28. ASSUME RestoreList PROVE SubmitIsFresh'
    BY <1>28 DEF RestoreList, Listed
<1>29. ASSUME NEW t \in Tasks, RestoreRow(t) PROVE SubmitIsFresh'
    BY <1>29 DEF RestoreRow, Stamp, Upsert
<1>31. ASSUME RestoreAborts PROVE SubmitIsFresh'
    BY <1>31 DEF RestoreAborts, Fault
<1> HIDE ConstantsAssumption, TrimmedFacts DEF IInv, TypeOK, MemoryTyped, CorosTyped, DbTyped,
        CallsTyped, HistoryTyped, SubmitIsFresh, QuietWhenDown
<1>32. ASSUME NEW t \in Tasks, Submitting(t) \/ Removing(t) PROVE SubmitIsFresh'
    BY <1>32, <1>4, <1>5, <1>6, <1>23, <1>24, <1>24a, <1>25, <1>26 DEF Submitting, Removing
<1>33. ASSUME NEW t \in Tasks, Remove(t) \/ DeleteThread(t) \/ ForkReserve(t) \/ ForkRelease(t) PROVE SubmitIsFresh'
    BY <1>33, <1>3, <1>21, <1>22 DEF ForkReserve, ForkRelease
<1>34. ASSUME NEW t \in Tasks, NEW k \in Attempts, Progress(t, k) PROVE SubmitIsFresh'
    <2>1. submit[t] = "done"
        BY <1>34, ProgressFacts DEF IInv, SubmitIsFresh, TypeOK, CallsTyped, Live, InSession
    <2> QED BY <1>34, <2>1, ProgressFacts DEF IInv, SubmitIsFresh
<1>35. ASSUME NEW t \in Tasks, NEW k \in Attempts, Cancel(t, k) \/ StopSession(t, k) PROVE SubmitIsFresh'
    BY <1>35, <1>3 DEF Cancel, StopSession
<1>36. ASSUME Crash \/ Restoring PROVE SubmitIsFresh'
    BY <1>36, <1>27, <1>28, <1>30, <1>31, <1>29 DEF Restoring
<1> QED BY <1>3, <1>32, <1>33, <1>34, <1>35, <1>36 DEF Next, vars

(* A server that is not up runs no attempt and serves no request. *)
LEMMA QuietWhenDownNext ==
    ASSUME IInv, [Next]_vars
    PROVE  QuietWhenDown'
<1> USE ConstantsAssumption, TrimmedFacts DEF IInv, TypeOK, MemoryTyped, CorosTyped, DbTyped,
        CallsTyped, QuietWhenDown
<1>1. CASE UNCHANGED <<server, registered, status, pc, restoring, row>>
    BY <1>1
<1>2. ASSUME NEW t \in Tasks, SubmitPersist(t) PROVE QuietWhenDown'
    BY <1>2 DEF SubmitPersist, Upsert
<1>3. ASSUME NEW t \in Tasks, SubmitLaunch(t) PROVE QuietWhenDown'
    BY <1>3 DEF SubmitLaunch, Goto
<1>4. ASSUME NEW t \in Tasks, NEW k \in Attempts, Begin(t, k) PROVE QuietWhenDown'
    BY <1>4 DEF Begin, Resumes, Goto
<1>5. ASSUME NEW t \in Tasks, NEW k \in Attempts, SaveStart(t, k) PROVE QuietWhenDown'
    BY <1>5 DEF SaveStart, Resumes, Goto, UpsertOrWarn, Upsert, Fault
<1>6. ASSUME NEW t \in Tasks, NEW k \in Attempts, Admit(t, k) PROVE QuietWhenDown'
    BY <1>6 DEF Admit, Resumes, Goto
<1>7. ASSUME NEW t \in Tasks, NEW k \in Attempts, RunReturns(t, k) PROVE QuietWhenDown'
    BY <1>7 DEF RunReturns, Resumes, Goto
<1>8. ASSUME NEW t \in Tasks, NEW k \in Attempts, Complete(t, k) PROVE QuietWhenDown'
    BY <1>8 DEF Complete, Resumes, Goto, Finish, Stamp
<1>9. ASSUME NEW t \in Tasks, NEW k \in Attempts, Retry(t, k) PROVE QuietWhenDown'
    BY <1>9 DEF Retry, Resumes, Goto
<1>10. ASSUME NEW t \in Tasks, NEW k \in Attempts, Fail(t, k) PROVE QuietWhenDown'
    BY <1>10 DEF Fail, Resumes, Goto, Finish, Stamp
<1>11. ASSUME NEW t \in Tasks, NEW k \in Attempts, SaveRetry(t, k) PROVE QuietWhenDown'
    BY <1>11 DEF SaveRetry, Resumes, Goto, Exit, UpsertOrWarn, Upsert, Fault
<1>12. ASSUME NEW t \in Tasks, NEW k \in Attempts, SaveFinal(t, k) PROVE QuietWhenDown'
    BY <1>12 DEF SaveFinal, Resumes, Goto, Upsert, Fault
<1>13. ASSUME NEW t \in Tasks, NEW k \in Attempts, SaveFinalThread(t, k) PROVE QuietWhenDown'
    BY <1>13 DEF SaveFinalThread, Resumes, Goto, Fault
<1>14. ASSUME NEW t \in Tasks, NEW k \in Attempts, Notify(t, k) PROVE QuietWhenDown'
    BY <1>14 DEF Notify, Resumes, Goto
<1>15. ASSUME NEW t \in Tasks, NEW k \in Attempts, CleanUp(t, k) PROVE QuietWhenDown'
    BY <1>15 DEF CleanUp, Resumes, Goto, Exit
<1>16. ASSUME NEW t \in Tasks, NEW k \in Attempts, Leave(t, k) PROVE QuietWhenDown'
    BY <1>16 DEF Leave, Goto
<1>17. ASSUME NEW t \in Tasks, NEW k \in Attempts, InterruptRun(t, k) PROVE QuietWhenDown'
    BY <1>17 DEF InterruptRun, Interrupted, Goto, Finish, Stamp
<1>18. ASSUME NEW t \in Tasks, NEW k \in Attempts, InterruptSave(t, k) PROVE QuietWhenDown'
    BY <1>18 DEF InterruptSave, Interrupted, Goto, Exit, Upsert
<1>19. ASSUME NEW t \in Tasks, NEW k \in Attempts, InterruptRest(t, k) PROVE QuietWhenDown'
    BY <1>19 DEF InterruptRest, Interrupted, Goto, Exit
<1>20. ASSUME NEW t \in Tasks, MarkDeleted(t) PROVE QuietWhenDown'
    BY <1>20 DEF MarkDeleted, StepRemoval
<1>21. ASSUME NEW t \in Tasks, DropTask(t) PROVE QuietWhenDown'
    BY <1>21 DEF DropTask, StepRemoval
<1>22. ASSUME Crash PROVE QuietWhenDown'
    BY <1>22 DEF Crash, NoRemoval
<1>23. ASSUME RestoreList PROVE QuietWhenDown'
    BY <1>23 DEF RestoreList, Listed
<1>24. ASSUME NEW t \in Tasks, RestoreRow(t) PROVE QuietWhenDown'
    BY <1>24 DEF RestoreRow, Stamp, Upsert
<1>25. ASSUME RestoreDone PROVE QuietWhenDown'
    BY <1>25 DEF RestoreDone
<1>26. ASSUME RestoreAborts PROVE QuietWhenDown'
    BY <1>26 DEF RestoreAborts, Fault
<1> HIDE ConstantsAssumption, TrimmedFacts DEF IInv, TypeOK, MemoryTyped, CorosTyped, DbTyped,
        CallsTyped, QuietWhenDown
<1>27. ASSUME NEW t \in Tasks, Submitting(t) \/ Removing(t) PROVE QuietWhenDown'
    BY <1>27, <1>1, <1>2, <1>3, <1>20, <1>21 DEF Submitting, Removing, SubmitFails,
        PurgeThread, RemovalFails, ReserveTree, Fault
<1>28. ASSUME NEW t \in Tasks, Remove(t) \/ DeleteThread(t) \/ ForkReserve(t) \/ ForkRelease(t) PROVE QuietWhenDown'
    BY <1>28, <1>1 DEF Remove, DeleteThread, ForkReserve, ForkRelease
<1>29. ASSUME NEW t \in Tasks, NEW k \in Attempts, Progress(t, k) PROVE QuietWhenDown'
    BY <1>29, <1>4, <1>5, <1>6, <1>7, <1>8, <1>9, <1>10, <1>11, <1>12, <1>13, <1>14, <1>15,
        <1>16, <1>17, <1>18, <1>19 DEF Progress
<1>30. ASSUME NEW t \in Tasks, NEW k \in Attempts, Cancel(t, k) \/ StopSession(t, k) PROVE QuietWhenDown'
    BY <1>30, <1>1 DEF Cancel, StopSession
<1>31. ASSUME Crash \/ Restoring PROVE QuietWhenDown'
    BY <1>31, <1>22, <1>23, <1>25, <1>26, <1>24 DEF Restoring
<1> QED BY <1>1, <1>27, <1>28, <1>29, <1>30, <1>31 DEF Next, vars

(* The cleanup hook runs as the last attempt leaves its finally block. *)
LEMMA CleanupFitsStatusNext ==
    ASSUME IInv, [Next]_vars
    PROVE  CleanupFitsStatus'
<1>2. ASSUME NEW t \in Tasks, NEW k \in Attempts, CleanUp(t, k)
      PROVE  \A j \in Attempts : pc'[t][j] \notin Working
    <2>1. pc[t][k] = "cleaning" /\ Goto(t, k, Exit(t, k))
        BY <1>2 DEF CleanUp, Resumes
    <2>2. Exit(t, k) \in {"leaving", "ended"}
        BY DEF Exit
    <2>3. Exit(t, k) \in Live \cup {"none", "ended"} /\ Exit(t, k) \notin Working
        BY <2>2 DEF Working, Live, InSession, Finalizing
    <2>4. pc'[t][k] = Exit(t, k) /\ \A j \in Attempts \ {k} : pc'[t][j] = pc[t][j]
        BY <2>1, <2>3, GotoFacts DEF IInv, TypeOK
    <2>5. \A j \in Attempts \ {k} : pc[t][j] \notin Working
        <3>1. pc[t][k] \in Working
            BY <2>1 DEF Working, Live, InSession, Finalizing
        <3> QED BY <3>1 DEF IInv, AttemptIsReachable
    <2> QED BY <2>3, <2>4, <2>5
<1> USE ConstantsAssumption DEF IInv, TypeOK, MemoryTyped, CorosTyped,
        HistoryTyped, AttemptIsReachable, SubmitIsFresh, StatusFitsAttempt, CleanupFitsStatus,
        QuietWhenDown
<1>3. CASE UNCHANGED <<cleanups, status, pc>>
    BY <1>3
<1>4. ASSUME NEW t \in Tasks, SubmitLaunch(t) PROVE CleanupFitsStatus'
    BY <1>4 DEF SubmitLaunch, Goto
<1>14. ASSUME NEW t \in Tasks, NEW k \in Attempts, CleanUp(t, k) PROVE CleanupFitsStatus'
    <2>1. pc[t][k] = "cleaning" /\ Goto(t, k, Exit(t, k)) /\ UNCHANGED status
        BY <1>14 DEF CleanUp, Resumes
    <2>2. \A j \in Attempts : pc'[t][j] \notin Working
        BY <1>14, <1>2
    <2>3. cleanups'[t] = 1 /\ status'[t] \in Terminal \cup {"none"}
        BY <1>14, <2>1 DEF CleanUp
    <2>4. \A u \in Tasks \ {t} : pc'[u] = pc[u] /\ cleanups'[u] = cleanups[u]
        BY <1>14, <2>1 DEF CleanUp, Goto
    <2> QED BY <2>1, <2>2, <2>3, <2>4
<1>15. ASSUME NEW t \in Tasks, NEW k \in Attempts, Leave(t, k) PROVE CleanupFitsStatus'
    BY <1>15 DEF Leave, Goto
<1>19. ASSUME Crash PROVE CleanupFitsStatus'
    BY <1>19 DEF Crash, NoRemoval
<1>20. ASSUME RestoreDone PROVE CleanupFitsStatus'
    <2>1. \A u \in Tasks : status[u] = "none" /\ \A j \in Attempts : pc[u][j] = "none"
        BY <1>20 DEF RestoreDone
    <2>2. \A u \in Tasks : status'[u] \in {"none"} \cup Terminal
        BY <1>20, <2>1 DEF RestoreDone, DbTyped, CallsTyped
    <2> QED BY <1>20, <2>1, <2>2 DEF RestoreDone
<1> HIDE ConstantsAssumption, TrimmedFacts DEF IInv, TypeOK, MemoryTyped, CorosTyped,
        HistoryTyped, AttemptIsReachable, SubmitIsFresh, StatusFitsAttempt, CleanupFitsStatus,
        QuietWhenDown
<1>21. ASSUME NEW t \in Tasks, Submitting(t) \/ Removing(t) PROVE CleanupFitsStatus'
    BY <1>21, <1>3, <1>4 DEF Submitting, Removing, SubmitPersist, SubmitFails, MarkDeleted,
        PurgeThread, RemovalFails, ReserveTree, DropTask, Fault
<1>22. ASSUME NEW t \in Tasks, Remove(t) \/ DeleteThread(t) \/ ForkReserve(t) \/ ForkRelease(t) PROVE CleanupFitsStatus'
    BY <1>22, <1>3 DEF Remove, DeleteThread, ForkReserve, ForkRelease
<1>23. ASSUME NEW t \in Tasks, NEW k \in Attempts, Progress(t, k) PROVE CleanupFitsStatus'
    <2>1. CASE CleanUp(t, k) \/ Leave(t, k)
        BY <2>1, <1>14, <1>15
    <2>2. CASE ~CleanUp(t, k) /\ ~Leave(t, k)
        <3>1. cleanups[t] = 0 /\ UNCHANGED cleanups
            BY <1>23, <2>2, ProgressFacts DEF IInv, CleanupFitsStatus
        <3> QED BY <1>23, <3>1, ProgressFacts DEF IInv, CleanupFitsStatus
    <2> QED BY <2>1, <2>2
<1>24. ASSUME NEW t \in Tasks, NEW k \in Attempts, Cancel(t, k) \/ StopSession(t, k) PROVE CleanupFitsStatus'
    BY <1>24, <1>3 DEF Cancel, StopSession
<1>25. ASSUME Crash \/ Restoring PROVE CleanupFitsStatus'
    BY <1>25, <1>3, <1>19, <1>20 DEF Restoring, RestoreList, RestoreAborts, RestoreRow, Fault
<1> QED BY <1>3, <1>21, <1>22, <1>23, <1>24, <1>25 DEF Next, vars

-----------------------------------------------------------------------------
(* The initial states satisfy IInv. *)
LEMMA IInvInit == Init => IInv
<1> SUFFICES ASSUME Init PROVE IInv
    OBVIOUS
<1> USE DEF Init, NoRemoval
<1>1. TypeOK
    BY ConstantsAssumption DEF TypeOK, MemoryTyped, CorosTyped, DbTyped, CallsTyped, HistoryTyped
<1>2. AttemptIsReachable /\ UnfinishedStaysRegistered /\ StatusFitsAttempt
    BY DEF AttemptIsReachable, UnfinishedStaysRegistered, StatusFitsAttempt
<1>3. RowFitsStatus /\ SubmitIsFresh /\ QuietWhenDown /\ CleanupFitsStatus
    BY DEF RowFitsStatus, SubmitIsFresh, QuietWhenDown, CleanupFitsStatus
<1> QED
    BY <1>1, <1>2, <1>3 DEF IInv

(* IInv is inductive. *)
LEMMA IInvNext == IInv /\ [Next]_vars => IInv'
BY MemoryTypedNext, CorosTypedNext, DbTypedNext, CallsTypedNext, HistoryTypedNext,
   AttemptIsReachableNext, UnfinishedStaysRegisteredNext, StatusFitsAttemptNext,
   RowFitsStatusNext, SubmitIsFreshNext, QuietWhenDownNext, CleanupFitsStatusNext
   DEF IInv, TypeOK

-----------------------------------------------------------------------------
(* Every reachable state satisfies the inductive invariant. *)
THEOREM Invariance == Spec => []IInv
BY IInvInit, IInvNext, PTL DEF Spec

(* Type correctness: among others, no attempt beyond max_retries is ever    *)
(* created.                                                                 *)
THEOREM TypeCorrect == Spec => []TypeOK
<1>1. IInv => TypeOK
    BY DEF IInv
<1> QED
    BY <1>1, Invariance, PTL

(* At most one attempt of a task is at work, and _async_task refers to it,  *)
(* so that cancel() reaches it: retries, failed writes, interrupted         *)
(* finally blocks, removals and restarts included.                          *)
THEOREM WorkingAttemptIsReachable == Spec => []AttemptIsReachable
<1>1. IInv => AttemptIsReachable
    BY DEF IInv
<1> QED
    BY <1>1, Invariance, PTL

(* No trim and no remove() takes an unfinished task out of the registry.    *)
THEOREM UnfinishedAlwaysRegistered == Spec => []UnfinishedStaysRegistered
<1>1. IInv => UnfinishedStaysRegistered
    BY DEF IInv
<1> QED
    BY <1>1, Invariance, PTL

(* The cleanup hook of a task runs at most once, after its outcome.         *)
THEOREM CleanupAtMostOnce == Spec => []CleanupOnce
<1>1. IInv => CleanupOnce
    BY DEF IInv, CleanupFitsStatus, CleanupOnce
<1> QED
    BY <1>1, Invariance, PTL

(* A row deleted when no attempt of the task is left stays deleted: only an *)
(* attempt or submit() writes it anew, and a restart lists no deleted row.  *)
THEOREM DeletedAlwaysDeleted == Spec => DeletedStaysDeleted
<1>1. ASSUME IInv, [Next]_vars, NEW t \in Tasks,
             row[t].deleted, submit[t] = "done", ~HasAttempt(t)
      PROVE  row'[t].deleted
    <2>0. \A k \in Attempts : pc[t][k] \notin Live
        BY <1>1 DEF HasAttempt
    <2> USE <1>1 DEF IInv, TypeOK, DbTyped
    <2>1. CASE UNCHANGED row
        BY <2>1
    <2>2. ASSUME NEW u \in Tasks, SubmitPersist(u) PROVE row'[t].deleted
        BY <2>2 DEF SubmitPersist, Upsert
    <2>3. ASSUME NEW u \in Tasks, NEW k \in Attempts,
                 SaveStart(u, k) \/ SaveRetry(u, k) \/ SaveFinal(u, k) \/ InterruptSave(u, k)
          PROVE  row'[t].deleted
        <3>1. u # t
            BY <2>0, <2>3 DEF SaveStart, SaveRetry, SaveFinal, InterruptSave, Resumes, Interrupted
        <3>2. row' = row \/ \E st : Upsert(u, st)
            BY <2>3 DEF SaveStart, SaveRetry, SaveFinal, InterruptSave, UpsertOrWarn
        <3> QED BY <3>1, <3>2 DEF Upsert
    <2>4. ASSUME NEW u \in Tasks, MarkDeleted(u) PROVE row'[t].deleted
        BY <2>4 DEF MarkDeleted
    <2>5. ASSUME NEW u \in Tasks, RestoreRow(u) PROVE row'[t].deleted
        BY <2>5 DEF RestoreRow, Upsert, QuietWhenDown
    <2> HIDE DEF IInv, TypeOK, DbTyped
    <2>6. ASSUME NEW u \in Tasks, Submitting(u) \/ Removing(u) PROVE row'[t].deleted
        BY <2>1, <2>2, <2>4, <2>6 DEF Submitting, SubmitLaunch, SubmitFails, Removing, PurgeThread, RemovalFails,
            ReserveTree, DropTask
    <2>7. ASSUME NEW u \in Tasks, Remove(u) \/ DeleteThread(u) \/ ForkReserve(u) \/ ForkRelease(u)
          PROVE  row'[t].deleted
        BY <2>1, <2>7 DEF Remove, DeleteThread, ForkReserve, ForkRelease
    <2>8. ASSUME NEW u \in Tasks, NEW k \in Attempts, Progress(u, k) PROVE row'[t].deleted
        BY <2>1, <2>3, <2>8 DEF Progress, Begin, Admit, RunReturns, Complete, Retry, Fail,
            SaveFinalThread, Notify, CleanUp, Leave, InterruptRun, InterruptRest
    <2>9. ASSUME NEW u \in Tasks, NEW k \in Attempts, Cancel(u, k) \/ StopSession(u, k)
          PROVE  row'[t].deleted
        BY <2>1, <2>9 DEF Cancel, StopSession
    <2>10. ASSUME Crash \/ Restoring PROVE row'[t].deleted
        BY <2>1, <2>5, <2>10 DEF Crash, Restoring, RestoreList, RestoreDone, RestoreAborts
    <2> QED BY <2>1, <2>6, <2>7, <2>8, <2>9, <2>10 DEF Next, vars
<1>2. IInv /\ [Next]_vars =>
          [\A t \in Tasks : row[t].deleted /\ submit[t] = "done" /\ ~HasAttempt(t)
                => row'[t].deleted]_vars
    BY <1>1
<1> QED
    BY <1>2, Invariance, PTL DEF Spec, DeletedStaysDeleted

-----------------------------------------------------------------------------
(* BackgroundTasks implements TaskLifecycle, under the refinement mapping   *)
(* shown <- status, stored <- the status column of each row.                *)
Stored == [t \in Tasks |-> row[t].status]

(* A written row stores the given status, and no other task's row moves.    *)
LEMMA StoredAfterUpsert ==
    ASSUME IInv, NEW t \in Tasks, NEW st \in Statuses, Upsert(t, st)
    PROVE  Stored' = [Stored EXCEPT ![t] = st]
BY DEF Stored, Upsert, IInv, TypeOK, DbTyped

(* A save of an attempt at work stores what is shown, or nothing.           *)
LEMMA SaveIsStore ==
    ASSUME IInv, NEW t \in Tasks, NEW k \in Attempts, pc[t][k] \in Working \ {"created"},
           pc[t][k] \in Finalizing => pc[t][k] = "finalSave",
           Upsert(t, status[t]) \/ UNCHANGED row, UNCHANGED status
    PROVE  [Lifecycle!Next]_(Lifecycle!vars)
<1>1. status[t] # "none" /\ (Stored[t] \in Terminal => Stored[t] = status[t])
    BY DEF IInv, StatusFitsAttempt, RowFitsStatus, Stored
<1>2. CASE UNCHANGED row
    BY <1>2 DEF Lifecycle!vars
<1>3. CASE Upsert(t, status[t])
    <2>1. Stored' = [Stored EXCEPT ![t] = status[t]]
        BY <1>3, StoredAfterUpsert DEF IInv, TypeOK, MemoryTyped
    <2>2. CASE Stored[t] \in Terminal
        <3>1. Stored' = Stored
            BY <1>1, <2>1, <2>2 DEF Stored
        <3> QED BY <3>1 DEF Lifecycle!vars, Stored
    <2>3. CASE Stored[t] \notin Terminal
        <3>1. Lifecycle!Store(t)
            BY <1>1, <2>1, <2>3 DEF Lifecycle!Store, Lifecycle!Outcomes, Stored
        <3> QED BY <3>1 DEF Lifecycle!Next
    <2> QED BY <2>2, <2>3
<1> QED BY <1>2, <1>3

LEMMA LifecycleInit == Init => Lifecycle!Init
BY DEF Init, Lifecycle!Init

(* Every step of the manager is a step of TaskLifecycle or a stutter.       *)
LEMMA LifecycleNext ==
    ASSUME IInv, IInv', [Next]_vars
    PROVE  [Lifecycle!Next]_(Lifecycle!vars)
<1>1. CASE UNCHANGED <<status, row>>
    BY <1>1 DEF Lifecycle!vars
<1>2. ASSUME NEW t \in Tasks, SubmitPersist(t) PROVE Lifecycle!Next
    <2>1. status[t] = "none" /\ Stored[t] = "none" /\ UNCHANGED status
        BY <1>2 DEF SubmitPersist, IInv, SubmitIsFresh, Stored
    <2>2. Stored' = [Stored EXCEPT ![t] = "pending"]
        BY <1>2, StoredAfterUpsert DEF SubmitPersist
    <2>3. Lifecycle!Accept(t)
        BY <2>1, <2>2 DEF Lifecycle!Accept, Stored
    <2> QED BY <2>3 DEF Lifecycle!Next
<1>3. ASSUME NEW t \in Tasks, SubmitLaunch(t) PROVE Lifecycle!Next
    <2>1. status[t] = "none" /\ Stored[t] = "pending" /\ UNCHANGED row
        BY <1>3 DEF SubmitLaunch, IInv, SubmitIsFresh, Stored
    <2>2. status' = [status EXCEPT ![t] = "pending"]
        BY <1>3 DEF SubmitLaunch
    <2>3. Lifecycle!Launch(t)
        BY <2>1, <2>2 DEF Lifecycle!Launch, Lifecycle!Move, Stored
    <2> QED BY <2>3 DEF Lifecycle!Next
<1>4. ASSUME NEW t \in Tasks, NEW k \in Attempts, Begin(t, k) PROVE Lifecycle!Next
    <2>1. status[t] = "pending" /\ status' = [status EXCEPT ![t] = "running"] /\ UNCHANGED row
        BY <1>4 DEF Begin, Resumes, IInv, StatusFitsAttempt
    <2>2. Lifecycle!Start(t)
        BY <2>1 DEF Lifecycle!Start, Lifecycle!Move
    <2> QED BY <2>2 DEF Lifecycle!Next
<1>5. ASSUME NEW t \in Tasks, NEW k \in Attempts, Retry(t, k) PROVE Lifecycle!Next
    <2>1. status[t] = "running" /\ status' = [status EXCEPT ![t] = "pending"] /\ UNCHANGED row
        BY <1>5 DEF Retry, Resumes, IInv, StatusFitsAttempt
    <2>2. Lifecycle!Retry(t)
        BY <2>1 DEF Lifecycle!Retry, Lifecycle!Move
    <2> QED BY <2>2 DEF Lifecycle!Next
<1>6. ASSUME NEW t \in Tasks, NEW k \in Attempts,
             Complete(t, k) \/ Fail(t, k) \/ InterruptRun(t, k)
      PROVE  Lifecycle!Next
    <2>1. status[t] = "running" /\ UNCHANGED row
        BY <1>6 DEF Complete, Fail, InterruptRun, Resumes, Interrupted, IInv, StatusFitsAttempt
    <2>2. \E outcome \in Terminal : status' = [status EXCEPT ![t] = outcome]
        BY <1>6 DEF Complete, Fail, InterruptRun, Finish
    <2>3. Lifecycle!Settle(t)
        BY <2>1, <2>2 DEF Lifecycle!Settle, Lifecycle!Move, Lifecycle!Outcomes
    <2> QED BY <2>3 DEF Lifecycle!Next
<1>7. ASSUME NEW t \in Tasks, NEW k \in Attempts,
             SaveStart(t, k) \/ SaveRetry(t, k) \/ SaveFinal(t, k) \/ InterruptSave(t, k)
      PROVE  [Lifecycle!Next]_(Lifecycle!vars)
    <2>1. pc[t][k] \in {"starting", "retrySave", "finalSave"}
        BY <1>7 DEF SaveStart, SaveRetry, SaveFinal, InterruptSave, Resumes, Interrupted
    <2>2. UNCHANGED status
        BY <1>7 DEF SaveStart, SaveRetry, SaveFinal, InterruptSave
    <2>3. Upsert(t, status[t]) \/ UNCHANGED row
        <3>1. CASE SaveStart(t, k)
            <4>1. status[t] = "running"
                BY <3>1 DEF SaveStart, Resumes, IInv, StatusFitsAttempt
            <4> QED BY <3>1, <4>1 DEF SaveStart, UpsertOrWarn
        <3>2. CASE SaveRetry(t, k) \/ SaveFinal(t, k) \/ InterruptSave(t, k)
            BY <3>2 DEF SaveRetry, SaveFinal, InterruptSave, UpsertOrWarn
        <3> QED BY <1>7, <3>1, <3>2
    <2> QED BY <2>1, <2>2, <2>3, SaveIsStore
<1>8. ASSUME NEW t \in Tasks, MarkDeleted(t) PROVE UNCHANGED Lifecycle!vars
    <2>1. UNCHANGED status
        BY <1>8 DEF MarkDeleted
    <2>2. \A u \in Tasks : row'[u].status = row[u].status
        BY <1>8 DEF MarkDeleted, IInv, TypeOK, DbTyped
    <2> QED BY <2>1, <2>2 DEF Lifecycle!vars
<1>9. ASSUME Crash PROVE Lifecycle!Next
    <2>1. Lifecycle!Forget
        BY <1>9 DEF Crash, Lifecycle!Forget
    <2> QED BY <2>1 DEF Lifecycle!Next
<1>10. ASSUME NEW t \in Tasks, RestoreRow(t) PROVE Lifecycle!Next
    <2>1. UNCHANGED status /\ \A u \in Tasks : status[u] = "none"
        BY <1>10 DEF RestoreRow, IInv, QuietWhenDown
    <2>2. Stored[t] \in Active
        BY <1>10 DEF RestoreRow, Stored
    <2>3. Stored' = [Stored EXCEPT ![t] = "failed"]
        BY <1>10, StoredAfterUpsert DEF RestoreRow
    <2>4. Lifecycle!FailInterrupted(t)
        BY <2>1, <2>2, <2>3 DEF Lifecycle!FailInterrupted, Stored
    <2> QED BY <2>4 DEF Lifecycle!Next
<1>11. ASSUME RestoreDone PROVE Lifecycle!Next
    <2>1. UNCHANGED row /\ \A u \in Tasks : status[u] = "none"
        BY <1>11 DEF RestoreDone, IInv, QuietWhenDown
    <2>2. status' = [u \in Tasks |-> IF u \in restoring THEN row[u].status ELSE "none"]
        BY <1>11, <2>1 DEF RestoreDone
    <2>3. \A u \in restoring : row[u].status \in Terminal
        BY <1>11 DEF RestoreDone, IInv, QuietWhenDown, TypeOK, DbTyped, CallsTyped
    <2>4. Lifecycle!Recall
        BY <2>1, <2>2, <2>3 DEF Lifecycle!Recall, Lifecycle!Outcomes
    <2> QED BY <2>4 DEF Lifecycle!Next
<1>12. ASSUME NEW t \in Tasks, NEW k \in Attempts, Progress(t, k)
       PROVE  [Lifecycle!Next]_(Lifecycle!vars)
    BY <1>12, <1>1, <1>4, <1>5, <1>6, <1>7 DEF Progress, Admit, RunReturns, SaveFinalThread,
        Notify, CleanUp, Leave, InterruptRest
<1>13. ASSUME NEW t \in Tasks, Submitting(t) \/ Removing(t)
       PROVE  [Lifecycle!Next]_(Lifecycle!vars)
    BY <1>13, <1>1, <1>2, <1>3, <1>8 DEF Submitting, Removing, SubmitFails, PurgeThread, RemovalFails,
        ReserveTree, DropTask
<1>14. ASSUME NEW t \in Tasks, Remove(t) \/ DeleteThread(t) \/ ForkReserve(t) \/ ForkRelease(t)
       PROVE  [Lifecycle!Next]_(Lifecycle!vars)
    BY <1>14, <1>1 DEF Remove, DeleteThread, ForkReserve, ForkRelease
<1>15. ASSUME NEW t \in Tasks, NEW k \in Attempts, Cancel(t, k) \/ StopSession(t, k)
       PROVE  [Lifecycle!Next]_(Lifecycle!vars)
    BY <1>15, <1>1 DEF Cancel, StopSession
<1>16. ASSUME Restoring PROVE [Lifecycle!Next]_(Lifecycle!vars)
    BY <1>16, <1>1, <1>10, <1>11 DEF Restoring, RestoreList, RestoreAborts
<1> QED BY <1>1, <1>9, <1>12, <1>13, <1>14, <1>15, <1>16 DEF Next, vars

(* The manager keeps the promises of TaskLifecycle: a status a client has   *)
(* been shown moves only along the lifecycle, and a stored outcome is       *)
(* never replaced by another.                                               *)
THEOREM Refinement == Spec => KeepsLifecycle
<1>1. IInv /\ IInv' /\ [Next]_vars => [Lifecycle!Next]_(Lifecycle!vars)
    BY LifecycleNext
<1> QED
    BY <1>1, LifecycleInit, Invariance, PTL DEF Spec, KeepsLifecycle, Lifecycle!Spec

-----------------------------------------------------------------------------
-----------------------------------------------------------------------------
(* The history: outcomes have different times, and a trim keeps the newest.  *)

LEMMA StampedInit == Init => Stamped
BY DEF Init, Stamped

(* Nothing gets an outcome, in memory or in its row, but by its stamp.       *)
LEMMA StampedStill ==
    ASSUME IInv, Stamped, UNCHANGED stamps,
           \A t \in Tasks : /\ status'[t] \in Terminal => status[t] \in Terminal \/ row[t].status \in Terminal
                            /\ row'[t].status \in Terminal => status[t] \in Terminal \/ row[t].status \in Terminal
    PROVE  Stamped'
BY DEF Stamped

LEMMA StampedFinish ==
    ASSUME IInv, Stamped, NEW t \in Tasks, Stamp(t),
           \A u \in Tasks \ {t} : status'[u] = status[u] /\ row'[u] = row[u]
    PROVE  Stamped'
<1>1. clock' = clock + 1 /\ clock \in Nat /\ completedAt'[t] = clock + 1
    BY DEF Stamp, IInv, TypeOK, MemoryTyped
<1>2. \A u \in Tasks : completedAt[u] \in Nat /\ (u # t => completedAt'[u] = completedAt[u])
    BY DEF Stamp, IInv, TypeOK, MemoryTyped
<1> QED
    BY <1>1, <1>2 DEF Stamped

LEMMA StampedNext == ASSUME IInv, Stamped, [Next]_vars PROVE Stamped'
<1> USE DEF IInv, TypeOK, MemoryTyped, DbTyped
<1>1. CASE UNCHANGED <<status, stamps, row>>
    BY <1>1 DEF Stamped
<1>2. ASSUME NEW t \in Tasks, SubmitPersist(t) \/ SubmitLaunch(t) PROVE Stamped'
    <2>1. CASE SubmitPersist(t)
        BY <2>1, StampedStill DEF SubmitPersist, Upsert
    <2>2. CASE SubmitLaunch(t)
        <3>1. status' = [status EXCEPT ![t] = "pending"] /\ UNCHANGED <<row, stamps>>
            BY <2>2 DEF SubmitLaunch
        <3> QED BY <3>1, StampedStill
    <2> QED BY <1>2, <2>1, <2>2
<1>3. ASSUME NEW t \in Tasks, MarkDeleted(t) PROVE Stamped'
    BY <1>3, StampedStill DEF MarkDeleted
<1>4. ASSUME NEW t \in Tasks, NEW k \in Attempts, Begin(t, k) \/ Retry(t, k) PROVE Stamped'
    BY <1>4, StampedStill DEF Begin, Retry
<1>5. ASSUME NEW t \in Tasks, NEW k \in Attempts, SaveStart(t, k) \/ SaveRetry(t, k) \/ SaveFinal(t, k) \/ InterruptSave(t, k)
      PROVE  Stamped'
    <2>1. row' = row \/ Upsert(t, "running") \/ Upsert(t, status[t])
        BY <1>5 DEF SaveStart, SaveRetry, SaveFinal, InterruptSave, UpsertOrWarn
    <2>2. UNCHANGED <<status, stamps>>
        BY <1>5 DEF SaveStart, SaveRetry, SaveFinal, InterruptSave
    <2>3. \A u \in Tasks : row'[u].status \in {row[u].status, "running", status[u]}
        <3>1. CASE UNCHANGED row
            BY <3>1
        <3>2. ASSUME NEW st, Upsert(t, st) PROVE row'[t].status = st /\ \A u \in Tasks \ {t} : row'[u] = row[u]
            BY <3>2 DEF Upsert
        <3> QED BY <2>1, <3>1, <3>2
    <2> QED BY <2>2, <2>3, StampedStill
<1>6. ASSUME NEW t \in Tasks, NEW k \in Attempts, Complete(t, k) \/ Fail(t, k) \/ InterruptRun(t, k) PROVE Stamped'
    BY <1>6, StampedFinish DEF Complete, Fail, InterruptRun, Finish
<1>7. ASSUME Crash PROVE Stamped'
    BY <1>7 DEF Crash, Stamped
<1>8. ASSUME NEW t \in Tasks, RestoreRow(t) PROVE Stamped'
    BY <1>8, StampedFinish DEF RestoreRow, Upsert
<1>9. ASSUME RestoreDone PROVE Stamped'
    BY <1>9, StampedStill DEF RestoreDone
<1> HIDE DEF IInv, TypeOK, MemoryTyped, DbTyped
<1>10. ASSUME NEW t \in Tasks, Submitting(t) \/ Removing(t) PROVE Stamped'
    BY <1>10, <1>1, <1>2, <1>3 DEF Submitting, Removing, SubmitFails, PurgeThread, ReserveTree, DropTask, RemovalFails
<1>11. ASSUME NEW t \in Tasks, Remove(t) \/ DeleteThread(t) \/ ForkReserve(t) \/ ForkRelease(t) PROVE Stamped'
    BY <1>11, <1>1 DEF Remove, DeleteThread, ForkReserve, ForkRelease
<1>12. ASSUME NEW t \in Tasks, NEW k \in Attempts, Progress(t, k) PROVE Stamped'
    BY <1>12, <1>1, <1>4, <1>5, <1>6 DEF Progress, Admit, RunReturns, SaveFinalThread, Notify, CleanUp, Leave, InterruptRest
<1>13. ASSUME NEW t \in Tasks, NEW k \in Attempts, Cancel(t, k) \/ StopSession(t, k) PROVE Stamped'
    BY <1>13, <1>1 DEF Cancel, StopSession
<1>14. ASSUME Crash \/ Restoring PROVE Stamped'
    BY <1>14, <1>1, <1>7, <1>8, <1>9 DEF Restoring, RestoreList, RestoreAborts
<1> QED
    BY <1>1, <1>10, <1>11, <1>12, <1>13, <1>14 DEF Next, vars

(* _trim_completed keeps at most MaxCompleted outcomes: their ranks, the     *)
(* number of newer outcomes, are different and below MaxCompleted.           *)
LEMMA TrimmedIsBounded ==
    ASSUME NEW reg \in SUBSET Tasks, NEW st, NEW times \in [Tasks -> Nat],
           \A t, u \in reg : t # u /\ st[t] \in Terminal /\ st[u] \in Terminal => times[t] # times[u]
    PROVE  LET kept == {t \in Trimmed(reg, st, times) : st[t] \in Terminal}
           IN  IsFiniteSet(kept) /\ Cardinality(kept) <= MaxCompleted
<1> DEFINE done == {t \in reg : st[t] \in Terminal}
           newer(t) == done \cap Later(t, times)
           kept == {t \in Trimmed(reg, st, times) : st[t] \in Terminal}
           rank == [t \in kept |-> Cardinality(newer(t))]
<1>1. IsFiniteSet(Tasks)
    BY FS_Interval, ConstantsAssumption
<1>2. IsFiniteSet(done) /\ \A t \in done : IsFiniteSet(newer(t)) /\ Cardinality(newer(t)) \in Nat
    BY <1>1, FS_Subset, FS_CardinalityType
<1>3. kept \subseteq done /\ \A t \in kept : Cardinality(newer(t)) < MaxCompleted
    BY DEF Trimmed
<1>4. done \subseteq Tasks /\ \A t, u \in done : t # u => times[t] # times[u]
    OBVIOUS
<1>5. \A t \in Tasks : \A u : u \in newer(t) <=> u \in done /\ times[u] > times[t]
    BY <1>4 DEF Later
<1> HIDE DEF kept, newer, done
<1>6. ASSUME NEW a \in done, NEW b \in done, times[a] < times[b]
      PROVE  Cardinality(newer(b)) < Cardinality(newer(a))
    <2>1. /\ times[a] \in Nat /\ times[b] \in Nat
          /\ \A u \in done : times[u] \in Nat
        BY <1>4
    <2>2. b \in newer(a) /\ b \notin newer(b)
        BY <1>4, <1>5, <1>6, <2>1
    <2>3. ASSUME NEW u \in newer(b) PROVE u \in newer(a)
        <3>1. u \in done /\ times[u] \in Nat /\ times[u] > times[b]
            BY <1>4, <1>5, <2>1
        <3>2. times[u] > times[a]
            BY <1>6, <2>1, <3>1
        <3> QED BY <1>4, <1>5, <3>1, <3>2
    <2>4. IsFiniteSet(newer(a)) /\ Cardinality(newer(a)) \in Nat /\ Cardinality(newer(b)) \in Nat
        BY <1>2
    <2>5. /\ Cardinality(newer(b)) <= Cardinality(newer(a))
          /\ Cardinality(newer(b)) = Cardinality(newer(a)) => newer(b) = newer(a)
        BY <2>3, <2>4, FS_Subset
    <2> QED BY <2>2, <2>4, <2>5
<1>7. ASSUME NEW t \in kept, NEW u \in kept, t # u PROVE rank[t] # rank[u]
    <2>1. t \in done /\ u \in done /\ times[t] \in Nat /\ times[u] \in Nat /\ times[t] # times[u]
        BY <1>3, <1>4, <1>7
    <2>2. Cardinality(newer(t)) \in Nat /\ Cardinality(newer(u)) \in Nat
        BY <1>2, <2>1
    <2>3. CASE times[t] < times[u]
        BY <1>6, <2>1, <2>2, <2>3
    <2>4. CASE times[u] < times[t]
        BY <1>6, <2>1, <2>2, <2>4
    <2> QED BY <2>1, <2>3, <2>4
<1>8. rank \in [kept -> 0..(MaxCompleted - 1)]
    <2>1. \A t \in kept : Cardinality(newer(t)) \in 0..(MaxCompleted - 1)
        BY <1>2, <1>3, ConstantsAssumption
    <2> QED BY <2>1
<1>9. rank \in Injection(kept, 0..(MaxCompleted - 1))
    BY <1>7, <1>8 DEF Injection, IsInjective
<1>10. IsFiniteSet(0..(MaxCompleted - 1)) /\ Cardinality(0..(MaxCompleted - 1)) = MaxCompleted
    <2>1. 0 \in Int /\ MaxCompleted - 1 \in Int /\ MaxCompleted - 1 - 0 + 1 = MaxCompleted /\ ~(0 > MaxCompleted - 1)
        BY ConstantsAssumption
    <2> QED BY <2>1, FS_Interval
<1> HIDE DEF rank
<1>11. IsFiniteSet(kept) /\ Cardinality(kept) <= MaxCompleted
    BY <1>9, <1>10, FS_Injection
<1> QED
    BY <1>11 DEF kept

(* Left and Hits are finite; a smaller set has no more members.              *)
LEMMA Finite ==
    ASSUME IInv
    PROVE  /\ IsFiniteSet(Left) /\ Cardinality(Left) \in Nat
           /\ IsFiniteSet(Hits) /\ Cardinality(Hits) \in Nat
<1>1. IsFiniteSet(Tasks) /\ IsFiniteSet(Attempts)
    BY FS_Interval, ConstantsAssumption
<1>2. IsFiniteSet(Tasks \X Attempts)
    BY <1>1, FS_Product
<1>3. Left \in SUBSET Tasks /\ Hits \in SUBSET (Tasks \X Attempts)
    BY DEF IInv, TypeOK, MemoryTyped, Left, Hits
<1> HIDE DEF Tasks, Attempts
<1>4. IsFiniteSet(Left) /\ IsFiniteSet(Hits)
    BY <1>1, <1>2, <1>3, FS_Subset
<1> QED BY <1>4, FS_CardinalityType

LEMMA Spent ==
    ASSUME IInv
    PROVE  cancels \in Nat /\ MaxCancels \in Nat /\ MaxCompleted \in Nat
BY ConstantsAssumption DEF IInv, TypeOK, HistoryTyped

(* Nobody leaves the finally block and nobody is cancelled.                  *)
LEMMA CountedStill ==
    ASSUME IInv, Counted, Left' \subseteq Left, Hits' \subseteq Hits, UNCHANGED cancels
    PROVE  Counted'
<1>1. /\ IsFiniteSet(Left) /\ Left' \in SUBSET Left
      /\ IsFiniteSet(Hits) /\ Hits' \in SUBSET Hits
    BY Finite
<1>2. /\ IsFiniteSet(Left') /\ Cardinality(Left') <= Cardinality(Left)
      /\ IsFiniteSet(Hits') /\ Cardinality(Hits') <= Cardinality(Hits)
    BY <1>1, FS_Subset
<1>3. Cardinality(Left') \in Nat /\ Cardinality(Hits') \in Nat
    BY <1>2, FS_CardinalityType
<1> QED BY <1>2, <1>3, Finite, Spent DEF Counted

(* A cancellation is taken out of the budget and is to be delivered.         *)
LEMMA CountedCancel ==
    ASSUME IInv, Counted, NEW c, Left' \subseteq Left, Hits' \subseteq Hits \cup {c},
           cancels > 0, cancels' = cancels - 1
    PROVE  Counted'
<1>1. /\ IsFiniteSet(Left) /\ Left' \in SUBSET Left
      /\ IsFiniteSet(Hits \cup {c}) /\ Hits' \in SUBSET (Hits \cup {c})
      /\ Cardinality(Hits \cup {c}) \in {Cardinality(Hits), Cardinality(Hits) + 1}
    BY Finite, FS_AddElement
<1>2. /\ IsFiniteSet(Left') /\ Cardinality(Left') <= Cardinality(Left)
      /\ IsFiniteSet(Hits') /\ Cardinality(Hits') <= Cardinality(Hits \cup {c})
    BY <1>1, FS_Subset
<1>3. Cardinality(Left') \in Nat /\ Cardinality(Hits') \in Nat /\ Cardinality(Hits \cup {c}) \in Nat
    BY <1>1, <1>2, FS_CardinalityType
<1> QED BY <1>1, <1>2, <1>3, Finite, Spent DEF Counted

(* A cancellation is delivered, and its task may leave without a trim.       *)
LEMMA CountedInterrupt ==
    ASSUME IInv, Counted, NEW t, NEW c \in Hits, Left' \subseteq Left \cup {t},
           Hits' \subseteq Hits \ {c}, UNCHANGED cancels
    PROVE  Counted'
<1>1. /\ IsFiniteSet(Left \cup {t}) /\ Left' \in SUBSET (Left \cup {t})
      /\ Cardinality(Left \cup {t}) <= Cardinality(Left) + 1
      /\ IsFiniteSet(Hits \ {c}) /\ Hits' \in SUBSET (Hits \ {c})
      /\ Cardinality(Hits \ {c}) = Cardinality(Hits) - 1
    BY Finite, FS_AddElement, FS_RemoveElement
<1>2. /\ IsFiniteSet(Left') /\ Cardinality(Left') <= Cardinality(Left \cup {t})
      /\ IsFiniteSet(Hits') /\ Cardinality(Hits') <= Cardinality(Hits \ {c})
    BY <1>1, FS_Subset
<1>3. Cardinality(Left') \in Nat /\ Cardinality(Hits') \in Nat /\ Cardinality(Left \cup {t}) \in Nat
    BY <1>1, <1>2, FS_CardinalityType
<1> QED BY <1>1, <1>2, <1>3, Finite, Spent DEF Counted

(* A trim settles the account of every block that was cut short.             *)
LEMMA CountedTrim ==
    ASSUME IInv, IInv', Stamped', Counted, NEW reg \in SUBSET Tasks,
           registered' = Trimmed(reg, status', completedAt'), Hits' \subseteq Hits, UNCHANGED cancels
    PROVE  Counted'
<1> DEFINE kept == {t \in registered' : status'[t] \in Terminal}
<1>1. completedAt' \in [Tasks -> Nat]
    BY DEF IInv, TypeOK, MemoryTyped
<1>2. \A t, u \in reg : t # u /\ status'[t] \in Terminal /\ status'[u] \in Terminal
                         => completedAt'[t] # completedAt'[u]
    BY DEF Stamped
<1>3. IsFiniteSet(kept) /\ Cardinality(kept) <= MaxCompleted
    BY <1>1, <1>2, TrimmedIsBounded
<1>4. Left' \in SUBSET kept
    BY DEF Left
<1> HIDE DEF kept
<1>5. IsFiniteSet(Left') /\ Cardinality(Left') <= Cardinality(kept)
    BY <1>3, <1>4, FS_Subset
<1>6. IsFiniteSet(Hits) /\ Hits' \in SUBSET Hits
    BY Finite
<1>7. IsFiniteSet(Hits') /\ Cardinality(Hits') <= Cardinality(Hits)
    BY <1>6, FS_Subset
<1>8. Cardinality(Left') \in Nat /\ Cardinality(Hits') \in Nat /\ Cardinality(kept) \in Nat
    BY <1>3, <1>5, <1>7, FS_CardinalityType
<1> QED BY <1>3, <1>5, <1>7, <1>8, Finite, Spent DEF Counted

LEMMA CountedInit == Init => Counted
<1> SUFFICES ASSUME Init PROVE Counted
    OBVIOUS
<1>1. Left = {} /\ Hits = {}
    BY DEF Init, Left, Hits
<1>2. Cardinality(Left) = 0 /\ Cardinality(Hits) = 0
    BY <1>1, FS_EmptySet
<1> QED
    BY <1>2, ConstantsAssumption DEF Counted, Init

(* An attempt that is past its outcome and is not cut short keeps its task  *)
(* out of Left, and one that is not there yet has an active task.           *)
LEMMA CountedNext == ASSUME IInv, IInv', Stamped', Counted, [Next]_vars PROVE Counted'
<1>1. CASE UNCHANGED <<registered, status, pc, hit, cancels>>
    <2>1. Left' = Left /\ Hits' = Hits
        BY <1>1 DEF Left, Hits
    <2> QED BY <1>1, <2>1, CountedStill
<1>2. ASSUME NEW t \in Tasks, SubmitLaunch(t) PROVE Counted'
    <2>1. registered \cup {t} \in SUBSET Tasks /\ UNCHANGED <<hit, cancels>>
        BY <1>2 DEF SubmitLaunch, IInv, TypeOK, MemoryTyped
    <2>2. registered' = Trimmed(registered \cup {t}, status', completedAt')
        BY <1>2 DEF SubmitLaunch
    <2>3. Hits' = Hits
        BY <2>1 DEF Hits
    <2> HIDE DEF Tasks
    <2> QED BY <2>1, <2>2, <2>3, CountedTrim
<1>3. ASSUME NEW t \in Tasks, NEW k \in Attempts, SaveRetry(t, k) \/ CleanUp(t, k) PROVE Counted'
    <2>1. registered \in SUBSET Tasks /\ UNCHANGED <<hit, cancels>>
        BY <1>3 DEF SaveRetry, CleanUp, UpsertOrWarn, Fault, IInv, TypeOK, MemoryTyped
    <2>2. registered' = Trimmed(registered, status', completedAt')
        BY <1>3 DEF SaveRetry, CleanUp
    <2>3. Hits' = Hits
        BY <2>1 DEF Hits
    <2> HIDE DEF Tasks
    <2> QED BY <2>1, <2>2, <2>3, CountedTrim
<1>4. ASSUME RestoreDone PROVE Counted'
    <2>1. registered \cup restoring \in SUBSET Tasks /\ UNCHANGED <<hit, cancels>>
        BY <1>4 DEF RestoreDone, IInv, TypeOK, MemoryTyped, CallsTyped
    <2>2. registered' = Trimmed(registered \cup restoring, status', completedAt')
        BY <1>4 DEF RestoreDone
    <2>3. Hits' = Hits
        BY <2>1 DEF Hits
    <2> HIDE DEF Tasks
    <2> QED BY <2>1, <2>2, <2>3, CountedTrim
<1>5. ASSUME Crash PROVE Counted'
    <2>1. Left' = {} /\ Hits' = {} /\ UNCHANGED cancels
        BY <1>5 DEF Crash, Left, Hits
    <2> QED BY <2>1, CountedStill
<1>6. ASSUME NEW t \in Tasks, NEW k \in Attempts, Cancel(t, k) \/ StopSession(t, k) PROVE Counted'
    <2>1. Left' = Left /\ cancels > 0 /\ cancels' = cancels - 1
        BY <1>6 DEF Cancel, StopSession, Left
    <2>2. hit' = [hit EXCEPT ![t][k] = TRUE]
        BY <1>6 DEF Cancel, StopSession
    <2>3. \A u \in Tasks, j \in Attempts : u # t \/ j # k => hit'[u][j] = hit[u][j]
        BY <2>2 DEF IInv, TypeOK, CorosTyped
    <2>4. Hits' \subseteq Hits \cup {<<t, k>>}
        BY <2>3 DEF Hits
    <2> QED BY <2>1, <2>4, CountedCancel
<1>7. ASSUME NEW t \in Tasks, NEW k \in Attempts, Leave(t, k) PROVE Counted'
    <2>1. hit' = [hit EXCEPT ![t][k] = FALSE] /\ UNCHANGED <<registered, status, cancels>>
        BY <1>7 DEF Leave
    <2>2. \A u \in Tasks, j \in Attempts : hit'[u][j] => hit[u][j]
        BY <2>1 DEF IInv, TypeOK, CorosTyped
    <2>3. Hits' \subseteq Hits
        BY <2>2 DEF Hits
    <2>4. \A u \in Tasks, j \in Attempts : pc[u][j] \in Finalizing => pc'[u][j] = pc[u][j]
        BY <1>7 DEF Leave, Goto, IInv, TypeOK, CorosTyped
    <2>5. registered \subseteq Tasks
        BY DEF IInv, TypeOK, MemoryTyped
    <2>6. Left' \subseteq Left
        BY <2>1, <2>4, <2>5 DEF Left
    <2> QED BY <2>1, <2>3, <2>6, CountedStill
<1>8. ASSUME NEW t \in Tasks, NEW k \in Attempts, InterruptRun(t, k) \/ InterruptSave(t, k) \/ InterruptRest(t, k)
      PROVE  Counted'
    <2>1. hit' = [hit EXCEPT ![t][k] = FALSE] /\ hit[t][k] /\ UNCHANGED <<registered, cancels>>
        BY <1>8 DEF InterruptRun, InterruptSave, InterruptRest, Interrupted
    <2>2. \A u \in Tasks, j \in Attempts : hit'[u][j] => hit[u][j] /\ <<u, j>> # <<t, k>>
        BY <2>1 DEF IInv, TypeOK, CorosTyped
    <2>3. Hits' \subseteq Hits \ {<<t, k>>} /\ <<t, k>> \in Hits
        BY <2>1, <2>2 DEF Hits
    <2>4. \A u \in Tasks \ {t} : status'[u] = status[u] /\ pc'[u] = pc[u]
        BY <1>8, ProgressFacts DEF Progress
    <2>5. Left' \subseteq Left \cup {t}
        BY <2>1, <2>4 DEF Left, IInv, TypeOK, MemoryTyped
    <2> QED BY <2>1, <2>3, <2>5, CountedInterrupt
<1>9. ASSUME NEW t \in Tasks, NEW k \in Attempts,
             \/ Begin(t, k) \/ SaveStart(t, k) \/ Admit(t, k) \/ RunReturns(t, k)
             \/ Complete(t, k) \/ Retry(t, k) \/ Fail(t, k)
             \/ SaveFinal(t, k) \/ SaveFinalThread(t, k) \/ Notify(t, k)
      PROVE  Counted'
    <2>1. UNCHANGED <<registered, hit, cancels>>
        BY <1>9 DEF Begin, SaveStart, Admit, RunReturns, Complete, Retry, Fail, SaveFinal,
            SaveFinalThread, Notify, UpsertOrWarn, Fault
    <2>2. \A u \in Tasks \ {t} : status'[u] = status[u] /\ pc'[u] = pc[u]
        BY <1>9, ProgressFacts DEF Progress
    <2>3. \E at \in Live \cup {"ended"} :
              /\ Goto(t, k, at)
              /\ at \in Finalizing \/ (UNCHANGED status /\ pc[t][k] \in {"starting"} \cup Trying) \/ status'[t] \in Active
        BY <1>9 DEF Begin, SaveStart, Admit, RunReturns, Complete, Retry, Fail, SaveFinal,
            SaveFinalThread, Notify, Resumes, IInv, TypeOK, MemoryTyped
    <2>4. pc'[t][k] \in Finalizing \/ status'[t] \notin Terminal
        BY <2>3, GotoFacts DEF IInv, TypeOK, StatusFitsAttempt
    <2>5. Left' \subseteq Left /\ Hits' = Hits
        BY <2>1, <2>2, <2>4 DEF Left, Hits, IInv, TypeOK, MemoryTyped
    <2> QED BY <2>1, <2>5, CountedStill
<1>10. ASSUME NEW t \in Tasks, DropTask(t) PROVE Counted'
    <2>1. registered' \subseteq registered /\ UNCHANGED <<status, pc, hit, cancels>>
        BY <1>10 DEF DropTask
    <2>2. Left' \subseteq Left /\ Hits' = Hits
        BY <2>1 DEF Left, Hits
    <2> QED BY <2>1, <2>2, CountedStill
<1>11. ASSUME NEW t \in Tasks, Submitting(t) \/ Removing(t) PROVE Counted'
    BY <1>11, <1>1, <1>2, <1>10 DEF Submitting, Removing, SubmitPersist, SubmitFails, MarkDeleted,
        PurgeThread, ReserveTree, RemovalFails, Fault
<1>12. ASSUME NEW t \in Tasks, Remove(t) \/ DeleteThread(t) \/ ForkReserve(t) \/ ForkRelease(t) PROVE Counted'
    BY <1>12, <1>1 DEF Remove, DeleteThread, ForkReserve, ForkRelease
<1>13. ASSUME NEW t \in Tasks, NEW k \in Attempts, Progress(t, k) PROVE Counted'
    BY <1>13, <1>3, <1>7, <1>8, <1>9 DEF Progress
<1>14. ASSUME Restoring PROVE Counted'
    BY <1>14, <1>1, <1>4 DEF Restoring, RestoreList, RestoreAborts, RestoreRow, Fault
<1> QED
    BY <1>1, <1>5, <1>6, <1>11, <1>12, <1>13, <1>14 DEF Next, vars

(* At any time the memory holds at most MAX_COMPLETED_TASKS outcomes that    *)
(* are not being finalized, and one more for each cancellation that cut a    *)
(* finally block short before its trim: the trims of every launch, retry,    *)
(* outcome and restore keep the newest, whose times are all different.       *)
THEOREM HistoryBounded == Spec => []HistoryIsBounded
<1>1. IInv /\ Counted => HistoryIsBounded
    BY Finite, Spent DEF Counted, HistoryIsBounded
<1>2. IInv /\ Stamped /\ [Next]_vars => Stamped'
    BY StampedNext
<1>3. IInv /\ IInv' /\ Stamped' /\ Counted /\ [Next]_vars => Counted'
    BY CountedNext
<1> QED
    BY <1>1, <1>2, <1>3, StampedInit, CountedInit, Invariance, PTL DEF Spec

-----------------------------------------------------------------------------
(* When nobody cancels, forks, or deletes the thread of a task at work.      *)

LEMMA UndisturbedInit == ASSUME MaxCancels = 0 PROVE Init => Undisturbed
BY DEF Init, Undisturbed, NoRemoval

LEMMA UndisturbedNext ==
    ASSUME Requests \subseteq {"remove"}, IInv, Undisturbed, [Next]_vars
    PROVE  Undisturbed'
<1> USE DEF IInv, TypeOK, MemoryTyped, CorosTyped, CallsTyped
<1> DEFINE AtWork(t) == \E k \in Attempts : pc[t][k] \in Working \ Finalizing
           Calm(t) == /\ removal[t].at # "no" => removal[t].by = "remove" /\ status[t] \notin Active
                      /\ reserved[t] # "none" => removal[t].at = "drop"
                      /\ status[t] \in Active => AtWork(t)
<1>1. CASE UNCHANGED <<status, pc, hit, removal, reserved, cancels>>
    BY <1>1 DEF Undisturbed
<1>2. ASSUME NEW t \in Tasks, SubmitLaunch(t) PROVE Undisturbed'
    <2>0. 0 \in Attempts /\ IInv
        BY ConstantsAssumption
    <2> HIDE DEF IInv
    <2>1. /\ \A u \in Tasks \ {t} : pc'[u] = pc[u] /\ status'[u] = status[u]
          /\ pc'[t][0] = "created"
        BY <1>2, <2>0, LaunchFacts
    <2> USE DEF IInv
    <2>2. removal[t].at = "no" /\ UNCHANGED <<hit, removal, reserved, cancels>>
        BY <1>2 DEF SubmitLaunch, SubmitIsFresh
    <2> QED BY <2>0, <2>1, <2>2 DEF Undisturbed
<1>3. ASSUME NEW t \in Tasks, Remove(t) \/ ReserveTree(t) \/ DropTask(t) \/ MarkDeleted(t) \/ PurgeThread(t) \/ RemovalFails(t)
      PROVE  Undisturbed'
    <2>1. UNCHANGED <<status, pc, hit, cancels>>
        BY <1>3 DEF Remove, ReserveTree, DropTask, MarkDeleted, PurgeThread, RemovalFails, Fault
    <2>2. \A u \in Tasks \ {t} : removal'[u] = removal[u] /\ reserved'[u] = reserved[u]
        BY <1>3 DEF Remove, ReserveTree, DropTask, MarkDeleted, PurgeThread, RemovalFails, StepRemoval
    <2>3. Calm(t)
        BY DEF Undisturbed
    <2>4. (removal'[t].at # "no" => removal'[t].by = "remove" /\ status[t] \notin Active)
          /\ (reserved'[t] # "none" => removal'[t].at = "drop")
        <3>1. CASE Remove(t)
            BY <2>3, <3>1 DEF Remove
        <3>2. CASE MarkDeleted(t)
            BY <2>3, <3>2 DEF MarkDeleted, StepRemoval
        <3>3. CASE PurgeThread(t)
            BY <2>3, <3>3 DEF PurgeThread, StepRemoval
        <3>4. CASE ReserveTree(t)
            BY <2>3, <3>4 DEF ReserveTree, StepRemoval
        <3>5. CASE DropTask(t)
            BY <2>3, <3>5 DEF DropTask, StepRemoval
        <3>6. CASE RemovalFails(t)
            BY <2>3, <3>6 DEF RemovalFails, StepRemoval
        <3> QED BY <1>3, <3>1, <3>2, <3>3, <3>4, <3>5, <3>6
    <2> QED BY <2>1, <2>2, <2>4 DEF Undisturbed
<1>4. ASSUME NEW t \in Tasks, NEW k \in Attempts, Progress(t, k) PROVE Undisturbed'
    <2>1. ~hit[t][k] /\ cancels = 0
        BY DEF Undisturbed
    <2>2. UNCHANGED <<removal, reserved>>
        BY <1>4 DEF Progress, Begin, SaveStart, Admit, RunReturns, Complete, Retry, Fail, SaveRetry,
            SaveFinal, SaveFinalThread, Notify, CleanUp, Leave, InterruptRun, InterruptSave, InterruptRest
    <2>3. \A u \in Tasks \ {t} : status'[u] = status[u] /\ pc'[u] = pc[u]
        BY <1>4, ProgressFacts
    <2>4. cancels' = 0 /\ \A u \in Tasks, j \in Attempts : ~hit'[u][j]
        <3>1. UNCHANGED hit \/ hit' = [hit EXCEPT ![t][k] = FALSE]
            BY <1>4 DEF Progress, Begin, SaveStart, Admit, RunReturns, Complete, Retry, Fail, SaveRetry,
                SaveFinal, SaveFinalThread, Notify, CleanUp, Leave, InterruptRun, InterruptSave, InterruptRest, Interrupted
        <3>2. UNCHANGED cancels
            BY <1>4 DEF Progress, Begin, SaveStart, Admit, RunReturns, Complete, Retry, Fail, SaveRetry,
                SaveFinal, SaveFinalThread, Notify, CleanUp, Leave, InterruptRun, InterruptSave, InterruptRest, UpsertOrWarn, Fault
        <3>3. \A u \in Tasks, j \in Attempts : hit'[u][j] => hit[u][j]
            <4>1. hit \in [Tasks -> [Attempts -> BOOLEAN]]
                OBVIOUS
            <4> HIDE DEF IInv, TypeOK
            <4>2. CASE UNCHANGED hit
                BY <4>2
            <4>3. CASE hit' = [hit EXCEPT ![t][k] = FALSE]
                BY <4>1, <4>3
            <4> QED BY <3>1, <4>2, <4>3
        <3> QED BY <2>1, <3>2, <3>3 DEF Undisturbed
    <2>5. removal[t].at # "no" => status'[t] \notin Active
        <3>1. SUFFICES ASSUME removal[t].at # "no" PROVE status'[t] \notin Active
            OBVIOUS
        <3>2. status[t] \notin Active
            BY <3>1 DEF Undisturbed
        <3>3. pc[t][k] \notin {"created", "starting", "retrySave"} \cup Trying
            BY <3>2 DEF StatusFitsAttempt
        <3>4. UNCHANGED status
            BY <1>4, <3>3 DEF Progress, Begin, SaveStart, Admit, RunReturns, Complete, Retry, Fail, SaveRetry,
                SaveFinal, SaveFinalThread, Notify, CleanUp, Leave, InterruptRun, InterruptSave, InterruptRest,
                Resumes, Interrupted
        <3> QED BY <3>2, <3>4
    <2>6. status'[t] \in Active => \E j \in Attempts : pc'[t][j] \in Working \ Finalizing
        <3>1. CASE SaveRetry(t, k)
            <4> HIDE DEF IInv, TypeOK, MemoryTyped, CorosTyped, CallsTyped
            <4>1. k + 1 \in Attempts /\ pc'[t][k + 1] = "created"
                BY <3>1, SaveRetryFacts
            <4> QED BY <4>1
        <3>2. CASE SaveStart(t, k)
            <4>1. reserved[t] = "none"
                BY <3>2 DEF SaveStart, Resumes, StatusFitsAttempt, Undisturbed
            <4>2. Goto(t, k, "admitting")
                BY <3>2, <4>1 DEF SaveStart
            <4> QED BY <4>2, GotoFacts
        <3>3. CASE Begin(t, k) \/ Admit(t, k) \/ RunReturns(t, k) \/ Retry(t, k)
            <4>1. \E at \in Working \ Finalizing : Goto(t, k, at)
                BY <3>3 DEF Begin, Admit, RunReturns, Retry
            <4> QED BY <4>1, GotoFacts
        <3>4. CASE Complete(t, k) \/ Fail(t, k)
            BY <3>4 DEF Complete, Fail, Finish
        <3>5. CASE SaveFinal(t, k) \/ SaveFinalThread(t, k) \/ Notify(t, k) \/ CleanUp(t, k)
            <4>1. pc[t][k] \in Finalizing /\ UNCHANGED status
                BY <3>5 DEF SaveFinal, SaveFinalThread, Notify, CleanUp, Resumes
            <4>2. status[t] \in Terminal
                BY <4>1 DEF StatusFitsAttempt
            <4> QED BY <4>1, <4>2
        <3>6. CASE Leave(t, k)
            <4>1. UNCHANGED status /\ \A j \in Attempts : j # k => pc'[t][j] = pc[t][j]
                BY <3>6 DEF Leave, Goto
            <4>2. pc[t][k] = "leaving"
                BY <3>6 DEF Leave
            <4> QED BY <4>1, <4>2 DEF Undisturbed
        <3> QED
            BY <1>4, <2>1, <3>1, <3>2, <3>3, <3>4, <3>5, <3>6 DEF Progress, InterruptRun, InterruptSave, InterruptRest, Interrupted
    <2> QED BY <2>2, <2>3, <2>4, <2>5, <2>6 DEF Undisturbed
<1>5. ASSUME Crash PROVE Undisturbed'
    BY <1>5 DEF Crash, NoRemoval, Undisturbed
<1>6. ASSUME RestoreDone PROVE Undisturbed'
    <2>1. UNCHANGED <<pc, hit, removal, reserved, cancels>>
        BY <1>6 DEF RestoreDone
    <2>2. \A t \in Tasks : status'[t] \in {status[t]} \cup (Statuses \ Active)
        BY <1>6 DEF RestoreDone, DbTyped
    <2> QED BY <2>1, <2>2 DEF Undisturbed
<1> HIDE DEF IInv, TypeOK, MemoryTyped, CorosTyped, CallsTyped
<1>7. ASSUME NEW t \in Tasks, Submitting(t) \/ Removing(t) PROVE Undisturbed'
    BY <1>7, <1>1, <1>2, <1>3 DEF Submitting, Removing, SubmitPersist, SubmitFails, Fault
<1>8. ASSUME NEW t \in Tasks, Remove(t) \/ DeleteThread(t) \/ ForkReserve(t) \/ ForkRelease(t) PROVE Undisturbed'
    <2>1. CASE ForkRelease(t)
        <3>1. UNCHANGED <<status, pc, hit, removal, cancels>> /\ reserved' = [reserved EXCEPT ![t] = "none"]
            BY <2>1 DEF ForkRelease
        <3>2. \A u \in Tasks : reserved'[u] # "none" => reserved[u] # "none"
            BY <3>1 DEF IInv, TypeOK, CallsTyped
        <3> QED BY <3>1, <3>2 DEF Undisturbed
    <2> QED BY <1>8, <1>3, <2>1 DEF DeleteThread, ForkReserve
<1>9. ASSUME NEW t \in Tasks, NEW k \in Attempts, Cancel(t, k) \/ StopSession(t, k) PROVE Undisturbed'
    BY <1>9 DEF Cancel, StopSession, Undisturbed
<1>10. ASSUME Restoring PROVE Undisturbed'
    BY <1>10, <1>1, <1>6 DEF Restoring, RestoreList, RestoreAborts, RestoreRow, Fault
<1> QED
    BY <1>1, <1>4, <1>5, <1>7, <1>8, <1>9, <1>10 DEF Next, vars

(* Without cancellations, forks and deletions under a running task, a task   *)
(* shown as pending or running has an attempt at work: retries, failed       *)
(* writes, trims, removals and restarts never leave one behind.              *)
THEOREM ActiveTasksHaveAttempts ==
    ASSUME MaxCancels = 0, Requests \subseteq {"remove"}
    PROVE  Spec => []ActiveTaskHasAttempt
<1>1. Init => Undisturbed
    BY UndisturbedInit
<1>2. IInv /\ Undisturbed /\ [Next]_vars => Undisturbed'
    BY UndisturbedNext
<1>3. IInv /\ Undisturbed => ActiveTaskHasAttempt
    BY DEF Undisturbed, ActiveTaskHasAttempt, HasAttempt, IInv, TypeOK, MemoryTyped
<1> QED
    BY <1>1, <1>2, <1>3, Invariance, PTL DEF Spec
=============================================================================
