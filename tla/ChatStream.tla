----------------------------- MODULE ChatStream -----------------------------
(***************************************************************************)
(* The chat streams of one conversation thread (agent/modules/               *)
(* agent_runtime/chat_stream_manager.py): sessions that run the agent in a   *)
(* task of their own and outlive the client, the manager that replaces the   *)
(* running session by a new one, and the readers that replay its events.     *)
(*                                                                           *)
(* One action is one stretch of code between two awaits.  The sections       *)
(* under session.lock await nothing and are steps; manager._lock is held     *)
(* across a sleep and is a variable.  As in BackgroundTasks, hit is a        *)
(* cancellation that is delivered when the task next resumes.                *)
(***************************************************************************)
EXTENDS Integers, FiniteSets

CONSTANTS
    NumSessions, \* sessions of a behaviour, numbered in the order they start
    Requests,    \* messages sent: get_or_create_session calls
    Readers,     \* subscribers
    MaxEvents,   \* bound: events a run pushes before it fails or ends
    MaxStops,    \* bound: stops requested from the dashboard
    Nobody       \* the manager's lock is free

ASSUME ChatAssumption ==
    /\ NumSessions \in Nat \ {0} /\ MaxEvents \in Nat /\ MaxStops \in Nat
    /\ Nobody \notin Requests

Sessions == 1..NumSessions
None     == 0

VARIABLES
    lock,       \* who holds manager._lock
    current,    \* manager._sessions[thread_id], None if absent
    newest,     \* the session created last
    request,    \* request[r]: "unsent", "sleeping" (0.05 s), "answered"
    pc,         \* pc[s]: where the task of s waits
    hit,        \* hit[s]: its task is cancelled, not delivered yet
    done,       \* done[s]
    superseded, \* superseded[s]: _superseded
    closed,     \* closed[s]: _closed
    logClosed,  \* logClosed[s]: the file of the replay log is closed
    log,        \* log[s]: events in the replay log
    about,      \* about[s]: the run whose checkpoint s found to report an error on
    written,    \* the run that saved the thread's latest checkpoint
    errors,     \* saved errors: the run that failed, and the run of the checkpoint
    reader,     \* reader[q]: "new", "bound", "reading", "ended", "gone"
    of,         \* of[q]: the session it reads
    position,   \* position[q]: events it has received
    stops       \* what is left of the bound

manager == <<lock, current, newest, request>>
files   == <<closed, logClosed>>
reading == <<reader, of, position>>
saved   == <<about, written, errors>>
vars    == <<lock, current, newest, request, pc, hit, done, superseded, closed, logClosed,
             log, about, written, errors, reader, of, position, stops>>

(* Where a task waits.  "locating" and "recording": it saves an error and   *)
(* is about to end; "locatingEvent" and "recordingEvent": the run has       *)
(* yielded an error event and goes on.  "leaked": cancelled in its finally  *)
(* block; "dead": cancelled before its first step.                          *)
Saving   == {"locating", "recording", "locatingEvent", "recordingEvent"}
Producing == {"created", "running"} \cup Saving
Places   == Producing \cup {"none", "grace", "removing", "ended", "leaked", "dead"}

Subscribers(s) == {q \in Readers : reader[q] = "reading" /\ of[q] = s}
Resumes(s, at) == pc[s] = at /\ ~hit[s]
Goto(s, at)    == pc' = [pc EXCEPT ![s] = at]

(* Mutant: close() closes the file under its readers. *)
CloseNow(s) ==
    /\ closed' = [closed EXCEPT ![s] = TRUE]
    /\ logClosed' = [logClosed EXCEPT ![s] = TRUE]

(* close(): the last subscriber closes the file, or close() itself. *)
Close(s) ==
    /\ closed' = [closed EXCEPT ![s] = TRUE]
    /\ logClosed' = [logClosed EXCEPT ![s] = @ \/ Subscribers(s) = {}]

-----------------------------------------------------------------------------
(* get_or_create_session *)

Running(s) == s # None /\ ~done[s]

Create(r) ==
    /\ newest < NumSessions
    /\ newest' = newest + 1 /\ current' = newest + 1
    /\ Goto(newest + 1, "created")
    /\ lock' = Nobody
    /\ request' = [request EXCEPT ![r] = "answered"]

(* Mutant: the lock is not held while the old run gets time to stop. *)
SupersedeUnlocked(r) ==
    /\ request[r] = "unsent" /\ lock = Nobody /\ Running(current) /\ newest < NumSessions
    /\ superseded' = [superseded EXCEPT ![current] = TRUE]
    /\ hit' = [hit EXCEPT ![current] = TRUE]
    /\ request' = [request EXCEPT ![r] = "sleeping"]
    /\ UNCHANGED <<lock, current, newest, pc, done, files, log, saved, reading, stops>>

(* A run that is not done is cancelled, and gets 0.05 s to stop. *)
Supersede(r) ==
    /\ request[r] = "unsent" /\ lock = Nobody /\ Running(current) /\ newest < NumSessions
    /\ superseded' = [superseded EXCEPT ![current] = TRUE]
    /\ hit' = [hit EXCEPT ![current] = pc[current] # "dead"]
    /\ lock' = r
    /\ request' = [request EXCEPT ![r] = "sleeping"]
    /\ UNCHANGED <<current, newest, pc, done, files, log, saved, reading, stops>>

Send(r) ==
    /\ request[r] = "unsent" /\ lock = Nobody /\ ~Running(current)
    /\ Create(r)
    /\ UNCHANGED <<hit, done, superseded, files, log, saved, reading, stops>>

Replace(r) ==
    /\ request[r] = "sleeping"
    /\ Create(r)
    /\ UNCHANGED <<hit, done, superseded, files, log, saved, reading, stops>>

(* A stop from the dashboard, of whatever the manager has for the thread. *)
Stop ==
    /\ stops > 0 /\ stops' = stops - 1
    /\ lock = Nobody /\ current # None
    /\ pc[current] \notin {"ended", "leaked", "dead"} /\ ~hit[current]
    /\ hit' = [hit EXCEPT ![current] = TRUE]
    /\ UNCHANGED <<manager, pc, done, superseded, files, log, saved, reading>>

-----------------------------------------------------------------------------
(* _run_agent_background *)

Start(s) ==
    /\ Resumes(s, "created")
    /\ Goto(s, "running")
    /\ UNCHANGED <<manager, hit, done, superseded, files, log, saved, reading, stops>>

(* Cancelled before its first step: no line of the coroutine is executed. *)
NeverStart(s) ==
    /\ pc[s] = "created" /\ hit[s]
    /\ Goto(s, "dead")
    /\ hit' = [hit EXCEPT ![s] = FALSE]
    /\ UNCHANGED <<manager, done, superseded, files, log, saved, reading, stops>>

Push(s) == log' = [log EXCEPT ![s] = @ + 1]

(* The run saves checkpoints and yields events. *)
Produce(s) ==
    /\ Resumes(s, "running") /\ log[s] < MaxEvents
    /\ Push(s)
    /\ written' = s
    /\ UNCHANGED <<manager, pc, hit, done, superseded, files, about, errors, reading, stops>>

Finally(s) == done' = [done EXCEPT ![s] = TRUE] /\ Goto(s, "grace")

Finish(s) ==
    /\ Resumes(s, "running")
    /\ Finally(s)
    /\ UNCHANGED <<manager, hit, superseded, files, log, saved, reading, stops>>

(* Mutant: a superseded run reports its error as well. *)
ReportAlways(s, at) ==
    /\ Goto(s, at)
    /\ UNCHANGED <<log, done>>

(* _push_error_event: a superseded run does not save its error; another one *)
(* looks its checkpoint up first.                                           *)
Report(s, at) ==
    IF superseded[s]
    THEN /\ Push(s)
         /\ IF at = "locating" THEN Finally(s) ELSE (Goto(s, "running") /\ UNCHANGED done)
    ELSE Goto(s, at) /\ UNCHANGED <<log, done>>

ErrorEvent(s) ==
    /\ Resumes(s, "running") /\ log[s] < MaxEvents
    /\ Report(s, "locatingEvent")
    /\ UNCHANGED <<manager, hit, superseded, files, saved, reading, stops>>

Raise(s) ==
    /\ Resumes(s, "running")
    /\ Report(s, "locating")
    /\ UNCHANGED <<manager, hit, superseded, files, saved, reading, stops>>

Save(s) == errors' = errors \cup {[by |-> s, about |-> about[s]]}

(* A write that is cancelled may have committed. *)
Committed(s) ==
    \/ UNCHANGED errors
    \/ pc[s] \in {"recording", "recordingEvent"} /\ Save(s)

(* CancelledError in the run, or while it saves an error event. *)
Interrupt(s) ==
    /\ hit[s] /\ pc[s] \in {"running", "locatingEvent", "recordingEvent"}
    /\ hit' = [hit EXCEPT ![s] = FALSE]
    /\ Committed(s)
    /\ Report(s, "locating")
    /\ UNCHANGED <<manager, superseded, files, about, written, reading, stops>>

(* record_thread_run_error: read the latest checkpoint, then save the error. *)
Locate(s) ==
    /\ \/ Resumes(s, "locating") /\ Goto(s, "recording")
       \/ Resumes(s, "locatingEvent") /\ Goto(s, "recordingEvent")
    /\ about' = [about EXCEPT ![s] = written]
    /\ UNCHANGED <<manager, hit, done, superseded, files, log, written, errors, reading, stops>>

(* The error is saved, or that fails; then it is pushed. *)
Record(s) ==
    /\ Resumes(s, "recording")
    /\ Save(s) \/ UNCHANGED errors
    /\ Push(s)
    /\ Finally(s)
    /\ UNCHANGED <<manager, hit, superseded, files, about, written, reading, stops>>

RecordEvent(s) ==
    /\ Resumes(s, "recordingEvent")
    /\ Save(s) \/ UNCHANGED errors
    /\ Push(s)
    /\ Goto(s, "running")
    /\ UNCHANGED <<manager, hit, done, superseded, files, about, written, reading, stops>>

(* Mutant: done is set by the handlers, not in a finally block. *)
InterruptSaveUndone(s) ==
    /\ hit[s] /\ pc[s] \in {"locating", "recording"}
    /\ hit' = [hit EXCEPT ![s] = FALSE]
    /\ Committed(s)
    /\ Goto(s, "leaked")
    /\ UNCHANGED <<manager, done, superseded, files, log, about, written, reading, stops>>

(* Cancelled while the last error is saved: the event is not pushed. *)
InterruptSave(s) ==
    /\ hit[s] /\ pc[s] \in {"locating", "recording"}
    /\ hit' = [hit EXCEPT ![s] = FALSE]
    /\ Committed(s)
    /\ Finally(s)
    /\ UNCHANGED <<manager, superseded, files, log, about, written, reading, stops>>

(* The grace period: readers reconnect for up to 30 s. *)
GraceOver(s) ==
    /\ Resumes(s, "grace")
    /\ Goto(s, "removing")
    /\ UNCHANGED <<manager, hit, done, superseded, files, log, saved, reading, stops>>

(* Mutant: removes whatever session the thread has now. *)
RemoveAny(s) ==
    /\ Resumes(s, "removing") /\ lock = Nobody
    /\ current' = None
    /\ Close(s)
    /\ Goto(s, "ended")
    /\ UNCHANGED <<lock, newest, request, hit, done, superseded, log, saved, reading, stops>>

(* remove_session: a session that has been replaced only closes its log. *)
Remove(s) ==
    /\ Resumes(s, "removing") /\ lock = Nobody
    /\ current' = IF current = s THEN None ELSE current
    /\ Close(s)
    /\ Goto(s, "ended")
    /\ UNCHANGED <<lock, newest, request, hit, done, superseded, log, saved, reading, stops>>

(* Cancelled in the grace period: the rest of the finally block is skipped. *)
Leak(s) ==
    /\ hit[s] /\ pc[s] \in {"grace", "removing"}
    /\ hit' = [hit EXCEPT ![s] = FALSE]
    /\ Goto(s, "leaked")
    /\ UNCHANGED <<manager, done, superseded, files, log, saved, reading, stops>>

-----------------------------------------------------------------------------
(* subscribe() *)

(* Mutant: the absence of a session is not checked. *)
BindUnchecked(q) ==
    /\ reader[q] = "new" /\ lock = Nobody
    /\ reader' = [reader EXCEPT ![q] = "bound"]
    /\ of' = [of EXCEPT ![q] = current]
    /\ UNCHANGED <<manager, pc, hit, done, superseded, files, log, saved, position, stops>>

(* A client that sent the message, or one that reconnects, gets the session. *)
Bind(q) ==
    /\ reader[q] = "new" /\ lock = Nobody /\ current # None
    /\ reader' = [reader EXCEPT ![q] = "bound"]
    /\ of' = [of EXCEPT ![q] = current]
    /\ UNCHANGED <<manager, pc, hit, done, superseded, files, log, saved, position, stops>>

(* A session closed in the meantime has nothing to replay. *)
Subscribe(q) ==
    /\ reader[q] = "bound"
    /\ reader' = [reader EXCEPT ![q] = IF closed[of[q]] THEN "gone" ELSE "reading"]
    /\ UNCHANGED <<manager, pc, hit, done, superseded, files, log, saved, of, position, stops>>

Read(q) ==
    /\ reader[q] = "reading" /\ position[q] < log[of[q]]
    /\ position' = [position EXCEPT ![q] = @ + 1]
    /\ UNCHANGED <<manager, pc, hit, done, superseded, files, log, saved, reader, of, stops>>

(* Leaving, the last reader of a closed session closes the file. *)
Unsubscribe(q, how) ==
    LET s == of[q] IN
    /\ reader' = [reader EXCEPT ![q] = how]
    /\ logClosed' = [logClosed EXCEPT ![s] = @ \/ (closed[s] /\ Subscribers(s) = {q})]
    /\ UNCHANGED <<manager, pc, hit, done, superseded, closed, log, saved, of, position, stops>>

(* Mutant: the stream is over as soon as the run is done. *)
EndEarly(q) ==
    /\ reader[q] = "reading" /\ done[of[q]]
    /\ Unsubscribe(q, "ended")

(* The whole log is read and the run is done. *)
End(q) ==
    /\ reader[q] = "reading" /\ position[q] = log[of[q]] /\ done[of[q]]
    /\ Unsubscribe(q, "ended")

Disconnect(q) ==
    /\ reader[q] = "reading"
    /\ Unsubscribe(q, "gone")

-----------------------------------------------------------------------------
Init ==
    /\ lock = Nobody /\ current = None /\ newest = 0
    /\ request = [r \in Requests |-> "unsent"]
    /\ pc = [s \in Sessions |-> "none"] /\ hit = [s \in Sessions |-> FALSE]
    /\ done = [s \in Sessions |-> FALSE] /\ superseded = [s \in Sessions |-> FALSE]
    /\ closed = [s \in Sessions |-> FALSE] /\ logClosed = [s \in Sessions |-> FALSE]
    /\ log = [s \in Sessions |-> 0]
    /\ about = [s \in Sessions |-> 0] /\ written = 0 /\ errors = {}
    /\ reader = [q \in Readers |-> "new"] /\ of = [q \in Readers |-> 1]
    /\ position = [q \in Readers |-> 0]
    /\ stops = MaxStops

(* What ends a run that is under way, and what follows its end. *)
Advance(s) == \/ Finish(s) \/ Raise(s) \/ Interrupt(s) \/ Locate(s) \/ Record(s)
             \/ RecordEvent(s) \/ InterruptSave(s)
Settle(s)  == Start(s) \/ NeverStart(s) \/ GraceOver(s) \/ Remove(s) \/ Leak(s)
Follow(q)  == Subscribe(q) \/ Read(q) \/ End(q)

Next == \/ \E r \in Requests : Supersede(r) \/ Send(r) \/ Replace(r)
        \/ Stop
        \/ \E s \in Sessions : Produce(s) \/ ErrorEvent(s) \/ Advance(s) \/ Settle(s)
        \/ \E q \in Readers : Bind(q) \/ Follow(q) \/ Disconnect(q)

Spec == Init /\ [][Next]_vars

(* A run ends (its events are bounded), a sleep ends, a waiting task gets   *)
(* the lock, and a reader polls every 0.5 s.                                *)
FairSpec == /\ Spec
            /\ \A s \in Sessions : WF_vars(Advance(s)) /\ WF_vars(Settle(s))
            /\ \A r \in Requests : WF_vars(Replace(r))
            /\ \A q \in Readers : WF_vars(Follow(q))

-----------------------------------------------------------------------------
(* Properties *)

TypeOK ==
    /\ lock \in Requests \cup {Nobody} /\ current \in {None} \cup Sessions
    /\ newest \in 0..NumSessions
    /\ request \in [Requests -> {"unsent", "sleeping", "answered"}]
    /\ pc \in [Sessions -> Places] /\ hit \in [Sessions -> BOOLEAN]
    /\ done \in [Sessions -> BOOLEAN] /\ superseded \in [Sessions -> BOOLEAN]
    /\ closed \in [Sessions -> BOOLEAN] /\ logClosed \in [Sessions -> BOOLEAN]
    /\ log \in [Sessions -> Nat] /\ about \in [Sessions -> 0..NumSessions]
    /\ written \in 0..NumSessions
    /\ errors \in SUBSET [by : Sessions, about : 0..NumSessions]
    /\ reader \in [Readers -> {"new", "bound", "reading", "ended", "gone"}]
    /\ of \in [Readers -> Sessions] /\ position \in [Readers -> Nat] /\ stops \in Nat

(* "Superseded streams must not overwrite the new run's error": the error   *)
(* of a run is never saved on a checkpoint of a later run, however long the *)
(* old run takes to stop and wherever the cancellation lands.               *)
ErrorsStayWithTheirRun == \A e \in errors : e.about <= e.by

(* A reader whose stream came to its end has received every event, the      *)
(* error that ended the run included.                                       *)
ReadersSeeEverything ==
    \A q \in Readers : reader[q] = "ended" => position[q] = log[of[q]]

(* The replay log is open as long as a run may write it or somebody reads   *)
(* it.                                                                      *)
LogOutlivesReaders ==
    \A s \in Sessions : logClosed[s] => Subscribers(s) = {} /\ pc[s] \notin Producing

(* Of the runs of the thread that can still go on, all but the one the      *)
(* manager knows are superseded: two messages at once do not leave two runs *)
(* streaming, and a run that ends does not hide its successor.              *)
OneStreamPerThread ==
    \A s \in Sessions : pc[s] \in Producing /\ s # current => superseded[s]

(* A client of a run that has started is not left waiting. *)
StreamsEnd ==
    \A q \in Readers : reader[q] = "reading" /\ pc[of[q]] \notin {"created", "dead"}
                           ~> reader[q] \in {"ended", "gone"}

-----------------------------------------------------------------------------
(* Why the safety properties hold.  A superseded run has its cancellation    *)
(* still to come as long as it can do anything, so only the current run,     *)
(* which is the newest, looks up a checkpoint or saves an error; and while a *)
(* message waits for the old run it keeps the lock, so nobody else replaces. *)
SessionsInv ==
    /\ current \in {None, newest} /\ written <= newest
    /\ \A s \in Sessions :
          /\ s > newest => pc[s] = "none" /\ ~superseded[s]
          /\ about[s] <= s
          /\ superseded[s] /\ pc[s] \in Producing => hit[s]
          /\ done[s] => pc[s] \notin Producing \cup {"none"}
          /\ closed[s] => pc[s] = "ended"
          /\ logClosed[s] => closed[s]
LockInv ==
    /\ \A r \in Requests : request[r] = "sleeping" => lock = r
    /\ lock # Nobody /\ current # None => superseded[current]
ReadersInv == \A q \in Readers : reader[q] = "ended" => done[of[q]]

IInv == /\ TypeOK /\ SessionsInv /\ LockInv /\ ReadersInv
        /\ ErrorsStayWithTheirRun /\ OneStreamPerThread
        /\ ReadersSeeEverything /\ LogOutlivesReaders
=============================================================================
