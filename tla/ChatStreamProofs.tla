-------------------------- MODULE ChatStreamProofs --------------------------
(***************************************************************************)
(* Proofs about ChatStream, for any number of sessions, messages, readers,  *)
(* events and stops: IInv is inductive, so readers see everything, errors    *)
(* stay with their run, and one run of the thread is not superseded.         *)
(***************************************************************************)
EXTENDS ChatStream, TLAPS

USE ChatAssumption DEF Sessions, None, manager, files, reading, saved, Resumes, Goto

(* The operations that actions share keep the types. *)
LEMMA CreateTyped ==
    ASSUME TypeOK, NEW r \in Requests, Create(r)
    PROVE  /\ newest' \in 0..NumSessions /\ current' \in {None} \cup Sessions
           /\ pc' \in [Sessions -> Places] /\ lock' \in Requests \cup {Nobody}
           /\ request' \in [Requests -> {"unsent", "sleeping", "answered"}]
<1>1. newest + 1 \in Sessions /\ newest' = newest + 1 /\ current' = newest + 1
  BY DEF TypeOK, Create
<1> QED BY <1>1 DEF TypeOK, Create, Places, Producing

LEMMA PushTyped ==
    ASSUME TypeOK, NEW s \in Sessions, Push(s)
    PROVE  log' \in [Sessions -> Nat]
BY DEF TypeOK, Push

LEMMA SaveTyped ==
    ASSUME TypeOK, NEW s \in Sessions, Save(s)
    PROVE  errors' \in SUBSET [by : Sessions, about : 0..NumSessions]
<1>1. about[s] \in 0..NumSessions
  BY DEF TypeOK
<1> QED BY <1>1 DEF TypeOK, Save

(* A stop request cancels the task of the current session. *)
LEMMA StopFacts ==
    ASSUME Stop
    PROVE  /\ hit' = [hit EXCEPT ![current] = TRUE]
           /\ stops > 0 /\ stops' = stops - 1
           /\ UNCHANGED <<manager, pc, done, superseded, files, log, saved, reading>>
BY DEF Stop

(* Every step keeps the type. *)
LEMMA Typing == TypeOK /\ [Next]_vars => TypeOK'
<1> SUFFICES ASSUME TypeOK, [Next]_vars PROVE TypeOK'
  OBVIOUS
<1> USE DEF TypeOK, Places, Producing, Saving
<1>1. ASSUME NEW r \in Requests, Supersede(r) PROVE TypeOK'
  BY <1>1 DEF Supersede, Running
<1>2. ASSUME NEW r \in Requests, Send(r) PROVE TypeOK'
  BY <1>2, CreateTyped DEF Send
<1>3. ASSUME NEW r \in Requests, Replace(r) PROVE TypeOK'
  BY <1>3, CreateTyped DEF Replace
<1>4. CASE Stop
  <2>1. hit' \in [Sessions -> BOOLEAN]
    BY <1>4, StopFacts
  <2>2. stops' \in Nat
    BY <1>4, StopFacts
  <2> QED BY <1>4, <2>1, <2>2, StopFacts
<1>5. ASSUME NEW s \in Sessions, Produce(s) PROVE TypeOK'
  <2>1. s \in 0..NumSessions /\ written' = s
    BY <1>5 DEF Produce
  <2> QED BY <1>5, <2>1, PushTyped DEF Produce
<1>6. ASSUME NEW s \in Sessions, ErrorEvent(s) PROVE TypeOK'
  BY <1>6, PushTyped, SaveTyped DEF ErrorEvent, Report, Finally
<1>7. ASSUME NEW s \in Sessions, Finish(s) PROVE TypeOK'
  BY <1>7 DEF Finish, Finally
<1>8. ASSUME NEW s \in Sessions, Raise(s) PROVE TypeOK'
  BY <1>8, PushTyped, SaveTyped DEF Raise, Report, Finally
<1>9. ASSUME NEW s \in Sessions, Interrupt(s) PROVE TypeOK'
  BY <1>9, PushTyped, SaveTyped DEF Interrupt, Report, Committed, Finally
<1>10. ASSUME NEW s \in Sessions, Locate(s) PROVE TypeOK'
  BY <1>10 DEF Locate
<1>11. ASSUME NEW s \in Sessions, Record(s) PROVE TypeOK'
  BY <1>11, PushTyped, SaveTyped DEF Record, Finally
<1>12. ASSUME NEW s \in Sessions, RecordEvent(s) PROVE TypeOK'
  BY <1>12, PushTyped, SaveTyped DEF RecordEvent
<1>13. ASSUME NEW s \in Sessions, InterruptSave(s) PROVE TypeOK'
  BY <1>13, PushTyped, SaveTyped DEF InterruptSave, Committed, Finally
<1>14. ASSUME NEW s \in Sessions, Start(s) PROVE TypeOK'
  BY <1>14 DEF Start
<1>15. ASSUME NEW s \in Sessions, NeverStart(s) PROVE TypeOK'
  BY <1>15 DEF NeverStart
<1>16. ASSUME NEW s \in Sessions, GraceOver(s) PROVE TypeOK'
  BY <1>16 DEF GraceOver
<1>17. ASSUME NEW s \in Sessions, Remove(s) PROVE TypeOK'
  BY <1>17 DEF Remove, Close
<1>18. ASSUME NEW s \in Sessions, Leak(s) PROVE TypeOK'
  BY <1>18 DEF Leak
<1>19. ASSUME NEW q \in Readers, Bind(q) PROVE TypeOK'
  BY <1>19 DEF Bind
<1>20. ASSUME NEW q \in Readers, Subscribe(q) PROVE TypeOK'
  BY <1>20 DEF Subscribe
<1>21. ASSUME NEW q \in Readers, Read(q) PROVE TypeOK'
  <2>1. position[q] \in Nat /\ position' = [position EXCEPT ![q] = @ + 1]
    BY <1>21 DEF Read
  <2>2. position' \in [Readers -> Nat]
    BY <2>1
  <2> QED BY <1>21, <2>2 DEF Read
<1>22. ASSUME NEW q \in Readers, End(q) PROVE TypeOK'
  BY <1>22 DEF End, Unsubscribe
<1>23. ASSUME NEW q \in Readers, Disconnect(q) PROVE TypeOK'
  BY <1>23 DEF Disconnect, Unsubscribe
<1>24. CASE UNCHANGED vars
  BY <1>24 DEF vars
<1> QED BY <1>1, <1>2, <1>3, <1>4, <1>5, <1>6, <1>7, <1>8, <1>9, <1>10, <1>11, <1>12, <1>13, <1>14,
            <1>15, <1>16, <1>17, <1>18, <1>19, <1>20, <1>21, <1>22, <1>23, <1>24
            DEF Next, Advance, Settle, Follow

(* What is known of the sessions, and of their order. *)
LEMMA SessionsStep ==
    ASSUME TypeOK, SessionsInv, LockInv, OneStreamPerThread, [Next]_vars
    PROVE  SessionsInv'
<1> USE DEF TypeOK, SessionsInv, LockInv, OneStreamPerThread, Producing, Saving
<1>1. ASSUME NEW r \in Requests, Supersede(r) PROVE SessionsInv'
  <2>1. current \in Sessions
    BY <1>1 DEF Supersede, Running
  <2>2. /\ superseded' = [superseded EXCEPT ![current] = TRUE]
        /\ hit' = [hit EXCEPT ![current] = pc[current] # "dead"]
        /\ UNCHANGED <<current, newest, pc, written, about, done, closed, logClosed>>
    BY <1>1 DEF Supersede
  <2>3. ASSUME NEW s \in Sessions, superseded'[s], pc'[s] \in Producing PROVE hit'[s]
    BY <2>1, <2>2, <2>3
  <2>4. current <= newest
    BY <2>1
  <2>5. ASSUME NEW s \in Sessions, s > newest PROVE ~superseded'[s]
    BY <2>1, <2>2, <2>4, <2>5
  <2> QED BY <2>2, <2>3, <2>5
<1>2. ASSUME NEW r \in Requests, Send(r) PROVE SessionsInv'
  BY <1>2 DEF Send, Create, Running
<1>3. ASSUME NEW r \in Requests, Replace(r) PROVE SessionsInv'
  BY <1>3 DEF Replace, Create
<1>4. CASE Stop
  BY <1>4 DEF Stop
<1>5. ASSUME NEW s \in Sessions, Produce(s) PROVE SessionsInv'
  BY <1>5 DEF Produce, Push
<1>6. ASSUME NEW s \in Sessions, ErrorEvent(s) PROVE SessionsInv'
  BY <1>6 DEF ErrorEvent, Report, Finally, Push
<1>7. ASSUME NEW s \in Sessions, Finish(s) PROVE SessionsInv'
  BY <1>7 DEF Finish, Finally
<1>8. ASSUME NEW s \in Sessions, Raise(s) PROVE SessionsInv'
  BY <1>8 DEF Raise, Report, Finally, Push
<1>9. ASSUME NEW s \in Sessions, Interrupt(s) PROVE SessionsInv'
  <2>1. /\ hit[s] /\ pc[s] \in {"running", "locatingEvent", "recordingEvent"}
        /\ UNCHANGED <<current, newest, superseded, closed, logClosed, about, written>>
    BY <1>9 DEF Interrupt, manager, files
  <2>2. hit' = [hit EXCEPT ![s] = FALSE]
    BY <1>9 DEF Interrupt
  <2>3. \/ superseded[s] /\ done' = [done EXCEPT ![s] = TRUE] /\ Goto(s, "grace")
        \/ ~superseded[s] /\ UNCHANGED done /\ Goto(s, "locating")
    BY <1>9 DEF Interrupt, Report, Finally
  <2> QED BY <2>1, <2>2, <2>3
<1>10. ASSUME NEW s \in Sessions, Locate(s) PROVE SessionsInv'
  BY <1>10 DEF Locate
<1>11. ASSUME NEW s \in Sessions, Record(s) PROVE SessionsInv'
  BY <1>11 DEF Record, Save, Push, Finally
<1>12. ASSUME NEW s \in Sessions, RecordEvent(s) PROVE SessionsInv'
  BY <1>12 DEF RecordEvent, Save, Push
<1>13. ASSUME NEW s \in Sessions, InterruptSave(s) PROVE SessionsInv'
  BY <1>13 DEF InterruptSave, Committed, Save, Finally
<1>14. ASSUME NEW s \in Sessions, Start(s) PROVE SessionsInv'
  BY <1>14 DEF Start
<1>15. ASSUME NEW s \in Sessions, NeverStart(s) PROVE SessionsInv'
  BY <1>15 DEF NeverStart
<1>16. ASSUME NEW s \in Sessions, GraceOver(s) PROVE SessionsInv'
  BY <1>16 DEF GraceOver
<1>17. ASSUME NEW s \in Sessions, Remove(s) PROVE SessionsInv'
  BY <1>17 DEF Remove, Close
<1>18. ASSUME NEW s \in Sessions, Leak(s) PROVE SessionsInv'
  BY <1>18 DEF Leak
<1>19. ASSUME NEW q \in Readers, Bind(q) PROVE SessionsInv'
  BY <1>19 DEF Bind
<1>20. ASSUME NEW q \in Readers, Subscribe(q) PROVE SessionsInv'
  BY <1>20 DEF Subscribe
<1>21. ASSUME NEW q \in Readers, Read(q) PROVE SessionsInv'
  BY <1>21 DEF Read
<1>22. ASSUME NEW q \in Readers, End(q) PROVE SessionsInv'
  BY <1>22 DEF End, Unsubscribe
<1>23. ASSUME NEW q \in Readers, Disconnect(q) PROVE SessionsInv'
  BY <1>23 DEF Disconnect, Unsubscribe
<1>24. CASE UNCHANGED vars
  BY <1>24 DEF vars
<1> QED BY <1>1, <1>2, <1>3, <1>4, <1>5, <1>6, <1>7, <1>8, <1>9, <1>10, <1>11, <1>12, <1>13, <1>14,
            <1>15, <1>16, <1>17, <1>18, <1>19, <1>20, <1>21, <1>22, <1>23, <1>24
            DEF Next, Advance, Settle, Follow

(* The lock is kept while a message waits for a superseded run. *)
LEMMA LockStep ==
    ASSUME TypeOK, SessionsInv, LockInv, [Next]_vars
    PROVE  LockInv'
<1> USE DEF TypeOK, SessionsInv, LockInv
<1>1. ASSUME NEW r \in Requests, Supersede(r) PROVE LockInv'
  BY <1>1 DEF Supersede, Running
<1>2. ASSUME NEW r \in Requests, Send(r) PROVE LockInv'
  BY <1>2 DEF Send, Create, Running
<1>3. ASSUME NEW r \in Requests, Replace(r) PROVE LockInv'
  BY <1>3 DEF Replace, Create
<1>4. CASE Stop
  BY <1>4 DEF Stop
<1>5. ASSUME NEW s \in Sessions, Produce(s) PROVE LockInv'
  BY <1>5 DEF Produce, Push
<1>6. ASSUME NEW s \in Sessions, ErrorEvent(s) PROVE LockInv'
  BY <1>6 DEF ErrorEvent, Report, Finally, Push
<1>7. ASSUME NEW s \in Sessions, Finish(s) PROVE LockInv'
  BY <1>7 DEF Finish, Finally
<1>8. ASSUME NEW s \in Sessions, Raise(s) PROVE LockInv'
  BY <1>8 DEF Raise, Report, Finally, Push
<1>9. ASSUME NEW s \in Sessions, Interrupt(s) PROVE LockInv'
  BY <1>9 DEF Interrupt, Report, Committed, Save, Finally, Push
<1>10. ASSUME NEW s \in Sessions, Locate(s) PROVE LockInv'
  BY <1>10 DEF Locate
<1>11. ASSUME NEW s \in Sessions, Record(s) PROVE LockInv'
  BY <1>11 DEF Record, Save, Push, Finally
<1>12. ASSUME NEW s \in Sessions, RecordEvent(s) PROVE LockInv'
  BY <1>12 DEF RecordEvent, Save, Push
<1>13. ASSUME NEW s \in Sessions, InterruptSave(s) PROVE LockInv'
  BY <1>13 DEF InterruptSave, Committed, Save, Finally
<1>14. ASSUME NEW s \in Sessions, Start(s) PROVE LockInv'
  BY <1>14 DEF Start
<1>15. ASSUME NEW s \in Sessions, NeverStart(s) PROVE LockInv'
  BY <1>15 DEF NeverStart
<1>16. ASSUME NEW s \in Sessions, GraceOver(s) PROVE LockInv'
  BY <1>16 DEF GraceOver
<1>17. ASSUME NEW s \in Sessions, Remove(s) PROVE LockInv'
  BY <1>17 DEF Remove, Close
<1>18. ASSUME NEW s \in Sessions, Leak(s) PROVE LockInv'
  BY <1>18 DEF Leak
<1>19. ASSUME NEW q \in Readers, Bind(q) PROVE LockInv'
  BY <1>19 DEF Bind
<1>20. ASSUME NEW q \in Readers, Subscribe(q) PROVE LockInv'
  BY <1>20 DEF Subscribe
<1>21. ASSUME NEW q \in Readers, Read(q) PROVE LockInv'
  BY <1>21 DEF Read
<1>22. ASSUME NEW q \in Readers, End(q) PROVE LockInv'
  BY <1>22 DEF End, Unsubscribe
<1>23. ASSUME NEW q \in Readers, Disconnect(q) PROVE LockInv'
  BY <1>23 DEF Disconnect, Unsubscribe
<1>24. CASE UNCHANGED vars
  BY <1>24 DEF vars
<1> QED BY <1>1, <1>2, <1>3, <1>4, <1>5, <1>6, <1>7, <1>8, <1>9, <1>10, <1>11, <1>12, <1>13, <1>14,
            <1>15, <1>16, <1>17, <1>18, <1>19, <1>20, <1>21, <1>22, <1>23, <1>24
            DEF Next, Advance, Settle, Follow

(* A run that is done stays done. *)
LEMMA ReadersStep ==
    ASSUME TypeOK, ReadersInv, [Next]_vars
    PROVE  ReadersInv'
<1> USE DEF TypeOK, ReadersInv
<1>1. ASSUME NEW r \in Requests, Supersede(r) PROVE ReadersInv'
  BY <1>1 DEF Supersede, Running
<1>2. ASSUME NEW r \in Requests, Send(r) PROVE ReadersInv'
  BY <1>2 DEF Send, Create, Running
<1>3. ASSUME NEW r \in Requests, Replace(r) PROVE ReadersInv'
  BY <1>3 DEF Replace, Create
<1>4. CASE Stop
  BY <1>4 DEF Stop
<1>5. ASSUME NEW s \in Sessions, Produce(s) PROVE ReadersInv'
  BY <1>5 DEF Produce, Push
<1>6. ASSUME NEW s \in Sessions, ErrorEvent(s) PROVE ReadersInv'
  BY <1>6 DEF ErrorEvent, Report, Finally, Push
<1>7. ASSUME NEW s \in Sessions, Finish(s) PROVE ReadersInv'
  BY <1>7 DEF Finish, Finally
<1>8. ASSUME NEW s \in Sessions, Raise(s) PROVE ReadersInv'
  <2>1. UNCHANGED <<reader, of>> /\ (UNCHANGED done \/ done' = [done EXCEPT ![s] = TRUE])
    BY <1>8 DEF Raise, Report, Finally, reading
  <2> QED BY <2>1
<1>9. ASSUME NEW s \in Sessions, Interrupt(s) PROVE ReadersInv'
  <2>1. UNCHANGED <<reader, of>> /\ (UNCHANGED done \/ done' = [done EXCEPT ![s] = TRUE])
    BY <1>9 DEF Interrupt, Report, Finally, reading
  <2> QED BY <2>1
<1>10. ASSUME NEW s \in Sessions, Locate(s) PROVE ReadersInv'
  BY <1>10 DEF Locate
<1>11. ASSUME NEW s \in Sessions, Record(s) PROVE ReadersInv'
  BY <1>11 DEF Record, Save, Push, Finally
<1>12. ASSUME NEW s \in Sessions, RecordEvent(s) PROVE ReadersInv'
  BY <1>12 DEF RecordEvent, Save, Push
<1>13. ASSUME NEW s \in Sessions, InterruptSave(s) PROVE ReadersInv'
  BY <1>13 DEF InterruptSave, Committed, Save, Finally
<1>14. ASSUME NEW s \in Sessions, Start(s) PROVE ReadersInv'
  BY <1>14 DEF Start
<1>15. ASSUME NEW s \in Sessions, NeverStart(s) PROVE ReadersInv'
  BY <1>15 DEF NeverStart
<1>16. ASSUME NEW s \in Sessions, GraceOver(s) PROVE ReadersInv'
  BY <1>16 DEF GraceOver
<1>17. ASSUME NEW s \in Sessions, Remove(s) PROVE ReadersInv'
  BY <1>17 DEF Remove, Close
<1>18. ASSUME NEW s \in Sessions, Leak(s) PROVE ReadersInv'
  BY <1>18 DEF Leak
<1>19. ASSUME NEW q \in Readers, Bind(q) PROVE ReadersInv'
  BY <1>19 DEF Bind
<1>20. ASSUME NEW q \in Readers, Subscribe(q) PROVE ReadersInv'
  BY <1>20 DEF Subscribe
<1>21. ASSUME NEW q \in Readers, Read(q) PROVE ReadersInv'
  BY <1>21 DEF Read
<1>22. ASSUME NEW q \in Readers, End(q) PROVE ReadersInv'
  BY <1>22 DEF End, Unsubscribe
<1>23. ASSUME NEW q \in Readers, Disconnect(q) PROVE ReadersInv'
  BY <1>23 DEF Disconnect, Unsubscribe
<1>24. CASE UNCHANGED vars
  BY <1>24 DEF vars
<1> QED BY <1>1, <1>2, <1>3, <1>4, <1>5, <1>6, <1>7, <1>8, <1>9, <1>10, <1>11, <1>12, <1>13, <1>14,
            <1>15, <1>16, <1>17, <1>18, <1>19, <1>20, <1>21, <1>22, <1>23, <1>24
            DEF Next, Advance, Settle, Follow

(* The checkpoint an error is saved on was looked up by a run that was the newest. *)
LEMMA ErrorsStep ==
    ASSUME TypeOK, SessionsInv, ErrorsStayWithTheirRun, [Next]_vars
    PROVE  ErrorsStayWithTheirRun'
<1> USE DEF TypeOK, SessionsInv, ErrorsStayWithTheirRun
<1>1. ASSUME NEW r \in Requests, Supersede(r) PROVE ErrorsStayWithTheirRun'
  BY <1>1 DEF Supersede, Running
<1>2. ASSUME NEW r \in Requests, Send(r) PROVE ErrorsStayWithTheirRun'
  BY <1>2 DEF Send, Create, Running
<1>3. ASSUME NEW r \in Requests, Replace(r) PROVE ErrorsStayWithTheirRun'
  BY <1>3 DEF Replace, Create
<1>4. CASE Stop
  BY <1>4 DEF Stop
<1>5. ASSUME NEW s \in Sessions, Produce(s) PROVE ErrorsStayWithTheirRun'
  BY <1>5 DEF Produce, Push
<1>6. ASSUME NEW s \in Sessions, ErrorEvent(s) PROVE ErrorsStayWithTheirRun'
  BY <1>6 DEF ErrorEvent, Report, Finally, Push
<1>7. ASSUME NEW s \in Sessions, Finish(s) PROVE ErrorsStayWithTheirRun'
  BY <1>7 DEF Finish, Finally
<1>8. ASSUME NEW s \in Sessions, Raise(s) PROVE ErrorsStayWithTheirRun'
  BY <1>8 DEF Raise, Report, Finally, Push
<1>9. ASSUME NEW s \in Sessions, Interrupt(s) PROVE ErrorsStayWithTheirRun'
  BY <1>9 DEF Interrupt, Report, Committed, Save, Finally, Push
<1>10. ASSUME NEW s \in Sessions, Locate(s) PROVE ErrorsStayWithTheirRun'
  BY <1>10 DEF Locate
<1>11. ASSUME NEW s \in Sessions, Record(s) PROVE ErrorsStayWithTheirRun'
  BY <1>11 DEF Record, Save, Push, Finally
<1>12. ASSUME NEW s \in Sessions, RecordEvent(s) PROVE ErrorsStayWithTheirRun'
  BY <1>12 DEF RecordEvent, Save, Push
<1>13. ASSUME NEW s \in Sessions, InterruptSave(s) PROVE ErrorsStayWithTheirRun'
  BY <1>13 DEF InterruptSave, Committed, Save, Finally
<1>14. ASSUME NEW s \in Sessions, Start(s) PROVE ErrorsStayWithTheirRun'
  BY <1>14 DEF Start
<1>15. ASSUME NEW s \in Sessions, NeverStart(s) PROVE ErrorsStayWithTheirRun'
  BY <1>15 DEF NeverStart
<1>16. ASSUME NEW s \in Sessions, GraceOver(s) PROVE ErrorsStayWithTheirRun'
  BY <1>16 DEF GraceOver
<1>17. ASSUME NEW s \in Sessions, Remove(s) PROVE ErrorsStayWithTheirRun'
  BY <1>17 DEF Remove, Close
<1>18. ASSUME NEW s \in Sessions, Leak(s) PROVE ErrorsStayWithTheirRun'
  BY <1>18 DEF Leak
<1>19. ASSUME NEW q \in Readers, Bind(q) PROVE ErrorsStayWithTheirRun'
  BY <1>19 DEF Bind
<1>20. ASSUME NEW q \in Readers, Subscribe(q) PROVE ErrorsStayWithTheirRun'
  BY <1>20 DEF Subscribe
<1>21. ASSUME NEW q \in Readers, Read(q) PROVE ErrorsStayWithTheirRun'
  BY <1>21 DEF Read
<1>22. ASSUME NEW q \in Readers, End(q) PROVE ErrorsStayWithTheirRun'
  BY <1>22 DEF End, Unsubscribe
<1>23. ASSUME NEW q \in Readers, Disconnect(q) PROVE ErrorsStayWithTheirRun'
  BY <1>23 DEF Disconnect, Unsubscribe
<1>24. CASE UNCHANGED vars
  BY <1>24 DEF vars
<1> QED BY <1>1, <1>2, <1>3, <1>4, <1>5, <1>6, <1>7, <1>8, <1>9, <1>10, <1>11, <1>12, <1>13, <1>14,
            <1>15, <1>16, <1>17, <1>18, <1>19, <1>20, <1>21, <1>22, <1>23, <1>24
            DEF Next, Advance, Settle, Follow

(* A session replaces one that is done or superseded. *)
LEMMA StreamStep ==
    ASSUME TypeOK, SessionsInv, LockInv, OneStreamPerThread, [Next]_vars
    PROVE  OneStreamPerThread'
<1> USE DEF TypeOK, SessionsInv, LockInv, OneStreamPerThread, Producing, Saving
<1>1. ASSUME NEW r \in Requests, Supersede(r) PROVE OneStreamPerThread'
  BY <1>1 DEF Supersede, Running
<1>2. ASSUME NEW r \in Requests, Send(r) PROVE OneStreamPerThread'
  BY <1>2 DEF Send, Create, Running
<1>3. ASSUME NEW r \in Requests, Replace(r) PROVE OneStreamPerThread'
  BY <1>3 DEF Replace, Create
<1>4. CASE Stop
  BY <1>4 DEF Stop
<1>5. ASSUME NEW s \in Sessions, Produce(s) PROVE OneStreamPerThread'
  BY <1>5 DEF Produce, Push
<1>6. ASSUME NEW s \in Sessions, ErrorEvent(s) PROVE OneStreamPerThread'
  BY <1>6 DEF ErrorEvent, Report, Finally, Push
<1>7. ASSUME NEW s \in Sessions, Finish(s) PROVE OneStreamPerThread'
  BY <1>7 DEF Finish, Finally
<1>8. ASSUME NEW s \in Sessions, Raise(s) PROVE OneStreamPerThread'
  BY <1>8 DEF Raise, Report, Finally, Push
<1>9. ASSUME NEW s \in Sessions, Interrupt(s) PROVE OneStreamPerThread'
  BY <1>9 DEF Interrupt, Report, Committed, Save, Finally, Push
<1>10. ASSUME NEW s \in Sessions, Locate(s) PROVE OneStreamPerThread'
  BY <1>10 DEF Locate
<1>11. ASSUME NEW s \in Sessions, Record(s) PROVE OneStreamPerThread'
  BY <1>11 DEF Record, Save, Push, Finally
<1>12. ASSUME NEW s \in Sessions, RecordEvent(s) PROVE OneStreamPerThread'
  BY <1>12 DEF RecordEvent, Save, Push
<1>13. ASSUME NEW s \in Sessions, InterruptSave(s) PROVE OneStreamPerThread'
  BY <1>13 DEF InterruptSave, Committed, Save, Finally
<1>14. ASSUME NEW s \in Sessions, Start(s) PROVE OneStreamPerThread'
  BY <1>14 DEF Start
<1>15. ASSUME NEW s \in Sessions, NeverStart(s) PROVE OneStreamPerThread'
  BY <1>15 DEF NeverStart
<1>16. ASSUME NEW s \in Sessions, GraceOver(s) PROVE OneStreamPerThread'
  BY <1>16 DEF GraceOver
<1>17. ASSUME NEW s \in Sessions, Remove(s) PROVE OneStreamPerThread'
  BY <1>17 DEF Remove, Close
<1>18. ASSUME NEW s \in Sessions, Leak(s) PROVE OneStreamPerThread'
  BY <1>18 DEF Leak
<1>19. ASSUME NEW q \in Readers, Bind(q) PROVE OneStreamPerThread'
  BY <1>19 DEF Bind
<1>20. ASSUME NEW q \in Readers, Subscribe(q) PROVE OneStreamPerThread'
  BY <1>20 DEF Subscribe
<1>21. ASSUME NEW q \in Readers, Read(q) PROVE OneStreamPerThread'
  BY <1>21 DEF Read
<1>22. ASSUME NEW q \in Readers, End(q) PROVE OneStreamPerThread'
  BY <1>22 DEF End, Unsubscribe
<1>23. ASSUME NEW q \in Readers, Disconnect(q) PROVE OneStreamPerThread'
  BY <1>23 DEF Disconnect, Unsubscribe
<1>24. CASE UNCHANGED vars
  BY <1>24 DEF vars
<1> QED BY <1>1, <1>2, <1>3, <1>4, <1>5, <1>6, <1>7, <1>8, <1>9, <1>10, <1>11, <1>12, <1>13, <1>14,
            <1>15, <1>16, <1>17, <1>18, <1>19, <1>20, <1>21, <1>22, <1>23, <1>24
            DEF Next, Advance, Settle, Follow

(* Nothing is logged after a run is done. *)
LEMMA SeenStep ==
    ASSUME TypeOK, SessionsInv, ReadersInv, ReadersSeeEverything, [Next]_vars
    PROVE  ReadersSeeEverything'
<1> USE DEF TypeOK, SessionsInv, ReadersInv, ReadersSeeEverything, Producing, Saving
<1>1. ASSUME NEW r \in Requests, Supersede(r) PROVE ReadersSeeEverything'
  BY <1>1 DEF Supersede, Running
<1>2. ASSUME NEW r \in Requests, Send(r) PROVE ReadersSeeEverything'
  BY <1>2 DEF Send, Create, Running
<1>3. ASSUME NEW r \in Requests, Replace(r) PROVE ReadersSeeEverything'
  BY <1>3 DEF Replace, Create
<1>4. CASE Stop
  BY <1>4 DEF Stop
<1>5. ASSUME NEW s \in Sessions, Produce(s) PROVE ReadersSeeEverything'
  BY <1>5 DEF Produce, Push
<1>6. ASSUME NEW s \in Sessions, ErrorEvent(s) PROVE ReadersSeeEverything'
  BY <1>6 DEF ErrorEvent, Report, Finally, Push
<1>7. ASSUME NEW s \in Sessions, Finish(s) PROVE ReadersSeeEverything'
  BY <1>7 DEF Finish, Finally
<1>8. ASSUME NEW s \in Sessions, Raise(s) PROVE ReadersSeeEverything'
  BY <1>8 DEF Raise, Report, Finally, Push
<1>9. ASSUME NEW s \in Sessions, Interrupt(s) PROVE ReadersSeeEverything'
  BY <1>9 DEF Interrupt, Report, Committed, Save, Finally, Push
<1>10. ASSUME NEW s \in Sessions, Locate(s) PROVE ReadersSeeEverything'
  BY <1>10 DEF Locate
<1>11. ASSUME NEW s \in Sessions, Record(s) PROVE ReadersSeeEverything'
  BY <1>11 DEF Record, Save, Push, Finally
<1>12. ASSUME NEW s \in Sessions, RecordEvent(s) PROVE ReadersSeeEverything'
  BY <1>12 DEF RecordEvent, Save, Push
<1>13. ASSUME NEW s \in Sessions, InterruptSave(s) PROVE ReadersSeeEverything'
  BY <1>13 DEF InterruptSave, Committed, Save, Finally
<1>14. ASSUME NEW s \in Sessions, Start(s) PROVE ReadersSeeEverything'
  BY <1>14 DEF Start
<1>15. ASSUME NEW s \in Sessions, NeverStart(s) PROVE ReadersSeeEverything'
  BY <1>15 DEF NeverStart
<1>16. ASSUME NEW s \in Sessions, GraceOver(s) PROVE ReadersSeeEverything'
  BY <1>16 DEF GraceOver
<1>17. ASSUME NEW s \in Sessions, Remove(s) PROVE ReadersSeeEverything'
  BY <1>17 DEF Remove, Close
<1>18. ASSUME NEW s \in Sessions, Leak(s) PROVE ReadersSeeEverything'
  BY <1>18 DEF Leak
<1>19. ASSUME NEW q \in Readers, Bind(q) PROVE ReadersSeeEverything'
  BY <1>19 DEF Bind
<1>20. ASSUME NEW q \in Readers, Subscribe(q) PROVE ReadersSeeEverything'
  BY <1>20 DEF Subscribe
<1>21. ASSUME NEW q \in Readers, Read(q) PROVE ReadersSeeEverything'
  BY <1>21 DEF Read
<1>22. ASSUME NEW q \in Readers, End(q) PROVE ReadersSeeEverything'
  BY <1>22 DEF End, Unsubscribe
<1>23. ASSUME NEW q \in Readers, Disconnect(q) PROVE ReadersSeeEverything'
  BY <1>23 DEF Disconnect, Unsubscribe
<1>24. CASE UNCHANGED vars
  BY <1>24 DEF vars
<1> QED BY <1>1, <1>2, <1>3, <1>4, <1>5, <1>6, <1>7, <1>8, <1>9, <1>10, <1>11, <1>12, <1>13, <1>14,
            <1>15, <1>16, <1>17, <1>18, <1>19, <1>20, <1>21, <1>22, <1>23, <1>24
            DEF Next, Advance, Settle, Follow

(* The file is closed when the session is, by whoever leaves it last. *)
LEMMA LogStep ==
    ASSUME TypeOK, SessionsInv, LogOutlivesReaders, [Next]_vars
    PROVE  LogOutlivesReaders'
<1> USE DEF TypeOK, SessionsInv, LogOutlivesReaders, Subscribers, Producing, Saving
<1>1. ASSUME NEW r \in Requests, Supersede(r) PROVE LogOutlivesReaders'
  BY <1>1 DEF Supersede, Running
<1>2. ASSUME NEW r \in Requests, Send(r) PROVE LogOutlivesReaders'
  BY <1>2 DEF Send, Create, Running
<1>3. ASSUME NEW r \in Requests, Replace(r) PROVE LogOutlivesReaders'
  BY <1>3 DEF Replace, Create
<1>4. CASE Stop
  BY <1>4 DEF Stop
<1>5. ASSUME NEW s \in Sessions, Produce(s) PROVE LogOutlivesReaders'
  BY <1>5 DEF Produce, Push
<1>6. ASSUME NEW s \in Sessions, ErrorEvent(s) PROVE LogOutlivesReaders'
  BY <1>6 DEF ErrorEvent, Report, Finally, Push
<1>7. ASSUME NEW s \in Sessions, Finish(s) PROVE LogOutlivesReaders'
  BY <1>7 DEF Finish, Finally
<1>8. ASSUME NEW s \in Sessions, Raise(s) PROVE LogOutlivesReaders'
  BY <1>8 DEF Raise, Report, Finally, Push
<1>9. ASSUME NEW s \in Sessions, Interrupt(s) PROVE LogOutlivesReaders'
  BY <1>9 DEF Interrupt, Report, Committed, Save, Finally, Push
<1>10. ASSUME NEW s \in Sessions, Locate(s) PROVE LogOutlivesReaders'
  BY <1>10 DEF Locate
<1>11. ASSUME NEW s \in Sessions, Record(s) PROVE LogOutlivesReaders'
  BY <1>11 DEF Record, Save, Push, Finally
<1>12. ASSUME NEW s \in Sessions, RecordEvent(s) PROVE LogOutlivesReaders'
  BY <1>12 DEF RecordEvent, Save, Push
<1>13. ASSUME NEW s \in Sessions, InterruptSave(s) PROVE LogOutlivesReaders'
  BY <1>13 DEF InterruptSave, Committed, Save, Finally
<1>14. ASSUME NEW s \in Sessions, Start(s) PROVE LogOutlivesReaders'
  BY <1>14 DEF Start
<1>15. ASSUME NEW s \in Sessions, NeverStart(s) PROVE LogOutlivesReaders'
  BY <1>15 DEF NeverStart
<1>16. ASSUME NEW s \in Sessions, GraceOver(s) PROVE LogOutlivesReaders'
  BY <1>16 DEF GraceOver
<1>17. ASSUME NEW s \in Sessions, Remove(s) PROVE LogOutlivesReaders'
  BY <1>17 DEF Remove, Close
<1>18. ASSUME NEW s \in Sessions, Leak(s) PROVE LogOutlivesReaders'
  BY <1>18 DEF Leak
<1>19. ASSUME NEW q \in Readers, Bind(q) PROVE LogOutlivesReaders'
  BY <1>19 DEF Bind
<1>20. ASSUME NEW q \in Readers, Subscribe(q) PROVE LogOutlivesReaders'
  BY <1>20 DEF Subscribe
<1>21. ASSUME NEW q \in Readers, Read(q) PROVE LogOutlivesReaders'
  BY <1>21 DEF Read
<1>22. ASSUME NEW q \in Readers, End(q) PROVE LogOutlivesReaders'
  BY <1>22 DEF End, Unsubscribe
<1>23. ASSUME NEW q \in Readers, Disconnect(q) PROVE LogOutlivesReaders'
  BY <1>23 DEF Disconnect, Unsubscribe
<1>24. CASE UNCHANGED vars
  BY <1>24 DEF vars
<1> QED BY <1>1, <1>2, <1>3, <1>4, <1>5, <1>6, <1>7, <1>8, <1>9, <1>10, <1>11, <1>12, <1>13, <1>14,
            <1>15, <1>16, <1>17, <1>18, <1>19, <1>20, <1>21, <1>22, <1>23, <1>24
            DEF Next, Advance, Settle, Follow

(* The initial states. *)
LEMMA Initially == Init => IInv
<1> SUFFICES ASSUME Init PROVE IInv
  OBVIOUS
<1>1. TypeOK
  BY DEF Init, TypeOK, Places, Producing
<1>2. SessionsInv /\ LockInv /\ ReadersInv
  BY DEF Init, SessionsInv, LockInv, ReadersInv, Producing, Saving
<1>3. ErrorsStayWithTheirRun /\ OneStreamPerThread /\ ReadersSeeEverything /\ LogOutlivesReaders
  BY DEF Init, ErrorsStayWithTheirRun, OneStreamPerThread, ReadersSeeEverything, LogOutlivesReaders,
         Producing, Saving
<1> QED BY <1>1, <1>2, <1>3 DEF IInv

(* The steps. *)
LEMMA Inductive == IInv /\ [Next]_vars => IInv'
BY Typing, SessionsStep, LockStep, ReadersStep, ErrorsStep, StreamStep, SeenStep, LogStep DEF IInv

(* The invariant of the chat streams. *)
THEOREM StreamsInvariance == Spec => []IInv
BY Initially, Inductive, PTL DEF Spec

(* The error of a run is never saved on a checkpoint of a later one          *)
(* (_push_error_event, record_thread_run_error).                             *)
THEOREM ErrorsStay == Spec => []ErrorsStayWithTheirRun
<1>1. IInv => ErrorsStayWithTheirRun
  BY DEF IInv
<1> QED BY <1>1, StreamsInvariance, PTL

(* Of the runs of a thread that can still go on, only the one the manager    *)
(* knows is not superseded (get_or_create_session, remove_session).           *)
THEOREM OneStream == Spec => []OneStreamPerThread
<1>1. IInv => OneStreamPerThread
  BY DEF IInv
<1> QED BY <1>1, StreamsInvariance, PTL

(* A stream that has come to its end was complete (subscribe).               *)
THEOREM EverythingSeen == Spec => []ReadersSeeEverything
<1>1. IInv => ReadersSeeEverything
  BY DEF IInv
<1> QED BY <1>1, StreamsInvariance, PTL

(* The replay log is open for whoever writes or reads it (close, unsubscribe). *)
THEOREM LogStaysOpen == Spec => []LogOutlivesReaders
<1>1. IInv => LogOutlivesReaders
  BY DEF IInv
<1> QED BY <1>1, StreamsInvariance, PTL
=============================================================================
