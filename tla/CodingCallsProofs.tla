------------------------- MODULE CodingCallsProofs -------------------------
(***************************************************************************)
(* Proofs about CodingCalls, for any number of calls, resources, answers    *)
(* and troubles: IInv is inductive, so no call takes effect twice, none     *)
(* before the whole batch is approved, and none is reported done that has   *)
(* not taken effect.                                                        *)
(***************************************************************************)
EXTENDS CodingCalls, TLAPS

USE CallsAssumption DEF disk

LEMMA ItemsAreDistinct ==
    /\ Calls \subseteq Nat /\ Question \notin Calls /\ Nothing \notin Items
    /\ Question \in Items /\ Calls \subseteq Items
BY DEF Calls, Question, Nothing, Items

(* The kinds of steps, with those of AskFor told apart. *)
LEMMA Steps ==
    ASSUME TypeOK, Next
    PROVE  \/ Execute \/ Finish \/ Stop \/ Crash \/ Restart
           \/ \E c \in Calls : Passed(c) \/ StopBatch(c) \/ (used < Len(answers) /\ PassOver(c))
           \/ \E x \in Items : Interrupt(x)
           \/ \E c \in Calls, d \in {"allow_once", "allow_thread"} :
                /\ used < Len(answers) /\ ~Granted(c) /\ Verdict(c, answers[used + 1]) = d
                /\ Approve(c, d)
           \/ AskUser /\ used # Len(answers)
           \/ \E a \in Actors, c \in Calls :
                \/ Replayed(a, c) \/ Begin(a, c) \/ Refused(a, c) \/ Act(a, c)
                \/ Complete(a, c) \/ CompleteFails(a, c)
           \/ \E a \in Answers : Resume(a) /\ foreign' \in 0..MaxForeign
<1>0. used \in 0..Len(answers) /\ Len(answers) \in Nat
  BY DEF TypeOK
<1>1. ASSUME NEW c \in Calls, AskFor(c)
      PROVE \/ Interrupt(c) \/ (used < Len(answers) /\ PassOver(c))
            \/ \E d \in {"allow_once", "allow_thread"} :
                 /\ used < Len(answers) /\ ~Granted(c) /\ Verdict(c, answers[used + 1]) = d
                 /\ Approve(c, d)
  BY <1>0, <1>1 DEF AskFor
<1>2. CASE Prepare
  BY <1>1, <1>2, ItemsAreDistinct DEF Prepare
<1>3. CASE AskUser
  BY <1>3, ItemsAreDistinct DEF AskUser
<1>4. ASSUME NEW a \in Actors, NEW c \in Calls, Invoke(a, c) \/ CompleteFails(a, c)
      PROVE \/ Interrupt(c) \/ (used < Len(answers) /\ PassOver(c))
            \/ \E d \in {"allow_once", "allow_thread"} :
                 /\ used < Len(answers) /\ ~Granted(c) /\ Verdict(c, answers[used + 1]) = d
                 /\ Approve(c, d)
            \/ Replayed(a, c) \/ Begin(a, c) \/ Refused(a, c) \/ Act(a, c)
            \/ Complete(a, c) \/ CompleteFails(a, c)
  BY <1>1, <1>4 DEF Invoke
<1>5. CASE Answer
  <2>1. PICK a \in AnswersTo(pending) : Resume(a) /\ UNCHANGED foreign
    BY <1>5 DEF Answer
  <2>2. pending \in Items
    BY <2>1 DEF Resume, TypeOK
  <2>3. a \in Answers
    BY <2>1, <2>2 DEF Answers
  <2> QED BY <2>1, <2>3 DEF TypeOK
<1>6. CASE ForeignAnswer
  BY <1>6 DEF ForeignAnswer, TypeOK
<1> QED BY <1>2, <1>3, <1>4, <1>5, <1>6, ItemsAreDistinct DEF Next

LEMMA AnswersAreAnswers ==
    ASSUME TypeOK, used < Len(answers)
    PROVE  /\ used + 1 \in DOMAIN answers
           /\ answers[used + 1] \in Answers
BY DEF TypeOK

(* A request of a call is approved only by an answer to it. *)
LEMMA VerdictNamesCall ==
    ASSUME TypeOK, used < Len(answers), NEW c \in Calls,
           NEW d \in {"allow_once", "allow_thread"}, Verdict(c, answers[used + 1]) = d
    PROVE  answers[used + 1] = [to |-> c, decision |-> d]
<1>1. PICK x \in Items : answers[used + 1] \in AnswersTo(x)
  BY AnswersAreAnswers DEF Answers
<1>2. answers[used + 1].to = c /\ answers[used + 1].decision = d
  BY DEF Verdict
<1> QED BY <1>1, <1>2 DEF AnswersTo

LEMMA Typing == TypeOK /\ [Next]_vars => TypeOK'
<1> SUFFICES ASSUME TypeOK, [Next]_vars PROVE TypeOK'
  OBVIOUS
<1> USE DEF TypeOK, Stages, Actors, Reports
<1>1. CASE Execute
  BY <1>1 DEF Execute
<1>2. CASE Finish
  BY <1>2 DEF Finish
<1>3. CASE Stop
  BY <1>3 DEF Stop
<1>4. CASE Crash
  BY <1>4 DEF Crash
<1>5. CASE Restart
  BY <1>5, ItemsAreDistinct DEF Restart, StartNode, Items
<1>6. ASSUME NEW c \in Calls, Passed(c) PROVE TypeOK'
  BY <1>6 DEF Passed, Preparing, Calls
<1>7. ASSUME NEW c \in Calls, StopBatch(c) PROVE TypeOK'
  BY <1>7 DEF StopBatch
<1>8. ASSUME NEW c \in Calls, PassOver(c), used < Len(answers) PROVE TypeOK'
  BY <1>8 DEF PassOver
<1>9. ASSUME NEW x \in Items, Interrupt(x) PROVE TypeOK'
  <2>1. at' \in [Actors -> [Calls -> Stages]]
    BY <1>9 DEF Interrupt, LeftBehind
  <2> QED BY <1>9, <2>1 DEF Interrupt
<1>10. ASSUME NEW c \in Calls, NEW d \in {"allow_once", "allow_thread"}, used < Len(answers),
              ~Granted(c), Approve(c, d)
       PROVE TypeOK'
  BY <1>10 DEF Approve, Granted
<1>11. CASE AskUser /\ used # Len(answers)
  <2>1. /\ used' = used + 1
        /\ \E r \in {"ok", "failed"} : report' = [report EXCEPT ![Question] = r]
        /\ UNCHANGED <<needs, asks, disk, answers, effects, phase, pending, next, at, foreign, troubles>>
    BY <1>11 DEF AskUser
  <2>2. report' \in [Items -> Reports]
    BY <2>1, ItemsAreDistinct
  <2>3. used' \in 0..Len(answers)'
    BY <1>11, <2>1
  <2> QED BY <2>1, <2>2, <2>3
<1>12. ASSUME NEW a \in Actors, NEW c \in Calls, Replayed(a, c) PROVE TypeOK'
  BY <1>12, ItemsAreDistinct DEF Replayed, Ends, Fresh
<1>13. ASSUME NEW a \in Actors, NEW c \in Calls, Begin(a, c) PROVE TypeOK'
  BY <1>13 DEF Begin
<1>14. ASSUME NEW a \in Actors, NEW c \in Calls, Refused(a, c) PROVE TypeOK'
  BY <1>14, ItemsAreDistinct DEF Refused, Ends
<1>15. ASSUME NEW a \in Actors, NEW c \in Calls, Act(a, c) PROVE TypeOK'
  BY <1>15 DEF Act
<1>16. ASSUME NEW a \in Actors, NEW c \in Calls, Complete(a, c) PROVE TypeOK'
  BY <1>16, ItemsAreDistinct DEF Complete, Ends
<1>17. ASSUME NEW a \in Actors, NEW c \in Calls, CompleteFails(a, c) PROVE TypeOK'
  BY <1>17, ItemsAreDistinct DEF CompleteFails, Ends
<1>18. ASSUME NEW a \in Answers, Resume(a), foreign' \in 0..MaxForeign PROVE TypeOK'
  BY <1>18 DEF Resume, StartNode
<1>19. CASE UNCHANGED vars
  BY <1>19 DEF vars
<1> QED BY <1>1, <1>2, <1>3, <1>4, <1>5, <1>6, <1>7, <1>8, <1>9, <1>10, <1>11, <1>12, <1>13,
           <1>14, <1>15, <1>16, <1>17, <1>18, <1>19, Steps

(* A journal, an execution and an effect stay together. *)
LEMMA JournalKept == TypeOK /\ JournalInv /\ [Next]_vars => JournalInv'
<1> SUFFICES ASSUME TypeOK, JournalInv, [Next]_vars PROVE JournalInv'
  OBVIOUS
<1>0. /\ effects \in [Calls -> Nat] /\ journal \in [Calls -> {"none", "started", "completed"}]
      /\ result \in [Calls -> {"none", "ok", "failed"}] /\ report \in [Items -> Reports]
      /\ at \in [Actors -> [Calls -> Stages]]
  BY DEF TypeOK
<1> USE DEF JournalInv, Actors
<1>1. CASE Execute
  BY <1>0, <1>1 DEF Execute
<1>2. CASE Finish
  BY <1>2 DEF Finish
<1>3. CASE Stop
  BY <1>0, <1>3 DEF Stop
<1>4. CASE Crash
  BY <1>0, <1>4 DEF Crash
<1>5. CASE Restart
  BY <1>0, <1>5, ItemsAreDistinct DEF Restart, StartNode
<1>6. ASSUME NEW c \in Calls, Passed(c) PROVE JournalInv'
  BY <1>6 DEF Passed
<1>7. ASSUME NEW c \in Calls, StopBatch(c) PROVE JournalInv'
  BY <1>0, <1>7, ItemsAreDistinct DEF StopBatch
<1>8. ASSUME NEW c \in Calls, PassOver(c) PROVE JournalInv'
  BY <1>8 DEF PassOver
<1>9. ASSUME NEW x \in Items, Interrupt(x) PROVE JournalInv'
  <2>1. ASSUME NEW e \in Calls
        PROVE /\ at'["run"][e] = "off"
              /\ at'["late"][e] \in {at["run"][e], at["late"][e]}
    BY <1>9 DEF Interrupt, LeftBehind
  <2> QED BY <1>0, <1>9, <2>1 DEF Interrupt
<1>10. ASSUME NEW c \in Calls, NEW d \in {"allow_once", "allow_thread"}, Approve(c, d)
       PROVE JournalInv'
  BY <1>10 DEF Approve
<1>11. CASE AskUser /\ used # Len(answers)
  <2>1. /\ \A e \in Calls : report'[e] = report[e]
        /\ UNCHANGED <<disk, effects, at>>
    BY <1>0, <1>11, ItemsAreDistinct DEF AskUser
  <2> QED BY <2>1
<1>12. ASSUME NEW a \in Actors, NEW c \in Calls, Replayed(a, c) PROVE JournalInv'
  BY <1>0, <1>12, ItemsAreDistinct DEF Replayed, Ends, Enters
<1>13. ASSUME NEW a \in Actors, NEW c \in Calls, Begin(a, c) PROVE JournalInv'
  BY <1>0, <1>13, ItemsAreDistinct DEF Begin, Enters, Fresh
<1>14. ASSUME NEW a \in Actors, NEW c \in Calls, Refused(a, c) PROVE JournalInv'
  BY <1>0, <1>14, ItemsAreDistinct DEF Refused, Ends, Enters
<1>15. ASSUME NEW a \in Actors, NEW c \in Calls, Act(a, c) PROVE JournalInv'
  BY <1>0, <1>15, ItemsAreDistinct DEF Act
<1>16. ASSUME NEW a \in Actors, NEW c \in Calls, Complete(a, c) PROVE JournalInv'
  BY <1>0, <1>16, ItemsAreDistinct DEF Complete, Ends
<1>17. ASSUME NEW a \in Actors, NEW c \in Calls, CompleteFails(a, c) PROVE JournalInv'
  BY <1>0, <1>17, ItemsAreDistinct DEF CompleteFails, Ends
<1>18. ASSUME NEW a \in Answers, Resume(a) PROVE JournalInv'
  BY <1>0, <1>18, ItemsAreDistinct DEF Resume, StartNode
<1>19. CASE UNCHANGED vars
  BY <1>19 DEF vars
<1> QED BY <1>1, <1>2, <1>3, <1>4, <1>5, <1>6, <1>7, <1>8, <1>9, <1>10, <1>11, <1>12, <1>13,
           <1>14, <1>15, <1>16, <1>17, <1>18, <1>19, Steps

----------------------------------------------------------------------------
(* Answers are only added, and what a call needs never changes. *)
LEMMA AnswersStay ==
    ASSUME TypeOK, [Next]_vars
    PROVE  /\ needs' = needs
           /\ \A i \in DOMAIN answers : i \in DOMAIN answers' /\ answers'[i] = answers[i]
<1>1. ASSUME NEW a \in Answers, Resume(a)
      PROVE \A i \in DOMAIN answers : i \in DOMAIN answers' /\ answers'[i] = answers[i]
  BY <1>1 DEF Resume, TypeOK
<1>2. ASSUME ~ \E a \in Answers : Resume(a) PROVE UNCHANGED answers
  BY <1>2, Steps DEF vars, Execute, Finish, Stop, Crash, Restart, Passed, StopBatch, PassOver,
     Interrupt, Approve, AskUser, Replayed, Begin, Refused, Act, Complete, CompleteFails
<1>3. UNCHANGED needs
  BY Steps DEF vars, Execute, Finish, Stop, Crash, Restart, Passed, StopBatch, PassOver,
     Interrupt, Approve, AskUser, Replayed, Begin, Refused, Act, Complete, CompleteFails, Resume
<1> QED BY <1>1, <1>2, <1>3

LEMMA ApprovalsStay ==
    ASSUME TypeOK, [Next]_vars, NEW c \in Calls, Approved(c)
    PROVE  Approved(c)'
BY AnswersStay DEF Approved

(* What is granted after a step was approved before it. *)
LEMMA GrantsAreApproved ==
    ASSUME TypeOK, ApprovalInv, [Next]_vars, NEW e \in Calls, Granted(e)'
    PROVE  Approved(e)'
<1> USE DEF ApprovalInv
<1>1. CASE Granted(e)
  BY <1>1, ApprovalsStay
<1>2. CASE ~Granted(e)
  <2>1. ASSUME once' \subseteq once, grants' \subseteq grants PROVE FALSE
    BY <1>2, <2>1, AnswersStay DEF Granted
  <2>2. PICK c \in Calls, d \in {"allow_once", "allow_thread"} :
          /\ used < Len(answers) /\ ~Granted(c) /\ Verdict(c, answers[used + 1]) = d
          /\ Approve(c, d)
    BY <2>1, Steps DEF vars, Execute, Finish, Stop, Crash, Restart, Passed, StopBatch, PassOver,
       Interrupt, AskUser, Replayed, Begin, Refused, Act, Complete, CompleteFails, Resume
  <2>3. /\ used + 1 \in DOMAIN answers
        /\ answers[used + 1] = [to |-> c, decision |-> d]
    BY <2>2, VerdictNamesCall, AnswersAreAnswers
  <2>4. (d = "allow_thread" /\ needs[e] = needs[c]) \/ e = c
    BY <1>2, <2>2, AnswersStay DEF Approve, Granted
  <2>5. Approved(e)
    BY <2>3, <2>4 DEF Approved
  <2> QED BY <2>5, ApprovalsStay
<1> QED BY <1>1, <1>2

(* What prepare_batch has passed is approved. *)
LEMMA PassedAreApproved ==
    ASSUME TypeOK, ApprovalInv, [Next]_vars, phase' = "prepare", NEW e \in Calls, e < next'
    PROVE  Approved(e)'
<1>0. next \in 1..(NumCalls + 1) /\ Calls = 1..NumCalls
  BY DEF TypeOK, Calls
<1>1. CASE phase = "prepare" /\ e < next
  <2>1. Approved(e)
    BY <1>1 DEF ApprovalInv
  <2> QED BY <2>1, ApprovalsStay
<1>2. ASSUME NEW c \in Calls, Passed(c) PROVE Approved(e)'
  <2>1. CASE e < next
    BY <1>1, <1>2, <2>1 DEF Passed, Preparing
  <2>2. CASE e = c
    <3>1. Approved(c)
      BY <1>2 DEF Passed, ApprovalInv
    <3> QED BY <2>2, <3>1, ApprovalsStay
  <2> QED BY <1>0, <1>2, <2>1, <2>2 DEF Passed, Preparing
<1>3. ASSUME Restart \/ \E a \in Answers : Resume(a) PROVE FALSE
  BY <1>0, <1>3 DEF Restart, Resume, StartNode
<1>4. ASSUME UNCHANGED <<phase, next>> PROVE phase = "prepare" /\ e < next
  BY <1>4
<1> QED
  BY <1>1, <1>2, <1>3, <1>4, Steps DEF vars, Execute, Finish, Stop, Crash, StopBatch, PassOver,
     Interrupt, Approve, AskUser, Replayed, Begin, Refused, Act, Complete, CompleteFails

(* Nothing waits, is journaled or takes effect before all is approved. *)
LEMMA NothingBeforeApproval ==
    ASSUME TypeOK, ApprovalInv, [Next]_vars, ~ \A c \in Calls : Approved(c)
    PROVE  \A c \in Calls :
             /\ journal'[c] = "none" /\ effects'[c] = 0
             /\ \A a \in Actors : at'[a][c] \in {"off", "over"}
<1> DEFINE Quiet == \A c \in Calls :
             /\ journal[c] = "none" /\ effects[c] = 0
             /\ \A a \in Actors : at[a][c] \in {"off", "over"}
<1>0. Quiet /\ at \in [Actors -> [Calls -> Stages]]
  BY DEF ApprovalInv, TypeOK
<1>1. ~Execute
  BY DEF Execute, ApprovalInv, Calls
<1>2. ASSUME NEW a \in Actors, NEW c \in Calls
      PROVE ~Replayed(a, c) /\ ~Begin(a, c) /\ ~Refused(a, c) /\ ~Act(a, c)
            /\ ~Complete(a, c) /\ ~CompleteFails(a, c)
  BY <1>0, <1>2 DEF Replayed, Begin, Refused, Act, Complete, CompleteFails, Enters
<1>3. ASSUME NEW x \in Items, Interrupt(x) PROVE Quiet'
  BY <1>0, <1>3 DEF Interrupt, LeftBehind, Actors
<1>4. CASE Stop
  BY <1>0, <1>4 DEF Stop, Actors
<1>5. CASE Crash
  BY <1>0, <1>5 DEF Crash
<1>6. ASSUME UNCHANGED <<journal, effects, at>> PROVE Quiet'
  BY <1>0, <1>6
<1> QED
  BY <1>1, <1>2, <1>3, <1>4, <1>5, <1>6, Steps DEF vars, Finish, Restart, Passed, StopBatch,
     PassOver, Approve, AskUser, Resume

LEMMA ApprovalKept == TypeOK /\ ApprovalInv /\ [Next]_vars => ApprovalInv'
<1> SUFFICES ASSUME TypeOK, ApprovalInv, [Next]_vars PROVE ApprovalInv'
  OBVIOUS
<1>1. CASE \A c \in Calls : Approved(c)
  <2>1. \A c \in Calls : Approved(c)'
    BY <1>1, ApprovalsStay
  <2> QED BY <2>1 DEF ApprovalInv
<1>2. CASE ~ \A c \in Calls : Approved(c)
  <2>1. (\A c \in Calls : Granted(c) => Approved(c))'
    BY GrantsAreApproved
  <2>2. (phase = "prepare" => \A c \in Calls : c < next => Approved(c))'
    BY PassedAreApproved
  <2> QED BY <1>2, <2>1, <2>2, NothingBeforeApproval DEF ApprovalInv
<1> QED BY <1>1, <1>2

(* What is journaled stays so, and only a stop withdraws a grant. *)
LEMMA PassedStays ==
    ASSUME TypeOK, [Next]_vars, ~Stop, NEW c \in Calls, ~Fresh(c) \/ Granted(c)
    PROVE  ~Fresh(c)' \/ Granted(c)'
<1>0. journal \in [Calls -> {"none", "started", "completed"}]
  BY DEF TypeOK
<1>1. ~Fresh(c) => ~Fresh(c)'
  BY <1>0, Steps DEF vars, Fresh, Execute, Finish, Stop, Crash, Restart, Passed, StopBatch, PassOver,
     Interrupt, Approve, AskUser, Replayed, Begin, Refused, Act, Complete, CompleteFails, Resume
<1>2. needs' = needs /\ once \subseteq once' /\ grants \subseteq grants'
  BY Steps DEF vars, Execute, Finish, Crash, Restart, Passed, StopBatch, PassOver,
     Interrupt, Approve, AskUser, Replayed, Begin, Refused, Act, Complete, CompleteFails, Resume
<1> QED BY <1>1, <1>2 DEF Granted

(* The node does not ask for a call it has passed. *)
LEMMA GrantsKept == TypeOK /\ GrantsInv /\ [Next]_vars => GrantsInv'
<1> SUFFICES ASSUME TypeOK, GrantsInv, [Next]_vars PROVE GrantsInv'
  OBVIOUS
<1> DEFINE Kept(c) == ~Fresh(c) \/ Granted(c)
<1>0. /\ next \in 1..(NumCalls + 1) /\ Calls = 1..NumCalls
      /\ at \in [Actors -> [Calls -> Stages]]
  BY DEF TypeOK, Calls
<1>1. CASE Stop
  BY <1>0, <1>1 DEF Stop, GrantsInv, Actors
<1>2. CASE ~Stop
  <2>1. ASSUME NEW c \in Calls, phase' = "prepare", c < next' PROVE Kept(c)
    <3>1. CASE phase = "prepare" /\ c < next
      BY <3>1 DEF GrantsInv
    <3>2. ASSUME NEW d \in Calls, Passed(d) PROVE Kept(c)
      BY <1>0, <2>1, <3>1, <3>2 DEF Passed, Preparing, Fresh
    <3>3. ASSUME Restart \/ \E a \in Answers : Resume(a) PROVE FALSE
      BY <1>0, <2>1, <3>3 DEF Restart, Resume, StartNode
    <3>4. ASSUME UNCHANGED <<phase, next>> PROVE Kept(c)
      BY <2>1, <3>1, <3>4
    <3> QED
      BY <1>2, <2>1, <3>2, <3>3, <3>4, Steps DEF vars, Execute, Finish, Crash, StopBatch, PassOver,
         Interrupt, Approve, AskUser, Replayed, Begin, Refused, Act, Complete, CompleteFails
  <2>2. ASSUME NEW c \in Calls, at'["run"][c] = "waiting" PROVE Kept(c)
    <3>1. CASE at["run"][c] = "waiting"
      BY <3>1 DEF GrantsInv
    <3>2. CASE Execute
      BY <1>0, <3>2 DEF Execute, GrantsInv
    <3>3. ASSUME NEW x \in Items, Interrupt(x) PROVE FALSE
      BY <2>2, <3>3 DEF Interrupt, LeftBehind, Actors
    <3>4. ASSUME Crash PROVE FALSE
      BY <2>2, <3>4 DEF Crash, Actors
    <3>5. ASSUME NEW a \in Actors, NEW d \in Calls,
                 Replayed(a, d) \/ Begin(a, d) \/ Refused(a, d) \/ Act(a, d)
                 \/ Complete(a, d) \/ CompleteFails(a, d)
          PROVE Kept(c)
      <4>1. at'["run"][c] = at["run"][c] \/ at'["run"][c] \in {"begun", "acted", "over", "off"}
        BY <1>0, <3>5 DEF Replayed, Begin, Refused, Act, Complete, CompleteFails, Ends, Actors
      <4> QED BY <2>2, <3>1, <4>1
    <3>6. ASSUME UNCHANGED at PROVE Kept(c)
      BY <2>2, <3>1, <3>6
    <3> QED
      BY <1>2, <3>2, <3>3, <3>4, <3>5, <3>6, Steps DEF vars, Finish, Restart, Passed, StopBatch,
         PassOver, Approve, AskUser, Resume
  <2> QED BY <1>2, <2>1, <2>2, PassedStays DEF GrantsInv
<1> QED BY <1>1, <1>2

LEMMA InitIInv == Init => IInv
<1> SUFFICES ASSUME Init PROVE IInv
  OBVIOUS
<1>1. TypeOK
  BY DEF Init, TypeOK, Items, Calls, Nothing, Stages, Reports
<1>2. JournalInv
  BY ItemsAreDistinct DEF Init, JournalInv, Actors
<1>3. ApprovalInv
  BY DEF Init, ApprovalInv, Granted, Approved, Calls
<1>4. GrantsInv
  BY DEF Init, GrantsInv, Calls, Actors
<1> QED BY <1>1, <1>2, <1>3, <1>4 DEF IInv

----------------------------------------------------------------------------
(* The inductive invariant of the tool node and its calls (service.py,      *)
(* permissions.py, storage.py) holds for any batch, answers and troubles.   *)
THEOREM Invariance == Spec => []IInv
<1>1. IInv /\ [Next]_vars => IInv'
  BY Typing, JournalKept, ApprovalKept, GrantsKept DEF IInv
<1> QED BY <1>1, InitIInv, PTL DEF Spec

(* No replay, stop, crash or coroutine left behind makes a call take effect *)
(* a second time, and a call reported as done has taken effect (storage.py, *)
(* begin and complete).                                                     *)
THEOREM EffectsHappenOnce == Spec => []EffectsOnce
<1>1. IInv => EffectsOnce
  BY DEF IInv, JournalInv, EffectsOnce
<1> QED BY <1>1, Invariance, PTL

(* No call of a batch takes effect before the user has approved every call  *)
(* of it (service.py, prepare_batch; permissions.py, assert_allowed).       *)
THEOREM ApprovalComesFirst == Spec => []ApprovedBeforeEffects
<1>1. IInv => ApprovedBeforeEffects
  BY DEF IInv, TypeOK, ApprovalInv, ApprovedBeforeEffects
<1> QED BY <1>1, Invariance, PTL
=============================================================================
