---------------------------- MODULE CodingCalls ----------------------------
(* One model message with a batch of coding-tool calls, and possibly an     *)
(* ask_user call: the tool node authorizes the batch, runs the calls in     *)
(* parallel, and is replayed from its start after every answer of the user, *)
(* stop or crash (workflows/nodes/tool.py, tools/coding/service.py). What   *)
(* survives a replay is on disk: the journals of the calls, the grants, and *)
(* the answers, which LangGraph hands out again by position.                *)
EXTENDS Integers, Sequences

CONSTANTS
    NumCalls,    \* coding calls of the message
    Resources,   \* what a rule says "ask" for
    MaxAnswers,  \* bound on the answers given
    MaxForeign,  \* bound on the answers to something that is not pending
    MaxTroubles  \* bound on stops, crashes and failed journal writes

Calls == 1..NumCalls
Question == 0            \* the ask_user call
Items == {Question} \cup Calls
Nothing == NumCalls + 1  \* no interrupt is pending
Free == "free"           \* the rules allow the call

ASSUME CallsAssumption ==
    /\ NumCalls \in Nat \ {0}
    /\ Free \notin Resources
    /\ MaxAnswers \in Nat /\ MaxForeign \in Nat /\ MaxTroubles \in Nat

VARIABLES
    needs,     \* what each call must be approved for
    asks,      \* the message has an ask_user call
    journal,   \* the .invocation file of each call
    result,    \* the result in it
    once,      \* calls with an "allow once" file
    grants,    \* resources granted for the conversation
    answers,   \* what the user has answered, in order: LangGraph keeps them
    effects,   \* how often each call has taken effect
    phase,     \* of the tool node
    pending,   \* whose interrupt the user sees
    next,      \* the call prepare_batch is at
    used,      \* interrupts the node has passed since its start
    at,        \* each call's coroutine in the node ("run") and one left behind ("late")
    report,    \* the message each call has ended with
    foreign, troubles

disk == <<journal, result, once, grants>>
vars == <<needs, asks, disk, answers, effects, phase, pending, next, used, at, report,
          foreign, troubles>>

Actors == {"run", "late"}
Stages == {"off", "waiting", "begun", "acted", "over"}
Decisions == {"allow_once", "allow_thread", "deny"}
AnswersTo(x) ==
    [to : {x}, decision : IF x = Question THEN {"answer"} ELSE Decisions]
Answers == UNION {AnswersTo(x) : x \in Items}
Reports == {"none", "ok", "failed", "unknown", "stopped"}

TypeOK ==
    /\ needs \in [Calls -> Resources \cup {Free}]
    /\ asks \in BOOLEAN
    /\ journal \in [Calls -> {"none", "started", "completed"}]
    /\ result \in [Calls -> {"none", "ok", "failed"}]
    /\ once \subseteq Calls
    /\ grants \subseteq Resources
    /\ answers \in Seq(Answers)
    /\ effects \in [Calls -> Nat]
    /\ phase \in {"prepare", "execute", "idle", "done"}
    /\ pending \in Items \cup {Nothing}
    /\ next \in 1..(NumCalls + 1)
    /\ used \in 0..Len(answers)
    /\ at \in [Actors -> [Calls -> Stages]]
    /\ report \in [Items -> Reports]
    /\ foreign \in 0..MaxForeign
    /\ troubles \in 0..MaxTroubles

Init ==
    /\ needs \in [Calls -> Resources \cup {Free}]
    /\ asks \in BOOLEAN
    /\ journal = [c \in Calls |-> "none"]
    /\ result = [c \in Calls |-> "none"]
    /\ once = {} /\ grants = {}
    /\ answers = <<>>
    /\ effects = [c \in Calls |-> 0]
    /\ phase = "prepare" /\ pending = Nothing
    /\ next = 1 /\ used = 0
    /\ at = [a \in Actors |-> [c \in Calls |-> "off"]]
    /\ report = [x \in Items |-> "none"]
    /\ foreign = 0 /\ troubles = 0

----------------------------------------------------------------------------
(* Authorization. *)

(* Mutant: an execution that was interrupted is begun again. *)
FreshOrStarted(c) == journal[c] # "completed"

(* No journal: the call has not been begun, in this run of the node or in   *)
(* an earlier one.                                                          *)
Fresh(c) == journal[c] = "none"

Granted(c) == needs[c] = Free \/ c \in once \/ needs[c] \in grants

(* Mutant: the request_id of an answer is not compared. *)
VerdictOfAnyAnswer(c, a) == IF a.to = Question THEN "invalid" ELSE a.decision

(* What an answer means to the request of a call. PermissionResume refuses  *)
(* the answer to a question; one with another request_id is passed over.    *)
Verdict(c, a) ==
    IF a.to = Question THEN "invalid"
    ELSE IF a.to # c THEN "other"
    ELSE a.decision

(* The node runs again from its start: the messages of the run before are   *)
(* lost, and the answers are handed out from the first.                     *)
StartNode ==
    /\ phase' = "prepare" /\ pending' = Nothing
    /\ next' = 1 /\ used' = 0
    /\ report' = [x \in Items |-> "none"]

(* GraphInterrupt ends the node; calls it was running in parallel with the  *)
(* one that asks are not cancelled and go on behind its back.               *)
LeftBehind(x) ==
    [a \in Actors |-> [c \in Calls |->
        IF a = "run" THEN "off"
        ELSE IF c # x /\ at["run"][c] \in {"waiting", "begun", "acted"}
                      /\ at["late"][c] \notin {"begun", "acted"}
             THEN at["run"][c]
        ELSE at["late"][c]]]

Interrupt(x) ==
    /\ phase' = "idle" /\ pending' = x
    /\ at' = LeftBehind(x)
    /\ UNCHANGED <<needs, asks, disk, answers, effects, next, used, report, foreign, troubles>>

(* Mutant: the answer of another request asks again, without the loop. *)
PassOverAndAsk(c) == Interrupt(c)

(* The request of a call has an answer that is meant for another. *)
PassOver(c) ==
    /\ used' = used + 1
    /\ UNCHANGED <<needs, asks, disk, answers, effects, phase, pending, next, at, report, foreign, troubles>>

(* The user has approved the call: the approval is stored. *)
Approve(c, decision) ==
    /\ used' = used + 1
    /\ IF decision = "allow_thread"
       THEN grants' = grants \cup {needs[c]} /\ UNCHANGED once
       ELSE once' = once \cup {c} /\ UNCHANGED grants
    /\ UNCHANGED <<needs, asks, journal, result, answers, effects, phase, pending, next, at, report, foreign, troubles>>

----------------------------------------------------------------------------
(* prepare_batch. *)

Preparing(c) == phase = "prepare" /\ next = c

Passed(c) ==
    /\ Preparing(c)
    /\ journal[c] = "completed" \/ (Fresh(c) /\ Granted(c))
    /\ next' = next + 1
    /\ UNCHANGED <<needs, asks, disk, answers, effects, phase, pending, used, at, report, foreign, troubles>>

(* No call of the batch is executed, and every one is answered with the error. *)
StopBatch(c) ==
    /\ Preparing(c)
    /\ \/ journal[c] = "started" /\ ~Fresh(c)
       \/ /\ Fresh(c) /\ ~Granted(c) /\ used < Len(answers)
          /\ Verdict(c, answers[used + 1]) \in {"deny", "invalid"}
    /\ phase' = "done"
    /\ report' = [x \in Items |-> "stopped"]
    /\ UNCHANGED <<needs, asks, disk, answers, effects, pending, next, used, at, foreign, troubles>>

(* What a request of a call without approval does next. *)
AskFor(c) ==
    /\ Fresh(c) /\ ~Granted(c)
    /\ IF used = Len(answers) THEN Interrupt(c)
       ELSE \/ Verdict(c, answers[used + 1]) = "other" /\ PassOver(c)
            \/ \E d \in {"allow_once", "allow_thread"} :
                 Verdict(c, answers[used + 1]) = d /\ Approve(c, d)

Execute ==
    /\ phase = "prepare" /\ next = NumCalls + 1
    /\ phase' = "execute"
    /\ at' = [at EXCEPT !["run"] = [c \in Calls |-> "waiting"]]
    /\ UNCHANGED <<needs, asks, disk, answers, effects, pending, next, used, report, foreign, troubles>>

Prepare == Execute \/ \E c \in Calls : Passed(c) \/ StopBatch(c) \/ (Preparing(c) /\ AskFor(c))

----------------------------------------------------------------------------
(* _invoke, by the node or by a coroutine it has left behind. *)

(* The lock of the call is free. *)
Enters(a, c) ==
    /\ at[a][c] = "waiting"
    /\ \A b \in Actors : at[b][c] \notin {"begun", "acted"}

(* A message goes to the node only from its own run. *)
Ends(a, c, r) ==
    /\ at' = [at EXCEPT ![a][c] = IF a = "run" THEN "over" ELSE "off"]
    /\ report' = IF a = "run" THEN [report EXCEPT ![c] = r] ELSE report

(* A journal settles the call before authorization. *)
Replayed(a, c) ==
    /\ Enters(a, c)
    /\ ~Fresh(c)
    /\ Ends(a, c, IF journal[c] = "completed" THEN result[c] ELSE "unknown")
    /\ UNCHANGED <<needs, asks, disk, answers, effects, phase, pending, next, used, foreign, troubles>>

Begin(a, c) ==
    /\ Enters(a, c)
    /\ Fresh(c) /\ Granted(c)
    /\ journal' = [journal EXCEPT ![c] = "started"]
    /\ at' = [at EXCEPT ![a][c] = "begun"]
    /\ UNCHANGED <<needs, asks, result, once, grants, answers, effects, phase, pending, next, used, report, foreign, troubles>>

(* A coroutine left behind finds its approval withdrawn, and gets nothing   *)
(* for its request. In the node's own run prepare_batch has just seen the   *)
(* approval, and only a stop, which ends that run, withdraws one: it never  *)
(* asks here (GrantsInv).                                                   *)
Refused(a, c) ==
    /\ a = "late" /\ Enters(a, c)
    /\ Fresh(c) /\ ~Granted(c)
    /\ Ends(a, c, "failed")
    /\ UNCHANGED <<needs, asks, disk, answers, effects, phase, pending, next, used, foreign, troubles>>

Act(a, c) ==
    /\ at[a][c] = "begun"
    /\ at' = [at EXCEPT ![a][c] = "acted"]
    /\ effects' = [effects EXCEPT ![c] = @ + 1]
    /\ UNCHANGED <<needs, asks, disk, answers, phase, pending, next, used, report, foreign, troubles>>

(* An operation may fail before or after its effect; both are results. *)
Complete(a, c) ==
    /\ at[a][c] \in {"begun", "acted"}
    /\ \E r \in {"failed"} \cup (IF at[a][c] = "acted" THEN {"ok"} ELSE {}) :
         /\ journal' = [journal EXCEPT ![c] = "completed"]
         /\ result' = [result EXCEPT ![c] = r]
         /\ Ends(a, c, r)
    /\ UNCHANGED <<needs, asks, once, grants, answers, effects, phase, pending, next, used, foreign, troubles>>

(* The result cannot be written: the journal stays started. *)
CompleteFails(a, c) ==
    /\ at[a][c] \in {"begun", "acted"}
    /\ troubles < MaxTroubles
    /\ troubles' = troubles + 1
    /\ Ends(a, c, "failed")
    /\ UNCHANGED <<needs, asks, disk, answers, effects, phase, pending, next, used, foreign>>

Invoke(a, c) ==
    Replayed(a, c) \/ Begin(a, c) \/ Refused(a, c) \/ Act(a, c) \/ Complete(a, c)

----------------------------------------------------------------------------
(* The rest of the node, and the user. *)

(* ask_user takes the answer at its position, whatever it was given to. *)
AskUser ==
    /\ phase = "execute" /\ asks /\ report[Question] = "none"
    /\ IF used = Len(answers) THEN Interrupt(Question)
       ELSE /\ used' = used + 1
            /\ report' = [report EXCEPT ![Question] =
                              IF answers[used + 1].to = Question THEN "ok" ELSE "failed"]
            /\ UNCHANGED <<needs, asks, disk, answers, effects, phase, pending, next, at, foreign, troubles>>

Finish ==
    /\ phase = "execute"
    /\ \A c \in Calls : at["run"][c] = "over"
    /\ asks => report[Question] # "none"
    /\ phase' = "done"
    /\ UNCHANGED <<needs, asks, disk, answers, effects, pending, next, used, at, report, foreign, troubles>>

(* The user answers what is pending, or something else (an old page). *)
Resume(a) ==
    /\ phase = "idle" /\ pending # Nothing
    /\ Len(answers) < MaxAnswers
    /\ answers' = Append(answers, a)
    /\ StartNode
    /\ UNCHANGED <<needs, asks, disk, effects, at, troubles>>

Answer == \E a \in AnswersTo(pending) : Resume(a) /\ UNCHANGED foreign

ForeignAnswer ==
    \E a \in Answers :
        /\ a.to # pending /\ foreign < MaxForeign
        /\ foreign' = foreign + 1
        /\ Resume(a)

(* The run is stopped: its calls are cancelled, and the grants of the       *)
(* conversation are withdrawn.                                              *)
Stop ==
    /\ phase # "done" /\ troubles < MaxTroubles
    /\ troubles' = troubles + 1
    /\ grants' = {}
    /\ phase' = "idle"
    /\ pending' = IF phase = "idle" THEN pending ELSE Nothing
    /\ at' = [at EXCEPT !["run"] = [c \in Calls |-> "off"]]
    /\ UNCHANGED <<needs, asks, journal, result, once, answers, effects, next, used, report, foreign>>

Crash ==
    /\ phase # "done" /\ troubles < MaxTroubles
    /\ troubles' = troubles + 1
    /\ phase' = "idle"
    /\ pending' = IF phase = "idle" THEN pending ELSE Nothing
    /\ at' = [a \in Actors |-> [c \in Calls |-> "off"]]
    /\ UNCHANGED <<needs, asks, disk, answers, effects, next, used, report, foreign>>

(* The run is resumed from its checkpoint, which is before the node. *)
Restart ==
    /\ phase = "idle" /\ pending = Nothing
    /\ StartNode
    /\ UNCHANGED <<needs, asks, disk, answers, effects, at, foreign, troubles>>

Next ==
    \/ Prepare \/ AskUser \/ Finish
    \/ \E a \in Actors, c \in Calls : Invoke(a, c) \/ CompleteFails(a, c)
    \/ Answer \/ ForeignAnswer \/ Stop \/ Crash \/ Restart

Spec == Init /\ [][Next]_vars

(* The event loop runs what can run, and the user answers and resumes. *)
FairSpec ==
    /\ Spec
    /\ WF_vars(Prepare) /\ WF_vars(AskUser) /\ WF_vars(Finish)
    /\ \A a \in Actors, c \in Calls : WF_vars(Invoke(a, c))
    /\ WF_vars(Answer) /\ WF_vars(Restart)

----------------------------------------------------------------------------
(* What the user has approved by now, by an answer to this very request, or *)
(* by one for the conversation.                                             *)
Approved(c) ==
    \/ needs[c] = Free
    \/ \E i \in DOMAIN answers :
         \/ answers[i] \in {[to |-> c, decision |-> "allow_once"],
                            [to |-> c, decision |-> "allow_thread"]}
         \/ \E d \in Calls : /\ needs[d] = needs[c]
                             /\ answers[i] = [to |-> d, decision |-> "allow_thread"]

(* Whatever is replayed, left behind, stopped or lost in a crash, a call    *)
(* takes effect at most once, and one that is reported as done has.         *)
EffectsOnce ==
    \A c \in Calls : effects[c] <= 1 /\ (report[c] = "ok" => effects[c] = 1)

(* "Authorize every operation before a batch can execute any effects": no   *)
(* call takes effect before the user has approved every call of the batch,  *)
(* and no answer to one request approves another.                           *)
ApprovedBeforeEffects ==
    (\E c \in Calls : effects[c] > 0) => \A d \in Calls : Approved(d)

(* A user who answers what is asked gets the node to its end, however many  *)
(* answers are replayed to requests they were not meant for.                *)
BatchSettles == <>(phase = "done")

(* A journal, an execution and an effect belong together. *)
JournalInv ==
    \A c \in Calls :
        /\ journal[c] = "none" =>
             effects[c] = 0 /\ \A a \in Actors : at[a][c] \notin {"begun", "acted"}
        /\ \A a \in Actors :
             /\ at[a][c] = "begun" => journal[c] = "started" /\ effects[c] = 0
             /\ at[a][c] = "acted" => journal[c] = "started" /\ effects[c] = 1
        /\ effects[c] <= 1
        /\ result[c] = "ok" => effects[c] = 1
        /\ report[c] = "ok" => effects[c] = 1
        /\ ~(at["run"][c] \in {"begun", "acted"} /\ at["late"][c] \in {"begun", "acted"})
(* What is granted was approved; so is what prepare_batch has passed; and   *)
(* nothing waits for its turn, or is journaled, before all is.              *)
ApprovalInv ==
    /\ \A c \in Calls : Granted(c) => Approved(c)
    /\ phase = "prepare" => \A c \in Calls : c < next => Approved(c)
    /\ \/ \A c \in Calls : Approved(c)
       \/ \A c \in Calls :
            /\ journal[c] = "none" /\ effects[c] = 0
            /\ \A a \in Actors : at[a][c] \in {"off", "over"}

(* A call that prepare_batch has passed, or that waits in the run of the    *)
(* node, is still granted, or another coroutine has begun it.               *)
GrantsInv ==
    /\ phase = "prepare" => \A c \in Calls : c < next => ~Fresh(c) \/ Granted(c)
    /\ \A c \in Calls : at["run"][c] = "waiting" => ~Fresh(c) \/ Granted(c)

IInv == TypeOK /\ JournalInv /\ ApprovalInv /\ GrantsInv
=============================================================================
