---------------------------- MODULE TaskLifecycle ----------------------------
(***************************************************************************)
(* What the background task manager promises about a task, without its      *)
(* coroutines: pending -> running -> an outcome, with returns to pending    *)
(* for retries; the stored row follows what is shown, and keeps the first   *)
(* outcome it gets; a restart forgets what was shown, fails the rows it     *)
(* finds unfinished, and recalls stored outcomes only.                      *)
(***************************************************************************)
CONSTANT Tasks

VARIABLES
    shown,   \* shown[t]: the status the manager reports, "none" if it knows no such task
    stored   \* stored[t]: the status of the persisted row

vars == <<shown, stored>>

Outcomes == {"completed", "failed", "cancelled"}

Init == shown = [t \in Tasks |-> "none"] /\ stored = [t \in Tasks |-> "none"]

Move(t, from, to) == shown[t] = from /\ shown' = [shown EXCEPT ![t] = to] /\ UNCHANGED stored

Accept(t) ==
    /\ shown[t] = "none" /\ stored[t] = "none"
    /\ stored' = [stored EXCEPT ![t] = "pending"]
    /\ UNCHANGED shown

Launch(t) == stored[t] = "pending" /\ Move(t, "none", "pending")
Start(t)  == Move(t, "pending", "running")
Retry(t)  == Move(t, "running", "pending")
Settle(t) == \E outcome \in Outcomes : Move(t, "running", outcome)

Store(t) ==
    /\ shown[t] # "none" /\ stored[t] \notin Outcomes
    /\ stored' = [stored EXCEPT ![t] = shown[t]]
    /\ UNCHANGED shown

Forget == shown' = [t \in Tasks |-> "none"] /\ UNCHANGED stored

FailInterrupted(t) ==
    /\ \A u \in Tasks : shown[u] = "none"
    /\ stored[t] \in {"pending", "running"}
    /\ stored' = [stored EXCEPT ![t] = "failed"]
    /\ UNCHANGED shown

Recall ==
    /\ \A t \in Tasks : shown[t] = "none"
    /\ \A t \in Tasks : shown'[t] # "none" => shown'[t] = stored[t] /\ stored[t] \in Outcomes
    /\ shown' \in [Tasks -> Outcomes \cup {"none"}]
    /\ UNCHANGED stored

Next ==
    \/ \E t \in Tasks : \/ Accept(t) \/ Launch(t) \/ Start(t) \/ Retry(t) \/ Settle(t)
                        \/ Store(t) \/ FailInterrupted(t)
    \/ Forget \/ Recall

Spec == Init /\ [][Next]_vars
=============================================================================
