------------------------- MODULE GitHubTasksProofs -------------------------
(***************************************************************************)
(* Proofs about GitHubTasks, for any deliveries, retries, writes and        *)
(* troubles: IInv is inductive, so no write into a registered workspace is   *)
(* lost and, as long as only agents take time, an issue has one agent.       *)
(***************************************************************************)
EXTENDS GitHubTasks, TLAPS

USE DEF Fault, Works, Goto, Ends, hooks, files, git, Nobody

(* The claim outlives the attempts: products the SMT solver needs spelled out. *)
LEMMA AttemptsFit ==
    ASSUME NEW n \in 0..MaxRetries
    PROVE  /\ n * TaskTimeout \in Nat
           /\ n * TaskTimeout + TaskTimeout <= ISSUE_TASK_CLAIM_TTL
           /\ (n + 1) * TaskTimeout = n * TaskTimeout + TaskTimeout
           /\ ISSUE_TASK_CLAIM_TTL \in Nat
<1>1. PICK k \in Nat : MaxRetries = n + k
  <2>1. MaxRetries - n \in Nat /\ MaxRetries = n + (MaxRetries - n)
    BY GitHubAssumption
  <2> QED BY <2>1
<1>2. TaskTimeout * (MaxRetries + 1) = n * TaskTimeout + k * TaskTimeout + TaskTimeout
  BY <1>1, GitHubAssumption
<1>3. k * TaskTimeout \in Nat /\ n * TaskTimeout \in Nat
  BY <1>1, GitHubAssumption
<1> QED BY <1>1, <1>2, <1>3, GitHubAssumption DEF ISSUE_TASK_CLAIM_TTL

LEMMA InitIInv == Init => IInv
<1> SUFFICES ASSUME Init PROVE IInv
  OBVIOUS
<1>1. TypeOK
  <2>1. attempt \in [Deliveries -> Attempts]
    BY GitHubAssumption DEF Init, Attempts
  <2>2. row \in [Deliveries -> Rows]
    BY DEF Init, Rows
  <2>3. tree \in [Deliveries -> Trees]
    BY DEF Init, Trees
  <2> QED BY <2>1, <2>2, <2>3 DEF Init, TypeOK, Places
<1>2. FilesInv
  BY DEF Init, FilesInv
<1>3. ClaimInv
  BY GitHubAssumption DEF Init, ClaimInv, Active, Handling, Running, Hooks
<1> QED BY <1>1, <1>2, <1>3 DEF IInv

(* Each variable keeps its type. *)
LEMMA PcTyped ==
    ASSUME TypeOK, [Next]_vars
    PROVE  pc' \in [Deliveries -> Places]
<1>1. ASSUME NEW d \in Deliveries, Deliver(d) PROVE pc' \in [Deliveries -> Places]
  BY <1>1 DEF TypeOK, Deliver, Places, Active, Handling, Running, Hooks
<1>2. ASSUME NEW d \in Deliveries, Claim(d) PROVE pc' \in [Deliveries -> Places]
  BY <1>2 DEF TypeOK, Claim, Places, Active, Handling, Running, Hooks
<1>3. ASSUME NEW d \in Deliveries, Accept(d) PROVE pc' \in [Deliveries -> Places]
  BY <1>3 DEF TypeOK, Accept, Places, Active, Handling, Running, Hooks
<1>4. ASSUME NEW d \in Deliveries, Prepare(d) PROVE pc' \in [Deliveries -> Places]
  BY <1>4 DEF TypeOK, Prepare, Places, Active, Handling, Running, Hooks
<1>5. ASSUME NEW d \in Deliveries, Submit(d) PROVE pc' \in [Deliveries -> Places]
  BY <1>5 DEF TypeOK, Submit, Bound, Places, Active, Handling, Running, Hooks
<1>6. ASSUME NEW d \in Deliveries, Undo(d) PROVE pc' \in [Deliveries -> Places]
  BY <1>6 DEF TypeOK, Undo, Removed, Places, Active, Handling, Running, Hooks
<1>7. ASSUME NEW d \in Deliveries, ReleaseClaim(d) PROVE pc' \in [Deliveries -> Places]
  BY <1>7 DEF TypeOK, ReleaseClaim, Places, Active, Handling, Running, Hooks
<1>8. ASSUME NEW d \in Deliveries, Start(d) PROVE pc' \in [Deliveries -> Places]
  BY <1>8 DEF TypeOK, Start, Bound, Places, Active, Handling, Running, Hooks
<1>9. ASSUME NEW d \in Deliveries, Write(d) PROVE pc' \in [Deliveries -> Places]
  BY <1>9 DEF TypeOK, Write, Places, Active, Handling, Running, Hooks
<1>10. ASSUME NEW d \in Deliveries, Persist(d) PROVE pc' \in [Deliveries -> Places]
  BY <1>10 DEF TypeOK, Persist, Saved, SavingFails, Places, Active, Handling, Running, Hooks
<1>11. ASSUME NEW d \in Deliveries, AgentReturns(d) PROVE pc' \in [Deliveries -> Places]
  BY <1>11 DEF TypeOK, AgentReturns, Places, Active, Handling, Running, Hooks
<1>12. ASSUME NEW d \in Deliveries, AttemptFails(d) PROVE pc' \in [Deliveries -> Places]
  BY <1>12 DEF TypeOK, AttemptFails, Places, Active, Handling, Running, Hooks
<1>13. ASSUME NEW d \in Deliveries, Publish(d) PROVE pc' \in [Deliveries -> Places]
  BY <1>13 DEF TypeOK, Publish, Saved, SavingFails, Places, Active, Handling, Running, Hooks
<1>14. ASSUME NEW d \in Deliveries, Push(d) PROVE pc' \in [Deliveries -> Places]
  BY <1>14 DEF TypeOK, Push, Pushed, Known, Places, Active, Handling, Running, Hooks
<1>15. ASSUME NEW d \in Deliveries, CleanUp(d) PROVE pc' \in [Deliveries -> Places]
  BY <1>15 DEF TypeOK, CleanUp, Saved, SavingFails, Places, Active, Handling, Running, Hooks
<1>16. ASSUME NEW d \in Deliveries, Discard(d) PROVE pc' \in [Deliveries -> Places]
  BY <1>16 DEF TypeOK, Discard, Removed, Places, Active, Handling, Running, Hooks
<1>17. ASSUME NEW d \in Deliveries, Cancel(d) PROVE pc' \in [Deliveries -> Places]
  BY <1>17 DEF TypeOK, Cancel, Pushed, SavingFails, Removed, Places, Active, Handling, Running, Hooks
<1>18. ASSUME Restart PROVE pc' \in [Deliveries -> Places]
  BY <1>18 DEF TypeOK, Restart, Preserved, Places, Active, Handling, Running, Hooks
<1>19. ASSUME            \/ (\E d \in Deliveries : Save(d))
           \/ UserPushes
           \/ Tick
           \/ UNCHANGED vars
    PROVE pc' \in [Deliveries -> Places]
  BY <1>19 DEF TypeOK, vars, Save, UserPushes, Tick
<1> QED
  BY <1>1, <1>2, <1>3, <1>4, <1>5, <1>6, <1>7, <1>8, <1>9, <1>10, <1>11, <1>12, <1>13, <1>14, <1>15, <1>16, <1>17, <1>18, <1>19 DEF Next, Handle, Run

LEMMA ClaimTyped ==
    ASSUME TypeOK, [Next]_vars
    PROVE  claim' \in [of : Deliveries \cup {Nobody}, age : Nat]
<1>1. ASSUME NEW d \in Deliveries, Claim(d) PROVE claim' \in [of : Deliveries \cup {Nobody}, age : Nat]
  BY <1>1 DEF TypeOK, Claim
<1>2. ASSUME NEW d \in Deliveries, ReleaseClaim(d) PROVE claim' \in [of : Deliveries \cup {Nobody}, age : Nat]
  BY <1>2 DEF TypeOK, ReleaseClaim
<1>3. ASSUME Tick PROVE claim' \in [of : Deliveries \cup {Nobody}, age : Nat]
  BY <1>3 DEF TypeOK, Tick, Working, Overhead
<1>4. ASSUME            \/ (\E d \in Deliveries : Deliver(d) \/ Accept(d) \/ Prepare(d) \/ Submit(d) \/ Undo(d) \/ Start(d) \/ Save(d) \/ Write(d) \/ Persist(d) \/ AgentReturns(d) \/ AttemptFails(d) \/ Publish(d) \/ Push(d) \/ CleanUp(d) \/ Discard(d) \/ Cancel(d))
           \/ Restart
           \/ UserPushes
           \/ UNCHANGED vars
    PROVE claim' \in [of : Deliveries \cup {Nobody}, age : Nat]
  BY <1>4 DEF TypeOK, vars, Deliver, Accept, Prepare, Submit, Undo, Start, Save, Write, Persist, AgentReturns, AttemptFails, Publish, Push, CleanUp, Discard, Cancel, Restart, UserPushes
<1> QED
  BY <1>1, <1>2, <1>3, <1>4 DEF Next, Handle, Run

LEMMA AttemptTyped ==
    ASSUME TypeOK, [Next]_vars
    PROVE  attempt' \in [Deliveries -> Attempts]
<1>1. ASSUME NEW d \in Deliveries, AgentReturns(d) PROVE attempt' \in [Deliveries -> Attempts]
  BY <1>1, GitHubAssumption DEF TypeOK, AgentReturns, Attempts
<1>2. ASSUME NEW d \in Deliveries, AttemptFails(d) PROVE attempt' \in [Deliveries -> Attempts]
  <2>1. attempt[d] \in Attempts /\ attempt \in [Deliveries -> Attempts]
    BY DEF TypeOK
  <2> QED BY <1>2, <2>1, GitHubAssumption DEF AttemptFails, Attempts
<1>3. ASSUME NEW d \in Deliveries, Cancel(d) PROVE attempt' \in [Deliveries -> Attempts]
  BY <1>3, GitHubAssumption DEF TypeOK, Cancel, Pushed, SavingFails, Removed, Attempts
<1>4. ASSUME Restart PROVE attempt' \in [Deliveries -> Attempts]
  BY <1>4, GitHubAssumption DEF TypeOK, Restart, Preserved, Attempts
<1>5. ASSUME Tick PROVE attempt' \in [Deliveries -> Attempts]
  BY <1>5, GitHubAssumption DEF TypeOK, Tick, Working, Overhead, Attempts
<1>6. ASSUME            \/ (\E d \in Deliveries : Deliver(d) \/ Claim(d) \/ Accept(d) \/ Prepare(d) \/ Submit(d) \/ Undo(d) \/ ReleaseClaim(d) \/ Start(d) \/ Save(d) \/ Write(d) \/ Persist(d) \/ Publish(d) \/ Push(d) \/ CleanUp(d) \/ Discard(d))
           \/ UserPushes
           \/ UNCHANGED vars
    PROVE attempt' \in [Deliveries -> Attempts]
  BY <1>6 DEF TypeOK, vars, Deliver, Claim, Accept, Prepare, Submit, Undo, ReleaseClaim, Start, Save, Write, Persist, Publish, Push, CleanUp, Discard, UserPushes
<1> QED
  BY <1>1, <1>2, <1>3, <1>4, <1>5, <1>6 DEF Next, Handle, Run

(* What an action does to one row or one tree keeps their types. *)
LEMMA RowEffects ==
    ASSUME TypeOK, NEW d \in Deliveries
    PROVE  /\ Bound(d) => row' \in [Deliveries -> Rows]
           /\ Saved(d) => row' \in [Deliveries -> Rows]
           /\ SavingFails(d) => row' \in [Deliveries -> Rows]
           /\ row' = [row EXCEPT ![d].status = "dirty"] => row' \in [Deliveries -> Rows]
           /\ UNCHANGED row => row' \in [Deliveries -> Rows]
<1>1. row \in [Deliveries -> Rows] /\ row[d] \in Rows /\ tree[d].files \in Nat
  BY DEF TypeOK, Trees
<1>2. [row[d] EXCEPT !.bound = TRUE] \in Rows
  BY <1>1 DEF Rows
<1>3. [row[d] EXCEPT !.saved = tree[d].files, !.status = "clean"] \in Rows
  BY <1>1 DEF Rows
<1>4. [row[d] EXCEPT !.status = "error"] \in Rows
  BY <1>1 DEF Rows
<1>5. [row[d] EXCEPT !.status = "dirty"] \in Rows
  BY <1>1 DEF Rows
<1>6. ASSUME Saved(d) PROVE row' \in [Deliveries -> Rows]
  <2>1. row' = [row EXCEPT ![d] = [row[d] EXCEPT !.saved = tree[d].files, !.status = "clean"]]
    BY <1>1, <1>6 DEF Saved, Rows
  <2> QED BY <2>1, <1>1, <1>3
<1> QED BY <1>1, <1>2, <1>4, <1>5, <1>6 DEF Bound, SavingFails

LEMMA TreeEffects ==
    ASSUME TypeOK, NEW d \in Deliveries
    PROVE  /\ Removed(d) => tree' \in [Deliveries -> Trees]
           /\ UNCHANGED tree => tree' \in [Deliveries -> Trees]
<1>1. tree \in [Deliveries -> Trees] /\ [tree[d] EXCEPT !.there = FALSE] \in Trees
  BY DEF TypeOK, Trees
<1> QED BY <1>1 DEF Removed

LEMMA TreeTyped ==
    ASSUME TypeOK, [Next]_vars
    PROVE  tree' \in [Deliveries -> Trees]
<1>1. ASSUME NEW d \in Deliveries, Prepare(d) PROVE tree' \in [Deliveries -> Trees]
  <2>1. [there |-> TRUE, files |-> 0] \in Trees
    BY DEF Trees
  <2> QED BY <1>1, <2>1 DEF TypeOK, Prepare
<1>2. ASSUME NEW d \in Deliveries, Undo(d) PROVE tree' \in [Deliveries -> Trees]
  BY <1>2, TreeEffects DEF Undo, TypeOK
<1>3. ASSUME NEW d \in Deliveries, Write(d) PROVE tree' \in [Deliveries -> Trees]
  <2>1. tree \in [Deliveries -> Trees]
    BY DEF TypeOK
  <2>2. [tree[d] EXCEPT !.files = @ + 1] \in Trees
    BY <1>3, <2>1 DEF Write, Trees
  <2> QED BY <1>3, <2>1, <2>2 DEF Write
<1>4. ASSUME NEW d \in Deliveries, Discard(d) PROVE tree' \in [Deliveries -> Trees]
  BY <1>4, TreeEffects DEF Discard, TypeOK
<1>5. ASSUME NEW d \in Deliveries, Cancel(d) PROVE tree' \in [Deliveries -> Trees]
  BY <1>5, TreeEffects DEF Cancel
<1>6. ASSUME Restart PROVE tree' \in [Deliveries -> Trees]
  <2>1. \A left : \A d \in Deliveries : [tree[d] EXCEPT !.there = d \in left] \in Trees
    <3> SUFFICES ASSUME NEW left, NEW d \in Deliveries PROVE [tree[d] EXCEPT !.there = d \in left] \in Trees
      OBVIOUS
    <3>1. tree[d] \in Trees /\ (d \in left) \in BOOLEAN
      BY DEF TypeOK
    <3> QED BY <3>1 DEF Trees
  <2> QED BY <1>6, <2>1 DEF Restart
<1>7. ASSUME            \/ (\E d \in Deliveries : Deliver(d) \/ Claim(d) \/ Accept(d) \/ Submit(d) \/ ReleaseClaim(d) \/ Start(d) \/ Save(d) \/ Persist(d) \/ AgentReturns(d) \/ AttemptFails(d) \/ Publish(d) \/ Push(d) \/ CleanUp(d))
           \/ UserPushes
           \/ Tick
           \/ UNCHANGED vars
    PROVE tree' \in [Deliveries -> Trees]
  BY <1>7 DEF TypeOK, vars, Deliver, Claim, Accept, Submit, ReleaseClaim, Start, Save, Persist, AgentReturns, AttemptFails, Publish, Push, CleanUp, UserPushes, Tick
<1> QED
  BY <1>1, <1>2, <1>3, <1>4, <1>5, <1>6, <1>7 DEF Next, Handle, Run

LEMMA RowTyped ==
    ASSUME TypeOK, [Next]_vars
    PROVE  row' \in [Deliveries -> Rows]
<1>1. ASSUME NEW d \in Deliveries, Submit(d) PROVE row' \in [Deliveries -> Rows]
  BY <1>1, RowEffects DEF Submit
<1>2. ASSUME NEW d \in Deliveries, Start(d) PROVE row' \in [Deliveries -> Rows]
  BY <1>2, RowEffects DEF Start
<1>3. ASSUME NEW d \in Deliveries, Save(d) PROVE row' \in [Deliveries -> Rows]
  BY <1>3, RowEffects DEF Save
<1>4. ASSUME NEW d \in Deliveries, Write(d) PROVE row' \in [Deliveries -> Rows]
  BY <1>4, RowEffects DEF Write
<1>5. ASSUME NEW d \in Deliveries, Persist(d) PROVE row' \in [Deliveries -> Rows]
  BY <1>5, RowEffects DEF Persist
<1>6. ASSUME NEW d \in Deliveries, Publish(d) PROVE row' \in [Deliveries -> Rows]
  BY <1>6, RowEffects DEF Publish
<1>7. ASSUME NEW d \in Deliveries, CleanUp(d) PROVE row' \in [Deliveries -> Rows]
  BY <1>7, RowEffects DEF CleanUp
<1>8. ASSUME NEW d \in Deliveries, Cancel(d) PROVE row' \in [Deliveries -> Rows]
  BY <1>8, RowEffects DEF Cancel
<1>9. ASSUME            \/ (\E d \in Deliveries : Deliver(d) \/ Claim(d) \/ Accept(d) \/ Prepare(d) \/ Undo(d) \/ ReleaseClaim(d) \/ AgentReturns(d) \/ AttemptFails(d) \/ Push(d) \/ Discard(d))
           \/ Restart
           \/ UserPushes
           \/ Tick
           \/ UNCHANGED vars
    PROVE row' \in [Deliveries -> Rows]
  BY <1>9 DEF TypeOK, vars, Deliver, Claim, Accept, Prepare, Undo, ReleaseClaim, AgentReturns, AttemptFails, Push, Discard, Restart, UserPushes, Tick
<1> QED
  BY <1>1, <1>2, <1>3, <1>4, <1>5, <1>6, <1>7, <1>8, <1>9 DEF Next, Handle, Run

LEMMA GitTyped ==
    ASSUME TypeOK, [Next]_vars
    PROVE  {remote, tracking}' \subseteq SUBSET (Deliveries \cup {User}) /\ base' \in [Deliveries -> SUBSET (Deliveries \cup {User})]
<1>1. ASSUME NEW d \in Deliveries, Prepare(d) PROVE {remote, tracking}' \subseteq SUBSET (Deliveries \cup {User}) /\ base' \in [Deliveries -> SUBSET (Deliveries \cup {User})]
  BY <1>1 DEF TypeOK, Prepare
<1>2. ASSUME NEW d \in Deliveries, Push(d) PROVE {remote, tracking}' \subseteq SUBSET (Deliveries \cup {User}) /\ base' \in [Deliveries -> SUBSET (Deliveries \cup {User})]
  BY <1>2 DEF TypeOK, Push, Pushed, Known
<1>3. ASSUME NEW d \in Deliveries, Cancel(d) PROVE {remote, tracking}' \subseteq SUBSET (Deliveries \cup {User}) /\ base' \in [Deliveries -> SUBSET (Deliveries \cup {User})]
  BY <1>3 DEF TypeOK, Cancel, Pushed, SavingFails, Removed
<1>4. ASSUME UserPushes PROVE {remote, tracking}' \subseteq SUBSET (Deliveries \cup {User}) /\ base' \in [Deliveries -> SUBSET (Deliveries \cup {User})]
  BY <1>4 DEF TypeOK, UserPushes
<1>5. ASSUME            \/ (\E d \in Deliveries : Deliver(d) \/ Claim(d) \/ Accept(d) \/ Submit(d) \/ Undo(d) \/ ReleaseClaim(d) \/ Start(d) \/ Save(d) \/ Write(d) \/ Persist(d) \/ AgentReturns(d) \/ AttemptFails(d) \/ Publish(d) \/ CleanUp(d) \/ Discard(d))
           \/ Restart
           \/ Tick
           \/ UNCHANGED vars
    PROVE {remote, tracking}' \subseteq SUBSET (Deliveries \cup {User}) /\ base' \in [Deliveries -> SUBSET (Deliveries \cup {User})]
  BY <1>5 DEF TypeOK, vars, Deliver, Claim, Accept, Submit, Undo, ReleaseClaim, Start, Save, Write, Persist, AgentReturns, AttemptFails, Publish, CleanUp, Discard, Restart, Tick
<1> QED
  BY <1>1, <1>2, <1>3, <1>4, <1>5 DEF Next, Handle, Run

LEMMA TypeNext == TypeOK /\ [Next]_vars => TypeOK'
<1> SUFFICES ASSUME TypeOK, [Next]_vars PROVE TypeOK'
  OBVIOUS
<1>1. event' = event
  BY DEF Next, vars
<1>2. seen' \subseteq Deliveries /\ slow' \in BOOLEAN /\ spent' \in Nat
  <2>1. CASE UNCHANGED vars
    BY <2>1 DEF TypeOK, vars
  <2>2. CASE Next
    <3>1. ASSUME NEW d \in Deliveries, Handle(d) PROVE seen' \subseteq Deliveries /\ slow' \in BOOLEAN /\ spent' \in Nat
      BY <3>1 DEF TypeOK, Handle, Deliver, Claim, Accept, Prepare, Submit, Undo, ReleaseClaim
    <3>2. ASSUME NEW d \in Deliveries, Run(d) PROVE seen' \subseteq Deliveries /\ slow' \in BOOLEAN /\ spent' \in Nat
      BY <3>2 DEF TypeOK, Run, Start, Save, Write, Persist, AgentReturns, AttemptFails, Publish, Push, CleanUp, Discard, Cancel
    <3>3. ASSUME Restart \/ UserPushes \/ Tick PROVE seen' \subseteq Deliveries /\ slow' \in BOOLEAN /\ spent' \in Nat
      <4>1. CASE Restart \/ UserPushes
        BY <4>1 DEF TypeOK, Restart, UserPushes
      <4>2. CASE Tick
        <5>1. slow' \in BOOLEAN
          BY <4>2, Zenon DEF Tick
        <5> QED BY <4>2, <5>1 DEF TypeOK, Tick
      <4> QED BY <3>3, <4>1, <4>2
    <3> QED BY <2>2, <3>1, <3>2, <3>3 DEF Next
  <2> QED BY <2>1, <2>2
<1> QED
  BY <1>1, <1>2, PcTyped, ClaimTyped, AttemptTyped, TreeTyped, RowTyped, GitTyped DEF TypeOK

(* What an action does to the files of its delivery. *)
LEMMA Others ==
    ASSUME TypeOK, FilesInv, NEW d \in Deliveries,
           \A e \in Deliveries \ {d} : row'[e] = row[e] /\ tree'[e] = tree[e] /\ pc'[e] = pc[e],
           /\ row'[d].bound /\ (row'[d].status = "clean" \/ pc'[d] = "discard" \/ ~tree'[d].there)
                 => row'[d].saved = tree'[d].files \/ tree'[d].files = 0
           /\ ~row'[d].bound => row'[d].status = "dirty" /\ pc'[d] # "written"
           /\ pc'[d] \in {"none", "seen", "accepted", "prepared", "undo"} => tree'[d].files = 0
           /\ pc'[d] \in {"none", "seen", "accepted", "prepared"} => ~row'[d].bound
           /\ pc'[d] \in {"prepared", "start", "agent", "written"} => tree'[d].there
    PROVE  FilesInv'
<1> SUFFICES ASSUME NEW e \in Deliveries
             PROVE  /\ row'[e].bound /\ (row'[e].status = "clean" \/ pc'[e] = "discard" \/ ~tree'[e].there)
                          => row'[e].saved = tree'[e].files \/ tree'[e].files = 0
                    /\ ~row'[e].bound => row'[e].status = "dirty" /\ pc'[e] # "written"
                    /\ pc'[e] \in {"none", "seen", "accepted", "prepared", "undo"} => tree'[e].files = 0
                    /\ pc'[e] \in {"none", "seen", "accepted", "prepared"} => ~row'[e].bound
                    /\ pc'[e] \in {"prepared", "start", "agent", "written"} => tree'[e].there
  BY DEF FilesInv
<1>1. CASE e = d
  BY <1>1
<1>2. CASE e # d
  BY <1>2 DEF FilesInv
<1> QED BY <1>1, <1>2

(* What is in a row, and in a tree, after a registration, a save and a removal. *)
LEMMA RowOf ==
    ASSUME TypeOK, NEW d \in Deliveries
    PROVE  /\ Bound(d) => /\ \A e \in Deliveries \ {d} : row'[e] = row[e]
                          /\ row'[d].bound /\ row'[d].saved = row[d].saved /\ row'[d].status = row[d].status
           /\ Saved(d) => /\ \A e \in Deliveries \ {d} : row'[e] = row[e]
                          /\ row'[d].bound = row[d].bound /\ row'[d].saved = tree[d].files /\ row'[d].status = "clean"
           /\ SavingFails(d) => /\ \A e \in Deliveries \ {d} : row'[e] = row[e]
                                /\ row'[d].bound = row[d].bound /\ row'[d].saved = row[d].saved /\ row'[d].status = "error"
           /\ row' = [row EXCEPT ![d].status = "dirty"] =>
                                /\ \A e \in Deliveries \ {d} : row'[e] = row[e]
                                /\ row'[d].bound = row[d].bound /\ row'[d].saved = row[d].saved /\ row'[d].status = "dirty"
<1>1. row \in [Deliveries -> Rows] /\ row[d] \in Rows
  BY DEF TypeOK
<1>2. ASSUME Bound(d)
      PROVE  /\ \A e \in Deliveries \ {d} : row'[e] = row[e]
             /\ row'[d].bound /\ row'[d].saved = row[d].saved /\ row'[d].status = row[d].status
  BY <1>1, <1>2 DEF Bound, Rows
<1>3. ASSUME Saved(d)
      PROVE  /\ \A e \in Deliveries \ {d} : row'[e] = row[e]
             /\ row'[d].bound = row[d].bound /\ row'[d].saved = tree[d].files /\ row'[d].status = "clean"
  <2>1. row' = [row EXCEPT ![d] = [row[d] EXCEPT !.saved = tree[d].files, !.status = "clean"]]
    BY <1>1, <1>3 DEF Saved, Rows
  <2> QED BY <2>1, <1>1 DEF Rows
<1>4. ASSUME SavingFails(d)
      PROVE  /\ \A e \in Deliveries \ {d} : row'[e] = row[e]
             /\ row'[d].bound = row[d].bound /\ row'[d].saved = row[d].saved /\ row'[d].status = "error"
  BY <1>1, <1>4 DEF SavingFails, Rows
<1>5. ASSUME row' = [row EXCEPT ![d].status = "dirty"]
      PROVE  /\ \A e \in Deliveries \ {d} : row'[e] = row[e]
             /\ row'[d].bound = row[d].bound /\ row'[d].saved = row[d].saved /\ row'[d].status = "dirty"
  BY <1>1, <1>5 DEF Rows
<1> QED BY <1>2, <1>3, <1>4, <1>5

LEMMA TreeOf ==
    ASSUME TypeOK, NEW d \in Deliveries
    PROVE  /\ Removed(d) => /\ \A e \in Deliveries \ {d} : tree'[e] = tree[e]
                            /\ ~tree'[d].there /\ tree'[d].files = tree[d].files
           /\ tree' = [tree EXCEPT ![d].files = @ + 1] =>
                            /\ \A e \in Deliveries \ {d} : tree'[e] = tree[e]
                            /\ tree'[d].there = tree[d].there /\ tree'[d].files = tree[d].files + 1
           /\ tree[d].files \in Nat
  BY DEF TypeOK, Trees, Removed

LEMMA FilesNext == TypeOK /\ FilesInv /\ [Next]_vars => FilesInv'
<1> SUFFICES ASSUME TypeOK, FilesInv, [Next]_vars PROVE FilesInv'
  OBVIOUS
<1>1. ASSUME NEW d \in Deliveries, Deliver(d) PROVE FilesInv'
  BY <1>1, Others, RowOf, TreeOf DEF TypeOK, FilesInv, Deliver
<1>2. ASSUME NEW d \in Deliveries, Claim(d) PROVE FilesInv'
  BY <1>2, Others, RowOf, TreeOf DEF TypeOK, FilesInv, Claim
<1>3. ASSUME NEW d \in Deliveries, Accept(d) PROVE FilesInv'
  BY <1>3, Others, RowOf, TreeOf DEF TypeOK, FilesInv, Accept
<1>4. ASSUME NEW d \in Deliveries, Prepare(d) PROVE FilesInv'
  BY <1>4, Others, RowOf, TreeOf DEF TypeOK, FilesInv, Prepare
<1>5. ASSUME NEW d \in Deliveries, Submit(d) PROVE FilesInv'
  BY <1>5, Others, RowOf, TreeOf DEF TypeOK, FilesInv, Submit
<1>6. ASSUME NEW d \in Deliveries, Undo(d) PROVE FilesInv'
  BY <1>6, Others, RowOf, TreeOf DEF TypeOK, FilesInv, Undo
<1>7. ASSUME NEW d \in Deliveries, ReleaseClaim(d) PROVE FilesInv'
  BY <1>7, Others, RowOf, TreeOf DEF TypeOK, FilesInv, ReleaseClaim
<1>8. ASSUME NEW d \in Deliveries, Start(d) PROVE FilesInv'
  BY <1>8, Others, RowOf, TreeOf DEF TypeOK, FilesInv, Start
<1>9. ASSUME NEW d \in Deliveries, Save(d) PROVE FilesInv'
  BY <1>9, Others, RowOf, TreeOf DEF TypeOK, FilesInv, Save
<1>10. ASSUME NEW d \in Deliveries, Write(d) PROVE FilesInv'
  BY <1>10, Others, RowOf, TreeOf DEF TypeOK, FilesInv, Write
<1>11. ASSUME NEW d \in Deliveries, Persist(d) PROVE FilesInv'
  BY <1>11, Others, RowOf, TreeOf DEF TypeOK, FilesInv, Persist
<1>12. ASSUME NEW d \in Deliveries, AgentReturns(d) PROVE FilesInv'
  BY <1>12, Others, RowOf, TreeOf DEF TypeOK, FilesInv, AgentReturns
<1>13. ASSUME NEW d \in Deliveries, AttemptFails(d) PROVE FilesInv'
  BY <1>13, Others, RowOf, TreeOf DEF TypeOK, FilesInv, AttemptFails
<1>14. ASSUME NEW d \in Deliveries, Publish(d) PROVE FilesInv'
  BY <1>14, Others, RowOf, TreeOf DEF TypeOK, FilesInv, Publish
<1>15. ASSUME NEW d \in Deliveries, Push(d) PROVE FilesInv'
  BY <1>15, Others, RowOf, TreeOf DEF TypeOK, FilesInv, Push
<1>16. ASSUME NEW d \in Deliveries, CleanUp(d) PROVE FilesInv'
  BY <1>16, Others, RowOf, TreeOf DEF TypeOK, FilesInv, CleanUp
<1>17. ASSUME NEW d \in Deliveries, Discard(d) PROVE FilesInv'
  BY <1>17, Others, RowOf, TreeOf DEF TypeOK, FilesInv, Discard
<1>18. ASSUME NEW d \in Deliveries, Cancel(d) PROVE FilesInv'
  BY <1>18, Others, RowOf, TreeOf DEF TypeOK, FilesInv, Cancel
<1>19. CASE Restart
  <2>1. PICK left \in SUBSET {d \in Deliveries : tree[d].there} :
          /\ {d \in Deliveries : tree[d].there /\ Preserved(d)} \subseteq left
          /\ tree' = [d \in Deliveries |-> [tree[d] EXCEPT !.there = d \in left]]
    BY <1>19 DEF Restart
  <2>2. \A d \in Deliveries : tree'[d].there = (d \in left) /\ tree'[d].files = tree[d].files
    BY <2>1 DEF TypeOK, Trees
  <2>3. \A d \in Deliveries : pc'[d] \in {"none", "over"} /\ (pc'[d] = "none" => pc[d] = "none")
    BY <1>19 DEF Restart, TypeOK, Places
  <2>4. row' = row
    BY <1>19 DEF Restart
  <2>5. ASSUME NEW d \in Deliveries, row[d].bound, d \notin left
        PROVE  row[d].saved = tree[d].files \/ tree[d].files = 0
    <3>1. ~tree[d].there \/ ~Preserved(d)
      BY <2>1, <2>5
    <3>2. row[d].status \in {"dirty", "clean", "error"}
      BY DEF TypeOK, Rows
    <3> QED BY <2>5, <3>1, <3>2 DEF Preserved, FilesInv
  <2>6. \A d \in Deliveries : row[d].bound /\ row[d].status = "clean" => row[d].saved = tree[d].files \/ tree[d].files = 0
    BY DEF FilesInv
  <2> QED BY <2>2, <2>3, <2>4, <2>5, <2>6 DEF FilesInv
<1>20. CASE UserPushes \/ Tick \/ UNCHANGED vars
  BY <1>20 DEF FilesInv, UserPushes, Tick, vars
<1> QED
  BY <1>1, <1>2, <1>3, <1>4, <1>5, <1>6, <1>7, <1>8, <1>9, <1>10, <1>11, <1>12, <1>13, <1>14, <1>15, <1>16, <1>17, <1>18, <1>19, <1>20 DEF Next, Handle, Run

(* ClaimInv of one delivery: about its attempt, and about the claim. *)
Clocked(d) ==
    /\ attempt[d].clock <= TaskTimeout
    /\ pc[d] \notin Running => attempt[d].clock = 0
    /\ pc[d] \notin Running \cup {"start"} => attempt[d].number = 0

Claims(d) ==
    /\ pc[d] \in Active \ {"seen"} => claim.of = d /\ claim.age <= ISSUE_TASK_CLAIM_TTL
    /\ pc[d] \in Handling \ {"seen"} => claim.age = 0
    /\ pc[d] \in Running \cup {"start"} => claim.age <= attempt[d].number * TaskTimeout + attempt[d].clock

LEMMA ClaimInvOf ==
    ClaimInv <=> /\ \A d \in Deliveries : Clocked(d)
                 /\ ~slow => \A d \in Deliveries : Issue(d) => Claims(d)
BY DEF ClaimInv, Clocked, Claims

(* A step of one delivery that leaves the claim alone, and the other attempts. *)
LEMMA OneMoves ==
    ASSUME TypeOK, ClaimInv, UNCHANGED <<event, claim, slow>>, NEW d \in Deliveries,
           \A e \in Deliveries \ {d} : attempt'[e] = attempt[e] /\ pc'[e] = pc[e],
           Clocked(d)',
           ~slow /\ Issue(d) => Claims(d)'
    PROVE  ClaimInv'
<1>1. \A e \in Deliveries : Clocked(e)'
  BY ClaimInvOf DEF Clocked
<1>2. ASSUME ~slow, NEW e \in Deliveries, Issue(e), e # d PROVE Claims(e)'
  <2>1. Claims(e)
    BY <1>2, ClaimInvOf
  <2> QED BY <1>2, <2>1 DEF Claims
<1>3. ~slow' => \A e \in Deliveries : Issue(e)' => Claims(e)'
  BY <1>2 DEF Issue
<1> QED BY <1>1, <1>3 DEF ClaimInv, Clocked, Claims

(* An attempt that begins anew has not run, and is the first once its task ends. *)
LEMMA AttemptOf ==
    ASSUME TypeOK, NEW d \in Deliveries, NEW place
    PROVE  /\ attempt[d].number \in 0..MaxRetries /\ attempt[d].clock \in Nat
           /\ Ends(d, place) => /\ \A e \in Deliveries \ {d} : attempt'[e] = attempt[e] /\ pc'[e] = pc[e]
                                /\ pc'[d] = place /\ attempt'[d].number = 0 /\ attempt'[d].clock = 0
           /\ attempt' = [attempt EXCEPT ![d] = [number |-> @.number + 1, clock |-> 0]]
                => /\ \A e \in Deliveries \ {d} : attempt'[e] = attempt[e]
                   /\ attempt'[d].number = attempt[d].number + 1 /\ attempt'[d].clock = 0
BY DEF TypeOK, Attempts

LEMMA ClaimNext == TypeOK /\ ClaimInv /\ [Next]_vars => ClaimInv'
<1> SUFFICES ASSUME TypeOK, ClaimInv, [Next]_vars PROVE ClaimInv'
  OBVIOUS
<1>e. event' = event
  BY DEF Next, vars
<1>c. \A d \in Deliveries : Clocked(d) /\ (~slow /\ Issue(d) => Claims(d))
  BY ClaimInvOf
<1>z. 0 * TaskTimeout = 0 /\ 0 \in 0..MaxRetries /\ TaskTimeout \in Nat /\ MaxRetries \in Nat
  BY GitHubAssumption
<1>1. ASSUME NEW d \in Deliveries, Deliver(d) PROVE ClaimInv'
  <2>1. Clocked(d)' /\ (~slow /\ Issue(d) => Claims(d)')
    BY <1>1, <1>e, <1>c, AttemptsFit, GitHubAssumption DEF TypeOK, Attempts, Deliver, Clocked, Claims, Issue, Active, Handling, Running, Hooks
  <2> QED BY <1>1, <1>e, <2>1, OneMoves DEF TypeOK, Deliver
<1>2. ASSUME NEW d \in Deliveries, Accept(d) PROVE ClaimInv'
  <2>1. Clocked(d)' /\ (~slow /\ Issue(d) => Claims(d)')
    BY <1>2, <1>e, <1>c, AttemptsFit, GitHubAssumption DEF TypeOK, Attempts, Accept, Clocked, Claims, Issue, Active, Handling, Running, Hooks
  <2> QED BY <1>2, <1>e, <2>1, OneMoves DEF TypeOK, Accept
<1>3. ASSUME NEW d \in Deliveries, Prepare(d) PROVE ClaimInv'
  <2>1. Clocked(d)' /\ (~slow /\ Issue(d) => Claims(d)')
    <3>1. pc[d] = "accepted" /\ pc'[d] \in {"prepared", "raising"} /\ UNCHANGED <<attempt, claim, slow>>
      BY <1>3 DEF TypeOK, Prepare
    <3> QED BY <3>1, <1>e, <1>c DEF Clocked, Claims, Issue, Active, Handling, Running, Hooks
  <2> QED BY <1>3, <1>e, <2>1, OneMoves DEF TypeOK, Prepare
<1>4. ASSUME NEW d \in Deliveries, Submit(d) PROVE ClaimInv'
  <2>1. Clocked(d)' /\ (~slow /\ Issue(d) => Claims(d)')
    BY <1>4, <1>e, <1>c, <1>z, AttemptOf DEF TypeOK, Attempts, Submit, Clocked, Claims, Issue, Active, Handling, Running, Hooks
  <2> QED BY <1>4, <1>e, <2>1, OneMoves DEF TypeOK, Submit
<1>5. ASSUME NEW d \in Deliveries, Undo(d) PROVE ClaimInv'
  <2>1. Clocked(d)' /\ (~slow /\ Issue(d) => Claims(d)')
    BY <1>5, <1>e, <1>c, AttemptsFit, GitHubAssumption DEF TypeOK, Attempts, Undo, Clocked, Claims, Issue, Active, Handling, Running, Hooks
  <2> QED BY <1>5, <1>e, <2>1, OneMoves DEF TypeOK, Undo
<1>6. ASSUME NEW d \in Deliveries, Start(d) PROVE ClaimInv'
  <2>1. Clocked(d)' /\ (~slow /\ Issue(d) => Claims(d)')
    BY <1>6, <1>e, <1>c, AttemptsFit, GitHubAssumption DEF TypeOK, Attempts, Start, Clocked, Claims, Issue, Active, Handling, Running, Hooks
  <2> QED BY <1>6, <1>e, <2>1, OneMoves DEF TypeOK, Start
<1>7. ASSUME NEW d \in Deliveries, Save(d) PROVE ClaimInv'
  <2>1. Clocked(d)' /\ (~slow /\ Issue(d) => Claims(d)')
    BY <1>7, <1>e, <1>c, AttemptsFit, GitHubAssumption DEF TypeOK, Attempts, Save, Clocked, Claims, Issue, Active, Handling, Running, Hooks
  <2> QED BY <1>7, <1>e, <2>1, OneMoves DEF TypeOK, Save
<1>8. ASSUME NEW d \in Deliveries, Write(d) PROVE ClaimInv'
  <2>1. Clocked(d)' /\ (~slow /\ Issue(d) => Claims(d)')
    BY <1>8, <1>e, <1>c, AttemptsFit, GitHubAssumption DEF TypeOK, Attempts, Write, Clocked, Claims, Issue, Active, Handling, Running, Hooks
  <2> QED BY <1>8, <1>e, <2>1, OneMoves DEF TypeOK, Write
<1>9. ASSUME NEW d \in Deliveries, Persist(d) PROVE ClaimInv'
  <2>1. Clocked(d)' /\ (~slow /\ Issue(d) => Claims(d)')
    BY <1>9, <1>e, <1>c, AttemptsFit, GitHubAssumption DEF TypeOK, Attempts, Persist, Clocked, Claims, Issue, Active, Handling, Running, Hooks
  <2> QED BY <1>9, <1>e, <2>1, OneMoves DEF TypeOK, Persist
<1>10. ASSUME NEW d \in Deliveries, AgentReturns(d) PROVE ClaimInv'
  <2>1. pc[d] = "agent" /\ UNCHANGED <<claim, slow>> /\ Ends(d, "publish")
    BY <1>10 DEF AgentReturns
  <2>2. Clocked(d)' /\ (~slow /\ Issue(d) => Claims(d)')
    <3>1. pc'[d] = "publish" /\ attempt'[d].number = 0 /\ attempt'[d].clock = 0
      BY <2>1, AttemptOf
    <3>2. Clocked(d)'
      BY <3>1, <1>z DEF Clocked
    <3>3. ~slow /\ Issue(d) => Claims(d)'
      BY <3>1, <2>1, <1>c DEF Claims, Active, Handling, Running, Hooks
    <3> QED BY <3>2, <3>3
  <2> QED BY <1>e, <2>1, <2>2, AttemptOf, OneMoves
<1>11. ASSUME NEW d \in Deliveries, AttemptFails(d) PROVE ClaimInv'
  <2>1. pc[d] = "agent" /\ UNCHANGED <<claim, slow>>
    BY <1>11 DEF AttemptFails
  <2>2. CASE Ends(d, "cleanup")
    <3>1. Clocked(d)' /\ (~slow /\ Issue(d) => Claims(d)')
      <4>1. pc'[d] = "cleanup" /\ attempt'[d].number = 0 /\ attempt'[d].clock = 0
        BY <2>1, <2>2, AttemptOf
      <4>2. Clocked(d)'
        BY <4>1, <1>z DEF Clocked
      <4>3. ~slow /\ Issue(d) => Claims(d)'
        BY <4>1, <2>1, <2>2, <1>c DEF Claims, Active, Handling, Running, Hooks
      <4> QED BY <4>2, <4>3
    <3> QED BY <1>e, <2>1, <2>2, <3>1, AttemptOf, OneMoves
  <2>3. CASE /\ attempt[d].number < MaxRetries
             /\ attempt' = [attempt EXCEPT ![d] = [number |-> @.number + 1, clock |-> 0]]
             /\ pc' = [pc EXCEPT ![d] = "start"]
    <3>1. Clocked(d)'
      BY <2>1, <2>3, <1>z, AttemptOf DEF TypeOK, Clocked, Running
    <3>2. ASSUME ~slow, Issue(d) PROVE Claims(d)'
      <4>1. claim.age <= attempt[d].number * TaskTimeout + TaskTimeout
        <5>1. claim.age <= attempt[d].number * TaskTimeout + attempt[d].clock
          BY <3>2, <1>c, <2>1 DEF Claims, Running
        <5>2. attempt[d].clock <= TaskTimeout /\ attempt[d].clock \in Nat /\ attempt[d].number * TaskTimeout \in Nat
          BY <1>c, AttemptOf, AttemptsFit DEF Clocked
        <5> QED BY <5>1, <5>2, <1>z DEF TypeOK
      <4>2. claim.age <= attempt'[d].number * TaskTimeout + attempt'[d].clock
        <5>1. /\ attempt'[d].number = attempt[d].number + 1 /\ attempt'[d].clock = 0
              /\ (attempt[d].number + 1) * TaskTimeout = attempt[d].number * TaskTimeout + TaskTimeout
          BY <2>3, AttemptOf, AttemptsFit
        <5>2. attempt'[d].number * TaskTimeout = attempt[d].number * TaskTimeout + TaskTimeout
          BY <5>1
        <5> QED BY <4>1, <5>1, <5>2, <1>z, AttemptsFit, AttemptOf DEF TypeOK
      <4>3. claim.of = d /\ claim.age <= ISSUE_TASK_CLAIM_TTL
        BY <3>2, <1>c, <2>1 DEF Claims, Active, Handling, Running, Hooks
      <4> QED BY <2>1, <2>3, <4>2, <4>3 DEF TypeOK, Claims, Handling, Running
    <3> QED BY <1>e, <2>1, <2>3, <3>1, <3>2, AttemptOf, OneMoves DEF TypeOK
  <2> QED BY <1>11, <2>2, <2>3 DEF AttemptFails
<1>12. ASSUME NEW d \in Deliveries, Publish(d) PROVE ClaimInv'
  <2>1. /\ pc[d] = "publish" /\ pc'[d] \in {"push", "cleanup"} /\ UNCHANGED <<claim, attempt, slow>>
        /\ \A e \in Deliveries \ {d} : pc'[e] = pc[e]
    BY <1>12 DEF TypeOK, Publish
  <2>2. Clocked(d)' /\ (~slow /\ Issue(d) => Claims(d)')
    BY <2>1, <1>c DEF Clocked, Claims, Active, Handling, Running, Hooks
  <2> QED BY <1>e, <2>1, <2>2, OneMoves
<1>13. ASSUME NEW d \in Deliveries, Push(d) PROVE ClaimInv'
  <2>1. Clocked(d)' /\ (~slow /\ Issue(d) => Claims(d)')
    BY <1>13, <1>e, <1>c, AttemptsFit, GitHubAssumption DEF TypeOK, Attempts, Push, Clocked, Claims, Issue, Active, Handling, Running, Hooks
  <2> QED BY <1>13, <1>e, <2>1, OneMoves DEF TypeOK, Push
<1>14. ASSUME NEW d \in Deliveries, CleanUp(d) PROVE ClaimInv'
  <2>0. /\ pc[d] = "cleanup" /\ pc'[d] \in {"discard", "over"}
        /\ UNCHANGED <<claim, attempt, slow>>
    BY <1>14 DEF TypeOK, CleanUp, Goto, hooks
  <2>1. Clocked(d)' /\ (~slow /\ Issue(d) => Claims(d)')
    BY <2>0, <1>c DEF Clocked, Claims, Active, Handling, Running, Hooks
  <2> QED BY <1>14, <1>e, <2>1, OneMoves DEF TypeOK, CleanUp
<1>15. ASSUME NEW d \in Deliveries, Discard(d) PROVE ClaimInv'
  <2>1. Clocked(d)' /\ (~slow /\ Issue(d) => Claims(d)')
    BY <1>15, <1>e, <1>c, AttemptsFit, GitHubAssumption DEF TypeOK, Attempts, Discard, Clocked, Claims, Issue, Active, Handling, Running, Hooks
  <2> QED BY <1>15, <1>e, <2>1, OneMoves DEF TypeOK, Discard
<1>16. ASSUME NEW d \in Deliveries, Cancel(d) PROVE ClaimInv'
  <2>1. PICK place \in {"cleanup", "over"} : Ends(d, place)
    BY <1>16 DEF Cancel
  <2>2. pc[d] \in {"agent", "start"} \cup Hooks /\ UNCHANGED <<claim, slow>>
    BY <1>16 DEF Cancel, Hooks
  <2>3. Clocked(d)' /\ (~slow /\ Issue(d) => Claims(d)')
    <3>1. pc'[d] = place /\ attempt'[d].number = 0 /\ attempt'[d].clock = 0
      BY <2>1, <2>2, AttemptOf
    <3>2. Clocked(d)'
      BY <3>1, <1>z DEF Clocked
    <3>3. ~slow /\ Issue(d) => Claims(d)'
      BY <3>1, <2>1, <2>2, <1>c DEF Claims, Active, Handling, Running, Hooks
    <3> QED BY <3>2, <3>3
  <2> QED BY <1>e, <2>1, <2>2, <2>3, AttemptOf, OneMoves
<1>17. ASSUME NEW d \in Deliveries, Claim(d) PROVE ClaimInv'
  <2>1. pc[d] = "seen" /\ UNCHANGED <<attempt, slow>> /\ \A e \in Deliveries \ {d} : pc'[e] = pc[e]
    BY <1>17 DEF Claim, TypeOK
  <2>2. pc'[d] \in {"accepted", "over"}
    BY <1>17 DEF Claim, TypeOK
  <2>3. \A e \in Deliveries : Clocked(e)'
    BY <2>1, <2>2, <1>c DEF Clocked, Running
  <2>4. ASSUME ~slow, NEW e \in Deliveries, Issue(e) PROVE Claims(e)'
    <3>1. CASE pc'[d] = "over"
      <4>1. claim' = claim
        BY <1>17, <3>1 DEF Claim, TypeOK
      <4> QED BY <2>1, <2>4, <3>1, <4>1, <1>c DEF Claims, Active, Handling, Running, Hooks
    <3>2. CASE pc'[d] = "accepted"
      <4>1. (claim.of = Nobody \/ claim.age > ISSUE_TASK_CLAIM_TTL) /\ claim' = [of |-> d, age |-> 0]
        BY <1>17, <3>2 DEF Claim, TypeOK
      <4>2. claim'.of = d /\ claim'.age = 0 /\ 0 <= ISSUE_TASK_CLAIM_TTL
        BY <4>1, AttemptsFit, <1>z
      <4>3. CASE e = d
        BY <3>2, <4>2, <4>3 DEF Claims, Running
      <4>4. CASE e # d
        <5>1. pc[e] \notin Active \ {"seen"}
          <6> SUFFICES ASSUME pc[e] \in Active \ {"seen"} PROVE FALSE
            OBVIOUS
          <6>1. claim.of = e /\ claim.age <= ISSUE_TASK_CLAIM_TTL
            BY <2>4, <1>c DEF Claims
          <6>2. e # Nobody
            BY GitHubAssumption
          <6>3. claim.age \in Nat
            BY DEF TypeOK
          <6>4. ISSUE_TASK_CLAIM_TTL \in Nat
            BY AttemptsFit, <1>z
          <6> QED BY <6>1, <6>2, <6>3, <6>4, <4>1
        <5> QED BY <5>1, <2>1, <4>4 DEF Claims, Active, Handling, Running
      <4> QED BY <4>3, <4>4
    <3> QED BY <2>2, <3>1, <3>2
  <2> QED BY <2>1, <2>3, <2>4, <1>e DEF ClaimInv, Clocked, Claims, Issue
<1>18. ASSUME NEW d \in Deliveries, ReleaseClaim(d) PROVE ClaimInv'
  <2>1. pc[d] = "raising" /\ UNCHANGED <<attempt, slow>> /\ pc' = [pc EXCEPT ![d] = "over"]
    BY <1>18 DEF ReleaseClaim
  <2>2. \A e \in Deliveries : Clocked(e)'
    BY <2>1, <1>c DEF TypeOK, Clocked, Running
  <2>3. ASSUME ~slow, NEW e \in Deliveries, Issue(e) PROVE Claims(e)'
    <3>1. CASE e = d
      BY <2>1, <3>1 DEF TypeOK, Claims, Active, Handling, Running, Hooks
    <3>2. CASE e # d /\ pc[e] \notin Active \ {"seen"}
      BY <2>1, <3>2 DEF TypeOK, Claims, Active, Handling, Running
    <3>3. CASE e # d /\ pc[e] \in Active \ {"seen"}
      <4>1. ~Issue(d)
        BY <2>1, <2>3, <3>3, <1>c DEF Claims, Active, Handling
      <4>2. claim' = claim
        BY <1>18, <4>1 DEF ReleaseClaim
      <4> QED BY <2>1, <2>3, <3>3, <4>2, <1>c DEF TypeOK, Claims
    <3> QED BY <3>1, <3>2, <3>3
  <2> QED BY <2>1, <2>2, <2>3, <1>e DEF ClaimInv, Clocked, Claims, Issue
<1>19. CASE Restart
  <2>1. \A d \in Deliveries : pc'[d] \in {"none", "over"} /\ attempt'[d].clock = 0 /\ attempt'[d].number = 0
    BY <1>19 DEF Restart, TypeOK, Places
  <2> QED BY <2>1, <1>e, <1>z DEF ClaimInv, Active, Handling, Running, Hooks
<1>20. CASE Tick
  <2>1. pc' = pc /\ claim'.of = claim.of /\ claim'.age = claim.age + 1
    BY <1>20 DEF Tick, TypeOK
  <2>2. ASSUME NEW d \in Deliveries
        PROVE  /\ attempt'[d].number = attempt[d].number
               /\ attempt'[d].clock = IF Issue(d) /\ Working(d) THEN attempt[d].clock + 1 ELSE attempt[d].clock
    BY <1>20 DEF Tick, TypeOK, Attempts
  <2>3. \A d \in Deliveries : Clocked(d)'
    <3> SUFFICES ASSUME NEW d \in Deliveries PROVE Clocked(d)'
      OBVIOUS
    <3>1. Issue(d) /\ Working(d) => attempt[d].clock < TaskTimeout
      BY <1>20 DEF Tick
    <3> QED BY <2>1, <2>2, <3>1, <1>c, <1>z, AttemptOf DEF Clocked, Working
  <2>4. ASSUME ~slow', NEW d \in Deliveries, Issue(d) PROVE Claims(d)'
    <3>1. ~slow /\ pc[d] \notin Active \ ({"seen"} \cup Running)
      <4>1. ~slow /\ ~Overhead
        BY <1>20, <2>4, Zenon DEF Tick
      <4> QED BY <2>4, <4>1 DEF Overhead
    <3>2. CASE pc[d] \in Running
      <4>1. /\ claim.of = d
            /\ claim.age <= attempt[d].number * TaskTimeout + attempt[d].clock
        BY <3>1, <3>2, <2>4, <1>c DEF Claims, Active, Running
      <4>2. attempt'[d].number = attempt[d].number /\ attempt'[d].clock = attempt[d].clock + 1
        BY <2>2, <2>4, <3>2 DEF Working
      <4>3. attempt[d].clock + 1 <= TaskTimeout
        <5>1. attempt[d].clock < TaskTimeout
          BY <1>20, <2>4, <3>2 DEF Tick, Working
        <5> QED BY <5>1, <1>z, AttemptOf
      <4>4. /\ attempt[d].number * TaskTimeout \in Nat
            /\ attempt[d].number * TaskTimeout + TaskTimeout <= ISSUE_TASK_CLAIM_TTL
            /\ ISSUE_TASK_CLAIM_TTL \in Nat
        BY AttemptOf, AttemptsFit
      <4>5. claim'.age <= attempt[d].number * TaskTimeout + attempt'[d].clock /\ claim'.age <= ISSUE_TASK_CLAIM_TTL
        BY <2>1, <4>1, <4>2, <4>3, <4>4, <1>z, AttemptOf DEF TypeOK
      <4> QED BY <2>1, <3>2, <4>1, <4>2, <4>5 DEF Claims, Handling, Running
    <3>3. CASE pc[d] \notin Running
      BY <2>1, <3>1, <3>3 DEF Claims, Active, Handling, Running
    <3> QED BY <3>2, <3>3
  <2> QED BY <2>3, <2>4, <1>e DEF ClaimInv, Clocked, Claims, Issue
<1>21. CASE UserPushes \/ UNCHANGED vars
  BY <1>21, <1>e DEF ClaimInv, Issue, UserPushes, vars
<1> QED
  BY <1>1, <1>2, <1>3, <1>4, <1>5, <1>6, <1>7, <1>8, <1>9, <1>10, <1>11, <1>12, <1>13, <1>14, <1>15, <1>16, <1>17, <1>18, <1>19, <1>20, <1>21 DEF Next, Handle, Run

(* Spec keeps IInv: every variable its type, the files and the claim theirs. *)
THEOREM Invariance == Spec => []IInv
<1>1. IInv /\ [Next]_vars => IInv'
  BY TypeNext, FilesNext, ClaimNext DEF IInv
<1> QED BY InitIInv, <1>1, PTL DEF Spec

(* Whatever failed, was cancelled or restarted: what was written into a          *)
(* registered workspace is in its worktree or in a revision of the project.     *)
THEOREM WorkKept == Spec => []WorkIsKept
<1>1. IInv => WorkIsKept
  <2> SUFFICES ASSUME IInv, NEW d \in Deliveries, row[d].bound, tree[d].files > 0, ~tree[d].there
               PROVE  row[d].saved = tree[d].files
    BY DEF WorkIsKept
  <2> QED BY DEF IInv, FilesInv
<1> QED BY Invariance, <1>1, PTL

(* The claim of an issue outlives its agent with all its retries, so that an     *)
(* issue has one agent as long as nothing but agents takes time.                *)
THEOREM OneAgentPerIssue == Spec => []ClaimOutlivesAgents
<1>1. IInv => ClaimOutlivesAgents
  <2> SUFFICES ASSUME IInv, ~slow, NEW d \in Deliveries, NEW e \in Deliveries, Issue(d), Issue(e),
                      {pc[d], pc[e]} \subseteq Active \ {"seen"}
               PROVE  d = e
    BY DEF ClaimOutlivesAgents
  <2> QED BY DEF IInv, ClaimInv
<1> QED BY Invariance, <1>1, PTL

(* A push drops a commit of somebody else only after the clone has learned of it. *)
THEOREM LeaseHolds == Spec => LeaseProtects
<1>1. TypeOK /\ [Next]_vars =>
        [remote \subseteq remote' \/ \E d \in Deliveries : pc[d] = "push" /\ Review(d) /\ base[d] # tracking]_vars
  <2> SUFFICES ASSUME TypeOK, [Next]_vars
               PROVE  remote \subseteq remote' \/ \E d \in Deliveries : pc[d] = "push" /\ Review(d) /\ base[d] # tracking
    OBVIOUS
  <2>1. CASE UNCHANGED vars
    BY <2>1 DEF vars
  <2>2. ASSUME NEW d \in Deliveries, Push(d)
        PROVE  remote \subseteq remote' \/ (pc[d] = "push" /\ Review(d) /\ base[d] # tracking)
    BY <2>2 DEF Push, Pushed
  <2>3. ASSUME NEW d \in Deliveries, Cancel(d)
        PROVE  remote \subseteq remote' \/ (pc[d] = "push" /\ Review(d) /\ base[d] # tracking)
    BY <2>3 DEF Cancel, Pushed
  <2>4. ASSUME NEW d \in Deliveries, Handle(d) \/ (Run(d) /\ ~Push(d) /\ ~Cancel(d)) PROVE remote' = remote
    BY <2>4 DEF Handle, Deliver, Claim, Accept, Prepare, Submit, Undo, ReleaseClaim, Run, Start, Save, Write,
                Persist, AgentReturns, AttemptFails, Publish, CleanUp, Discard
  <2>5. ASSUME Restart \/ UserPushes \/ Tick PROVE remote \subseteq remote'
    BY <2>5 DEF Restart, UserPushes, Tick
  <2> QED BY <2>1, <2>2, <2>3, <2>4, <2>5 DEF Next
<1>2. TypeOK /\ [Next]_vars => TypeOK'
  BY TypeNext
<1>3. Init => TypeOK
  BY InitIInv DEF IInv
<1> QED BY <1>1, <1>2, <1>3, PTL DEF Spec, LeaseProtects

=============================================================================
