--------------------------- MODULE ModelPoolProofs ---------------------------
(***************************************************************************)
(* Machine-checked proofs about ModelPool, for any number of members,       *)
(* calls, retries, cooldowns and edits of the settings.                     *)
(***************************************************************************)
EXTENDS ModelPool, TLAPS

USE DEF Members, Codes, InFlight, Ended, pool, call

(* The finally clause touches the probing flag of the call's member only. *)
LEMMA ReleasedFacts ==
    ASSUME NEW c \in Calls, at[c] \in Members,
           NEW s \in [Members -> MemberState]
    PROVE  /\ Released(c, s) \in [Members -> MemberState]
           /\ \A m \in Members : /\ Released(c, s)[m].retry_at = s[m].retry_at
                                 /\ Released(c, s)[m].error_code = s[m].error_code
                                 /\ Released(c, s)[m].generation = s[m].generation
                                 /\ m # at[c] => Released(c, s)[m] = s[m]
           /\ Holds(c) => ~Released(c, s)[at[c]].probing
           /\ ~Holds(c) => Released(c, s) = s
BY DEF Released, MemberState

(* A failed member has a later deadline, if any, and a newer generation. *)
LEMMA DownFacts ==
    ASSUME TypeOK, NEW m \in Members, NEW code \in Codes, NEW seconds \in Nat
    PROVE  /\ Down(m, code, seconds) \in MemberState
           /\ Down(m, code, seconds).retry_at >= state[m].retry_at
           /\ Down(m, code, seconds).error_code # "none"
           /\ Down(m, code, seconds).generation = state[m].generation + 1
<1>1. PICK s \in MemberState : s = state[m]
    BY DEF TypeOK
<1>2. PICK deadline \in Nat : /\ deadline = AtLeast(s.retry_at, now + seconds)
                              /\ deadline >= s.retry_at
    BY <1>1 DEF TypeOK, AtLeast, MemberState
<1>3. Down(m, code, seconds) = [s EXCEPT !.retry_at = deadline, !.error_code = code,
                                         !.generation = s.generation + 1]
    BY <1>1, <1>2 DEF Down
<1>4. s = [retry_at |-> s.retry_at, probing |-> s.probing, error_code |-> s.error_code,
           generation |-> s.generation]
    BY DEF MemberState
<1>5. Down(m, code, seconds) = [retry_at |-> deadline, probing |-> s.probing, error_code |-> code,
                                generation |-> s.generation + 1]
    BY <1>3, <1>4
<1> QED
    BY <1>1, <1>2, <1>5 DEF MemberState

(* What a failing call does to the pool: its own member goes down, or, if a *)
(* reset has replaced the member's state, nothing.                          *)
LEMMA FailFacts ==
    ASSUME TypeOK, NEW c \in Calls, at[c] \in Members, Fail(c)
    PROVE  /\ state' \in [Members -> MemberState]
           /\ \A m \in Members \ {at[c]} : state'[m] = state[m]
           /\ ~Holds(c) => state' = state
           /\ Holds(c) => /\ state'[at[c]].retry_at >= state[at[c]].retry_at
                          /\ state'[at[c]].error_code # "none"
                          /\ state'[at[c]].generation = state[at[c]].generation + 1
                          /\ ~state'[at[c]].probing
<1>1. PICK code \in Codes, seconds \in Nat :
          state' = Released(c, IF Holds(c)
                               THEN [state EXCEPT ![at[c]] = Down(at[c], code, seconds)]
                               ELSE state)
    <2>1. \A code \in Codes, hint \in Hints : Penalty(code, hint) \in Nat
        BY PoolAssumption DEF Penalty
    <2> QED BY <2>1 DEF Fail
<1> DEFINE s == [state EXCEPT ![at[c]] = Down(at[c], code, seconds)]
<1>2. CASE Holds(c)
    <2>1. s \in [Members -> MemberState]
          /\ s[at[c]] = Down(at[c], code, seconds)
          /\ \A m \in Members \ {at[c]} : s[m] = state[m]
        BY DownFacts DEF TypeOK
    <2>2. state' = Released(c, s)
        BY <1>1, <1>2
    <2> HIDE DEF s
    <2>3. /\ Released(c, s) \in [Members -> MemberState]
          /\ \A m \in Members : /\ Released(c, s)[m].retry_at = s[m].retry_at
                                /\ Released(c, s)[m].error_code = s[m].error_code
                                /\ Released(c, s)[m].generation = s[m].generation
                                /\ m # at[c] => Released(c, s)[m] = s[m]
          /\ ~Released(c, s)[at[c]].probing
        BY <1>2, <2>1, ReleasedFacts
    <2> QED BY <1>2, <2>1, <2>2, <2>3, DownFacts
<1>3. CASE ~Holds(c)
    BY <1>1, <1>3 DEF Released, TypeOK, Down
<1> QED
    BY <1>2, <1>3

LEMMA IInvInit == Init => IInv
<1> SUFFICES ASSUME Init PROVE IInv
    OBVIOUS
<1>1. TypeOK
    BY PoolAssumption DEF Init, TypeOK, Fresh, MemberState, Lease
<1>2. ProbeHasCall
    BY DEF Init, ProbeHasCall, Fresh
<1>3. RetryIsLeft /\ OutputEndsTheCall /\ HeldIsOlder
    BY DEF Init, RetryIsLeft, OutputEndsTheCall, HeldIsOlder
<1> QED
    BY <1>1, <1>2, <1>3 DEF IInv

LEMMA TypeNext == IInv /\ [Next]_vars => TypeOK'
<1> SUFFICES ASSUME IInv, [Next]_vars PROVE TypeOK'
    OBVIOUS
<1>0. Fresh \in MemberState /\ \A c \in Calls : pc[c] \in InFlight => at[c] \in Members
    BY DEF Fresh, MemberState, IInv, HeldIsOlder
<1> USE PoolAssumption DEF IInv, TypeOK
<1>1. CASE UNCHANGED vars
    BY <1>1 DEF vars
<1>2. ASSUME NEW c \in Calls, Execute(c) PROVE TypeOK'
    <2>1. state' \in [Members -> MemberState] /\ epoch' \in Nat /\ fingerprint' \in Nat
        BY <1>0, <1>2 DEF Execute
    <2> QED BY <1>2, <2>1 DEF Execute
<1>3. ASSUME NEW c \in Calls, Skip(c) PROVE TypeOK'
    BY <1>3 DEF Skip, Next1
<1>4. ASSUME NEW c \in Calls, Take(c) PROVE TypeOK'
    <2>1. PICK m \in Members, probing \in BOOLEAN :
              /\ state' = [state EXCEPT ![m].probing = probing]
              /\ held' = [held EXCEPT ![c] = [epoch |-> epoch, probe |-> probing,
                                              generation |-> state[m].generation]]
        BY <1>4 DEF Take
    <2>2. state' \in [Members -> MemberState]
        <3>1. state[m] \in MemberState
            OBVIOUS
        <3>2. [state[m] EXCEPT !.probing = probing] \in MemberState
            BY <3>1 DEF MemberState
        <3> QED BY <2>1, <3>2
    <2>3. held' \in [Calls -> Lease]
        <3>1. [epoch |-> epoch, probe |-> probing, generation |-> state[m].generation] \in Lease
            BY DEF MemberState, Lease
        <3>2. PICK lease \in Lease : held' = [held EXCEPT ![c] = lease]
            BY <2>1, <3>1
        <3> QED BY <3>2
    <2>4. /\ pc' = [pc EXCEPT ![c] = "trying"]
          /\ retry' = [retry EXCEPT ![c] = 0]
          /\ started' = [started EXCEPT ![c] = FALSE]
          /\ UNCHANGED <<now, config, enabled, fingerprint, epoch, at, emitted>>
        BY <1>4 DEF Take
    <2> QED BY <2>2, <2>3, <2>4
<1>5. ASSUME NEW c \in Calls, Exhausted(c) PROVE TypeOK'
    BY <1>5 DEF Exhausted, Leave
<1>6. ASSUME NEW c \in Calls, Emit(c) PROVE TypeOK'
    BY <1>6 DEF Emit
<1>7. ASSUME NEW c \in Calls, Succeed(c) PROVE TypeOK'
    <2>1. PICK s \in [Members -> MemberState] : state' = Released(c, s)
        <3>1. [state EXCEPT ![at[c]].retry_at = 0, ![at[c]].error_code = "none"]
                  \in [Members -> MemberState]
            BY <1>0, <1>7 DEF Succeed, MemberState
        <3> QED BY <1>7, <3>1 DEF Succeed
    <2>2. at[c] \in Members
        BY <1>0, <1>7 DEF Succeed
    <2>3. Released(c, s) \in [Members -> MemberState]
        BY ONLY <2>2, ReleasedFacts, s \in [Members -> MemberState], c \in Calls
    <2>4. state' \in [Members -> MemberState]
        BY <2>1, <2>3
    <2> QED BY <1>7, <2>4 DEF Succeed, Leave
<1>8. ASSUME NEW c \in Calls, Retry(c) PROVE TypeOK'
    BY <1>8 DEF Retry
<1>9. ASSUME NEW c \in Calls, Wake(c) PROVE TypeOK'
    BY <1>9 DEF Wake, RetryIsLeft
<1>10. ASSUME NEW c \in Calls, Fail(c) PROVE TypeOK'
    <2>1. at[c] \in Members
        BY <1>0, <1>10 DEF Fail
    <2>2. state' \in [Members -> MemberState]
        BY <1>10, <2>1, FailFacts
    <2>3. at' \in [Calls -> 1..(NumMembers + 1)] /\ pc' \in [Calls -> {"idle", "choosing"} \cup InFlight \cup Ended]
        BY <1>10, <2>1 DEF Fail, Leave, Next1
    <2> QED BY <1>10, <2>2, <2>3 DEF Fail
<1>11. ASSUME NEW c \in Calls, Raise(c) PROVE TypeOK'
    <2>1. at[c] \in Members
        BY <1>0, <1>11 DEF Raise
    <2>2. Released(c, state) \in [Members -> MemberState]
        BY ONLY <2>1, ReleasedFacts, state \in [Members -> MemberState], c \in Calls
    <2> QED BY <1>11, <2>2 DEF Raise, Leave
<1>12. CASE Tick
    BY <1>12 DEF Tick
<1>13. CASE Configure
    BY <1>13 DEF Configure
<1>14. CASE Reset
    <2>1. state' \in [Members -> MemberState] /\ epoch' \in Nat
        BY <1>0, <1>14 DEF Reset
    <2> QED BY <1>14, <2>1 DEF Reset
<1> HIDE PoolAssumption DEF IInv, TypeOK
<1> QED BY <1>1, <1>2, <1>3, <1>4, <1>5, <1>6, <1>7, <1>8, <1>9, <1>10, <1>11, <1>12, <1>13, <1>14
        DEF Next, Choose, Attempt

(* What a call that ends does to the pool: it lets go of its member, and a  *)
(* success may clear the failure of the generation it was admitted in.      *)
LEMMA EndFacts ==
    ASSUME IInv, NEW c \in Calls, Succeed(c) \/ Raise(c)
    PROVE  /\ at[c] \in Members
           /\ \A m \in Members \ {at[c]} : state'[m] = state[m]
           /\ ~Holds(c) => state' = state
           /\ Holds(c) => /\ ~state'[at[c]].probing
                          /\ state'[at[c]].generation = state[at[c]].generation
                          /\ \/ /\ state'[at[c]].error_code = state[at[c]].error_code
                                /\ state'[at[c]].retry_at = state[at[c]].retry_at
                             \/ /\ state[at[c]].generation = held[c].generation
                                /\ state'[at[c]].error_code = "none" /\ Succeed(c)
<1>1. at[c] \in Members
    BY DEF Succeed, Raise, IInv, HeldIsOlder
<1>2. CASE Raise(c)
    BY <1>1, <1>2, ReleasedFacts DEF Raise, IInv, TypeOK
<1>3. CASE Succeed(c) /\ Holds(c) /\ state[at[c]].generation = held[c].generation
    <2> DEFINE s == [state EXCEPT ![at[c]].retry_at = 0, ![at[c]].error_code = "none"]
    <2>1. /\ s \in [Members -> MemberState]
          /\ s[at[c]].error_code = "none" /\ s[at[c]].generation = state[at[c]].generation
          /\ \A m \in Members \ {at[c]} : s[m] = state[m]
        <3>1. state \in [Members -> MemberState]
            BY DEF IInv, TypeOK
        <3>2. s = [state EXCEPT ![at[c]] = [state[at[c]] EXCEPT !.retry_at = 0, !.error_code = "none"]]
            BY <1>1, <3>1 DEF MemberState
        <3>3. /\ [state[at[c]] EXCEPT !.retry_at = 0, !.error_code = "none"] \in MemberState
              /\ [state[at[c]] EXCEPT !.retry_at = 0, !.error_code = "none"].error_code = "none"
              /\ [state[at[c]] EXCEPT !.retry_at = 0, !.error_code = "none"].generation
                     = state[at[c]].generation
            BY <1>1, <3>1 DEF MemberState
        <3> HIDE DEF s
        <3> QED BY <1>1, <3>1, <3>2, <3>3
    <2>2. state' = Released(c, s)
        BY <1>3 DEF Succeed
    <2> HIDE DEF s
    <2> QED BY <1>1, <1>3, <2>1, <2>2, ReleasedFacts
<1>4. CASE Succeed(c) /\ ~(Holds(c) /\ state[at[c]].generation = held[c].generation)
    <2>1. state' = Released(c, state)
        BY <1>4 DEF Succeed
    <2> QED BY <1>1, <1>4, <2>1, ReleasedFacts DEF IInv, TypeOK
<1> QED
    BY <1>2, <1>3, <1>4

LEMMA RetryIsLeftNext == IInv /\ [Next]_vars => RetryIsLeft'
<1> SUFFICES ASSUME IInv, [Next]_vars PROVE RetryIsLeft'
    OBVIOUS
<1> USE DEF IInv, TypeOK, RetryIsLeft
<1>1. CASE UNCHANGED <<pc, retry>>
    BY <1>1
<1>2. ASSUME NEW c \in Calls,
             Execute(c) \/ Take(c) \/ Exhausted(c) \/ Succeed(c) \/ Wake(c) \/ Fail(c) \/ Raise(c)
      PROVE  RetryIsLeft'
    <2>1. pc'[c] # "sleeping" /\ \A d \in Calls \ {c} : pc'[d] = pc[d] /\ retry'[d] = retry[d]
        BY <1>2 DEF Execute, Take, Exhausted, Succeed, Wake, Fail, Raise, Leave
    <2> QED BY <2>1
<1>3. ASSUME NEW c \in Calls, Retry(c) PROVE RetryIsLeft'
    BY <1>3 DEF Retry
<1> HIDE DEF IInv, TypeOK, RetryIsLeft
<1> QED BY <1>1, <1>2, <1>3
        DEF Next, Choose, Attempt, Skip, Emit, Tick, Configure, Reset, vars

(* Emitting is the only step that counts, and nothing but the end of the    *)
(* call follows it.                                                         *)
LEMMA OutputEndsTheCallNext == IInv /\ [Next]_vars => OutputEndsTheCall'
<1> SUFFICES ASSUME IInv, [Next]_vars PROVE OutputEndsTheCall'
    OBVIOUS
<1> USE DEF IInv, TypeOK, OutputEndsTheCall
<1>1. CASE UNCHANGED <<pc, started, emitted>>
    BY <1>1
<1>2. ASSUME NEW c \in Calls, Execute(c) \/ Exhausted(c) \/ Retry(c) PROVE OutputEndsTheCall'
    BY <1>2 DEF Execute, Exhausted, Retry, Leave
<1>3. ASSUME NEW c \in Calls, Take(c) \/ Wake(c) PROVE OutputEndsTheCall'
    BY <1>3 DEF Take, Wake
<1>4. ASSUME NEW c \in Calls, Emit(c) PROVE OutputEndsTheCall'
    BY <1>4 DEF Emit
<1>5. ASSUME NEW c \in Calls, Succeed(c) \/ Raise(c) PROVE OutputEndsTheCall'
    BY <1>5 DEF Succeed, Raise, Leave
<1>6. ASSUME NEW c \in Calls, Fail(c) PROVE OutputEndsTheCall'
    <2>1. /\ pc[c] = "trying" /\ UNCHANGED <<started, emitted>>
          /\ pc' = [pc EXCEPT ![c] = IF started[c] THEN "raised" ELSE "choosing"]
        BY <1>6 DEF Fail, Leave
    <2> QED BY <2>1
<1> HIDE DEF IInv, TypeOK, OutputEndsTheCall
<1> QED BY <1>1, <1>2, <1>3, <1>4, <1>5, <1>6
        DEF Next, Choose, Attempt, Skip, Tick, Configure, Reset, vars

(* The probe a member is marked for is in flight: a call that leaves takes  *)
(* the mark along, and a reset drops every mark.                            *)
LEMMA ProbeHasCallNext == IInv /\ [Next]_vars => ProbeHasCall'
<1> DEFINE Probes(m) == \E d \in Calls : /\ pc'[d] \in InFlight /\ at'[d] = m
                                         /\ held'[d].epoch = epoch' /\ held'[d].probe
<1> SUFFICES ASSUME IInv, [Next]_vars, NEW m \in Members, state'[m].probing PROVE Probes(m)
    BY DEF ProbeHasCall, Holds
<1>0. state[m].probing => \E w \in Calls : /\ pc[w] \in InFlight /\ at[w] = m
                                           /\ held[w].epoch = epoch /\ held[w].probe
    BY DEF IInv, ProbeHasCall, Holds
<1>t. /\ pc \in [Calls -> {"idle", "choosing"} \cup InFlight \cup Ended]
      /\ at \in [Calls -> 1..(NumMembers + 1)]
      /\ held \in [Calls -> Lease] /\ state \in [Members -> MemberState]
    BY DEF IInv, TypeOK
<1>1. CASE UNCHANGED <<pc, at, held, epoch, state>>
    BY <1>0, <1>1
<1>2. ASSUME NEW c \in Calls, Execute(c) PROVE Probes(m)
    <2>1. fingerprint = config
        <3>1. fingerprint # config => state'[m] = Fresh
            BY <1>2 DEF Execute
        <3> QED BY <3>1 DEF Fresh
    <2>2. UNCHANGED <<held, epoch, state>>
        BY <1>2, <2>1 DEF Execute
    <2>3. \A d \in Calls : pc[d] \in InFlight => pc'[d] = pc[d] /\ at'[d] = at[d]
        BY <1>t, <1>2 DEF Execute
    <2> QED BY <1>0, <2>2, <2>3
<1>3. ASSUME NEW c \in Calls, Skip(c) \/ Exhausted(c) \/ Retry(c) \/ Wake(c) PROVE Probes(m)
    <2>1. UNCHANGED <<held, epoch, state>>
        BY <1>3 DEF Skip, Exhausted, Retry, Wake, Leave, Next1, pool, call
    <2>2. \A d \in Calls : pc[d] \in InFlight => pc'[d] \in InFlight /\ at'[d] = at[d]
        BY <1>t, <1>3 DEF Skip, Exhausted, Retry, Wake, Leave, Next1
    <2> QED BY <1>0, <2>1, <2>2
<1>4. ASSUME NEW c \in Calls, Take(c) PROVE Probes(m)
    <2>1. /\ pc[c] = "choosing" /\ pc' = [pc EXCEPT ![c] = "trying"]
          /\ UNCHANGED <<at, epoch>>
          /\ state' = [state EXCEPT ![at[c]].probing = (state[at[c]].error_code # "none")]
          /\ held' = [held EXCEPT ![c] = [epoch |-> epoch, probe |-> (state[at[c]].error_code # "none"),
                                          generation |-> state[at[c]].generation]]
        BY <1>4 DEF Take
    <2>2. CASE at[c] = m
        <3>1. pc'[c] = "trying" /\ at'[c] = m /\ held'[c].epoch = epoch' /\ held'[c].probe
            BY <1>t, <2>1, <2>2 DEF MemberState
        <3> QED BY <3>1
    <2>3. CASE at[c] # m
        <3>1. state[m].probing
            BY <1>t, <2>1, <2>3
        <3>2. \A d \in Calls : pc[d] \in InFlight => pc'[d] = pc[d] /\ held'[d] = held[d]
            BY <1>t, <2>1
        <3> QED BY <1>0, <2>1, <3>1, <3>2
    <2> QED BY <2>2, <2>3
<1>5. ASSUME NEW c \in Calls, Succeed(c) \/ Raise(c) \/ Fail(c) PROVE Probes(m)
    <2>1. at[c] \in Members /\ UNCHANGED <<held, epoch>>
          /\ \A d \in Calls \ {c} : pc'[d] = pc[d] /\ at'[d] = at[d]
        BY <1>t, <1>5 DEF Succeed, Raise, Fail, Leave, Next1, IInv, HeldIsOlder
    <2>2. state[m].probing /\ (m # at[c] \/ ~Holds(c))
        <3>1. CASE Fail(c)
            BY <2>1, <3>1, FailFacts DEF IInv
        <3>2. CASE Succeed(c) \/ Raise(c)
            BY <3>2, EndFacts
        <3> QED BY <1>5, <3>1, <3>2
    <2> QED BY <1>0, <2>1, <2>2 DEF Holds
<1>6. ASSUME Reset PROVE Probes(m)
    <2>1. state'[m] = Fresh
        BY <1>6 DEF Reset
    <2> QED BY <2>1 DEF Fresh
<1> HIDE DEF Probes
<1> QED BY <1>1, <1>2, <1>3, <1>4, <1>5, <1>6
        DEF Next, Choose, Attempt, Emit, Tick, Configure, vars

(* A state object grows older in a call's hands, and a call learns nothing  *)
(* of a failure after it took the member.                                   *)
LEMMA HeldIsOlderNext == IInv /\ [Next]_vars => HeldIsOlder'
<1> SUFFICES ASSUME IInv, [Next]_vars, NEW d \in Calls, pc'[d] \in InFlight
             PROVE  /\ at'[d] \in Members
                    /\ held'[d].epoch <= epoch'
                    /\ held'[d].epoch = epoch' => held'[d].generation <= state'[at'[d]].generation
                    /\ held'[d].epoch = epoch' /\ held'[d].generation = state'[at'[d]].generation
                          /\ state'[at'[d]].error_code # "none" => held'[d].probe
    BY DEF HeldIsOlder, Holds
<1> DEFINE Goal == /\ at'[d] \in Members
                   /\ held'[d].epoch <= epoch'
                   /\ held'[d].epoch = epoch' => held'[d].generation <= state'[at'[d]].generation
                   /\ held'[d].epoch = epoch' /\ held'[d].generation = state'[at'[d]].generation
                         /\ state'[at'[d]].error_code # "none" => held'[d].probe
<1>0. pc[d] \in InFlight =>
          /\ at[d] \in Members
          /\ held[d].epoch <= epoch
          /\ held[d].epoch = epoch => held[d].generation <= state[at[d]].generation
          /\ held[d].epoch = epoch /\ held[d].generation = state[at[d]].generation
                /\ state[at[d]].error_code # "none" => held[d].probe
    BY DEF IInv, HeldIsOlder, Holds
<1>t. /\ pc \in [Calls -> {"idle", "choosing"} \cup InFlight \cup Ended]
      /\ at \in [Calls -> 1..(NumMembers + 1)]
      /\ held \in [Calls -> Lease] /\ state \in [Members -> MemberState] /\ epoch \in Nat
    BY DEF IInv, TypeOK
<1>n. /\ held[d].epoch \in Nat /\ held[d].generation \in Nat
      /\ \A m \in Members : state[m].generation \in Nat
    BY <1>t DEF Lease, MemberState
<1>1. ASSUME UNCHANGED <<pc, at, held, epoch, state>> PROVE Goal
    BY <1>0, <1>1
<1>2. ASSUME NEW c \in Calls, Execute(c) PROVE Goal
    <2>1. pc[d] \in InFlight /\ at'[d] = at[d] /\ UNCHANGED held
        BY <1>t, <1>2 DEF Execute
    <2>2. CASE fingerprint # config
        <3>1. epoch' = epoch + 1
            BY <1>2, <2>2 DEF Execute
        <3>2. held'[d].epoch < epoch'
            BY <1>0, <1>t, <1>n, <2>1, <3>1
        <3>3. held'[d].epoch <= epoch' /\ held'[d].epoch # epoch'
            BY <1>t, <1>n, <2>1, <3>1, <3>2
        <3> QED BY <1>0, <2>1, <3>3
    <2>3. CASE fingerprint = config
        <3>1. UNCHANGED <<epoch, state>>
            BY <1>2, <2>3 DEF Execute
        <3> QED BY <1>0, <2>1, <3>1
    <2> QED BY <2>2, <2>3
<1>3. ASSUME NEW c \in Calls, Skip(c) \/ Exhausted(c) \/ Retry(c) \/ Wake(c) PROVE Goal
    <2>1. UNCHANGED <<held, epoch, state>>
        BY <1>3 DEF Skip, Exhausted, Retry, Wake
    <2>2. pc[d] \in InFlight /\ at'[d] = at[d]
        BY <1>t, <1>3 DEF Skip, Exhausted, Retry, Wake, Leave, Next1
    <2> QED BY <1>0, <2>1, <2>2
<1>4. ASSUME NEW c \in Calls, Take(c) PROVE Goal
    <2>1. /\ at[c] \in Members /\ UNCHANGED <<at, epoch>>
          /\ pc' = [pc EXCEPT ![c] = "trying"]
          /\ held' = [held EXCEPT ![c] = [epoch |-> epoch, probe |-> (state[at[c]].error_code # "none"),
                                          generation |-> state[at[c]].generation]]
        BY <1>4 DEF Take, IInv, TypeOK
    <2>2. \A m \in Members : /\ state'[m].generation = state[m].generation
                             /\ state'[m].error_code = state[m].error_code
        BY <1>4, <1>t DEF Take, MemberState
    <2>3. CASE d = c
        <3>1. /\ held'[d].epoch = epoch /\ held'[d].generation = state[at[d]].generation
              /\ held'[d].probe = (state[at[d]].error_code # "none")
            BY <1>t, <2>1, <2>3
        <3>2. at'[d] = at[d] /\ at[d] \in Members /\ epoch' = epoch
            BY <2>1, <2>3
        <3>3. held'[d].epoch <= epoch' /\ held'[d].generation <= state'[at'[d]].generation
            BY <1>t, <1>n, <2>2, <3>1, <3>2
        <3> QED BY <2>2, <3>1, <3>2, <3>3
    <2>4. CASE d # c
        <3>1. pc[d] \in InFlight /\ held'[d] = held[d]
            BY <1>t, <2>1, <2>4
        <3> QED BY <1>0, <2>1, <2>2, <3>1
    <2> QED BY <2>3, <2>4
<1>5. ASSUME NEW c \in Calls, Succeed(c) \/ Raise(c) \/ Fail(c) PROVE Goal
    <2>1. /\ UNCHANGED <<held, epoch>> /\ pc[c] \in InFlight
          /\ pc'[c] \notin InFlight /\ \A e \in Calls \ {c} : pc'[e] = pc[e] /\ at'[e] = at[e]
        BY <1>t, <1>5 DEF Succeed, Raise, Fail, Leave, Next1
    <2>2. at[c] \in Members
        BY <2>1 DEF IInv, HeldIsOlder
    <2>3. pc[d] \in InFlight /\ at'[d] = at[d]
        BY <2>1
    <2>4. \A m \in Members : \/ state'[m] = state[m]
                             \/ /\ state'[m].generation = state[m].generation
                                /\ state'[m].error_code \in {state[m].error_code, "none"}
                             \/ state'[m].generation = state[m].generation + 1
        <3>1. CASE Fail(c)
            BY <2>2, <3>1, FailFacts DEF IInv
        <3>2. CASE Succeed(c) \/ Raise(c)
            BY <3>2, EndFacts
        <3> QED BY <1>5, <3>1, <3>2
    <2> DEFINE n == at[d]
    <2>5. n \in Members /\ state[n].generation \in Nat
        BY <1>0, <1>n, <2>3
    <2>6. CASE held[d].epoch = epoch
        <3>1. held[d].generation <= state[n].generation
            BY <1>0, <2>3, <2>6
        <3>2. CASE state'[n] = state[n]
            BY <1>0, <2>1, <2>3, <3>2
        <3>3. CASE state'[n].generation = state[n].generation + 1
            BY <1>0, <1>n, <2>1, <2>3, <2>5, <3>1, <3>3
        <3>4. CASE /\ state'[n].generation = state[n].generation
                   /\ state'[n].error_code \in {state[n].error_code, "none"}
            BY <1>0, <2>1, <2>3, <3>1, <3>4
        <3> QED BY <2>4, <2>5, <3>2, <3>3, <3>4
    <2>7. CASE held[d].epoch # epoch
        BY <1>0, <2>1, <2>3, <2>7
    <2> QED BY <2>6, <2>7
<1>6. ASSUME Reset PROVE Goal
    <2>1. UNCHANGED <<pc, at, held>> /\ epoch' = epoch + 1
        BY <1>6 DEF Reset
    <2>2. held'[d].epoch <= epoch' /\ held'[d].epoch # epoch'
        BY <1>0, <1>t, <1>n, <2>1
    <2> QED BY <1>0, <2>1, <2>2
<1> HIDE DEF Goal
<1>7. Goal
    BY <1>1, <1>2, <1>3, <1>4, <1>5, <1>6
       DEF Next, Choose, Attempt, Emit, Tick, Configure, vars
<1> QED BY <1>7 DEF Goal

-----------------------------------------------------------------------------
(* Every reachable state satisfies the inductive invariant. *)
THEOREM PoolInvariance == Spec => []IInv
<1>1. IInv /\ [Next]_vars => IInv'
    BY TypeNext, RetryIsLeftNext, ProbeHasCallNext, OutputEndsTheCallNext, HeldIsOlderNext DEF IInv
<1> QED
    BY <1>1, IInvInit, PTL DEF Spec

(* No interleaving of failures, failovers, late answers, cancellations and  *)
(* resets leaves a member marked as probed with no call probing it.         *)
THEOREM ProbeNeverLeaks == Spec => []ProbeHasCall
<1>1. IInv => ProbeHasCall
    BY DEF IInv
<1> QED
    BY <1>1, PoolInvariance, PTL

(* A call never streams the output of two attempts. *)
THEOREM OneAttemptStreams == Spec => []OutputFromOneAttempt
<1>1. IInv => OutputFromOneAttempt
    BY DEF IInv, OutputEndsTheCall, OutputFromOneAttempt
<1> QED
    BY <1>1, PoolInvariance, PTL

(* Only the success of a probe brings a failed member back. *)
THEOREM LateSuccessIsIgnored == Spec => OnlyProbesRecover
<1>1. ASSUME IInv, [Next]_vars, NEW m \in Members,
             state[m].error_code # "none", state'[m].error_code = "none", epoch' = epoch
      PROVE  \E c \in Calls : at[c] = m /\ held[c].probe /\ pc[c] = "trying" /\ pc'[c] = "returned"
    <2>1. CASE UNCHANGED state
        BY <1>1, <2>1
    <2>2. ASSUME NEW c \in Calls, Execute(c) PROVE FALSE
        <3>1. epoch \in Nat
            BY <1>1 DEF IInv, TypeOK
        <3> QED BY <1>1, <2>2, <3>1 DEF Execute
    <2>3. ASSUME NEW c \in Calls, Take(c) PROVE FALSE
        BY <1>1, <2>3 DEF Take, IInv, TypeOK, MemberState
    <2>4. ASSUME NEW c \in Calls, Fail(c) PROVE FALSE
        <3>1. at[c] \in Members
            BY <1>1, <2>4 DEF Fail, IInv, HeldIsOlder
        <3> QED BY <1>1, <2>4, <3>1, FailFacts DEF IInv
    <2>5. ASSUME NEW c \in Calls, Succeed(c) \/ Raise(c)
          PROVE  at[c] = m /\ held[c].probe /\ pc[c] = "trying" /\ pc'[c] = "returned"
        <3>1. at[c] = m /\ Holds(c) /\ state[m].generation = held[c].generation /\ Succeed(c)
            BY <1>1, <2>5, EndFacts
        <3>2. pc[c] = "trying" /\ pc'[c] = "returned"
            BY <1>1, <3>1 DEF Succeed, Leave, IInv, TypeOK
        <3> QED BY <1>1, <3>1, <3>2 DEF IInv, HeldIsOlder
    <2>6. ~Reset
        BY <1>1 DEF Reset, IInv, TypeOK
    <2> QED BY <1>1, <2>1, <2>2, <2>3, <2>4, <2>5, <2>6
        DEF Next, Choose, Attempt, Skip, Exhausted, Emit, Retry, Wake, Tick, Configure, vars
<1>2. IInv /\ [Next]_vars =>
          [\A m \in Members :
              state[m].error_code # "none" /\ state'[m].error_code = "none" /\ epoch' = epoch =>
                  \E c \in Calls : at[c] = m /\ held[c].probe /\ pc[c] = "trying" /\ pc'[c] = "returned"]_vars
    BY <1>1
<1> QED
    BY <1>2, PoolInvariance, PTL DEF Spec, OnlyProbesRecover

(* A member in error never has its cooldown cut short.  *)
THEOREM CooldownOnlyGrows == Spec => CooldownNeverShrinks
<1>1. ASSUME IInv, [Next]_vars, NEW m \in Members,
             state'[m].error_code # "none", epoch' = epoch
      PROVE  state'[m].retry_at >= state[m].retry_at
    <2>0. epoch \in Nat /\ state[m].retry_at \in Nat
        BY <1>1 DEF IInv, TypeOK, MemberState
    <2>1. CASE UNCHANGED state
        BY <2>0, <2>1
    <2>2. ASSUME NEW c \in Calls, Execute(c) PROVE state' = state
        BY <1>1, <2>0, <2>2 DEF Execute
    <2>3. ASSUME NEW c \in Calls, Take(c) PROVE state'[m].retry_at = state[m].retry_at
        BY <1>1, <2>3 DEF Take, IInv, TypeOK, MemberState
    <2>4. ASSUME NEW c \in Calls, Fail(c) PROVE state'[m].retry_at >= state[m].retry_at
        <3>1. at[c] \in Members
            BY <1>1, <2>4 DEF Fail, IInv, HeldIsOlder
        <3> QED BY <1>1, <2>0, <2>4, <3>1, FailFacts DEF IInv
    <2>5. ASSUME NEW c \in Calls, Succeed(c) \/ Raise(c)
          PROVE  state'[m].retry_at = state[m].retry_at
        BY <1>1, <2>5, EndFacts
    <2>6. ~Reset
        BY <1>1, <2>0 DEF Reset
    <2> QED BY <1>1, <2>0, <2>1, <2>2, <2>3, <2>4, <2>5, <2>6
        DEF Next, Choose, Attempt, Skip, Exhausted, Emit, Retry, Wake, Tick, Configure, vars
<1>2. IInv /\ [Next]_vars =>
          [\A m \in Members : state'[m].error_code # "none" /\ epoch' = epoch =>
              state'[m].retry_at >= state[m].retry_at]_vars
    BY <1>1
<1> QED
    BY <1>2, PoolInvariance, PTL DEF Spec, CooldownNeverShrinks

(* A call that a reset has left behind fails, succeeds or is cancelled      *)
(* without a trace in the pool: the state object it holds is not the pool's *)
(* any more (_states.get(key) is state).                                    *)
THEOREM OrphansChangeNothing == Spec => OrphansAreHarmless
<1>1. ASSUME IInv, [Next]_vars, NEW c \in Calls,
             pc[c] \in InFlight, ~Holds(c), pc'[c] # pc[c]
      PROVE  UNCHANGED state
    <2>0. pc \in [Calls -> {"idle", "choosing"} \cup InFlight \cup Ended] /\ at[c] \in Members
          /\ state \in [Members -> MemberState] /\ TypeOK
        BY <1>1 DEF IInv, TypeOK, HeldIsOlder
    <2>1. CASE UNCHANGED pc
        BY <1>1, <2>1
    <2>2. ASSUME NEW d \in Calls \ {c}, Execute(d) \/ Choose(d) \/ Attempt(d) PROVE FALSE
        <3>1. CASE Execute(d) \/ Choose(d)
            BY <1>1, <2>0, <3>1 DEF Execute, Choose, Skip, Take, Exhausted, Leave
        <3>2. CASE Attempt(d)
            BY <1>1, <2>0, <2>2, <3>2 DEF Attempt, Succeed, Retry, Wake, Fail, Raise, Leave
        <3> QED BY <2>2, <3>1, <3>2
    <2>3. ~Execute(c) /\ ~Choose(c)
        BY <1>1 DEF Execute, Choose, Skip, Take, Exhausted
    <2>4. CASE Retry(c) \/ Wake(c)
        BY <2>4 DEF Retry, Wake
    <2>5. CASE Fail(c)
        BY <1>1, <2>0, <2>5, FailFacts
    <2>6. CASE Succeed(c) \/ Raise(c)
        BY <1>1, <2>6, EndFacts
    <2> QED BY <1>1, <2>1, <2>2, <2>3, <2>4, <2>5, <2>6
        DEF Next, Attempt, Emit, Tick, Configure, Reset, vars
<1>2. IInv /\ [Next]_vars =>
          [\A c \in Calls : pc[c] \in InFlight /\ ~Holds(c) /\ pc'[c] # pc[c] => UNCHANGED state]_vars
    BY <1>1
<1> QED
    BY <1>2, PoolInvariance, PTL DEF Spec, OrphansAreHarmless
=============================================================================
