------------------------------ MODULE ModelPool ------------------------------
(***************************************************************************)
(* A priority pool of models (agent/modules/providers/model_pools.py): the  *)
(* process-local availability of its members, and the concurrent execute()  *)
(* calls that walk the members in order, retry, fail over, and probe a      *)
(* member whose cooldown is over.                                           *)
(*                                                                          *)
(* A call awaits an attempt or a retry delay; what it does when one ends is *)
(* one action.  Its walk over the members is one action per member, which   *)
(* allows more interleavings than a single event loop does.  reset() drops  *)
(* the MemberState objects: those of an older epoch are still held by the   *)
(* calls in flight, and fail the test "self._states.get(key) is state" from *)
(* then on, so no more needs to be known of them.                           *)
(***************************************************************************)
EXTENDS Integers, FiniteSets

CONSTANTS
    NumMembers,    \* members of the pool, by priority
    Calls,         \* execute() calls of a behaviour
    RetryCount,    \* pool.retry_count
    Cooldown,      \* pool.cooldown_seconds
    QuotaCooldown, \* pool.quota_cooldown_seconds
    MaxTime,       \* bound: the clock stops here
    MaxEdits       \* bound: configuration changes and resets, together

ASSUME PoolAssumption ==
    /\ NumMembers \in Nat \ {0}
    /\ RetryCount \in Nat
    /\ Cooldown \in Nat \ {0} /\ QuotaCooldown \in Nat \ {0}
    /\ MaxTime \in Nat /\ MaxEdits \in Nat

Members == 1..NumMembers
Codes   == {"unavailable", "quota"}        \* PoolFailure.code, as far as it matters
Fresh   == [retry_at |-> 0, probing |-> FALSE, error_code |-> "none", generation |-> 0]

VARIABLES
    now,         \* the clock
    config,      \* version of the pool's and the providers' settings
    enabled,     \* members whose provider is enabled
    fingerprint, \* the version get() saw last
    epoch,       \* number of resets: which MemberState objects _states holds
    state,       \* state[m]: the MemberState of m (a missing one is Fresh)
    pc,          \* pc[c]: "idle", "choosing", "trying", "sleeping", or how the call ended
    at,          \* at[c]: the member the call looks at or uses
    held,        \* held[c]: epoch and generation of its state object, and whether it probes
    retry,       \* retry[c]: retries made at that member
    started,     \* started[c]: OutputGuard.started of the attempt
    emitted      \* emitted[c]: history: attempts of the call whose output was seen

pool  == <<now, config, enabled, fingerprint, epoch, state>>
call  == <<pc, at, held, retry, started, emitted>>
vars  == <<now, config, enabled, fingerprint, epoch, state, call>>

InFlight == {"trying", "sleeping"}
Ended    == {"returned", "raised", "exhausted"}

Holds(c)       == held[c].epoch = epoch            \* self._states.get(key) is state
Unavailable(m) == state[m].probing \/ state[m].retry_at > now
AtLeast(x, y)  == IF x >= y THEN x ELSE y

(* Leaving a member runs the finally clause of the attempt loop. *)
Released(c, s) == IF Holds(c) THEN [s EXCEPT ![at[c]].probing = FALSE] ELSE s

Leave(c, end) == pc' = [pc EXCEPT ![c] = end]
Next1(c)      == at' = [at EXCEPT ![c] = @ + 1]    \* on to the next member

-----------------------------------------------------------------------------
(* get(): a change of the settings since the last call resets the pool. *)
Execute(c) ==
    /\ pc[c] = "idle"
    /\ IF fingerprint # config
       THEN /\ epoch' = epoch + 1
            /\ state' = [m \in Members |-> Fresh]
            /\ fingerprint' = config
       ELSE UNCHANGED <<epoch, state, fingerprint>>
    /\ pc' = [pc EXCEPT ![c] = "choosing"]
    /\ at' = [at EXCEPT ![c] = 1]
    /\ UNCHANGED <<now, config, enabled, held, retry, started, emitted>>

Skip(c) ==
    /\ pc[c] = "choosing" /\ at[c] <= NumMembers
    /\ at[c] \notin enabled \/ Unavailable(at[c])
    /\ Next1(c)
    /\ UNCHANGED <<pool, pc, held, retry, started, emitted>>

(* Healthy calls are concurrent; a member in error is probed. *)
Take(c) ==
    /\ pc[c] = "choosing" /\ at[c] \in enabled /\ ~Unavailable(at[c])
    /\ LET m       == at[c]
           probing == state[m].error_code # "none"
       IN  /\ state' = [state EXCEPT ![m].probing = probing]
           /\ held' = [held EXCEPT ![c] = [epoch |-> epoch, probe |-> probing,
                                           generation |-> state[m].generation]]
    /\ pc' = [pc EXCEPT ![c] = "trying"]
    /\ retry' = [retry EXCEPT ![c] = 0]
    /\ started' = [started EXCEPT ![c] = FALSE]
    /\ UNCHANGED <<now, config, enabled, fingerprint, epoch, at, emitted>>

Exhausted(c) ==
    /\ pc[c] = "choosing" /\ at[c] > NumMembers
    /\ Leave(c, "exhausted")
    /\ UNCHANGED <<pool, at, held, retry, started, emitted>>

-----------------------------------------------------------------------------
(* What an attempt does. *)

(* The first token reaches the guard, and through it the caller. *)
Emit(c) ==
    /\ pc[c] = "trying" /\ ~started[c]
    /\ started' = [started EXCEPT ![c] = TRUE]
    /\ emitted' = [emitted EXCEPT ![c] = @ + 1]
    /\ UNCHANGED <<pool, pc, at, held, retry>>

(* Mutant: a late success clears a failure it has not seen. *)
SucceedAnyGeneration(c) ==
    /\ pc[c] = "trying"
    /\ state' = Released(c, IF Holds(c)
                            THEN [state EXCEPT ![at[c]].retry_at = 0, ![at[c]].error_code = "none"]
                            ELSE state)
    /\ Leave(c, "returned")
    /\ UNCHANGED <<now, config, enabled, fingerprint, epoch, at, held, retry, started, emitted>>

(* A success clears the failure, unless the member failed meanwhile. *)
Succeed(c) ==
    /\ pc[c] = "trying"
    /\ state' = Released(c, IF Holds(c) /\ state[at[c]].generation = held[c].generation
                            THEN [state EXCEPT ![at[c]].retry_at = 0, ![at[c]].error_code = "none"]
                            ELSE state)
    /\ Leave(c, "returned")
    /\ UNCHANGED <<now, config, enabled, fingerprint, epoch, at, held, retry, started, emitted>>

(* Mutant: an attempt is retried although its output has started. *)
RetryStarted(c) ==
    /\ pc[c] = "trying" /\ retry[c] < RetryCount
    /\ pc' = [pc EXCEPT ![c] = "sleeping"]
    /\ UNCHANGED <<pool, at, held, retry, started, emitted>>

(* A retryable failure before any output: sleep, then try again. *)
Retry(c) ==
    /\ pc[c] = "trying" /\ ~started[c] /\ retry[c] < RetryCount
    /\ pc' = [pc EXCEPT ![c] = "sleeping"]
    /\ UNCHANGED <<pool, at, held, retry, started, emitted>>

(* Mutant: retries are not counted. *)
WakeUncounted(c) ==
    /\ pc[c] = "sleeping"
    /\ pc' = [pc EXCEPT ![c] = "trying"]
    /\ started' = [started EXCEPT ![c] = FALSE]
    /\ UNCHANGED <<pool, at, held, retry, emitted>>

Wake(c) ==
    /\ pc[c] = "sleeping"
    /\ pc' = [pc EXCEPT ![c] = "trying"]
    /\ retry' = [retry EXCEPT ![c] = @ + 1]
    /\ started' = [started EXCEPT ![c] = FALSE]
    /\ UNCHANGED <<pool, at, held, emitted>>

(* The cooldown of a failure; a provider's retry_after of 0 overrides it. *)
Hints == {"none", "zero"}
Penalty(code, hint) ==
    IF hint = "zero" THEN 0 ELSE IF code = "quota" THEN QuotaCooldown ELSE Cooldown

(* Mutant: the newest failure replaces the cooldown. *)
DownShorter(m, code, seconds) ==
    [state[m] EXCEPT !.retry_at = now + seconds,
                     !.error_code = code, !.generation = @ + 1]

(* _fail *)
Down(m, code, seconds) ==
    [state[m] EXCEPT !.retry_at = AtLeast(@, now + seconds),
                     !.error_code = code, !.generation = @ + 1]

(* Mutant: the failure of a call that outlives a reset counts. *)
FailAny(c) ==
    /\ pc[c] = "trying"
    /\ \E code \in Codes, hint \in Hints :
          state' = Released(c, [state EXCEPT ![at[c]] = Down(at[c], code, Penalty(code, hint))])
    /\ IF started[c]
       THEN Leave(c, "raised") /\ UNCHANGED at
       ELSE pc' = [pc EXCEPT ![c] = "choosing"] /\ Next1(c)
    /\ UNCHANGED <<now, config, enabled, fingerprint, epoch, held, retry, started, emitted>>

(* The last failure at a member: it cools down, for as long as the provider *)
(* asked or as configured; the call fails over, or raises if its output has *)
(* started.                                                                 *)
Fail(c) ==
    /\ pc[c] = "trying"
    /\ \E code \in Codes, hint \in Hints :
          state' = Released(c, IF Holds(c)
                               THEN [state EXCEPT ![at[c]] = Down(at[c], code, Penalty(code, hint))]
                               ELSE state)
    /\ IF started[c]
       THEN Leave(c, "raised") /\ UNCHANGED at
       ELSE pc' = [pc EXCEPT ![c] = "choosing"] /\ Next1(c)
    /\ UNCHANGED <<now, config, enabled, fingerprint, epoch, held, retry, started, emitted>>

(* Mutant: a cancelled or otherwise failing call keeps the probe. *)
RaiseKeepsProbe(c) ==
    /\ pc[c] \in InFlight
    /\ Leave(c, "raised")
    /\ UNCHANGED <<pool, at, held, retry, started, emitted>>

(* Another exception, or the cancellation of the call. *)
Raise(c) ==
    /\ pc[c] \in InFlight
    /\ state' = Released(c, state)
    /\ Leave(c, "raised")
    /\ UNCHANGED <<now, config, enabled, fingerprint, epoch, at, held, retry, started, emitted>>

-----------------------------------------------------------------------------
Tick ==
    /\ now < MaxTime
    /\ now' = now + 1
    /\ UNCHANGED <<config, enabled, fingerprint, epoch, state, call>>

(* An administrator edits the pool or one of its providers. *)
Configure ==
    /\ config + epoch < MaxEdits
    /\ config' = config + 1
    /\ enabled' \in SUBSET Members
    /\ UNCHANGED <<now, fingerprint, epoch, state, call>>

(* reset(): asked for by an administrator, and part of an edit of the pool. *)
Reset ==
    /\ config + epoch < MaxEdits
    /\ epoch' = epoch + 1
    /\ state' = [m \in Members |-> Fresh]
    /\ UNCHANGED <<now, config, enabled, fingerprint, call>>

Init ==
    /\ now = 0 /\ config = 0 /\ fingerprint = 0 /\ epoch = 0
    /\ enabled = Members
    /\ state = [m \in Members |-> Fresh]
    /\ pc = [c \in Calls |-> "idle"]
    /\ at = [c \in Calls |-> 1]
    /\ held = [c \in Calls |-> [epoch |-> 0, probe |-> FALSE, generation |-> 0]]
    /\ retry = [c \in Calls |-> 0]
    /\ started = [c \in Calls |-> FALSE]
    /\ emitted = [c \in Calls |-> 0]

Choose(c)  == Skip(c) \/ Take(c) \/ Exhausted(c)
Attempt(c) == Succeed(c) \/ Retry(c) \/ Wake(c) \/ Fail(c) \/ Raise(c)

Next == \/ \E c \in Calls : Execute(c) \/ Choose(c) \/ Emit(c) \/ Attempt(c)
        \/ Tick \/ Configure \/ Reset

Spec == Init /\ [][Next]_vars

(* Every attempt is answered, fails or is cancelled, and a sleep ends. *)
FairSpec == Spec /\ \A c \in Calls : WF_vars(Choose(c)) /\ WF_vars(Attempt(c))

-----------------------------------------------------------------------------
(* Properties *)

MemberState == [retry_at : Nat, probing : BOOLEAN, error_code : Codes \cup {"none"},
                generation : Nat]
Lease       == [epoch : Nat, probe : BOOLEAN, generation : Nat]

TypeOK ==
    /\ now \in Nat /\ config \in Nat /\ fingerprint \in Nat /\ epoch \in Nat
    /\ enabled \in SUBSET Members
    /\ state \in [Members -> MemberState]
    /\ pc \in [Calls -> {"idle", "choosing"} \cup InFlight \cup Ended]
    /\ at \in [Calls -> 1..(NumMembers + 1)]
    /\ held \in [Calls -> Lease]
    /\ retry \in [Calls -> 0..RetryCount]
    /\ started \in [Calls -> BOOLEAN]
    /\ emitted \in [Calls -> Nat]

(* A member marked as being probed has a call in flight that probes it: no  *)
(* failure, failover, exception, cancellation or reset leaves the mark      *)
(* behind, which would take the member out of the pool for good.            *)
ProbeHasCall ==
    \A m \in Members : state[m].probing =>
        \E c \in Calls : pc[c] \in InFlight /\ at[c] = m /\ Holds(c) /\ held[c].probe

(* A failure is cleared by a probe's success or a reset only: a call that   *)
(* was admitted before the failure, and succeeds late, does not bring the   *)
(* member back.                                                             *)
OnlyProbesRecover ==
    [][\A m \in Members :
          state[m].error_code # "none" /\ state'[m].error_code = "none" /\ epoch' = epoch =>
              \E c \in Calls : at[c] = m /\ held[c].probe /\ pc[c] = "trying" /\ pc'[c] = "returned"]_vars

(* While a member is in error its cooldown never gets shorter, however many *)
(* calls fail at it and whatever the providers hint.                        *)
CooldownNeverShrinks ==
    [][\A m \in Members :
          state'[m].error_code # "none" /\ epoch' = epoch =>
              state'[m].retry_at >= state[m].retry_at]_vars

(* A call that outlives a reset has no effect on the availability of the    *)
(* pool as configured now.                                                  *)
OrphansAreHarmless ==
    [][\A c \in Calls : pc[c] \in InFlight /\ ~Holds(c) /\ pc'[c] # pc[c] => UNCHANGED state]_vars

(* The output of a call comes from one attempt: what was streamed before a  *)
(* failure is never followed by another attempt's output.                   *)
OutputFromOneAttempt == \A c \in Calls : emitted[c] <= 1

(* A call ends: retries and failovers are bounded. *)
EveryCallEnds == \A c \in Calls : pc[c] = "choosing" ~> pc[c] \in Ended

(* What OutputFromOneAttempt rests on: output ends the walk. *)
OutputEndsTheCall ==
    \A c \in Calls :
        /\ pc[c] \in {"idle", "choosing", "sleeping"} => emitted[c] = 0
        /\ pc[c] = "trying" => emitted[c] = IF started[c] THEN 1 ELSE 0
        /\ emitted[c] <= 1

(* What ProbeHasCall and OnlyProbesRecover rest on: a call in flight holds  *)
(* a state no newer than the pool's, and one that is not a probe took a     *)
(* member that has failed since, if it is in error.                         *)
HeldIsOlder ==
    \A c \in Calls : pc[c] \in InFlight =>
        /\ at[c] \in Members
        /\ held[c].epoch <= epoch
        /\ Holds(c) => held[c].generation <= state[at[c]].generation
        /\ Holds(c) /\ held[c].generation = state[at[c]].generation
              /\ state[at[c]].error_code # "none" => held[c].probe

(* A sleeping call has a retry left. *)
RetryIsLeft == \A c \in Calls : pc[c] = "sleeping" => retry[c] < RetryCount

IInv == TypeOK /\ RetryIsLeft /\ ProbeHasCall /\ OutputEndsTheCall /\ HeldIsOlder
=============================================================================
