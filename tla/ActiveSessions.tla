--------------------------- MODULE ActiveSessions ---------------------------
(***************************************************************************)
(* The registry of active sessions (agent/modules/agent_runtime/             *)
(* active_sessions.py) and what it protects: the checkpoint of a             *)
(* conversation thread, written by agent runs, by compaction, by             *)
(* notifications injected into the thread, and by deletion.                  *)
(*                                                                           *)
(* Every call of the registry is one step: it takes the registry's lock and  *)
(* awaits nothing.  Runs and mutations interleave between those calls.  A    *)
(* checkpoint is the set of messages it preserves; a run, an injection and   *)
(* a compaction read it once and write a successor of what they read.        *)
(***************************************************************************)
EXTENDS Integers, FiniteSets

CONSTANTS
    Threads,     \* conversation threads
    Sub,         \* Sub[t]: the threads whose id starts with "t:sub:"
    Tasks,       \* asyncio tasks that run an agent, each one run of one thread
    MaxDepth,    \* bound: nesting of track_active_session in one task
    Idles,       \* mutations with require_idle: compaction, fork, runtime switch
    Notes,       \* injections of a message pair: wait_for_thread_mutation
    Deletes,     \* delete_workflow_thread_tree calls
    MaxStops,    \* bound: stop requests of a behaviour
    None         \* no task

ASSUME SessionsAssumption ==
    /\ Sub \in [Threads -> SUBSET Threads]
    /\ \A t \in Threads : t \notin Sub[t] /\ \A u \in Sub[t] : Sub[u] \subseteq Sub[t]
    /\ IsFiniteSet(Tasks) /\ None \notin Tasks /\ Threads # {}
    /\ Tasks \cap (Idles \cup Notes \cup Deletes) = {}
    /\ MaxDepth \in Nat \ {0} /\ MaxStops \in Nat
    /\ Idles \cap Notes = {} /\ Idles \cap Deletes = {} /\ Notes \cap Deletes = {}

Mutators == Idles \cup Notes \cup Deletes
Messages == Tasks \cup Notes

VARIABLES
    session,    \* session[t]: id of the session of t in _sessions, 0 if there is none
    refcount,   \* refcount[t]: _refcounts of that session
    owner,      \* owner[t]: _tasks of that session
    nextId,     \* the next session id
    mutations,  \* _thread_mutations
    run,        \* run[p]: "idle", "running", "done"
    on,         \* on[p]: its thread
    depth,      \* depth[p]: contexts of track_active_session it is in
    ref,        \* ref[p]: the session id it was given
    base,       \* base[x]: the checkpoint a task or mutator last read or wrote
    op,         \* op[m]: "unsent", "waiting", "holding", "listed", "done" or "failed"
    target,     \* target[m]: the thread a mutation is about
    holds,      \* holds[m]: threads it has reserved
    todo,       \* todo[m]: children a tree deletion still has to delete
    checkpoint, \* checkpoint[t]: messages the latest checkpoint preserves
    kept,       \* history: messages written to t by a writer that was alone
    cancelled,  \* tasks that were cancelled
    stops       \* what is left of the bound

registry == <<session, refcount, owner, nextId>>
runs     == <<run, on, depth, ref>>
mutators == <<op, target, holds, todo>>
saved    == <<checkpoint, kept>>
control  == <<cancelled, stops>>
vars     == <<session, refcount, owner, nextId, mutations, run, on, depth, ref, base,
              op, target, holds, todo, checkpoint, kept, cancelled, stops>>

Running(t) == {p \in Tasks : depth[p] > 0 /\ on[p] = t}

-----------------------------------------------------------------------------
(* Agent runs: track_active_session.  A task nests it for its own thread.   *)

MayEnter(p, t) == \/ run[p] = "idle"
                  \/ run[p] = "running" /\ on[p] = t /\ depth[p] < MaxDepth

(* Mutant: acquire() does not look at the reservations. *)
AcquireUnchecked(p, t) ==
    /\ MayEnter(p, t)
    /\ IF session[t] # 0
       THEN refcount' = [refcount EXCEPT ![t] = @ + 1] /\ UNCHANGED <<session, nextId>>
       ELSE /\ refcount' = [refcount EXCEPT ![t] = 1]
            /\ session' = [session EXCEPT ![t] = nextId] /\ nextId' = nextId + 1
    /\ owner' = [owner EXCEPT ![t] = p]
    /\ run' = [run EXCEPT ![p] = "running"] /\ on' = [on EXCEPT ![p] = t]
    /\ depth' = [depth EXCEPT ![p] = @ + 1] /\ ref' = [ref EXCEPT ![p] = session'[t]]
    /\ base' = [base EXCEPT ![p] = checkpoint[t]]
    /\ UNCHANGED <<mutations, mutators, saved, control>>

(* A run registers the session of its thread, or joins the one there is.    *)
Acquire(p, t) ==
    /\ MayEnter(p, t)
    /\ t \notin mutations
    /\ IF session[t] # 0
       THEN refcount' = [refcount EXCEPT ![t] = @ + 1] /\ UNCHANGED <<session, nextId>>
       ELSE /\ refcount' = [refcount EXCEPT ![t] = 1]
            /\ session' = [session EXCEPT ![t] = nextId] /\ nextId' = nextId + 1
    /\ owner' = [owner EXCEPT ![t] = p]
    /\ run' = [run EXCEPT ![p] = "running"] /\ on' = [on EXCEPT ![p] = t]
    /\ depth' = [depth EXCEPT ![p] = @ + 1] /\ ref' = [ref EXCEPT ![p] = session'[t]]
    /\ base' = [base EXCEPT ![p] = checkpoint[t]]
    /\ UNCHANGED <<mutations, mutators, saved, control>>

(* A reserved thread refuses the run. *)
Refused(p, t) ==
    /\ run[p] = "idle" /\ t \in mutations
    /\ run' = [run EXCEPT ![p] = "done"]
    /\ UNCHANGED <<registry, mutations, on, depth, ref, base, mutators, saved, control>>

(* The graph saves a checkpoint that continues the one the run has loaded.  *)
Write(p) ==
    /\ depth[p] > 0
    /\ LET t     == on[p]
           alone == Running(t) = {p} /\ \A m \in Notes : t \notin holds[m]
       IN  /\ base' = [base EXCEPT ![p] = @ \cup {p}]
           /\ checkpoint' = [checkpoint EXCEPT ![t] = base'[p]]
           /\ kept' = [kept EXCEPT ![t] = IF alone THEN @ \cup {p} ELSE @]
    /\ UNCHANGED <<registry, mutations, runs, mutators, control>>

(* Mutant: the session goes when its first reference is released. *)
ReleaseFirst(p) ==
    /\ depth[p] > 0
    /\ LET t == on[p] IN
          IF session[t] = ref[p]
          THEN /\ session' = [session EXCEPT ![t] = 0]
               /\ refcount' = [refcount EXCEPT ![t] = 0]
               /\ owner' = [owner EXCEPT ![t] = None]
          ELSE UNCHANGED <<session, refcount, owner>>
    /\ depth' = [depth EXCEPT ![p] = @ - 1]
    /\ run' = [run EXCEPT ![p] = IF depth[p] = 1 THEN "done" ELSE "running"]
    /\ UNCHANGED <<nextId, mutations, on, ref, base, mutators, saved, control>>

(* release(): the last reference unregisters the session. *)
Release(p) ==
    /\ depth[p] > 0
    /\ LET t == on[p] IN
          IF session[t] # ref[p]
          THEN UNCHANGED <<session, refcount, owner>>
          ELSE IF refcount[t] > 1
          THEN refcount' = [refcount EXCEPT ![t] = @ - 1] /\ UNCHANGED <<session, owner>>
          ELSE /\ session' = [session EXCEPT ![t] = 0]
               /\ refcount' = [refcount EXCEPT ![t] = 0]
               /\ owner' = [owner EXCEPT ![t] = None]
    /\ depth' = [depth EXCEPT ![p] = @ - 1]
    /\ run' = [run EXCEPT ![p] = IF depth[p] = 1 THEN "done" ELSE "running"]
    /\ UNCHANGED <<nextId, mutations, on, ref, base, mutators, saved, control>>

(* cancel_by_thread: the task stored for the thread's session is cancelled. *)
Stop(t) ==
    /\ stops > 0 /\ stops' = stops - 1
    /\ session[t] # 0
    /\ cancelled' = cancelled \cup {owner[t]}
    /\ UNCHANGED <<registry, mutations, runs, base, mutators, saved>>

-----------------------------------------------------------------------------
(* reserve_thread_mutation, with and without require_idle *)

Reserve(m, ts) ==
    /\ ts \cap mutations = {}
    /\ mutations' = mutations \cup ts
    /\ holds' = [holds EXCEPT ![m] = @ \cup ts]

Free(m, ts) ==
    /\ mutations' = mutations \ ts
    /\ holds' = [holds EXCEPT ![m] = @ \ ts]

(* Mutant: a compaction does not ask for an idle thread. *)
ReserveBusy(m, ts) ==
    /\ m \in Idles /\ op[m] = "unsent" /\ ts # {}
    /\ Reserve(m, ts)
    /\ op' = [op EXCEPT ![m] = "holding"]
    /\ \E t \in ts : /\ target' = [target EXCEPT ![m] = t]
                     /\ base' = [base EXCEPT ![m] = checkpoint[t]]
    /\ UNCHANGED <<registry, runs, todo, saved, control>>

(* A compaction or a fork reserves one thread, a runtime switch all those   *)
(* of a workspace or none.                                                  *)
ReserveIdle(m, ts) ==
    /\ m \in Idles /\ op[m] = "unsent" /\ ts # {}
    /\ \A t \in ts : session[t] = 0
    /\ Reserve(m, ts)
    /\ op' = [op EXCEPT ![m] = "holding"]
    /\ \E t \in ts : /\ target' = [target EXCEPT ![m] = t]
                     /\ base' = [base EXCEPT ![m] = checkpoint[t]]
    /\ UNCHANGED <<registry, runs, todo, saved, control>>

(* The compacted checkpoint replaces the one that was read: what it read is *)
(* kept or summarized.                                                      *)
Compact(m) ==
    /\ m \in Idles /\ op[m] = "holding" /\ holds[m] = {target[m]}
    /\ checkpoint' = [checkpoint EXCEPT ![target[m]] = base[m]]
    /\ UNCHANGED <<registry, mutations, runs, base, mutators, kept, control>>

(* The context of a compaction, a fork or a switch exits: it is over, well   *)
(* or badly.                                                                *)
Finish(m) ==
    /\ m \in Idles /\ op[m] = "holding"
    /\ Free(m, holds[m])
    /\ op' = [op EXCEPT ![m] = "done"]
    /\ UNCHANGED <<registry, runs, base, target, todo, saved, control>>

(* An injection or a deletion fails or is cancelled, while it waits, before  *)
(* it has written anything, or half way.                                    *)
Fail(m) ==
    /\ m \in Notes \cup Deletes /\ op[m] \in {"waiting", "holding", "listed"}
    /\ Free(m, holds[m])
    /\ op' = [op EXCEPT ![m] = "failed"]
    /\ todo' = [todo EXCEPT ![m] = {}]
    /\ UNCHANGED <<registry, runs, base, target, saved, control>>

(* A note or a deletion is requested, and polls until it gets its thread,   *)
(* idle or not.                                                             *)
Request(m, t) ==
    /\ m \in Notes \cup Deletes /\ op[m] = "unsent"
    /\ op' = [op EXCEPT ![m] = "waiting"]
    /\ target' = [target EXCEPT ![m] = t]
    /\ UNCHANGED <<registry, mutations, runs, base, holds, todo, saved, control>>

Poll(m) ==
    /\ op[m] = "waiting"
    /\ Reserve(m, {target[m]})
    /\ op' = [op EXCEPT ![m] = "holding"]
    /\ base' = [base EXCEPT ![m] = checkpoint[target[m]]]
    /\ UNCHANGED <<registry, runs, target, todo, saved, control>>

(* inject_agent_message_pair: the pair is added to what aupdate_state read. *)
Inject(m) ==
    /\ m \in Notes /\ op[m] = "holding"
    /\ LET t == target[m] IN
          /\ checkpoint' = [checkpoint EXCEPT ![t] = base[m] \cup {m}]
          /\ kept' = [kept EXCEPT ![t] = IF Running(t) = {} THEN @ \cup {m} ELSE @]
    /\ Free(m, holds[m])
    /\ op' = [op EXCEPT ![m] = "done"]
    /\ UNCHANGED <<registry, runs, base, target, todo, control>>

(* Mutant: lists the whole conversation a thread belongs to, its root too.  *)
ListWholeTree(m) ==
    /\ m \in Deletes /\ op[m] = "holding"
    /\ todo' = [todo EXCEPT ![m] = {c \in Threads \ {target[m]} : checkpoint[c] # {}}]
    /\ op' = [op EXCEPT ![m] = "listed"]
    /\ UNCHANGED <<registry, mutations, runs, base, target, holds, saved, control>>

(* _delete_workflow_thread_tree_reserved: list the children that have a     *)
(* checkpoint, delete each under its own reservation, and the parent last.  *)
(* A listing that fails finds none.                                         *)
ListTree(m) ==
    /\ m \in Deletes /\ op[m] = "holding"
    /\ \E found \in {{}, {c \in Sub[target[m]] : checkpoint[c] # {}}} : todo' = [todo EXCEPT ![m] = found]
    /\ op' = [op EXCEPT ![m] = "listed"]
    /\ UNCHANGED <<registry, mutations, runs, base, target, holds, saved, control>>

Erase(t) ==
    /\ checkpoint' = [checkpoint EXCEPT ![t] = {}]
    /\ kept' = [kept EXCEPT ![t] = {}]

HoldChild(m, c) ==
    /\ op[m] = "listed" /\ c \in todo[m] /\ holds[m] = {target[m]}
    /\ Reserve(m, {c})
    /\ UNCHANGED <<registry, runs, base, op, target, todo, saved, control>>

(* A child that cannot be deleted is passed over. *)
EraseChild(m, c) ==
    /\ op[m] = "listed" /\ c \in todo[m] /\ c \in holds[m]
    /\ Erase(c) \/ UNCHANGED saved
    /\ Free(m, {c})
    /\ todo' = [todo EXCEPT ![m] = @ \ {c}]
    /\ UNCHANGED <<registry, runs, base, op, target, control>>

EraseParent(m) ==
    /\ op[m] = "listed" /\ todo[m] = {}
    /\ Erase(target[m])
    /\ Free(m, holds[m])
    /\ op' = [op EXCEPT ![m] = "done"]
    /\ UNCHANGED <<registry, runs, base, target, todo, control>>

-----------------------------------------------------------------------------
Init ==
    /\ session = [t \in Threads |-> 0] /\ refcount = [t \in Threads |-> 0]
    /\ owner = [t \in Threads |-> None] /\ nextId = 1 /\ mutations = {}
    /\ run = [p \in Tasks |-> "idle"] /\ depth = [p \in Tasks |-> 0]
    /\ ref = [p \in Tasks |-> 0]
    /\ on = [p \in Tasks |-> CHOOSE t \in Threads : TRUE]
    /\ base = [x \in Tasks \cup Mutators |-> {}]
    /\ op = [m \in Mutators |-> "unsent"]
    /\ target = [m \in Mutators |-> CHOOSE t \in Threads : TRUE]
    /\ holds = [m \in Mutators |-> {}] /\ todo = [m \in Mutators |-> {}]
    /\ checkpoint = [t \in Threads |-> {}] /\ kept = [t \in Threads |-> {}]
    /\ cancelled = {} /\ stops = MaxStops

RunStep(p) == \/ \E t \in Threads : Acquire(p, t) \/ Refused(p, t)
              \/ Write(p) \/ Release(p)

(* What a note or a deletion does on its way to its end. *)
Serve(m) == \/ Poll(m) \/ Inject(m) \/ ListTree(m) \/ EraseParent(m)
            \/ \E c \in Threads : HoldChild(m, c) \/ EraseChild(m, c)

Mutate(m) == \/ \E ts \in SUBSET Threads : ReserveIdle(m, ts)
             \/ Compact(m) \/ Finish(m)
             \/ \E t \in Threads : Request(m, t)
             \/ Serve(m) \/ Fail(m)

Next == \/ \E p \in Tasks : RunStep(p)
        \/ \E m \in Mutators : Mutate(m)
        \/ \E t \in Threads : Stop(t)

Spec == Init /\ [][Next]_vars

(* A waiting mutation polls every 0.05 s, for ever, and one that holds what  *)
(* it needs goes on; a compaction, a fork or a switch comes to its end.     *)
(* Runs need not end, and nothing makes a note or a deletion give up.       *)
FairSpec ==
    /\ Spec
    /\ \A m \in Notes \cup Deletes : WF_vars(Serve(m))
    /\ \A m \in Idles : WF_vars(Finish(m))

-----------------------------------------------------------------------------
(* Properties *)

RegistryTyped ==
    /\ session \in [Threads -> Nat] /\ refcount \in [Threads -> Nat]
    /\ owner \in [Threads -> Tasks \cup {None}] /\ nextId \in Nat \ {0}
    /\ mutations \in SUBSET Threads
RunsTyped ==
    /\ run \in [Tasks -> {"idle", "running", "done"}] /\ on \in [Tasks -> Threads]
    /\ depth \in [Tasks -> 0..MaxDepth] /\ ref \in [Tasks -> Nat]
MutatorsTyped ==
    /\ op \in [Mutators -> {"unsent", "waiting", "holding", "listed", "done", "failed"}]
    /\ target \in [Mutators -> Threads]
    /\ holds \in [Mutators -> SUBSET Threads] /\ todo \in [Mutators -> SUBSET Threads]
SavedTyped ==
    /\ base \in [Tasks \cup Mutators -> SUBSET Messages]
    /\ checkpoint \in [Threads -> SUBSET Messages] /\ kept \in [Threads -> SUBSET Messages]
    /\ cancelled \in SUBSET (Tasks \cup {None}) /\ stops \in Nat

TypeOK == RegistryTyped /\ RunsTyped /\ MutatorsTyped /\ SavedTyped

(* The dashboard's running state is exact: a thread has a session as long   *)
(* as a run is inside track_active_session, the session counts the contexts *)
(* entered, and every run refers to the session that is registered.         *)
Contexts(t) == {c \in Tasks \X (1..MaxDepth) : on[c[1]] = t /\ c[2] <= depth[c[1]]}
SessionsMatchRuns ==
    /\ \A t \in Threads : /\ refcount[t] = Cardinality(Contexts(t))
                          /\ session[t] # 0 <=> Running(t) # {}
    /\ \A p \in Tasks : depth[p] > 0 => ref[p] = session[on[p]]

(* While a compaction, a fork or a switch holds a thread it required to be  *)
(* idle, no run is on it and nobody writes its checkpoint: what the holder  *)
(* read is what it replaces.                                                *)
IdleMeansIdle ==
    \A m \in Idles : \A t \in holds[m] :
        /\ Running(t) = {}
        /\ t = target[m] => checkpoint[t] = base[m]

(* Messages saved by a run or an injection that shared its thread with no   *)
(* other run or injection are in the checkpoint until the thread is         *)
(* deleted: neither a compaction nor a later run or injection drops them.   *)
KeptIsSaved == \A t \in Threads : kept[t] \subseteq checkpoint[t]

(* Notifications are not dropped and deletions reach their last thread,     *)
(* whatever compactions, forks and other deletions of a tree do, and        *)
(* although runs may not end.  Failing is no way out for those that wait for *)
(* one another in a circle, since it has no fairness: one that is done has   *)
(* written or deleted, and only one that did fail is excused.                *)
EveryWaiterServed ==
    \A m \in Notes \cup Deletes : op[m] = "waiting" ~> op[m] \in {"done", "failed"}

(* What IdleMeansIdle and KeptIsSaved rest on: the reservations are those   *)
(* of the mutations under way, no two hold a thread, and whoever will write *)
(* a successor of the checkpoint it has read has read what must be kept.    *)
ReservationsAreHeld ==
    /\ mutations = UNION {holds[m] : m \in Mutators}
    /\ \A m, n \in Mutators : m # n => holds[m] \cap holds[n] = {}
    /\ \A m \in Mutators : op[m] \in {"unsent", "waiting", "done", "failed"} => holds[m] = {}
    /\ \A m \in Mutators : op[m] \in {"holding", "listed"} => target[m] \in holds[m]
    /\ \A m \in Idles : op[m] \notin {"waiting", "listed"}
    /\ \A m \in Notes : op[m] # "listed"
    /\ \A m \in Mutators : target[m] \notin todo[m] /\ (op[m] # "listed" => todo[m] = {})

RunsNest == \A p \in Tasks : run[p] = "running" <=> depth[p] > 0

WritersKnow ==
    /\ \A p \in Tasks : depth[p] > 0 => kept[on[p]] \subseteq base[p]
    /\ \A m \in Notes : op[m] = "holding" => kept[target[m]] \subseteq base[m]

IInv == TypeOK /\ RunsNest /\ SessionsMatchRuns /\ ReservationsAreHeld /\ IdleMeansIdle
        /\ WritersKnow /\ KeptIsSaved
=============================================================================
