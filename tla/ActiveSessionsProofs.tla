------------------------ MODULE ActiveSessionsProofs ------------------------
(***************************************************************************)
(* Machine-checked proofs about ActiveSessions, for any forest of threads,  *)
(* any number of tasks, nesting depth, mutations and stops.                 *)
(***************************************************************************)
EXTENDS ActiveSessions, FiniteSetTheorems, TLAPS

USE DEF Mutators, Messages, registry, runs, mutators, saved, control

Ops == {"unsent", "waiting", "holding", "listed", "done", "failed"}

LEMMA IInvInit == Init => IInv
<1> SUFFICES ASSUME Init PROVE IInv
    OBVIOUS
<1>1. TypeOK
    <2>1. (CHOOSE t \in Threads : TRUE) \in Threads
        BY SessionsAssumption
    <2> QED BY <2>1, SessionsAssumption
        DEF Init, TypeOK, RegistryTyped, RunsTyped, MutatorsTyped, SavedTyped
<1>2. SessionsMatchRuns
    <2>1. \A t \in Threads : Contexts(t) = {} /\ Running(t) = {}
        BY DEF Init, Contexts, Running
    <2>2. \A t \in Threads : Cardinality(Contexts(t)) = 0
        BY <2>1, FS_EmptySet
    <2> QED BY <2>1, <2>2 DEF Init, SessionsMatchRuns
<1>3. RunsNest /\ ReservationsAreHeld /\ IdleMeansIdle
    BY DEF Init, RunsNest, ReservationsAreHeld, IdleMeansIdle
<1>4. WritersKnow /\ KeptIsSaved
    BY DEF Init, WritersKnow, KeptIsSaved
<1> QED
    BY <1>1, <1>2, <1>3, <1>4 DEF IInv

-----------------------------------------------------------------------------
(* The contexts of a thread are finitely many, and there are some exactly   *)
(* when a task is running on it.                                            *)
LEMMA ContextsFinite ==
    ASSUME TypeOK, NEW t \in Threads
    PROVE  /\ IsFiniteSet(Contexts(t))
           /\ Cardinality(Contexts(t)) \in Nat
           /\ Contexts(t) = {} <=> Running(t) = {}
           /\ Cardinality(Contexts(t)) = 0 <=> Running(t) = {}
<1>1. IsFiniteSet(Tasks \X (1..MaxDepth))
    <2>1. IsFiniteSet(1..MaxDepth)
        BY SessionsAssumption, FS_Interval
    <2> QED BY <2>1, SessionsAssumption, FS_Product
<1>2. IsFiniteSet(Contexts(t))
    BY <1>1, FS_Subset DEF Contexts
<1>3. Contexts(t) = {} <=> Running(t) = {}
    <2>1. ASSUME NEW p \in Running(t) PROVE <<p, 1>> \in Contexts(t)
        BY SessionsAssumption DEF Running, Contexts, TypeOK, RunsTyped
    <2>2. ASSUME NEW c \in Contexts(t) PROVE c[1] \in Running(t)
        BY DEF Running, Contexts, TypeOK, RunsTyped
    <2> QED BY <2>1, <2>2
<1> QED
    BY <1>2, <1>3, FS_CardinalityType, FS_EmptySet

LEMMA TypeNext == IInv /\ [Next]_vars => TypeOK'
<1> SUFFICES ASSUME IInv, [Next]_vars PROVE TypeOK'
    OBVIOUS
<1>15. ASSUME NEW m \in Mutators, NEW c \in Threads, EraseChild(m, c) PROVE TypeOK'
    <2>1. SavedTyped'
        <3>1. UNCHANGED <<checkpoint, kept>> \/ Erase(c)
            BY <1>15 DEF EraseChild, saved
        <3>2. checkpoint' \in [Threads -> SUBSET Messages] /\ kept' \in [Threads -> SUBSET Messages]
            BY <3>1 DEF Erase, IInv, TypeOK, SavedTyped
        <3> QED BY <1>15, <3>2 DEF EraseChild, IInv, TypeOK, SavedTyped, control
    <2>2. MutatorsTyped' /\ mutations' \in SUBSET Threads
        BY <1>15 DEF EraseChild, Free, IInv, TypeOK, MutatorsTyped, RegistryTyped
    <2>3. RegistryTyped' /\ RunsTyped'
        BY <1>15, <2>2 DEF EraseChild, IInv, TypeOK, RegistryTyped, RunsTyped, registry, runs
    <2> QED BY <2>1, <2>2, <2>3 DEF TypeOK
<1> USE SessionsAssumption DEF IInv, TypeOK, RegistryTyped, RunsTyped, MutatorsTyped, SavedTyped
<1>1. CASE UNCHANGED vars
    BY <1>1 DEF vars
<1>2. ASSUME NEW p \in Tasks, NEW t \in Threads, Acquire(p, t) PROVE TypeOK'
    <2>1. depth[p] < MaxDepth
        BY <1>2 DEF Acquire, MayEnter, RunsNest
    <2>2. session' \in [Threads -> Nat] /\ refcount' \in [Threads -> Nat] /\ nextId' \in Nat \ {0}
        <3>1. CASE session[t] # 0
            BY <1>2, <3>1 DEF Acquire
        <3>2. CASE session[t] = 0
            <4>1. /\ session' = [session EXCEPT ![t] = nextId] /\ nextId' = nextId + 1
                  /\ refcount' = [refcount EXCEPT ![t] = 1]
                BY <1>2, <3>2 DEF Acquire
            <4> QED BY <4>1
        <3> QED BY <3>1, <3>2
    <2>3. depth' \in [Tasks -> 0..MaxDepth] /\ ref' \in [Tasks -> Nat]
        BY <1>2, <2>1, <2>2 DEF Acquire
    <2> QED BY <1>2, <2>2, <2>3 DEF Acquire
<1>3. ASSUME NEW p \in Tasks, NEW t \in Threads, Refused(p, t) PROVE TypeOK'
    BY <1>3 DEF Refused
<1>4. ASSUME NEW p \in Tasks, Write(p) PROVE TypeOK'
    BY <1>4 DEF Write
<1>5. ASSUME NEW p \in Tasks, Release(p) PROVE TypeOK'
    <2>1. session' \in [Threads -> Nat] /\ refcount' \in [Threads -> Nat]
          /\ owner' \in [Threads -> Tasks \cup {None}]
        <3>1. CASE session[on[p]] # ref[p]
            BY <1>5, <3>1 DEF Release
        <3>2. CASE session[on[p]] = ref[p] /\ refcount[on[p]] > 1
            <4>1. PICK t \in Threads : t = on[p]
                OBVIOUS
            <4>2. /\ refcount' = [refcount EXCEPT ![t] = refcount[t] - 1]
                  /\ refcount[t] > 1 /\ UNCHANGED <<session, owner>>
                BY <1>5, <3>2, <4>1 DEF Release
            <4> QED BY <4>2
        <3>3. CASE session[on[p]] = ref[p] /\ ~(refcount[on[p]] > 1)
            <4>1. PICK t \in Threads : t = on[p]
                OBVIOUS
            <4>2. /\ session' = [session EXCEPT ![t] = 0] /\ refcount' = [refcount EXCEPT ![t] = 0]
                  /\ owner' = [owner EXCEPT ![t] = None]
                BY <1>5, <3>3, <4>1 DEF Release
            <4> QED BY <4>2
        <3> QED BY <3>1, <3>2, <3>3
    <2>2. depth[p] \in 1..MaxDepth /\ depth' = [depth EXCEPT ![p] = @ - 1]
        BY <1>5 DEF Release
    <2>3. depth' \in [Tasks -> 0..MaxDepth]
        BY <2>2
    <2> QED BY <1>5, <2>1, <2>3 DEF Release
<1>6. ASSUME NEW t \in Threads, Stop(t) PROVE TypeOK'
    BY <1>6 DEF Stop, Running
<1>7. ASSUME NEW m \in Mutators, NEW ts \in SUBSET Threads, ReserveIdle(m, ts) PROVE TypeOK'
    BY <1>7 DEF ReserveIdle, Reserve
<1>8. ASSUME NEW m \in Mutators, Compact(m) PROVE TypeOK'
    BY <1>8 DEF Compact
<1>9. ASSUME NEW m \in Mutators, Finish(m) \/ Fail(m) PROVE TypeOK'
    <2>1. CASE Finish(m)
        BY <2>1 DEF Finish, Free
    <2>2. CASE Fail(m)
        BY <2>2 DEF Fail, Free
    <2> QED BY <1>9, <2>1, <2>2
<1>10. ASSUME NEW m \in Mutators, NEW t \in Threads, Request(m, t) PROVE TypeOK'
    BY <1>10 DEF Request
<1>11. ASSUME NEW m \in Mutators, Poll(m) PROVE TypeOK'
    BY <1>11 DEF Poll, Reserve
<1>12. ASSUME NEW m \in Mutators, Inject(m) PROVE TypeOK'
    BY <1>12 DEF Inject, Free
<1>13. ASSUME NEW m \in Mutators, ListTree(m) PROVE TypeOK'
    <2>1. {c \in Sub[target[m]] : checkpoint[c] # {}} \subseteq Threads
        OBVIOUS
    <2>2. PICK found \in SUBSET Threads : todo' = [todo EXCEPT ![m] = found]
        BY <1>13, <2>1 DEF ListTree
    <2> QED BY <1>13, <2>2 DEF ListTree
<1>14. ASSUME NEW m \in Mutators, NEW c \in Threads, HoldChild(m, c) PROVE TypeOK'
    BY <1>14 DEF HoldChild, Reserve
<1>16. ASSUME NEW m \in Mutators, EraseParent(m) PROVE TypeOK'
    BY <1>16 DEF EraseParent, Erase, Free
<1> HIDE SessionsAssumption DEF IInv, TypeOK, RegistryTyped, RunsTyped, MutatorsTyped, SavedTyped
<1> QED BY <1>1, <1>2, <1>3, <1>4, <1>5, <1>6, <1>7, <1>8, <1>9, <1>10, <1>11, <1>12, <1>13,
            <1>14, <1>15, <1>16
        DEF Next, RunStep, Mutate, Serve

-----------------------------------------------------------------------------
(* Only Acquire and Release touch the sessions and the contexts they count. *)
LEMMA SessionsNext == IInv /\ [Next]_vars => RunsNest' /\ SessionsMatchRuns'
<1> SUFFICES ASSUME IInv, [Next]_vars PROVE RunsNest' /\ SessionsMatchRuns'
    OBVIOUS
<1>t. /\ session \in [Threads -> Nat] /\ refcount \in [Threads -> Nat] /\ nextId \in Nat \ {0}
      /\ run \in [Tasks -> {"idle", "running", "done"}] /\ on \in [Tasks -> Threads]
      /\ depth \in [Tasks -> 0..MaxDepth] /\ ref \in [Tasks -> Nat] /\ MaxDepth \in Nat
    BY SessionsAssumption DEF IInv, TypeOK, RegistryTyped, RunsTyped
<1>i. /\ \A p \in Tasks : run[p] = "running" <=> depth[p] > 0
      /\ \A t \in Threads : /\ refcount[t] = Cardinality(Contexts(t))
                            /\ session[t] # 0 <=> Running(t) # {}
      /\ \A p \in Tasks : depth[p] > 0 => ref[p] = session[on[p]]
    BY DEF IInv, RunsNest, SessionsMatchRuns
<1>f. \A t \in Threads : /\ IsFiniteSet(Contexts(t)) /\ Cardinality(Contexts(t)) \in Nat
                         /\ Contexts(t) = {} <=> Running(t) = {}
                         /\ Cardinality(Contexts(t)) = 0 <=> Running(t) = {}
    BY ContextsFinite DEF IInv
<1>1. ASSUME UNCHANGED <<session, refcount, run, on, depth, ref>>
      PROVE  RunsNest' /\ SessionsMatchRuns'
    BY <1>i, <1>1 DEF RunsNest, SessionsMatchRuns, Contexts, Running
<1>2. ASSUME NEW p \in Tasks, NEW t \in Threads, Acquire(p, t)
      PROVE  RunsNest' /\ SessionsMatchRuns'
    <2>1. /\ depth[p] < MaxDepth /\ (depth[p] > 0 => on[p] = t)
          /\ run' = [run EXCEPT ![p] = "running"] /\ on' = [on EXCEPT ![p] = t]
          /\ depth' = [depth EXCEPT ![p] = @ + 1] /\ ref' = [ref EXCEPT ![p] = session'[t]]
        BY <1>t, <1>i, <1>2, SessionsAssumption DEF Acquire, MayEnter
    <2>2. /\ Contexts(t)' = Contexts(t) \cup {<<p, depth[p] + 1>>}
          /\ <<p, depth[p] + 1>> \notin Contexts(t)
          /\ Running(t)' = Running(t) \cup {p}
          /\ \A u \in Threads \ {t} : Contexts(u)' = Contexts(u) /\ Running(u)' = Running(u)
        <3>1. \A u \in Threads : \A c \in Tasks \X (1..MaxDepth) :
                  c \in Contexts(u)' <=> c \in Contexts(u) \/ (u = t /\ c = <<p, depth[p] + 1>>)
            BY <1>t, <2>1 DEF Contexts
        <3>2. \A u \in Threads : \A q \in Tasks :
                  q \in Running(u)' <=> q \in Running(u) \/ (u = t /\ q = p)
            BY <1>t, <2>1 DEF Running
        <3>3. <<p, depth[p] + 1>> \in Tasks \X (1..MaxDepth) /\ <<p, depth[p] + 1>> \notin Contexts(t)
            BY <1>t, <2>1 DEF Contexts
        <3>4. \A u \in Threads : /\ Contexts(u) \subseteq Tasks \X (1..MaxDepth)
                                 /\ Contexts(u)' \subseteq Tasks \X (1..MaxDepth)
                                 /\ Running(u) \subseteq Tasks /\ Running(u)' \subseteq Tasks
            BY DEF Contexts, Running
        <3> QED BY <3>1, <3>2, <3>3, <3>4
    <2>3. Cardinality(Contexts(t)') = Cardinality(Contexts(t)) + 1
        <3> DEFINE S == Contexts(t)
                   x == <<p, depth[p] + 1>>
        <3>1. IsFiniteSet(S) /\ x \notin S /\ Contexts(t)' = S \cup {x}
            BY <1>f, <2>2
        <3> HIDE DEF S, x
        <3>2. Cardinality(S \cup {x}) = Cardinality(S) + 1
            BY <3>1, FS_AddElement
        <3> QED BY <3>1, <3>2 DEF S
    <2>4. /\ session'[t] # 0 /\ refcount'[t] = refcount[t] + 1
          /\ \A u \in Threads \ {t} : session'[u] = session[u] /\ refcount'[u] = refcount[u]
          /\ session[t] # 0 => session'[t] = session[t]
        BY <1>t, <1>i, <1>f, <1>2 DEF Acquire
    <2>5. RunsNest'
        BY <1>t, <1>i, <2>1 DEF RunsNest
    <2>6. ASSUME NEW q \in Tasks, depth'[q] > 0 PROVE ref'[q] = session'[on'[q]]
        <3>1. CASE q = p
            BY <1>t, <2>1, <3>1
        <3>2. CASE q # p /\ on[q] = t
            <4>1. q \in Running(t)
                BY <1>t, <2>1, <2>6, <3>2 DEF Running
            <4> QED BY <1>t, <1>i, <2>1, <2>4, <2>6, <3>2, <4>1
        <3>3. CASE q # p /\ on[q] # t
            BY <1>t, <1>i, <2>1, <2>4, <2>6, <3>3
        <3> QED BY <3>1, <3>2, <3>3
    <2>7. \A u \in Threads : /\ refcount'[u] = Cardinality(Contexts(u)')
                             /\ session'[u] # 0 <=> Running(u)' # {}
        BY <1>i, <2>2, <2>3, <2>4
    <2> QED BY <2>5, <2>6, <2>7 DEF SessionsMatchRuns
<1>3. ASSUME NEW p \in Tasks, Release(p) PROVE RunsNest' /\ SessionsMatchRuns'
    <2>0. PICK t \in Threads : t = on[p]
        BY <1>t
    <2>p. PICK n \in 0..MaxDepth : n = depth[p]
        BY <1>t
    <2> DEFINE top == <<p, n>>
    <2>1. /\ on[p] = t /\ depth[p] = n /\ n > 0 /\ session[t] = ref[p]
          /\ depth' = [depth EXCEPT ![p] = @ - 1] /\ UNCHANGED <<on, ref>>
          /\ run' = [run EXCEPT ![p] = IF depth[p] = 1 THEN "done" ELSE "running"]
        BY <1>t, <1>i, <1>3, <2>0, <2>p DEF Release
    <2>2. /\ Contexts(t)' = Contexts(t) \ {top} /\ top \in Contexts(t)
          /\ \A u \in Threads \ {t} : Contexts(u)' = Contexts(u) /\ Running(u)' = Running(u)
        <3>1. \A u \in Threads : \A c \in Tasks \X (1..MaxDepth) :
                  c \in Contexts(u)' <=> c \in Contexts(u) /\ c # top
            BY <1>t, <2>1 DEF Contexts
        <3>2. \A u \in Threads \ {t} : \A q \in Tasks : q \in Running(u)' <=> q \in Running(u)
            BY <1>t, <2>1 DEF Running
        <3>3. top \in Contexts(t) /\ \A u \in Threads \ {t} : top \notin Contexts(u)
            BY <1>t, <2>1 DEF Contexts
        <3>4. \A u \in Threads : /\ Contexts(u) \subseteq Tasks \X (1..MaxDepth)
                                 /\ Contexts(u)' \subseteq Tasks \X (1..MaxDepth)
                                 /\ Running(u) \subseteq Tasks /\ Running(u)' \subseteq Tasks
            BY DEF Contexts, Running
        <3> QED BY <2>1, <3>1, <3>2, <3>3, <3>4
    <2>3. /\ Cardinality(Contexts(t)') = Cardinality(Contexts(t)) - 1
          /\ Cardinality(Contexts(t)') = 0 <=> Contexts(t)' = {}
        <3> DEFINE S == Contexts(t)
        <3>1. IsFiniteSet(S) /\ top \in S /\ Contexts(t)' = S \ {top}
            BY <1>f, <2>1, <2>2
        <3> HIDE DEF S, top
        <3>2. /\ Cardinality(S \ {top}) = Cardinality(S) - 1
              /\ IsFiniteSet(S \ {top})
            BY <3>1, FS_RemoveElement
        <3>3. Cardinality(S \ {top}) = 0 <=> S \ {top} = {}
            BY <3>2, FS_EmptySet
        <3> QED BY <3>1, <3>2, <3>3 DEF S
    <2>5. Contexts(t)' = {} <=> Running(t)' = {}
        <3>1. \A q \in Tasks : depth'[q] \in 0..MaxDepth
            BY <1>t, <2>1
        <3>2. \A q \in Tasks : q \in Running(t)' => <<q, 1>> \in Contexts(t)'
            BY <3>1, <2>1, <1>t DEF Running, Contexts
        <3>3. \A c \in Tasks \X (1..MaxDepth) : c \in Contexts(t)' => c[1] \in Running(t)'
            BY <3>1, <2>1, <1>t DEF Running, Contexts
        <3>4. Contexts(t)' \subseteq Tasks \X (1..MaxDepth) /\ Running(t)' \subseteq Tasks
            BY DEF Contexts, Running
        <3> QED BY <3>2, <3>3, <3>4
    <2>6. /\ \A u \in Threads \ {t} : session'[u] = session[u] /\ refcount'[u] = refcount[u]
          /\ refcount'[t] = refcount[t] - 1
          /\ IF refcount[t] > 1 THEN session'[t] = session[t] /\ session[t] # 0
                                ELSE session'[t] = 0
        <3>1. refcount[t] \in Nat /\ refcount[t] # 0 /\ session[t] # 0
            BY <1>t, <1>i, <1>f, <2>1, <2>2
        <3> QED BY <1>t, <1>3, <2>1, <3>1 DEF Release
    <2>7. RunsNest'
        BY <1>t, <1>i, <2>1 DEF RunsNest
    <2>8. ASSUME NEW u \in Threads
          PROVE  refcount'[u] = Cardinality(Contexts(u)') /\ (session'[u] # 0 <=> Running(u)' # {})
        <3>1. CASE u = t
            <4>1. refcount[t] = Cardinality(Contexts(t)) /\ refcount[t] \in Nat /\ refcount[t] # 0
                BY <1>t, <1>i, <1>f, <2>1, <2>2
            <4>2. refcount'[t] = Cardinality(Contexts(t)')
                BY <2>3, <2>6, <4>1
            <4>3. session'[t] # 0 <=> refcount'[t] # 0
                BY <2>6, <4>1
            <4> QED BY <2>3, <2>5, <3>1, <4>2, <4>3
        <3>2. CASE u # t
            BY <1>i, <2>2, <2>6, <3>2
        <3> QED BY <3>1, <3>2
    <2>9. ASSUME NEW q \in Tasks, depth'[q] > 0 PROVE ref'[q] = session'[on'[q]]
        <3>1. depth[q] > 0 /\ on'[q] = on[q] /\ ref'[q] = session[on[q]] /\ on[q] \in Threads
            BY <1>t, <1>i, <2>1, <2>9
        <3>2. CASE on[q] = t
            <4>1. q \in Running(t)'
                BY <2>1, <2>9, <3>2 DEF Running
            <4> QED BY <2>1, <2>6, <2>8, <3>1, <3>2, <4>1
        <3>3. CASE on[q] # t
            BY <2>6, <3>1, <3>3
        <3> QED BY <3>2, <3>3
    <2> QED BY <2>7, <2>8, <2>9 DEF SessionsMatchRuns
<1>4. ASSUME NEW p \in Tasks, NEW t \in Threads, Refused(p, t) PROVE RunsNest' /\ SessionsMatchRuns'
    <2>1. UNCHANGED <<session, refcount, on, depth, ref>> /\ run[p] = "idle"
          /\ run' = [run EXCEPT ![p] = "done"]
        BY <1>4 DEF Refused
    <2>2. RunsNest'
        BY <1>t, <1>i, <2>1 DEF RunsNest
    <2>3. SessionsMatchRuns'
        BY <1>i, <2>1 DEF SessionsMatchRuns, Contexts, Running
    <2> QED BY <2>2, <2>3
<1> QED BY <1>1, <1>2, <1>3, <1>4
        DEF Next, RunStep, Mutate, Serve, Write, Stop, ReserveIdle, Compact, Finish, Fail, Request, Poll,
            Inject, ListTree, HoldChild, EraseChild, EraseParent, vars

-----------------------------------------------------------------------------
(* Reservations: a step reserves threads that nobody holds, for one         *)
(* mutation, or gives back what that mutation holds.                        *)
LEMMA ReserveFacts ==
    ASSUME TypeOK, ReservationsAreHeld, NEW m \in Mutators, NEW ts \in SUBSET Threads, Reserve(m, ts)
    PROVE  /\ mutations' = UNION {holds'[n] : n \in Mutators}
           /\ \A n, o \in Mutators : n # o => holds'[n] \cap holds'[o] = {}
           /\ holds'[m] = holds[m] \cup ts
           /\ \A n \in Mutators \ {m} : holds'[n] = holds[n]
<1>1. /\ holds' = [holds EXCEPT ![m] = holds[m] \cup ts] /\ mutations' = mutations \cup ts
      /\ \A n \in Mutators : ts \cap holds[n] = {}
    BY DEF Reserve, ReservationsAreHeld
<1>2. /\ holds'[m] = holds[m] \cup ts
      /\ \A n \in Mutators \ {m} : holds'[n] = holds[n]
    BY <1>1 DEF TypeOK, MutatorsTyped
<1>3. mutations' = UNION {holds'[n] : n \in Mutators}
    BY <1>1, <1>2 DEF ReservationsAreHeld
<1> QED
    BY <1>1, <1>2, <1>3 DEF ReservationsAreHeld

LEMMA FreeFacts ==
    ASSUME TypeOK, ReservationsAreHeld, NEW m \in Mutators, NEW ts \in SUBSET holds[m], Free(m, ts)
    PROVE  /\ mutations' = UNION {holds'[n] : n \in Mutators}
           /\ \A n, o \in Mutators : n # o => holds'[n] \cap holds'[o] = {}
           /\ holds'[m] = holds[m] \ ts
           /\ \A n \in Mutators \ {m} : holds'[n] = holds[n]
<1>1. /\ holds' = [holds EXCEPT ![m] = holds[m] \ ts] /\ mutations' = mutations \ ts
      /\ \A n \in Mutators \ {m} : ts \cap holds[n] = {}
    BY DEF Free, ReservationsAreHeld
<1>2. /\ holds'[m] = holds[m] \ ts
      /\ \A n \in Mutators \ {m} : holds'[n] = holds[n]
    BY <1>1 DEF TypeOK, MutatorsTyped
<1>3. mutations' = UNION {holds'[n] : n \in Mutators}
    BY <1>1, <1>2 DEF ReservationsAreHeld
<1> QED
    BY <1>1, <1>2, <1>3 DEF ReservationsAreHeld

LEMMA ReservationsNext == IInv /\ [Next]_vars => ReservationsAreHeld'
<1> SUFFICES ASSUME IInv, [Next]_vars PROVE ReservationsAreHeld'
    OBVIOUS
<1>t. /\ TypeOK /\ ReservationsAreHeld
      /\ op \in [Mutators -> Ops] /\ target \in [Mutators -> Threads]
      /\ holds \in [Mutators -> SUBSET Threads] /\ todo \in [Mutators -> SUBSET Threads]
    BY DEF IInv, TypeOK, MutatorsTyped, Ops
<1>i. /\ \A m \in Mutators : op[m] \in {"unsent", "waiting", "done", "failed"} => holds[m] = {}
      /\ \A m \in Mutators : op[m] \in {"holding", "listed"} => target[m] \in holds[m]
      /\ \A m \in Idles : op[m] \notin {"waiting", "listed"}
      /\ \A m \in Notes : op[m] # "listed"
      /\ \A m \in Mutators : target[m] \notin todo[m] /\ (op[m] # "listed" => todo[m] = {})
    BY <1>t DEF ReservationsAreHeld
<1>k. Idles \cap Notes = {} /\ Idles \cap Deletes = {} /\ Notes \cap Deletes = {}
    BY SessionsAssumption
<1>1. ASSUME UNCHANGED <<mutations, mutators>> PROVE ReservationsAreHeld'
    BY <1>t, <1>1 DEF ReservationsAreHeld
<1>2. ASSUME NEW m \in Mutators, NEW ts \in SUBSET Threads, ReserveIdle(m, ts)
      PROVE  ReservationsAreHeld'
    <2>1. PICK t \in ts : target' = [target EXCEPT ![m] = t]
        BY <1>2 DEF ReserveIdle
    <2>2. /\ m \in Idles /\ op[m] = "unsent" /\ op' = [op EXCEPT ![m] = "holding"]
          /\ Reserve(m, ts) /\ UNCHANGED todo
        BY <1>2 DEF ReserveIdle
    <2>3. /\ mutations' = UNION {holds'[n] : n \in Mutators}
          /\ \A n, o \in Mutators : n # o => holds'[n] \cap holds'[o] = {}
          /\ holds'[m] = holds[m] \cup ts
          /\ \A n \in Mutators \ {m} : holds'[n] = holds[n]
        BY <1>t, <2>2, ReserveFacts
    <2>4. /\ op'[m] = "holding" /\ target'[m] = t
          /\ \A n \in Mutators \ {m} : op'[n] = op[n] /\ target'[n] = target[n]
        BY <1>t, <2>1, <2>2
    <2> QED BY <1>i, <1>k, <2>1, <2>2, <2>3, <2>4 DEF ReservationsAreHeld
<1>3. ASSUME NEW m \in Mutators, Finish(m) \/ Fail(m) \/ Inject(m) \/ EraseParent(m)
      PROVE  ReservationsAreHeld'
    <2>0. ASSUME Inject(m) \/ Finish(m) PROVE todo[m] = {}
        BY <1>i, <1>k, <2>0 DEF Inject, Finish
    <2>1. PICK end \in {"done", "failed"} :
             /\ Free(m, holds[m]) /\ op' = [op EXCEPT ![m] = end] /\ UNCHANGED target
             /\ todo'[m] = {} /\ \A n \in Mutators \ {m} : todo'[n] = todo[n]
        BY <1>t, <1>3, <2>0 DEF Finish, Fail, Inject, EraseParent
    <2>2. /\ mutations' = UNION {holds'[n] : n \in Mutators}
          /\ \A n, o \in Mutators : n # o => holds'[n] \cap holds'[o] = {}
          /\ holds'[m] = {}
          /\ \A n \in Mutators \ {m} : holds'[n] = holds[n]
        BY <1>t, <2>1, FreeFacts
    <2>3. op'[m] \in {"done", "failed"} /\ \A n \in Mutators \ {m} : op'[n] = op[n]
        BY <1>t, <2>1
    <2> QED BY <1>i, <2>1, <2>2, <2>3 DEF ReservationsAreHeld
<1>4. ASSUME NEW m \in Mutators, NEW t \in Threads, Request(m, t) PROVE ReservationsAreHeld'
    <2>1. /\ m \in Notes \cup Deletes /\ op[m] = "unsent" /\ op' = [op EXCEPT ![m] = "waiting"]
          /\ target' = [target EXCEPT ![m] = t] /\ UNCHANGED <<mutations, holds, todo>>
        BY <1>4 DEF Request
    <2>2. /\ op'[m] = "waiting" /\ todo[m] = {} /\ m \notin Idles
          /\ \A n \in Mutators \ {m} : op'[n] = op[n] /\ target'[n] = target[n]
        BY <1>t, <1>i, <1>k, <2>1
    <2> QED BY <1>t, <1>i, <2>1, <2>2 DEF ReservationsAreHeld
<1>5. ASSUME NEW m \in Mutators, Poll(m) PROVE ReservationsAreHeld'
    <2>1. /\ Reserve(m, {target[m]}) /\ op[m] = "waiting" /\ op' = [op EXCEPT ![m] = "holding"]
          /\ UNCHANGED <<target, todo>> /\ {target[m]} \in SUBSET Threads
        BY <1>t, <1>5 DEF Poll
    <2>2. /\ mutations' = UNION {holds'[n] : n \in Mutators}
          /\ \A n, o \in Mutators : n # o => holds'[n] \cap holds'[o] = {}
          /\ holds'[m] = holds[m] \cup {target[m]}
          /\ \A n \in Mutators \ {m} : holds'[n] = holds[n]
        BY <1>t, <2>1, ReserveFacts
    <2>3. op'[m] = "holding" /\ \A n \in Mutators \ {m} : op'[n] = op[n]
        BY <1>t, <2>1
    <2> QED BY <1>i, <2>1, <2>2, <2>3 DEF ReservationsAreHeld
<1>6. ASSUME NEW m \in Mutators, ListTree(m) PROVE ReservationsAreHeld'
    <2>1. PICK found \in SUBSET Sub[target[m]] :
          /\ m \in Deletes /\ op[m] = "holding" /\ op' = [op EXCEPT ![m] = "listed"]
          /\ todo' = [todo EXCEPT ![m] = found]
          /\ UNCHANGED <<mutations, holds, target>>
        BY <1>6 DEF ListTree
    <2>2. target[m] \notin Sub[target[m]]
        BY <1>t, SessionsAssumption
    <2>3. /\ op'[m] = "listed" /\ target[m] \notin todo'[m]
          /\ \A n \in Mutators \ {m} : op'[n] = op[n] /\ todo'[n] = todo[n]
        BY <1>t, <2>1, <2>2
    <2> QED BY <1>t, <1>i, <1>k, <2>1, <2>3 DEF ReservationsAreHeld
<1>7. ASSUME NEW m \in Mutators, NEW c \in Threads, HoldChild(m, c) PROVE ReservationsAreHeld'
    <2>1. Reserve(m, {c}) /\ op[m] = "listed" /\ UNCHANGED <<op, target, todo>>
        BY <1>7 DEF HoldChild
    <2>2. /\ mutations' = UNION {holds'[n] : n \in Mutators}
          /\ \A n, o \in Mutators : n # o => holds'[n] \cap holds'[o] = {}
          /\ holds'[m] = holds[m] \cup {c}
          /\ \A n \in Mutators \ {m} : holds'[n] = holds[n]
        BY <1>t, <2>1, ReserveFacts
    <2> QED BY <1>i, <2>1, <2>2 DEF ReservationsAreHeld
<1>8. ASSUME NEW m \in Mutators, NEW c \in Threads, EraseChild(m, c) PROVE ReservationsAreHeld'
    <2>1. /\ Free(m, {c}) /\ {c} \in SUBSET holds[m] /\ op[m] = "listed" /\ c \in todo[m]
          /\ todo' = [todo EXCEPT ![m] = todo[m] \ {c}] /\ UNCHANGED <<op, target>>
        BY <1>8 DEF EraseChild
    <2>2. /\ mutations' = UNION {holds'[n] : n \in Mutators}
          /\ \A n, o \in Mutators : n # o => holds'[n] \cap holds'[o] = {}
          /\ holds'[m] = holds[m] \ {c}
          /\ \A n \in Mutators \ {m} : holds'[n] = holds[n]
        BY <1>t, <2>1, FreeFacts
    <2>3. todo'[m] = todo[m] \ {c} /\ \A n \in Mutators \ {m} : todo'[n] = todo[n]
        BY <1>t, <2>1
    <2> QED BY <1>i, <2>1, <2>2, <2>3 DEF ReservationsAreHeld
<1> QED BY <1>1, <1>2, <1>3, <1>4, <1>5, <1>6, <1>7, <1>8
        DEF Next, RunStep, Mutate, Serve, Acquire, Refused, Write, Release, Stop, Compact, vars

-----------------------------------------------------------------------------
(* Runs under way: a step other than Acquire starts none, and Acquire only  *)
(* on a thread that is not reserved.                                        *)
LEMMA RunningFacts ==
    ASSUME IInv, [Next]_vars, NEW t \in Threads
    PROVE  /\ t \in mutations => Running(t)' \subseteq Running(t)
           /\ \A p \in Running(t)' : p \in Running(t) \/ Acquire(p, t)
<1>t. /\ run \in [Tasks -> {"idle", "running", "done"}] /\ on \in [Tasks -> Threads]
      /\ depth \in [Tasks -> 0..MaxDepth]
    BY DEF IInv, TypeOK, RunsTyped
<1> DEFINE P == /\ t \in mutations => Running(t)' \subseteq Running(t)
                /\ \A p \in Running(t)' : p \in Running(t) \/ Acquire(p, t)
<1>1. ASSUME UNCHANGED <<on, depth>> PROVE P
    BY <1>1 DEF Running
<1>2. ASSUME NEW p \in Tasks, NEW u \in Threads, Acquire(p, u) PROVE P
    <2>1. u \notin mutations /\ on'[p] = u
          /\ \A q \in Tasks \ {p} : depth'[q] = depth[q] /\ on'[q] = on[q]
        BY <1>t, <1>2 DEF Acquire
    <2> QED BY <1>2, <2>1 DEF Running
<1>3. ASSUME NEW p \in Tasks, Release(p) PROVE P
    <2>1. UNCHANGED on /\ depth[p] > 0 /\ \A q \in Tasks \ {p} : depth'[q] = depth[q]
        BY <1>t, <1>3 DEF Release
    <2> QED BY <1>t, <2>1 DEF Running
<1> HIDE DEF P
<1>4. P
    BY <1>1, <1>2, <1>3
    DEF Next, RunStep, Mutate, Serve, Refused, Write, Stop, ReserveIdle, Compact, Finish, Fail, Request,
        Poll, Inject, ListTree, HoldChild, EraseChild, EraseParent, vars
<1> QED BY <1>4 DEF P

(* The checkpoint of a thread that an idle mutation holds is written by     *)
(* that mutation only.                                                      *)
LEMMA IdleNext == IInv /\ [Next]_vars => IdleMeansIdle'
<1> SUFFICES ASSUME IInv, [Next]_vars, NEW m \in Idles, NEW t \in holds'[m]
             PROVE  Running(t)' = {} /\ (t = target'[m] => checkpoint'[t] = base'[m])
    BY DEF IdleMeansIdle
<1> DEFINE P == Running(t)' = {} /\ (t = target'[m] => checkpoint'[t] = base'[m])
<1>0. t \in Threads
    BY TypeNext DEF TypeOK, MutatorsTyped
<1>t. /\ base \in [Tasks \cup Mutators -> SUBSET Messages]
      /\ checkpoint \in [Threads -> SUBSET Messages]
      /\ op \in [Mutators -> Ops] /\ target \in [Mutators -> Threads]
      /\ holds \in [Mutators -> SUBSET Threads] /\ on \in [Tasks -> Threads]
      /\ depth \in [Tasks -> 0..MaxDepth]
      /\ m \in Mutators /\ m \notin Tasks /\ m \notin Notes \cup Deletes
    BY SessionsAssumption DEF IInv, TypeOK, RunsTyped, MutatorsTyped, SavedTyped, Ops
<1>i. /\ mutations = UNION {holds[n] : n \in Mutators}
      /\ \A n, o \in Mutators : n # o => holds[n] \cap holds[o] = {}
      /\ \A n \in Mutators : op[n] \in {"holding", "listed"} => target[n] \in holds[n]
      /\ op[m] \in {"unsent", "done", "failed"} => holds[m] = {}
      /\ op[m] \notin {"waiting", "listed"}
    BY <1>t DEF IInv, ReservationsAreHeld
<1>h. ASSUME t \in holds[m] PROVE /\ Running(t)' = {} /\ Running(t) = {} /\ t \in mutations
                                  /\ t = target[m] => checkpoint[t] = base[m]
    <2>1. Running(t) = {} /\ (t = target[m] => checkpoint[t] = base[m])
        BY <1>h DEF IInv, IdleMeansIdle
    <2>2. t \in mutations
        BY <1>h, <1>i, <1>t
    <2> QED BY <1>0, <2>1, <2>2, RunningFacts
<1>1. ASSUME UNCHANGED <<holds, target, base, checkpoint>> PROVE P
    BY <1>h, <1>1
<1>2. ASSUME NEW p \in Tasks, NEW u \in Threads, Acquire(p, u) PROVE P
    <2>1. UNCHANGED <<holds, target, checkpoint>> /\ base'[m] = base[m]
        BY <1>t, <1>2 DEF Acquire
    <2> QED BY <1>h, <2>1
<1>3. ASSUME NEW p \in Tasks, Write(p) PROVE P
    <2>1. UNCHANGED <<holds, target>> /\ base'[m] = base[m] /\ p \in Running(on[p])
          /\ \A u \in Threads \ {on[p]} : checkpoint'[u] = checkpoint[u]
        BY <1>t, <1>3 DEF Write, Running
    <2>2. t # on[p]
        BY <1>h, <2>1
    <2> QED BY <1>0, <1>h, <2>1, <2>2
<1>4. ASSUME NEW n \in Mutators, NEW ts \in SUBSET Threads, ReserveIdle(n, ts) PROVE P
    <2>1. PICK u \in ts : target' = [target EXCEPT ![n] = u] /\ base' = [base EXCEPT ![n] = checkpoint[u]]
        BY <1>4 DEF ReserveIdle
    <2>2. /\ holds' = [holds EXCEPT ![n] = holds[n] \cup ts] /\ UNCHANGED checkpoint
          /\ op[n] = "unsent" /\ \A v \in ts : session[v] = 0
        BY <1>4 DEF ReserveIdle, Reserve
    <2>3. CASE n = m
        <3>1. t \in ts /\ target'[m] = u /\ base'[m] = checkpoint[u]
            BY <1>t, <1>i, <2>1, <2>2, <2>3
        <3>2. Running(t) = {}
            BY <1>0, <2>2, <3>1 DEF IInv, SessionsMatchRuns
        <3>3. UNCHANGED <<on, depth>>
            BY <1>4 DEF ReserveIdle
        <3> QED BY <2>2, <3>1, <3>2, <3>3 DEF Running
    <2>4. CASE n # m
        <3>1. holds'[m] = holds[m] /\ target'[m] = target[m] /\ base'[m] = base[m]
            BY <1>t, <2>1, <2>2, <2>4
        <3> QED BY <1>h, <2>2, <3>1
    <2> QED BY <2>3, <2>4
<1>5. ASSUME NEW n \in Mutators, Compact(n) PROVE P
    <2>1. /\ UNCHANGED <<holds, target, base>> /\ target[n] \in holds[n]
          /\ checkpoint' = [checkpoint EXCEPT ![target[n]] = base[n]]
        BY <1>5 DEF Compact
    <2>2. CASE n = m
        BY <1>0, <1>t, <1>h, <2>1, <2>2
    <2>3. CASE n # m
        <3>1. t # target[n]
            BY <1>t, <1>i, <2>1, <2>3
        <3> QED BY <1>0, <1>t, <1>h, <2>1, <3>1
    <2> QED BY <2>2, <2>3
<1>6. ASSUME NEW n \in Mutators, Finish(n) \/ Fail(n) PROVE P
    <2>1. UNCHANGED <<target, base, checkpoint>> /\ holds' = [holds EXCEPT ![n] = holds[n] \ holds[n]]
        BY <1>6 DEF Finish, Fail, Free
    <2>2. t \in holds[m]
        BY <1>t, <2>1
    <2> QED BY <1>h, <2>1, <2>2
<1>7. ASSUME NEW n \in Mutators, NEW u \in Threads, Request(n, u) PROVE P
    <2>1. UNCHANGED <<holds, base, checkpoint>> /\ target'[m] = target[m]
        BY <1>t, <1>7 DEF Request
    <2> QED BY <1>h, <2>1
<1>8. ASSUME NEW n \in Mutators, Poll(n) PROVE P
    <2>1. op[n] = "waiting" /\ UNCHANGED <<target, checkpoint>>
          /\ holds' = [holds EXCEPT ![n] = @ \cup {target[n]}]
          /\ base' = [base EXCEPT ![n] = checkpoint[target[n]]]
        BY <1>8 DEF Poll, Reserve
    <2>2. holds'[m] = holds[m] /\ base'[m] = base[m]
        BY <1>t, <1>i, <2>1
    <2> QED BY <1>h, <2>1, <2>2
<1>9. ASSUME NEW n \in Mutators, NEW c \in Threads, HoldChild(n, c) PROVE P
    <2>1. op[n] = "listed" /\ UNCHANGED <<target, base, checkpoint>>
          /\ holds' = [holds EXCEPT ![n] = @ \cup {c}]
        BY <1>9 DEF HoldChild, Reserve
    <2>2. holds'[m] = holds[m]
        BY <1>t, <1>i, <2>1
    <2> QED BY <1>h, <2>1, <2>2
<1>10. ASSUME NEW n \in Mutators, NEW c \in Threads, Inject(n) \/ EraseChild(n, c) \/ EraseParent(n) PROVE P
    <2>1. PICK u \in holds[n] : \A v \in Threads \ {u} : checkpoint'[v] = checkpoint[v]
        <3>1. CASE Inject(n)
            BY <1>t, <1>i, <3>1 DEF Inject
        <3>2. CASE EraseChild(n, c)
            BY <1>t, <1>i, <3>2 DEF EraseChild, Erase
        <3>3. CASE EraseParent(n)
            BY <1>t, <1>i, <3>3 DEF EraseParent, Erase
        <3> QED BY <1>10, <3>1, <3>2, <3>3
    <2>2. n # m /\ UNCHANGED <<target, base>>
        BY <1>t, <1>i, <1>10 DEF Inject, EraseChild, EraseParent
    <2>3. holds'[m] = holds[m]
        BY <1>t, <1>10, <2>2 DEF Inject, EraseChild, EraseParent, Free
    <2>4. t # u
        BY <1>t, <1>i, <2>1, <2>2, <2>3
    <2> QED BY <1>0, <1>h, <2>1, <2>2, <2>3, <2>4
<1> HIDE DEF P
<1>11. P
    <2>1. ASSUME NEW n \in Mutators, Inject(n) \/ EraseParent(n) PROVE P
        BY <1>0, <1>10, <2>1
    <2> QED BY <1>1, <1>2, <1>3, <1>4, <1>5, <1>6, <1>7, <1>8, <1>9, <1>10, <2>1
        DEF Next, RunStep, Mutate, Serve, Refused, Release, Stop, ListTree, vars
<1> QED BY <1>11 DEF P

-----------------------------------------------------------------------------
(* What must be kept of a thread grows only when its one writer saves it.   *)
LEMMA KeptNext == IInv /\ [Next]_vars => KeptIsSaved'
<1> SUFFICES ASSUME IInv, [Next]_vars, NEW t \in Threads
             PROVE  kept'[t] \subseteq checkpoint'[t]
    BY DEF KeptIsSaved
<1> DEFINE P == kept'[t] \subseteq checkpoint'[t]
<1>t. /\ base \in [Tasks \cup Mutators -> SUBSET Messages]
      /\ checkpoint \in [Threads -> SUBSET Messages] /\ kept \in [Threads -> SUBSET Messages]
      /\ op \in [Mutators -> Ops] /\ target \in [Mutators -> Threads] /\ on \in [Tasks -> Threads]
    BY DEF IInv, TypeOK, RunsTyped, MutatorsTyped, SavedTyped, Ops
<1>i. kept[t] \subseteq checkpoint[t]
    BY DEF IInv, KeptIsSaved
<1>1. ASSUME UNCHANGED <<kept, checkpoint>> PROVE P
    BY <1>i, <1>1
<1>2. ASSUME NEW p \in Tasks, Write(p) PROVE P
    <2>1. kept[on[p]] \subseteq base[p]
        BY <1>2 DEF Write, IInv, WritersKnow
    <2>2. /\ checkpoint' = [checkpoint EXCEPT ![on[p]] = base[p] \cup {p}]
          /\ \A u \in Threads : kept'[u] \subseteq kept[u] \cup {p} /\ (u # on[p] => kept'[u] = kept[u])
        BY <1>t, <1>2 DEF Write
    <2> QED BY <1>t, <1>i, <2>1, <2>2
<1>3. ASSUME NEW m \in Mutators, Compact(m) PROVE P
    <2>1. checkpoint[target[m]] = base[m]
        BY <1>3 DEF Compact, IInv, IdleMeansIdle
    <2> QED BY <1>t, <1>i, <1>3, <2>1 DEF Compact
<1>4. ASSUME NEW m \in Mutators, Inject(m) PROVE P
    <2>1. kept[target[m]] \subseteq base[m]
        BY <1>4 DEF Inject, IInv, WritersKnow
    <2>2. /\ checkpoint' = [checkpoint EXCEPT ![target[m]] = base[m] \cup {m}]
          /\ \A u \in Threads : kept'[u] \subseteq kept[u] \cup {m}
                                /\ (u # target[m] => kept'[u] = kept[u])
        BY <1>t, <1>4 DEF Inject
    <2> QED BY <1>t, <1>i, <2>1, <2>2
<1>5. ASSUME NEW u \in Threads, Erase(u) PROVE P
    BY <1>t, <1>i, <1>5 DEF Erase
<1>6. ASSUME NEW m \in Mutators, EraseParent(m) PROVE P
    BY <1>t, <1>5, <1>6 DEF EraseParent
<1>7. ASSUME NEW m \in Mutators, NEW c \in Threads, EraseChild(m, c) PROVE P
    <2>1. CASE Erase(c)
        BY <1>5, <2>1
    <2>2. CASE UNCHANGED saved
        BY <1>t, <1>i, <2>2 DEF saved
    <2> QED BY <1>7, <2>1, <2>2 DEF EraseChild
<1> HIDE DEF P
<1>8. P
    BY <1>1, <1>2, <1>3, <1>4, <1>6, <1>7
    DEF Next, RunStep, Mutate, Serve, Acquire, Refused, Release, Stop, ReserveIdle, Finish, Fail, Request,
        Poll, ListTree, HoldChild, vars
<1> QED BY <1>8 DEF P

(* A run or an injection that will write has read what must be kept: what   *)
(* is kept later is written by itself, or while it cannot be on the thread. *)
LEMMA WritersNext == IInv /\ [Next]_vars => WritersKnow'
<1> SUFFICES ASSUME IInv, [Next]_vars PROVE WritersKnow'
    OBVIOUS
<1>t. /\ base \in [Tasks \cup Mutators -> SUBSET Messages]
      /\ checkpoint \in [Threads -> SUBSET Messages] /\ kept \in [Threads -> SUBSET Messages]
      /\ op \in [Mutators -> Ops] /\ target \in [Mutators -> Threads] /\ on \in [Tasks -> Threads]
      /\ depth \in [Tasks -> 0..MaxDepth]
      /\ Tasks \cap Mutators = {} /\ Notes \cap Idles = {} /\ Notes \cap Deletes = {}
    BY SessionsAssumption DEF IInv, TypeOK, RunsTyped, MutatorsTyped, SavedTyped, Ops
<1>i. /\ \A p \in Tasks : depth[p] > 0 => kept[on[p]] \subseteq base[p]
      /\ \A m \in Notes : op[m] = "holding" => kept[target[m]] \subseteq base[m]
      /\ \A t \in Threads : kept[t] \subseteq checkpoint[t]
    BY DEF IInv, WritersKnow, KeptIsSaved
<1>r. /\ mutations = UNION {holds[n] : n \in Mutators}
      /\ \A n, o \in Mutators : n # o => holds[n] \cap holds[o] = {}
      /\ \A n \in Mutators : op[n] \in {"holding", "listed"} => target[n] \in holds[n]
    BY DEF IInv, ReservationsAreHeld
<1>1. ASSUME UNCHANGED <<base, kept, on, op, target>>, \A p \in Tasks : depth'[p] > 0 => depth[p] > 0
      PROVE  WritersKnow'
    BY <1>i, <1>1 DEF WritersKnow
<1>2. ASSUME NEW p \in Tasks, NEW t \in Threads, Acquire(p, t) PROVE WritersKnow'
    <2>1. /\ UNCHANGED <<kept, op, target>> /\ on' = [on EXCEPT ![p] = t]
          /\ base' = [base EXCEPT ![p] = checkpoint[t]]
          /\ \A q \in Tasks \ {p} : depth'[q] = depth[q]
        BY <1>t, <1>2 DEF Acquire
    <2>2. ASSUME NEW q \in Tasks, depth'[q] > 0 PROVE kept'[on'[q]] \subseteq base'[q]
        BY <1>t, <1>i, <2>1, <2>2
    <2>3. \A m \in Notes : base'[m] = base[m]
        BY <1>t, <2>1
    <2> QED BY <1>i, <2>1, <2>2, <2>3 DEF WritersKnow
<1>3. ASSUME NEW p \in Tasks, Write(p) PROVE WritersKnow'
    <2> DEFINE alone == Running(on[p]) = {p} /\ \A m \in Notes : on[p] \notin holds[m]
    <2>1. /\ UNCHANGED <<depth, on, op, target>> /\ depth[p] > 0
          /\ base' = [base EXCEPT ![p] = @ \cup {p}]
          /\ kept' = [kept EXCEPT ![on[p]] = IF alone THEN @ \cup {p} ELSE @]
        BY <1>3 DEF Write
    <2>2. ASSUME NEW q \in Tasks, depth[q] > 0 PROVE kept'[on[q]] \subseteq base'[q]
        <3>1. CASE q = p
            BY <1>t, <1>i, <2>1, <2>2, <3>1
        <3>2. CASE q # p /\ on[q] # on[p]
            BY <1>t, <1>i, <2>1, <2>2, <3>2
        <3>3. CASE q # p /\ on[q] = on[p]
            <4>1. q \in Running(on[p])
                BY <2>2, <3>3 DEF Running
            <4>2. ~alone
                BY <3>3, <4>1
            <4> QED BY <1>t, <1>i, <2>1, <2>2, <3>3, <4>2
        <3> QED BY <3>1, <3>2, <3>3
    <2>3. ASSUME NEW m \in Notes, op[m] = "holding" PROVE kept'[target[m]] \subseteq base'[m]
        <3>1. base'[m] = base[m] /\ target[m] \in holds[m]
            BY <1>t, <1>r, <2>1, <2>3
        <3>2. kept'[target[m]] = kept[target[m]]
            BY <1>t, <2>1, <2>3, <3>1
        <3> QED BY <1>i, <2>3, <3>1, <3>2
    <2> QED BY <2>1, <2>2, <2>3 DEF WritersKnow
<1>4. ASSUME NEW m \in Mutators, NEW ts \in SUBSET Threads, ReserveIdle(m, ts) PROVE WritersKnow'
    <2>1. UNCHANGED <<kept, on, depth>> /\ m \notin Notes
          /\ \A x \in (Tasks \cup Mutators) \ {m} : base'[x] = base[x]
          /\ \A n \in Mutators \ {m} : op'[n] = op[n] /\ target'[n] = target[n]
        BY <1>t, <1>4 DEF ReserveIdle
    <2>2. m \notin Tasks
        BY <1>t
    <2> QED BY <1>i, <2>1, <2>2 DEF WritersKnow
<1>5. ASSUME NEW m \in Mutators, (\E t \in Threads : Request(m, t)) \/ Finish(m) \/ Fail(m) \/ ListTree(m)
      PROVE  WritersKnow'
    <2>1. UNCHANGED <<base, kept, on, depth>> /\ op'[m] # "holding"
          /\ \A n \in Mutators \ {m} : op'[n] = op[n] /\ target'[n] = target[n]
        BY <1>t, <1>5 DEF Request, Finish, Fail, ListTree
    <2> QED BY <1>i, <2>1 DEF WritersKnow
<1>6. ASSUME NEW m \in Mutators, Poll(m) PROVE WritersKnow'
    <2>1. UNCHANGED <<kept, on, depth, target>> /\ base'[m] = checkpoint[target[m]]
          /\ \A x \in (Tasks \cup Mutators) \ {m} : base'[x] = base[x]
          /\ \A n \in Mutators \ {m} : op'[n] = op[n]
        BY <1>t, <1>6 DEF Poll
    <2>2. m \notin Tasks
        BY <1>t
    <2>3. kept[target[m]] \subseteq base'[m]
        BY <1>t, <1>i, <2>1
    <2> QED BY <1>i, <2>1, <2>2, <2>3 DEF WritersKnow
<1>7. ASSUME NEW m \in Mutators, Inject(m) PROVE WritersKnow'
    <2> DEFINE t == target[m]
    <2>1. /\ UNCHANGED <<base, on, depth, target>> /\ op[m] = "holding"
          /\ op'[m] = "done" /\ \A n \in Mutators \ {m} : op'[n] = op[n]
          /\ kept' = [kept EXCEPT ![t] = IF Running(t) = {} THEN @ \cup {m} ELSE @]
        BY <1>t, <1>7 DEF Inject
    <2>2. ASSUME NEW q \in Tasks, depth[q] > 0 PROVE kept'[on[q]] \subseteq base[q]
        <3>1. on[q] # t \/ Running(t) # {}
            BY <2>2 DEF Running
        <3>2. kept'[on[q]] = kept[on[q]]
            BY <1>t, <2>1, <3>1
        <3> QED BY <1>i, <2>2, <3>2
    <2>3. ASSUME NEW n \in Notes, op'[n] = "holding" PROVE kept'[target[n]] \subseteq base[n]
        <3>1. n # m /\ op[n] = "holding"
            BY <2>1, <2>3
        <3>2. target[n] # t
            BY <1>r, <2>1, <3>1
        <3>3. kept'[target[n]] = kept[target[n]]
            BY <1>t, <2>1, <3>2
        <3> QED BY <1>i, <3>1, <3>3
    <2> QED BY <2>1, <2>2, <2>3 DEF WritersKnow
<1>8. ASSUME NEW u \in Threads, Erase(u), UNCHANGED <<base, on, depth, target>>,
             \A n \in Mutators : op'[n] = "holding" => op[n] = "holding"
      PROVE  WritersKnow'
    <2>1. \A t \in Threads : kept'[t] \subseteq kept[t]
        BY <1>t, <1>8 DEF Erase
    <2>2. ASSUME NEW q \in Tasks, depth[q] > 0 PROVE kept'[on[q]] \subseteq base[q]
        BY <1>t, <1>i, <2>1, <2>2
    <2>3. ASSUME NEW n \in Notes, op[n] = "holding" PROVE kept'[target[n]] \subseteq base[n]
        BY <1>t, <1>i, <2>1, <2>3
    <2> QED BY <1>8, <2>2, <2>3 DEF WritersKnow
<1>9. ASSUME NEW m \in Mutators, EraseParent(m) PROVE WritersKnow'
    BY <1>t, <1>8, <1>9 DEF EraseParent
<1>10. ASSUME NEW m \in Mutators, NEW c \in Threads, EraseChild(m, c) PROVE WritersKnow'
    <2>1. UNCHANGED <<base, on, depth, target, op>>
        BY <1>10 DEF EraseChild, runs
    <2>2. CASE Erase(c)
        BY <1>8, <2>1, <2>2
    <2>3. CASE UNCHANGED saved
        BY <1>i, <2>1, <2>3 DEF saved, WritersKnow
    <2> QED BY <1>10, <2>2, <2>3 DEF EraseChild
<1>11. ASSUME NEW p \in Tasks, Release(p) PROVE WritersKnow'
    <2>1. depth' = [depth EXCEPT ![p] = depth[p] - 1] /\ depth[p] > 0
          /\ UNCHANGED <<base, kept, on, op, target>>
        BY <1>11 DEF Release
    <2>2. \A q \in Tasks : depth'[q] > 0 => depth[q] > 0
        BY <1>t, <2>1
    <2> QED BY <1>1, <2>1, <2>2
<1> QED BY <1>1, <1>2, <1>3, <1>4, <1>5, <1>6, <1>7, <1>9, <1>10, <1>11
    DEF Next, RunStep, Mutate, Serve, Refused, Stop, Compact, HoldChild, vars

-----------------------------------------------------------------------------
(* Every reachable state satisfies the inductive invariant. *)
THEOREM SessionsInvariance == Spec => []IInv
<1>1. IInv /\ [Next]_vars => IInv'
    BY TypeNext, SessionsNext, ReservationsNext, IdleNext, KeptNext, WritersNext DEF IInv
<1> QED
    BY <1>1, IInvInit, PTL DEF Spec

(* However runs nest and overlap, the reference count of a thread is the    *)
(* number of track_active_session contexts open on it, and the session is   *)
(* registered exactly as long as there are any.                             *)
THEOREM SessionsAreExact == Spec => []SessionsMatchRuns
<1>1. IInv => SessionsMatchRuns
    BY DEF IInv
<1> QED
    BY <1>1, SessionsInvariance, PTL

(* A mutation that requires an idle thread has it to itself to the end. *)
THEOREM IdleMutationsAreExclusive == Spec => []IdleMeansIdle
<1>1. IInv => IdleMeansIdle
    BY DEF IInv
<1> QED
    BY <1>1, SessionsInvariance, PTL

(* No interleaving of runs, compactions, injections and deletions drops a   *)
(* message whose writer was alone.                                          *)
THEOREM KeptMessagesSurvive == Spec => []KeptIsSaved
<1>1. IInv => KeptIsSaved
    BY DEF IInv
<1> QED
    BY <1>1, SessionsInvariance, PTL
=============================================================================
