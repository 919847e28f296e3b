------------------------ MODULE ProjectRuntimeProofs ------------------------
(***************************************************************************)
(* The switch of an execution environment, for any runs, operations, writes  *)
(* and troubles: who works on the workspace, which revisions are kept, that  *)
(* the files follow the workspace, and that no sandbox is forgotten.         *)
(***************************************************************************)
EXTENDS ProjectRuntime, TLAPS

USE DEF book, durable, transit, tools, Works, Goto, Raise, RaiseTo

-----------------------------------------------------------------------------
(* Types. *)

LEMMA Values ==
    /\ MaxOps \in Nat /\ Sandboxes \subseteq Nat /\ Sandboxes \subseteq Refs
    /\ 0 \in Sandboxes /\ Local \in Refs /\ Local \notin Sandboxes /\ NoRef \notin Refs
    /\ Refs = Sandboxes \cup {Local}
    /\ NoOp \in Operations /\ NoRetire.at = "idle"
    /\ \A n \in 0..MaxOps : n \in Sandboxes
    /\ \A r \in Runs : r \notin Coroutines \cup {"nobody", "user", "retire"}
BY ProjectAssumption DEF ProjectAssumption, Sandboxes, Refs, Local, NoRef, NoOp, NoRetire, Operations, Phases,
      Coroutines

(* What a failed transition leaves to clean up. *)
LEMMA FailedFacts ==
    ASSUME NEW s \in Operations
    PROVE  /\ Failed(s) \in Operations
           /\ Failed(s).id = s.id /\ Failed(s).phase = "failed" /\ Failed(s).local = s.local
           /\ Failed(s).target = s.target /\ Failed(s).generation = s.generation
           /\ Listed(s) \subseteq Listed(Failed(s))
           /\ Listed(Failed(s)) \subseteq Listed(s) \cup {s.target}
           /\ s.target \in Sandboxes => s.target \in Listed(Failed(s))
<1>1. Failed(s).cleanup \in SUBSET [ref : Sandboxes, action : {"retire", "delete"}]
    BY DEF Failed, Operations
<1>2. Failed(s) = [s EXCEPT !.phase = "failed", !.cleanup = Failed(s).cleanup]
    BY DEF Failed, Operations
<1>3. s.cleanup \subseteq Failed(s).cleanup
    BY DEF Failed, Operations
<1>4. \A item \in Failed(s).cleanup : item \in s.cleanup \/ item.ref = s.target
    BY DEF Failed, Operations
<1>5. s.target \in Sandboxes => [ref |-> s.target, action |-> "delete"] \in Failed(s).cleanup
    BY DEF Failed, Operations
<1>6. /\ Failed(s).id = s.id /\ Failed(s).phase = "failed" /\ Failed(s).local = s.local
      /\ Failed(s).target = s.target /\ Failed(s).generation = s.generation
    BY <1>2 DEF Operations
<1>7. Failed(s) \in Operations
    BY <1>1, <1>2 DEF Operations, Phases
<1>8. Listed(s) \subseteq Listed(Failed(s)) /\ Listed(Failed(s)) \subseteq Listed(s) \cup {s.target}
    BY <1>3, <1>4 DEF Listed
<1>9. s.target \in Sandboxes => s.target \in Listed(Failed(s))
    BY <1>5 DEF Listed
<1> QED BY <1>6, <1>7, <1>8, <1>9

LEMMA UnknownFacts ==
    ASSUME NEW s \in Operations
    PROVE  /\ Unknown(s) \in Operations
           /\ Unknown(s).id = s.id /\ Unknown(s).phase = "allocation_unknown"
           /\ Unknown(s).target = s.target /\ Unknown(s).generation = s.generation
           /\ Unknown(s).local = s.local /\ Listed(Unknown(s)) = Listed(s)
BY DEF Unknown, Operations, Phases, ACTIVE_PHASES, Listed
-----------------------------------------------------------------------------
LEMMA WroteTyped ==
    ASSUME DataOK, NEW now \in Operations, MayHaveWritten(now)
    PROVE  journal' \in Operations /\ overwritten' \subseteq Sandboxes
<1>1. (now.id + 1)..journal.id \subseteq Sandboxes
    BY ProjectAssumption DEF ProjectAssumption, DataOK, Operations, Sandboxes
<1> QED BY <1>1 DEF MayHaveWritten, Wrote, DataOK

LEMMA SaveTyped ==
    ASSUME TypeOK, Saved \/ NotSaved
    PROVE  /\ row' \in [ref : Refs, generation : Nat, decision : BOOLEAN,
                        status : {"ready", "stopped", "destroyed", "unavailable"}]
           /\ ws' \in [head : Nat, pinned : Nat, persistence : {"clean", "dirty", "error"}]
           /\ stored' \subseteq Nat
           /\ spent' \in [ops : 0..MaxOps, troubles : Nat]
<1> USE DEF TypeOK, DataOK, ToolsOK
<1>1. CASE Saved
    <2>1. boxes[row.ref].files \in Nat
        OBVIOUS
    <2>2. ws' = [ws EXCEPT !.head = boxes[row.ref].files, !.persistence = "clean"]
        BY <1>1 DEF Saved, Saving
    <2>3. stored' \subseteq stored \cup {boxes[row.ref].files}
        BY <1>1 DEF Saved, Saving
    <2>4. UNCHANGED <<row, spent>>
        BY <1>1 DEF Saved
    <2>5. ws' \in [head : Nat, pinned : Nat, persistence : {"clean", "dirty", "error"}]
        BY <2>1, <2>2
    <2> QED BY <2>1, <2>3, <2>4, <2>5
<1>2. CASE NotSaved
    <2>1. ws' = [ws EXCEPT !.persistence = "error"] /\ UNCHANGED stored
        BY <1>2 DEF NotSaved, SavingFails
    <2>2. spent' \in [ops : 0..MaxOps, troubles : Nat]
        BY <1>2 DEF NotSaved, Fault
    <2>3. row' = row \/ row' = [row EXCEPT !.status = "unavailable", !.decision = TRUE]
        BY <1>2 DEF NotSaved
    <2> QED BY <2>1, <2>2, <2>3
<1> QED BY <1>1, <1>2

LEMMA FaultTyped ==
    ASSUME TypeOK, Fault \/ Works
    PROVE  spent' \in [ops : 0..MaxOps, troubles : Nat]
BY DEF Fault, TypeOK, ToolsOK

LEMMA EndTyped ==
    ASSUME TypeOK, NEW k \in Coroutines, NEW b \in BOOLEAN, End(k, b)
    PROVE  /\ TransitOK'
           /\ pc' \in [Runs -> {"out", "leased", "prepared", "written"}]
           /\ context' \in [Runs -> [ref : Refs \cup {NoRef}, generation : Nat]]
<1>1. TransitOK'
    BY Values DEF End, TypeOK, TransitOK
<1>2. /\ pc \in [Runs -> {"out", "leased", "prepared", "written"}]
      /\ context \in [Runs -> [ref : Refs \cup {NoRef}, generation : Nat]]
      /\ [ref |-> row.ref, generation |-> row.generation] \in [ref : Refs \cup {NoRef}, generation : Nat]
      /\ NoContext \in [ref : Refs \cup {NoRef}, generation : Nat]
    BY DEF TypeOK, DataOK, ToolsOK, NoContext
<1>3. \/ UNCHANGED <<pc, context>>
      \/ \E c \in {NoContext, [ref |-> row.ref, generation |-> row.generation]}, where \in {"leased", "prepared"} :
            pc' = [pc EXCEPT ![caller] = where] /\ context' = [context EXCEPT ![caller] = c]
    BY DEF End, Prepared
<1> QED BY <1>1, <1>2, <1>3

LEMMA RecordedTyped ==
    ASSUME TypeOK, NEW k \in Coroutines, NEW now \in Operations, 
           NEW next \in Working, Recorded(k, now, next), UNCHANGED <<switching, caller>>
    PROVE  /\ journal' \in Operations /\ overwritten' \subseteq Sandboxes
           /\ TransitOK'
           /\ spent' \in [ops : 0..MaxOps, troubles : Nat]
<1>1. journal' \in Operations /\ overwritten' \subseteq Sandboxes
    BY WroteTyped DEF Recorded, TypeOK, MayHaveWritten
<1>2. TransitOK'
    BY DEF Recorded, TypeOK, TransitOK, Handling
<1> QED BY <1>1, <1>2, FaultTyped DEF Recorded

LEMMA EnsureTyped ==
    ASSUME TypeOK, NEW r \in Runs, Ensure(r)
    PROVE  TypeOK'
<1> USE DEF TypeOK, DataOK, TransitOK, ToolsOK
<1>1. row' = row \/ row' = [row EXCEPT !.status = "ready"]
    BY DEF Ensure
<1>2. boxes[row.ref].files \in Nat
    OBVIOUS
<1>3. /\ ws' \in [head : Nat, pinned : Nat, persistence : {"clean", "dirty", "error"}]
      /\ stored' \subseteq Nat
    <2>1. CASE UNCHANGED <<ws, stored>>
        BY <2>1
    <2>2. CASE Saving(boxes[row.ref].files)
        BY <1>2, <2>2 DEF Saving
    <2>3. CASE SavingFails
        BY <2>3 DEF SavingFails
    <2> QED BY <2>1, <2>2, <2>3 DEF Ensure
<1>4. boxes' = [boxes EXCEPT ![row.ref].state = "up"]
    BY DEF Ensure
<1>5. DataOK'
    <2>1. row' \in [ref : Refs, generation : Nat, decision : BOOLEAN,
                     status : {"ready", "stopped", "destroyed", "unavailable"}]
        BY <1>1
    <2>2. boxes' \in [Refs -> [state : {"none", "coming", "up", "stopped", "gone"}, files : Nat]]
        BY <1>4
    <2> QED BY <1>3, <2>1, <2>2 DEF Ensure
<1>6. ToolsOK'
    <2>1. UNCHANGED <<pc, context>> \/ Prepared(r, row)
        BY DEF Ensure
    <2>2. /\ pc' \in [Runs -> {"out", "leased", "prepared", "written"}]
          /\ context' \in [Runs -> [ref : Refs \cup {NoRef}, generation : Nat]]
        BY <2>1, SMTT(20) DEF Prepared
    <2> QED BY <2>2, FaultTyped DEF Ensure
<1>7. TransitOK'
    BY DEF Ensure
<1> QED BY <1>5, <1>6, <1>7

LEMMA RecoveryTyped ==
    ASSUME TypeOK, NEW who \in Runs \cup {"user"}, NEW local \in BOOLEAN, Recovery(who, local)
    PROVE  TypeOK'
<1> USE DEF TypeOK, DataOK, TransitOK, ToolsOK
<1>1. DataOK'
    BY DEF Recovery
<1>2. TransitOK'
    BY Values DEF Recovery, Begin, Operations, Working, Coroutines, Phases, ACTIVE_PHASES
<1>3. ToolsOK'
    BY Values DEF Recovery, Begin
<1> QED BY <1>1, <1>2, <1>3

-----------------------------------------------------------------------------
(* What is used, and by whom, besides the transitions. *)
LEMMA UseTyped ==
    ASSUME TypeOK, NEW r \in Runs, Use(r)
    PROVE  TypeOK'
<1> USE Values DEF TypeOK, DataOK, TransitOK, ToolsOK
<1>1. CASE Admit(r)
    BY <1>1 DEF Admit
<1>2. CASE Leave(r)
    BY <1>2 DEF Leave, NoContext
<1>3. CASE Ensure(r)
    BY <1>3, EnsureTyped
<1>4. CASE EnsureLost(r)
    BY <1>4, RecoveryTyped DEF EnsureLost
<1>5. CASE Write(r)
    BY <1>5 DEF Write, Exists
<1>6. CASE Persist(r)
    BY <1>6, SaveTyped DEF Persist, NoContext
<1> QED BY <1>1, <1>2, <1>3, <1>4, <1>5, <1>6 DEF Use

LEMMA RestoringOp ==
    ASSUME NEW s \in Operations, NEW ref \in Refs \cup {NoRef}
    PROVE  [s EXCEPT !.phase = "restoring", !.target = ref] \in Operations
BY DEF Operations, Phases, ACTIVE_PHASES

LEMMA RevisionOp ==
    ASSUME NEW s \in Operations, NEW n \in Nat
    PROVE  [s EXCEPT !.revision = n] \in Operations
BY DEF Operations

LEMMA PublishOp ==
    ASSUME NEW s \in Operations, NEW c \in SUBSET [ref : Sandboxes, action : {"retire", "delete"}]
    PROVE  [s EXCEPT !.phase = "completed", !.cleanup = c] \in Operations
BY DEF Operations, Phases

LEMMA StepTyped ==
    ASSUME TypeOK, Destined, NEW k \in Coroutines, Step(k)
    PROVE  TypeOK'
<1> USE Values DEF TypeOK, DataOK, TransitOK, ToolsOK, Working, Late, Handling, Settling
<1>0. state[k] \in Operations
    OBVIOUS
<1>1. CASE Journal(k)
    <2>0. /\ [state[k] EXCEPT !.phase = "failed"] \in Operations
          /\ \/ MayHaveWritten(state[k])
             \/ MayHaveWritten([state[k] EXCEPT !.phase = "failed"])
        BY <1>1, <1>0 DEF Journal, MayHaveWritten, Operations, Phases
    <2>1. DataOK'
        BY <1>1, <1>0, <2>0, WroteTyped DEF Journal
    <2>2. TransitOK'
        BY <1>1, EndTyped, ZenonT(20) DEF Journal
    <2>3. ToolsOK'
        BY <1>1, EndTyped, FaultTyped, ZenonT(20) DEF Journal
    <2> QED BY <2>1, <2>2, <2>3
<1>2. CASE Start(k)
    <2>0. boxes[row.ref].files \in Nat
        OBVIOUS
    <2>1. DataOK'
        BY <1>2, SaveTyped DEF Start
    <2>2. TransitOK'
        <3>1. PICK op \in {state[k], [state[k] EXCEPT !.revision = boxes[row.ref].files]} :
                  state' = [state EXCEPT ![k] = op]
            BY <1>2 DEF Start
        <3>2. op \in Operations
            BY <1>0, <2>0, RevisionOp
        <3>3. state' \in [Coroutines -> Operations]
            BY <3>1, <3>2
        <3> QED BY <1>2, <3>3 DEF Start
    <2>3. ToolsOK'
        BY <1>2, SaveTyped DEF Start
    <2> QED BY <2>1, <2>2, <2>3
<1>3. CASE Pin(k)
    <2>1. DataOK'
        <3>1. ws' = ws \/ ws' = [ws EXCEPT !.pinned = state[k].revision]
            BY <1>3 DEF Pin
        <3>2. state[k].revision \in Nat
            BY <1>0 DEF Operations
        <3>3. ws' \in [head : Nat, pinned : Nat, persistence : {"clean", "dirty", "error"}]
            BY <3>1, <3>2
        <3> QED BY <1>3, <3>3 DEF Pin
    <2>2. TransitOK'
        BY <1>3 DEF Pin
    <2>3. ToolsOK'
        BY <1>3, FaultTyped DEF Pin
    <2> QED BY <2>1, <2>2, <2>3
<1>4. CASE Provisioning(k)
    <2>0. [state[k] EXCEPT !.phase = "provisioning"] \in Operations
        BY <1>0 DEF Operations, Phases, ACTIVE_PHASES
    <2>00. (IF state[k].local THEN "restoring" ELSE "allocate") \in Working
        OBVIOUS
    <2>1. DataOK'
        BY <1>4, <2>0, <2>00, RecordedTyped DEF Provisioning
    <2>2. TransitOK'
        BY <1>4, <2>0, <2>00, RecordedTyped DEF Provisioning
    <2>3. ToolsOK'
        BY <1>4, <2>0, <2>00, RecordedTyped DEF Provisioning
    <2> QED BY <2>1, <2>2, <2>3
<1>5. CASE Allocate(k)
    <2>0. state[k].id \in Refs /\ [state[k] EXCEPT !.target = state[k].id] \in Operations
        BY <1>0 DEF Operations
    <2>1. DataOK'
        <3>1. \/ boxes' = [boxes EXCEPT ![state[k].id] = [state |-> "up", files |-> 0]]
              \/ \E found \in {"none", "coming", "up"} : boxes' = [boxes EXCEPT ![state[k].id].state = found]
              \/ boxes' = boxes
            BY <1>5 DEF Allocate
        <3>0. boxes \in [Refs -> [state : {"none", "coming", "up", "stopped", "gone"}, files : Nat]]
            OBVIOUS
        <3>2. boxes' \in [Refs -> [state : {"none", "coming", "up", "stopped", "gone"}, files : Nat]]
            <4> HIDE DEF TypeOK, DataOK, TransitOK, ToolsOK
            <4>1. CASE boxes' = [boxes EXCEPT ![state[k].id] = [state |-> "up", files |-> 0]]
                BY <2>0, <3>0, <4>1
            <4>2. CASE \E found \in {"none", "coming", "up"} : boxes' = [boxes EXCEPT ![state[k].id].state = found]
                BY <2>0, <3>0, <4>2
            <4> QED BY <3>0, <3>1, <4>1, <4>2
        <3> QED BY <1>5, <3>2 DEF Allocate
    <2>2. TransitOK'
        <3>1. state' = state \/ state' = [state EXCEPT ![k] = [state[k] EXCEPT !.target = state[k].id]]
            BY <1>5 DEF Allocate
        <3>2. state' \in [Coroutines -> Operations]
            BY <2>0, <3>1, SMTT(20)
        <3> QED BY <1>5, <3>2 DEF Allocate
    <2>3. ToolsOK'
        BY <1>5, FaultTyped DEF Allocate
    <2> QED BY <2>1, <2>2, <2>3
<1>6. CASE Remember(k)
    <2>1. DataOK'
        BY <1>6, <1>0, RecordedTyped DEF Remember
    <2>2. TransitOK'
        BY <1>6, <1>0, RecordedTyped DEF Remember
    <2>3. ToolsOK'
        BY <1>6, <1>0, RecordedTyped DEF Remember
    <2> QED BY <2>1, <2>2, <2>3
<1>7. CASE Restoring(k)
    <2>00. (IF state[k].local THEN Local ELSE state[k].target) \in Refs \cup {NoRef}
        BY <1>0 DEF Operations
    <2>0. [state[k] EXCEPT !.phase = "restoring", !.target = IF state[k].local THEN Local ELSE @] \in Operations
        BY <1>0, <2>00, RestoringOp
    <2>1. DataOK'
        BY <1>7, <2>0, RecordedTyped DEF Restoring
    <2>2. TransitOK'
        BY <1>7, <2>0, RecordedTyped DEF Restoring
    <2>3. ToolsOK'
        BY <1>7, <2>0, RecordedTyped DEF Restoring
    <2> QED BY <2>1, <2>2, <2>3
<1>8. CASE Restore(k)
    <2>1. DataOK'
        <3>1. \/ boxes' = boxes
              \/ \E f \in {0, state[k].revision} : boxes' = [boxes EXCEPT ![state[k].target].files = f]
            BY <1>8 DEF Restore
        <3>2. state[k].revision \in Nat
            BY <1>0 DEF Operations
        <3>3. boxes' \in [Refs -> [state : {"none", "coming", "up", "stopped", "gone"}, files : Nat]]
            BY <3>1, <3>2
        <3> QED BY <1>8, <3>3 DEF Restore
    <2>2. TransitOK'
        BY <1>8, ZenonT(20) DEF Restore
    <2>3. ToolsOK'
        BY <1>8, FaultTyped DEF Restore
    <2> QED BY <2>1, <2>2, <2>3
<1>9. CASE Verifying(k)
    <2>0. [state[k] EXCEPT !.phase = "verifying"] \in Operations
        BY <1>0 DEF Operations, Phases, ACTIVE_PHASES
    <2>1. DataOK'
        BY <1>9, <2>0, RecordedTyped DEF Verifying
    <2>2. TransitOK'
        BY <1>9, <2>0, RecordedTyped DEF Verifying
    <2>3. ToolsOK'
        BY <1>9, <2>0, RecordedTyped DEF Verifying
    <2> QED BY <2>1, <2>2, <2>3
<1>10. CASE Verify(k)
    <2>1. DataOK'
        BY <1>10 DEF Verify
    <2>2. TransitOK'
        BY <1>10 DEF Verify
    <2>3. ToolsOK'
        BY <1>10 DEF Verify
    <2> QED BY <2>1, <2>2, <2>3
<1>11. CASE Activating(k)
    <2>0. [state[k] EXCEPT !.phase = "activating"] \in Operations
        BY <1>0 DEF Operations, Phases, ACTIVE_PHASES
    <2>1. DataOK'
        BY <1>11, <2>0, RecordedTyped DEF Activating
    <2>2. TransitOK'
        BY <1>11, <2>0, RecordedTyped DEF Activating
    <2>3. ToolsOK'
        BY <1>11, <2>0, RecordedTyped DEF Activating
    <2> QED BY <2>1, <2>2, <2>3
<1>12. CASE Publish(k)
    <2> DEFINE now == [state[k] EXCEPT !.phase = "completed",
                    !.cleanup = @ \cup IF state[k].source # Local /\ state[k].kind = "switch"
                                       THEN {[ref |-> state[k].source, action |-> "retire"]} ELSE {}]
    <2>1. now \in Operations
        <3> DEFINE c == state[k].cleanup \cup IF state[k].source # Local /\ state[k].kind = "switch"
                                       THEN {[ref |-> state[k].source, action |-> "retire"]} ELSE {}
        <3>1. c \in SUBSET [ref : Sandboxes, action : {"retire", "delete"}]
            BY <1>0 DEF Operations, Refs
        <3>2. now = [state[k] EXCEPT !.phase = "completed", !.cleanup = c]
            BY <1>0 DEF Operations
        <3> HIDE DEF c, now
        <3> QED BY <1>0, <3>1, <3>2, PublishOp
    <2>2. MayHaveWritten(now) /\ state' = [state EXCEPT ![k] = now]
        BY <1>12 DEF Publish, MayHaveWritten
    <2>3. row' = row \/ row' = [ref |-> now.target, generation |-> now.generation + 1,
                               status |-> "ready", decision |-> FALSE]
        BY <1>12 DEF Publish
    <2>4. ws' = ws \/ ws' = [ws EXCEPT !.persistence = "clean", !.head = IF now.local THEN now.revision ELSE @]
        BY <1>12 DEF Publish
    <2> HIDE DEF now
    <2>5. DataOK'
        <3>1. now.target \in Refs
            <4>1. now.target = state[k].target
                BY <1>0 DEF now, Operations
            <4> QED BY <1>0, <1>12, <4>1 DEF Destined, Publish, Operations
        <3>2. now.generation \in Nat /\ now.revision \in Nat
            BY <2>1 DEF Operations
        <3>3. row' \in [ref : Refs, generation : Nat, decision : BOOLEAN,
                         status : {"ready", "stopped", "destroyed", "unavailable"}]
            <4>1. CASE row' = row
                BY <4>1
            <4>2. CASE row' = [ref |-> now.target, generation |-> now.generation + 1,
                               status |-> "ready", decision |-> FALSE]
                BY <3>1, <3>2, <4>2
            <4> QED BY <2>3, <4>1, <4>2
        <3>4. ws' \in [head : Nat, pinned : Nat, persistence : {"clean", "dirty", "error"}]
            BY <2>4, <3>2, ZenonT(20)
        <3> QED BY <1>12, <2>1, <2>2, <3>3, <3>4, WroteTyped DEF Publish
    <2>6. TransitOK'
        BY <1>12, <2>1, <2>2 DEF Publish
    <2>7. ToolsOK'
        BY <1>12, FaultTyped DEF Publish
    <2> QED BY <2>5, <2>6, <2>7
<1>13. CASE Unpin(k)
    <2>1. DataOK'
        BY <1>13, <1>0 DEF Unpin, Unpinned, Operations
    <2>2. TransitOK'
        BY <1>13, ZenonT(20) DEF Unpin
    <2>3. ToolsOK'
        BY <1>13, FaultTyped DEF Unpin
    <2> QED BY <2>1, <2>2, <2>3
<1>14. CASE Cleanup(k)
    <2>1. DataOK'
        BY <1>14 DEF Cleanup
    <2>2. TransitOK'
        <3>1. PICK left \in SUBSET state[k].cleanup : state' = [state EXCEPT ![k] = [state[k] EXCEPT !.cleanup = left]]
            BY <1>14 DEF Cleanup
        <3>2. [state[k] EXCEPT !.cleanup = left] \in Operations
            BY <1>0 DEF Operations
        <3> QED BY <1>14, <3>1, <3>2 DEF Cleanup
    <2>3. ToolsOK'
        BY <1>14, FaultTyped DEF Cleanup
    <2> QED BY <2>1, <2>2, <2>3
<1>15. CASE Record(k)
    <2>1. DataOK'
        BY <1>15, <1>0, WroteTyped DEF Record, MayHaveWritten
    <2>2. TransitOK'
        BY <1>15, EndTyped, ZenonT(20) DEF Record
    <2>3. ToolsOK'
        BY <1>15, EndTyped, FaultTyped, ZenonT(20) DEF Record
    <2> QED BY <2>1, <2>2, <2>3
<1>16. CASE Handler(k)
    <2>0. Failed(state[k]) \in Operations /\ Unknown(state[k]) \in Operations
        BY <1>0, FailedFacts, UnknownFacts
    <2>1. DataOK'
        BY <1>16 DEF Handler
    <2>2. TransitOK'
        <3>1. \/ state' \in {state, [state EXCEPT ![k] = Failed(state[k])], [state EXCEPT ![k] = Unknown(state[k])]}
                 /\ UNCHANGED <<owner, switching, caller>> /\ \E next \in {"activated", "settle"} : Goto(k, next)
              \/ End(k, FALSE)
            BY <1>16 DEF Handler
        <3>2. CASE End(k, FALSE)
            BY <3>2, EndTyped
        <3>3. ASSUME UNCHANGED <<owner, switching, caller>>, NEW next \in {"activated", "settle"}, Goto(k, next),
                     state' \in {state, [state EXCEPT ![k] = Failed(state[k])], [state EXCEPT ![k] = Unknown(state[k])]}
              PROVE  TransitOK'
            <4>1. state' \in [Coroutines -> Operations]
                BY <2>0, <3>3
            <4> QED BY <3>3, <4>1
        <3> QED BY <3>1, <3>2, <3>3
    <2>3. ToolsOK'
        BY <1>16, EndTyped, FaultTyped, ZenonT(20) DEF Handler
    <2> QED BY <2>1, <2>2, <2>3
<1>17. CASE Activated(k)
    <2>0. [state[k] EXCEPT !.phase = "completed"] \in Operations
        BY <1>0 DEF Operations, Phases
    <2>1. DataOK'
        BY <1>17, <2>0 DEF Activated
    <2>2. TransitOK'
        BY <1>17, <2>0 DEF Activated
    <2>3. ToolsOK'
        BY <1>17, <2>0 DEF Activated
    <2> QED BY <2>1, <2>2, <2>3
<1>18. CASE Settle(k)
    <2>1. DataOK'
        BY <1>18, <1>0, WroteTyped DEF Settle, MayHaveWritten
    <2>2. TransitOK'
        <3>1. \/ UNCHANGED <<owner, switching, state, caller>> /\ \E next \in {"sweep", "forgive"} : Goto(k, next)
              \/ End(k, FALSE)
            BY <1>18 DEF Settle
        <3>2. CASE End(k, FALSE)
            BY <3>2, EndTyped
        <3>3. ASSUME UNCHANGED <<owner, switching, state, caller>>, NEW next \in {"sweep", "forgive"}, Goto(k, next)
              PROVE  TransitOK'
            BY <3>3
        <3> QED BY <3>1, <3>2, <3>3
    <2>3. ToolsOK'
        BY <1>18, EndTyped, FaultTyped, ZenonT(20) DEF Settle
    <2> QED BY <2>1, <2>2, <2>3
<1>19. CASE Forgive(k)
    <2>1. DataOK'
        <3>1. ws' = ws \/ ws' = Unpinned(state[k])
            BY <1>19 DEF Forgive
        <3>2. state[k].previous \in Nat
            BY <1>0 DEF Operations
        <3> QED BY <1>19, <3>1, <3>2, ZenonT(20) DEF Forgive, Unpinned
    <2>2. TransitOK'
        BY <1>19, EndTyped, ZenonT(20) DEF Forgive
    <2>3. ToolsOK'
        BY <1>19, EndTyped, FaultTyped, ZenonT(20) DEF Forgive
    <2> QED BY <2>1, <2>2, <2>3
<1>20. CASE Swept(k)
    <2>1. DataOK'
        BY <1>20, <1>0, WroteTyped DEF Swept, MayHaveWritten
    <2>2. TransitOK'
        BY <1>20, EndTyped DEF Swept
    <2>3. ToolsOK'
        BY <1>20, EndTyped, FaultTyped DEF Swept
    <2> QED BY <2>1, <2>2, <2>3
<1> QED BY <1>1, <1>2, <1>3, <1>4, <1>5, <1>6, <1>7, <1>8, <1>9, <1>10, <1>11, <1>12, <1>13, <1>14, <1>15, <1>16, <1>17, <1>18, <1>19, <1>20 DEF Step

(* Whatever mends, it works on what is on record. *)
LEMMA MendOperation ==
    ASSUME TypeOK, Recover \/ Abandon
    PROVE  \E now \in Operations, next \in {"settle", "forgive"} :
              /\ Mend(now, next) /\ (Fault \/ Works)
              /\ now \in {Claimed, Failed(journal), Unknown(journal), journal}
<1>1. journal \in Operations /\ [journal EXCEPT !.target = journal.id] \in Operations
    BY Values DEF TypeOK, DataOK, Operations
<1>2. {Claimed, Failed(journal), Unknown(journal), journal} \subseteq Operations
    BY <1>1, FailedFacts, UnknownFacts DEF Claimed
<1>3. CASE Recover
    BY <1>2, <1>3 DEF Recover
<1>4. CASE Abandon
    BY <1>2, <1>4 DEF Abandon
<1> QED BY <1>3, <1>4

LEMMA TypeNext == TypeOK /\ Destined /\ [Next]_vars => TypeOK'
<1> SUFFICES ASSUME TypeOK, Destined, [Next]_vars PROVE TypeOK'
    OBVIOUS
<1>1. ASSUME NEW k \in Coroutines, Step(k) PROVE TypeOK'
    BY <1>1, StepTyped
<1>2. ASSUME NEW r \in Runs, Use(r) PROVE TypeOK'
    BY <1>2, UseTyped
<1>3. CASE ConfirmProvision
    BY <1>3, RecoveryTyped DEF ConfirmProvision
<1>4. CASE Recover \/ Abandon
    <2>1. PICK now \in Operations, next \in {"settle", "forgive"} : Mend(now, next) /\ (Fault \/ Works)
        BY <1>4, MendOperation
    <2>2. spent' \in [ops : 0..MaxOps, troubles : Nat]
        BY <2>1, FaultTyped
    <2>3. UNCHANGED <<durable, switching, caller, tools, retire, last>> /\ owner' = "mend"
        BY <2>1 DEF Mend
    <2>4. state' \in [Coroutines -> Operations]
        BY <2>1 DEF Mend, TypeOK, TransitOK
    <2>5. at' \in [Coroutines -> {"idle"} \cup Working \cup Late \cup Handling \cup Settling]
        BY <2>1 DEF Mend, TypeOK, TransitOK, Settling
    <2> QED BY <2>2, <2>3, <2>4, <2>5 DEF TypeOK, DataOK, TransitOK, ToolsOK, Coroutines
<1> USE Values DEF TypeOK, DataOK, TransitOK, ToolsOK
<1>5. CASE Checkpoint
    BY <1>5, SaveTyped DEF Checkpoint
<1>6. CASE Retire
    <2>1. ASSUME NEW action \in {"stop", "delete"}, RetireCheck(action) PROVE TypeOK'
        BY <2>1 DEF RetireCheck
    <2>2. CASE RetireSave
        BY <2>2, SaveTyped DEF RetireSave, NoRetire
    <2>3. CASE RetireProvider
        <3>1. \/ boxes' = boxes
              \/ \E found \in {"stopped", "gone"} : boxes' = [boxes EXCEPT ![row.ref].state = found]
            BY <2>3 DEF RetireProvider
        <3>2. boxes' \in [Refs -> [state : {"none", "coming", "up", "stopped", "gone"}, files : Nat]]
            BY <3>1
        <3> QED BY <2>3, <3>2, FaultTyped DEF RetireProvider, NoRetire
    <2>4. CASE RetireStatus
        BY <2>4, FaultTyped DEF RetireStatus, NoRetire
    <2> QED BY <1>6, <2>1, <2>2, <2>3, <2>4 DEF Retire
<1>7. CASE Crash
    BY <1>7, FaultTyped DEF Crash, NoContext, NoRetire
<1>8. ASSUME NEW local \in BOOLEAN, Request(local) PROVE TypeOK'
    <2>1. DataOK'
        BY <1>8 DEF Request
    <2>2. TransitOK'
        BY <1>8 DEF Request, Begin, Operations, Working, Coroutines, Phases, ACTIVE_PHASES
    <2>3. ToolsOK'
        BY <1>8 DEF Request, Begin
    <2> QED BY <2>1, <2>2, <2>3
<1>9. ASSUME NEW s \in Sandboxes, Arrive(s) \/ SandboxLost(s) PROVE TypeOK'
    BY <1>9, FaultTyped DEF Arrive, SandboxLost
<1>10. CASE UNCHANGED vars
    BY <1>10 DEF vars
<1> QED BY <1>1, <1>2, <1>3, <1>4, <1>5, <1>6, <1>7, <1>8, <1>9, <1>10 DEF Next

-----------------------------------------------------------------------------
(* Who works on the workspace: the lock, the reservation and the leases.     *)
LEMMA StepOwners ==
    ASSUME TypeOK, OwnersWork, OneTransition, NEW k \in Coroutines, Step(k)
    PROVE  OwnersWork' /\ OneTransition'
<1> USE Values DEF TypeOK, TransitOK, ToolsOK, OwnersWork, OneTransition, Coroutines, Working, Late,
                   Handling, Settling, Holding, Reserved, Leases
<1>1. CASE Journal(k)
    BY <1>1 DEF Journal, End, Prepared
<1>2. CASE Start(k)
    BY <1>2 DEF Start
<1>3. CASE Pin(k)
    BY <1>3 DEF Pin
<1>4. CASE Provisioning(k)
    BY <1>4 DEF Provisioning, Recorded
<1>5. CASE Allocate(k)
    BY <1>5 DEF Allocate
<1>6. CASE Remember(k)
    BY <1>6 DEF Remember, Recorded
<1>7. CASE Restoring(k)
    BY <1>7 DEF Restoring, Recorded
<1>8. CASE Restore(k)
    BY <1>8 DEF Restore
<1>9. CASE Verifying(k)
    BY <1>9 DEF Verifying, Recorded
<1>10. CASE Verify(k)
    BY <1>10 DEF Verify
<1>11. CASE Activating(k)
    BY <1>11 DEF Activating, Recorded
<1>12. CASE Publish(k)
    BY <1>12 DEF Publish
<1>13. CASE Unpin(k)
    BY <1>13 DEF Unpin
<1>14. CASE Cleanup(k)
    BY <1>14 DEF Cleanup
<1>15. CASE Record(k)
    BY <1>15 DEF Record, End, Prepared
<1>16. CASE Handler(k)
    BY <1>16 DEF Handler, End, Prepared
<1>17. CASE Activated(k)
    BY <1>17 DEF Activated
<1>18. CASE Settle(k)
    BY <1>18 DEF Settle, End, Prepared
<1>19. CASE Forgive(k)
    BY <1>19 DEF Forgive, End, Prepared
<1>20. CASE Swept(k)
    BY <1>20 DEF Swept, End, Prepared
<1> QED BY <1>1, <1>2, <1>3, <1>4, <1>5, <1>6, <1>7, <1>8, <1>9, <1>10, <1>11, <1>12, <1>13, <1>14, <1>15, <1>16, <1>17, <1>18, <1>19, <1>20 DEF Step

LEMMA WrittenOwns ==
    ASSUME OwnersWork, NEW r \in Runs, pc[r] = "written"
    PROVE  owner = r /\ caller # r
BY DEF OwnersWork

LEMMA OwnersNext == TypeOK /\ OwnersWork /\ OneTransition /\ [Next]_vars => OwnersWork' /\ OneTransition'
<1> SUFFICES ASSUME TypeOK, OwnersWork, OneTransition, [Next]_vars PROVE OwnersWork' /\ OneTransition'
    OBVIOUS
<1>1. ASSUME NEW k \in Coroutines, Step(k) PROVE OwnersWork' /\ OneTransition'
    BY <1>1, StepOwners
<1>0. ASSUME NEW who \in Runs \cup {"user"}, NEW local \in BOOLEAN, Recovery(who, local),
             who \in Runs => pc[who] # "written"
      PROVE OwnersWork' /\ OneTransition'
    BY <1>0, Values DEF TypeOK, TransitOK, ToolsOK, OwnersWork, OneTransition, Coroutines, Working, Late,
                   Handling, Settling, Holding, Reserved, Leases, Recovery, Begin, Available
<1>3. CASE ConfirmProvision
    BY <1>0, <1>3, Values DEF ConfirmProvision
<1>4. CASE Recover \/ Abandon
    <2>1. PICK now \in Operations, next \in {"settle", "forgive"} : Mend(now, next)
        BY <1>4, MendOperation
    <2> QED BY <2>1, Values DEF TypeOK, TransitOK, ToolsOK, OwnersWork, OneTransition, Coroutines, Working, Late,
                   Handling, Settling, Holding, Reserved, Leases, Mend
<1>11. ASSUME NEW r \in Runs, EnsureLost(r) PROVE OwnersWork' /\ OneTransition'
    BY <1>0, <1>11 DEF EnsureLost
<1> USE Values DEF TypeOK, TransitOK, ToolsOK, OwnersWork, OneTransition, Coroutines, Working, Late,
                   Handling, Settling, Holding, Reserved, Leases
<1>2. ASSUME NEW r \in Runs, Use(r) PROVE OwnersWork' /\ OneTransition'
    <2>1. CASE Admit(r)
        BY <2>1 DEF Admit, Free
    <2>2. CASE Leave(r)
        BY <2>2 DEF Leave
    <2>3. CASE Ensure(r)
        BY <2>3 DEF Ensure, Prepared
    <2>5. CASE Write(r)
        BY <2>5 DEF Write, Available
    <2>6. CASE Persist(r)
        <3>1. owner = r /\ caller = "nobody" /\ at["mend"] = "idle" /\ r \notin {"switch", "retire", "user", "mend", "nobody"}
            <4>1. r \notin {"switch", "retire", "user", "mend", "nobody"}
                BY Values
            <4>2. owner = r /\ caller # r
                BY <2>6, WrittenOwns DEF Persist
            <4> QED BY <4>1, <4>2
        <3>2. /\ owner' = "nobody" /\ pc' = [pc EXCEPT ![r] = "leased"]
              /\ UNCHANGED <<at, state, caller, switching, retire>>
            BY <2>6 DEF Persist
        <3>3. OwnersWork'
            BY <3>1, <3>2
        <3>4. OneTransition'
            BY <2>6, <3>2 DEF Persist
        <3> QED BY <3>3, <3>4
    <2> QED BY <1>2, <1>11, <2>1, <2>2, <2>3, <2>5, <2>6 DEF Use
<1>5. CASE Checkpoint
    BY <1>5 DEF Checkpoint
<1>6. CASE Retire
    BY <1>6 DEF Retire, RetireCheck, RetireSave, RetireProvider, RetireStatus, NoRetire
<1>7. CASE Crash
    BY <1>7 DEF Crash, NoRetire, NoOp
<1>8. ASSUME NEW local \in BOOLEAN, Request(local) PROVE OwnersWork' /\ OneTransition'
    BY <1>8 DEF Request, Begin, Available
<1>9. ASSUME NEW s \in Sandboxes, Arrive(s) \/ SandboxLost(s) PROVE OwnersWork' /\ OneTransition'
    BY <1>9 DEF Arrive, SandboxLost
<1>10. CASE UNCHANGED vars
    BY <1>10 DEF vars
<1> QED BY <1>1, <1>2, <1>3, <1>4, <1>5, <1>6, <1>7, <1>8, <1>9, <1>10 DEF Next

-----------------------------------------------------------------------------
(* What a step of a transition makes of its operation, and may write.        *)
Follows(k, now) ==
    /\ now \in Operations
    /\ now.id = state[k].id /\ now.local = state[k].local /\ now.generation = state[k].generation
    /\ now.source = state[k].source /\ now.kind = state[k].kind
    /\ now.revision = state[k].revision \/ (at[k] = "start" /\ k = "switch")
    /\ now.target = state[k].target \/ (at[k] = "allocate" /\ now.target = state[k].id)
                                    \/ (at[k] = "restoring" /\ state[k].local /\ now.target = Local)
    /\ Listed(now) \subseteq Listed(state[k]) \cup {state[k].target}
                              \cup IF at[k] = "publish" THEN {state[k].source} ELSE {}

LEMMA FollowsItself ==
    ASSUME NEW k \in Coroutines, state[k] \in Operations, NEW phase \in Phases
    PROVE  Follows(k, state[k]) /\ Follows(k, [state[k] EXCEPT !.phase = phase])
BY DEF Follows, Operations, Listed

(* What it revises, where it is, and what it has to clean up. *)
LEMMA FollowsRevised ==
    ASSUME NEW k \in Coroutines, state[k] \in Operations
    PROVE  /\ at[k] = "start" /\ k = "switch" => \A n \in Nat : Follows(k, [state[k] EXCEPT !.revision = n])
           /\ at[k] = "allocate" => Follows(k, [state[k] EXCEPT !.target = state[k].id])
           /\ at[k] = "restoring" =>
                 Follows(k, [state[k] EXCEPT !.phase = "restoring", !.target = IF state[k].local THEN Local ELSE @])
           /\ Follows(k, Failed(state[k])) /\ Follows(k, Unknown(state[k]))
           /\ \A left \in SUBSET state[k].cleanup : Follows(k, [state[k] EXCEPT !.cleanup = left])
<1>1. ASSUME at[k] = "start", k = "switch", NEW n \in Nat PROVE Follows(k, [state[k] EXCEPT !.revision = n])
    BY <1>1 DEF Follows, Operations, Listed
<1>2. ASSUME at[k] = "allocate" PROVE Follows(k, [state[k] EXCEPT !.target = state[k].id])
    BY <1>2, Values DEF Follows, Operations, Listed
<1>3. ASSUME at[k] = "restoring" 
      PROVE Follows(k, [state[k] EXCEPT !.phase = "restoring", !.target = IF state[k].local THEN Local ELSE @])
    <2>1. PICK ref \in Refs \cup {NoRef} :
              /\ ref = IF state[k].local THEN Local ELSE state[k].target
              /\ [state[k] EXCEPT !.phase = "restoring", !.target = IF state[k].local THEN Local ELSE @]
                    = [state[k] EXCEPT !.phase = "restoring", !.target = ref]
        BY Values DEF Operations
    <2>2. Follows(k, [state[k] EXCEPT !.phase = "restoring", !.target = ref])
        BY <1>3, <2>1, RestoringOp DEF Follows, Operations, Listed
    <2> QED BY <2>1, <2>2
<1>4. Follows(k, Failed(state[k]))
    <2>1. Failed(state[k]).source = state[k].source /\ Failed(state[k]).kind = state[k].kind /\ Failed(state[k]).revision = state[k].revision
        BY DEF Failed, Operations
    <2> QED BY <2>1, FailedFacts DEF Follows
<1>5. Follows(k, Unknown(state[k]))
    <2>1. Unknown(state[k]).source = state[k].source /\ Unknown(state[k]).kind = state[k].kind /\ Unknown(state[k]).revision = state[k].revision
        BY DEF Unknown, Operations
    <2> QED BY <2>1, UnknownFacts DEF Follows
<1>6. ASSUME NEW left \in SUBSET state[k].cleanup PROVE Follows(k, [state[k] EXCEPT !.cleanup = left])
    <2> DEFINE now == [state[k] EXCEPT !.cleanup = left]
    <2>1. now.cleanup = left /\ now \in Operations
        BY DEF Operations
    <2>2. Listed(now) \subseteq Listed(state[k])
        BY <2>1 DEF Listed
    <2> QED BY <2>1, <2>2 DEF Follows, Operations
<1> QED BY <1>1, <1>2, <1>3, <1>4, <1>5, <1>6

LEMMA FollowsPublished ==
    ASSUME NEW k \in Coroutines, state[k] \in Operations, at[k] = "publish",
           NEW c, c \in {{}, {[ref |-> state[k].source, action |-> "retire"]}},
           c # {} => state[k].source # Local
    PROVE  Follows(k, [state[k] EXCEPT !.phase = "completed", !.cleanup = @ \cup c])
<1> DEFINE now == [state[k] EXCEPT !.phase = "completed", !.cleanup = @ \cup c]
<1>1. state[k].cleanup \cup c \in SUBSET [ref : Sandboxes, action : {"retire", "delete"}]
    BY DEF Operations, Refs
<1>2. now \in Operations
    BY <1>1, PublishOp
<1>3. now.cleanup = state[k].cleanup \cup c
    BY DEF Operations
<1>4. Listed(now) \subseteq Listed(state[k]) \cup {state[k].source}
    BY <1>3 DEF Listed
<1> QED BY <1>2, <1>4 DEF Follows, Operations

LEMMA StepOperation ==
    ASSUME TypeOK, NEW k \in Coroutines, Step(k)
    PROVE  /\ at[k] # "idle"
           /\ UNCHANGED <<retire, last>> /\ spent'.ops = spent.ops
           /\ \A j \in Coroutines \ {k} : at'[j] = at[j] /\ state'[j] = state[j]
           /\ \E now : /\ Follows(k, now) /\ MayHaveWritten(now)
                       /\ \/ state'[k] = now /\ at'[k] # "idle"
                          \/ state'[k] = NoOp /\ at'[k] = "idle"
<1> USE DEF TypeOK, TransitOK, ToolsOK
<1> DEFINE op == state[k]
           Goal == \E now : /\ Follows(k, now) /\ MayHaveWritten(now)
                            /\ \/ state'[k] = now /\ at'[k] # "idle"
                               \/ state'[k] = NoOp /\ at'[k] = "idle"
<1>0. op \in Operations /\ {"saving", "provisioning", "restoring", "verifying", "activating", "failed", "completed"} \subseteq Phases
    BY DEF Phases, ACTIVE_PHASES
<1>1. ASSUME Journal(k) PROVE at[k] # "idle" /\ UNCHANGED <<retire, last>> /\ spent'.ops = spent.ops /\ Goal
                    /\ \A j \in Coroutines \ {k} : at'[j] = at[j] /\ state'[j] = state[j]
    <2>1. at[k] # "idle" /\ UNCHANGED <<retire, last>> /\ spent'.ops = spent.ops
        BY <1>1 DEF Journal, Fault, Saved, NotSaved
    <2>2. \A j \in Coroutines \ {k} : at'[j] = at[j] /\ state'[j] = state[j]
        BY <1>1 DEF Journal, End
    <2>3. Goal
        BY <1>0, <1>1, FollowsItself DEF Journal, End, MayHaveWritten
    <2> QED BY <2>1, <2>2, <2>3
<1>2. ASSUME Start(k) PROVE at[k] # "idle" /\ UNCHANGED <<retire, last>> /\ spent'.ops = spent.ops /\ Goal
                    /\ \A j \in Coroutines \ {k} : at'[j] = at[j] /\ state'[j] = state[j]
    <2>1. at[k] # "idle" /\ UNCHANGED <<retire, last>> /\ spent'.ops = spent.ops
        BY <1>2 DEF Start, Fault, Saved, NotSaved
    <2>2. \A j \in Coroutines \ {k} : at'[j] = at[j] /\ state'[j] = state[j]
        BY <1>2 DEF Start
    <2>3. Goal
        <3>1. boxes[row.ref].files \in Nat
            BY DEF DataOK
        <3>2. PICK now \in {op, [op EXCEPT !.revision = boxes[row.ref].files]} :
                 state' = [state EXCEPT ![k] = now] /\ (k # "switch" => now = op)
            BY <1>2 DEF Start
        <3>3. Follows(k, now)
            <4>1. CASE now = op
                BY <1>0, <4>1, FollowsItself
            <4>2. CASE k = "switch" /\ now = [op EXCEPT !.revision = boxes[row.ref].files]
                BY <1>0, <1>2, <3>1, <4>2, FollowsRevised DEF Start
            <4> QED BY <3>2, <4>1, <4>2
        <3> QED BY <1>2, <3>2, <3>3 DEF Start, MayHaveWritten
    <2> QED BY <2>1, <2>2, <2>3
<1>3. ASSUME Pin(k) PROVE at[k] # "idle" /\ UNCHANGED <<retire, last>> /\ spent'.ops = spent.ops /\ Goal
                    /\ \A j \in Coroutines \ {k} : at'[j] = at[j] /\ state'[j] = state[j]
    <2>1. at[k] # "idle" /\ UNCHANGED <<retire, last>> /\ spent'.ops = spent.ops
        BY <1>3 DEF Pin, Fault, Saved, NotSaved
    <2>2. \A j \in Coroutines \ {k} : at'[j] = at[j] /\ state'[j] = state[j]
        BY <1>3 DEF Pin
    <2>3. Goal
        BY <1>0, <1>3, FollowsItself DEF Pin, MayHaveWritten
    <2> QED BY <2>1, <2>2, <2>3
<1>4. ASSUME Provisioning(k) PROVE at[k] # "idle" /\ UNCHANGED <<retire, last>> /\ spent'.ops = spent.ops /\ Goal
                    /\ \A j \in Coroutines \ {k} : at'[j] = at[j] /\ state'[j] = state[j]
    <2>1. at[k] # "idle" /\ UNCHANGED <<retire, last>> /\ spent'.ops = spent.ops
        BY <1>4 DEF Provisioning, Recorded, Fault, Saved, NotSaved
    <2>2. \A j \in Coroutines \ {k} : at'[j] = at[j] /\ state'[j] = state[j]
        BY <1>4 DEF Provisioning, Recorded
    <2>3. Goal
        BY <1>0, <1>4, FollowsItself DEF Provisioning, Recorded, MayHaveWritten
    <2> QED BY <2>1, <2>2, <2>3
<1>5. ASSUME Allocate(k) PROVE at[k] # "idle" /\ UNCHANGED <<retire, last>> /\ spent'.ops = spent.ops /\ Goal
                    /\ \A j \in Coroutines \ {k} : at'[j] = at[j] /\ state'[j] = state[j]
    <2>1. at[k] # "idle" /\ UNCHANGED <<retire, last>> /\ spent'.ops = spent.ops
        BY <1>5 DEF Allocate, Fault, Saved, NotSaved
    <2>2. \A j \in Coroutines \ {k} : at'[j] = at[j] /\ state'[j] = state[j]
        BY <1>5 DEF Allocate
    <2>3. Goal
        BY <1>0, <1>5, FollowsItself, FollowsRevised DEF Allocate, MayHaveWritten
    <2> QED BY <2>1, <2>2, <2>3
<1>6. ASSUME Remember(k) PROVE at[k] # "idle" /\ UNCHANGED <<retire, last>> /\ spent'.ops = spent.ops /\ Goal
                    /\ \A j \in Coroutines \ {k} : at'[j] = at[j] /\ state'[j] = state[j]
    <2>1. at[k] # "idle" /\ UNCHANGED <<retire, last>> /\ spent'.ops = spent.ops
        BY <1>6 DEF Remember, Recorded, Fault, Saved, NotSaved
    <2>2. \A j \in Coroutines \ {k} : at'[j] = at[j] /\ state'[j] = state[j]
        BY <1>6 DEF Remember, Recorded
    <2>3. Goal
        BY <1>0, <1>6, FollowsItself DEF Remember, Recorded, MayHaveWritten
    <2> QED BY <2>1, <2>2, <2>3
<1>7. ASSUME Restoring(k) PROVE at[k] # "idle" /\ UNCHANGED <<retire, last>> /\ spent'.ops = spent.ops /\ Goal
                    /\ \A j \in Coroutines \ {k} : at'[j] = at[j] /\ state'[j] = state[j]
    <2>1. at[k] # "idle" /\ UNCHANGED <<retire, last>> /\ spent'.ops = spent.ops
        BY <1>7 DEF Restoring, Recorded, Fault, Saved, NotSaved
    <2>2. \A j \in Coroutines \ {k} : at'[j] = at[j] /\ state'[j] = state[j]
        BY <1>7 DEF Restoring, Recorded
    <2>3. Goal
        BY <1>0, <1>7, FollowsRevised DEF Restoring, Recorded, MayHaveWritten
    <2> QED BY <2>1, <2>2, <2>3
<1>8. ASSUME Restore(k) PROVE at[k] # "idle" /\ UNCHANGED <<retire, last>> /\ spent'.ops = spent.ops /\ Goal
                    /\ \A j \in Coroutines \ {k} : at'[j] = at[j] /\ state'[j] = state[j]
    <2>1. at[k] # "idle" /\ UNCHANGED <<retire, last>> /\ spent'.ops = spent.ops
        BY <1>8 DEF Restore, Fault, Saved, NotSaved
    <2>2. \A j \in Coroutines \ {k} : at'[j] = at[j] /\ state'[j] = state[j]
        BY <1>8 DEF Restore
    <2>3. Goal
        BY <1>0, <1>8, FollowsItself DEF Restore, MayHaveWritten
    <2> QED BY <2>1, <2>2, <2>3
<1>9. ASSUME Verifying(k) PROVE at[k] # "idle" /\ UNCHANGED <<retire, last>> /\ spent'.ops = spent.ops /\ Goal
                    /\ \A j \in Coroutines \ {k} : at'[j] = at[j] /\ state'[j] = state[j]
    <2>1. at[k] # "idle" /\ UNCHANGED <<retire, last>> /\ spent'.ops = spent.ops
        BY <1>9 DEF Verifying, Recorded, Fault, Saved, NotSaved
    <2>2. \A j \in Coroutines \ {k} : at'[j] = at[j] /\ state'[j] = state[j]
        BY <1>9 DEF Verifying, Recorded
    <2>3. Goal
        BY <1>0, <1>9, FollowsItself DEF Verifying, Recorded, MayHaveWritten
    <2> QED BY <2>1, <2>2, <2>3
<1>10. ASSUME Verify(k) PROVE at[k] # "idle" /\ UNCHANGED <<retire, last>> /\ spent'.ops = spent.ops /\ Goal
                    /\ \A j \in Coroutines \ {k} : at'[j] = at[j] /\ state'[j] = state[j]
    <2>1. at[k] # "idle" /\ UNCHANGED <<retire, last>> /\ spent'.ops = spent.ops
        BY <1>10 DEF Verify, Fault, Saved, NotSaved
    <2>2. \A j \in Coroutines \ {k} : at'[j] = at[j] /\ state'[j] = state[j]
        BY <1>10 DEF Verify
    <2>3. Goal
        BY <1>0, <1>10, FollowsItself DEF Verify, MayHaveWritten
    <2> QED BY <2>1, <2>2, <2>3
<1>11. ASSUME Activating(k) PROVE at[k] # "idle" /\ UNCHANGED <<retire, last>> /\ spent'.ops = spent.ops /\ Goal
                    /\ \A j \in Coroutines \ {k} : at'[j] = at[j] /\ state'[j] = state[j]
    <2>1. at[k] # "idle" /\ UNCHANGED <<retire, last>> /\ spent'.ops = spent.ops
        BY <1>11 DEF Activating, Recorded, Fault, Saved, NotSaved
    <2>2. \A j \in Coroutines \ {k} : at'[j] = at[j] /\ state'[j] = state[j]
        BY <1>11 DEF Activating, Recorded
    <2>3. Goal
        BY <1>0, <1>11, FollowsItself DEF Activating, Recorded, MayHaveWritten
    <2> QED BY <2>1, <2>2, <2>3
<1>12. ASSUME Publish(k) PROVE at[k] # "idle" /\ UNCHANGED <<retire, last>> /\ spent'.ops = spent.ops /\ Goal
                    /\ \A j \in Coroutines \ {k} : at'[j] = at[j] /\ state'[j] = state[j]
    <2>1. at[k] # "idle" /\ UNCHANGED <<retire, last>> /\ spent'.ops = spent.ops
        BY <1>12 DEF Publish, Fault, Saved, NotSaved
    <2>2. \A j \in Coroutines \ {k} : at'[j] = at[j] /\ state'[j] = state[j]
        BY <1>12 DEF Publish
    <2>3. Goal
        <3> DEFINE c == IF op.source # Local /\ op.kind = "switch" THEN {[ref |-> op.source, action |-> "retire"]} ELSE {}
                   now == [op EXCEPT !.phase = "completed", !.cleanup = @ \cup c]
        <3>1. state' = [state EXCEPT ![k] = now] /\ MayHaveWritten(now) /\ at'[k] # "idle"
            BY <1>12 DEF Publish, MayHaveWritten
        <3>2. Follows(k, now)
            BY <1>0, <1>12, FollowsPublished DEF Publish
        <3>3. state'[k] = now
            BY <3>1
        <3> QED BY <3>1, <3>2, <3>3
    <2> QED BY <2>1, <2>2, <2>3
<1>13. ASSUME Unpin(k) PROVE at[k] # "idle" /\ UNCHANGED <<retire, last>> /\ spent'.ops = spent.ops /\ Goal
                    /\ \A j \in Coroutines \ {k} : at'[j] = at[j] /\ state'[j] = state[j]
    <2>1. at[k] # "idle" /\ UNCHANGED <<retire, last>> /\ spent'.ops = spent.ops
        BY <1>13 DEF Unpin, Fault, Saved, NotSaved
    <2>2. \A j \in Coroutines \ {k} : at'[j] = at[j] /\ state'[j] = state[j]
        BY <1>13 DEF Unpin
    <2>3. Goal
        BY <1>0, <1>13, FollowsItself DEF Unpin, MayHaveWritten
    <2> QED BY <2>1, <2>2, <2>3
<1>14. ASSUME Cleanup(k) PROVE at[k] # "idle" /\ UNCHANGED <<retire, last>> /\ spent'.ops = spent.ops /\ Goal
                    /\ \A j \in Coroutines \ {k} : at'[j] = at[j] /\ state'[j] = state[j]
    <2>1. at[k] # "idle" /\ UNCHANGED <<retire, last>> /\ spent'.ops = spent.ops
        BY <1>14 DEF Cleanup, Fault, Saved, NotSaved
    <2>2. \A j \in Coroutines \ {k} : at'[j] = at[j] /\ state'[j] = state[j]
        BY <1>14 DEF Cleanup
    <2>3. Goal
        BY <1>0, <1>14, FollowsRevised, ZenonT(20) DEF Cleanup, MayHaveWritten
    <2> QED BY <2>1, <2>2, <2>3
<1>15. ASSUME Record(k) PROVE at[k] # "idle" /\ UNCHANGED <<retire, last>> /\ spent'.ops = spent.ops /\ Goal
                    /\ \A j \in Coroutines \ {k} : at'[j] = at[j] /\ state'[j] = state[j]
    <2>1. at[k] # "idle" /\ UNCHANGED <<retire, last>> /\ spent'.ops = spent.ops
        BY <1>15 DEF Record, Fault, Saved, NotSaved
    <2>2. \A j \in Coroutines \ {k} : at'[j] = at[j] /\ state'[j] = state[j]
        BY <1>15 DEF Record, End
    <2>3. Goal
        BY <1>0, <1>15, FollowsItself DEF Record, End, MayHaveWritten
    <2> QED BY <2>1, <2>2, <2>3
<1>16. ASSUME Handler(k) PROVE at[k] # "idle" /\ UNCHANGED <<retire, last>> /\ spent'.ops = spent.ops /\ Goal
                    /\ \A j \in Coroutines \ {k} : at'[j] = at[j] /\ state'[j] = state[j]
    <2>1. at[k] # "idle" /\ UNCHANGED <<retire, last>> /\ spent'.ops = spent.ops
        BY <1>16 DEF Handler, Fault, Saved, NotSaved
    <2>2. \A j \in Coroutines \ {k} : at'[j] = at[j] /\ state'[j] = state[j]
        BY <1>16 DEF Handler, End
    <2>3. Goal
        BY <1>0, <1>16, FollowsItself, FollowsRevised DEF Handler, End, MayHaveWritten
    <2> QED BY <2>1, <2>2, <2>3
<1>17. ASSUME Activated(k) PROVE at[k] # "idle" /\ UNCHANGED <<retire, last>> /\ spent'.ops = spent.ops /\ Goal
                    /\ \A j \in Coroutines \ {k} : at'[j] = at[j] /\ state'[j] = state[j]
    <2>1. at[k] # "idle" /\ UNCHANGED <<retire, last>> /\ spent'.ops = spent.ops
        BY <1>17 DEF Activated, Fault, Saved, NotSaved
    <2>2. \A j \in Coroutines \ {k} : at'[j] = at[j] /\ state'[j] = state[j]
        BY <1>17 DEF Activated
    <2>3. Goal
        BY <1>0, <1>17, FollowsItself DEF Activated, MayHaveWritten
    <2> QED BY <2>1, <2>2, <2>3
<1>18. ASSUME Settle(k) PROVE at[k] # "idle" /\ UNCHANGED <<retire, last>> /\ spent'.ops = spent.ops /\ Goal
                    /\ \A j \in Coroutines \ {k} : at'[j] = at[j] /\ state'[j] = state[j]
    <2>1. at[k] # "idle" /\ UNCHANGED <<retire, last>> /\ spent'.ops = spent.ops
        BY <1>18 DEF Settle, Fault, Saved, NotSaved
    <2>2. \A j \in Coroutines \ {k} : at'[j] = at[j] /\ state'[j] = state[j]
        BY <1>18 DEF Settle, End
    <2>3. Goal
        BY <1>0, <1>18, FollowsItself DEF Settle, End, MayHaveWritten
    <2> QED BY <2>1, <2>2, <2>3
<1>19. ASSUME Forgive(k) PROVE at[k] # "idle" /\ UNCHANGED <<retire, last>> /\ spent'.ops = spent.ops /\ Goal
                    /\ \A j \in Coroutines \ {k} : at'[j] = at[j] /\ state'[j] = state[j]
    <2>1. at[k] # "idle" /\ UNCHANGED <<retire, last>> /\ spent'.ops = spent.ops
        BY <1>19 DEF Forgive, Fault, Saved, NotSaved
    <2>2. \A j \in Coroutines \ {k} : at'[j] = at[j] /\ state'[j] = state[j]
        BY <1>19 DEF Forgive, End
    <2>3. Goal
        BY <1>0, <1>19, FollowsItself DEF Forgive, End, MayHaveWritten
    <2> QED BY <2>1, <2>2, <2>3
<1>20. ASSUME Swept(k) PROVE at[k] # "idle" /\ UNCHANGED <<retire, last>> /\ spent'.ops = spent.ops /\ Goal
                    /\ \A j \in Coroutines \ {k} : at'[j] = at[j] /\ state'[j] = state[j]
    <2>1. at[k] # "idle" /\ UNCHANGED <<retire, last>> /\ spent'.ops = spent.ops
        BY <1>20 DEF Swept, Fault, Saved, NotSaved
    <2>2. \A j \in Coroutines \ {k} : at'[j] = at[j] /\ state'[j] = state[j]
        BY <1>20 DEF Swept, End
    <2>3. Goal
        BY <1>0, <1>20, FollowsItself DEF Swept, End, MayHaveWritten
    <2> QED BY <2>1, <2>2, <2>3
<1> QED BY <1>1, <1>2, <1>3, <1>4, <1>5, <1>6, <1>7, <1>8, <1>9, <1>10, <1>11, <1>12, <1>13, <1>14, <1>15, <1>16, <1>17, <1>18, <1>19, <1>20 DEF Step

(* Where it goes, and what it makes of the binding of the workspace. *)
LEMMA StepBinding ==
    ASSUME TypeOK, NEW k \in Coroutines, Step(k)
    PROVE  /\ at'[k] \in Working => at[k] \in Working \ {"publish"}
           /\ \/ row' = row
              \/ /\ at[k] = "publish" /\ at'[k] \notin Working /\ row.generation = state[k].generation
                 /\ row' = [ref |-> state[k].target, generation |-> state[k].generation + 1,
                            status |-> "ready", decision |-> FALSE]
              \/ /\ at[k] = "start" /\ at'[k] = "handler" /\ ~Exists(row.ref)
                 /\ row' = [row EXCEPT !.status = "unavailable", !.decision = TRUE]
<1> USE DEF TypeOK, TransitOK, Working
<1>1. CASE Journal(k)
    BY <1>1 DEF Journal, End
<1>2. CASE Start(k)
    BY <1>2 DEF Start, Saved, NotSaved
<1>3. CASE Pin(k)
    BY <1>3 DEF Pin
<1>4. CASE Provisioning(k)
    BY <1>4 DEF Provisioning, Recorded
<1>5. CASE Allocate(k)
    BY <1>5 DEF Allocate
<1>6. CASE Remember(k)
    BY <1>6 DEF Remember, Recorded
<1>7. CASE Restoring(k)
    BY <1>7 DEF Restoring, Recorded
<1>8. CASE Restore(k)
    BY <1>8 DEF Restore
<1>9. CASE Verifying(k)
    BY <1>9 DEF Verifying, Recorded
<1>10. CASE Verify(k)
    BY <1>10 DEF Verify
<1>11. CASE Activating(k)
    BY <1>11 DEF Activating, Recorded
<1>12. CASE Publish(k)
    BY <1>12 DEF Publish
<1>13. CASE Unpin(k)
    BY <1>13 DEF Unpin
<1>14. CASE Cleanup(k)
    BY <1>14 DEF Cleanup
<1>15. CASE Record(k)
    BY <1>15 DEF Record, End
<1>16. CASE Handler(k)
    BY <1>16 DEF Handler, End
<1>17. CASE Activated(k)
    BY <1>17 DEF Activated
<1>18. CASE Settle(k)
    BY <1>18 DEF Settle, End
<1>19. CASE Forgive(k)
    BY <1>19 DEF Forgive, End
<1>20. CASE Swept(k)
    BY <1>20 DEF Swept, End
<1> QED BY <1>1, <1>2, <1>3, <1>4, <1>5, <1>6, <1>7, <1>8, <1>9, <1>10, <1>11, <1>12, <1>13, <1>14, <1>15, <1>16, <1>17, <1>18, <1>19, <1>20 DEF Step

LEMMA StepRef ==
    ASSUME TypeOK, NEW k \in Coroutines, Step(k)
    PROVE  \/ /\ row'.ref = row.ref /\ row'.generation = row.generation
              /\ row' = row \/ (row'.decision /\ row'.status = "unavailable" /\ ~Exists(row.ref))
           \/ /\ at[k] = "publish" /\ at'[k] \notin Working /\ row.generation = state[k].generation
              /\ row'.ref = state[k].target /\ row'.generation = row.generation + 1
              /\ row'.status = "ready" /\ ~row'.decision
<1>1. LET found == [row EXCEPT !.status = "unavailable", !.decision = TRUE]
      IN  found.ref = row.ref /\ found.generation = row.generation /\ found.decision /\ found.status = "unavailable"
    BY DEF TypeOK, DataOK
<1>2. CASE row' = row
    BY <1>2
<1>3. CASE /\ at[k] = "publish" /\ at'[k] \notin Working /\ row.generation = state[k].generation
           /\ row' = [ref |-> state[k].target, generation |-> state[k].generation + 1,
                      status |-> "ready", decision |-> FALSE]
    BY <1>3
<1>4. CASE ~Exists(row.ref) /\ row' = [row EXCEPT !.status = "unavailable", !.decision = TRUE]
    BY <1>1, <1>4
<1> QED BY <1>2, <1>3, <1>4, StepBinding

-----------------------------------------------------------------------------
(* Where a transition is says what its environment is.                       *)
LEMMA StepDestined ==
    ASSUME TypeOK, Destined, NEW k \in Coroutines, Step(k)
    PROVE  Destined'
<1>0. \A j \in Coroutines \ {k} : at'[j] = at[j] /\ state'[j] = state[j]
    BY StepOperation
<1> DEFINE Fits(j) ==
      /\ at[j] \in {"journal", "start", "pin", "provisioning", "allocate"} => state[j].target = NoRef
      /\ at[j] \in {"allocate", "remember"} => ~state[j].local /\ state[j].phase = "provisioning"
      /\ at[j] = "remember" => state[j].target = state[j].id
      /\ at[j] = "restoring" => state[j].target = IF state[j].local THEN NoRef ELSE state[j].id
      /\ at[j] \in {"restore", "verifying", "verify", "activating", "publish"} =>
            state[j].target = IF state[j].local THEN Local ELSE state[j].id
      /\ at[j] \in Working => state[j].phase \in ACTIVE_PHASES
<1>00. Fits(k) /\ state[k] \in Operations
    BY DEF Destined, TypeOK, TransitOK
<1> USE DEF TypeOK, TransitOK, Working, ACTIVE_PHASES, Operations
<1>1. CASE Journal(k)
    <2>1. Fits(k)'
        BY <1>00, <1>1 DEF Journal, End
    <2> QED BY <1>0, <2>1 DEF Destined
<1>2. CASE Start(k)
    <2>1. Fits(k)'
        BY <1>00, <1>2 DEF Start
    <2> QED BY <1>0, <2>1 DEF Destined
<1>3. CASE Pin(k)
    <2>1. Fits(k)'
        BY <1>00, <1>3 DEF Pin
    <2> QED BY <1>0, <2>1 DEF Destined
<1>4. CASE Provisioning(k)
    <2>1. Fits(k)'
        BY <1>00, <1>4 DEF Provisioning, Recorded
    <2> QED BY <1>0, <2>1 DEF Destined
<1>5. CASE Allocate(k)
    <2>1. Fits(k)'
        BY <1>00, <1>5 DEF Allocate
    <2> QED BY <1>0, <2>1 DEF Destined
<1>6. CASE Remember(k)
    <2>1. Fits(k)'
        BY <1>00, <1>6 DEF Remember, Recorded
    <2> QED BY <1>0, <2>1 DEF Destined
<1>7. CASE Restoring(k)
    <2>1. Fits(k)'
        BY <1>00, <1>7 DEF Restoring, Recorded
    <2> QED BY <1>0, <2>1 DEF Destined
<1>8. CASE Restore(k)
    <2>1. Fits(k)'
        BY <1>00, <1>8 DEF Restore
    <2> QED BY <1>0, <2>1 DEF Destined
<1>9. CASE Verifying(k)
    <2>1. Fits(k)'
        BY <1>00, <1>9 DEF Verifying, Recorded
    <2> QED BY <1>0, <2>1 DEF Destined
<1>10. CASE Verify(k)
    <2>1. Fits(k)'
        BY <1>00, <1>10 DEF Verify
    <2> QED BY <1>0, <2>1 DEF Destined
<1>11. CASE Activating(k)
    <2>1. Fits(k)'
        BY <1>00, <1>11 DEF Activating, Recorded
    <2> QED BY <1>0, <2>1 DEF Destined
<1>12. CASE Publish(k)
    <2>1. Fits(k)'
        BY <1>00, <1>12 DEF Publish
    <2> QED BY <1>0, <2>1 DEF Destined
<1>13. CASE Unpin(k)
    <2>1. Fits(k)'
        BY <1>00, <1>13 DEF Unpin
    <2> QED BY <1>0, <2>1 DEF Destined
<1>14. CASE Cleanup(k)
    <2>1. Fits(k)'
        BY <1>00, <1>14 DEF Cleanup
    <2> QED BY <1>0, <2>1 DEF Destined
<1>15. CASE Record(k)
    <2>1. Fits(k)'
        BY <1>00, <1>15 DEF Record, End
    <2> QED BY <1>0, <2>1 DEF Destined
<1>16. CASE Handler(k)
    <2>1. Fits(k)'
        BY <1>00, <1>16 DEF Handler, End
    <2> QED BY <1>0, <2>1 DEF Destined
<1>17. CASE Activated(k)
    <2>1. Fits(k)'
        BY <1>00, <1>17 DEF Activated
    <2> QED BY <1>0, <2>1 DEF Destined
<1>18. CASE Settle(k)
    <2>1. Fits(k)'
        BY <1>00, <1>18 DEF Settle, End
    <2> QED BY <1>0, <2>1 DEF Destined
<1>19. CASE Forgive(k)
    <2>1. Fits(k)'
        BY <1>00, <1>19 DEF Forgive, End
    <2> QED BY <1>0, <2>1 DEF Destined
<1>20. CASE Swept(k)
    <2>1. Fits(k)'
        BY <1>00, <1>20 DEF Swept, End
    <2> QED BY <1>0, <2>1 DEF Destined
<1> QED BY <1>1, <1>2, <1>3, <1>4, <1>5, <1>6, <1>7, <1>8, <1>9, <1>10, <1>11, <1>12, <1>13, <1>14, <1>15, <1>16, <1>17, <1>18, <1>19, <1>20 DEF Step

(* At most one transition is under way to a new environment. *)
LEMMA OneWorks ==
    ASSUME OwnersWork, OneTransition, NEW j \in Coroutines, NEW k \in Coroutines, j # k,
           at[j] \in Working, at[k] \in Working
    PROVE  FALSE
BY DEF OwnersWork, OneTransition, Coroutines, Reserved, Working, Settling

-----------------------------------------------------------------------------
(* The number of a transition is newer than the environment it replaces.     *)
LEMMA FollowsNumbered ==
    ASSUME TypeOK, Numbered, NEW k \in Coroutines, NEW now, Follows(k, now)
    PROVE  /\ now.id <= spent.ops /\ now.target \in Targets(now)
           /\ \A s \in Listed(now) : s <= now.id
<1>1. state[k].id <= spent.ops /\ state[k].target \in Targets(state[k])
    BY DEF Numbered
<1>2. now.target \in Targets(now) /\ now.id = state[k].id
    BY <1>1 DEF Follows, Targets
<1>3. ASSUME NEW s \in Listed(now) PROVE s <= now.id
    <2>1. s \in Sandboxes /\ now.id \in Nat
        BY <1>3 DEF Follows, Operations, Listed
    <2>2. \/ s \in Listed(state[k]) \/ s = state[k].target
          \/ at[k] = "publish" /\ s = state[k].source
        BY <1>3 DEF Follows
    <2>3. s = state[k].target => s = state[k].id
        BY <1>1, <2>1, Values DEF Targets
    <2>4. at[k] = "publish" => state[k].source < state[k].id
        BY DEF Numbered, Working
    <2> QED BY <1>2, <2>1, <2>2, <2>3, <2>4, ProjectAssumption DEF Numbered, ProjectAssumption, Sandboxes
<1> QED BY <1>1, <1>2, <1>3

LEMMA StepNumbered ==
    ASSUME TypeOK, OwnersWork, OneTransition, Numbered, Destined, NEW k \in Coroutines, Step(k)
    PROVE  Numbered'
<1> USE ProjectAssumption DEF ProjectAssumption
<1>1. PICK now : /\ Follows(k, now) /\ MayHaveWritten(now)
                 /\ \/ state'[k] = now /\ at'[k] # "idle"
                    \/ state'[k] = NoOp /\ at'[k] = "idle"
    BY StepOperation
<1>2. at[k] # "idle" /\ spent'.ops = spent.ops /\ \A j \in Coroutines \ {k} : at'[j] = at[j] /\ state'[j] = state[j]
    BY StepOperation
<1>3. /\ now.id <= spent.ops /\ now.target \in Targets(now) /\ \A s \in Listed(now) : s <= now.id
      /\ now.id = state[k].id /\ now.source = state[k].source
    BY <1>1, FollowsNumbered DEF Follows
<1>4. /\ NoOp.id = 0 /\ NoOp.target \in Targets(NoOp) /\ Listed(NoOp) = {}
      /\ spent.ops \in Nat
    BY DEF NoOp, Targets, Listed, TypeOK, ToolsOK
<1>5. row'.ref = row.ref \/ (at[k] = "publish" /\ row'.ref = state[k].target /\ at'[k] \notin Working)
    BY StepRef
<1>6. row'.ref <= spent'.ops
    <2>1. at[k] = "publish" => state[k].target = Local \/ state[k].target = state[k].id
        BY DEF Destined
    <2>2. Local <= spent.ops /\ state[k].id <= spent.ops /\ row.ref <= spent.ops
        BY <1>4 DEF Numbered, Local
    <2> QED BY <1>2, <1>5, <2>1, <2>2
<1>7. journal'.id <= spent'.ops /\ journal'.target \in Targets(journal') /\ \A s \in Listed(journal') : s <= journal'.id
    <2>1. CASE UNCHANGED book
        BY <1>2, <2>1 DEF Numbered, Listed, Targets
    <2>2. CASE Wrote(now)
        BY <1>2, <1>3, <2>2 DEF Wrote, Listed, Targets
    <2> QED BY <1>1, <2>1, <2>2 DEF MayHaveWritten
<1>8. ASSUME NEW j \in Coroutines
      PROVE  /\ state'[j].id <= spent'.ops
             /\ state'[j].target \in Targets(state'[j]) /\ \A s \in Listed(state'[j]) : s <= state'[j].id
             /\ at'[j] \in Working => state'[j].source = row'.ref /\ row'.ref < state'[j].id
    <2>1. CASE j = k
        <3>1. CASE state'[k] = NoOp /\ at'[k] = "idle"
            BY <1>2, <1>4, <2>1, <3>1 DEF Working
        <3>2. CASE state'[k] = now
            BY <1>2, <1>3, <1>5, <2>1, <3>2, StepBinding DEF Numbered
        <3> QED BY <1>1, <3>1, <3>2
    <2>2. CASE j # k
        <3>1. at[j] \in Working => row'.ref = row.ref
            BY <1>5, <2>2, OneWorks DEF Working
        <3> QED BY <1>2, <2>2, <3>1 DEF Numbered
    <2> QED BY <2>1, <2>2
<1>9. at'["switch"] # "idle" /\ at'["recovery"] # "idle" => state'["switch"].id < state'["recovery"].id
    <2>1. ASSUME NEW j \in Coroutines, at'[j] # "idle" PROVE at[j] # "idle" /\ state'[j].id = state[j].id
        BY <1>1, <1>2, <1>3, <2>1
    <2> QED BY <2>1 DEF Numbered, Coroutines
<1> QED BY <1>6, <1>7, <1>8, <1>9 DEF Numbered, Targets, Listed

(* What recover() and abandon() make of the record. *)
LEMMA MendFacts ==
    ASSUME TypeOK, NEW now \in {Claimed, Failed(journal), Unknown(journal), journal}
    PROVE  /\ now \in Operations /\ now.id = journal.id /\ now.local = journal.local
           /\ now.target = journal.target \/ (now = Claimed /\ now.target = journal.id)
           /\ Listed(journal) \subseteq Listed(now)
           /\ Listed(now) \subseteq Listed(journal) \cup {now.target}
           /\ now = Claimed => journal.id \in Listed(now)
           /\ now \in {Claimed, Failed(journal)} => now.phase = "failed"
           /\ now = Failed(journal) /\ journal.target \in Sandboxes => journal.target \in Listed(now)
<1> DEFINE claim == [journal EXCEPT !.target = journal.id]
<1>1. /\ journal \in Operations /\ claim \in Operations /\ journal.id \in Sandboxes
      /\ claim.id = journal.id /\ claim.local = journal.local /\ claim.target = journal.id
      /\ Listed(claim) = Listed(journal)
    BY Values DEF TypeOK, DataOK, Operations, Listed
<1> HIDE DEF claim
<1>2. CASE now = Claimed
    <2>1. now = Failed(claim)
        BY <1>2 DEF Claimed, claim
    <2> QED BY <1>1, <1>2, <2>1, FailedFacts
<1>3. CASE now = Failed(journal) /\ now # Claimed
    BY <1>1, <1>3, FailedFacts
<1>4. CASE now = Unknown(journal) /\ now # Claimed /\ now # Failed(journal)
    BY <1>1, <1>4, UnknownFacts
<1>5. CASE now = journal /\ now # Claimed /\ now # Failed(journal)
    BY <1>1, <1>5
<1> QED BY <1>2, <1>3, <1>4, <1>5

LEMMA BeginFacts ==
    ASSUME TypeOK, NEW k \in {"switch", "recovery"}, NEW kind \in {"switch", "recovery"}, NEW local \in BOOLEAN,
           NEW revision \in Nat, Begin(k, kind, local, revision)
    PROVE  /\ spent'.ops = spent.ops + 1 /\ spent.ops \in Nat /\ spent.ops < MaxOps
           /\ state'[k] \in Operations /\ state'[k].id = spent.ops + 1 /\ state'[k].phase = "saving"
           /\ state'[k].target = NoRef /\ state'[k].local = local /\ state'[k].source = row.ref
           /\ state'[k].generation = row.generation /\ state'[k].revision = revision
           /\ state'[k].cleanup = journal.cleanup /\ Listed(state'[k]) = Listed(journal)
           /\ at'[k] = "journal"
           /\ \A j \in Coroutines \ {k} : at'[j] = at[j] /\ state'[j] = state[j]
<1> DEFINE op == [id |-> spent.ops + 1, phase |-> "saving", kind |-> kind, target |-> NoRef, local |-> local,
                  source |-> row.ref, generation |-> row.generation, revision |-> revision,
                  previous |-> ws.pinned, cleanup |-> journal.cleanup]
<1>1. /\ state' = [state EXCEPT ![k] = op] /\ at' = [at EXCEPT ![k] = "journal"]
      /\ spent' = [spent EXCEPT !.ops = @ + 1] /\ spent.ops < MaxOps
    BY DEF Begin
<1>2. spent.ops \in Nat /\ spent'.ops = spent.ops + 1
    BY <1>1 DEF TypeOK, ToolsOK
<1>3. op \in Operations
    BY <1>1, <1>2, Values DEF TypeOK, DataOK, Operations, Phases, ACTIVE_PHASES
<1>4. state'[k] = op /\ at'[k] = "journal" /\ \A j \in Coroutines \ {k} : at'[j] = at[j] /\ state'[j] = state[j]
    BY <1>1 DEF TypeOK, TransitOK, Coroutines
<1> QED BY <1>1, <1>2, <1>3, <1>4 DEF Listed

-----------------------------------------------------------------------------
(* The steps, by what they do to the transitions: nothing, start one, mend    *)
(* one, end them all, or a step of one.                                      *)
Quiet ==
    \/ Checkpoint \/ Retire \/ UNCHANGED vars
    \/ \E r \in Runs : Admit(r) \/ Leave(r) \/ Ensure(r) \/ Write(r) \/ Persist(r)
    \/ \E s \in Sandboxes : Arrive(s) \/ SandboxLost(s)

Replaces(who, local) ==
    /\ row.decision \/ ~Exists(row.ref)
    /\ who \in Runs => pc[who] \in {"leased", "prepared"}
    /\ Recovery(who, local)

LEMMA NextCases ==
    ASSUME [Next]_vars
    PROVE  \/ Quiet \/ Crash \/ Recover \/ Abandon
           \/ \E local \in BOOLEAN : Request(local)
           \/ \E who \in Runs \cup {"user"}, local \in BOOLEAN : Replaces(who, local)
           \/ \E k \in Coroutines : Step(k)
<1>1. ASSUME NEW r \in Runs, EnsureLost(r) PROVE Replaces(r, FALSE)
    BY <1>1 DEF EnsureLost, Replaces
<1>2. ASSUME NEW local \in BOOLEAN, row.decision, Recovery("user", local) PROVE Replaces("user", local)
    BY <1>2, Values DEF Replaces
<1> QED BY <1>1, <1>2 DEF Next, Use, ConfirmProvision, Quiet

LEMMA QuietFrame ==
    ASSUME TypeOK, Quiet
    PROVE  /\ UNCHANGED <<journal, overwritten, switching, state, at, caller>>
           /\ row'.ref = row.ref /\ row'.generation = row.generation /\ spent'.ops = spent.ops
<1>1. UNCHANGED <<journal, overwritten, switching, state, at, caller>>
    BY DEF Quiet, Checkpoint, Retire, RetireCheck, RetireSave, RetireProvider, RetireStatus, Admit, Leave, Ensure,
           Write, Persist, Arrive, SandboxLost, vars
<1>2. row' = row \/ \E s, d : row' \in {[row EXCEPT !.status = s], [row EXCEPT !.status = s, !.decision = d]}
    BY DEF Quiet, Checkpoint, Retire, RetireCheck, RetireSave, RetireProvider, RetireStatus, Admit, Leave, Ensure,
           Write, Persist, Arrive, SandboxLost, vars, Saved, NotSaved
<1>3. spent'.ops = spent.ops
    BY DEF TypeOK, ToolsOK, Quiet, Checkpoint, Retire, RetireCheck, RetireSave, RetireProvider, RetireStatus, Admit,
           Leave, Ensure, Write, Persist, Arrive, SandboxLost, vars, Saved, NotSaved, Fault
<1> QED BY <1>1, <1>2, <1>3 DEF TypeOK, DataOK

LEMMA MendFrame ==
    ASSUME TypeOK, Recover \/ Abandon
    PROVE  /\ UNCHANGED <<durable, switching, caller, tools, retire, last>> /\ spent'.ops = spent.ops
           /\ ~switching /\ at["switch"] = "idle" /\ at["mend"] = "idle" /\ owner = "nobody" /\ owner' = "mend"
           /\ \A j \in Coroutines \ {"mend"} : at'[j] = at[j] /\ state'[j] = state[j]
           /\ at'["mend"] \in {"settle", "forgive"}
           /\ state'["mend"] \in {Claimed, Failed(journal), Unknown(journal), journal}
<1>1. PICK now \in Operations, next \in {"settle", "forgive"} :
          /\ Mend(now, next) /\ (Fault \/ Works)
          /\ now \in {Claimed, Failed(journal), Unknown(journal), journal}
    BY MendOperation
<1>2. spent'.ops = spent.ops
    BY <1>1 DEF Fault, TypeOK, ToolsOK
<1>3. state'["mend"] = now /\ at'["mend"] = next /\ \A j \in Coroutines \ {"mend"} : at'[j] = at[j] /\ state'[j] = state[j]
    BY <1>1 DEF Mend, TypeOK, TransitOK, Coroutines
<1> QED BY <1>1, <1>2, <1>3 DEF Mend

LEMMA DestinedNext == TypeOK /\ Destined /\ [Next]_vars => Destined'
<1> SUFFICES ASSUME TypeOK, Destined, [Next]_vars PROVE Destined'
    OBVIOUS
<1>1. ASSUME NEW k \in Coroutines, Step(k) PROVE Destined'
    BY <1>1, StepDestined
<1>2. CASE Quiet
    BY <1>2, QuietFrame DEF Destined
<1>3. CASE Crash
    BY <1>3 DEF Crash, Destined, Working
<1>4. CASE Recover \/ Abandon
    BY <1>4, MendFrame DEF Destined, Working
<1>0. ASSUME NEW k \in {"switch", "recovery"}, NEW kind \in {"switch", "recovery"}, NEW local \in BOOLEAN,
             NEW revision \in Nat, Begin(k, kind, local, revision)
      PROVE  Destined'
    BY <1>0, BeginFacts DEF Destined, Working, ACTIVE_PHASES
<1>5. ASSUME NEW local \in BOOLEAN, Request(local) PROVE Destined'
    BY <1>0, <1>5 DEF Request
<1>6. ASSUME NEW who \in Runs \cup {"user"}, NEW local \in BOOLEAN, Replaces(who, local) PROVE Destined'
    BY <1>0, <1>6 DEF Replaces, Recovery, TypeOK, DataOK
<1> QED BY <1>1, <1>2, <1>3, <1>4, <1>5, <1>6, NextCases

LEMMA NumberedNext == TypeOK /\ OwnersWork /\ OneTransition /\ Numbered /\ Destined /\ [Next]_vars => Numbered'
<1> SUFFICES ASSUME TypeOK, OwnersWork, OneTransition, Numbered, Destined, [Next]_vars PROVE Numbered'
    OBVIOUS
<1>00. row.ref <= spent.ops /\ spent.ops \in Nat /\ row.ref \in Int
    BY ProjectAssumption DEF ProjectAssumption, Numbered, TypeOK, DataOK, ToolsOK, Refs, Sandboxes, Local
<1>1. ASSUME NEW k \in Coroutines, Step(k) PROVE Numbered'
    BY <1>1, StepNumbered
<1>2. CASE Quiet
    BY <1>2, QuietFrame DEF Numbered, Targets, Listed
<1>3. CASE Crash
    <2>1. /\ state' = [k \in Coroutines |-> NoOp] /\ at' = [k \in Coroutines |-> "idle"]
          /\ UNCHANGED <<row, journal>> /\ spent'.ops = spent.ops
        BY <1>3 DEF Crash, Fault, TypeOK, ToolsOK
    <2>2. NoOp.id <= spent.ops /\ NoOp.target \in Targets(NoOp) /\ Listed(NoOp) = {}
        BY <1>00 DEF NoOp, Targets, Listed
    <2> QED BY <2>1, <2>2 DEF Numbered, Targets, Listed, Coroutines, Working
<1>4. CASE Recover \/ Abandon
    <2> DEFINE now == state'["mend"]
    <2>1. /\ UNCHANGED <<row, journal>> /\ spent'.ops = spent.ops /\ at["switch"] = "idle"
          /\ at'["mend"] \notin Working
          /\ \A j \in Coroutines \ {"mend"} : at'[j] = at[j] /\ state'[j] = state[j]
          /\ now \in {Claimed, Failed(journal), Unknown(journal), journal}
        BY <1>4, MendFrame DEF Working
    <2>2. /\ now.id = journal.id /\ now.target \in {journal.target, journal.id}
          /\ Listed(now) \subseteq Listed(journal) \cup {now.target} /\ now \in Operations
        BY <2>1, MendFacts
    <2>3. now.target \in Targets(now)
        BY <2>2 DEF Numbered, Targets
    <2>4. ASSUME NEW s \in Listed(now) PROVE s <= now.id
        <3>1. s \in Sandboxes /\ now.id \in Nat
            BY <2>2 DEF Operations, Listed
        <3> QED BY <2>2, <2>3, <3>1, Values DEF Numbered, Targets
    <2> HIDE DEF now
    <2>5. now.id <= spent.ops
        BY <2>2 DEF Numbered
    <2>6. ASSUME NEW j \in Coroutines
          PROVE  /\ state'[j].id <= spent'.ops
                 /\ state'[j].target \in Targets(state'[j]) /\ \A s \in Listed(state'[j]) : s <= state'[j].id
                 /\ at'[j] \in Working => state'[j].source = row'.ref /\ row'.ref < state'[j].id
        <3>1. CASE j = "mend"
            BY <2>1, <2>3, <2>4, <2>5, <3>1 DEF now
        <3>2. CASE j # "mend"
            BY <2>1, <3>2 DEF Numbered
        <3> QED BY <3>1, <3>2
    <2>7. at'["switch"] = "idle"
        BY <2>1 DEF Coroutines
    <2> QED BY <2>1, <2>6, <2>7 DEF Numbered, Targets, Listed
<1>0. ASSUME NEW k \in {"switch", "recovery"}, NEW kind \in {"switch", "recovery"}, NEW local \in BOOLEAN,
             NEW revision \in Nat, Begin(k, kind, local, revision), row'.ref = row.ref, UNCHANGED journal,
             k = "switch" => at["recovery"] = "idle"
      PROVE  Numbered'
    <2>1. /\ spent'.ops = spent.ops + 1 /\ state'[k].id = spent.ops + 1 /\ state'[k].source = row.ref
          /\ state'[k].target = NoRef /\ Listed(state'[k]) = Listed(journal)
          /\ \A j \in Coroutines \ {k} : at'[j] = at[j] /\ state'[j] = state[j]
        BY <1>0, BeginFacts
    <2>2. ASSUME NEW j \in Coroutines \ {k} PROVE state[j].id \in Nat /\ state[j].id <= spent.ops
        BY DEF TypeOK, TransitOK, Operations, Numbered
    <2>3. ASSUME NEW s \in Listed(journal) PROVE s \in Nat /\ journal.id \in Nat /\ s <= journal.id /\ journal.id <= spent.ops
        <3>1. s \in Sandboxes /\ journal.id \in Nat
            BY <2>3 DEF TypeOK, DataOK, Operations, Listed
        <3>2. s <= journal.id /\ journal.id <= spent.ops
            BY <2>3 DEF Numbered
        <3> QED BY <3>1, <3>2, Values
    <2>4. journal.id \in Nat
        BY DEF TypeOK, DataOK, Operations
    <2>5. /\ row'.ref <= spent'.ops /\ journal'.id <= spent'.ops /\ journal'.target \in Targets(journal')
          /\ \A s \in Listed(journal)' : s <= journal'.id
        BY <1>0, <1>00, <2>1, <2>3, <2>4 DEF Numbered, Targets, Listed
    <2>6. ASSUME NEW j \in Coroutines
          PROVE  /\ state'[j].id <= spent'.ops
                 /\ state'[j].target \in Targets(state'[j]) /\ \A s \in Listed(state'[j]) : s <= state'[j].id
                 /\ at'[j] \in Working => state'[j].source = row'.ref /\ row'.ref < state'[j].id
        <3>1. CASE j = k
            BY <1>0, <1>00, <2>1, <2>3, <3>1 DEF Targets
        <3>2. CASE j # k
            BY <1>0, <1>00, <2>1, <2>2, <3>2 DEF Numbered
        <3> QED BY <3>1, <3>2
    <2>7. at'["switch"] # "idle" /\ at'["recovery"] # "idle" => state'["switch"].id < state'["recovery"].id
        <3>1. CASE k = "switch"
            BY <1>0, <2>1, <3>1 DEF Coroutines
        <3>2. CASE k = "recovery"
            <4>1. state'["switch"] = state["switch"] /\ state["switch"].id <= spent.ops /\ state["switch"].id \in Nat
                BY <2>1, <2>2, <3>2 DEF Coroutines
            <4> QED BY <1>00, <2>1, <3>2, <4>1
        <3> QED BY <3>1, <3>2
    <2> QED BY <2>5, <2>6, <2>7 DEF Numbered, Targets, Listed
<1>5. ASSUME NEW local \in BOOLEAN, Request(local) PROVE Numbered'
    <2>1. at["recovery"] = "idle"
        BY <1>5, Values DEF Request, OwnersWork, TypeOK, TransitOK
    <2> QED BY <1>0, <1>5, <2>1 DEF Request
<1>6. ASSUME NEW who \in Runs \cup {"user"}, NEW local \in BOOLEAN, Replaces(who, local) PROVE Numbered'
    <2>1. row'.ref = row.ref /\ UNCHANGED journal /\ ws.head \in Nat
        BY <1>6 DEF Replaces, Recovery, TypeOK, DataOK
    <2> QED BY <1>0, <1>6, <2>1 DEF Replaces, Recovery
<1> QED BY <1>1, <1>2, <1>3, <1>4, <1>5, <1>6, NextCases

-----------------------------------------------------------------------------
(* What a step of a transition does to an environment.                       *)
Touched(k, s) ==
    \/ at[k] = "allocate" /\ s = state[k].id
    \/ at[k] = "restore" /\ s = state[k].target /\ Exists(s) /\ boxes'[s].state = boxes[s].state
    \/ /\ at[k] \in {"cleanup", "sweep"} /\ s \in Listed(state[k]) /\ ~Owned(s)
       /\ boxes'[s].files = boxes[s].files
       /\ boxes'[s].state = "gone" \/ (Exists(s) /\ boxes'[s].state = "stopped")

LEMMA StepBoxes ==
    ASSUME TypeOK, NEW k \in Coroutines, Step(k), NEW s \in Refs
    PROVE  boxes'[s] = boxes[s] \/ Touched(k, s)
<1> USE DEF TypeOK, DataOK
<1>0. ASSUME UNCHANGED boxes PROVE boxes'[s] = boxes[s]
    BY <1>0
<1>1. CASE Journal(k)
    BY <1>0, <1>1 DEF Journal
<1>2. CASE Start(k)
    BY <1>0, <1>2 DEF Start
<1>3. CASE Pin(k)
    BY <1>0, <1>3 DEF Pin
<1>4. CASE Provisioning(k)
    BY <1>0, <1>4 DEF Provisioning
<1>5. CASE Allocate(k)
    <2>1. \/ boxes' = [boxes EXCEPT ![state[k].id] = [state |-> "up", files |-> 0]]
          \/ \E found \in {"none", "coming", "up"} : boxes' = [boxes EXCEPT ![state[k].id].state = found]
          \/ boxes' = boxes
        BY <1>5 DEF Allocate
    <2> QED BY <1>5, <2>1 DEF Allocate, Touched
<1>6. CASE Remember(k)
    BY <1>0, <1>6 DEF Remember
<1>7. CASE Restoring(k)
    BY <1>0, <1>7 DEF Restoring
<1>8. CASE Restore(k)
    <2>1. \/ boxes' = boxes
          \/ /\ Exists(state[k].target)
             /\ \E f \in {0, state[k].revision} : boxes' = [boxes EXCEPT ![state[k].target].files = f]
        BY <1>8 DEF Restore
    <2> QED BY <1>8, <2>1 DEF Restore, Touched
<1>9. CASE Verifying(k)
    BY <1>0, <1>9 DEF Verifying
<1>10. CASE Verify(k)
    BY <1>0, <1>10 DEF Verify
<1>11. CASE Activating(k)
    BY <1>0, <1>11 DEF Activating
<1>12. CASE Publish(k)
    BY <1>0, <1>12 DEF Publish
<1>13. CASE Unpin(k)
    BY <1>0, <1>13 DEF Unpin
<1>14. CASE Cleanup(k)
    <2>1. PICK failing \in SUBSET {item \in state[k].cleanup : ~Owned(item.ref)} :
            LET done == {item \in state[k].cleanup \ failing : ~Owned(item.ref)}
                Ending(ref) == IF [ref |-> ref, action |-> "delete"] \in done THEN "gone"
                               ELSE IF \E item \in done : item.ref = ref /\ Exists(ref) THEN "stopped"
                               ELSE boxes[ref].state
            IN  boxes' = [ref \in Refs |-> [boxes[ref] EXCEPT !.state = Ending(ref)]]
        BY <1>14 DEF Cleanup
    <2> DEFINE done == {item \in state[k].cleanup \ failing : ~Owned(item.ref)}
    <2>2. CASE [ref |-> s, action |-> "delete"] \in done
        <3>1. boxes'[s] = [boxes[s] EXCEPT !.state = "gone"]
            BY <2>1, <2>2
        <3>2. s \in Listed(state[k]) /\ ~Owned(s)
            BY <2>2 DEF Listed
        <3> QED BY <1>14, <3>1, <3>2 DEF Cleanup, Touched
    <2>3. CASE [ref |-> s, action |-> "delete"] \notin done /\ \E item \in done : item.ref = s /\ Exists(s)
        <3>1. boxes'[s] = [boxes[s] EXCEPT !.state = "stopped"]
            BY <2>1, <2>3
        <3>2. s \in Listed(state[k]) /\ ~Owned(s) /\ Exists(s)
            BY <2>3 DEF Listed
        <3> QED BY <1>14, <3>1, <3>2 DEF Cleanup, Touched
    <2>4. CASE [ref |-> s, action |-> "delete"] \notin done /\ ~\E item \in done : item.ref = s /\ Exists(s)
        <3>1. boxes'[s] = [boxes[s] EXCEPT !.state = boxes[s].state]
            BY <2>1, <2>4
        <3> QED BY <3>1
    <2> QED BY <2>2, <2>3, <2>4
<1>15. CASE Record(k)
    BY <1>0, <1>15 DEF Record
<1>16. CASE Handler(k)
    BY <1>0, <1>16 DEF Handler
<1>17. CASE Activated(k)
    BY <1>0, <1>17 DEF Activated
<1>18. CASE Settle(k)
    BY <1>0, <1>18 DEF Settle
<1>19. CASE Forgive(k)
    BY <1>0, <1>19 DEF Forgive
<1>20. CASE Swept(k)
    BY <1>0, <1>20 DEF Swept
<1> QED BY <1>1, <1>2, <1>3, <1>4, <1>5, <1>6, <1>7, <1>8, <1>9, <1>10, <1>11, <1>12, <1>13, <1>14, <1>15, <1>16, <1>17, <1>18, <1>19, <1>20 DEF Step

LEMMA SavedFacts ==
    ASSUME TypeOK
    PROVE  /\ Saved => /\ Exists(row.ref) /\ ws'.head = boxes[row.ref].files
                       /\ ws'.head \in stored' /\ stored' \subseteq stored \cup {ws'.head}
                       /\ UNCHANGED row
           /\ NotSaved => /\ ws'.head = ws.head /\ stored' = stored
                          /\ row' = row \/ (~Exists(row.ref) /\ row'.decision /\ row'.status = "unavailable")
                          /\ row'.ref = row.ref /\ row'.generation = row.generation
<1> USE DEF TypeOK, DataOK
<1>1. ASSUME Saved PROVE /\ Exists(row.ref) /\ ws'.head = boxes[row.ref].files /\ UNCHANGED row
                         /\ ws'.head \in stored' /\ stored' \subseteq stored \cup {ws'.head}
    <2>1. ws' = [ws EXCEPT !.head = boxes[row.ref].files, !.persistence = "clean"]
        BY <1>1 DEF Saved, Saving
    <2> DEFINE f == boxes[row.ref].files
    <2>2. ws'.head = f
        BY <2>1
    <2>3. stored' = stored \cup {f} \/ stored' = (stored \cup {f}) \cap {f, ws.head, ws.pinned}
        BY <1>1 DEF Saved, Saving
    <2> HIDE DEF f
    <2>4. f \in stored' /\ stored' \subseteq stored \cup {f}
        BY <2>3
    <2> QED BY <1>1, <2>2, <2>4 DEF f, Saved
<1>2. ASSUME NotSaved PROVE /\ ws'.head = ws.head /\ stored' = stored
                            /\ row' = row \/ (~Exists(row.ref) /\ row'.decision /\ row'.status = "unavailable")
                            /\ row'.ref = row.ref /\ row'.generation = row.generation
    BY <1>2 DEF NotSaved, SavingFails
<1> QED BY <1>1, <1>2

(* The head moves with a switch that saves what it finds; a publication to   *)
(* the local directory names the revision that was restored there.           *)
LEMMA StepHead ==
    ASSUME TypeOK, NEW k \in Coroutines, Step(k)
    PROVE  \/ /\ ws'.head = ws.head /\ stored' = stored
              /\ at[k] = "start" /\ k = "switch" => at'[k] \notin Working
           \/ /\ at[k] = "start" /\ k = "switch" /\ at'[k] = "pin" /\ owner = "nobody"
              /\ Exists(row.ref) /\ ws'.head = boxes[row.ref].files /\ state'[k].revision = ws'.head
              /\ ws'.head \in stored' /\ stored' \subseteq stored \cup {ws'.head}
           \/ at[k] = "publish" /\ ws'.head = state[k].revision /\ stored' = stored
<1>0. ws \in [head : Nat, pinned : Nat, persistence : {"clean", "dirty", "error"}] /\ state[k] \in Operations
    BY DEF TypeOK, DataOK, TransitOK
<1>1. CASE Journal(k)
    BY <1>0, <1>1 DEF Journal
<1>2. CASE Start(k)
    <2>1. at[k] = "start"
        BY <1>2 DEF Start
    <2>2. ASSUME Saved, k = "switch", owner = "nobody",
                 state' = [state EXCEPT ![k].revision = boxes[row.ref].files], Goto(k, "pin")
          PROVE  /\ at'[k] = "pin" /\ state'[k].revision = ws'.head
                 /\ Exists(row.ref) /\ ws'.head = boxes[row.ref].files
                 /\ ws'.head \in stored' /\ stored' \subseteq stored \cup {ws'.head}
        <3>1. state'[k].revision = boxes[row.ref].files /\ at'[k] = "pin"
            BY <1>0, <2>2 DEF TypeOK, TransitOK, Operations
        <3> QED BY <2>2, <3>1, SavedFacts
    <2>3. ASSUME NotSaved \/ UNCHANGED <<ws, stored>> PROVE ws'.head = ws.head /\ stored' = stored
        BY <2>3, SavedFacts
    <2>4. \/ Saved /\ k = "switch" /\ owner = "nobody" /\ Goto(k, "pin")
             /\ state' = [state EXCEPT ![k].revision = boxes[row.ref].files]
          \/ (NotSaved \/ UNCHANGED <<ws, stored>>) /\ Raise(k)
          \/ k = "recovery" /\ UNCHANGED <<ws, stored>>
        BY <1>2 DEF Start
    <2>5. Raise(k) => at'[k] \notin Working
        BY DEF TypeOK, TransitOK, Working
    <2> QED BY <2>1, <2>2, <2>3, <2>4, <2>5
<1>3. CASE Pin(k)
    BY <1>0, <1>3 DEF Pin
<1>4. CASE Provisioning(k)
    BY <1>0, <1>4 DEF Provisioning, Recorded
<1>5. CASE Allocate(k)
    BY <1>0, <1>5 DEF Allocate
<1>6. CASE Remember(k)
    BY <1>0, <1>6 DEF Remember, Recorded
<1>7. CASE Restoring(k)
    BY <1>0, <1>7 DEF Restoring, Recorded
<1>8. CASE Restore(k)
    BY <1>0, <1>8 DEF Restore
<1>9. CASE Verifying(k)
    BY <1>0, <1>9 DEF Verifying, Recorded
<1>10. CASE Verify(k)
    BY <1>0, <1>10 DEF Verify
<1>11. CASE Activating(k)
    BY <1>0, <1>11 DEF Activating, Recorded
<1>12. CASE Publish(k)
    <2> DEFINE now == [state[k] EXCEPT !.phase = "completed",
                    !.cleanup = @ \cup IF state[k].source # Local /\ state[k].kind = "switch"
                                       THEN {[ref |-> state[k].source, action |-> "retire"]} ELSE {}]
    <2>1. ws' = ws \/ ws' = [ws EXCEPT !.persistence = "clean", !.head = IF now.local THEN now.revision ELSE @]
        BY <1>12 DEF Publish
    <2>2. now.revision = state[k].revision
        BY <1>0 DEF Operations
    <2> HIDE DEF now
    <2> QED BY <1>0, <1>12, <2>1, <2>2 DEF Publish
<1>13. CASE Unpin(k)
    BY <1>0, <1>13 DEF Unpin, Unpinned
<1>14. CASE Cleanup(k)
    BY <1>0, <1>14 DEF Cleanup
<1>15. CASE Record(k)
    BY <1>0, <1>15 DEF Record
<1>16. CASE Handler(k)
    BY <1>0, <1>16 DEF Handler
<1>17. CASE Activated(k)
    BY <1>0, <1>17 DEF Activated
<1>18. CASE Settle(k)
    BY <1>0, <1>18 DEF Settle
<1>19. CASE Forgive(k)
    BY <1>0, <1>19 DEF Forgive, Unpinned
<1>20. CASE Swept(k)
    BY <1>0, <1>20 DEF Swept
<1> QED BY <1>1, <1>2, <1>3, <1>4, <1>5, <1>6, <1>7, <1>8, <1>9, <1>10, <1>11, <1>12, <1>13, <1>14, <1>15, <1>16, <1>17, <1>18, <1>19, <1>20 DEF Step

(* The holder of the lock for a recovery is handed the binding in the end.   *)
LEMMA StepContext ==
    ASSUME TypeOK, NEW k \in Coroutines, Step(k), NEW r \in Runs
    PROVE  \/ context'[r] = context[r] /\ pc'[r] = pc[r]
           \/ /\ k = "recovery" /\ caller = r /\ at'[k] = "idle" /\ pc'[r] \in {"leased", "prepared"}
              /\ \/ context'[r] = NoContext
                 \/ context'[r].ref = row.ref /\ context'[r].generation = row.generation
<1> USE DEF TypeOK, ToolsOK
<1>1. CASE UNCHANGED <<pc, context>>
    BY <1>1
<1>2. ASSUME NEW b, End(k, b) PROVE \/ context'[r] = context[r] /\ pc'[r] = pc[r]
           \/ /\ k = "recovery" /\ caller = r /\ at'[k] = "idle" /\ pc'[r] \in {"leased", "prepared"}
              /\ \/ context'[r] = NoContext
                 \/ context'[r].ref = row.ref /\ context'[r].generation = row.generation
    BY <1>2 DEF End, Prepared, TransitOK
<1>3. UNCHANGED <<pc, context>> \/ \E b : End(k, b)
    BY DEF Step, Journal, Start, Pin, Provisioning, Allocate, Remember, Restoring, Restore, Verifying, Verify, Activating, Publish, Unpin, Cleanup, Record, Handler, Activated, Settle, Forgive, Swept, Recorded
<1> QED BY <1>1, <1>2, <1>3

-----------------------------------------------------------------------------
(* The way to a new environment: it is allocated, restored and verified.     *)
LEMMA StepForward ==
    ASSUME TypeOK, Destined, NEW k \in Coroutines, Step(k)
    PROVE  /\ at'[k] = "start" => at[k] = "journal"
           /\ at'[k] \notin {"journal", "pin"} \/ at[k] = "start"
           /\ at'[k] = "remember" => at[k] = "allocate" /\ boxes'[state[k].id].state = "up" /\ state'[k].target = state[k].id
           /\ at'[k] = "restoring" => at[k] \in {"provisioning", "remember"}
           /\ at'[k] = "restore" => at[k] = "restoring"
           /\ at'[k] = "verifying" => at[k] = "restore" /\ boxes'[state[k].target].files = state[k].revision
           /\ at'[k] \in {"verify", "activating", "publish"} => at[k] \in {"verifying", "verify", "activating"}
           /\ at'[k] \in {"restore", "verifying", "verify", "activating", "publish"} => owner' = owner
<1>0. /\ at \in [Coroutines -> {"idle"} \cup Working \cup Late \cup Handling \cup Settling]
      /\ state[k] \in Operations
    BY DEF TypeOK, TransitOK
<1> DEFINE Forward ==
    /\ at'[k] = "start" => at[k] = "journal"
    /\ at'[k] \notin {"journal", "pin"} \/ at[k] = "start"
    /\ at'[k] = "remember" => at[k] = "allocate" /\ boxes'[state[k].id].state = "up" /\ state'[k].target = state[k].id
    /\ at'[k] = "restoring" => at[k] \in {"provisioning", "remember"}
    /\ at'[k] = "restore" => at[k] = "restoring"
    /\ at'[k] = "verifying" => at[k] = "restore" /\ boxes'[state[k].target].files = state[k].revision
    /\ at'[k] \in {"verify", "activating", "publish"} => at[k] \in {"verifying", "verify", "activating"}
    /\ at'[k] \in {"restore", "verifying", "verify", "activating", "publish"} => owner' = owner
<1>1. CASE Journal(k)
    BY <1>0, <1>1 DEF Journal, End
<1>2. CASE Start(k)
    BY <1>0, <1>2 DEF Start
<1>3. CASE Pin(k)
    BY <1>0, <1>3 DEF Pin
<1>4. CASE Provisioning(k)
    BY <1>0, <1>4 DEF Provisioning, Recorded
<1>5. CASE Allocate(k)
    <2>1. boxes \in [Refs -> [state : {"none", "coming", "up", "stopped", "gone"}, files : Nat]]
          /\ state \in [Coroutines -> Operations] /\ state[k].id \in Refs
        BY <1>0, Values DEF TypeOK, DataOK, TransitOK, Operations
    <2>2. CASE /\ boxes' = [boxes EXCEPT ![state[k].id] = [state |-> "up", files |-> 0]]
               /\ state' = [state EXCEPT ![k].target = state[k].id] /\ at' = [at EXCEPT ![k] = "remember"]
        <3>1. boxes'[state[k].id].state = "up" /\ state'[k].target = state[k].id
            BY <2>1, <2>2 DEF Operations
        <3> QED BY <1>0, <1>5, <2>2, <3>1 DEF Allocate
    <2>3. CASE at' \in {[at EXCEPT ![k] = "uncertain"], [at EXCEPT ![k] = "handler"]}
        BY <1>0, <2>3
    <2> QED BY <1>5, <2>2, <2>3 DEF Allocate
<1>6. CASE Remember(k)
    BY <1>0, <1>6 DEF Remember, Recorded
<1>7. CASE Restoring(k)
    BY <1>0, <1>7 DEF Restoring, Recorded
<1>8. CASE Restore(k)
    <2>1. boxes \in [Refs -> [state : {"none", "coming", "up", "stopped", "gone"}, files : Nat]]
          /\ state \in [Coroutines -> Operations] /\ state[k].id \in Refs
        BY <1>0, Values DEF TypeOK, DataOK, TransitOK, Operations
    <2>2. CASE /\ Exists(state[k].target) /\ state[k].revision \in stored
               /\ boxes' = [boxes EXCEPT ![state[k].target].files = state[k].revision]
               /\ at' = [at EXCEPT ![k] = "verifying"] /\ owner' = owner
        <3>1. state[k].target \in Refs => boxes'[state[k].target].files = state[k].revision
            BY <2>1, <2>2
        <3>2. state[k].target # NoRef
            BY <1>8, Values DEF Destined, Restore, TypeOK, TransitOK, Operations
        <3> QED BY <1>0, <1>8, <2>2, <3>1, <3>2 DEF Restore, Operations
    <2>3. CASE at' = [at EXCEPT ![k] = "handler"]
        BY <1>0, <2>3
    <2> QED BY <1>8, <2>2, <2>3 DEF Restore
<1>9. CASE Verifying(k)
    BY <1>0, <1>9 DEF Verifying, Recorded
<1>10. CASE Verify(k)
    BY <1>0, <1>10 DEF Verify
<1>11. CASE Activating(k)
    BY <1>0, <1>11 DEF Activating, Recorded
<1>12. CASE Publish(k)
    BY <1>0, <1>12 DEF Publish
<1>13. CASE Unpin(k)
    BY <1>0, <1>13 DEF Unpin
<1>14. CASE Cleanup(k)
    BY <1>0, <1>14 DEF Cleanup
<1>15. CASE Record(k)
    BY <1>0, <1>15 DEF Record, End
<1>16. CASE Handler(k)
    BY <1>0, <1>16 DEF Handler, End
<1>17. CASE Activated(k)
    BY <1>0, <1>17 DEF Activated
<1>18. CASE Settle(k)
    BY <1>0, <1>18 DEF Settle, End
<1>19. CASE Forgive(k)
    BY <1>0, <1>19 DEF Forgive, End
<1>20. CASE Swept(k)
    BY <1>0, <1>20 DEF Swept, End
<1> QED BY <1>1, <1>2, <1>3, <1>4, <1>5, <1>6, <1>7, <1>8, <1>9, <1>10, <1>11, <1>12, <1>13, <1>14, <1>15, <1>16, <1>17, <1>18, <1>19, <1>20 DEF Step

-----------------------------------------------------------------------------
(* The environment in service, its head and those who use it.                *)
Service == Pinned /\ RevisionsKept /\ InService /\ InContext /\ Retiring
Known   == TypeOK /\ OwnersWork /\ OneTransition /\ Numbered /\ Destined

LEMMA ServedBox ==
    ASSUME Known, Service, NEW k \in Coroutines, Step(k)
    PROVE  /\ boxes'[row.ref].files = boxes[row.ref].files
           /\ \/ boxes'[row.ref].state = boxes[row.ref].state
              \/ ~Exists(row.ref) /\ boxes'[row.ref].state = "gone"
           /\ boxes'[Local].state = boxes[Local].state
<1>1. row.ref \in Refs /\ state[k] \in Operations /\ state[k].id \in Sandboxes
    BY Values DEF Known, TypeOK, DataOK, TransitOK, Operations
<1>2. boxes'[row.ref] = boxes[row.ref] \/ Touched(k, row.ref)
    BY <1>1, StepBoxes DEF Known
<1>3. boxes'[Local] = boxes[Local] \/ Touched(k, Local)
    BY Values, StepBoxes DEF Known
<1>4. at[k] \in {"allocate", "restore"} => row.ref < state[k].id /\ row.ref # state[k].id
    <2>1. row.ref \in Int /\ state[k].id \in Int
        BY <1>1, ProjectAssumption DEF Refs, Sandboxes, Local, ProjectAssumption
    <2> QED BY <2>1 DEF Known, Numbered, Working
<1>5. at[k] = "restore" => row.ref # state[k].target
    BY <1>4 DEF Known, Service, Destined, Pinned, Working
<1>6. ~Owned(row.ref) => ~Exists(row.ref)
    BY DEF Owned, Service, InService
<1>7. Local \notin Listed(state[k]) /\ Local # state[k].id
    BY <1>1, Values DEF Operations, Listed
<1> QED BY <1>2, <1>3, <1>4, <1>5, <1>6, <1>7 DEF Touched, Exists

LEMMA StepJournal ==
    ASSUME TypeOK, NEW k \in Coroutines, Step(k), at[k] = "journal"
    PROVE  at'[k] \in {"start", "idle"}
<1>1. Journal(k)
    BY DEF Step, Start, Pin, Provisioning, Allocate, Remember, Restoring, Restore, Verifying, Verify, Activating,
           Publish, Unpin, Cleanup, Record, Handler, Activated, Settle, Forgive, Swept
<1> QED BY <1>1 DEF Journal, End, TypeOK, TransitOK

LEMMA StepPublish ==
    ASSUME TypeOK, NEW k \in Coroutines, Step(k), at[k] = "publish"
    PROVE  at'[k] \in {"unpin", "handler"}
<1>1. Publish(k)
    BY DEF Step, Journal, Start, Pin, Provisioning, Allocate, Remember, Restoring, Restore, Verifying, Verify,
           Activating, Unpin, Cleanup, Record, Handler, Activated, Settle, Forgive, Swept
<1> QED BY <1>1 DEF Publish, TypeOK, TransitOK

LEMMA StepPinned ==
    ASSUME Known, Service, NEW k \in Coroutines, Step(k)
    PROVE  Pinned' /\ RevisionsKept'
<1>0. TypeOK /\ OwnersWork /\ OneTransition
    BY DEF Known
<1>1. PICK now : /\ Follows(k, now)
                 /\ \/ state'[k] = now /\ at'[k] # "idle"
                    \/ state'[k] = NoOp /\ at'[k] = "idle"
    BY <1>0, StepOperation
<1>2. \A j \in Coroutines \ {k} : at'[j] = at[j] /\ state'[j] = state[j]
    BY <1>0, StepOperation
<1>3. boxes[row.ref].files # 0
    BY DEF Service, InService
<1>4. at[k] = "publish" => state[k].revision = ws.head /\ ws.head # 0
    BY DEF Service, Pinned, Working
<1>5. 0 \notin stored' /\ RevisionsKept'
    BY <1>0, <1>3, <1>4, StepHead DEF Service, Pinned, RevisionsKept
<1>6. \/ ws'.head = ws.head /\ (at[k] = "start" /\ k = "switch" => at'[k] \notin Working)
      \/ /\ at[k] = "start" /\ k = "switch" /\ at'[k] = "pin"
         /\ ws'.head # 0 /\ state'[k].revision = ws'.head
    BY <1>0, <1>3, <1>4, StepHead
<1>7. ASSUME NEW j \in Coroutines, at'[j] \in Working
      PROVE  /\ at'[j] \notin {"journal", "start"} \/ j = "recovery" =>
                    state'[j].revision = ws'.head /\ ws'.head # 0
             /\ state'[j].local => row'.ref # Local
    <2>1. CASE j = k
        <3>1. at[k] \in Working \ {"publish"} /\ row'.ref = row.ref
            BY <1>0, <1>7, <2>1, StepBinding, StepRef
        <3>2. state'[k] = now /\ now.local = state[k].local
            BY <1>1, <1>7, <2>1 DEF Working, Follows
        <3>3. state'[k].local => row'.ref # Local
            BY <3>1, <3>2 DEF Service, Pinned
        <3>4. ASSUME at'[k] \notin {"journal", "start"} \/ k = "recovery"
              PROVE  state'[k].revision = ws'.head /\ ws'.head # 0
            <4>1. CASE at[k] = "start" /\ k = "switch"
                BY <1>6, <1>7, <2>1, <4>1
            <4>2. CASE ~(at[k] = "start" /\ k = "switch")
                <5>1. at[k] \notin {"journal", "start"} \/ k = "recovery"
                    <6>1. k \in {"switch", "recovery"}
                        BY <1>0, <3>1 DEF OwnersWork, Working, Settling, Coroutines
                    <6>2. at[k] = "journal" => at'[k] \in {"start", "idle"}
                        BY <1>0, StepJournal
                    <6> QED BY <1>7, <2>1, <3>4, <4>2, <6>1, <6>2 DEF Working
                <5>2. state[k].revision = ws.head /\ ws.head # 0
                    BY <3>1, <5>1 DEF Service, Pinned
                <5>3. now.revision = state[k].revision
                    BY <1>1, <4>2 DEF Follows
                <5> QED BY <1>6, <3>2, <4>2, <5>2, <5>3
            <4> QED BY <4>1, <4>2
        <3> QED BY <2>1, <3>3, <3>4
    <2>2. CASE j # k
        <3>1. at'[j] = at[j] /\ state'[j] = state[j] /\ at[k] \notin Working
            BY <1>0, <1>2, <1>7, <2>2, OneWorks
        <3>2. ws'.head = ws.head /\ row'.ref = row.ref
            BY <1>0, <1>6, <3>1, StepRef DEF Working
        <3> QED BY <1>7, <3>1, <3>2 DEF Service, Pinned
    <2> QED BY <2>1, <2>2
<1> QED BY <1>5, <1>7 DEF Pinned

LEMMA StepInService ==
    ASSUME Known, Service, NEW k \in Coroutines, Step(k)
    PROVE  InService'
<1>0. TypeOK /\ OwnersWork /\ OneTransition /\ Destined /\ InService /\ Pinned
    BY DEF Known, Service
<1>1. PICK now : /\ Follows(k, now)
                 /\ \/ state'[k] = now /\ at'[k] # "idle"
                    \/ state'[k] = NoOp /\ at'[k] = "idle"
    BY <1>0, StepOperation
<1>2. \A j \in Coroutines \ {k} : at'[j] = at[j] /\ state'[j] = state[j]
    BY <1>0, StepOperation
<1>3. ASSUME NEW j \in Coroutines, j # k, at[j] \in Working PROVE at[k] \notin Working
    BY <1>0, <1>3, OneWorks
<1>4. ASSUME NEW j \in Coroutines, at[j] \in Working
      PROVE  state[j].target \in Refs \cup {NoRef} /\ (state[j].local => row.ref # Local)
    BY <1>0, <1>4 DEF Pinned, TypeOK, TransitOK, Operations
(* A box that is the target of somebody else keeps what it is for. *)
<1>5. ASSUME NEW j \in Coroutines, j # k, at[j] \in Working, state[j].target \in Refs
      PROVE  LET s == state[j].target
             IN  /\ boxes'[s].files = boxes[s].files
                 /\ boxes[s].state \notin {"none", "coming"} => boxes'[s].state \notin {"none", "coming"}
    BY <1>0, <1>3, <1>5, StepBoxes DEF Touched, Working
<1>6. ASSUME NEW j \in Coroutines
      PROVE  /\ at'[j] \in {"remember", "restoring", "restore", "verifying", "verify", "activating", "publish"}
                /\ state'[j].target # NoRef => boxes'[state'[j].target].state \notin {"none", "coming"}
             /\ at'[j] \in {"verifying", "verify", "activating", "publish"} =>
                   boxes'[state'[j].target].files = state'[j].revision
    <2>1. CASE j # k
        <3>1. at'[j] = at[j] /\ state'[j] = state[j]
            BY <1>2, <2>1
        <3>2. CASE at[j] \notin Working \/ state[j].target = NoRef
            <4>1. at[j] \in {"verifying", "verify", "activating", "publish"} => state[j].target \in Refs
                BY <1>0, Values DEF Destined, TypeOK, TransitOK, Operations
            <4> QED BY <3>1, <3>2, <4>1, Values DEF Working
        <3>3. CASE at[j] \in Working /\ state[j].target # NoRef
            <4>1. state[j].target \in Refs
                BY <1>4, <3>3
            <4> QED BY <1>0, <1>5, <2>1, <3>1, <3>3, <4>1 DEF InService
        <3> QED BY <3>2, <3>3
    <2>2. CASE j = k
        <3>1. boxes[Local].state = "up" /\ boxes'[Local].state = "up"
            BY <1>0, ServedBox DEF InService
        <3>2. ASSUME at'[k] # "idle"
              PROVE  state'[k] = now /\ now.target \in Refs \cup {NoRef}
                     /\ now.id = state[k].id /\ now.local = state[k].local
            BY <1>1, <3>2 DEF Follows, Operations
        <3>3. CASE at'[k] = "remember"
            BY <1>0, <2>2, <3>3, StepForward
        <3>4. CASE at'[k] = "restoring"
            <4>1. CASE at[k] = "provisioning"
                BY <1>0, <1>1, <2>2, <3>2, <3>4, <4>1 DEF Follows, Destined
            <4>2. CASE at[k] = "remember"
                <5>1. now.target = state[k].target /\ now.target \in Refs
                    BY <1>0, <1>1, <4>2, Values DEF Follows, Destined, TypeOK, TransitOK, Operations
                <5>2. boxes[now.target].state \notin {"none", "coming"}
                    BY <1>0, <4>2, <5>1, Values DEF InService
                <5>3. boxes'[now.target] = boxes[now.target]
                    BY <1>0, <4>2, <5>1, StepBoxes DEF Touched
                <5> QED BY <2>2, <3>2, <3>4, <5>2, <5>3
            <4> QED BY <1>0, <3>4, <4>1, <4>2, StepForward
        <3>5. CASE at'[k] = "restore"
            <4>1. at[k] = "restoring"
                BY <1>0, <3>5, StepForward
            <4>2. CASE now.target = Local
                BY <2>2, <3>1, <3>2, <3>5, <4>2
            <4>3. CASE now.target # Local
                <5>1. now.target = state[k].target
                    BY <1>1, <4>1, <4>3 DEF Follows
                <5>2. now.target # NoRef => now.target \in Refs /\ boxes'[now.target] = boxes[now.target]
                    BY <1>0, <3>2, <3>5, <4>1, <5>1, StepBoxes DEF Touched
                <5> QED BY <1>0, <2>2, <3>2, <3>5, <4>1, <5>1, <5>2 DEF InService
            <4> QED BY <4>2, <4>3
        <3>6. CASE at'[k] \in {"verifying", "verify", "activating", "publish"}
            <4>1. at[k] \in {"restore", "verifying", "verify", "activating"}
                BY <1>0, <3>6, StepForward
            <4>2. now.target = state[k].target /\ now.revision = state[k].revision /\ now.target \in Refs
                BY <1>0, <1>1, <4>1, Values DEF Follows, Destined, TypeOK, TransitOK, Operations
            <4>3. boxes[now.target].state \notin {"none", "coming"}
                BY <1>0, <4>1, <4>2, Values DEF InService
            <4>4. boxes'[now.target].state = boxes[now.target].state
                BY <1>0, <4>1, <4>2, StepBoxes DEF Touched
            <4>5. boxes'[now.target].files = now.revision
                <5>1. CASE at'[k] = "verifying"
                    BY <1>0, <4>2, <5>1, StepForward
                <5>2. CASE at'[k] # "verifying"
                    <6>1. at[k] \in {"verifying", "verify", "activating"}
                        BY <1>0, <3>6, <5>2, StepForward
                    <6>2. boxes'[now.target] = boxes[now.target]
                        BY <1>0, <4>2, <6>1, StepBoxes DEF Touched
                    <6> QED BY <1>0, <4>2, <6>1, <6>2 DEF InService
                <5> QED BY <5>1, <5>2
            <4> QED BY <2>2, <3>2, <3>6, <4>3, <4>4, <4>5
        <3>7. CASE at'[k] \notin {"remember", "restoring", "restore", "verifying", "verify", "activating", "publish"}
            BY <2>2, <3>7
        <3> QED BY <3>3, <3>4, <3>5, <3>6, <3>7
    <2> QED BY <2>1, <2>2
<1>7. CASE /\ row'.ref = row.ref /\ row'.generation = row.generation
           /\ row' = row \/ (row'.decision /\ row'.status = "unavailable" /\ ~Exists(row.ref))
    <2>1. boxes'[row.ref].files # 0 /\ boxes'[row.ref].state \notin {"none", "coming"} /\ boxes'[Local].state = "up"
        BY <1>0, ServedBox DEF InService
    <2>2. row'.decision \/ row'.status = "destroyed" => ~Exists(row.ref)'
        BY <1>0, <1>7, ServedBox DEF InService, Exists
    <2>3. at'["recovery"] \in Working => row'.decision
        BY <1>0, <1>2, <1>7, StepBinding DEF InService, Coroutines
    <2>4. at'["switch"] \in Working \ {"journal", "start"} => boxes'[row.ref].files = ws'.head
        <3>1. CASE k = "switch"
            <4>1. CASE at[k] = "start"
                BY <1>0, <3>1, <4>1, StepHead, ServedBox
            <4>2. CASE at[k] # "start"
                <5>1. at'[k] \in Working => at[k] \in Working \ {"publish"}
                    BY <1>0, StepBinding
                <5>2. at[k] = "journal" => at'[k] \in {"start", "idle"}
                    BY <1>0, StepJournal
                <5>3. at[k] # "publish" => ws'.head = ws.head
                    BY <1>0, <4>2, StepHead
                <5> QED BY <1>0, <3>1, <4>2, <5>1, <5>2, <5>3, ServedBox DEF InService, Working
            <4> QED BY <4>1, <4>2
        <3>2. CASE k # "switch"
            <4>1. at'["switch"] = at["switch"]
                BY <1>2, <3>2 DEF Coroutines
            <4>2. at["switch"] \in Working => at[k] \notin Working
                BY <1>3, <3>2 DEF Coroutines
            <4>3. at[k] \notin Working => ws'.head = ws.head
                BY <1>0, StepHead DEF Working
            <4> QED BY <1>0, <4>1, <4>2, <4>3, ServedBox DEF InService
        <3> QED BY <3>1, <3>2
    <2>5. ASSUME NEW j \in Coroutines, at'[j] \in Working PROVE state'[j].generation = row'.generation
        <3>1. CASE j = k
            BY <1>0, <1>1, <1>7, <2>5, <3>1, StepBinding DEF InService, Follows, Working
        <3>2. CASE j # k
            BY <1>0, <1>2, <1>7, <2>5, <3>2 DEF InService
        <3> QED BY <3>1, <3>2
    <2> QED BY <1>6, <1>7, <2>1, <2>2, <2>3, <2>4, <2>5 DEF InService
<1>8. CASE /\ at[k] = "publish" /\ at'[k] \notin Working /\ row.generation = state[k].generation
           /\ row'.ref = state[k].target /\ row'.generation = row.generation + 1
           /\ row'.status = "ready" /\ ~row'.decision
    <2>1. boxes'[Local].state = "up"
        BY <1>0, ServedBox DEF InService
    <2>2. state[k].target \in Refs
        BY <1>0, <1>8, Values DEF Destined, TypeOK, TransitOK, Operations
    <2>3. boxes'[state[k].target] = boxes[state[k].target]
        BY <1>0, <1>8, <2>2, StepBoxes DEF Touched
    <2>4. /\ boxes[state[k].target].files = state[k].revision /\ state[k].revision # 0
          /\ boxes[state[k].target].state \notin {"none", "coming"}
        BY <1>0, <1>8, <2>2, Values DEF InService, Pinned, Working
    <2>5. \A j \in Coroutines : at'[j] \notin Working
        BY <1>2, <1>3, <1>8 DEF Working
    <2>6. /\ boxes'[row'.ref].files # 0 /\ boxes'[row'.ref].state \notin {"none", "coming"}
          /\ ~(row'.decision \/ row'.status = "destroyed")
        BY <1>8, <2>3, <2>4
    <2> QED BY <1>6, <2>1, <2>5, <2>6 DEF InService, Coroutines
<1> QED BY <1>0, <1>7, <1>8, StepRef

LEMMA StepUsers ==
    ASSUME Known, Service, NEW k \in Coroutines, Step(k)
    PROVE  InContext' /\ Retiring'
<1>0. TypeOK /\ OwnersWork /\ OneTransition /\ InContext /\ Retiring
    BY DEF Known, Service
<1>1. UNCHANGED retire
    BY <1>0, StepOperation
<1>2. row.generation \in Nat /\ retire.generation \in Nat /\ \A r \in Runs : context[r].generation \in Nat
    BY <1>0 DEF TypeOK, DataOK, ToolsOK
<1>3. CASE row'.ref = row.ref /\ row'.generation = row.generation
    <2>1. ASSUME NEW r \in Runs
          PROVE  /\ context'[r].generation <= row'.generation
                 /\ context'[r].generation = row'.generation => context'[r].ref = row'.ref
        BY <1>0, <1>2, <1>3, StepContext DEF InContext, NoContext
    <2>2. retire.at = "provider" => ws'.head = ws.head
        <3>1. retire.at = "provider" => owner = "retire"
            BY <1>0 DEF OwnersWork
        <3>2. at[k] = "publish" /\ retire.at = "provider" => FALSE
            BY <1>0, <3>1, Values DEF OwnersWork, Holding, Working, Coroutines, Settling, TypeOK, TransitOK
        <3> QED BY <1>0, <3>1, <3>2, StepHead
    <2>3. Retiring'
        BY <1>0, <1>1, <1>3, <2>2, ServedBox DEF Retiring, Exists
    <2> QED BY <1>0, <1>3, <2>1, <2>3 DEF InContext
<1>4. CASE at[k] = "publish" /\ at'[k] \notin Working /\ row'.generation = row.generation + 1
    <2>1. at'[k] # "idle" \/ k # "recovery" => \A r \in Runs : context'[r] = context[r]
        BY <1>0, StepContext
    <2>2. at'[k] # "idle"
        BY <1>0, <1>4, StepPublish
    <2>3. InContext'
        BY <1>0, <1>2, <1>4, <2>1, <2>2 DEF InContext
    <2>4. retire.at \notin {"provider", "status"}
        BY <1>0, <1>4, Values DEF OwnersWork, Holding, Working, Coroutines, Settling, TypeOK, TransitOK
    <2>5. Retiring'
        BY <1>0, <1>1, <1>2, <1>4, <2>4 DEF Retiring
    <2> QED BY <2>3, <2>5
<1> QED BY <1>0, <1>3, <1>4, StepRef

-----------------------------------------------------------------------------
(* The head, the binding and the boxes under the steps that are not part of a *)
(* transition.                                                               *)
LEMMA QuietHead ==
    ASSUME Known, Quiet
    PROVE  \/ ws'.head = ws.head /\ stored' = stored
           \/ /\ ws'.head = boxes[row.ref].files /\ boxes'[row.ref].files = boxes[row.ref].files
              /\ ws'.head \in stored' /\ stored' \subseteq stored \cup {ws'.head} /\ Exists(row.ref)
              /\ at["recovery"] = "idle" /\ at["switch"] \notin Working \ {"journal", "start"}
              /\ retire.at \notin {"provider", "status"}
<1>0. TypeOK /\ OwnersWork /\ row.ref \in Refs
    BY DEF Known, TypeOK, DataOK
<1> DEFINE Kept  == ws'.head = ws.head /\ stored' = stored
           Moved == /\ ws'.head = boxes[row.ref].files /\ boxes'[row.ref].files = boxes[row.ref].files
                    /\ ws'.head \in stored' /\ stored' \subseteq stored \cup {ws'.head} /\ Exists(row.ref)
           Alone == /\ at["recovery"] = "idle" /\ at["switch"] \notin Working \ {"journal", "start"}
                    /\ retire.at \notin {"provider", "status"}
<1>1. ASSUME UNCHANGED <<ws, stored>> PROVE Kept
    BY <1>1
<1>2. ASSUME Saved \/ NotSaved, UNCHANGED boxes PROVE Kept \/ Moved
    BY <1>0, <1>2, SavedFacts
<1>3. ASSUME owner = "nobody" PROVE Alone
    BY <1>0, <1>3, Values DEF OwnersWork, Holding, TypeOK, TransitOK
<1>4. ASSUME NEW r \in Runs, pc[r] = "written" PROVE Alone
    <2>1. owner = r /\ caller # r /\ r \notin {"switch", "retire", "nobody", "user"}
        BY <1>0, <1>4, WrittenOwns, Values DEF Coroutines
    <2>2. caller = "nobody"
        BY <1>0, <2>1 DEF OwnersWork
    <2> QED BY <1>0, <2>1, <2>2 DEF OwnersWork, Holding
<1>5. ASSUME Checkpoint PROVE Kept \/ (Moved /\ Alone)
    BY <1>2, <1>3, <1>5 DEF Checkpoint
<1>6. ASSUME Retire PROVE Kept \/ (Moved /\ Alone)
    BY <1>1, <1>2, <1>3, <1>6 DEF Retire, RetireCheck, RetireSave, RetireProvider, RetireStatus
<1>7. ASSUME NEW r \in Runs, Ensure(r) PROVE Kept \/ (Moved /\ Alone)
    <2>1. boxes' = [boxes EXCEPT ![row.ref].state = "up"] /\ owner = "nobody" /\ Exists(row.ref)
        BY <1>7 DEF Ensure
    <2>2. boxes'[row.ref].files = boxes[row.ref].files
        BY <1>0, <2>1 DEF TypeOK, DataOK
    <2>3. CASE Saving(boxes[row.ref].files)
        <3>1. ws'.head = boxes[row.ref].files
            BY <2>3 DEF Saving, Known, TypeOK, DataOK
        <3> DEFINE f == boxes[row.ref].files
        <3>2. stored' = stored \cup {f} \/ stored' = (stored \cup {f}) \cap {f, ws.head, ws.pinned}
            BY <2>3 DEF Saving
        <3> HIDE DEF f
        <3>3. f \in stored' /\ stored' \subseteq stored \cup {f}
            BY <3>2
        <3> QED BY <1>3, <2>1, <2>2, <3>1, <3>3 DEF f
    <2>4. CASE SavingFails
        BY <2>4 DEF SavingFails, Known, TypeOK, DataOK
    <2> QED BY <1>1, <1>7, <2>3, <2>4 DEF Ensure
<1>8. ASSUME NEW r \in Runs, Persist(r) PROVE Kept \/ (Moved /\ Alone)
    BY <1>2, <1>4, <1>8 DEF Persist
<1>9. ASSUME NEW r \in Runs, Admit(r) \/ Leave(r) \/ Write(r) PROVE Kept
    BY <1>9 DEF Admit, Leave, Write, Known, TypeOK, DataOK
<1>10. ASSUME UNCHANGED vars \/ \E s \in Sandboxes : Arrive(s) \/ SandboxLost(s) PROVE Kept
    BY <1>10 DEF vars, Arrive, SandboxLost
<1> QED BY <1>5, <1>6, <1>7, <1>8, <1>9, <1>10 DEF Quiet

LEMMA QuietRow ==
    ASSUME Known, Service, Quiet
    PROVE  /\ row.decision => row'.decision
           /\ row'.decision \/ row'.status = "destroyed" => ~Exists(row.ref)
<1>0. row \in [ref : Refs, generation : Nat, decision : BOOLEAN,
               status : {"ready", "stopped", "destroyed", "unavailable"}] /\ TypeOK
    BY DEF Known, TypeOK, DataOK
<1>1. row.decision \/ row.status = "destroyed" => ~Exists(row.ref)
    BY DEF Service, InService
<1>2. ASSUME Saved \/ NotSaved
      PROVE  (row.decision => row'.decision) /\ (row'.decision \/ row'.status = "destroyed" => ~Exists(row.ref))
    BY <1>0, <1>1, <1>2, SavedFacts
<1>3. ASSUME UNCHANGED row
      PROVE  (row.decision => row'.decision) /\ (row'.decision \/ row'.status = "destroyed" => ~Exists(row.ref))
    BY <1>1, <1>3
<1>4. CASE Checkpoint \/ \E r \in Runs : Persist(r)
    BY <1>2, <1>4 DEF Checkpoint, Persist
<1>5. CASE Retire
    <2>1. ASSUME RetireStatus
          PROVE  (row.decision => row'.decision) /\ (row'.decision \/ row'.status = "destroyed" => ~Exists(row.ref))
        <3>1. CASE row' = [row EXCEPT !.status = IF retire.action = "stop" THEN "stopped" ELSE "destroyed"]
            <4>1. row'.decision = row.decision /\ (row'.status = "destroyed" => retire.action # "stop")
                BY <1>0, <3>1
            <4>2. retire.at = "status" /\ retire.action \in {"stop", "delete"}
                BY <2>1, <1>0 DEF RetireStatus, TypeOK, ToolsOK
            <4> QED BY <1>1, <4>1, <4>2 DEF Service, Retiring
        <3> QED BY <1>3, <2>1, <3>1 DEF RetireStatus
    <2> QED BY <1>2, <1>3, <1>5, <2>1 DEF Retire, RetireCheck, RetireSave, RetireProvider
<1>6. ASSUME NEW r \in Runs, Ensure(r) 
      PROVE  (row.decision => row'.decision) /\ (row'.decision \/ row'.status = "destroyed" => ~Exists(row.ref))
    <2>1. ~row.decision /\ (row' = row \/ row' = [row EXCEPT !.status = "ready"])
        BY <1>6 DEF Ensure
    <2> QED BY <1>0, <1>1, <2>1
<1>7. ASSUME NEW r \in Runs, Admit(r) \/ Leave(r) \/ Write(r) PROVE UNCHANGED row
    BY <1>7 DEF Admit, Leave, Write
<1>8. ASSUME UNCHANGED vars \/ \E s \in Sandboxes : Arrive(s) \/ SandboxLost(s) PROVE UNCHANGED row
    BY <1>8 DEF vars, Arrive, SandboxLost
<1> QED BY <1>3, <1>4, <1>5, <1>6, <1>7, <1>8 DEF Quiet

LEMMA QuietBoxes ==
    ASSUME Known, Service, Quiet, NEW s \in Refs
    PROVE  \/ boxes'[s] = boxes[s]
           \/ s \in Sandboxes /\ boxes[s].state = "coming" /\ boxes'[s].state = "up"
           \/ /\ s # Local /\ boxes'[s].files = boxes[s].files /\ boxes'[s].state \in {"gone", "stopped"}
              /\ s = row.ref \/ Exists(s)
              /\ Exists(s)' => Exists(s)
           \/ /\ s = row.ref /\ Exists(s) /\ boxes'[s].state = "up"
              /\ \/ boxes'[s].files = boxes[s].files
                 \/ owner = "nobody" /\ boxes'[s].files = last + 1 /\ ws'.head = ws.head
              /\ Available
<1>0. /\ TypeOK /\ row.ref \in Refs
      /\ boxes \in [Refs -> [state : {"none", "coming", "up", "stopped", "gone"}, files : Nat]]
    BY DEF Known, TypeOK, DataOK
<1>1. ASSUME UNCHANGED boxes PROVE boxes'[s] = boxes[s]
    BY <1>1
<1>2. CASE Checkpoint \/ UNCHANGED vars \/ \E r \in Runs : Admit(r) \/ Leave(r) \/ Persist(r)
    BY <1>1, <1>2 DEF Checkpoint, vars, Admit, Leave, Persist
<1>3. CASE Retire
    <2>1. CASE RetireProvider
        <3>1. row.ref # Local
            BY <2>1 DEF RetireProvider, Service, Retiring
        <3>2. \/ boxes' = boxes
              \/ boxes' = [boxes EXCEPT ![row.ref].state = IF retire.action = "stop" /\ Exists(row.ref)
                                                           THEN "stopped" ELSE "gone"]
            BY <2>1 DEF RetireProvider
        <3> QED BY <1>0, <3>1, <3>2 DEF Exists
    <2>2. CASE ~RetireProvider
        BY <1>1, <1>3, <2>2 DEF Retire, RetireCheck, RetireSave, RetireStatus
    <2> QED BY <2>1, <2>2
<1>4. ASSUME NEW r \in Runs, Ensure(r)
      PROVE  boxes'[s] = boxes[s] \/ /\ s = row.ref /\ Exists(s) /\ boxes'[s].state = "up"
                                     /\ boxes'[s].files = boxes[s].files /\ Available
    BY <1>0, <1>4 DEF Ensure
<1>5. ASSUME NEW r \in Runs, Write(r)
      PROVE  boxes'[s] = boxes[s] \/ /\ s = row.ref /\ Exists(s) /\ boxes'[s].state = "up"
                                     /\ owner = "nobody" /\ boxes'[s].files = last + 1 /\ ws'.head = ws.head /\ Available
    <2>1. context[r].ref = row.ref /\ ws'.head = ws.head /\ owner = "nobody" /\ Available
        BY <1>0, <1>5 DEF Write, Service, InContext, TypeOK, DataOK
    <2>2. \/ boxes' = boxes
          \/ Exists(row.ref) /\ boxes' = [boxes EXCEPT ![row.ref] = [state |-> "up", files |-> last + 1]]
        BY <1>5, <2>1 DEF Write
    <2> QED BY <1>0, <2>1, <2>2
<1>6. ASSUME NEW t \in Sandboxes, Arrive(t) \/ SandboxLost(t)
      PROVE  \/ boxes'[s] = boxes[s]
             \/ s \in Sandboxes /\ boxes[s].state = "coming" /\ boxes'[s].state = "up"
             \/ /\ s # Local /\ boxes'[s].files = boxes[s].files /\ boxes'[s].state = "gone" /\ Exists(s)
    BY <1>0, <1>6, Values DEF Arrive, SandboxLost
<1> QED BY <1>2, <1>3, <1>4, <1>5, <1>6 DEF Quiet

LEMMA QuietInService ==
    ASSUME Known, Service, Quiet
    PROVE  InService'
<1>0. TypeOK /\ OwnersWork /\ Destined /\ Numbered /\ Pinned /\ InService /\ row.ref \in Refs /\ last \in Nat
    BY DEF Known, Service, TypeOK, DataOK, ToolsOK
<1>1. UNCHANGED <<state, at>> /\ row'.ref = row.ref /\ row'.generation = row.generation
    BY <1>0, QuietFrame
<1>2. owner = "nobody" => \A j \in Coroutines : at[j] \notin Working \ {"journal", "start"}
    BY <1>0, Values DEF OwnersWork, Holding, TypeOK, TransitOK, Coroutines, Working
<1>3. boxes'[row.ref].files # 0 /\ boxes'[row.ref].state \notin {"none", "coming"}
    BY <1>0, QuietBoxes DEF InService
<1>4. boxes'[Local].state = "up"
    BY <1>0, Values, QuietBoxes DEF InService
<1>5. row'.decision \/ row'.status = "destroyed" => ~Exists(row.ref)'
    <2>1. ~Exists(row.ref) => boxes'[row.ref].state \notin {"up", "stopped"}
        BY <1>0, QuietBoxes DEF InService, Exists
    <2> QED BY <1>1, <2>1, QuietRow DEF Exists
<1>6. at'["recovery"] \in Working => row'.decision
    BY <1>0, <1>1, QuietRow DEF InService
<1>7. at'["switch"] \in Working \ {"journal", "start"} => boxes'[row.ref].files = ws'.head
    <2> SUFFICES ASSUME at["switch"] \in Working \ {"journal", "start"} PROVE boxes'[row.ref].files = ws'.head
        BY <1>1
    <2>1. boxes[row.ref].files = ws.head /\ ws'.head = ws.head
        BY <1>0, QuietHead DEF InService
    <2>2. owner # "nobody"
        BY <1>2 DEF Coroutines
    <2>3. boxes'[row.ref].files = boxes[row.ref].files
        BY <1>0, <2>2, QuietBoxes DEF InService
    <2> QED BY <2>1, <2>3
<1>8. ASSUME NEW j \in Coroutines, at[j] \in {"remember", "restoring", "restore", "verifying", "verify", "activating", "publish"},
             state[j].target # NoRef
      PROVE  /\ boxes'[state[j].target].state \notin {"none", "coming"}
             /\ boxes'[state[j].target].files = boxes[state[j].target].files
    <2>1. state[j].target \in Refs /\ boxes[state[j].target].state \notin {"none", "coming"}
        BY <1>0, <1>8 DEF TypeOK, TransitOK, Operations, InService
    <2>2. owner # "nobody"
        BY <1>2, <1>8 DEF Working
    <2> QED BY <2>1, <2>2, QuietBoxes
<1>9. ASSUME NEW j \in Coroutines
      PROVE  /\ at'[j] \in Working => state'[j].generation = row'.generation
             /\ at'[j] \in {"remember", "restoring", "restore", "verifying", "verify", "activating", "publish"}
                /\ state'[j].target # NoRef => boxes'[state'[j].target].state \notin {"none", "coming"}
             /\ at'[j] \in {"verifying", "verify", "activating", "publish"} =>
                   boxes'[state'[j].target].files = state'[j].revision
    <2>1. at'[j] = at[j] /\ state'[j] = state[j]
        BY <1>1
    <2>2. at[j] \in {"verifying", "verify", "activating", "publish"} => state[j].target # NoRef
        BY <1>0, Values DEF Destined, TypeOK, TransitOK, Operations
    <2> QED BY <1>0, <1>1, <1>8, <2>1, <2>2 DEF InService
<1> QED BY <1>1, <1>3, <1>4, <1>5, <1>6, <1>7, <1>9 DEF InService

LEMMA QuietPinned ==
    ASSUME Known, Service, Quiet
    PROVE  Pinned' /\ RevisionsKept'
<1>0. TypeOK /\ OwnersWork /\ Pinned /\ RevisionsKept /\ boxes[row.ref].files # 0
    BY DEF Known, Service, InService
<1>1. UNCHANGED <<state, at>> /\ row'.ref = row.ref
    BY <1>0, QuietFrame
<1>2. CASE ws'.head = ws.head /\ stored' = stored
    BY <1>0, <1>1, <1>2 DEF Pinned, RevisionsKept
<1>3. CASE /\ ws'.head = boxes[row.ref].files
           /\ ws'.head \in stored' /\ stored' \subseteq stored \cup {ws'.head}
           /\ at["recovery"] = "idle" /\ at["switch"] \notin Working \ {"journal", "start"}
    <2>1. 0 \notin stored' /\ RevisionsKept'
        BY <1>0, <1>3 DEF Pinned, RevisionsKept
    <2>2. ASSUME NEW j \in Coroutines, at[j] \in Working
          PROVE  j = "switch" /\ at[j] \in {"journal", "start"}
        BY <1>0, <1>3, <2>2 DEF OwnersWork, Coroutines, Working, Settling
    <2> QED BY <1>0, <1>1, <2>1, <2>2 DEF Pinned
<1> QED BY <1>2, <1>3, QuietHead

LEMMA QuietUsers ==
    ASSUME Known, Service, Quiet
    PROVE  InContext' /\ Retiring'
<1>0. TypeOK /\ OwnersWork /\ InService /\ InContext /\ Retiring
    BY DEF Known, Service
<1>1. row'.ref = row.ref /\ row'.generation = row.generation
    BY <1>0, QuietFrame
<1>2. ASSUME NEW r \in Runs
      PROVE  \/ context'[r] = context[r] \/ context'[r] = NoContext
             \/ context'[r].ref = row.ref /\ context'[r].generation = row.generation
    BY <1>0 DEF TypeOK, ToolsOK, Quiet, Checkpoint, Retire, RetireCheck, RetireSave, RetireProvider, RetireStatus,
                Admit, Leave, Ensure, Prepared, Write, Persist, Arrive, SandboxLost, vars
<1>3. InContext'
    BY <1>0, <1>1, <1>2 DEF InContext, NoContext, TypeOK, DataOK, ToolsOK
<1>4. ~Exists(row.ref) => ~Exists(row.ref)'
    <2>1. ~Exists(row.ref) => boxes'[row.ref].state \notin {"up", "stopped"}
        BY <1>0, QuietBoxes DEF InService, Exists, TypeOK, DataOK
    <2> QED BY <1>1, <2>1 DEF Exists
<1>5. retire.at = "provider" => boxes'[row.ref].files = ws'.head
    <2> SUFFICES ASSUME retire.at = "provider" PROVE boxes'[row.ref].files = ws'.head
        OBVIOUS
    <2>1. owner # "nobody" /\ boxes[row.ref].files = ws.head
        BY <1>0 DEF OwnersWork, Retiring
    <2>2. ws'.head = ws.head
        BY <1>0, QuietHead
    <2>3. boxes'[row.ref].files = boxes[row.ref].files
        BY <1>0, <2>1, QuietBoxes DEF InService, TypeOK, DataOK
    <2> QED BY <2>1, <2>2, <2>3
<1>6. CASE UNCHANGED retire
    BY <1>0, <1>1, <1>3, <1>4, <1>5, <1>6 DEF Retiring, Exists
<1>7. ASSUME retire' = NoRetire PROVE Retiring'
    BY <1>0, <1>1, <1>7 DEF Retiring, NoRetire, TypeOK, DataOK
<1>8. ASSUME NEW action \in {"stop", "delete"}, RetireCheck(action) PROVE Retiring'
    BY <1>0, <1>8 DEF RetireCheck, Retiring, TypeOK, DataOK
<1>9. CASE RetireSave
    <2>1. ASSUME Saved, retire' = [retire EXCEPT !.at = "provider"], retire.generation = row.generation,
                 retire.at = "lock", UNCHANGED boxes
          PROVE  Retiring'
        <3>1. retire'.at = "provider" /\ retire'.generation = retire.generation
            BY <1>0, <2>1 DEF TypeOK, ToolsOK
        <3>2. ws'.head = boxes[row.ref].files
            BY <1>0, <2>1, SavedFacts
        <3> QED BY <1>0, <1>1, <2>1, <3>1, <3>2 DEF Retiring
    <2> QED BY <1>3, <1>6, <1>7, <1>9, <2>1 DEF RetireSave
<1>10. CASE RetireProvider
    <2>1. ASSUME retire' = [retire EXCEPT !.at = "status"], retire.at = "provider", UNCHANGED row,
                 boxes' = [boxes EXCEPT ![row.ref].state = IF retire.action = "stop" /\ Exists(row.ref)
                                                           THEN "stopped" ELSE "gone"]
          PROVE  Retiring'
        <3>1. retire'.at = "status" /\ retire'.generation = retire.generation /\ retire'.action = retire.action
            BY <1>0, <2>1 DEF TypeOK, ToolsOK
        <3>2. retire.action = "delete" => boxes'[row.ref].state = "gone"
            BY <1>0, <2>1 DEF TypeOK, DataOK
        <3> QED BY <1>0, <1>1, <2>1, <3>1, <3>2 DEF Retiring, Exists
    <2> QED BY <1>3, <1>7, <1>10, <2>1 DEF RetireProvider
<1>11. CASE RetireStatus
    BY <1>3, <1>7, <1>11 DEF RetireStatus
<1>12. CASE ~Retire
    BY <1>6, <1>12 DEF Quiet, Checkpoint, Admit, Leave, Ensure, Write, Persist, Arrive, SandboxLost, vars
<1> QED BY <1>3, <1>8, <1>9, <1>10, <1>11, <1>12 DEF Retire

LEMMA StartService ==
    ASSUME Known, Service, NEW k \in {"switch", "recovery"}, NEW kind \in {"switch", "recovery"},
           NEW local \in BOOLEAN, NEW revision \in Nat, Begin(k, kind, local, revision),
           UNCHANGED <<ws, boxes, stored, context, retire>>,
           row'.ref = row.ref, row'.generation = row.generation,
           local => row.ref # Local, row.decision => row'.decision,
           row'.decision \/ row'.status = "destroyed" => ~Exists(row.ref),
           k = "recovery" => ws.head \in stored /\ revision = ws.head /\ row'.decision
    PROVE  Service'
<1>0. TypeOK /\ Pinned /\ RevisionsKept /\ InService /\ InContext /\ Retiring
    BY DEF Known, Service
<1>1. /\ at'[k] = "journal" /\ state'[k].local = local /\ state'[k].revision = revision
      /\ state'[k].generation = row.generation
      /\ \A j \in Coroutines \ {k} : at'[j] = at[j] /\ state'[j] = state[j]
    BY <1>0, BeginFacts
<1>2. Pinned'
    <2>1. ws.head \in stored => ws.head # 0
        BY <1>0 DEF Pinned
    <2> QED BY <1>0, <1>1, <2>1 DEF Pinned
<1>3. RevisionsKept' /\ InContext' /\ Retiring'
    BY <1>0 DEF RevisionsKept, InContext, Retiring, Exists
<1>4. InService'
    <2>1. ASSUME NEW j \in Coroutines
          PROVE  /\ at'[j] \in Working => state'[j].generation = row'.generation
                 /\ at'[j] \in {"remember", "restoring", "restore", "verifying", "verify", "activating", "publish"}
                    /\ state'[j].target # NoRef => boxes'[state'[j].target].state \notin {"none", "coming"}
                 /\ at'[j] \in {"verifying", "verify", "activating", "publish"} =>
                       boxes'[state'[j].target].files = state'[j].revision
        <3>1. CASE j = k
            BY <1>1, <3>1
        <3>2. CASE j # k
            BY <1>0, <1>1, <3>2 DEF InService
        <3> QED BY <3>1, <3>2
    <2>2. at'["recovery"] \in Working => row'.decision
        BY <1>0, <1>1 DEF InService, Coroutines
    <2>3. at'["switch"] \in Working \ {"journal", "start"} => boxes'[row'.ref].files = ws'.head
        BY <1>0, <1>1 DEF InService, Coroutines
    <2>4. /\ boxes'[row'.ref].files # 0 /\ boxes'[row'.ref].state \notin {"none", "coming"}
          /\ boxes'[Local].state = "up" /\ (row'.decision \/ row'.status = "destroyed" => ~Exists(row.ref)')
        BY <1>0 DEF InService, Exists
    <2> QED BY <2>1, <2>2, <2>3, <2>4 DEF InService
<1> QED BY <1>2, <1>3, <1>4 DEF Service

LEMMA ServiceNext == Known /\ Service /\ [Next]_vars => Service'
<1> SUFFICES ASSUME Known, Service, [Next]_vars PROVE Service'
    OBVIOUS
<1>0. /\ TypeOK /\ OwnersWork /\ Pinned /\ RevisionsKept /\ InService /\ InContext /\ Retiring
      /\ row \in [ref : Refs, generation : Nat, decision : BOOLEAN,
                  status : {"ready", "stopped", "destroyed", "unavailable"}]
      /\ ws.head \in Nat
    BY DEF Known, Service, TypeOK, DataOK
<1>1. ASSUME NEW k \in Coroutines, Step(k) PROVE Service'
    BY <1>1, StepPinned, StepInService, StepUsers DEF Service
<1>2. CASE Quiet
    BY <1>2, QuietPinned, QuietInService, QuietUsers DEF Service
<1>3. CASE Crash
    <2>1. /\ UNCHANGED <<row, ws, boxes, stored>> /\ retire' = NoRetire
          /\ at' = [k \in Coroutines |-> "idle"] /\ context' = [r \in Runs |-> NoContext]
        BY <1>3 DEF Crash
    <2>2. \A k \in Coroutines : at'[k] = "idle"
        BY <2>1
    <2>3. Pinned' /\ RevisionsKept'
        BY <1>0, <2>1, <2>2 DEF Pinned, RevisionsKept, Working
    <2>4. InService'
        BY <1>0, <2>1, <2>2 DEF InService, Working, Exists, Coroutines
    <2>5. InContext' /\ Retiring'
        BY <1>0, <2>1 DEF InContext, Retiring, NoContext, NoRetire
    <2> QED BY <2>3, <2>4, <2>5 DEF Service
<1>4. CASE Recover \/ Abandon
    <2>1. /\ UNCHANGED <<row, ws, boxes, stored, context, retire>>
          /\ at'["mend"] \in {"settle", "forgive"}
          /\ \A j \in Coroutines \ {"mend"} : at'[j] = at[j] /\ state'[j] = state[j]
        BY <1>0, <1>4, MendFrame
    <2>2. Pinned' /\ RevisionsKept'
        BY <1>0, <2>1 DEF Pinned, RevisionsKept, Working
    <2>3. InService'
        BY <1>0, <2>1 DEF InService, Working, Exists, Coroutines
    <2>4. InContext' /\ Retiring'
        BY <1>0, <2>1 DEF InContext, Retiring, Exists
    <2> QED BY <2>2, <2>3, <2>4 DEF Service
<1>5. ASSUME NEW local \in BOOLEAN, Request(local) PROVE Service'
    <2>1. row.decision \/ row.status = "destroyed" => ~Exists(row.ref)
        BY <1>0 DEF InService
    <2> QED BY <1>5, <2>1, StartService DEF Request
<1>6. ASSUME NEW who \in Runs \cup {"user"}, NEW local \in BOOLEAN, Replaces(who, local) PROVE Service'
    <2>1. ~Exists(row.ref) /\ row.ref # Local
        BY <1>0, <1>6 DEF Replaces, InService, Exists
    <2>2. row' = [row EXCEPT !.status = "unavailable", !.decision = TRUE] /\ Begin("recovery", "recovery", local, ws.head)
          /\ ws.head \in stored /\ UNCHANGED <<ws, boxes, stored, context, retire>>
        BY <1>6 DEF Replaces, Recovery
    <2>3. row'.ref = row.ref /\ row'.generation = row.generation /\ row'.decision
        BY <1>0, <2>2
    <2> QED BY <1>0, <2>1, <2>2, <2>3, StartService
<1> QED BY <1>1, <1>2, <1>3, <1>4, <1>5, <1>6, NextCases

LEMMA KnownNext == Known /\ [Next]_vars => Known'
BY TypeNext, OwnersNext, DestinedNext, NumberedNext DEF Known

-----------------------------------------------------------------------------
(* The record, what accounts for the sandboxes, and what has yet to arrive.  *)
Book == SandboxesAccounted /\ Accounts /\ Arrivals

(* An operation accounts for what is up after a step, as far as it can know. *)
After(o, handled) ==
    \A s \in Sandboxes \ overwritten :
        boxes'[s].state = "up" /\ s # row'.ref /\ s <= o.id =>
            s \in Listed(o) \/ (s = o.id /\ (handled \/ o.phase \in ACTIVE_PHASES))

Settled(o) == \/ o.phase \in {"completed", "failed"}
              \/ o.phase = "allocation_unknown" /\ ~o.local

LEMMA AfterSame ==
    ASSUME TypeOK, NEW k \in Coroutines, Covers(k), NEW o \in Operations, NEW handled \in BOOLEAN,
           o.id = state[k].id, Listed(state[k]) \subseteq Listed(o), row'.ref = row.ref,
           \A s \in Sandboxes : boxes'[s].state = "up" => boxes[s].state = "up",
           \/ handled \/ o.phase \in ACTIVE_PHASES
           \/ at[k] \notin Handling /\ state[k].phase \notin ACTIVE_PHASES
           \/ boxes[o.id].state # "up" \/ o.id \in Listed(o) \/ o.id = row.ref
    PROVE  After(o, handled)
BY DEF After, Covers

LEMMA AfterPhase ==
    ASSUME TypeOK, NEW k \in Coroutines, Covers(k), NEW phase \in Phases, NEW handled \in BOOLEAN, row'.ref = row.ref,
           \A s \in Sandboxes : boxes'[s].state = "up" => boxes[s].state = "up",
           \/ handled \/ phase \in ACTIVE_PHASES
           \/ at[k] \notin Handling /\ state[k].phase \notin ACTIVE_PHASES
           \/ boxes[state[k].id].state # "up" \/ state[k].id = row.ref
    PROVE  After([state[k] EXCEPT !.phase = phase], handled)
<1> DEFINE o == [state[k] EXCEPT !.phase = phase]
<1>1. /\ o \in Operations /\ o.id = state[k].id /\ o.phase = phase /\ Listed(state[k]) = Listed(o)
    BY DEF TypeOK, TransitOK, Operations, Listed
<1> HIDE DEF o
<1>2. After(o, handled)
    BY <1>1, AfterSame
<1> QED BY <1>2 DEF o

(* What a transition that has to be restored, or was, does not allocate.     *)
LEMMA StepUp ==
    ASSUME TypeOK, NEW k \in Coroutines, Step(k), at[k] # "allocate", NEW s \in Refs
    PROVE  /\ boxes'[s].state \in {"up", "coming", "none"} => boxes'[s].state = boxes[s].state
           /\ boxes[s].state = "none" /\ boxes'[s].state # "none" =>
                 at[k] \in {"cleanup", "sweep"} /\ s \in Listed(state[k])
BY StepBoxes DEF Touched

(* What the late cleanup took off the list is not up any more.               *)
LEMMA CleanupEnds ==
    ASSUME TypeOK, NEW k \in Coroutines, Cleanup(k)
    PROVE  \E now \in Operations :
              /\ state'[k] = now /\ Follows(k, now) /\ now.phase = state[k].phase
              /\ \A s \in Sandboxes : s \in Listed(state[k]) /\ s \notin Listed(now) => boxes'[s].state # "up"
<1>0. /\ state \in [Coroutines -> Operations] /\ state[k] \in Operations
      /\ boxes \in [Refs -> [state : {"none", "coming", "up", "stopped", "gone"}, files : Nat]]
    BY DEF TypeOK, TransitOK, DataOK
<1>1. PICK failing \in SUBSET {item \in state[k].cleanup : ~Owned(item.ref)} :
        LET done == {item \in state[k].cleanup \ failing : ~Owned(item.ref)}
            Ending(ref) == IF [ref |-> ref, action |-> "delete"] \in done THEN "gone"
                           ELSE IF \E item \in done : item.ref = ref /\ Exists(ref) THEN "stopped"
                           ELSE boxes[ref].state
        IN  /\ boxes' = [ref \in Refs |-> [boxes[ref] EXCEPT !.state = Ending(ref)]]
            /\ state' = [state EXCEPT ![k].cleanup = @ \ done]
    BY DEF Cleanup
<1> DEFINE done == {item \in state[k].cleanup \ failing : ~Owned(item.ref)}
           now == [state[k] EXCEPT !.cleanup = @ \ done]
           left == state[k].cleanup \ done
<1>2. state'[k] = now /\ now = [state[k] EXCEPT !.cleanup = left] /\ left \in SUBSET state[k].cleanup
    BY <1>0, <1>1
<1>3. Follows(k, now) /\ now \in Operations /\ now.phase = state[k].phase /\ now.cleanup = left
    <2>1. Follows(k, [state[k] EXCEPT !.cleanup = left])
        BY <1>0, <1>2, FollowsRevised
    <2>2. [state[k] EXCEPT !.cleanup = left].phase = state[k].phase /\ [state[k] EXCEPT !.cleanup = left].cleanup = left
        BY <1>0 DEF Operations
    <2> QED BY <1>2, <2>1, <2>2 DEF Follows
<1>4. ASSUME NEW s \in Sandboxes, s \in Listed(state[k]), s \notin Listed(now) PROVE boxes'[s].state # "up"
    <2>1. PICK item \in state[k].cleanup : item.ref = s
        BY <1>4 DEF Listed
    <2>2. item \in done
        BY <1>3, <1>4, <2>1 DEF Listed
    <2>3. s \in Refs
        BY Values
    <2>4. CASE [ref |-> s, action |-> "delete"] \in done
        <3>1. boxes'[s] = [boxes[s] EXCEPT !.state = "gone"]
            BY <1>1, <2>3, <2>4
        <3> QED BY <1>0, <2>3, <3>1
    <2>5. CASE [ref |-> s, action |-> "delete"] \notin done /\ Exists(s)
        <3>1. boxes'[s] = [boxes[s] EXCEPT !.state = "stopped"]
            BY <1>1, <2>1, <2>2, <2>3, <2>5
        <3> QED BY <1>0, <2>3, <3>1
    <2>6. CASE [ref |-> s, action |-> "delete"] \notin done /\ ~Exists(s)
        <3>1. boxes'[s] = [boxes[s] EXCEPT !.state = boxes[s].state]
            BY <1>1, <2>3, <2>6
        <3> QED BY <1>0, <2>3, <2>6, <3>1 DEF Exists
    <2> QED BY <2>4, <2>5, <2>6
<1> QED BY <1>2, <1>3, <1>4

(* What is known of a transition under way.                                  *)
Account(k) ==
    /\ Covers(k)
    /\ k = "switch" => state[k].kind = "switch"
    /\ journal.phase \in ACTIVE_PHASES => state[k].id <= journal.id
    /\ at[k] \in Working \cup {"handler"} /\ state[k].target # state[k].id => boxes[state[k].id].state = "none"
    /\ at[k] = "allocate" => \/ state[k].id \in overwritten /\ journal.id # state[k].id
                             \/ journal.id = state[k].id /\ Blind(journal)
    /\ at[k] = "uncertain" => state[k].phase = "provisioning" /\ ~state[k].local /\ state[k].target = NoRef
    /\ at[k] \in Handling => \/ row.generation = state[k].generation
                             \/ /\ row.generation = state[k].generation + 1
                                /\ row.ref = state[k].target /\ state[k].phase = "completed"
    /\ at[k] = "activated" => state[k].phase = "completed"
    /\ at[k] \in Settling => Settled(state[k])
    /\ boxes[state[k].id].state = "coming" =>
          at[k] = "uncertain" \/ (at[k] \in Settling /\ state[k].phase = "allocation_unknown")

LEMMA AccountsAll == Accounts <=> \A k \in Coroutines : at[k] # "idle" => Account(k)
BY DEF Accounts, Account, Settled

(* How the phases of a transition follow each other, and what it writes.     *)
LEMMA StepMoves ==
    ASSUME Known, NEW k \in Coroutines, Account(k), Step(k)
    PROVE  /\ at'[k] \in Working \cup {"handler"} => at[k] \in Working
           /\ at'[k] = "uncertain" => at[k] = "allocate" /\ state'[k] = state[k]
           /\ at'[k] = "allocate" => journal' = state'[k] /\ Blind(state'[k])
           /\ at'[k] = "activated" => state'[k].phase = "completed"
           /\ at'[k] \in Settling => Settled(state'[k])
           /\ at[k] = "uncertain" => at'[k] = "idle" \/ (at'[k] \in Settling /\ state'[k].phase = "allocation_unknown")
           /\ at[k] \in Settling \ {"idle"} => at'[k] = "idle" \/ (at'[k] \in Settling /\ state'[k].phase = state[k].phase)
           /\ at[k] = "handler" => at'[k] \in Settling \cup {"idle", "activated"}
           /\ UNCHANGED book \/ UNCHANGED boxes
<1>0. /\ at \in [Coroutines -> {"idle"} \cup Working \cup Late \cup Handling \cup Settling]
      /\ state \in [Coroutines -> Operations] /\ state[k] \in Operations
    BY DEF Known, TypeOK, TransitOK
<1>00. /\ Failed(state[k]).phase = "failed" /\ Unknown(state[k]).phase = "allocation_unknown"
       /\ Unknown(state[k]).local = state[k].local
    BY <1>0, FailedFacts, UnknownFacts
<1> USE DEF Working, Late, Handling, Settling, Account, Settled
<1>1. CASE Journal(k)
    BY <1>0, <1>1 DEF Journal, End
<1>2. CASE Start(k)
    BY <1>0, <1>2 DEF Start
<1>3. CASE Pin(k)
    BY <1>0, <1>3 DEF Pin
<1>4. CASE Provisioning(k)
    BY <1>0, <1>4 DEF Provisioning, Recorded, Known, Destined, Blind, Wrote, Operations
<1>5. CASE Allocate(k)
    BY <1>0, <1>5 DEF Allocate
<1>6. CASE Remember(k)
    BY <1>0, <1>6 DEF Remember, Recorded
<1>7. CASE Restoring(k)
    BY <1>0, <1>7 DEF Restoring, Recorded
<1>8. CASE Restore(k)
    BY <1>0, <1>8 DEF Restore
<1>9. CASE Verifying(k)
    BY <1>0, <1>9 DEF Verifying, Recorded
<1>10. CASE Verify(k)
    BY <1>0, <1>10 DEF Verify
<1>11. CASE Activating(k)
    BY <1>0, <1>11 DEF Activating, Recorded
<1>12. CASE Publish(k)
    BY <1>0, <1>12 DEF Publish
<1>13. CASE Unpin(k)
    BY <1>0, <1>13 DEF Unpin, Known, OneTransition
<1>14. CASE Cleanup(k)
    BY <1>0, <1>14, CleanupEnds DEF Cleanup, Known, Follows
<1>15. CASE Record(k)
    BY <1>0, <1>15 DEF Record, End, Known, OneTransition
<1>16. CASE Handler(k)
    <2>1. row.generation \in Nat /\ state[k].generation \in Nat
        BY <1>0 DEF Known, TypeOK, DataOK, Operations
    <2>2. Published(state[k]) => state[k].phase = "completed"
        BY <1>16, <2>1 DEF Handler, Published
    <2> QED BY <1>0, <1>00, <1>16, <2>2 DEF Handler, End
<1>17. CASE Activated(k)
    BY <1>0, <1>17 DEF Activated, Operations
<1>18. CASE Settle(k)
    BY <1>0, <1>18 DEF Settle, End
<1>19. CASE Forgive(k)
    BY <1>0, <1>19 DEF Forgive, End
<1>20. CASE Swept(k)
    BY <1>0, <1>20 DEF Swept, End
<1> QED BY <1>1, <1>2, <1>3, <1>4, <1>5, <1>6, <1>7, <1>8, <1>9, <1>10, <1>11, <1>12, <1>13, <1>14, <1>15, <1>16, <1>17, <1>18, <1>19, <1>20 DEF Step

(* What it has become, or may have written, accounts for what is up.         *)
Becomes(k, now) ==
    /\ Follows(k, now)
    /\ \/ state'[k] = now /\ at'[k] # "idle"
       \/ state'[k] = NoOp /\ at'[k] = "idle"
    /\ \/ UNCHANGED <<journal, overwritten>> /\ row'.ref = row.ref
       \/ /\ Wrote(now) /\ After(now, FALSE) /\ UNCHANGED boxes
          /\ at[k] \in Working \ {"allocate"} \/ (at[k] \in {"record", "settle", "swept"} /\ now = state[k])
    /\ \/ After(now, FALSE)
       \/ at'[k] = "idle" /\ UNCHANGED <<journal, overwritten>>
       \/ at'[k] \in Handling /\ After(now, TRUE)

LEMMA StepBecomes ==
    ASSUME Known, Service, NEW k \in Coroutines, Account(k), Step(k)
    PROVE  \E now : Becomes(k, now)
<1>0. /\ TypeOK /\ at \in [Coroutines -> {"idle"} \cup Working \cup Late \cup Handling \cup Settling]
      /\ state \in [Coroutines -> Operations] /\ state[k] \in Operations
      /\ {"saving", "provisioning", "restoring", "verifying", "activating", "failed", "completed"} \subseteq Phases
      /\ Covers(k)
    BY DEF Known, TypeOK, TransitOK, Account, Phases, ACTIVE_PHASES
<1>1. Follows(k, state[k]) /\ \A phase \in Phases : Follows(k, [state[k] EXCEPT !.phase = phase])
    BY <1>0, FollowsItself
<1>2. at[k] \in Working => state[k].phase \in ACTIVE_PHASES
    BY DEF Known, Destined
<1>3. at[k] \in Late => state[k].phase = "completed" /\ "completed" \notin ACTIVE_PHASES
    BY DEF Known, OneTransition, Late, Account, ACTIVE_PHASES
<1>4. at[k] \in Settling => state[k].phase \in {"completed", "failed", "allocation_unknown"}
                            /\ {"completed", "failed"} \cap ACTIVE_PHASES = {} /\ "allocation_unknown" \in ACTIVE_PHASES
    BY DEF Account, Settled, ACTIVE_PHASES
<1>5. ASSUME row'.ref = row.ref, \A s \in Sandboxes : boxes'[s].state = "up" => boxes[s].state = "up",
             at[k] \notin Handling
      PROVE  After(state[k], FALSE)
    BY <1>0, <1>5, AfterSame
<1>6. ASSUME row'.ref = row.ref, UNCHANGED boxes, NEW phase \in Phases \cap ACTIVE_PHASES
      PROVE  After([state[k] EXCEPT !.phase = phase], FALSE)
    BY <1>0, <1>6, AfterPhase
<1>7. at[k] \notin {"allocate", "cleanup", "sweep"} => \A s \in Sandboxes : boxes'[s].state = "up" => boxes[s].state = "up"
    BY <1>0, Values, StepUp
<1>8. at[k] \in Working => k # "mend"
    BY DEF Known, OwnersWork, Working, Settling
<1>9. row'.ref = row.ref \/ at[k] = "publish"
    BY <1>0, StepRef
<1> USE DEF Becomes
<1>10. CASE Journal(k)
    <2>1. boxes[state[k].id].state = "none"
        BY <1>0, <1>10, Values DEF Journal, Known, Destined, Account, Working, Operations
    <2>2. After([state[k] EXCEPT !.phase = "failed"], FALSE)
        BY <1>0, <1>10, <2>1, AfterPhase DEF Journal
    <2>3. After(state[k], FALSE) /\ at[k] \in Working \ {"allocate"} /\ UNCHANGED row
        BY <1>5, <1>10 DEF Journal, Working, Handling
    <2> QED BY <1>0, <1>1, <1>10, <2>2, <2>3 DEF Journal, End, MayHaveWritten
<1>11. CASE Start(k)
    <2>0. row'.ref = row.ref /\ UNCHANGED <<boxes, journal, overwritten>> /\ at[k] \notin Handling /\ at'[k] # "idle"
        BY <1>0, <1>9, <1>11 DEF Start, Handling
    <2>1. boxes[row.ref].files \in Nat
        BY DEF Known, TypeOK, DataOK
    <2>2. PICK now \in {state[k], [state[k] EXCEPT !.revision = boxes[row.ref].files]} :
             state' = [state EXCEPT ![k] = now] /\ (k # "switch" => now = state[k])
        BY <1>0, <1>11 DEF Start
    <2>3. Follows(k, now)
        BY <1>0, <1>1, <1>11, <2>1, <2>2, FollowsRevised, ZenonT(20) DEF Start
    <2>4. Listed(now) = Listed(state[k]) /\ now.id = state[k].id /\ now.phase = state[k].phase
        BY <1>0, <2>2 DEF Operations, Listed
    <2>5. After(now, FALSE)
        BY <1>0, <2>0, <2>3, <2>4, AfterSame DEF Follows
    <2> QED BY <1>0, <2>0, <2>2, <2>3, <2>5
<1>12. CASE Pin(k)
    BY <1>0, <1>1, <1>2, <1>3, <1>4, <1>5, <1>7, <1>9, <1>12 DEF Pin, MayHaveWritten, Working, Late, Handling, Settling
<1>13. CASE Provisioning(k)
    <2>1. "provisioning" \in Phases \cap ACTIVE_PHASES /\ UNCHANGED <<row, boxes>> /\ at[k] \in Working \ {"allocate"}
        BY <1>0, <1>13 DEF Provisioning, ACTIVE_PHASES, Working
    <2> QED BY <1>0, <1>1, <1>6, <1>13, <2>1 DEF Provisioning, Recorded, MayHaveWritten
<1>14. CASE Allocate(k)
    <2>0. /\ state[k].phase = "provisioning" /\ "provisioning" \in ACTIVE_PHASES /\ UNCHANGED <<row, journal, overwritten>>
          /\ boxes \in [Refs -> [state : {"none", "coming", "up", "stopped", "gone"}, files : Nat]]
        BY <1>14 DEF Allocate, Known, Destined, ACTIVE_PHASES, TypeOK, DataOK
    <2>1. \A s \in Sandboxes : s # state[k].id => boxes'[s] = boxes[s]
        BY <1>0, <1>14, Values, StepBoxes DEF Touched, Allocate
    <2>2. After(state[k], FALSE)
        BY <2>0, <2>1, <1>0 DEF After, Covers
    <2>3. CASE UNCHANGED state
        BY <1>0, <1>1, <1>14, <2>0, <2>2, <2>3 DEF Allocate
    <2>4. CASE state' = [state EXCEPT ![k].target = state[k].id]
        <3> DEFINE now == [state[k] EXCEPT !.target = state[k].id]
        <3>1. now.id = state[k].id /\ now.phase = state[k].phase /\ Listed(now) = Listed(state[k])
            BY <1>0 DEF Operations, Listed
        <3>2. After(now, FALSE)
            BY <2>2, <3>1 DEF After
        <3>3. Follows(k, now)
            BY <1>0, <1>14, FollowsRevised DEF Allocate
        <3> QED BY <1>0, <1>14, <2>0, <2>4, <3>2, <3>3 DEF Allocate
    <2> QED BY <1>14, <2>3, <2>4 DEF Allocate
<1>15. CASE Remember(k)
    BY <1>0, <1>1, <1>2, <1>3, <1>4, <1>5, <1>7, <1>9, <1>15 DEF Remember, Recorded, MayHaveWritten, Working, Late, Handling, Settling
<1>16. CASE Restoring(k)
    <2> DEFINE now == [state[k] EXCEPT !.phase = "restoring", !.target = IF state[k].local THEN Local ELSE @]
    <2>1. now.id = state[k].id /\ now.phase = "restoring" /\ Listed(now) = Listed(state[k])
        BY <1>0 DEF Operations, Listed
    <2>2. Follows(k, now) /\ now \in Operations
        BY <1>0, <1>16, FollowsRevised DEF Restoring, Follows
    <2>3. UNCHANGED <<row, boxes>> /\ "restoring" \in ACTIVE_PHASES /\ at[k] \in Working \ {"allocate"}
        BY <1>16 DEF Restoring, ACTIVE_PHASES, Working
    <2>4. After(now, FALSE)
        BY <1>0, <2>1, <2>2, <2>3, AfterSame
    <2>5. Recorded(k, now, "restore")
        BY <1>16 DEF Restoring
    <2> HIDE DEF now
    <2> QED BY <1>0, <2>2, <2>3, <2>4, <2>5 DEF Recorded, MayHaveWritten
<1>17. CASE Restore(k)
    BY <1>0, <1>1, <1>2, <1>3, <1>4, <1>5, <1>7, <1>9, <1>17 DEF Restore, MayHaveWritten, Working, Late, Handling, Settling
<1>18. CASE Verifying(k)
    <2>1. "verifying" \in Phases \cap ACTIVE_PHASES /\ UNCHANGED <<row, boxes>> /\ at[k] \in Working \ {"allocate"}
        BY <1>0, <1>18 DEF Verifying, ACTIVE_PHASES, Working
    <2> QED BY <1>0, <1>1, <1>6, <1>18, <2>1 DEF Verifying, Recorded, MayHaveWritten
<1>19. CASE Verify(k)
    BY <1>0, <1>1, <1>2, <1>3, <1>4, <1>5, <1>7, <1>9, <1>19 DEF Verify, MayHaveWritten, Working, Late, Handling, Settling
<1>20. CASE Activating(k)
    <2>1. "activating" \in Phases \cap ACTIVE_PHASES /\ UNCHANGED <<row, boxes>> /\ at[k] \in Working \ {"allocate"}
        BY <1>0, <1>20 DEF Activating, ACTIVE_PHASES, Working
    <2> QED BY <1>0, <1>1, <1>6, <1>20, <2>1 DEF Activating, Recorded, MayHaveWritten
<1>21. CASE Publish(k)
    <2> DEFINE op == state[k]
               c == IF op.source # Local /\ op.kind = "switch" THEN {[ref |-> op.source, action |-> "retire"]} ELSE {}
               now == [op EXCEPT !.phase = "completed", !.cleanup = @ \cup c]
    <2>1. /\ state' = [state EXCEPT ![k] = now] /\ at'[k] \in {"unpin", "handler"} /\ UNCHANGED boxes
          /\ \/ Wrote(now) /\ row' = [ref |-> now.target, generation |-> now.generation + 1,
                                     status |-> "ready", decision |-> FALSE]
             \/ UNCHANGED <<row, journal, overwritten>> /\ at'[k] = "handler"
        BY <1>0, <1>21 DEF Publish
    <2>2. Follows(k, now)
        BY <1>0, <1>21, FollowsPublished DEF Publish
    <2>3. /\ now.id = op.id /\ now.target = op.target /\ now.cleanup = op.cleanup \cup c
        BY <1>0 DEF Operations
    <2>4. Listed(op) \subseteq Listed(now) /\ (k = "switch" /\ row.ref # Local => row.ref \in Listed(now))
        <3>1. k = "switch" => op.kind = "switch" /\ op.source = row.ref
            BY <1>21 DEF Account, Publish, Known, Numbered, Working
        <3>2. k = "switch" /\ row.ref # Local => [ref |-> row.ref, action |-> "retire"] \in now.cleanup
            BY <2>3, <3>1
        <3> HIDE DEF c, now
        <3>3. op.cleanup \subseteq now.cleanup
            BY <2>3
        <3> QED BY <3>2, <3>3 DEF Listed
    <2>5. state'[k] = now
        BY <1>0, <2>1
    <2> HIDE DEF now
    <2>6. ASSUME row'.ref = now.target PROVE After(now, FALSE)
        <3> SUFFICES ASSUME NEW s \in Sandboxes \ overwritten, boxes[s].state = "up", s # op.target, s <= op.id
                     PROVE  s \in Listed(now)
            BY <2>1, <2>3, <2>6 DEF After
        <3>1. CASE s = row.ref
            <4>1. k # "recovery"
                BY <1>21, <3>1 DEF Publish, Service, InService, Exists, Working
            <4> QED BY <1>8, <1>21, <2>4, <3>1, <4>1, Values DEF Coroutines, Publish, Working
        <3>2. CASE s # row.ref
            <4>1. s # op.id
                BY <1>21 DEF Account, Publish, Working
            <4> QED BY <1>0, <2>4, <3>2, <4>1 DEF Covers
        <3> QED BY <3>1, <3>2
    <2>7. ASSUME row' = row PROVE After(now, TRUE)
        BY <1>0, <2>1, <2>2, <2>3, <2>4, <2>7, AfterSame DEF Follows
    <2>8. at[k] \in Working \ {"allocate"} /\ "handler" \in Handling
        BY <1>21 DEF Publish, Working, Handling
    <2>9. CASE Wrote(now) /\ row' = [ref |-> now.target, generation |-> now.generation + 1,
                                   status |-> "ready", decision |-> FALSE]
        <3>1. row'.ref = now.target
            BY <2>9
        <3>2. at'[k] # "idle" /\ at[k] \in Working \ {"allocate"}
            BY <2>1, <2>8
        <3> QED BY <2>1, <2>2, <2>5, <2>6, <2>9, <3>1, <3>2
    <2>10. CASE UNCHANGED <<row, journal, overwritten>> /\ at'[k] = "handler"
        BY <2>2, <2>5, <2>7, <2>8, <2>10
    <2> QED BY <2>1, <2>9, <2>10
<1>22. CASE Unpin(k)
    BY <1>0, <1>1, <1>2, <1>3, <1>4, <1>5, <1>7, <1>9, <1>22 DEF Unpin, MayHaveWritten, Working, Late, Handling, Settling
<1>23. CASE Cleanup(k)
    <2>1. PICK now \in Operations :
              /\ state'[k] = now /\ Follows(k, now) /\ now.phase = state[k].phase
              /\ \A s \in Sandboxes : s \in Listed(state[k]) /\ s \notin Listed(now) => boxes'[s].state # "up"
        BY <1>0, <1>23, CleanupEnds
    <2>2. UNCHANGED <<row, journal, overwritten>> /\ at[k] \in {"cleanup", "sweep"} /\ at'[k] # "idle"
        BY <1>0, <1>23 DEF Cleanup
    <2>3. \A s \in Sandboxes : boxes'[s].state = "up" => boxes[s].state = "up"
        BY <1>0, <2>2, Values, StepUp
    <2>4. After(now, FALSE)
        BY <1>0, <2>1, <2>2, <2>3 DEF After, Covers, Follows, Handling
    <2> QED BY <2>1, <2>2, <2>4
<1>24. CASE Record(k)
    BY <1>0, <1>1, <1>2, <1>3, <1>4, <1>5, <1>7, <1>9, <1>24 DEF Record, End, MayHaveWritten, Working, Late, Handling, Settling
<1>25. CASE Handler(k)
    <2>0. UNCHANGED <<row, boxes, journal, overwritten>>
        BY <1>25 DEF Handler
    <2>1. CASE Fault /\ End(k, FALSE)
        BY <1>0, <1>1, <2>0, <2>1 DEF End
    <2>2. CASE Published(state[k]) /\ Goto(k, "activated") /\ UNCHANGED state
        <3>1. row.generation \in Nat /\ state[k].generation \in Nat
            BY <1>0 DEF Known, TypeOK, DataOK, Operations
        <3>2. row.ref = state[k].target /\ state[k].phase = "completed"
            BY <1>25, <2>2, <3>1 DEF Handler, Handling, Account, Published
        <3>3. at[k] = "handler"
            BY <1>25, <3>2 DEF Handler, Account
        <3>4. state[k].id = row.ref \/ boxes[state[k].id].state = "none"
            BY <3>2, <3>3 DEF Account
        <3>5. After(state[k], FALSE)
            BY <1>0, <2>0, <3>4, AfterSame
        <3> QED BY <1>0, <1>1, <2>0, <2>2, <3>5
    <2>3. CASE at[k] = "handler" /\ state' = [state EXCEPT ![k] = Failed(@)] /\ Goto(k, "settle")
        <3>1. Follows(k, Failed(state[k])) /\ Failed(state[k]).id = state[k].id /\ Failed(state[k]) \in Operations
              /\ Listed(state[k]) \subseteq Listed(Failed(state[k]))
              /\ (state[k].target \in Sandboxes => state[k].target \in Listed(Failed(state[k])))
            BY <1>0, FollowsRevised, FailedFacts
        <3>2. state[k].id \in Listed(Failed(state[k])) \/ boxes[state[k].id].state = "none"
            BY <1>0, <2>3, <3>1, Values DEF Account, Operations
        <3>3. After(Failed(state[k]), FALSE)
            BY <1>0, <2>0, <3>1, <3>2, AfterSame
        <3> QED BY <1>0, <2>0, <2>3, <3>1, <3>3
    <2>4. CASE state' = [state EXCEPT ![k] = Unknown(@)] /\ Goto(k, "settle")
        <3>1. Follows(k, Unknown(state[k])) /\ Unknown(state[k]).id = state[k].id /\ Unknown(state[k]) \in Operations
              /\ Listed(state[k]) = Listed(Unknown(state[k])) /\ Unknown(state[k]).phase \in ACTIVE_PHASES
            BY <1>0, FollowsRevised, UnknownFacts DEF ACTIVE_PHASES
        <3>3. After(Unknown(state[k]), FALSE)
            BY <1>0, <2>0, <3>1, AfterSame
        <3> QED BY <1>0, <2>0, <2>4, <3>1, <3>3
    <2> QED BY <1>25, <2>1, <2>2, <2>3, <2>4 DEF Handler
<1>26. CASE Activated(k)
    <2>1. at[k] = "activated" /\ at[k] \notin Handling /\ state[k].phase \notin ACTIVE_PHASES
        BY <1>3, <1>26 DEF Activated, Late, Handling
    <2>2. UNCHANGED <<row, boxes, journal, overwritten>>
        BY <1>26 DEF Activated
    <2>3. After([state[k] EXCEPT !.phase = "completed"], FALSE)
        BY <1>0, <2>1, <2>2, AfterPhase
    <2> QED BY <1>0, <1>1, <1>26, <2>2, <2>3 DEF Activated
<1>27. CASE Settle(k)
    BY <1>0, <1>1, <1>2, <1>3, <1>4, <1>5, <1>7, <1>9, <1>27 DEF Settle, End, MayHaveWritten, Working, Late, Handling, Settling
<1>28. CASE Forgive(k)
    BY <1>0, <1>1, <1>2, <1>3, <1>4, <1>5, <1>7, <1>9, <1>28 DEF Forgive, End, MayHaveWritten, Working, Late, Handling, Settling
<1>29. CASE Swept(k)
    BY <1>0, <1>1, <1>2, <1>3, <1>4, <1>5, <1>7, <1>9, <1>29 DEF Swept, End, MayHaveWritten, Working, Late, Handling, Settling
<1> QED BY <1>10, <1>11, <1>12, <1>13, <1>14, <1>15, <1>16, <1>17, <1>18, <1>19, <1>20, <1>21, <1>22, <1>23, <1>24, <1>25, <1>26, <1>27, <1>28, <1>29 DEF Step

(* Two transitions meet only when the older one has published its result.    *)
LEMMA Meeting ==
    ASSUME Known, NEW j \in Coroutines, NEW k \in Coroutines, j # k, at[j] # "idle", at[k] # "idle", Accounts
    PROVE  /\ at["switch"] \in {"cleanup", "record", "activated"} \cup Settling /\ state["switch"].phase = "completed"
           /\ state["switch"].id < state["recovery"].id
           /\ (k = "switch" /\ j = "recovery") \/ (k = "recovery" /\ j = "switch")
<1>1. "mend" \notin {j, k}
    <2>1. at["mend"] # "idle" => at["switch"] = "idle" /\ owner = "mend"
        BY DEF Known, OwnersWork, OneTransition
    <2>2. at["recovery"] # "idle" => owner = caller /\ caller # "mend"
        BY Values DEF Known, OwnersWork, TypeOK, TransitOK, Coroutines
    <2> QED BY <2>1, <2>2 DEF Coroutines
<1>2. (k = "switch" /\ j = "recovery") \/ (k = "recovery" /\ j = "switch")
    BY <1>1 DEF Coroutines
<1>3. ~Reserved /\ at["switch"] # "idle"
    BY <1>2 DEF Known, OneTransition
<1>4. at["switch"] \in {"cleanup", "record", "activated"} \cup Settling
    BY <1>3 DEF Known, TypeOK, TransitOK, Reserved, Late, Coroutines
<1>5. state["switch"].phase = "completed"
    BY <1>3, <1>4, AccountsAll DEF Known, OneTransition, Reserved, Account, Coroutines
<1> QED BY <1>2, <1>4, <1>5 DEF Known, Numbered

(* One that writes over the record of a newer one leaves it overwritten.     *)
LEMMA WroteFacts ==
    ASSUME TypeOK, NEW now \in Operations, Wrote(now)
    PROVE  /\ journal' = now /\ overwritten \subseteq overwritten'
           /\ \A s \in Sandboxes : s \in overwritten' <=> s \in overwritten \/ (now.id < s /\ s <= journal.id)
           /\ now.id < journal.id => journal.id \in overwritten'
<1>1. journal.id \in Nat /\ now.id \in Nat /\ Sandboxes \subseteq Nat
    BY Values DEF TypeOK, DataOK, Operations
<1> QED BY <1>1 DEF Wrote

LEMMA StepOther ==
    ASSUME Known, Service, Accounts, NEW k \in Coroutines, Step(k), NEW j \in Coroutines \ {k}, at[j] # "idle"
    PROVE  Account(j)'
<1>0. /\ at[k] # "idle" /\ at'[j] = at[j] /\ state'[j] = state[j] /\ TypeOK
      /\ \A i \in Coroutines : state[i] \in Operations /\ state[i].id \in Sandboxes /\ state[i].id \in Nat
      /\ row \in [ref : Refs, generation : Nat, decision : BOOLEAN,
                  status : {"ready", "stopped", "destroyed", "unavailable"}]
    BY StepOperation, Values DEF Known, TypeOK, DataOK, TransitOK, Operations
<1>1. Account(j) /\ Account(k)
    BY <1>0, AccountsAll
<1>2. /\ at["switch"] \in {"cleanup", "record", "activated"} \cup Settling /\ state["switch"].phase = "completed"
      /\ state["switch"].id < state["recovery"].id
      /\ (k = "switch" /\ j = "recovery") \/ (k = "recovery" /\ j = "switch")
    BY <1>0, <1>1, Meeting
<1>3. PICK now : Becomes(k, now)
    BY <1>1, StepBecomes
<1>4. /\ now \in Operations /\ now.id = state[k].id /\ now.target \in Targets(now) /\ \A s \in Listed(now) : s <= now.id
    BY <1>0, <1>3, FollowsNumbered DEF Becomes, Follows, Known
<1>5. overwritten \subseteq overwritten' /\ (UNCHANGED <<journal, overwritten>> \/ Wrote(now))
    BY <1>0, <1>3, <1>4, WroteFacts DEF Becomes
<1>6. \A s \in Sandboxes : s > state[k].id => boxes'[s] = boxes[s]
    <2> SUFFICES ASSUME NEW s \in Sandboxes, s > state[k].id, boxes'[s] # boxes[s] PROVE FALSE
        OBVIOUS
    <2>1. Touched(k, s) /\ s \in Nat /\ s # NoRef /\ s # Local
        BY <1>0, Values, StepBoxes
    <2>2. state[k].target \in Targets(state[k]) /\ \A i \in Listed(state[k]) : i <= state[k].id
        BY DEF Known, Numbered
    <2> QED BY <1>0, <2>1, <2>2 DEF Touched, Targets
<1>7. \A s \in Sandboxes : s < state[k].id /\ boxes'[s].state \in {"up", "coming"} => boxes[s].state = boxes'[s].state
    <2> SUFFICES ASSUME NEW s \in Sandboxes, s < state[k].id, boxes'[s].state \in {"up", "coming"},
                        boxes[s].state # boxes'[s].state
                 PROVE  FALSE
        OBVIOUS
    <2>1. Touched(k, s)
        BY <1>0, Values, StepBoxes
    <2> QED BY <1>0, <2>1 DEF Touched
<1>8. Covers(j)'
    <2> SUFFICES ASSUME NEW s \in Sandboxes, s \notin overwritten', boxes'[s].state = "up", s # row'.ref, s <= state[j].id
                 PROVE  s \in Listed(state[j]) \/ (s = state[j].id /\ (at[j] \in Handling \/ state[j].phase \in ACTIVE_PHASES))
        BY <1>0 DEF Covers, Listed
    <2>1. (s \in Nat /\ s # state[k].id) \/ (s = state[k].id /\ k = "switch" /\ at[k] \in {"cleanup", "record", "activated"} \cup Settling)
        BY <1>0, <1>2, Values
    <2>2. boxes[s].state = "up"
        <3>1. CASE s = state[k].id
            <4>1. at[k] # "allocate"
                BY <1>0, <1>2, <2>1, <3>1 DEF Settling
            <4> QED BY <1>0, <4>1, Values, StepUp
        <3>2. CASE s # state[k].id
            BY <1>0, <1>6, <1>7, <3>2, Values
        <3> QED BY <3>1, <3>2
    <2>3. CASE s # row.ref
        BY <1>1, <1>5, <2>2, <2>3 DEF Account, Covers
    <2>4. CASE s = row.ref
        <3>1. at[k] = "publish"
            BY <1>0, <2>4, StepRef
        <3>2. k = "recovery"
            BY <1>2, <3>1 DEF Settling
        <3> QED BY <2>2, <2>4, <3>1, <3>2 DEF Service, InService, Exists, Working
    <2> QED BY <2>3, <2>4
<1>9. journal'.phase \in ACTIVE_PHASES => state[j].id <= journal'.id
    <2>1. CASE UNCHANGED journal
        BY <1>1, <2>1 DEF Account
    <2>2. CASE Wrote(now) /\ k = "recovery"
        BY <1>0, <1>2, <1>4, <2>2 DEF Wrote
    <2>3. CASE Wrote(now) /\ k = "switch" /\ ~UNCHANGED <<journal, overwritten>>
        <3>1. now = state[k]
            BY <1>2, <1>3, <2>3 DEF Becomes, Working, Settling
        <3> QED BY <1>2, <2>3, <3>1 DEF Wrote, ACTIVE_PHASES
    <2> QED BY <1>2, <1>5, <2>1, <2>2, <2>3
<1>10. at[j] \in Working \cup {"handler"} /\ state[j].target # state[j].id => boxes'[state[j].id].state = "none"
    BY <1>0, <1>1, <1>2, <1>6 DEF Account, Working, Settling
<1>11. at[j] = "allocate" => \/ state[j].id \in overwritten' /\ journal'.id # state[j].id
                             \/ journal'.id = state[j].id /\ Blind(journal')
    <2> SUFFICES ASSUME at[j] = "allocate"
                 PROVE  \/ state[j].id \in overwritten' /\ journal'.id # state[j].id
                        \/ journal'.id = state[j].id /\ Blind(journal')
        OBVIOUS
    <2>1. k = "switch" /\ state[k].id < state[j].id
        BY <1>2 DEF Settling
    <2>2. CASE UNCHANGED <<journal, overwritten>>
        BY <1>1, <2>2 DEF Account, Blind
    <2>3. CASE Wrote(now)
        BY <1>0, <1>1, <1>4, <2>1, <2>3, WroteFacts DEF Account
    <2> QED BY <1>5, <2>2, <2>3
<1>12. at[j] \in Handling => row'.generation = row.generation /\ row'.ref = row.ref
    <2>1. at[j] \in Handling => k = "switch" /\ at[k] # "publish"
        BY <1>2 DEF Handling, Settling
    <2> QED BY <1>0, <2>1, StepRef
<1>13. boxes'[state[j].id].state = "coming" => boxes[state[j].id].state = "coming"
    BY <1>0, <1>2, <1>6, <1>7
<1> QED BY <1>0, <1>1, <1>8, <1>9, <1>10, <1>11, <1>12, <1>13 DEF Account, Settled

LEMMA StepOwn ==
    ASSUME Known, Service, Accounts, NEW k \in Coroutines, Step(k), at'[k] # "idle"
    PROVE  Account(k)'
<1>0. /\ at[k] # "idle" /\ TypeOK /\ Account(k)
      /\ state[k] \in Operations /\ state[k].id \in Sandboxes /\ state[k].id \in Refs /\ state[k].id \in Nat
      /\ row \in [ref : Refs, generation : Nat, decision : BOOLEAN,
                  status : {"ready", "stopped", "destroyed", "unavailable"}]
    BY StepOperation, AccountsAll, Values DEF Known, TypeOK, DataOK, TransitOK, Operations
<1>1. PICK now : Becomes(k, now)
    BY <1>0, StepBecomes
<1>2. /\ now \in Operations /\ now = state'[k] /\ now.id = state[k].id /\ now.kind = state[k].kind
      /\ now.generation = state[k].generation
      /\ now.target = state[k].target \/ (at[k] = "allocate" /\ now.target = state[k].id)
                                      \/ (at[k] = "restoring" /\ state[k].local /\ now.target = Local)
    BY <1>1 DEF Becomes, Follows
<1>3. overwritten \subseteq overwritten' /\ (UNCHANGED <<journal, overwritten>> \/ Wrote(now))
    BY <1>0, <1>1, <1>2, WroteFacts DEF Becomes
<1>4. Covers(k)'
    BY <1>1, <1>2, <1>3 DEF Becomes, After, Covers, Listed, Handling
<1>5. journal'.phase \in ACTIVE_PHASES => now.id <= journal'.id
    BY <1>0, <1>2, <1>3, Values DEF Account, Wrote
<1>6. at'[k] \in Working \cup {"handler"} /\ now.target # now.id => boxes'[now.id].state = "none"
    <2> SUFFICES ASSUME at'[k] \in Working \cup {"handler"}, now.target # now.id PROVE boxes'[now.id].state = "none"
        OBVIOUS
    <2>1. at[k] \in Working
        BY <1>0, StepMoves
    <2>2. at[k] = "restoring" /\ state[k].local => state[k].target = NoRef
        BY DEF Known, Destined
    <2>3. state[k].target # state[k].id
        BY <1>0, <1>2, <2>2, Values
    <2>4. boxes[now.id].state = "none"
        BY <1>0, <1>2, <2>1, <2>3 DEF Account
    <2>5. CASE at[k] = "allocate"
        <3>1. Allocate(k)
            BY <2>5 DEF Step, Journal, Start, Pin, Provisioning, Remember, Restoring, Restore, Verifying, Verify,
                   Activating, Publish, Unpin, Cleanup, Record, Handler, Activated, Settle, Forgive, Swept
        <3>2. CASE state' = [state EXCEPT ![k].target = state[k].id]
            <4>1. now.target = state[k].id
                BY <1>0, <1>2, <3>2 DEF TypeOK, TransitOK, Operations
            <4> QED BY <1>2, <4>1
        <3>3. CASE at' = [at EXCEPT ![k] = "uncertain"]
            BY <3>3 DEF Known, TypeOK, TransitOK, Working
        <3>4. CASE UNCHANGED boxes
            BY <2>4, <3>4
        <3> QED BY <3>1, <3>2, <3>3, <3>4 DEF Allocate
    <2>6. CASE at[k] # "allocate"
        BY <1>0, <1>2, <2>1, <2>4, <2>6, StepUp DEF Working
    <2> QED BY <2>5, <2>6
<1>7. at'[k] = "allocate" => journal'.id = now.id /\ Blind(journal')
    BY <1>0, <1>2, StepMoves DEF Blind
<1>8. at'[k] = "uncertain" => now.phase = "provisioning" /\ ~now.local /\ now.target = NoRef
    BY <1>0, <1>2, StepMoves DEF Known, Destined
<1>9. at'[k] \in Handling => \/ row'.generation = now.generation
                             \/ /\ row'.generation = now.generation + 1
                                /\ row'.ref = now.target /\ now.phase = "completed"
    <2> SUFFICES ASSUME at'[k] \in Handling
                 PROVE  \/ row'.generation = now.generation
                        \/ /\ row'.generation = now.generation + 1
                           /\ row'.ref = now.target /\ now.phase = "completed"
        OBVIOUS
    <2>1. at[k] \in Working
        BY <1>0, StepMoves DEF Handling, Working
    <2>2. row.generation = state[k].generation
        BY <2>1 DEF Service, InService
    <2>3. CASE at[k] = "publish" /\ row'.ref = state[k].target /\ row'.generation = row.generation + 1
        <3>1. Publish(k)
            BY <2>3 DEF Step, Journal, Start, Pin, Provisioning, Allocate, Remember, Restoring, Restore, Verifying, Verify,
                   Activating, Unpin, Cleanup, Record, Handler, Activated, Settle, Forgive, Swept
        <3>2. \E c : state' = [state EXCEPT ![k] = [state[k] EXCEPT !.phase = "completed", !.cleanup = c]]
            BY <3>1 DEF Publish
        <3>3. now.phase = "completed"
            BY <1>0, <1>2, <3>2 DEF TypeOK, TransitOK, Operations
        <3> QED BY <1>2, <2>2, <2>3, <3>3
    <2>4. CASE row'.generation = row.generation
        BY <1>2, <2>2, <2>4
    <2> QED BY <1>0, <2>3, <2>4, StepRef
<1>10. at'[k] = "activated" => now.phase = "completed"
    BY <1>0, <1>2, StepMoves
<1>11. at'[k] \in Settling => Settled(now)
    BY <1>0, <1>2, StepMoves DEF Settled
<1>12. boxes'[now.id].state = "coming" =>
          at'[k] = "uncertain" \/ (at'[k] \in Settling /\ now.phase = "allocation_unknown")
    <2> SUFFICES ASSUME boxes'[now.id].state = "coming"
                 PROVE  at'[k] = "uncertain" \/ (at'[k] \in Settling /\ now.phase = "allocation_unknown")
        OBVIOUS
    <2>1. CASE at[k] = "allocate"
        <3>1. Allocate(k)
            BY <2>1 DEF Step, Journal, Start, Pin, Provisioning, Remember, Restoring, Restore, Verifying, Verify,
                   Activating, Publish, Unpin, Cleanup, Record, Handler, Activated, Settle, Forgive, Swept
        <3>2. CASE boxes' = [boxes EXCEPT ![state[k].id] = [state |-> "up", files |-> 0]]
            BY <1>0, <1>2, <3>2 DEF TypeOK, DataOK
        <3>3. CASE at' = [at EXCEPT ![k] = "uncertain"]
            BY <3>3 DEF Known, TypeOK, TransitOK
        <3>4. CASE UNCHANGED boxes
            BY <1>0, <1>2, <2>1, <3>4 DEF Account, Settling
        <3> QED BY <3>1, <3>2, <3>3, <3>4 DEF Allocate
    <2>2. CASE at[k] # "allocate"
        <3>1. boxes[now.id].state = "coming"
            BY <1>0, <1>2, <2>2, StepUp
        <3> QED BY <1>0, <1>2, <3>1, StepMoves DEF Account, Settling
    <2> QED BY <2>1, <2>2
<1>13. k = "switch" => now.kind = "switch"
    BY <1>0, <1>2 DEF Account
<1> QED BY <1>2, <1>4, <1>5, <1>6, <1>7, <1>8, <1>9, <1>10, <1>11, <1>12, <1>13 DEF Account, Settled

LEMMA StepSandboxes ==
    ASSUME Known, Service, Book, NEW k \in Coroutines, Step(k)
    PROVE  SandboxesAccounted'
<1>0. /\ TypeOK /\ Account(k) /\ state[k] \in Operations /\ state[k].id \in Nat /\ Sandboxes \subseteq Nat /\ Sandboxes \subseteq Refs
      /\ journal \in Operations /\ journal.id \in Nat /\ \A s \in Listed(journal) : s <= journal.id
    BY StepOperation, AccountsAll, Values DEF Known, Book, TypeOK, DataOK, TransitOK, Operations, Numbered
<1>1. PICK now : Becomes(k, now)
    BY <1>0, StepBecomes
<1>2. now \in Operations /\ now.id = state[k].id
    BY <1>1 DEF Becomes, Follows
<1> SUFFICES ASSUME NEW s \in Sandboxes, s \notin overwritten', boxes'[s].state = "up", s # row'.ref
             PROVE  OnRecord(s, journal')
    BY DEF SandboxesAccounted, OnRecord, Listed
<1>3. CASE UNCHANGED <<journal, overwritten>> /\ row'.ref = row.ref
    <2>1. CASE boxes[s].state = "up"
        BY <1>3, <2>1 DEF Book, SandboxesAccounted, OnRecord, Listed
    <2>2. CASE boxes[s].state # "up"
        <3>1. at[k] = "allocate" /\ s = state[k].id
            BY <1>0, <2>2, StepBoxes, StepUp DEF Touched
        <3>2. s = journal.id /\ Blind(journal)
            BY <1>0, <1>3, <3>1 DEF Account
        <3> QED BY <1>3, <3>2 DEF Blind, OnRecord, ACTIVE_PHASES
    <2> QED BY <2>1, <2>2
<1>4. CASE Wrote(now) /\ After(now, FALSE) /\ UNCHANGED boxes
    <2>1. journal' = now /\ s \notin overwritten /\ ~(now.id < s /\ s <= journal.id)
        BY <1>0, <1>2, <1>4, WroteFacts
    <2>2. CASE s <= now.id
        BY <1>4, <2>1, <2>2 DEF After, OnRecord, Listed
    <2>3. CASE s > now.id
        <3>1. s # row.ref
            <4>1. CASE at[k] = "publish"
                BY <1>0, <1>2, <2>3, <4>1 DEF Known, Numbered, Working
            <4>2. CASE at[k] # "publish"
                BY <1>0, <4>2, StepRef
            <4> QED BY <4>1, <4>2
        <3>2. OnRecord(s, journal)
            BY <1>4, <2>1, <3>1 DEF Book, SandboxesAccounted
        <3>3. s <= journal.id
            BY <1>0, <3>2 DEF OnRecord
        <3> QED BY <1>0, <1>2, <2>1, <2>3, <3>3
    <2> QED BY <1>0, <1>2, <2>2, <2>3
<1> QED BY <1>1, <1>3, <1>4 DEF Becomes

LEMMA StepArrivals ==
    ASSUME Known, Service, Book, NEW k \in Coroutines, Step(k)
    PROVE  Arrivals'
<1>0. /\ TypeOK /\ Account(k) /\ Arrivals /\ at[k] # "idle" /\ spent'.ops = spent.ops
      /\ state[k] \in Operations /\ state[k].id \in Nat /\ state[k].id \in Sandboxes /\ Sandboxes \subseteq Nat /\ Sandboxes \subseteq Refs
      /\ journal \in Operations /\ journal.id \in Nat /\ journal.id \in Sandboxes /\ spent.ops \in Nat
    BY StepOperation, AccountsAll, Values DEF Known, Book, TypeOK, DataOK, ToolsOK, TransitOK, Operations
<1>1. PICK now : Becomes(k, now)
    BY <1>0, StepBecomes
<1>2. now \in Operations /\ now.id = state[k].id
    BY <1>1 DEF Becomes, Follows
<1>3. \A s \in Sandboxes : s > spent.ops => boxes'[s].state = "none"
    <2> SUFFICES ASSUME NEW s \in Sandboxes, s > spent.ops PROVE boxes'[s] = boxes[s]
        BY <1>0 DEF Arrivals
    <2>1. s # NoRef /\ s # Local
        BY Values
    <2>2. /\ state[k].id <= spent.ops /\ state[k].target \in Targets(state[k])
          /\ \A i \in Listed(state[k]) : i <= state[k].id /\ i \in Nat
        BY <1>0 DEF Known, Numbered, Operations, Listed
    <2> QED BY <1>0, <2>1, <2>2, StepBoxes DEF Touched, Targets
<1>4. ASSUME UNCHANGED <<journal, overwritten>> PROVE Arrivals'
    <2>1. ASSUME NEW s \in Sandboxes, boxes'[s].state \in {"coming", "up"}, boxes[s].state # boxes'[s].state
          PROVE  at[k] = "allocate" /\ s = state[k].id
        BY <1>0, <2>1, StepBoxes, StepUp DEF Touched
    <2>2. \A s \in Sandboxes : boxes'[s].state = "coming" =>
              s \in overwritten \/ (s = journal.id /\ Blind(journal))
        BY <1>0, <2>1 DEF Arrivals, Account
    <2>3. boxes'[journal.id].state = "coming" => Blind(journal)
        BY <1>0, <2>1 DEF Arrivals, Account
    <2>4. journal.phase \in ACTIVE_PHASES /\ ~Blind(journal) /\ journal.id \notin overwritten
          /\ journal.target # journal.id => boxes'[journal.id].state # "up"
        BY <1>0, <2>1 DEF Arrivals, Account
    <2> QED BY <1>0, <1>3, <1>4, <2>2, <2>3, <2>4 DEF Arrivals, Blind
<1>5. ASSUME Wrote(now), UNCHANGED boxes,
             at[k] \in Working \ {"allocate"} \/ (at[k] \in {"record", "settle", "swept"} /\ now = state[k])
      PROVE  Arrivals'
    <2>1. journal' = now /\ overwritten \subseteq overwritten' /\ (now.id < journal.id => journal.id \in overwritten')
        BY <1>0, <1>2, <1>5, WroteFacts
    <2>2. boxes[now.id].state = "coming" => Blind(now)
        BY <1>0, <1>2, <1>5 DEF Account, Working, Settling, Settled, Blind
    <2>3. \A s \in Sandboxes : boxes'[s].state = "coming" =>
              s \in overwritten' \/ (s = journal'.id /\ Blind(journal'))
        <3> SUFFICES ASSUME NEW s \in Sandboxes, boxes[s].state = "coming", s \notin overwritten'
                     PROVE  s = now.id /\ Blind(now)
            BY <1>5, <2>1 DEF Blind
        <3>1. s = journal.id /\ Blind(journal)
            BY <1>0, <2>1 DEF Arrivals
        <3>2. state[k].id <= journal.id
            BY <1>0, <3>1 DEF Account, Blind, ACTIVE_PHASES
        <3> QED BY <1>0, <1>2, <2>1, <2>2, <3>1, <3>2
    <2>4. now.phase \in ACTIVE_PHASES /\ ~Blind(now) /\ now.target # now.id => boxes[now.id].state # "up"
        <3>1. CASE at[k] \in Working \ {"allocate"}
            <4>1. at[k] = "restoring" /\ state[k].local => state[k].target = NoRef
                BY DEF Known, Destined
            <4>2. now.target # now.id => state[k].target # state[k].id
                BY <1>0, <1>1, <1>2, <3>1, <4>1, Values DEF Becomes, Follows
            <4> QED BY <1>0, <1>2, <3>1, <4>2 DEF Account
        <3>2. CASE at[k] \in {"record", "settle", "swept"} /\ now = state[k]
            BY <1>0, <3>2 DEF Known, OneTransition, Account, Settling, Settled, Blind, ACTIVE_PHASES
        <3> QED BY <1>5, <3>1, <3>2
    <2> QED BY <1>0, <1>3, <1>5, <2>1, <2>2, <2>3, <2>4 DEF Arrivals, Blind
<1> QED BY <1>1, <1>4, <1>5 DEF Becomes

LEMMA StepBook ==
    ASSUME Known, Service, Book, NEW k \in Coroutines, Step(k)
    PROVE  Book'
<1>1. ASSUME NEW j \in Coroutines, at'[j] # "idle" PROVE Account(j)'
    <2>1. j = k \/ at[j] # "idle"
        BY <1>1, StepOperation DEF Known
    <2> QED BY <1>1, <2>1, StepOwn, StepOther DEF Book
<1>2. Accounts'
    BY <1>1 DEF Accounts, Account, Settled
<1> QED BY <1>2, StepSandboxes, StepArrivals DEF Book

-----------------------------------------------------------------------------
(* The steps that are not of a transition.                                   *)
LEMMA QuietBook ==
    ASSUME Known, Service, Book, Quiet
    PROVE  Book'
<1>0. /\ TypeOK /\ SandboxesAccounted /\ Accounts /\ Arrivals /\ InService /\ row.ref \in Refs
      /\ \A k \in Coroutines : state[k].id \in Sandboxes /\ state[k].id \in Nat
      /\ journal.id \in Sandboxes /\ journal.id \in Nat /\ Sandboxes \subseteq Refs
    BY Values DEF Known, Service, Book, TypeOK, DataOK, TransitOK, Operations
<1>1. /\ UNCHANGED <<journal, overwritten, state, at>> /\ spent'.ops = spent.ops
      /\ row'.ref = row.ref /\ row'.generation = row.generation
    BY <1>0, QuietFrame
<1>2. ASSUME NEW s \in Sandboxes, boxes'[s].state = "up", s # row.ref
      PROVE  boxes[s].state = "up" \/ boxes[s].state = "coming"
    BY <1>0, <1>2, QuietBoxes
<1>3. ASSUME NEW s \in Sandboxes, boxes'[s].state = "coming" PROVE boxes[s].state = "coming"
    BY <1>0, <1>3, QuietBoxes
<1>4. ASSUME NEW s \in Sandboxes, boxes[s].state = "none" PROVE boxes'[s].state = "none"
    BY <1>0, <1>4, QuietBoxes DEF InService, Exists
<1>5. SandboxesAccounted'
    <2> SUFFICES ASSUME NEW s \in Sandboxes, s \notin overwritten, boxes'[s].state = "up", s # row.ref
                 PROVE  OnRecord(s, journal)
        BY <1>1 DEF SandboxesAccounted, OnRecord, Listed
    <2>1. boxes[s].state = "coming" => s = journal.id /\ Blind(journal)
        BY <1>0 DEF Arrivals
    <2> QED BY <1>0, <1>2, <2>1 DEF SandboxesAccounted, OnRecord, Blind, ACTIVE_PHASES
<1>6. ASSUME NEW k \in Coroutines, at[k] # "idle" PROVE Account(k)'
    <2>0. Account(k)
        BY <1>0, <1>6, AccountsAll
    <2>1. Covers(k)'
        <3> SUFFICES ASSUME NEW s \in Sandboxes, s \notin overwritten, boxes'[s].state = "up", s # row.ref, s <= state[k].id
                     PROVE  s \in Listed(state[k]) \/ (s = state[k].id /\ (at[k] \in Handling \/ state[k].phase \in ACTIVE_PHASES))
            BY <1>1 DEF Covers, Listed
        <3>1. CASE boxes[s].state = "up"
            BY <2>0, <3>1 DEF Account, Covers
        <3>2. CASE boxes[s].state = "coming"
            <4>1. s = journal.id /\ Blind(journal)
                BY <1>0, <3>2 DEF Arrivals
            <4>2. s = state[k].id
                BY <1>0, <2>0, <4>1 DEF Account, Blind, ACTIVE_PHASES
            <4> QED BY <2>0, <3>2, <4>2 DEF Account, Handling, ACTIVE_PHASES
        <3> QED BY <1>2, <3>1, <3>2
    <2> QED BY <1>0, <1>1, <1>3, <1>4, <2>0, <2>1 DEF Account, Settled, Blind
<1>7. Accounts'
    BY <1>1, <1>6 DEF Accounts, Account, Settled
<1>8. journal.phase \in ACTIVE_PHASES /\ ~Blind(journal) /\ journal.id \notin overwritten
      /\ journal.target # journal.id => boxes'[journal.id].state # "up"
    <2> SUFFICES ASSUME journal.phase \in ACTIVE_PHASES, ~Blind(journal), journal.id \notin overwritten,
                        journal.target # journal.id, boxes'[journal.id].state = "up"
                 PROVE  FALSE
        OBVIOUS
    <2>1. boxes[journal.id].state \notin {"up", "coming"}
        BY <1>0 DEF Arrivals
    <2>2. ~Available
        BY DEF Available
    <2> QED BY <1>0, <2>1, <2>2, QuietBoxes
<1>9. Arrivals'
    BY <1>0, <1>1, <1>3, <1>4, <1>8 DEF Arrivals, Blind
<1> QED BY <1>5, <1>7, <1>9 DEF Book

LEMMA MendCases ==
    ASSUME TypeOK, Recover \/ Abandon
    PROVE  LET now == state'["mend"]
           IN  \/ now = Claimed /\ Located
               \/ now = Unknown(journal) /\ Blind(journal)
               \/ now = Failed(journal) /\ ~Blind(journal) /\ journal.phase \in ACTIVE_PHASES
               \/ now = Failed(journal) /\ boxes[journal.id].state # "coming" /\ ~Located
               \/ now = journal /\ journal.phase \in {"completed", "failed"}
<1>0. state \in [Coroutines -> Operations] /\ "mend" \in Coroutines
    BY DEF TypeOK, TransitOK, Coroutines
<1>1. ASSUME NEW now, NEW next, Mend(now, next) PROVE state'["mend"] = now
    BY <1>0, <1>1 DEF Mend
<1>2. CASE Recover
    BY <1>1, <1>2 DEF Recover
<1>3. CASE Abandon
    BY <1>1, <1>3 DEF Abandon
<1> QED BY <1>2, <1>3

LEMMA MendBook ==
    ASSUME Known, Service, Book, Recover \/ Abandon
    PROVE  Book'
<1>0. /\ TypeOK /\ OwnersWork /\ SandboxesAccounted /\ Accounts /\ Arrivals
      /\ journal \in Operations /\ journal.id \in Sandboxes /\ journal.id \in Nat
    BY Values DEF Known, Book, TypeOK, DataOK, Operations
<1>1. /\ UNCHANGED <<durable, switching, caller, tools, retire, last>> /\ spent'.ops = spent.ops
      /\ at["switch"] = "idle" /\ owner = "nobody" /\ at'["mend"] \in {"settle", "forgive"}
      /\ \A j \in Coroutines \ {"mend"} : at'[j] = at[j] /\ state'[j] = state[j]
      /\ state'["mend"] \in {Claimed, Failed(journal), Unknown(journal), journal}
    BY <1>0, MendFrame
<1>2. SandboxesAccounted' /\ Arrivals'
    BY <1>0, <1>1 DEF SandboxesAccounted, Arrivals, OnRecord, Listed, Blind
<1>3. at["recovery"] = "idle"
    BY <1>0, <1>1 DEF OwnersWork
<1>4. PICK now : now = state'["mend"]
    OBVIOUS
<1>5. /\ now \in Operations /\ now.id = journal.id /\ now.local = journal.local /\ Listed(journal) \subseteq Listed(now)
      /\ now = Claimed => journal.id \in Listed(now)
      /\ now \in {Claimed, Failed(journal)} => now.phase = "failed"
      /\ now = Failed(journal) /\ journal.target \in Sandboxes => journal.target \in Listed(now)
    BY <1>0, <1>1, <1>4, MendFacts
<1>6. now = Unknown(journal) => now.phase = "allocation_unknown"
    BY <1>0, UnknownFacts
<1>7. \/ now = Claimed /\ Located
      \/ now = Unknown(journal) /\ Blind(journal)
      \/ now = Failed(journal) /\ ~Blind(journal) /\ journal.phase \in ACTIVE_PHASES
      \/ now = Failed(journal) /\ boxes[journal.id].state # "coming" /\ ~Located
      \/ now = journal /\ journal.phase \in {"completed", "failed"}
    BY <1>0, <1>4, MendCases
<1>8. ASSUME NEW s \in Sandboxes, s \notin overwritten, boxes[s].state = "up", s # row.ref
      PROVE  s \in Listed(now) \/ (s = now.id /\ now.phase \in ACTIVE_PHASES)
    <2>1. s \in Listed(journal) \/ (s = journal.id /\ journal.phase \in ACTIVE_PHASES)
        BY <1>0, <1>8 DEF SandboxesAccounted, OnRecord
    <2>2. CASE s \in Listed(journal)
        BY <1>5, <2>2
    <2>3. CASE s = journal.id /\ journal.phase \in ACTIVE_PHASES
        <3>1. CASE now = Unknown(journal)
            BY <1>5, <1>6, <2>3, <3>1 DEF ACTIVE_PHASES
        <3>2. CASE now = Failed(journal) /\ ~Blind(journal)
            BY <1>0, <1>5, <1>8, <2>3, <3>2 DEF Arrivals
        <3>3. CASE now = Failed(journal) /\ ~Located
            BY <1>0, <1>8, <2>3, <3>3 DEF Located, Exists
        <3>4. CASE now = journal /\ journal.phase \in {"completed", "failed"}
            BY <2>3, <3>4 DEF ACTIVE_PHASES
        <3> QED BY <1>5, <1>7, <2>3, <3>1, <3>2, <3>3, <3>4
    <2> QED BY <2>1, <2>2, <2>3
<1>9. Settled(now)
    BY <1>5, <1>6, <1>7 DEF Settled, Blind
<1>10. boxes[now.id].state = "coming" => now.phase = "allocation_unknown"
    <2>1. boxes[journal.id].state = "coming" => Blind(journal) /\ ~Located /\ journal.phase \notin {"completed", "failed"}
        BY <1>0 DEF Arrivals, Located, Exists, Blind
    <2> QED BY <1>5, <1>6, <1>7, <2>1
<1>11. Accounts'
    <2> SUFFICES ASSUME NEW k \in Coroutines, at'[k] # "idle" PROVE Account(k)'
        BY DEF Accounts, Account, Settled
    <2>1. k = "mend"
        BY <1>1, <1>3 DEF Coroutines
    <2>2. Covers(k)'
        BY <1>1, <1>4, <1>8, <2>1 DEF Covers, Listed
    <2>3. at'[k] \notin Working \cup Handling \cup {"activated"} /\ at'[k] \in Settling
        BY <1>1, <2>1 DEF Working, Handling, Settling
    <2>4. Settled(state[k])'
        BY <1>4, <1>9, <2>1 DEF Settled
    <2>5. boxes'[state'[k].id].state = "coming" => state'[k].phase = "allocation_unknown"
        BY <1>1, <1>4, <1>10, <2>1
    <2>6. journal'.phase \in ACTIVE_PHASES => state'[k].id <= journal'.id
        BY <1>0, <1>1, <1>4, <1>5, <2>1
    <2> QED BY <2>1, <2>2, <2>3, <2>4, <2>5, <2>6 DEF Account, Working, Handling
<1> QED BY <1>2, <1>11 DEF Book

LEMMA StartBook ==
    ASSUME Known, Service, Book, NEW k \in {"switch", "recovery"}, NEW kind \in {"switch", "recovery"},
           NEW local \in BOOLEAN, NEW revision \in Nat, Begin(k, kind, local, revision),
           UNCHANGED <<book, boxes>>, row'.ref = row.ref, row'.generation = row.generation, Available,
           k = "switch" => kind = "switch"
    PROVE  Book'
<1>0. TypeOK /\ SandboxesAccounted /\ Accounts /\ Arrivals /\ journal.phase \notin ACTIVE_PHASES /\ k \in Coroutines
    BY DEF Known, Book, Available, Coroutines
<1>1. /\ spent'.ops = spent.ops + 1 /\ spent.ops \in Nat /\ spent.ops + 1 \in Sandboxes
      /\ state'[k].id = spent.ops + 1 /\ state'[k].target = NoRef /\ Listed(state'[k]) = Listed(journal)
      /\ at'[k] = "journal" /\ \A j \in Coroutines \ {k} : at'[j] = at[j] /\ state'[j] = state[j]
    BY <1>0, BeginFacts, Values
<1>2. SandboxesAccounted'
    BY <1>0 DEF SandboxesAccounted, OnRecord, Listed
<1>3. Arrivals'
    BY <1>0, <1>1, Values DEF Arrivals, Blind
<1>4. state'[k].kind = kind
    BY <1>0 DEF Begin, TypeOK, TransitOK
<1>5. Account(k)'
    <2>1. Covers(k)'
        BY <1>0, <1>1 DEF Covers, SandboxesAccounted, OnRecord, Listed
    <2>2. boxes[spent.ops + 1].state = "none"
        BY <1>0, <1>1 DEF Arrivals
    <2>3. at'[k] \notin Handling \cup Settling \cup {"allocate", "uncertain", "activated"}
        BY <1>1 DEF Handling, Settling
    <2> QED BY <1>0, <1>1, <1>4, <2>1, <2>2, <2>3 DEF Account
<1>6. ASSUME NEW j \in Coroutines \ {k}, at'[j] # "idle" PROVE Account(j)'
    <2>1. Account(j) /\ at'[j] = at[j] /\ state'[j] = state[j]
        BY <1>0, <1>1, <1>6, AccountsAll
    <2>2. Covers(j)'
        BY <2>1 DEF Account, Covers, Listed
    <2> QED BY <2>1, <2>2 DEF Account, Settled, Blind
<1>7. Accounts'
    BY <1>5, <1>6 DEF Accounts, Account, Settled
<1> QED BY <1>2, <1>3, <1>7 DEF Book

LEMMA BookNext == Known /\ Service /\ Book /\ [Next]_vars => Book'
<1> SUFFICES ASSUME Known, Service, Book, [Next]_vars PROVE Book'
    OBVIOUS
<1>0. TypeOK /\ row \in [ref : Refs, generation : Nat, decision : BOOLEAN,
                         status : {"ready", "stopped", "destroyed", "unavailable"}] /\ ws.head \in Nat
    BY DEF Known, TypeOK, DataOK
<1>1. ASSUME NEW k \in Coroutines, Step(k) PROVE Book'
    BY <1>1, StepBook
<1>2. CASE Quiet
    BY <1>2, QuietBook
<1>3. CASE Crash
    <2>1. UNCHANGED <<row, journal, overwritten, boxes>> /\ \A k \in Coroutines : at'[k] = "idle"
        BY <1>3 DEF Crash
    <2>2. spent'.ops = spent.ops
        BY <1>3 DEF Crash, Fault, Known, TypeOK, ToolsOK
    <2> QED BY <2>1, <2>2 DEF Book, SandboxesAccounted, Accounts, Arrivals, OnRecord, Listed, Blind
<1>4. CASE Recover \/ Abandon
    BY <1>4, MendBook
<1>5. ASSUME NEW local \in BOOLEAN, Request(local) PROVE Book'
    BY <1>0, <1>5, StartBook DEF Request
<1>6. ASSUME NEW who \in Runs \cup {"user"}, NEW local \in BOOLEAN, Replaces(who, local) PROVE Book'
    <2>1. row' = [row EXCEPT !.status = "unavailable", !.decision = TRUE] /\ Begin("recovery", "recovery", local, ws.head)
          /\ UNCHANGED <<book, boxes>> /\ Available
        BY <1>6 DEF Replaces, Recovery
    <2>2. row'.ref = row.ref /\ row'.generation = row.generation
        BY <1>0, <2>1
    <2> QED BY <1>0, <2>1, <2>2, StartBook
<1> QED BY <1>1, <1>2, <1>3, <1>4, <1>5, <1>6, NextCases

-----------------------------------------------------------------------------
(* The theorems.                                                             *)
LEMMA InitInv == Init => IInv
<1> SUFFICES ASSUME Init PROVE IInv
    OBVIOUS
<1> USE DEF Init
<1>1. /\ boxes \in [Refs -> [state : {"none", "coming", "up", "stopped", "gone"}, files : Nat]]
      /\ 0 \in Refs /\ Local \in Refs /\ Local # 0 /\ Local < 0 /\ NoRef # 0 /\ Local \notin Sandboxes
      /\ boxes[0] = [state |-> "up", files |-> 1] /\ boxes[Local].state = "up"
      /\ \A s \in Sandboxes : s # 0 => boxes[s].state = "none"
    BY Values DEF Local, NoRef
<1>2. TypeOK
    <2>1. DataOK
        BY <1>1, Values DEF DataOK
    <2>2. TransitOK
        BY Values DEF TransitOK
    <2>3. ToolsOK
        BY Values DEF ToolsOK, NoContext, NoRetire
    <2> QED BY <2>1, <2>2, <2>3 DEF TypeOK
<1>3. \A k \in Coroutines : at[k] = "idle" /\ state[k] = NoOp
    OBVIOUS
<1>4. OwnersWork /\ OneTransition
    BY <1>3 DEF OwnersWork, OneTransition, Reserved, Holding, Working, Handling, Settling, NoRetire, Coroutines
<1>5. Numbered
    BY <1>1, <1>3 DEF Numbered, Targets, Listed, NoOp, Working, Coroutines
<1>6. Destined /\ Pinned /\ RevisionsKept
    BY <1>3 DEF Destined, Pinned, RevisionsKept, Working
<1>7. InService /\ InContext /\ Retiring
    BY <1>1, <1>3 DEF InService, InContext, Retiring, Working, Exists, NoContext, NoRetire, Coroutines
<1>8. SandboxesAccounted /\ Accounts /\ Arrivals
    BY <1>1, <1>3 DEF SandboxesAccounted, Accounts, Arrivals, NoOp, ACTIVE_PHASES
<1> QED BY <1>2, <1>4, <1>5, <1>6, <1>7, <1>8 DEF IInv

LEMMA InvParts == IInv <=> Known /\ Service /\ Book
BY DEF IInv, Known, Service, Book

(* The invariant is inductive: it holds in every state, for any runs, and any *)
(* number of transitions, writes, failures and restarts.                      *)
THEOREM Invariance == Spec => []IInv
<1>1. Init => IInv
    BY InitInv
<1>2. IInv /\ [Next]_vars => IInv'
    <2>1. Known /\ Service /\ Book /\ [Next]_vars => (Known /\ Service /\ Book)'
        BY KnownNext, ServiceNext, BookNext
    <2>2. (IInv <=> Known /\ Service /\ Book)'
        BY DEF IInv, Known, Service, Book
    <2> QED BY <2>1, <2>2, InvParts
<1> QED BY <1>1, <1>2, PTL DEF Spec

(* Values keep their types.                                                  *)
THEOREM TypeCorrect == Spec => []TypeOK
BY Invariance, PTL DEF IInv

(* Until a requested switch is published or given up, no run holds the        *)
(* workspace: request() looks at the leases and run_lease() at the           *)
(* reservation, at different times and under no common lock.                  *)
THEOREM Exclusion == Spec => []SwitchExcludesRuns
<1>1. IInv => SwitchExcludesRuns
    <2> SUFFICES ASSUME IInv, at["switch"] \in Working
                 PROVE  Leases = {} /\ owner \in {"nobody", "switch", "retire"}
        BY DEF SwitchExcludesRuns, Engaged
    <2>1. TypeOK /\ OwnersWork /\ OneTransition
        BY DEF IInv
    <2>2. Leases = {} /\ at["recovery"] = "idle" /\ at["mend"] = "idle"
        BY <2>1 DEF OneTransition, Reserved
    <2>3. owner \notin Runs \cup {"user", "mend"}
        BY <2>1, <2>2, Values DEF OwnersWork, Leases
    <2> QED BY <2>1, <2>2, <2>3 DEF TypeOK, TransitOK
<1> QED BY <1>1, Invariance, PTL

(* The revision a workspace names can be restored: no collection, after any   *)
(* checkpoint or publication, removed it from the store.                      *)
THEOREM HeadIsKept == Spec => []RevisionsKept
BY Invariance, PTL DEF IInv

(* A sandbox that runs and serves nobody is on record, through every crash    *)
(* and every answer that was lost or late; what a late cleanup of an older    *)
(* transition wrote over is the only exception.                              *)
THEOREM NothingForgotten == Spec => []SandboxesAccounted
BY Invariance, PTL DEF IInv

(* A step that is not of a transition ends the environment in service when    *)
(* it was saved, or because it was lost.                                     *)
LEMMA QuietEnds ==
    ASSUME Known, Service, Quiet, Exists(row.ref), boxes'[row.ref].state # "up", boxes[row.ref].state = "up"
    PROVE  \/ ws.head = boxes[row.ref].files
           \/ row.ref \in Sandboxes /\ SandboxLost(row.ref)
<1>0. /\ row.ref \in Refs /\ InService /\ Retiring /\ InContext
      /\ boxes \in [Refs -> [state : {"none", "coming", "up", "stopped", "gone"}, files : Nat]]
    BY DEF Known, Service, TypeOK, DataOK
<1>1. boxes' # boxes
    OBVIOUS
<1>2. CASE Checkpoint \/ UNCHANGED vars \/ \E r \in Runs : Admit(r) \/ Leave(r) \/ Persist(r)
    BY <1>1, <1>2 DEF Checkpoint, vars, Admit, Leave, Persist
<1>3. CASE Retire
    BY <1>0, <1>1, <1>3 DEF Retire, RetireCheck, RetireSave, RetireProvider, RetireStatus, Retiring
<1>4. ASSUME NEW r \in Runs, Ensure(r) \/ Write(r) PROVE FALSE
    <2>1. CASE Ensure(r)
        BY <1>0, <2>1 DEF Ensure
    <2>2. CASE Write(r)
        <3>1. context[r].ref = row.ref
            BY <1>0, <2>2 DEF Write, InContext
        <3>2. boxes' = boxes \/ boxes' = [boxes EXCEPT ![row.ref] = [state |-> "up", files |-> last + 1]]
            BY <2>2, <3>1 DEF Write
        <3> QED BY <1>0, <1>1, <3>2
    <2> QED BY <1>4, <2>1, <2>2
<1>5. ASSUME NEW s \in Sandboxes, Arrive(s) PROVE FALSE
    BY <1>0, <1>5 DEF Arrive, InService
<1>6. ASSUME NEW s \in Sandboxes, SandboxLost(s) PROVE s = row.ref
    BY <1>0, <1>6 DEF SandboxLost
<1> QED BY <1>2, <1>3, <1>4, <1>5, <1>6 DEF Quiet

(* To start or to mend a transition, or to crash, touches no environment.     *)
LEMMA OthersKeep ==
    ASSUME Known, Crash \/ Recover \/ Abandon \/ (\E local \in BOOLEAN : Request(local))
                  \/ \E who \in Runs \cup {"user"}, local \in BOOLEAN : Replaces(who, local)
    PROVE  /\ UNCHANGED <<ws, boxes, stored, last>>
           /\ row'.ref = row.ref
<1>1. CASE Crash
    BY <1>1 DEF Crash
<1>2. CASE Recover \/ Abandon
    BY <1>2, MendFrame DEF Known
<1>3. ASSUME NEW local \in BOOLEAN, Request(local) PROVE UNCHANGED <<row, ws, boxes, stored, last>>
    BY <1>3 DEF Request
<1>4. ASSUME NEW who, NEW local, Replaces(who, local) PROVE UNCHANGED <<ws, boxes, stored, last>> /\ row'.ref = row.ref
    BY <1>4 DEF Replaces, Recovery, Known, TypeOK, DataOK
<1> QED BY <1>1, <1>2, <1>3, <1>4

(* No call of the program ends the environment in service before its files   *)
(* are saved: a retirement saves under the lock it keeps for the provider,   *)
(* and a cleanup asks what serves a workspace just before it ends anything.  *)
THEOREM SavedBeforeTheEnd == Spec => EndsOnlyWhatIsSaved
<1>1. ASSUME IInv, [Next]_vars
      PROVE  [\A s \in Sandboxes :
                 s = row.ref /\ boxes[s].state = "up" /\ boxes'[s].state # "up"
                     => ws.head = boxes[s].files \/ SandboxLost(s)]_vars
    <2>0. Known /\ Service
        BY <1>1, InvParts
    <2> SUFFICES ASSUME row.ref \in Sandboxes, boxes[row.ref].state = "up", boxes'[row.ref].state # "up"
                 PROVE  ws.head = boxes[row.ref].files \/ SandboxLost(row.ref)
        OBVIOUS
    <2>1. ASSUME NEW k \in Coroutines, Step(k) PROVE FALSE
        BY <2>0, <2>1, ServedBox DEF Exists
    <2>2. CASE Quiet
        BY <2>0, <2>2, QuietEnds DEF Exists
    <2> QED BY <1>1, <2>0, <2>1, <2>2, OthersKeep, NextCases
<1> QED BY <1>1, Invariance, PTL DEF Spec, EndsOnlyWhatIsSaved

-----------------------------------------------------------------------------
(* The refinement of ProjectFiles: files <- those of the environment in       *)
(* service, saved <- the head, available <- whether the environment exists.  *)
LEMMA FilesStep ==
    ASSUME Known, Service, NEW k \in Coroutines, Step(k)
    PROVE  [Files!Next]_(Files!vars)
<1>0. /\ TypeOK /\ Pinned /\ InService /\ Numbered /\ Destined /\ row.ref \in Refs /\ UNCHANGED last
      /\ state[k] \in Operations /\ state[k].id \in Nat /\ row.ref \in Int
    BY StepOperation, ProjectAssumption
    DEF Known, Service, TypeOK, DataOK, TransitOK, Operations, Refs, Sandboxes, Local, ProjectAssumption
<1>1. /\ boxes'[row.ref].files = boxes[row.ref].files
      /\ boxes'[row.ref].state = boxes[row.ref].state \/ (~Exists(row.ref) /\ boxes'[row.ref].state = "gone")
    BY ServedBox
<1>2. CASE row'.ref = row.ref
    <2>1. boxes'[row'.ref].files = boxes[row.ref].files /\ Exists(row.ref)' = Exists(row.ref)
        BY <1>1, <1>2 DEF Exists
    <2>2. CASE ws'.head = ws.head
        BY <1>0, <2>1, <2>2 DEF Files!vars
    <2>3. CASE Exists(row.ref) /\ ws'.head = boxes[row.ref].files
        BY <1>0, <2>1, <2>3 DEF Files!Next, Files!Save
    <2>4. CASE at[k] = "publish" /\ ws'.head = state[k].revision
        BY <1>0, <2>2, <2>4 DEF Pinned, Working
    <2> QED BY <1>0, <2>2, <2>3, <2>4, StepHead
<1>3. CASE row'.ref # row.ref
    <2>1. at[k] = "publish" /\ row'.ref = state[k].target
        BY <1>0, <1>3, StepRef
    <2>3. state[k].revision = ws.head /\ ws.head # 0 /\ boxes[state[k].target].files = state[k].revision
        BY <1>0, <2>1 DEF Pinned, InService, Working
    <2>4. UNCHANGED boxes
        <3>1. Publish(k)
            BY <2>1 DEF Step, Journal, Start, Pin, Provisioning, Allocate, Remember, Restoring, Restore, Verifying, Verify,
                   Activating, Unpin, Cleanup, Record, Handler, Activated, Settle, Forgive, Swept
        <3> QED BY <3>1 DEF Publish
    <2>5. ws'.head = ws.head
        BY <1>0, <2>1, <2>3, StepHead
    <2>6. boxes'[row'.ref].files = ws.head
        BY <2>1, <2>3, <2>4
    <2>7. Exists(row.ref) => boxes[row.ref].files = ws.head
        <3>1. k = "recovery" => ~Exists(row.ref)
            BY <1>0, <2>1 DEF InService, Working
        <3>2. k # "mend"
            BY <2>1 DEF Known, OwnersWork, Settling
        <3> QED BY <1>0, <2>1, <3>1, <3>2 DEF InService, Working, Coroutines
    <2>8. Exists(row.ref)' \in BOOLEAN /\ Exists(row.ref) \in BOOLEAN
        BY DEF Exists
    <2>9. CASE Exists(row.ref) /\ Exists(row.ref)'
        BY <1>0, <2>5, <2>6, <2>7, <2>9 DEF Files!vars
    <2>10. CASE Exists(row.ref) /\ ~Exists(row.ref)'
        BY <1>0, <2>5, <2>6, <2>7, <2>10 DEF Files!Next, Files!Lose
    <2>11. CASE ~Exists(row.ref)
        BY <1>0, <2>3, <2>5, <2>6, <2>8, <2>11 DEF Files!Next, Files!Restore
    <2> QED BY <2>9, <2>10, <2>11
<1> QED BY <1>2, <1>3

LEMMA FilesQuiet ==
    ASSUME Known, Service, Quiet
    PROVE  [Files!Next]_(Files!vars)
<1>0. /\ TypeOK /\ InService /\ InContext /\ row.ref \in Refs
      /\ boxes \in [Refs -> [state : {"none", "coming", "up", "stopped", "gone"}, files : Nat]]
      /\ row'.ref = row.ref /\ ws \in [head : Nat, pinned : Nat, persistence : {"clean", "dirty", "error"}]
    BY QuietFrame DEF Known, Service, TypeOK, DataOK
<1>1. ASSUME ws'.head = ws.head, boxes'[row.ref].files = boxes[row.ref].files, Exists(row.ref)' = Exists(row.ref), UNCHANGED last
      PROVE  UNCHANGED Files!vars
    BY <1>0, <1>1 DEF Files!vars
<1>2. ASSUME ws'.head = boxes[row.ref].files, boxes'[row.ref].files = boxes[row.ref].files, Exists(row.ref),
             Exists(row.ref)' = Exists(row.ref), UNCHANGED last
      PROVE  Files!Next
    BY <1>0, <1>2 DEF Files!Next, Files!Save
<1>3. ASSUME ws'.head = ws.head, boxes'[row.ref].files = boxes[row.ref].files, ~Exists(row.ref)', UNCHANGED last
      PROVE  Files!Next
    BY <1>0, <1>3 DEF Files!Next, Files!Lose
<1>4. ASSUME Saved \/ NotSaved \/ UNCHANGED ws, UNCHANGED <<boxes, last>> PROVE [Files!Next]_(Files!vars)
    <2>1. Exists(row.ref)' = Exists(row.ref) /\ boxes'[row.ref].files = boxes[row.ref].files
        BY <1>0, <1>4 DEF Exists
    <2> QED BY <1>0, <1>1, <1>2, <1>4, <2>1, SavedFacts
<1>5. CASE Checkpoint \/ UNCHANGED vars \/ \E r \in Runs : Admit(r) \/ Leave(r) \/ Persist(r)
    BY <1>4, <1>5 DEF Checkpoint, vars, Admit, Leave, Persist
<1>6. CASE Retire
    <2>1. CASE RetireProvider
        <3>1. \/ boxes' = boxes
              \/ boxes' = [boxes EXCEPT ![row.ref].state = IF retire.action = "stop" /\ Exists(row.ref)
                                                           THEN "stopped" ELSE "gone"]
            BY <2>1 DEF RetireProvider
        <3>2. boxes'[row.ref].files = boxes[row.ref].files /\ (Exists(row.ref)' = Exists(row.ref) \/ ~Exists(row.ref)')
            BY <1>0, <3>1 DEF Exists
        <3>3. UNCHANGED <<ws, last>>
            BY <2>1 DEF RetireProvider
        <3> QED BY <1>1, <1>3, <3>2, <3>3
    <2>2. CASE ~RetireProvider
        BY <1>4, <1>6, <2>2 DEF Retire, RetireCheck, RetireSave, RetireStatus
    <2> QED BY <2>1, <2>2
<1>7. ASSUME NEW r \in Runs, Ensure(r) PROVE [Files!Next]_(Files!vars)
    <2>1. Exists(row.ref) /\ boxes' = [boxes EXCEPT ![row.ref].state = "up"] /\ UNCHANGED last
        BY <1>7 DEF Ensure
    <2>2. boxes'[row.ref].files = boxes[row.ref].files /\ Exists(row.ref)' = Exists(row.ref)
        BY <1>0, <2>1 DEF Exists
    <2>3. ws'.head = ws.head \/ ws'.head = boxes[row.ref].files
        BY <1>0, <1>7 DEF Ensure, Saving, SavingFails
    <2> QED BY <1>1, <1>2, <2>1, <2>2, <2>3
<1>8. ASSUME NEW r \in Runs, Write(r) PROVE [Files!Next]_(Files!vars)
    <2>1. context[r].ref = row.ref /\ ws'.head = ws.head
        BY <1>0, <1>8 DEF Write, InContext
    <2>2. CASE ~Exists(row.ref)
        <3>1. UNCHANGED <<boxes, last>>
            BY <1>8, <2>1, <2>2 DEF Write
        <3>2. Exists(row.ref)' = Exists(row.ref)
            BY <1>0, <3>1 DEF Exists
        <3> QED BY <1>1, <2>1, <3>1, <3>2
    <2>3. CASE Exists(row.ref)
        <3>1. last' = last + 1 /\ boxes' = [boxes EXCEPT ![row.ref] = [state |-> "up", files |-> last + 1]]
            BY <1>8, <2>1, <2>3 DEF Write
        <3>2. boxes'[row.ref].files = last' /\ Exists(row.ref)' = Exists(row.ref)
            BY <1>0, <2>3, <3>1 DEF Exists
        <3> QED BY <1>0, <2>1, <2>3, <3>1, <3>2 DEF Files!Next, Files!Write
    <2> QED BY <2>2, <2>3
<1>9. ASSUME NEW s \in Sandboxes, Arrive(s) \/ SandboxLost(s) PROVE [Files!Next]_(Files!vars)
    <2>1. UNCHANGED <<ws, last>> /\ s \in Refs
        BY <1>9, Values DEF Arrive, SandboxLost
    <2>2. boxes'[row.ref].files = boxes[row.ref].files /\ (Exists(row.ref)' = Exists(row.ref) \/ ~Exists(row.ref)')
        BY <1>0, <1>9, <2>1 DEF Arrive, SandboxLost, Exists, InService
    <2> QED BY <1>1, <1>3, <2>1, <2>2
<1> QED BY <1>5, <1>6, <1>7, <1>8, <1>9 DEF Quiet

(* The files follow the workspace: what a run sees are the files of the last  *)
(* write, saved ones come back as they were saved, and only after the        *)
(* environment was lost; no other step of any actor changes them.            *)
THEOREM FilesFollow == Spec => IsProjectFiles
<1>1. Init => Files!Init
    BY Values DEF Init, Files!Init, Exists
<1>2. ASSUME IInv, [Next]_vars PROVE [Files!Next]_(Files!vars)
    <2>0. Known /\ Service
        BY <1>2, InvParts
    <2>1. ASSUME UNCHANGED <<ws, boxes, stored, last>>, row'.ref = row.ref PROVE UNCHANGED Files!vars
        BY <2>1 DEF Files!vars, Exists
    <2> QED BY <1>2, <2>0, <2>1, FilesStep, FilesQuiet, OthersKeep, NextCases
<1> QED BY <1>1, <1>2, Invariance, PTL DEF Spec, IsProjectFiles, Files!Spec
=============================================================================
