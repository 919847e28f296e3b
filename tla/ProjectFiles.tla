---------------------------- MODULE ProjectFiles ----------------------------
(***************************************************************************)
(* What a project workspace promises its users (agent/modules/projects):    *)
(* the files a run sees are those of the last write, wherever they execute; *)
(* they come back as they were saved, and only after their environment was  *)
(* lost.  Where the files are, and how they get there, does not appear.     *)
(***************************************************************************)
EXTENDS Naturals

VARIABLES
    latest,    \* the version of the files in the execution environment
    saved,     \* the version the head revision names, 0 before the first one
    available, \* whether the environment exists
    written    \* the number of versions written so far

vars == <<latest, saved, available, written>>

Init == latest = 1 /\ saved = 0 /\ available = TRUE /\ written = 1

(* A tool writes files: a version nobody has seen, and everyone sees now. *)
Write ==
    /\ available
    /\ written' = written + 1 /\ latest' = written'
    /\ UNCHANGED <<saved, available>>

(* A checkpoint of the files as they are. *)
Save ==
    /\ available
    /\ saved' = latest
    /\ UNCHANGED <<latest, available, written>>

(* The environment is lost, or deleted. *)
Lose ==
    /\ available' = FALSE
    /\ UNCHANGED <<latest, saved, written>>

(* The saved files in a new environment, which may be lost as soon as it is   *)
(* in use: the one way back to an old version.                               *)
Restore ==
    /\ ~available /\ saved # 0
    /\ latest' = saved
    /\ available' \in BOOLEAN
    /\ UNCHANGED <<saved, written>>

Next == Write \/ Save \/ Lose \/ Restore

Spec == Init /\ [][Next]_vars
=============================================================================
