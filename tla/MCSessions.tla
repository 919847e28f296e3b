------------------------------ MODULE MCSessions ------------------------------
(* The instances of ActiveSessions that TLC checks: a chat thread and the    *)
(* thread of a sub-agent it has delegated to.                                *)
EXTENDS ActiveSessions, TLC

CONSTANTS chat, child

MCSub == chat :> {child} @@ child :> {}

Symmetry == Permutations(Tasks)
=============================================================================
