-------------------------- MODULE MCAssistantTurn --------------------------
(* A small instance of AssistantTurn for TLC.                              *)
EXTENDS AssistantTurn, TLC

CONSTANTS c1, c2, c3

Symmetry == Permutations(Calls)

=============================================================================
