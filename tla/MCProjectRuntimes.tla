-------------------------- MODULE MCProjectRuntimes --------------------------
(* Instances of ProjectRuntimes for TLC. *)
EXTENDS ProjectRuntimes, TLC

CONSTANT MaxSlots

MCSlots == 1..MaxSlots

Symmetry == Permutations(Scopes)
=============================================================================
