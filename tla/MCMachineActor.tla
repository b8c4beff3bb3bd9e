--------------------------- MODULE MCMachineActor ---------------------------
(* MachineActor for TLC: the ids are interchangeable. *)
EXTENDS MachineActor, TLC

Symmetry == Permutations(Prints) \cup Permutations(Inlines)
=============================================================================
