--------------------------- MODULE MCMemoryPlanner ---------------------------
(***************************************************************************)
(* MemoryPlanner for TLC: four tensors, and sizes of none, one and two      *)
(* units of alignment 2, one of them not a multiple of it.                 *)
(***************************************************************************)
EXTENDS MemoryPlanner, TLC

CONSTANTS t1, t2, t3, t4

MCTensors == {t1, t2, t3, t4}
MCSizes   == {0, 1, 4}

Symmetric == Permutations(MCTensors)

=============================================================================
