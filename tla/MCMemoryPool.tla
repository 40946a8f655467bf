--------------------------- MODULE MCMemoryPool ---------------------------
(* MemoryPool for TLC: a device of four blocks.                            *)
EXTENDS MemoryPool

\* Bound: what follows a spoilt call, of which no property speaks, is not explored.
Undisturbed == ~disturbed
===========================================================================
