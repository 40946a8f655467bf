------------------------- MODULE MCKernelArithmetic -------------------------
(* KernelArithmetic for TLC: eight bits, and up to four modes in two layouts. *)
EXTENDS KernelArithmetic

MCModes       == {Mode(s, d) : s \in {2, 4}, d \in {0, 1, 2, 4, 6}}
                   \cup {Mode(1, 2), Mode(3, 1), Mode(3, 2), Mode(3, 4), Mode(8, 1)}
MCLengths     == {<<3, 0>>, <<2, 2>>}
MCSizes       == {1, 2, 3, 4, 12}
MCDivisors    == Ints \ {0}
MCSwizzleBits == {<<1, 0, 1>>, <<1, 1, 1>>, <<1, 0, 3>>, <<2, 0, 2>>, <<1, 1, -1>>, <<2, 1, -2>>}
MCBases       == 0 .. 31
=============================================================================
