------------------------------ MODULE Swizzles ------------------------------
(***************************************************************************)
(* The swizzles of ir/cute/swizzle.py, which scatter the rows of a shared  *)
(* memory tile over its banks, and the layouts they are composed with.     *)
(***************************************************************************)
EXTENDS TensorLayouts, Bitwise

\* abs(shift) >= bits, and shift # 0: the two shift functions call each other for 0.
Swizzle(bits, base, shift) == [bits |-> bits, base |-> base, shift |-> shift]

Positive(x) == IF x > 0 THEN x ELSE 0
Source(sw) == sw.base + Positive(sw.shift)     \* the lowest bit of yyy, which is read
Target(sw) == sw.base + Positive(-sw.shift)    \* the lowest bit of zzz, which is changed

Shifted(x, s) == IF s > 0 THEN x \div 2 ^ s ELSE x * 2 ^ (-s)
Swizzled(sw, x) == x ^^ Shifted(x & ((2 ^ sw.bits - 1) * 2 ^ Source(sw)), sw.shift)

\* Where the swizzle does not see the offsets of a layout, or the layout the changes.
Commutative(sw, a) ==
  LET yyyHi == 2 ^ (sw.bits + Source(sw))
      yyyLo == 2 ^ Positive(Source(sw) - 1)
      zzzHi == 2 ^ (sw.bits + Target(sw))
      zzzLo == 2 ^ Positive(Target(sw) - 1)
  IN  \A m \in ToSet(Filter(a)) :
        \/ m.stride % yyyHi = 0
        \/ m.size * m.stride <= yyyLo /\ m.stride % zzzHi = 0
        \/ m.size * m.stride <= zzzLo

\* An element at offset x of a layout that is composed with a swizzle, from the given base.
ComposedOffset(sw, a, base, x) ==
  IF Commutative(sw, a) THEN Swizzled(sw, base) + x ELSE Swizzled(sw, base + x)

=============================================================================
