-------------------------- MODULE LayoutRewriting --------------------------
(***************************************************************************)
(* What is expected of the functions of TensorLayouts that rewrite a       *)
(* layout or two, whatever the layouts are.                                *)
(***************************************************************************)
EXTENDS TensorLayouts

CONSTANT PartSizes   \* the sizes of parts, and the bounds of a reduction

ASSUME LayoutRewritingAssumption == PartSizes \subseteq Nat \ {0}

VARIABLES lhs, rhs   \* two layouts; the second may be missing, or both

Single == lhs # <<>> /\ rhs = <<>>
Pair   == lhs # <<>> /\ rhs # <<>>

Agree(a, b, indices) == \A i \in indices : Offset(a, i) = Offset(b, i)

\* The modes add up without a carry: at every index the coordinates that the modes of b
\* contribute to a mode of a stay within it.
NoCarry(a, b) == \A i \in Domain(b) : \A k \in 1 .. Len(a) - 1 :
  LET Part(j) == Coordinate(a, Coordinate(b, i, j) * b[j].stride, k)
  IN  FoldLeft(LAMBDA sum, j : sum + Part(j), 0, [j \in DOMAIN b |-> j]) < a[k].size

\* coalesce keeps the function.
Coalesced == Single =>
  Size(Coalesce(lhs)) = Size(lhs) /\ Agree(lhs, Coalesce(lhs), Domain(lhs))

\* The parts of a group, one after the other, are the layout; the first has the size
\* that was asked for, of different offsets when modes of stride 0 are ignored.
Grouped == Single => \A size \in PartSizes :
  /\ LET parts == Group(lhs, size, FALSE)
     IN  parts.ok => /\ Agree(lhs, parts.first \o parts.rest, Domain(lhs))
                     /\ (size <= Size(lhs) => Size(parts.first) = size)
  /\ LET parts == Group(lhs, size, TRUE)
     IN  parts.ok /\ size <= Size(Filter(lhs)) => Size(Filter(parts.first)) = size

\* common_reshape gives both layouts one shape and keeps both functions.
Reshaped == Pair =>
  LET both == CommonReshape(lhs, rhs)
  IN  both.ok => /\ [k \in DOMAIN both.a |-> both.a[k].size] = [k \in DOMAIN both.b |-> both.b[k].size]
                 /\ Agree(lhs, both.a, Domain(both.a)) /\ Agree(rhs, both.b, Domain(both.b))

\* Between lo and hi the offsets of a layout are reduced to one, when modes that pass
\* lo start in step with it, and one that starts above lo does not pass hi.
InStep(m, lo, hi) == LET end == m.size * m.stride IN
  \/ m.stride = 0
  \/ m.stride < lo /\ (end > lo => lo % m.stride = 0)
  \/ m.stride = lo
  \/ m.stride \in lo + 1 .. hi - 1 /\ m.stride % lo = 0 /\ end <= hi
  \/ m.stride % hi = 0
Reduced == Single => \A lo, hi \in PartSizes :
  LET f == FilterLoHi(lhs, lo, hi)
  IN  /\ hi % lo = 0 /\ lo < hi
      /\ f.ok /\ \A k \in DOMAIN lhs : InStep(lhs[k], lo, hi)
      /\ NoCarry(<<Mode(lo, 0), Mode(hi \div lo, 0), Mode(1, 0)>>, lhs)
      => /\ Size(f.out) = Size(lhs)
         /\ \A i \in Domain(lhs) :
              Offset(f.out, i) = (Offset(lhs, i) % lo) + hi * (Offset(lhs, i) \div hi)

\* The functions that rewrite a layout keep what it says of the elements.
LayoutsKeepTheirFunction == Coalesced /\ Grouped /\ Reshaped /\ Reduced

=============================================================================
