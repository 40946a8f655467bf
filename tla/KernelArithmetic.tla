-------------------------- MODULE KernelArithmetic --------------------------
(***************************************************************************)
(* The integer functions that generated kernels rest on, TensorLayouts,    *)
(* Swizzles and FastDivision, for one input after the other: a divisor, or *)
(* two layouts that grow mode by mode.                                     *)
(***************************************************************************)
EXTENDS Swizzles, LayoutRewriting, FastDivision, FiniteSets

CONSTANTS Modes,       \* the modes layouts are made of
          Lengths,     \* bound: the numbers of modes of the two layouts
          Divisors,
          SwizzleBits, \* <<bits, base, shift>>
          Bases        \* of the offsets that are swizzled

ASSUME KernelArithmeticAssumption ==
  /\ \A m \in Modes : m.size \in Nat \ {0} /\ m.stride \in Nat
  /\ Lengths \subseteq Nat \X Nat
  /\ Divisors \subseteq Ints \ {0}
  /\ \A sw \in SwizzleBits : sw[1] \in Nat /\ sw[2] \in Nat /\ sw[3] # 0 /\ Magnitude(sw[3]) >= sw[1]
  /\ Bases \subseteq Nat

vars == <<lhs, rhs, divisor>>

Init == lhs = <<>> /\ rhs = <<>> /\ divisor \in Divisors \cup {0}

Grow(a, b) == /\ divisor = 0
              /\ \E n \in Lengths : Len(a) <= n[1] /\ Len(b) <= n[2]

Next == \/ \E m \in Modes : lhs' = Append(lhs, m) /\ Grow(lhs', rhs) /\ UNCHANGED <<rhs, divisor>>
        \/ \E m \in Modes : /\ lhs # <<>> /\ rhs' = Append(rhs, m) /\ Grow(lhs, rhs')
                            /\ UNCHANGED <<lhs, divisor>>

Spec == Init /\ [][Next]_vars

-----------------------------------------------------------------------------
(* Layouts that are composed and inverted.                                  *)

\* "result(c) = lhs(rhs(c)) for all c in the domain of rhs": where rhs(c) is in the domain
\* of lhs, and when nothing carries.
Composed == Pair /\ Composable(lhs, rhs) /\ NoCarry(lhs, rhs) =>
  /\ Size(Composition(lhs, rhs)) = Size(rhs)
  /\ \A i \in Domain(rhs) : Offset(rhs, i) \in Domain(lhs) =>
       Offset(Composition(lhs, rhs), i) = Offset(lhs, Offset(rhs, i))

\* "layout(result(i)) == i for all i < size(result)".
RightInverted == Single =>
  \A r \in {RightInverse(lhs), RightInverseIgnoreZeroStrides(lhs)} :
    \A i \in Domain(r) : Offset(lhs, Offset(r, i)) = i

\* The modes can be put in an order in which each starts at a multiple of the end of
\* the one before.
Tiles(a) == LET f == SortSeq(Filter(a), Below)
            IN  \A k \in DOMAIN f : f[k].stride % End(f, k - 1) = 0

\* The complement repeats no offset of the layout, and reaches, together with it, every
\* element once, when the modes tile.
Complements == Single /\ Tiles(lhs) => \A hi \in PartSizes \cup {Cosize(lhs)} :
  LET c    == Complement(lhs, hi)
      both == Filter(lhs) \o c
  IN  /\ Size(both) >= hi /\ Image(lhs) \cap Image(c) = {0}
      /\ \A i \in Domain(c) \ {0} : Offset(c, i - 1) < Offset(c, i)
      /\ Image(both) = Domain(both)

\* "result(layout(i)) == i for all i < size(layout)": when the layout is injective and
\* its modes tile.
Injective(a) == Cardinality(Image(a)) = Size(a)
LeftInverted == Single /\ Tiles(lhs) /\ Injective(lhs) =>
  \A i \in Domain(lhs) : Offset(LeftInverse(lhs), Offset(lhs, i)) = i

\* A layout that is divided is the same function in another order.
Divided == Pair =>
  LET b == LogicalDivisor(lhs, rhs)
  IN  Tiles(rhs) /\ Injective(rhs) /\ Size(b) = Size(lhs) /\ Composable(lhs, b) /\ NoCarry(lhs, b) =>
        \A i \in Domain(b) : Offset(LogicalDivide(lhs, rhs), i) = Offset(lhs, Offset(b, i))

\* The copies of a multiplied layout are apart.
Multiplied == Pair =>
  LET c == LogicalMultiplier(lhs, rhs)
  IN  Tiles(lhs) /\ Injective(lhs) /\ Injective(rhs) /\ Composable(c, rhs) /\ NoCarry(c, rhs) =>
        Injective(LogicalProduct(lhs, rhs))

\* Two layouts that move elements together hold the vector at the same indices.
CommonVectors ==
  /\ Pair /\ Size(lhs) = Size(rhs)
  /\ \A m \in ToSet(lhs \o rhs) : m.stride # 0
  /\ Composable(lhs, RightInverse(rhs)) /\ NoCarry(lhs, RightInverse(rhs))
  => \A i \in 0 .. MaxCommonVector(lhs, rhs) - 1 :
       \E j \in Domain(lhs) : Offset(lhs, j) = i /\ Offset(rhs, j) = i

\* A swizzle is its own inverse, and it may be applied to the base alone where the code
\* does: for a positive shift, and a base that shares no bit with the offsets.
SwizzlesCommute == \A bits \in SwizzleBits : LET sw == Swizzle(bits[1], bits[2], bits[3]) IN
  /\ lhs = <<>> => \A x \in Bases : Swizzled(sw, Swizzled(sw, x)) = x
  /\ Single /\ sw.shift > 0 /\ Commutative(sw, lhs) =>
       \A b \in Bases : (\A x \in Image(lhs) : b & x = 0) =>
         \A x \in Image(lhs) : ComposedOffset(sw, lhs, b, x) = Swizzled(sw, b + x)

\* The operations of the layout algebra compute what their documentation says.
LayoutsCompose == /\ Composed /\ RightInverted /\ Complements /\ LeftInverted /\ Divided
                  /\ Multiplied /\ CommonVectors /\ SwizzlesCommute

=============================================================================
