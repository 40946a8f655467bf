--------------------------- MODULE TensorLayouts ---------------------------
(***************************************************************************)
(* The layout algebra of ir/cute/layout.py, which maps threads and values  *)
(* to the elements of tensors.  A layout is a function from 0 .. size - 1  *)
(* to offsets, given by modes, each a size and a stride, of which the first *)
(* varies fastest.  The code nests modes in tuples; the function does not  *)
(* depend on the nesting, and here a layout is the sequence of its modes,  *)
(* with constant sizes and strides that are not negative.                  *)
(***************************************************************************)
EXTENDS Integers, Sequences, SequencesExt

Mode(size, stride) == [size |-> size, stride |-> stride]
Unit == <<Mode(1, 1)>>

Least(x, y) == IF x < y THEN x ELSE y
CeilDiv(x, y) == (x + y - 1) \div y
Multiply(n, m) == n * m.size

Size(a) == FoldLeft(Multiply, 1, a)

\* How many indices pass before mode k advances (compact_col_major).
Before(a, k) == Size(SubSeq(a, 1, k - 1))

\* The coordinate of index i in mode k (idx2crd); that of a single mode is not bounded.
Coordinate(a, i, k) == IF Len(a) = 1 THEN i ELSE (i \div Before(a, k)) % a[k].size

Offset(a, i) == FoldLeft(LAMBDA sum, k : sum + Coordinate(a, i, k) * a[k].stride, 0,
                         [k \in DOMAIN a |-> k])
Domain(a) == 0 .. Size(a) - 1
Image(a)  == {Offset(a, i) : i \in Domain(a)}
Cosize(a) == FoldLeft(LAMBDA sum, m : sum + (m.size - 1) * m.stride, 1, a)

-----------------------------------------------------------------------------
(* coalesce and filter                                                      *)

\* Mutant: modes with the same stride are merged.
MergeOnto(out, m) ==
  IF out # <<>> /\ m.stride = Last(out).stride
  THEN [out EXCEPT ![Len(out)].size = @ * m.size] ELSE Append(out, m)

Merge(out, m) ==
  CASE out # <<>> /\ m.stride = Last(out).size * Last(out).stride ->
         [out EXCEPT ![Len(out)].size = @ * m.size]
    [] (out = <<>> \/ m.stride # Last(out).size * Last(out).stride) /\ m.size = 1 -> out
    [] OTHER -> Append(out, m)

Coalesce(a) == LET out == FoldLeft(Merge, <<>>, a) IN IF out = <<>> THEN Unit ELSE out

FilterZeros(a) == [k \in DOMAIN a |-> IF a[k].stride = 0 THEN Mode(1, 0) ELSE a[k]]
Filter(a)      == Coalesce(FilterZeros(a))

-----------------------------------------------------------------------------
(* composition                                                              *)

\* shape_div asserts that one of its arguments divides the other.
Divides(x, y)  == x % y = 0 \/ y % x = 0
ShapeDiv(x, y) == IF x % y = 0 THEN x \div y ELSE 1

\* Mutant: what is left of a mode keeps its stride.
SkipWhole(m, step) == Mode(ShapeDiv(m.size, step), m.stride)

\* What is left of a mode when only every step-th index is used.
Thin(m, step) ==
  LET size == ShapeDiv(m.size, step) IN Mode(size, m.stride * ShapeDiv(m.size, size))

\* One mode of the left layout, of which the rest of the right mode uses what it can.
Use(st, m) ==
  LET thin == Thin(m, st.step)
  IN  [ok   |-> st.ok /\ Divides(m.size, st.step) /\ Divides(st.rest, thin.size),
       step |-> ShapeDiv(st.step, m.size),
       rest |-> ShapeDiv(st.rest, thin.size),
       out  |-> Append(st.out, Mode(Least(thin.size, st.rest), thin.stride))]

ComposeMode(a, m) ==
  LET end == FoldLeft(Use, [ok |-> TRUE, step |-> m.stride, rest |-> m.size, out |-> <<>>], Front(a))
  IN  CASE m.stride = 0 -> [ok |-> TRUE, out |-> <<m>>]
        [] m.stride # 0 /\ Len(a) = 1 -> [ok |-> TRUE, out |-> <<Mode(m.size, m.stride * a[1].stride)>>]
        [] OTHER -> [ok |-> end.ok,
                     out |-> Coalesce(Append(end.out, Mode(end.rest, end.step * Last(a).stride)))]

\* The assertions hold.
Composable(a, b)  == \A k \in DOMAIN b : ComposeMode(a, b[k]).ok
Composition(a, b) == FlattenSeq([k \in DOMAIN b |-> ComposeMode(a, b[k]).out])

-----------------------------------------------------------------------------
(* complement, inverses and division                                        *)

Below(m, n) == m.stride < n.stride \/ (m.stride = n.stride /\ m.size < n.size)

\* Where the mode after the first n starts.
End(a, n) == IF n = 0 THEN 1 ELSE a[n].size * a[n].stride

Complement(a, hi) ==
  LET f == SortSeq(Filter(a), Below)
      n == Len(f)
  IN  Coalesce([k \in 1 .. n + 1 |->
        Mode(IF k <= n THEN f[k].stride \div End(f, k - 1) ELSE CeilDiv(hi, End(f, n)), End(f, k - 1))])

\* The modes in the order of their strides, as far as each starts where the last ends.
ContiguousPrefix(a) ==
  LET starts == {n \in 0 .. Len(a) : \A k \in 1 .. n : a[k].stride = End(a, k - 1)}
  IN  SubSeq(a, 1, CHOOSE n \in starts : \A l \in starts : l <= n)

Placed(a) == [k \in DOMAIN a |-> [size |-> a[k].size, stride |-> a[k].stride, before |-> Before(a, k)]]

InverseOf(placed) ==
  LET First(m, n) == Below(m, n) \/ (~Below(n, m) /\ m.before < n.before)
      prefix == ContiguousPrefix(SortSeq(placed, First))
  IN  IF prefix = <<>> THEN <<Mode(1, 0)>>
      ELSE [k \in DOMAIN prefix |-> Mode(prefix[k].size, prefix[k].before)]

RightInverse(a) == InverseOf(Placed(Coalesce(a)))
RightInverseIgnoreZeroStrides(a) ==
  InverseOf(SelectSeq(Placed(Coalesce(a)), LAMBDA m : m.stride # 0))

Completed(a)      == a \o Complement(a, Cosize(a))
LeftInverse(a)    == RightInverse(Completed(a))
LogicalDivisor(a, b) == b \o Complement(b, Size(a))
LogicalDivide(a, b) == Composition(a, LogicalDivisor(a, b))
LogicalMultiplier(a, b) == Complement(a, Size(a) * Cosize(b))
LogicalProduct(a, b) == a \o Composition(LogicalMultiplier(a, b), b)

\* How many elements two layouts both hold one after the other.
CommonVector(a, b) == Coalesce(Composition(FilterZeros(a), RightInverse(FilterZeros(b))))
MaxCommonVector(a, b) == LET m == Head(CommonVector(a, b)) IN IF m.stride = 1 THEN m.size ELSE 1

-----------------------------------------------------------------------------
(* group, common_reshape and filter_lo_hi                                   *)

\* The first modes up to the given size, and the rest; a mode may be cut in two.
GroupStep(size, ignoreZeros, st, m) ==
  LET cut  == ShapeDiv(size, st.count)
      next == CASE ignoreZeros /\ m.stride = 0 ->
                     IF st.full THEN [st EXCEPT !.rest = Append(@, m)] ELSE [st EXCEPT !.first = Append(@, m)]
                [] ~(ignoreZeros /\ m.stride = 0) /\ st.count * m.size <= size ->
                     [st EXCEPT !.first = Append(@, m), !.count = @ * m.size,
                                !.full = @ \/ st.count * m.size = size]
                [] OTHER ->
                     IF st.full THEN [st EXCEPT !.rest = Append(@, m), !.count = @ * m.size]
                     ELSE [first |-> Append(st.first, Mode(cut, m.stride)),
                           rest  |-> Append(st.rest, Mode(ShapeDiv(m.size, cut), m.stride * cut)),
                           full  |-> TRUE, count |-> st.count * m.size,
                           ok    |-> st.ok /\ Divides(size, st.count) /\ m.size % cut = 0]
  IN  IF ~st.ok THEN st
      ELSE [next EXCEPT !.ok = @ /\ ~(next.count < size /\ size % next.count # 0)]

Group(a, size, ignoreZeros) ==
  FoldLeft(LAMBDA st, m : GroupStep(size, ignoreZeros, st, m),
           [first |-> <<>>, rest |-> <<>>, full |-> FALSE, count |-> 1, ok |-> TRUE], a)

\* One turn of the loop of common_reshape: the smaller of the two first modes is used
\* up, and as much of the other.
ReshapeStep(st) ==
  LET m == Head(st.a)
      n == Head(st.b)
      s == Least(m.size, n.size)
      Used(x) == IF Head(x).size = s THEN Tail(x)
                 ELSE <<Mode(Head(x).size \div s, Head(x).stride * s)>> \o Tail(x)
  IN  IF st.a = <<>> \/ st.b = <<>> \/ ~st.ok THEN st
      ELSE [ok |-> Divides(m.size, n.size), a |-> Used(st.a), b |-> Used(st.b),
            outA |-> Append(st.outA, Mode(s, m.stride)), outB |-> Append(st.outB, Mode(s, n.stride))]

\* The modes of size 1 that a layout begins with.
Ones(a) == SelectInSeq(a, LAMBDA m : m.size # 1)
LeadingOnes(a) == IF Ones(a) = 0 THEN a ELSE SubSeq(a, 1, Ones(a) - 1)

CommonReshape(a, b) ==
  LET end == FoldLeft(LAMBDA st, turn : ReshapeStep(st),
                      [ok |-> TRUE, a |-> a, b |-> b, outA |-> <<>>, outB |-> <<>>],
                      [turn \in 1 .. Len(a) + Len(b) |-> turn])
      Unmoved(x) == [k \in DOMAIN LeadingOnes(x) |-> Mode(1, 1)]
  IN  [ok |-> end.ok,
       a |-> end.outA \o LeadingOnes(end.a) \o Unmoved(end.b),
       b |-> end.outB \o Unmoved(end.a) \o LeadingOnes(end.b)]

\* The part of a mode that moves between lo and hi stands still; [ok, out].
\* A mode that starts below lo and passes it, ...
CrossLow(m, lo, hi) ==
  LET s1 == ShapeDiv(lo, m.stride)
      s2 == ShapeDiv(m.size, s1)
      s3 == ShapeDiv(hi, lo)
      high == s2 * lo > hi
  IN  [ok  |-> Divides(lo, m.stride) /\ Divides(m.size, s1) /\ (high => Divides(hi, lo) /\ Divides(s2, s3)),
       out |-> <<Mode(s1, m.stride)>> \o
               IF high THEN <<Mode(s3, 0), Mode(ShapeDiv(s2, s3), hi)>> ELSE <<Mode(s2, 0)>>]

\* ... and one that starts between them and passes hi, which is cut at hi / lo.
CrossHigh(m, lo, hi) ==
  LET s1 == ShapeDiv(hi, lo)
  IN  [ok  |-> Divides(hi, lo) /\ Divides(m.size, s1),
       out |-> <<Mode(s1, 0), Mode(ShapeDiv(m.size, s1), hi)>>]

FilterMode(m, lo, hi) ==
  CASE m.stride < lo /\ m.size * m.stride > lo -> CrossLow(m, lo, hi)
    [] lo <= m.stride /\ m.stride < hi /\ m.size * m.stride > hi -> CrossHigh(m, lo, hi)
    [] lo <= m.stride /\ m.stride < hi /\ m.size * m.stride <= hi ->
         [ok |-> TRUE, out |-> <<Mode(m.size, 0)>>]
    [] OTHER -> [ok |-> TRUE, out |-> <<m>>]

FilterLoHi(a, lo, hi) ==
  [ok  |-> \A k \in DOMAIN a : FilterMode(a[k], lo, hi).ok,
   out |-> FlattenSeq([k \in DOMAIN a |-> FilterMode(a[k], lo, hi).out])]

============================================================================
