---------------------------- MODULE FastDivision ----------------------------
(***************************************************************************)
(* Division by a number that is known when a kernel is launched: the host  *)
(* calculates three numbers (runtime/int_fastdiv.cpp), with which the      *)
(* kernel divides by a multiplication and a shift (fastintdiv).  Integers  *)
(* have W bits and wrap around; the code has W = 32.                       *)
(***************************************************************************)
EXTENDS Integers

CONSTANT W

\* (In two bits the first quotient of the loop, Half, wraps around when it is doubled.)
ASSUME WidthAssumption == W \in Nat \ 0 .. 2

VARIABLE divisor     \* 0 when nothing is divided

Pow2[n \in 0 .. 2 * W] == IF n = 0 THEN 1 ELSE 2 * Pow2[n - 1]

Wrap   == Pow2[W]
Half   == Pow2[W - 1]      \* two31
Ints   == -Half .. Half - 1

Unsigned(x) == x % Wrap
Signed(x)   == IF Unsigned(x) < Half THEN Unsigned(x) ELSE Unsigned(x) - Wrap
Magnitude(d) == IF d < 0 THEN -d ELSE d

-----------------------------------------------------------------------------
(* calculate_magic_numbers                                                  *)

\* The absolute value of the largest dividend of the sign of d that leaves ad - 1.
Anc(d, ad) == LET t == Half + (IF d < 0 THEN 1 ELSE 0) IN t - 1 - (t % ad)

Start(d) ==
  LET ad == Magnitude(d)
  IN  [p |-> W - 1, more |-> TRUE, q1 |-> Half \div Anc(d, ad), r1 |-> Half % Anc(d, ad),
       q2 |-> Half \div ad, r2 |-> Half % ad]

\* Mutant: the loop does not go on when the quotient is just reached.
StopsEarly(q1, r1, delta) == q1 < delta

GoesOn(q1, r1, delta) == q1 < delta \/ (q1 = delta /\ r1 = 0)

\* One turn of the loop: 2^p is doubled, and its quotients and remainders with it.
Turn(d, st) ==
  LET ad  == Magnitude(d)
      anc == Anc(d, ad)
      q1  == Unsigned(2 * st.q1 + (2 * st.r1) \div anc)
      r1  == (2 * st.r1) % anc
      q2  == Unsigned(2 * st.q2 + (2 * st.r2) \div ad)
      r2  == (2 * st.r2) % ad
  IN  IF ~st.more THEN st
      ELSE [p |-> st.p + 1, q1 |-> q1, r1 |-> r1, q2 |-> q2, r2 |-> r2, more |-> GoesOn(q1, r1, ad - r2)]

\* Two W-bit numbers decide after W + 1 turns at the latest.
Loop(d) ==
  LET after[k \in 0 .. W + 1] == IF k = 0 THEN Start(d) ELSE Turn(d, after[k - 1])
  IN  after[W + 1]

MagicNumbers(d) ==
  LET end == Loop(d)
      m   == Signed(IF d < 0 THEN -(end.q2 + 1) ELSE end.q2 + 1)
  IN  IF Magnitude(d) = 1 THEN [m |-> 0, s |-> -1, as |-> d]
      ELSE [m |-> m, s |-> end.p - W,
            as |-> CASE d > 0 /\ m < 0 -> 1 [] d < 0 /\ m > 0 -> -1 [] OTHER -> 0]

-----------------------------------------------------------------------------
(* fastintdiv, and fastintmod                                               *)

MulHigh(x, y) == (x * y) \div Wrap

FastDiv(n, magic) ==
  LET q == Signed(MulHigh(magic.m, n) + n * magic.as)
      r == q \div Pow2[magic.s]
  IN  IF magic.s < 0 THEN q ELSE Signed(r + (IF r < 0 THEN 1 ELSE 0))

FastMod(n, d, magic) == Signed(n - FastDiv(n, magic) * d)

-----------------------------------------------------------------------------
\* Division and remainder are those of C, which round towards zero, for every dividend;
\* the smallest dividend by -1 has no quotient.
Truncated(n, d) == LET q == Magnitude(n) \div Magnitude(d) IN IF (n < 0) = (d < 0) THEN q ELSE -q
DividesExactly == divisor # 0 =>
  LET magic == MagicNumbers(divisor)
  IN  /\ Magnitude(divisor) # 1 => ~Loop(divisor).more
      /\ \A n \in Ints : ~(n = -Half /\ divisor = -1) =>
           /\ FastDiv(n, magic) = Truncated(n, divisor)
           /\ FastMod(n, divisor, magic) = n - divisor * Truncated(n, divisor)

=============================================================================
