---------------------------- MODULE RuntimeProofs ----------------------------
(***************************************************************************)
(* Proofs about the run time: its memory pool, the division that the       *)
(* kernels do with the numbers it calculates, and the layouts by which     *)
(* they find the elements of tensors.                                      *)
(*                                                                         *)
(* The memory pool: for any requests, block size, limit and                *)
(* capacity, and wherever the collector runs, as long as it spoils         *)
(* nothing.  The argument is about who has the memory (Owned): each        *)
(* address that the device has given out is with one storage, in use, in   *)
(* the pool or just taken from it, except that clear has given back what   *)
(* lies before the position it has come to.  The bytes of the pool and of  *)
(* the device are sums (BytesProperties, TotalProperties), so that one     *)
(* storage more or less in a list is its size more or less in              *)
(* reserved_size.  The library's folds are recursive functions; that they  *)
(* have values is proved first, by a least counterexample.                 *)
(*                                                                         *)
(* The division: for integers of any width and every divisor and dividend. *)
(* The quotients of the loop are those of a power of two that doubles      *)
(* (Turned), none of its sums wraps around, and it ends at 2^(2W-1) at the *)
(* latest, where what the multiplier has too much (Multiplier) is too      *)
(* little to reach the next quotient.                                      *)
(*                                                                         *)
(* The layouts: the functions that rewrite them, for layouts of any number *)
(* of modes.  Layouts grow by one mode (AllLayouts), and the offset of any *)
(* index, when every coordinate is bounded (Whole), by one summand         *)
(* (WholeAppend).  A mode that ends where the next one starts is one with  *)
(* it (ModeInTwo): so coalesce merges, group cuts a mode in two, and       *)
(* common_reshape uses up a part of one.  What filter_lo_hi makes of a     *)
(* mode keeps what the mode adds below lo and above hi (FilterModeKeeps),  *)
(* and the sums of these are what the layout has below and above           *)
(* (FilteredSums), because nothing carries.                                *)
(***************************************************************************)
EXTENDS MemoryPool, FastDivision, LayoutRewriting,
        FiniteSetTheorems, SequenceTheorems, NaturalsInduction, WellFoundedInduction, TLAPS

-----------------------------------------------------------------------------
(* The memory pool: folds over sets.                                        *)

\* A set of numbers has a least one.
LEMMA LeastOf ==
  ASSUME NEW T \in SUBSET Nat, T # {}
  PROVE  \E x \in T : \A y \in T : x <= y
<1> DEFINE R == OpToRel(<, Nat)
<1>1. IsWellFoundedOn(R, Nat)  BY NatLessThanWellFounded
<1>2. \A x, y \in Nat : y < x => <<y, x>> \in R  BY DEF OpToRel
<1> HIDE DEF R
<1>3. PICK x \in T : \A y \in T : ~ (<<y, x>> \in R)  BY <1>1, WFMin
<1>4. \A y \in T : ~ (y < x)  BY <1>2, <1>3
<1> QED  BY <1>4

\* A fold takes some element of a set next: any, or the last of a sequence.
Taken(kind, s) == IF kind = "sum" THEN CHOOSE x \in s : TRUE ELSE Max(s)

\* What it does with it.
Applied(kind, q, x, y) ==
  CASE kind = "sum"  -> q[x] + y
    [] kind = "give" -> GiveBack(y, q[x])
    [] kind = "free" -> FreeAll(y, q[x])
    [] kind = "multiply" -> Multiply(y, q[x])
    [] kind = "merge"    -> Merge(y, q[x])
    [] kind = "add"      -> y + q[x]
    [] kind = "group"    -> GroupStep(q[x].limit, q[x].zeros, y, q[x].mode)
    [] kind = "reshape"  -> ReshapeStep(y)

\* The value of a fold at a set, by its values at smaller ones.
Unfold(kind, b, q, f, s) ==
  IF s = {} THEN b ELSE Applied(kind, q, Taken(kind, s), f[s \ {Taken(kind, s)}])

\* f is the fold at every subset of D.
Folds(kind, b, q, D, f) == f = [s \in SUBSET D |-> Unfold(kind, b, q, f, s)]

\* The recursive function by which the library folds has a value at every set.
LEMMA FoldExists ==
  ASSUME NEW kind, NEW b, NEW q, NEW D, IsFiniteSet(D),
         \A s \in (SUBSET D) \ {{}} : Taken(kind, s) \in s
  PROVE  \E f : Folds(kind, b, q, D, f)
<1> DEFINE Upto(n) == {s \in SUBSET D : Cardinality(s) <= n}
           Partly(n) == \E f : f = [s \in Upto(n) |-> Unfold(kind, b, q, f, s)]
           T == {n \in Nat : ~ Partly(n)}
<1>1. \A s \in SUBSET D : IsFiniteSet(s) /\ Cardinality(s) \in Nat /\ Cardinality(s) <= Cardinality(D)
  BY FS_Subset, FS_CardinalityType
<1>2. \A s \in (SUBSET D) \ {{}} : s \ {Taken(kind, s)} \in SUBSET D
                                   /\ Cardinality(s \ {Taken(kind, s)}) = Cardinality(s) - 1
  BY <1>1, FS_RemoveElement
<1>3. T = {}
  <2>1. SUFFICES ASSUME T # {} PROVE FALSE  OBVIOUS
  <2>2. PICK m \in T : \A y \in T : m <= y  BY <2>1, LeastOf
  <2>3. PICK g : m = 0 \/ g = [s \in Upto(m - 1) |-> Unfold(kind, b, q, g, s)]
    <3>1. CASE m = 0  BY <3>1
    <3>2. CASE m # 0
      <4>1. m - 1 \in Nat /\ ~ (m <= m - 1)  BY <3>2
      <4>2. Partly(m - 1)  BY <2>2, <4>1
      <4> QED  BY <4>2
    <3> QED  BY <3>1, <3>2
  <2>4. PICK f : f = [s \in Upto(m) |-> Unfold(kind, b, q, g, s)]  OBVIOUS
  <2>5. ASSUME NEW s \in Upto(m) PROVE Unfold(kind, b, q, g, s) = Unfold(kind, b, q, f, s)
    <3>1. CASE s = {}  BY <3>1 DEF Unfold
    <3>2. CASE s # {}
      <4> DEFINE r == s \ {Taken(kind, s)}
      <4>1. r \in SUBSET D /\ Cardinality(r) = Cardinality(s) - 1  BY <1>2, <3>2
      <4>2. Cardinality(s) \in Nat /\ Cardinality(s) # 0 /\ Cardinality(s) <= m /\ m \in Nat
        BY <1>1, <3>2, FS_EmptySet
      <4>3. m # 0 /\ r \in Upto(m - 1) /\ r \in Upto(m)  BY <4>1, <4>2
      <4>4. g[r] = Unfold(kind, b, q, g, r)  BY <2>3, <4>3
      <4>5. f[r] = g[r]  BY <2>4, <4>3, <4>4
      <4> QED  BY <3>2, <4>5 DEF Unfold
    <3> QED  BY <3>1, <3>2
  <2>6. f = [s \in Upto(m) |-> Unfold(kind, b, q, f, s)]  BY <2>4, <2>5
  <2> QED  BY <2>2, <2>6
<1>4. Cardinality(D) \in Nat /\ Upto(Cardinality(D)) = SUBSET D  BY <1>1
<1>5. PICK f : f = [s \in Upto(Cardinality(D)) |-> Unfold(kind, b, q, f, s)]  BY <1>3, <1>4
<1> QED  BY <1>4, <1>5 DEF Folds

(* Sums.                                                                    *)

\* f is the sum of d over every set of addresses.
Sums(d, f) == Folds("sum", 0, d, DOMAIN d, f)

\* The recursive function of which Total is a value.
TotalOf(d) == CHOOSE g : g = [s \in SUBSET DOMAIN d |->
                IF s = {} THEN 0
                ELSE d[CHOOSE x \in s : TRUE] + g[s \ {CHOOSE x \in s : TRUE}]]

\* Total is a sum, taken in the order the library chooses.
LEMMA TotalIsASum ==
  ASSUME NEW d, IsFiniteSet(DOMAIN d)
  PROVE  \E f : Sums(d, f) /\ Total(d) = f[DOMAIN d]
<1>1. Total(d) = TotalOf(d)[DOMAIN d]
  BY DEF Total, FoldFunction, FoldFunctionOnSet, MapThenFoldSet, TotalOf
<1> DEFINE Adds(g, s) == IF s = {} THEN 0
                         ELSE d[CHOOSE x \in s : TRUE] + g[s \ {CHOOSE x \in s : TRUE}]
<1>2. TotalOf(d) = CHOOSE g : g = [s \in SUBSET DOMAIN d |-> Adds(g, s)]  BY DEF TotalOf
<1>3. \A g, s : Unfold("sum", 0, d, g, s) = Adds(g, s)  BY DEF Unfold, Applied, Taken
<1>4. \A s \in (SUBSET DOMAIN d) \ {{}} : Taken("sum", s) \in s
  <2>1. ASSUME NEW s, s # {} PROVE (CHOOSE x \in s : TRUE) \in s  BY <2>1
  <2> QED  BY <2>1 DEF Taken
<1> HIDE DEF Adds
<1>5. PICK f : Folds("sum", 0, d, DOMAIN d, f)  BY <1>4, FoldExists
<1>6. f = [s \in SUBSET DOMAIN d |-> Adds(f, s)]  BY <1>3, <1>5 DEF Folds
<1>7. TotalOf(d) = [s \in SUBSET DOMAIN d |-> Adds(TotalOf(d), s)]  BY <1>2, <1>6
<1> QED  BY <1>1, <1>3, <1>7 DEF Sums, Folds

\* A sum is the element taken and the sum of the others.
LEMMA SumsUnfold ==
  ASSUME NEW d, NEW f, Sums(d, f)
  PROVE  /\ f[{}] = 0
         /\ \A s \in (SUBSET DOMAIN d) \ {{}} :
              LET c == CHOOSE x \in s : TRUE
              IN  c \in s /\ s \ {c} \in SUBSET DOMAIN d /\ f[s] = d[c] + f[s \ {c}]
<1>1. {} \in SUBSET DOMAIN d /\ f[{}] = Unfold("sum", 0, d, f, {})  BY DEF Sums, Folds
<1>2. f[{}] = 0  BY <1>1 DEF Unfold
<1>3. ASSUME NEW s \in SUBSET DOMAIN d, s # {}, NEW c, c = CHOOSE x \in s : TRUE
      PROVE  c \in s /\ s \ {c} \in SUBSET DOMAIN d /\ f[s] = d[c] + f[s \ {c}]
  <2>1. c \in s  BY <1>3
  <2>2. f[s] = Unfold("sum", 0, d, f, s)  BY DEF Sums, Folds
  <2>3. Unfold("sum", 0, d, f, s) = d[c] + f[s \ {c}]  BY <1>3 DEF Unfold, Applied, Taken
  <2> QED  BY <2>1, <2>2, <2>3
<1> QED  BY <1>2, <1>3

\* The sum is the same whichever address is taken first.
LEMMA SumsTake ==
  ASSUME NEW d, NEW f, Sums(d, f), IsFiniteSet(DOMAIN d), \A a \in DOMAIN d : d[a] \in Nat
  PROVE  \A s \in SUBSET DOMAIN d : f[s] \in Nat /\ \A a \in s : f[s] = d[a] + f[s \ {a}]
<1> DEFINE Right(s) == f[s] \in Nat /\ \A a \in s : f[s] = d[a] + f[s \ {a}]
           T == {n \in Nat : \E s \in SUBSET DOMAIN d : Cardinality(s) = n /\ ~ Right(s)}
<1>1. \A s \in SUBSET DOMAIN d : IsFiniteSet(s) /\ Cardinality(s) \in Nat
  BY FS_Subset, FS_CardinalityType
<1>2. \A s \in SUBSET DOMAIN d : \A a \in s :
        s \ {a} \in SUBSET DOMAIN d /\ Cardinality(s \ {a}) = Cardinality(s) - 1
  BY <1>1, FS_RemoveElement
<1>3. SUFFICES T = {}  BY <1>1
<1>4. SUFFICES ASSUME T # {} PROVE FALSE  OBVIOUS
<1>5. PICK m \in T : \A y \in T : m <= y  BY <1>4, LeastOf
<1>6. PICK s \in SUBSET DOMAIN d : Cardinality(s) = m /\ ~ Right(s)  BY <1>5
<1>7. \A r \in SUBSET DOMAIN d : Cardinality(r) = m - 1 => Right(r)
  <2> SUFFICES ASSUME NEW r \in SUBSET DOMAIN d, Cardinality(r) = m - 1, ~ Right(r) PROVE FALSE
    OBVIOUS
  <2>1. m - 1 \in Nat  BY <1>1
  <2>2. m - 1 \in T  BY <2>1
  <2> QED  BY <1>5, <2>1, <2>2
<1> HIDE DEF T
<1>8. s # {}
  <2> SUFFICES ASSUME s = {} PROVE FALSE  OBVIOUS
  <2> QED  BY <1>6, SumsUnfold
<1> DEFINE c == CHOOSE x \in s : TRUE
<1>9. c \in s /\ s \ {c} \in SUBSET DOMAIN d /\ f[s] = d[c] + f[s \ {c}]  BY <1>8, SumsUnfold
<1> HIDE DEF c
<1>10. Right(s \ {c})  BY <1>2, <1>6, <1>7, <1>9
<1>11. f[s] \in Nat  BY <1>9, <1>10
<1>12. ASSUME NEW a \in s PROVE f[s] = d[a] + f[s \ {a}]
  <2>1. CASE a = c  BY <1>9, <2>1
  <2>2. CASE a # c
    <3>1. Right(s \ {a})  BY <1>2, <1>6, <1>7
    <3>2. f[s \ {a}] = d[c] + f[(s \ {a}) \ {c}]  BY <1>9, <2>2, <3>1
    <3>3. f[s \ {c}] = d[a] + f[(s \ {c}) \ {a}]  BY <1>10, <2>2
    <3>4. (s \ {a}) \ {c} = (s \ {c}) \ {a}  OBVIOUS
    <3>5. s \ {a} \in SUBSET DOMAIN d /\ Cardinality(s \ {a}) = m - 1  BY <1>2, <1>6
    <3>6. Right((s \ {a}) \ {c}) \/ f[(s \ {a}) \ {c}] \in Nat
      <4>1. (s \ {a}) \ {c} \in SUBSET DOMAIN d /\ Cardinality((s \ {a}) \ {c}) = m - 2
        <5>1. c \in s \ {a} /\ m \in Nat  BY <1>1, <1>6, <1>9, <2>2
        <5>2. Cardinality((s \ {a}) \ {c}) = Cardinality(s \ {a}) - 1  BY <1>2, <3>5, <5>1
        <5> QED  BY <3>5, <5>1, <5>2
      <4>2. m \in Nat /\ m - 2 \in Nat /\ ~ (m <= m - 2)  BY <1>1, <1>6, <4>1
      <4>3. m - 2 \notin T  BY <1>5, <4>2
      <4> QED  BY <4>1, <4>2, <4>3 DEF T
    <3>7. d[a] \in Nat /\ d[c] \in Nat  BY <1>9
    <3> QED  BY <1>9, <3>2, <3>3, <3>4, <3>6, <3>7
  <2> QED  BY <2>1, <2>2
<1> QED  BY <1>6, <1>11, <1>12

\* Two sums over the same addresses are the same.
LEMMA SumsAgree ==
  ASSUME NEW d, NEW f, Sums(d, f), NEW e, NEW g, Sums(e, g), IsFiniteSet(DOMAIN e),
         DOMAIN e \subseteq DOMAIN d, \A a \in DOMAIN e : d[a] = e[a]
  PROVE  \A s \in SUBSET DOMAIN e : f[s] = g[s]
<1> DEFINE T == {n \in Nat : \E s \in SUBSET DOMAIN e : Cardinality(s) = n /\ f[s] # g[s]}
<1>1. \A s \in SUBSET DOMAIN e : IsFiniteSet(s) /\ Cardinality(s) \in Nat
  BY FS_Subset, FS_CardinalityType
<1>2. \A s \in SUBSET DOMAIN e : \A a \in s :
        s \ {a} \in SUBSET DOMAIN e /\ Cardinality(s \ {a}) = Cardinality(s) - 1
  BY <1>1, FS_RemoveElement
<1>3. SUFFICES T = {}
  BY <1>1
<1>4. SUFFICES ASSUME T # {} PROVE FALSE  OBVIOUS
<1>5. PICK m \in T : \A y \in T : m <= y  BY <1>4, LeastOf
<1>6. PICK s \in SUBSET DOMAIN e : Cardinality(s) = m /\ f[s] # g[s]  BY <1>5
<1>7. s # {}  BY <1>6, SumsUnfold
<1> DEFINE c == CHOOSE x \in s : TRUE
<1>9. c \in s /\ g[s] = e[c] + g[s \ {c}]
  <2>1. \A t \in (SUBSET DOMAIN e) \ {{}} : LET x == CHOOSE x \in t : TRUE
          IN  x \in t /\ t \ {x} \in SUBSET DOMAIN e /\ g[t] = e[x] + g[t \ {x}]
    BY SumsUnfold
  <2> QED  BY <1>7, <2>1
<1>10. f[s] = d[c] + f[s \ {c}]
  <2>1. \A t \in (SUBSET DOMAIN d) \ {{}} : LET x == CHOOSE x \in t : TRUE
          IN  x \in t /\ t \ {x} \in SUBSET DOMAIN d /\ f[t] = d[x] + f[t \ {x}]
    BY SumsUnfold
  <2>2. s \in (SUBSET DOMAIN d) \ {{}}  BY <1>7
  <2> QED  BY <2>1, <2>2
<1> HIDE DEF c
<1>11. s \ {c} \in SUBSET DOMAIN e /\ Cardinality(s \ {c}) = m - 1 /\ m - 1 \in Nat
  BY <1>1, <1>2, <1>6, <1>9
<1>12. m - 1 \notin T  BY <1>5, <1>11
<1>13. f[s \ {c}] = g[s \ {c}]  BY <1>11, <1>12
<1> QED  BY <1>6, <1>9, <1>10, <1>13

\* The total of the sizes of an allocation table.
LEMMA TotalProperties ==
  ASSUME NEW d, IsFiniteSet(DOMAIN d), \A a \in DOMAIN d : d[a] \in Nat
  PROVE  /\ Total(d) \in Nat
         /\ DOMAIN d = {} => Total(d) = 0
         /\ \A a \in DOMAIN d : Total(d) = d[a] + Total(Without(d, a))
<1>1. PICK f : Sums(d, f) /\ Total(d) = f[DOMAIN d]  BY TotalIsASum
<1>2. Total(d) \in Nat  BY <1>1, SumsTake
<1>3. DOMAIN d = {} => Total(d) = 0  BY <1>1, SumsUnfold
<1>4. ASSUME NEW a \in DOMAIN d PROVE Total(d) = d[a] + Total(Without(d, a))
  <2>1. DOMAIN Without(d, a) = DOMAIN d \ {a} /\ \A x \in DOMAIN d \ {a} : Without(d, a)[x] = d[x]
    BY DEF Without
  <2>2. IsFiniteSet(DOMAIN Without(d, a))  BY <2>1, FS_Subset
  <2>3. PICK g : Sums(Without(d, a), g) /\ Total(Without(d, a)) = g[DOMAIN d \ {a}]
    BY <2>1, <2>2, TotalIsASum
  <2>4. f[DOMAIN d \ {a}] = g[DOMAIN d \ {a}]  BY <1>1, <2>1, <2>2, <2>3, SumsAgree
  <2> QED  BY <1>1, <2>3, <2>4, SumsTake
<1> QED  BY <1>2, <1>3, <1>4

(* Folds over sequences.                                                    *)

\* The folds over sequences take the last position first: Max is that.
LEMMA MaxIsTheGreatest ==
  ASSUME NEW n \in Nat, NEW s \in SUBSET (1 .. n), s # {}
  PROVE  Max(s) \in s /\ \A y \in s : y <= Max(s)
<1> DEFINE T == {n - x : x \in s}
<1>1. PICK m \in T : \A y \in T : m <= y
  <2>1. T \in SUBSET Nat  OBVIOUS
  <2>2. PICK x \in s : n - x \in T  OBVIOUS
  <2>3. T # {}  BY <2>2
  <2> HIDE DEF T
  <2> QED  BY <2>1, <2>3, LeastOf
<1>2. PICK x \in s : m = n - x  BY <1>1
<1>3. \A y \in s : x >= y
  <2> TAKE y \in s
  <2>1. n - y \in T  OBVIOUS
  <2> HIDE DEF T
  <2> QED  BY <1>1, <1>2, <2>1
<1> HIDE DEF T
<1>4. Max(s) \in s /\ \A y \in s : Max(s) >= y  BY <1>3 DEF Max
<1> QED  BY <1>4

\* The values of a fold after each element of a sequence.
Stages(kind, b, q, n, F) ==
  F[0] = b /\ \A k \in 1 .. n : F[k] = Applied(kind, q, k, F[k - 1])

\* A fold over a sequence goes from one stage to the next.
LEMMA FoldStages ==
  ASSUME NEW kind, kind # "sum", NEW b, NEW q, NEW n \in Nat, NEW g,
         Folds(kind, b, q, 1 .. n, g)
  PROVE  \E F : Stages(kind, b, q, n, F) /\ g[1 .. n] = F[n]
<1>1. PICK F : F = [k \in 0 .. n |-> g[1 .. k]]  OBVIOUS
<1>2. F[0] = b
  <2>1. 1 .. 0 = {} /\ {} \in SUBSET (1 .. n)  OBVIOUS
  <2>2. g[{}] = Unfold(kind, b, q, g, {})  BY <2>1 DEF Folds
  <2> QED  BY <1>1, <2>1, <2>2 DEF Unfold
<1>3. ASSUME NEW k \in 1 .. n PROVE F[k] = Applied(kind, q, k, F[k - 1])
  <2>1. 1 .. k \in SUBSET (1 .. n) /\ 1 .. k # {} /\ k \in Nat  OBVIOUS
  <2>2. Max(1 .. k) \in 1 .. k /\ \A y \in 1 .. k : y <= Max(1 .. k)
    BY <2>1, MaxIsTheGreatest
  <2>3. Max(1 .. k) = k  BY <2>1, <2>2
  <2>4. (1 .. k) \ {k} = 1 .. (k - 1) /\ k - 1 \in 0 .. n /\ k \in 0 .. n  OBVIOUS
  <2>5. g[1 .. k] = Unfold(kind, b, q, g, 1 .. k)  BY <2>1 DEF Folds
  <2>6. Taken(kind, 1 .. k) = k  BY <2>3 DEF Taken
  <2>7. g[1 .. k] = Applied(kind, q, k, g[1 .. (k - 1)])  BY <2>1, <2>4, <2>5, <2>6 DEF Unfold
  <2> QED  BY <1>1, <2>4, <2>7
<1>4. F[n] = g[1 .. n]
  <2>1. n \in 0 .. n  OBVIOUS
  <2> QED  BY <1>1, <2>1
<1>5. Stages(kind, b, q, n, F)  BY <1>2, <1>3 DEF Stages
<1> QED  BY <1>4, <1>5

\* There are stages to every sequence.
LEMMA StagesExist ==
  ASSUME NEW kind, kind # "sum", NEW b, NEW q, NEW n \in Nat
  PROVE  \E g : Folds(kind, b, q, 1 .. n, g)
<1>1. PICK D : D = 1 .. n  OBVIOUS
<1>2. IsFiniteSet(D)  BY <1>1, FS_Interval
<1>3. \A s \in (SUBSET D) \ {{}} : Taken(kind, s) \in s  BY <1>1, MaxIsTheGreatest DEF Taken
<1>4. \E g : Folds(kind, b, q, D, g)  BY <1>2, <1>3, FoldExists
<1> QED  BY <1>1, <1>4

\* The recursive functions of the two folds.
GivenBack(st, q) == CHOOSE g : g = [s \in SUBSET DOMAIN q |->
  IF s = {} THEN st ELSE GiveBack(g[s \ {Max(s)}], q[Max(s)])]

AllFreed(st, q) == CHOOSE g : g = [s \in SUBSET DOMAIN q |->
  IF s = {} THEN st ELSE FreeAll(g[s \ {Max(s)}], q[Max(s)])]

\* clear gives the storages of the pool back one after the other.
LEMMA GiveBackStages ==
  ASSUME NEW st, NEW q, NEW n \in Nat, DOMAIN q = 1 .. n
  PROVE  \E F : Stages("give", st, q, n, F) /\ FoldLeft(GiveBack, st, q) = F[n]
<1>1. FoldLeft(GiveBack, st, q) = GivenBack(st, q)[DOMAIN q]
  BY DEF FoldLeft, MapThenFoldSet, GivenBack
<1> DEFINE Gives(g, s) == IF s = {} THEN st ELSE GiveBack(g[s \ {Max(s)}], q[Max(s)])
<1>2. GivenBack(st, q) = CHOOSE g : g = [s \in SUBSET DOMAIN q |-> Gives(g, s)]  BY DEF GivenBack
<1>3. \A g, s : Unfold("give", st, q, g, s) = Gives(g, s)  BY DEF Unfold, Applied, Taken
<1> HIDE DEF Gives
<1>4. PICK g : Folds("give", st, q, 1 .. n, g)  BY StagesExist
<1>5. g = [s \in SUBSET DOMAIN q |-> Gives(g, s)]  BY <1>3, <1>4 DEF Folds
<1>6. GivenBack(st, q) = [s \in SUBSET DOMAIN q |-> Gives(GivenBack(st, q), s)]  BY <1>2, <1>5
<1>7. Folds("give", st, q, 1 .. n, GivenBack(st, q))  BY <1>3, <1>6 DEF Folds
<1> QED  BY <1>1, <1>7, FoldStages

\* The collector frees the storages it found one after the other.
LEMMA FreeAllStages ==
  ASSUME NEW st, NEW q, NEW n \in Nat, DOMAIN q = 1 .. n
  PROVE  \E F : Stages("free", st, q, n, F) /\ FoldLeft(FreeAll, st, q) = F[n]
<1>1. FoldLeft(FreeAll, st, q) = AllFreed(st, q)[DOMAIN q]
  BY DEF FoldLeft, MapThenFoldSet, AllFreed
<1> DEFINE Frees(g, s) == IF s = {} THEN st ELSE FreeAll(g[s \ {Max(s)}], q[Max(s)])
<1>2. AllFreed(st, q) = CHOOSE g : g = [s \in SUBSET DOMAIN q |-> Frees(g, s)]  BY DEF AllFreed
<1>3. \A g, s : Unfold("free", st, q, g, s) = Frees(g, s)  BY DEF Unfold, Applied, Taken
<1> HIDE DEF Frees
<1>4. PICK g : Folds("free", st, q, 1 .. n, g)  BY StagesExist
<1>5. g = [s \in SUBSET DOMAIN q |-> Frees(g, s)]  BY <1>3, <1>4 DEF Folds
<1>6. AllFreed(st, q) = [s \in SUBSET DOMAIN q |-> Frees(AllFreed(st, q), s)]  BY <1>2, <1>5
<1>7. Folds("free", st, q, 1 .. n, AllFreed(st, q))  BY <1>3, <1>6 DEF Folds
<1> QED  BY <1>1, <1>7, FoldStages

-----------------------------------------------------------------------------
(* Who has the memory, and what is in the pool.                             *)

\* The types of storages, lists and allocation tables.
Sizes    == Nat \ {0}
Storage  == [addr : Nat, size : Sizes]
Entries  == [size : Sizes, list : Seq(Storage)]
Devices  == UNION {[A -> Sizes] : A \in SUBSET Sizes}

\* The lists of the dictionary: one for a size, of storages of that size.
Lists(bs) ==
  /\ bs \in Seq(Entries)
  /\ \A i, k \in DOMAIN bs : bs[i].size = bs[k].size => i = k
  /\ \A i \in DOMAIN bs : \A j \in DOMAIN bs[i].list : bs[i].list[j].size = bs[i].size

\* The device has given out the memory of a storage.
Given(d, s) == s.addr \in DOMAIN d /\ d[s.addr] = s.size

\* clear has been at a position before it comes to position n of list m.
Gone(m, n, i, j) == i < m \/ (i = m /\ j < n)

\* Memory is with the storages out of the pool, or in the pool, once, or with the device.
Apart(d, out) ==
  /\ \A s \in out : Given(d, s)
  /\ \A s, t \in out : s.addr = t.addr => s = t

\* What clear has not come to has its memory, and nobody else has it.
Kept(bs, d, out, m, n) ==
  /\ \A i \in DOMAIN bs : \A j \in DOMAIN bs[i].list :
       IF Gone(m, n, i, j) THEN bs[i].list[j].addr \notin DOMAIN d
       ELSE Given(d, bs[i].list[j]) /\ bs[i].list[j].addr \notin Addrs(out)
  /\ \A i, k \in DOMAIN bs : \A j \in DOMAIN bs[i].list, l \in DOMAIN bs[k].list :
       ~ Gone(m, n, i, j) /\ ~ Gone(m, n, k, l) /\ bs[i].list[j].addr = bs[k].list[l].addr =>
         i = k /\ j = l

\* All memory given out is with somebody.
Found(bs, d, out, m, n) ==
  \A a \in DOMAIN d :
    \/ a \in Addrs(out)
    \/ \E i \in DOMAIN bs : \E j \in DOMAIN bs[i].list :
         ~ Gone(m, n, i, j) /\ bs[i].list[j].addr = a

\* Who has the memory while clear is at position n of list m.
Owned(bs, d, out, m, n) ==
  /\ Lists(bs) /\ d \in Devices /\ IsFiniteSet(DOMAIN d)
  /\ out \in SUBSET Storage /\ IsFiniteSet(out)
  /\ Apart(d, out) /\ Kept(bs, d, out, m, n) /\ Found(bs, d, out, m, n)

(* What is in the pool.                                                     *)

\* b is bs with s at position p of list k, and all else where it was.
Added(bs, b, k, p, s) ==
  /\ k \in DOMAIN b /\ p \in DOMAIN b[k].list /\ b[k].list[p] = s
  /\ \A i \in DOMAIN bs : i \in DOMAIN b /\ b[i].size = bs[i].size
  /\ \A i \in DOMAIN bs : \A j \in DOMAIN bs[i].list :
       j \in DOMAIN b[i].list /\ b[i].list[j] = bs[i].list[j] /\ ~ (i = k /\ j = p)
  /\ \A i \in DOMAIN b : \A j \in DOMAIN b[i].list :
       (i = k /\ j = p) \/ (i \in DOMAIN bs /\ j \in DOMAIN bs[i].list)

\* The storages in the pool.
Members(bs) == UNION {ToSet(bs[i].list) : i \in DOMAIN bs}

\* The recursive function by which the library concatenates.
FlattenOf(q) == CHOOSE g : g = [i \in 1 .. Len(q) |-> IF i = 1 THEN q[i] ELSE g[i - 1] \o q[i]]

Lengthen(q, g, i) == IF i = 1 THEN q[i] ELSE g[i - 1] \o q[i]

Lengthens(q, n, g) == g = [i \in 1 .. n |-> Lengthen(q, g, i)]

\* The recursive function by which the library concatenates has a value.
LEMMA FlattenExists ==
  ASSUME NEW q, NEW n \in Nat
  PROVE  \E g : Lengthens(q, n, g)
<1> DEFINE T == {k \in Nat : ~ \E g : Lengthens(q, k, g)}
<1>1. SUFFICES ASSUME T # {} PROVE FALSE  OBVIOUS
<1>2. PICK m \in T : \A y \in T : m <= y  BY <1>1, LeastOf
<1>3. CASE m = 0
  <2>1. PICK g : g = [i \in 1 .. m |-> 0]  OBVIOUS
  <2>2. g = [i \in 1 .. m |-> Lengthen(q, g, i)]  BY <1>3, <2>1
  <2> QED  BY <1>2, <2>2 DEF Lengthens
<1>4. CASE m # 0
  <2>1. m - 1 \in Nat /\ ~ (m <= m - 1)  BY <1>4
  <2>2. PICK g : Lengthens(q, m - 1, g)  BY <1>2, <2>1
  <2>3. PICK f : f = [i \in 1 .. m |-> Lengthen(q, g, i)]  OBVIOUS
  <2>4. ASSUME NEW i \in 1 .. m PROVE Lengthen(q, g, i) = Lengthen(q, f, i)
    <3>1. CASE i = 1  BY <3>1 DEF Lengthen
    <3>2. CASE i # 1
      <4>1. i - 1 \in 1 .. m /\ i - 1 \in 1 .. (m - 1)  BY <3>2
      <4>2. f[i - 1] = g[i - 1]  BY <2>2, <2>3, <4>1 DEF Lengthens
      <4> QED  BY <3>2, <4>2 DEF Lengthen
    <3> QED  BY <3>1, <3>2
  <2>5. f = [i \in 1 .. m |-> Lengthen(q, f, i)]  BY <2>3, <2>4
  <2> QED  BY <1>2, <2>5 DEF Lengthens
<1> QED  BY <1>3, <1>4

\* The concatenation of lists is that of the first ones and the next.
LEMMA FlattenStages ==
  ASSUME NEW q, Len(q) \in Nat, Len(q) # 0
  PROVE  /\ FlattenSeq(q) = FlattenOf(q)[Len(q)]
         /\ FlattenOf(q)[1] = q[1]
         /\ \A k \in 2 .. Len(q) : FlattenOf(q)[k] = FlattenOf(q)[k - 1] \o q[k]
<1>1. FlattenSeq(q) = FlattenOf(q)[Len(q)]  BY DEF FlattenSeq, FlattenOf
<1>2. FlattenOf(q) = CHOOSE g : g = [i \in 1 .. Len(q) |-> Lengthen(q, g, i)]
  BY DEF FlattenOf, Lengthen
<1>3. PICK g : g = [i \in 1 .. Len(q) |-> Lengthen(q, g, i)]  BY FlattenExists DEF Lengthens
<1>4. FlattenOf(q) = [i \in 1 .. Len(q) |-> Lengthen(q, FlattenOf(q), i)]  BY <1>2, <1>3
<1>5. 1 \in 1 .. Len(q) /\ \A k \in 2 .. Len(q) : k \in 1 .. Len(q) /\ k # 1  OBVIOUS
<1> HIDE DEF Lengthen
<1>6. \A k \in 1 .. Len(q) : FlattenOf(q)[k] = Lengthen(q, FlattenOf(q), k)  BY <1>4
<1> QED  BY <1>1, <1>5, <1>6 DEF Lengthen

\* Every storage is in the pool once.
Distinct(bs) ==
  \A i, k \in DOMAIN bs : \A j \in DOMAIN bs[i].list, l \in DOMAIN bs[k].list :
    bs[i].list[j] = bs[k].list[l] => i = k /\ j = l

\* All pooled storages, in one sequence: those of the lists, each as often as there.
LEMMA PooledProperties ==
  ASSUME NEW bs \in Seq(Entries)
  PROVE  /\ Pooled(bs) \in Seq(Storage)
         /\ ToSet(Pooled(bs)) = Members(bs)
         /\ Distinct(bs) => IsInjective(Pooled(bs))
<1> DEFINE q == [i \in DOMAIN bs |-> bs[i].list]
           n == Len(bs)
<1>1. /\ n \in Nat /\ DOMAIN bs = 1 .. n /\ Len(q) = n /\ DOMAIN q = 1 .. n
      /\ \A i \in 1 .. n : bs[i] \in Entries /\ q[i] = bs[i].list /\ q[i] \in Seq(Storage)
  <2>1. n \in Nat /\ DOMAIN bs = 1 .. n  OBVIOUS
  <2>2. q \in Seq(Seq(Storage)) /\ Len(q) = n
    <3>1. \A i \in 1 .. n : bs[i] \in Entries  OBVIOUS
    <3>2. \A i \in 1 .. n : bs[i].list \in Seq(Storage)  BY <3>1 DEF Entries
    <3>3. q = [i \in 1 .. n |-> bs[i].list]  BY <2>1
    <3>4. q \in [1 .. n -> Seq(Storage)]  BY <3>2, <3>3
    <3> HIDE DEF n, q
    <3>5. q \in Seq(Seq(Storage)) /\ Len(q) = n  BY <2>1, <3>4
    <3> QED  BY <3>5
  <2>3. \A i \in 1 .. n : bs[i] \in Entries /\ q[i] = bs[i].list  BY <2>1
  <2> HIDE DEF n, q
  <2>4. DOMAIN q = 1 .. n /\ \A i \in 1 .. n : q[i] \in Seq(Storage)  BY <2>1, <2>2
  <2> QED  BY <2>1, <2>2, <2>3, <2>4
<1>2. Pooled(bs) = FlattenSeq(q)  BY DEF Pooled
<1>3. CASE n = 0
  <2>1. Pooled(bs) = q  BY <1>1, <1>2, <1>3 DEF FlattenSeq
  <2>2. q = <<>>  BY <1>1, <1>3
  <2> QED  BY <1>1, <1>3, <2>1, <2>2 DEF Members, ToSet, IsInjective
<1>4. CASE n # 0
  <2> DEFINE F == FlattenOf(q)
             Upto(k) == UNION {ToSet(bs[i].list) : i \in 1 .. k}
             Right(k) == /\ F[k] \in Seq(Storage) /\ ToSet(F[k]) = Upto(k)
                         /\ Distinct(bs) => IsInjective(F[k])
             T == {k \in 1 .. n : ~ Right(k)}
  <2>1. /\ FlattenSeq(q) = F[n]
        /\ F[1] = q[1] /\ \A k \in 2 .. n : F[k] = F[k - 1] \o q[k]
    BY <1>1, <1>4, FlattenStages
  <2> HIDE DEF F, q, n
  <2>2. T = {}
    <3>1. SUFFICES ASSUME T # {} PROVE FALSE  OBVIOUS
    <3>2. PICK k \in T : \A y \in T : k <= y
      <4>1. T \in SUBSET Nat  BY <1>1
      <4> QED  BY <3>1, <4>1, LeastOf
    <3>3. k \in 1 .. n /\ ~ Right(k)  BY <3>2
    <3>4. bs[k].list = q[k] /\ q[k] \in Seq(Storage)  BY <1>1, <3>3
    <3>5. CASE k = 1
      <4>1. F[k] = bs[k].list  BY <1>1, <2>1, <3>3, <3>5
      <4>2. Upto(k) = ToSet(bs[k].list)  BY <3>5
      <4>3. Distinct(bs) => IsInjective(F[k])  BY <1>1, <3>3, <4>1 DEF Distinct, IsInjective
      <4> QED  BY <3>3, <3>4, <4>1, <4>2, <4>3
    <3>6. CASE k # 1
      <4>1. k - 1 \in 1 .. n /\ ~ (k <= k - 1) /\ k \in 2 .. n  BY <1>1, <3>3, <3>6
      <4>2. Right(k - 1)  BY <3>2, <4>1
      <4> DEFINE G == F[k - 1]
                 L == q[k]
      <4>3. F[k] = G \o L  BY <2>1, <4>1
      <4>4. G \in Seq(Storage) /\ L \in Seq(Storage) /\ ToSet(G) = Upto(k - 1)  BY <3>4, <4>2
      <4>5. L = bs[k].list  BY <3>4
      <4> HIDE DEF G, L
      <4>6. /\ F[k] \in Seq(Storage) /\ Len(F[k]) = Len(G) + Len(L)
            /\ Len(G) \in Nat /\ Len(L) \in Nat
            /\ \A i \in 1 .. Len(G) + Len(L) :
                 F[k][i] = IF i <= Len(G) THEN G[i] ELSE L[i - Len(G)]
        BY <4>3, <4>4, ConcatProperties
      <4>7. ToSet(F[k]) = ToSet(G) \cup ToSet(L)
        <5>1. ASSUME NEW x \in ToSet(F[k]) PROVE x \in ToSet(G) \cup ToSet(L)
          <6>1. PICK i \in 1 .. Len(G) + Len(L) : x = F[k][i]  BY <4>6 DEF ToSet
          <6>2. CASE i <= Len(G)  BY <4>4, <4>6, <6>1, <6>2 DEF ToSet
          <6>3. CASE ~ (i <= Len(G))
            <7>1. i - Len(G) \in 1 .. Len(L)  BY <4>6, <6>3
            <7>2. x = L[i - Len(G)] /\ i - Len(G) \in DOMAIN L  BY <4>4, <4>6, <6>1, <6>3, <7>1
            <7> QED  BY <7>2 DEF ToSet
          <6> QED  BY <6>2, <6>3
        <5>2. ASSUME NEW i \in DOMAIN G PROVE G[i] \in ToSet(F[k])
          <6>1. i \in 1 .. Len(G) + Len(L) /\ i <= Len(G)  BY <4>4, <4>6
          <6> QED  BY <4>6, <6>1 DEF ToSet
        <5>3. ASSUME NEW i \in DOMAIN L PROVE L[i] \in ToSet(F[k])
          <6>1. i + Len(G) \in 1 .. Len(G) + Len(L) /\ ~ (i + Len(G) <= Len(G))
                /\ i + Len(G) - Len(G) = i
            BY <4>4, <4>6
          <6>2. F[k][i + Len(G)] = L[i] /\ i + Len(G) \in DOMAIN F[k]  BY <4>6, <6>1
          <6> QED  BY <6>2 DEF ToSet
        <5> QED  BY <5>1, <5>2, <5>3 DEF ToSet
      <4>8. Upto(k) = Upto(k - 1) \cup ToSet(L)
        <5>1. 1 .. k = (1 .. (k - 1)) \cup {k}  BY <4>1
        <5> QED  BY <4>5, <5>1
      <4>9. ASSUME Distinct(bs) PROVE IsInjective(F[k])
        <5>1. \A a, b \in 1 .. Len(G) : G[a] = G[b] => a = b  BY <4>2, <4>4, <4>9 DEF G, IsInjective
        <5>2. \A a, b \in 1 .. Len(L) : L[a] = L[b] => a = b
          BY <1>1, <3>3, <4>4, <4>5, <4>9 DEF Distinct
        <5>3. \A a \in 1 .. Len(G), b \in 1 .. Len(L) : G[a] # L[b]
          <6> SUFFICES ASSUME NEW a \in 1 .. Len(G), NEW b \in 1 .. Len(L), G[a] = L[b] PROVE FALSE
            OBVIOUS
          <6>0. a \in DOMAIN G  BY <4>4
          <6>1. G[a] \in ToSet(G)  BY <6>0 DEF ToSet
          <6>2. PICK i \in 1 .. (k - 1) : G[a] \in ToSet(bs[i].list)  BY <4>4, <6>1
          <6>3. PICK j \in DOMAIN bs[i].list : G[a] = bs[i].list[j]  BY <6>2 DEF ToSet
          <6>4. i \in DOMAIN bs /\ k \in DOMAIN bs /\ i # k  BY <1>1, <3>3, <4>1
          <6>5. b \in DOMAIN bs[k].list /\ bs[i].list[j] = bs[k].list[b]  BY <4>4, <4>5, <6>3
          <6> QED  BY <4>9, <6>4, <6>5 DEF Distinct
        <5>4. ASSUME NEW a \in 1 .. Len(G) + Len(L), NEW b \in 1 .. Len(G) + Len(L), F[k][a] = F[k][b]
              PROVE  a = b
          <6>1. F[k][a] = IF a <= Len(G) THEN G[a] ELSE L[a - Len(G)]  BY <4>6
          <6>2. F[k][b] = IF b <= Len(G) THEN G[b] ELSE L[b - Len(G)]  BY <4>6
          <6>3. a <= Len(G) => a \in 1 .. Len(G)  BY <4>6
          <6>4. b <= Len(G) => b \in 1 .. Len(G)  BY <4>6
          <6>5. ~ (a <= Len(G)) => a - Len(G) \in 1 .. Len(L)  BY <4>6
          <6>6. ~ (b <= Len(G)) => b - Len(G) \in 1 .. Len(L)  BY <4>6
          <6>7. a - Len(G) = b - Len(G) => a = b  BY <4>6
          <6> QED  BY <5>1, <5>2, <5>3, <5>4, <6>1, <6>2, <6>3, <6>4, <6>5, <6>6, <6>7
        <5>5. DOMAIN F[k] = 1 .. Len(G) + Len(L)  BY <4>6
        <5> QED  BY <5>4, <5>5 DEF IsInjective
      <4> QED  BY <3>3, <4>4, <4>6, <4>7, <4>8, <4>9
    <3> QED  BY <3>5, <3>6
  <2>3. Right(n)
    <3>1. n \in 1 .. n  BY <1>1, <1>4
    <3> QED  BY <2>2, <3>1
  <2>4. Upto(n) = Members(bs)  BY <1>1 DEF Members
  <2> QED  BY <1>2, <2>1, <2>3, <2>4
<1> QED  BY <1>3, <1>4

-----------------------------------------------------------------------------
(* The dictionary of lists.                                                 *)

\* A sequence has finitely many elements.
LEMMA SequencesAreFinite ==
  ASSUME NEW q \in Seq(Storage)
  PROVE  IsFiniteSet(ToSet(q))
<1>1. IsFiniteSet(1 .. Len(q))  BY FS_Interval
<1>2. DOMAIN q = 1 .. Len(q)  OBVIOUS
<1>3. q \in Surjection(1 .. Len(q), ToSet(q))  BY <1>2 DEF Surjection, ToSet
<1> QED  BY <1>1, <1>3, FS_Surjection

\* What is in the pool is at a position of a list.
LEMMA MembersProperties ==
  ASSUME NEW bs \in Seq(Entries)
  PROVE  /\ Members(bs) \in SUBSET Storage /\ IsFiniteSet(Members(bs))
         /\ \A i \in DOMAIN bs : \A j \in DOMAIN bs[i].list : bs[i].list[j] \in Members(bs)
         /\ \A s \in Members(bs) : \E i \in DOMAIN bs : \E j \in DOMAIN bs[i].list : s = bs[i].list[j]
<1>1. Pooled(bs) \in Seq(Storage) /\ ToSet(Pooled(bs)) = Members(bs)  BY PooledProperties
<1>2. IsFiniteSet(Members(bs))  BY <1>1, SequencesAreFinite
<1>3. Members(bs) \in SUBSET Storage  BY <1>1 DEF ToSet
<1> QED  BY <1>2, <1>3 DEF Members, ToSet

\* Bytes is the sum of the sizes, whichever storage is taken first.
LEMMA BytesProperties ==
  ASSUME NEW M \in SUBSET Storage, IsFiniteSet(M)
  PROVE  /\ Bytes(M) \in Nat
         /\ Bytes({}) = 0
         /\ \A s \in Storage \ M : Bytes(M \cup {s}) = Bytes(M) + s.size
         /\ \A s \in M : Bytes(M) = Bytes(M \ {s}) + s.size
<1>1. ASSUME NEW S \in SUBSET Storage, IsFiniteSet(S)
      PROVE  Bytes(S) \in Nat /\ (S = {} => Bytes(S) = 0)
             /\ \A s \in S : Bytes(S) = s.size + Bytes(S \ {s}) /\ s.size \in Nat
  <2> DEFINE d == [s \in S |-> s.size]
  <2>1. DOMAIN d = S /\ \A s \in S : d[s] = s.size /\ d[s] \in Nat  BY DEF Storage, Sizes
  <2>2. \A s \in S : Without(d, s) = [x \in S \ {s} |-> x.size]  BY DEF Without
  <2>3. Bytes(S) = Total(d) /\ \A s \in S : Bytes(S \ {s}) = Total(Without(d, s))  BY <2>2 DEF Bytes
  <2> HIDE DEF d
  <2>0. IsFiniteSet(DOMAIN d) /\ \A a \in DOMAIN d : d[a] \in Nat  BY <1>1, <2>1
  <2>4. /\ Total(d) \in Nat
        /\ DOMAIN d = {} => Total(d) = 0
        /\ \A a \in DOMAIN d : Total(d) = d[a] + Total(Without(d, a))
    BY <2>0, TotalProperties
  <2> QED  BY <2>1, <2>3, <2>4
<1>2. Bytes({}) = 0
  <2>1. {} \in SUBSET Storage /\ IsFiniteSet({})  BY FS_EmptySet
  <2> QED  BY <1>1, <2>1
<1>3. ASSUME NEW s \in Storage \ M PROVE Bytes(M \cup {s}) = Bytes(M) + s.size
  <2>1. M \cup {s} \in SUBSET Storage /\ IsFiniteSet(M \cup {s})  BY FS_AddElement
  <2>2. (M \cup {s}) \ {s} = M  OBVIOUS
  <2>3. PICK S : S = M \cup {s}  OBVIOUS
  <2>4. S \in SUBSET Storage /\ IsFiniteSet(S) /\ s \in S  BY <2>1, <2>3
  <2>5. Bytes(S) = s.size + Bytes(S \ {s}) /\ s.size \in Nat  BY <1>1, <2>4
  <2>6. Bytes(M) \in Nat  BY <1>1
  <2>7. S \ {s} = M  BY <2>2, <2>3
  <2>8. Bytes(S) = s.size + Bytes(M)  BY <2>5, <2>7
  <2> QED  BY <2>3, <2>5, <2>6, <2>8
<1>4. ASSUME NEW s \in M PROVE Bytes(M) = Bytes(M \ {s}) + s.size
  <2>1. M \ {s} \in SUBSET Storage /\ IsFiniteSet(M \ {s})  BY FS_RemoveElement
  <2>2. Bytes(M \ {s}) \in Nat  BY <1>1, <2>1
  <2> QED  BY <1>1, <2>2
<1> QED  BY <1>1, <1>2, <1>3, <1>4

\* A dictionary that is asked for a list keeps those it has, and may get an empty one.
LEMMA TouchProperties ==
  ASSUME NEW bs, Lists(bs), NEW size \in Sizes
  PROVE  LET b == Touch(bs, size)  k == IndexOf(b, size)
         IN  /\ Lists(b) /\ k \in DOMAIN b /\ b[k].size = size
             /\ \A i \in DOMAIN bs : i \in DOMAIN b /\ b[i] = bs[i]
             /\ \A i \in DOMAIN b : i \notin DOMAIN bs => b[i].list = <<>>
<1> DEFINE b == Touch(bs, size)
           k == IndexOf(b, size)
           e == [size |-> size, list |-> <<>>]
<1>1. bs \in Seq(Entries) /\ e \in Entries  BY DEF Lists, Entries
<1>2. Has(b, size) /\ Lists(b) /\ (\A i \in DOMAIN bs : i \in DOMAIN b /\ b[i] = bs[i])
      /\ \A i \in DOMAIN b : i \notin DOMAIN bs => b[i].list = <<>>
  <2>1. CASE Has(bs, size)  BY <2>1 DEF Touch
  <2>2. CASE ~ Has(bs, size)
    <3>1. b = Append(bs, e)  BY <2>2 DEF Touch
    <3> DEFINE n == Len(bs)
    <3>2. /\ n \in Nat /\ DOMAIN bs = 1 .. n /\ b \in Seq(Entries) /\ DOMAIN b = 1 .. (n + 1)
          /\ (\A i \in 1 .. n : b[i] = bs[i]) /\ b[n + 1] = e
      BY <1>1, <3>1, AppendProperties
    <3> HIDE DEF b, n
    <3>3. e.size = size /\ e.list = <<>> /\ DOMAIN e.list = {}  OBVIOUS
    <3> HIDE DEF e
    <3>4. Has(b, size)  BY <3>2, <3>3 DEF Has
    <3>5. \A i \in DOMAIN b : i \in 1 .. n \/ i = n + 1  BY <3>2
    <3>6. \A i \in 1 .. n : bs[i].size # size  BY <2>2, <3>2 DEF Has
    <3>7. \A i, l \in DOMAIN b : b[i].size = b[l].size => i = l  BY <3>2, <3>3, <3>5, <3>6 DEF Lists
    <3>8. \A i \in DOMAIN b : \A j \in DOMAIN b[i].list : b[i].list[j].size = b[i].size
      BY <3>2, <3>3, <3>5 DEF Lists
    <3>9. Lists(b)  BY <3>2, <3>7, <3>8 DEF Lists
    <3>10. \A i \in DOMAIN bs : i \in DOMAIN b  BY <3>2
    <3> QED  BY <3>2, <3>3, <3>4, <3>5, <3>9, <3>10
  <2> QED  BY <2>1, <2>2
<1>3. k \in DOMAIN b /\ b[k].size = size  BY <1>2 DEF Has, IndexOf
<1> QED  BY <1>2, <1>3

\* The list asked for is there.
LEMMA TouchFinds ==
  ASSUME NEW bs, Lists(bs), NEW size \in Sizes
  PROVE  /\ IndexOf(Touch(bs, size), size) \in DOMAIN Touch(bs, size)
         /\ Touch(bs, size)[IndexOf(Touch(bs, size), size)].size = size
BY TouchProperties

\* free appends a storage to the list of its size.
LEMMA PutProperties ==
  ASSUME NEW bs, Lists(bs), NEW s \in Storage
  PROVE  Lists(Put(bs, s)) /\ \E k, p : Added(bs, Put(bs, s), k, p, s)
<1> DEFINE t == Touch(bs, s.size)
           k == IndexOf(t, s.size)
           old == t[k].list
           new == Append(old, s)
           b == [t EXCEPT ![k].list = new]
           p == Len(old) + 1
<1>1. Put(bs, s) = b  BY DEF Put
<1>2. s.size \in Sizes  BY DEF Storage
<1>3. /\ Lists(t) /\ k \in DOMAIN t /\ t[k].size = s.size
      /\ \A i \in DOMAIN bs : i \in DOMAIN t /\ t[i] = bs[i]
      /\ \A i \in DOMAIN t : i \notin DOMAIN bs => t[i].list = <<>>
  BY <1>2, TouchProperties
<1> HIDE DEF t, k
<1>4. t \in Seq(Entries) /\ t[k] \in Entries /\ old \in Seq(Storage)
  <2>1. t \in Seq(Entries) /\ t[k] \in Entries  BY <1>3 DEF Lists
  <2> QED  BY <2>1 DEF Entries
<1>5. /\ new \in Seq(Storage) /\ DOMAIN old = 1 .. Len(old) /\ DOMAIN new = 1 .. p /\ Len(old) \in Nat
      /\ (\A j \in 1 .. Len(old) : new[j] = old[j]) /\ new[p] = s
  BY <1>4, AppendProperties
<1> HIDE DEF old, new
<1> DEFINE e == [t[k] EXCEPT !.list = new]
<1>6. e \in Entries /\ e.size = s.size /\ e.list = new  BY <1>3, <1>4, <1>5 DEF Entries
<1>7. b = [t EXCEPT ![k] = e]  OBVIOUS
<1>8. DOMAIN b = DOMAIN t /\ b \in Seq(Entries) /\ b[k] = e /\ \A i \in DOMAIN t : i # k => b[i] = t[i]
  BY <1>3, <1>4, <1>6, <1>7
<1> HIDE DEF b, e
<1>9. \A i \in DOMAIN t : b[i].size = t[i].size  BY <1>3, <1>6, <1>8
<1>10. \A j \in DOMAIN new : new[j].size = s.size
  <2>1. \A j \in 1 .. Len(old) : old[j].size = s.size  BY <1>3, <1>5 DEF Lists, old
  <2>2. \A j \in DOMAIN new : j \in 1 .. Len(old) \/ j = p  BY <1>5
  <2> QED  BY <1>5, <2>1, <2>2
<1>11. Lists(b)
  <2>1. \A i, l \in DOMAIN b : b[i].size = b[l].size => i = l  BY <1>3, <1>8, <1>9 DEF Lists
  <2>2. \A i \in DOMAIN b : \A j \in DOMAIN b[i].list : b[i].list[j].size = b[i].size
    BY <1>3, <1>6, <1>8, <1>10 DEF Lists
  <2> QED  BY <1>8, <2>1, <2>2 DEF Lists
<1>12. Added(bs, b, k, p, s)
  <2>1. k \in DOMAIN b /\ p \in DOMAIN b[k].list /\ b[k].list[p] = s  BY <1>3, <1>5, <1>6, <1>8
  <2>2. \A i \in DOMAIN bs : i \in DOMAIN b /\ b[i].size = bs[i].size  BY <1>3, <1>8, <1>9
  <2>3. \A j \in DOMAIN old : j \in DOMAIN new /\ new[j] = old[j] /\ j # p  BY <1>5
  <2>4. \A i \in DOMAIN bs : \A j \in DOMAIN bs[i].list :
          j \in DOMAIN b[i].list /\ b[i].list[j] = bs[i].list[j] /\ ~ (i = k /\ j = p)
    <3> SUFFICES ASSUME NEW i \in DOMAIN bs, NEW j \in DOMAIN bs[i].list
                 PROVE  j \in DOMAIN b[i].list /\ b[i].list[j] = bs[i].list[j] /\ ~ (i = k /\ j = p)
      OBVIOUS
    <3>1. CASE i = k  BY <1>3, <1>6, <1>8, <2>3, <3>1 DEF old
    <3>2. CASE i # k  BY <1>3, <1>8, <3>2
    <3> QED  BY <3>1, <3>2
  <2>5. \A i \in DOMAIN b : \A j \in DOMAIN b[i].list :
          (i = k /\ j = p) \/ (i \in DOMAIN bs /\ j \in DOMAIN bs[i].list)
    <3> SUFFICES ASSUME NEW i \in DOMAIN b, NEW j \in DOMAIN b[i].list, ~ (i = k /\ j = p)
                 PROVE  i \in DOMAIN bs /\ j \in DOMAIN bs[i].list
      OBVIOUS
    <3>1. j \in DOMAIN t[i].list
      <4>1. CASE i = k
        <5>1. j \in 1 .. p /\ j # p  BY <1>5, <1>6, <1>8, <4>1
        <5>2. j \in DOMAIN old  BY <1>5, <5>1
        <5> QED  BY <4>1, <5>2 DEF old
      <4>2. CASE i # k  BY <1>8, <4>2
      <4> QED  BY <4>1, <4>2
    <3>2. t[i].list # <<>>  BY <3>1
    <3>3. i \in DOMAIN bs  BY <1>3, <1>8, <3>2
    <3> QED  BY <1>3, <3>1, <3>3
  <2> QED  BY <2>1, <2>2, <2>4, <2>5 DEF Added
<1> QED  BY <1>1, <1>11, <1>12

\* malloc takes the last storage of a list.
LEMMA PopProperties ==
  ASSUME NEW bs, Lists(bs), NEW at \in DOMAIN bs, bs[at].list # <<>>
  PROVE  LET b == [bs EXCEPT ![at].list = Popped(@)]  s == Last(bs[at].list)
         IN  s \in Storage /\ s.size = bs[at].size /\ Lists(b)
             /\ Added(b, bs, at, Len(bs[at].list), s)
<1> DEFINE old == bs[at].list
           new == Popped(old)
           b == [bs EXCEPT ![at].list = new]
           p == Len(old)
           s == Last(old)
<1>1. bs \in Seq(Entries) /\ bs[at] \in Entries /\ old \in Seq(Storage)
  <2>1. bs \in Seq(Entries) /\ bs[at] \in Entries  BY DEF Lists
  <2> QED  BY <2>1 DEF Entries
<1>2. /\ p \in Nat \ {0} /\ DOMAIN old = 1 .. p /\ s = old[p] /\ s \in Storage /\ s.size = bs[at].size
  <2>1. p \in Nat /\ p # 0 /\ DOMAIN old = 1 .. p  BY <1>1
  <2>2. p \in DOMAIN old /\ s = old[p]  BY <2>1 DEF Last
  <2> QED  BY <1>1, <2>1, <2>2 DEF Lists
<1>3. new \in Seq(Storage) /\ DOMAIN new = 1 .. (p - 1) /\ \A j \in 1 .. (p - 1) : new[j] = old[j]
  BY <1>1, <1>2 DEF Popped, Front
<1> HIDE DEF new
<1> DEFINE e == [bs[at] EXCEPT !.list = new]
<1>4. e \in Entries /\ e.size = bs[at].size /\ e.list = new  BY <1>1, <1>3 DEF Entries
<1>5. b = [bs EXCEPT ![at] = e]  OBVIOUS
<1>6. DOMAIN b = DOMAIN bs /\ b \in Seq(Entries) /\ b[at] = e /\ \A i \in DOMAIN bs : i # at => b[i] = bs[i]
  BY <1>1, <1>4, <1>5
<1> HIDE DEF b, e
<1>7. \A i \in DOMAIN bs : b[i].size = bs[i].size  BY <1>4, <1>6
<1>8. \A j \in DOMAIN new : j \in DOMAIN old /\ new[j] = old[j] /\ j # p  BY <1>2, <1>3
<1>9. \A j \in DOMAIN old : j = p \/ j \in DOMAIN new  BY <1>2, <1>3
<1>10. Lists(b)
  <2>1. \A i, l \in DOMAIN b : b[i].size = b[l].size => i = l  BY <1>6, <1>7 DEF Lists
  <2>2. \A j \in DOMAIN new : new[j].size = bs[at].size  BY <1>8 DEF Lists
  <2>3. \A i \in DOMAIN b : \A j \in DOMAIN b[i].list : b[i].list[j].size = b[i].size
    BY <1>4, <1>6, <2>2 DEF Lists
  <2> QED  BY <1>6, <2>1, <2>3 DEF Lists
<1>11. Added(b, bs, at, p, s)
  <2>1. \A i \in DOMAIN b : \A j \in DOMAIN b[i].list :
          j \in DOMAIN bs[i].list /\ bs[i].list[j] = b[i].list[j] /\ ~ (i = at /\ j = p)
    BY <1>4, <1>6, <1>8
  <2>2. \A i \in DOMAIN bs : \A j \in DOMAIN bs[i].list :
          (i = at /\ j = p) \/ (i \in DOMAIN b /\ j \in DOMAIN b[i].list)
    BY <1>4, <1>6, <1>9
  <2>3. p \in DOMAIN old  BY <1>2
  <2> QED  BY <1>2, <1>6, <1>7, <2>1, <2>2, <2>3 DEF Added
<1> QED  BY <1>2, <1>10, <1>11 DEF new, b

-----------------------------------------------------------------------------
(* A storage goes to the pool, and comes back.                              *)

\* Owned where clear has been at no position.
Full(bs, d, out) ==
  /\ Lists(bs) /\ d \in Devices /\ IsFiniteSet(DOMAIN d)
  /\ out \in SUBSET Storage /\ IsFiniteSet(out)
  /\ Apart(d, out)
  /\ \A i \in DOMAIN bs : \A j \in DOMAIN bs[i].list :
       Given(d, bs[i].list[j]) /\ bs[i].list[j].addr \notin Addrs(out)
  /\ \A i, k \in DOMAIN bs : \A j \in DOMAIN bs[i].list, l \in DOMAIN bs[k].list :
       bs[i].list[j].addr = bs[k].list[l].addr => i = k /\ j = l
  /\ \A a \in DOMAIN d :
       a \in Addrs(out) \/ \E i \in DOMAIN bs : \E j \in DOMAIN bs[i].list : bs[i].list[j].addr = a

\* clear that has not begun has been nowhere.
LEMMA NoneGone ==
  ASSUME NEW i \in Nat \ {0}, NEW j
  PROVE  ~ Gone(0, 1, i, j)
BY DEF Gone

\* Full is what there is when clear has been at no position.
LEMMA OwnedIsFull ==
  ASSUME NEW bs, NEW d, NEW out
  PROVE  Owned(bs, d, out, 0, 1) <=> Full(bs, d, out)
<1>1. CASE Lists(bs)
  <2>1. \A i \in DOMAIN bs : i \in Nat \ {0}  BY <1>1 DEF Lists
  <2>2. \A i \in DOMAIN bs : \A j : ~ Gone(0, 1, i, j)  BY <2>1, NoneGone
  <2>3. Kept(bs, d, out, 0, 1) <=>
          /\ \A i \in DOMAIN bs : \A j \in DOMAIN bs[i].list :
               Given(d, bs[i].list[j]) /\ bs[i].list[j].addr \notin Addrs(out)
          /\ \A i, k \in DOMAIN bs : \A j \in DOMAIN bs[i].list, l \in DOMAIN bs[k].list :
               bs[i].list[j].addr = bs[k].list[l].addr => i = k /\ j = l
    BY <2>2 DEF Kept
  <2>4. Found(bs, d, out, 0, 1) <=>
          \A a \in DOMAIN d :
            a \in Addrs(out) \/ \E i \in DOMAIN bs : \E j \in DOMAIN bs[i].list : bs[i].list[j].addr = a
    BY <2>2 DEF Found
  <2> QED  BY <1>1, <2>3, <2>4 DEF Owned, Full
<1>2. CASE ~ Lists(bs)  BY <1>2 DEF Owned, Full
<1> QED  BY <1>1, <1>2

\* What is in the pool has memory of its own, and is there once.
LEMMA FullProperties ==
  ASSUME NEW bs, NEW d, NEW out, Full(bs, d, out)
  PROVE  /\ Distinct(bs) /\ bs \in Seq(Entries)
         /\ Members(bs) \cap out = {} /\ Members(bs) \in SUBSET Storage /\ IsFiniteSet(Members(bs))
         /\ \A s \in Members(bs) : Given(d, s) /\ s.addr \notin Addrs(out)
         /\ \A s, t \in Members(bs) : s.addr = t.addr => s = t
         /\ \A a \in DOMAIN d : a \in Addrs(out) \/ a \in Addrs(Members(bs))
<1>1. bs \in Seq(Entries) /\ Distinct(bs)  BY DEF Full, Lists, Distinct
<1>2. /\ Members(bs) \in SUBSET Storage /\ IsFiniteSet(Members(bs))
      /\ \A i \in DOMAIN bs : \A j \in DOMAIN bs[i].list : bs[i].list[j] \in Members(bs)
      /\ \A s \in Members(bs) : \E i \in DOMAIN bs : \E j \in DOMAIN bs[i].list : s = bs[i].list[j]
  BY <1>1, MembersProperties
<1>3. \A s \in Members(bs) : Given(d, s) /\ s.addr \notin Addrs(out)  BY <1>2 DEF Full
<1>4. Members(bs) \cap out = {}  BY <1>3 DEF Addrs
<1>5. ASSUME NEW s \in Members(bs), NEW t \in Members(bs), s.addr = t.addr PROVE s = t
  <2>1. PICK i \in DOMAIN bs : \E j \in DOMAIN bs[i].list : s = bs[i].list[j]  BY <1>2
  <2>2. PICK j \in DOMAIN bs[i].list : s = bs[i].list[j]  BY <2>1
  <2>3. PICK k \in DOMAIN bs : \E l \in DOMAIN bs[k].list : t = bs[k].list[l]  BY <1>2
  <2>4. PICK l \in DOMAIN bs[k].list : t = bs[k].list[l]  BY <2>3
  <2> QED  BY <1>5, <2>2, <2>4 DEF Full
<1>6. ASSUME NEW a \in DOMAIN d PROVE a \in Addrs(out) \/ a \in Addrs(Members(bs))
  BY <1>2 DEF Full, Addrs
<1> QED  BY <1>1, <1>2, <1>3, <1>4, <1>5, <1>6

\* One storage more is in the pool.
LEMMA AddedMembers ==
  ASSUME NEW bs \in Seq(Entries), NEW b \in Seq(Entries), NEW k, NEW p, NEW s, Added(bs, b, k, p, s)
  PROVE  Members(b) = Members(bs) \cup {s}
<1>1. /\ \A i \in DOMAIN bs : \A j \in DOMAIN bs[i].list : bs[i].list[j] \in Members(bs)
      /\ \A x \in Members(bs) : \E i \in DOMAIN bs : \E j \in DOMAIN bs[i].list : x = bs[i].list[j]
  BY MembersProperties
<1>2. /\ \A i \in DOMAIN b : \A j \in DOMAIN b[i].list : b[i].list[j] \in Members(b)
      /\ \A x \in Members(b) : \E i \in DOMAIN b : \E j \in DOMAIN b[i].list : x = b[i].list[j]
  BY MembersProperties
<1>3. \A x \in Members(b) : x \in Members(bs) \/ x = s  BY <1>1, <1>2 DEF Added
<1>4. \A x \in Members(bs) : x \in Members(b)
  <2> TAKE x \in Members(bs)
  <2>1. PICK i \in DOMAIN bs : \E j \in DOMAIN bs[i].list : x = bs[i].list[j]  BY <1>1
  <2>2. PICK j \in DOMAIN bs[i].list : x = bs[i].list[j]  BY <2>1
  <2>3. i \in DOMAIN b /\ j \in DOMAIN b[i].list /\ b[i].list[j] = x  BY <2>2 DEF Added
  <2> QED  BY <1>2, <2>3
<1>5. s \in Members(b)  BY <1>2 DEF Added
<1> QED  BY <1>3, <1>4, <1>5

\* A storage that is put into the pool takes its memory with it.
LEMMA PutOwned ==
  ASSUME NEW bs, NEW d, NEW out, Full(bs, d, out), NEW s \in out
  PROVE  /\ Full(Put(bs, s), d, out \ {s})
         /\ Bytes(Members(Put(bs, s))) = Bytes(Members(bs)) + s.size
         /\ \A i \in DOMAIN bs : i \in DOMAIN Put(bs, s) /\ Put(bs, s)[i].size = bs[i].size
<1> DEFINE b == Put(bs, s)
<1>1. Lists(bs) /\ s \in Storage /\ out \in SUBSET Storage /\ IsFiniteSet(out)  BY DEF Full
<1>2. Lists(b) /\ \E k, p : Added(bs, b, k, p, s)  BY <1>1, PutProperties
<1> HIDE DEF b
<1>3. PICK k, p : Added(bs, b, k, p, s)  BY <1>2
<1>4. bs \in Seq(Entries) /\ b \in Seq(Entries)  BY <1>1, <1>2 DEF Lists
<1>5. Members(b) = Members(bs) \cup {s}  BY <1>3, <1>4, AddedMembers
<1>6. s \notin Members(bs) /\ Members(bs) \in SUBSET Storage /\ IsFiniteSet(Members(bs))
  BY FullProperties
<1>7. Bytes(Members(b)) = Bytes(Members(bs)) + s.size  BY <1>1, <1>5, <1>6, BytesProperties
<1>8. IsFiniteSet(out \ {s})  BY <1>1, FS_RemoveElement
<1>9. \A x, y \in out : x.addr = y.addr => x = y  BY DEF Full, Apart
<1>10. Addrs(out) = Addrs(out \ {s}) \cup {s.addr} /\ s.addr \notin Addrs(out \ {s})
  BY <1>9 DEF Addrs
<1>11. Apart(d, out \ {s}) /\ Given(d, s)  BY DEF Full, Apart
<1>12. \A i \in DOMAIN b : \A j \in DOMAIN b[i].list :
         Given(d, b[i].list[j]) /\ b[i].list[j].addr \notin Addrs(out \ {s})
  <2> SUFFICES ASSUME NEW i \in DOMAIN b, NEW j \in DOMAIN b[i].list
               PROVE  Given(d, b[i].list[j]) /\ b[i].list[j].addr \notin Addrs(out \ {s})
    OBVIOUS
  <2>1. CASE i = k /\ j = p  BY <1>3, <1>10, <1>11, <2>1 DEF Added
  <2>2. CASE ~ (i = k /\ j = p)
    <3>1. i \in DOMAIN bs /\ j \in DOMAIN bs[i].list /\ b[i].list[j] = bs[i].list[j]
      BY <1>3, <2>2 DEF Added
    <3>2. Given(d, bs[i].list[j]) /\ bs[i].list[j].addr \notin Addrs(out)  BY <3>1 DEF Full
    <3> QED  BY <1>10, <3>1, <3>2
  <2> QED  BY <2>1, <2>2
<1>13. ASSUME NEW i \in DOMAIN b, NEW l \in DOMAIN b, NEW j \in DOMAIN b[i].list,
              NEW q \in DOMAIN b[l].list, b[i].list[j].addr = b[l].list[q].addr
       PROVE  i = l /\ j = q
  <2>1. (i = k /\ j = p) \/ (i \in DOMAIN bs /\ j \in DOMAIN bs[i].list /\ b[i].list[j] = bs[i].list[j])
    BY <1>3 DEF Added
  <2>2. (l = k /\ q = p) \/ (l \in DOMAIN bs /\ q \in DOMAIN bs[l].list /\ b[l].list[q] = bs[l].list[q])
    BY <1>3 DEF Added
  <2>3. \A x \in DOMAIN bs : \A y \in DOMAIN bs[x].list : bs[x].list[y].addr # s.addr
    BY <1>10 DEF Full
  <2>4. b[k].list[p] = s  BY <1>3 DEF Added
  <2> QED  BY <1>13, <2>1, <2>2, <2>3, <2>4 DEF Full
<1>14. ASSUME NEW a \in DOMAIN d, a \notin Addrs(out \ {s})
       PROVE  \E i \in DOMAIN b : \E j \in DOMAIN b[i].list : b[i].list[j].addr = a
  <2>1. CASE a = s.addr  BY <1>3, <2>1 DEF Added
  <2>2. CASE a # s.addr
    <3>1. PICK i \in DOMAIN bs : \E j \in DOMAIN bs[i].list : bs[i].list[j].addr = a
      BY <1>10, <1>14, <2>2 DEF Full
    <3>2. PICK j \in DOMAIN bs[i].list : bs[i].list[j].addr = a  BY <3>1
    <3>3. i \in DOMAIN b /\ j \in DOMAIN b[i].list /\ b[i].list[j].addr = a  BY <1>3, <3>2 DEF Added
    <3> QED  BY <3>3
  <2> QED  BY <2>1, <2>2
<1>15. d \in Devices /\ IsFiniteSet(DOMAIN d) /\ out \ {s} \in SUBSET Storage  BY <1>1 DEF Full
<1>16. Full(b, d, out \ {s})  BY <1>2, <1>8, <1>11, <1>12, <1>13, <1>14, <1>15 DEF Full
<1> QED  BY <1>3, <1>7, <1>16 DEF Added, b

\* A storage that is taken from the pool takes its memory with it.
LEMMA TakenOwned ==
  ASSUME NEW bs, NEW d, NEW out, Full(bs, d, out), NEW b, Lists(b),
         NEW at, NEW p, NEW s \in Storage, Added(b, bs, at, p, s)
  PROVE  /\ Full(b, d, out \cup {s}) /\ s \notin out
         /\ Bytes(Members(bs)) = Bytes(Members(b)) + s.size
<1>1. Lists(bs) /\ out \in SUBSET Storage /\ IsFiniteSet(out)  BY DEF Full
<1>2. s \in Storage /\ Lists(b) /\ Added(b, bs, at, p, s)  OBVIOUS
<1>3. bs \in Seq(Entries) /\ b \in Seq(Entries)  BY <1>1, <1>2 DEF Lists
<1>4. Members(bs) = Members(b) \cup {s}
  <2>1. Added(b, bs, at, p, s)  BY <1>2
  <2> QED  BY <1>3, <2>1, AddedMembers
<1>5. Given(d, s) /\ s.addr \notin Addrs(out)  BY <1>2 DEF Full, Added
<1>6. s \notin out  BY <1>5 DEF Addrs
<1>7. Addrs(out \cup {s}) = Addrs(out) \cup {s.addr}  BY DEF Addrs
<1>8. \A i \in DOMAIN b : \A j \in DOMAIN b[i].list :
        /\ i \in DOMAIN bs /\ j \in DOMAIN bs[i].list /\ bs[i].list[j] = b[i].list[j]
        /\ b[i].list[j].addr # s.addr
  BY <1>2 DEF Full, Added
<1>9. s \notin Members(b)
  <2>1. \A x \in Members(b) : \E i \in DOMAIN b : \E j \in DOMAIN b[i].list : x = b[i].list[j]
    BY <1>3, MembersProperties
  <2> SUFFICES ASSUME s \in Members(b) PROVE FALSE  OBVIOUS
  <2>2. PICK i \in DOMAIN b : \E j \in DOMAIN b[i].list : s = b[i].list[j]  BY <2>1
  <2>3. PICK j \in DOMAIN b[i].list : s = b[i].list[j]  BY <2>2
  <2> QED  BY <1>8, <2>3
<1>10. Bytes(Members(bs)) = Bytes(Members(b)) + s.size
  <2>1. Members(b) \in SUBSET Storage /\ IsFiniteSet(Members(b))  BY <1>3, MembersProperties
  <2> QED  BY <1>2, <1>4, <1>9, <2>1, BytesProperties
<1>11. IsFiniteSet(out \cup {s})  BY <1>1, FS_AddElement
<1>12. Apart(d, out \cup {s})
  <2>1. \A x \in out : Given(d, x) /\ x.addr \in Addrs(out)  BY DEF Full, Apart, Addrs
  <2>2. \A x, y \in out : x.addr = y.addr => x = y  BY DEF Full, Apart
  <2> QED  BY <1>5, <2>1, <2>2 DEF Apart
<1>13. \A i \in DOMAIN b : \A j \in DOMAIN b[i].list :
         Given(d, b[i].list[j]) /\ b[i].list[j].addr \notin Addrs(out \cup {s})
  <2>1. \A i \in DOMAIN bs : \A j \in DOMAIN bs[i].list :
          Given(d, bs[i].list[j]) /\ bs[i].list[j].addr \notin Addrs(out)
    BY DEF Full
  <2> QED  BY <1>7, <1>8, <2>1
<1>14. \A i, l \in DOMAIN b : \A j \in DOMAIN b[i].list, q \in DOMAIN b[l].list :
         b[i].list[j].addr = b[l].list[q].addr => i = l /\ j = q
  BY <1>8 DEF Full
<1>15. ASSUME NEW a \in DOMAIN d, a \notin Addrs(out \cup {s})
       PROVE  \E i \in DOMAIN b : \E j \in DOMAIN b[i].list : b[i].list[j].addr = a
  <2>1. PICK i \in DOMAIN bs : \E j \in DOMAIN bs[i].list : bs[i].list[j].addr = a
    BY <1>7, <1>15 DEF Full
  <2>2. PICK j \in DOMAIN bs[i].list : bs[i].list[j].addr = a  BY <2>1
  <2>3. ~ (i = at /\ j = p)  BY <1>2, <1>7, <1>15, <2>2 DEF Added
  <2>4. i \in DOMAIN b /\ j \in DOMAIN b[i].list /\ b[i].list[j].addr = a  BY <1>2, <2>2, <2>3 DEF Added
  <2> QED  BY <2>4
<1>16. d \in Devices /\ IsFiniteSet(DOMAIN d) /\ out \cup {s} \in SUBSET Storage  BY <1>1, <1>2 DEF Full
<1>17. Full(b, d, out \cup {s})  BY <1>2, <1>11, <1>12, <1>13, <1>14, <1>15, <1>16 DEF Full
<1> QED  BY <1>2, <1>6, <1>10, <1>17

\* The last storage of a list is taken.
Shortened(bs, at) == [bs EXCEPT ![at].list = Popped(@)]

\* The last storage of a list is such a storage.
LEMMA PopOwned ==
  ASSUME NEW bs, NEW d, NEW out, Full(bs, d, out), NEW at \in DOMAIN bs, bs[at].list # <<>>
  PROVE  /\ Full(Shortened(bs, at), d, out \cup {Last(bs[at].list)})
         /\ Last(bs[at].list) \in Storage /\ Last(bs[at].list) \notin out
         /\ Last(bs[at].list).size = bs[at].size
         /\ Bytes(Members(bs)) = Bytes(Members(Shortened(bs, at))) + Last(bs[at].list).size
<1> DEFINE b == [bs EXCEPT ![at].list = Popped(@)]
           s == Last(bs[at].list)
           p == Len(bs[at].list)
<1>1. Lists(bs)  BY DEF Full
<1>2. s \in Storage /\ s.size = bs[at].size /\ Lists(b) /\ Added(b, bs, at, p, s)
  BY <1>1, PopProperties
<1> HIDE DEF b, s, p
<1>3. /\ Full(b, d, out \cup {s}) /\ s \notin out
      /\ Bytes(Members(bs)) = Bytes(Members(b)) + s.size
  BY <1>2, TakenOwned
<1> QED  BY <1>2, <1>3 DEF b, s, Shortened

\* An empty list changes nothing.
LEMMA TouchOwned ==
  ASSUME NEW bs, NEW d, NEW out, Full(bs, d, out), NEW size \in Sizes
  PROVE  Full(Touch(bs, size), d, out) /\ Members(Touch(bs, size)) = Members(bs)
<1> DEFINE b == Touch(bs, size)
<1>1. Lists(bs)  BY DEF Full
<1>2. /\ Lists(b) /\ \A i \in DOMAIN bs : i \in DOMAIN b /\ b[i] = bs[i]
      /\ \A i \in DOMAIN b : i \notin DOMAIN bs => b[i].list = <<>>
  BY <1>1, TouchProperties
<1> HIDE DEF b
<1>3. \A i \in DOMAIN b : \A j \in DOMAIN b[i].list : i \in DOMAIN bs /\ b[i] = bs[i]
  BY <1>2
<1>4. bs \in Seq(Entries) /\ b \in Seq(Entries)  BY <1>1, <1>2 DEF Lists
<1>5. Members(b) = Members(bs)
  <2>1. /\ \A i \in DOMAIN bs : \A j \in DOMAIN bs[i].list : bs[i].list[j] \in Members(bs)
        /\ \A x \in Members(bs) : \E i \in DOMAIN bs : \E j \in DOMAIN bs[i].list : x = bs[i].list[j]
    BY <1>4, MembersProperties
  <2>2. /\ \A i \in DOMAIN b : \A j \in DOMAIN b[i].list : b[i].list[j] \in Members(b)
        /\ \A x \in Members(b) : \E i \in DOMAIN b : \E j \in DOMAIN b[i].list : x = b[i].list[j]
    BY <1>4, MembersProperties
  <2>3. \A x \in Members(b) : x \in Members(bs)  BY <1>3, <2>1, <2>2
  <2>4. \A x \in Members(bs) : x \in Members(b)  BY <1>2, <2>1, <2>2
  <2> QED  BY <2>3, <2>4
<1>6. Full(b, d, out)
  <2>1. \A i \in DOMAIN b : \A j \in DOMAIN b[i].list :
          Given(d, b[i].list[j]) /\ b[i].list[j].addr \notin Addrs(out)
    BY <1>3 DEF Full
  <2>2. \A i, k \in DOMAIN b : \A j \in DOMAIN b[i].list, l \in DOMAIN b[k].list :
          b[i].list[j].addr = b[k].list[l].addr => i = k /\ j = l
    BY <1>3 DEF Full
  <2>3. \A a \in DOMAIN d :
          a \in Addrs(out) \/ \E i \in DOMAIN b : \E j \in DOMAIN b[i].list : b[i].list[j].addr = a
    BY <1>2 DEF Full
  <2> QED  BY <1>2, <2>1, <2>2, <2>3 DEF Full
<1> QED  BY <1>5, <1>6 DEF b

-----------------------------------------------------------------------------
(* The device gives memory out, and takes it back.                          *)

\* There is an address that the device has not given out.
LEMMA FreshIsFree ==
  ASSUME IsFiniteSet(DOMAIN device)
  PROVE  Fresh \in Sizes /\ Fresh \notin DOMAIN device
<1> DEFINE n == Cardinality(DOMAIN device)
<1>1. n \in Nat  BY FS_CardinalityType
<1>2. \E a \in 1 .. n + 1 : a \notin DOMAIN device
  <2> SUFFICES ASSUME 1 .. n + 1 \in SUBSET DOMAIN device PROVE FALSE  OBVIOUS
  <2>1. Cardinality(1 .. n + 1) <= n  BY FS_Subset
  <2>2. Cardinality(1 .. n + 1) = n + 1
    <3> HIDE DEF n
    <3>1. 1 \in Int /\ n + 1 \in Int /\ ~ (1 > n + 1) /\ (n + 1) - 1 + 1 = n + 1  BY <1>1
    <3> QED  BY <3>1, FS_Interval
  <2> QED  BY <1>1, <2>1, <2>2
<1>3. Fresh \in 1 .. n + 1 /\ Fresh \notin DOMAIN device  BY <1>2 DEF Fresh
<1> QED  BY <1>1, <1>3 DEF Sizes

\* The device gives out memory that nobody had.
LEMMA AllocateOwned ==
  ASSUME NEW bs, NEW d, NEW out, Full(bs, d, out),
         NEW a \in Sizes, a \notin DOMAIN d, NEW size \in Sizes
  PROVE  LET e == [x \in DOMAIN d \cup {a} |-> IF x = a THEN size ELSE d[x]]
         IN  Full(bs, e, out \cup {Block(a, size)}) /\ Block(a, size) \notin out
<1> DEFINE e == [x \in DOMAIN d \cup {a} |-> IF x = a THEN size ELSE d[x]]
           s == Block(a, size)
<1>1. s \in Storage /\ s.addr = a /\ s.size = size  BY DEF Block, Storage, Sizes
<1>2. DOMAIN d \in SUBSET Sizes /\ (\A x \in DOMAIN d : d[x] \in Sizes) /\ IsFiniteSet(DOMAIN d)
  BY DEF Full, Devices
<1>3. DOMAIN e = DOMAIN d \cup {a} /\ e[a] = size /\ \A x \in DOMAIN d : e[x] = d[x]
  OBVIOUS
<1>4. e \in Devices
  <2>1. DOMAIN d \cup {a} \in SUBSET Sizes  BY <1>2
  <2>2. e \in [DOMAIN d \cup {a} -> Sizes]  BY <1>2
  <2> HIDE DEF e
  <2> QED  BY <2>1, <2>2 DEF Devices
<1> HIDE DEF e, s
<1>5. IsFiniteSet(DOMAIN e)  BY <1>2, <1>3, FS_AddElement
<1>6. /\ out \in SUBSET Storage /\ IsFiniteSet(out)
      /\ \A t \in out : Given(d, t) /\ t.addr \in Addrs(out)
      /\ \A t, u \in out : t.addr = u.addr => t = u
  BY DEF Full, Apart, Addrs
<1>7. s \notin out /\ \A t \in out : t.addr # a  BY <1>1, <1>6 DEF Given
<1>8. \A t : Given(d, t) => Given(e, t) /\ t.addr # a  BY <1>3 DEF Given
<1>9. Addrs(out \cup {s}) = Addrs(out) \cup {a}  BY <1>1 DEF Addrs
<1>10. Apart(e, out \cup {s})
  <2>1. Given(e, s)  BY <1>1, <1>3 DEF Given
  <2> QED  BY <1>1, <1>6, <1>7, <1>8, <2>1 DEF Apart
<1>11. out \cup {s} \in SUBSET Storage /\ IsFiniteSet(out \cup {s})  BY <1>1, <1>6, FS_AddElement
<1>12. \A i \in DOMAIN bs : \A j \in DOMAIN bs[i].list :
         Given(e, bs[i].list[j]) /\ bs[i].list[j].addr \notin Addrs(out \cup {s})
  BY <1>8, <1>9 DEF Full
<1>13. \A x \in DOMAIN e : x \in Addrs(out \cup {s})
          \/ \E i \in DOMAIN bs : \E j \in DOMAIN bs[i].list : bs[i].list[j].addr = x
  BY <1>3, <1>9 DEF Full
<1>14. Full(bs, e, out \cup {s})  BY <1>4, <1>5, <1>10, <1>11, <1>12, <1>13 DEF Full
<1> QED  BY <1>7, <1>14 DEF e, s

\* The device takes back memory that it has given out.
LEMMA GiveBackKnown ==
  ASSUME NEW e, NEW c, NEW s, s.addr \in DOMAIN e
  PROVE  GiveBack([ok |-> TRUE, device |-> e, count |-> c], s)
           = [ok |-> TRUE, device |-> Without(e, s.addr), count |-> c + 1]
BY DEF GiveBack

\* Where clear starts.
Beginning(d) == [ok |-> TRUE, device |-> d, count |-> 0]

\* clear gives back the memory of all pooled storages, and no other.
LEMMA GivenBackOwned ==
  ASSUME NEW bs, NEW d, NEW out, Full(bs, d, out)
  PROVE  LET end == FoldLeft(GiveBack, Beginning(d), Pooled(bs))
         IN  end.ok /\ end.device = [a \in DOMAIN d \ Addrs(Members(bs)) |-> d[a]]
<1> DEFINE q == Pooled(bs)
           n == Len(q)
<1>1. q \in Seq(Storage) /\ ToSet(q) = Members(bs) /\ IsInjective(q)  BY FullProperties, PooledProperties
<1>2. /\ \A s \in Members(bs) : Given(d, s)
      /\ \A s, t \in Members(bs) : s.addr = t.addr => s = t
  BY FullProperties
<1> HIDE DEF q
<1>3. n \in Nat /\ DOMAIN q = 1 .. n  BY <1>1
<1>4. \A i \in 1 .. n : q[i] \in Members(bs)  BY <1>1, <1>3 DEF ToSet
<1>5. \A i, j \in 1 .. n : q[i].addr = q[j].addr => i = j
  <2> TAKE i, j \in 1 .. n
  <2>1. q[i].addr = q[j].addr => q[i] = q[j]  BY <1>2, <1>4
  <2> QED  BY <1>1, <1>3, <2>1 DEF IsInjective
<1> HIDE DEF n
<1>6. PICK F : Stages("give", Beginning(d), q, n, F) /\ FoldLeft(GiveBack, Beginning(d), q) = F[n]
  BY <1>3, GiveBackStages
<1> DEFINE Left(k) == DOMAIN d \ {q[i].addr : i \in 1 .. k}
           Right(k) == F[k] = [ok |-> TRUE, device |-> [a \in Left(k) |-> d[a]], count |-> k]
           T == {k \in 0 .. n : ~ Right(k)}
<1>7. T = {}
  <2>1. SUFFICES ASSUME T # {} PROVE FALSE  OBVIOUS
  <2>2. PICK k \in T : \A y \in T : k <= y
    <3>1. T \in SUBSET Nat  BY <1>3
    <3> QED  BY <2>1, <3>1, LeastOf
  <2>3. k \in 0 .. n /\ ~ Right(k)  BY <2>2
  <2>4. CASE k = 0
    <3>1. {q[i].addr : i \in 1 .. k} = {}  BY <2>4
    <3>2. Left(k) = DOMAIN d  BY <3>1
    <3>3. d = [a \in DOMAIN d |-> d[a]]  BY DEF Full, Devices
    <3>4. F[k] = Beginning(d)  BY <1>6, <2>4 DEF Stages
    <3>5. d = [a \in Left(k) |-> d[a]]  BY <3>2, <3>3
    <3> DEFINE e == [a \in Left(k) |-> d[a]]
    <3>6. d = e  BY <3>5
    <3> HIDE DEF e, Left
    <3>7. F[k] = [ok |-> TRUE, device |-> e, count |-> k]  BY <2>4, <3>4, <3>6 DEF Beginning
    <3> QED  BY <2>3, <3>7 DEF e
  <2>5. CASE k # 0
    <3>1. k - 1 \in 0 .. n /\ ~ (k <= k - 1) /\ k \in 1 .. n /\ k \in Nat  BY <1>3, <2>3, <2>5
    <3>2. Right(k - 1)  BY <2>2, <3>1
    <3>3. F[k] = GiveBack(F[k - 1], q[k])  BY <1>6, <3>1 DEF Stages, Applied
    <3> DEFINE e == [a \in Left(k - 1) |-> d[a]]
    <3>4. F[k - 1] = [ok |-> TRUE, device |-> e, count |-> k - 1]  BY <3>2
    <3>5. 1 .. k = (1 .. (k - 1)) \cup {k}  BY <3>1
    <3>6. Left(k) = Left(k - 1) \ {q[k].addr}  BY <3>5
    <3>7. q[k].addr \in Left(k - 1)
      <4>1. q[k].addr \in DOMAIN d  BY <1>2, <1>4, <3>1 DEF Given
      <4>2. \A i \in 1 .. (k - 1) : q[i].addr # q[k].addr
        <5> TAKE i \in 1 .. (k - 1)
        <5>1. i \in 1 .. n /\ i # k  BY <1>3, <3>1
        <5> QED  BY <1>5, <3>1, <5>1
      <4> QED  BY <4>1, <4>2
    <3>8. DOMAIN e = Left(k - 1)  OBVIOUS
    <3>9. Without(e, q[k].addr) = [a \in Left(k) |-> d[a]]
      <4>1. Without(e, q[k].addr) = [a \in Left(k) |-> e[a]]  BY <3>6, <3>8 DEF Without
      <4>2. \A a \in Left(k) : e[a] = d[a]  BY <3>6
      <4> QED  BY <4>1, <4>2
    <3> HIDE DEF e, Left
    <3>10. F[k] = [ok |-> TRUE, device |-> Without(e, q[k].addr), count |-> k]
      <4>1. (k - 1) + 1 = k  BY <3>1
      <4> QED  BY <3>3, <3>4, <3>7, <3>8, <4>1, GiveBackKnown
    <3> QED  BY <2>3, <3>9, <3>10
  <2> QED  BY <2>4, <2>5
<1>8. Right(n)
  <2>1. n \in 0 .. n  BY <1>3
  <2> QED  BY <1>7, <2>1
<1>9. Addrs(Members(bs)) = {q[i].addr : i \in 1 .. n}
  <2>1. \A s \in Members(bs) : \E i \in 1 .. n : s = q[i]  BY <1>1, <1>3 DEF ToSet
  <2> QED  BY <1>4, <2>1 DEF Addrs
<1>10. F[n].ok /\ F[n].device = [a \in DOMAIN d \ Addrs(Members(bs)) |-> d[a]]  BY <1>8, <1>9
<1> QED  BY <1>6, <1>10 DEF q

\* The empty pool holds nothing.
LEMMA EmptyPool ==
  /\ Members(<<>>) = {} /\ Bytes(Members(<<>>)) = 0 /\ Lists(<<>>)
<1>1. Members(<<>>) = {}  BY DEF Members
<1>2. Bytes({}) = 0
  <2>1. {} \in SUBSET Storage /\ IsFiniteSet({})  BY FS_EmptySet
  <2> QED  BY <2>1, BytesProperties
<1>3. Lists(<<>>)  BY DEF Lists
<1> QED  BY <1>1, <1>2, <1>3

\* When it has, what is out of the pool is as it was.
LEMMA ClearedOwned ==
  ASSUME NEW bs, NEW d, NEW out, Full(bs, d, out),
         NEW e, e = [a \in DOMAIN d \ Addrs(Members(bs)) |-> d[a]]
  PROVE  Full(<<>>, e, out)
<1>1. DOMAIN e = DOMAIN d \ Addrs(Members(bs)) /\ \A a \in DOMAIN e : e[a] = d[a]  OBVIOUS
<1>2. DOMAIN d \in SUBSET Sizes /\ (\A x \in DOMAIN d : d[x] \in Sizes) /\ IsFiniteSet(DOMAIN d)
  BY DEF Full, Devices
<1>3. e \in Devices
  <2>1. DOMAIN e \in SUBSET Sizes /\ e \in [DOMAIN e -> Sizes]  BY <1>2
  <2> QED  BY <2>1 DEF Devices
<1>4. IsFiniteSet(DOMAIN e)  BY <1>1, <1>2, FS_Subset
<1>5. /\ \A s \in Members(bs) : s.addr \notin Addrs(out)
      /\ \A a \in DOMAIN d : a \in Addrs(out) \/ a \in Addrs(Members(bs))
  BY FullProperties
<1>6. Addrs(Members(bs)) \cap Addrs(out) = {}  BY <1>5 DEF Addrs
<1>7. Apart(e, out)
  <2>1. \A s \in out : Given(d, s) /\ s.addr \in Addrs(out)  BY DEF Full, Apart, Addrs
  <2>2. \A s, t \in out : s.addr = t.addr => s = t  BY DEF Full, Apart
  <2>3. \A s \in out : Given(e, s)  BY <1>1, <1>6, <2>1 DEF Given
  <2> QED  BY <2>2, <2>3 DEF Apart
<1>8. \A a \in DOMAIN e : a \in Addrs(out)  BY <1>1, <1>5
<1>9. out \in SUBSET Storage /\ IsFiniteSet(out)  BY DEF Full
<1> QED  BY <1>3, <1>4, <1>7, <1>8, <1>9, EmptyPool DEF Full

-----------------------------------------------------------------------------
(* clear and free from start to end, as the collector runs them.            *)

\* The states between two frees of the collector.
Shape(st) == /\ DOMAIN st = {"blocks", "reserved", "device", "wiped"}
             /\ st.wiped \in BOOLEAN

\* Its entries are those of bs, and more.
Grown(bs, b) == \A i \in DOMAIN bs : i \in DOMAIN b /\ b[i].size = bs[i].size

\* reserved_size is off by delta.
Sound(st, out, delta) ==
  /\ Full(st.blocks, st.device, out)
  /\ st.reserved = Bytes(Members(st.blocks)) + delta /\ st.reserved <= MaxReserve

\* A pool that was cleared within a call is not sound for the call.
Consistent(bs, st, out, delta) ==
  /\ Shape(st)
  /\ ~ st.wiped \/ delta = 0 => Sound(st, out, delta)
  /\ ~ st.wiped => Grown(bs, st.blocks)

\* A pool that was cleared once stays marked as cleared.
LEMMA ClearAllWipes ==
  ASSUME NEW st, Shape(st), st.wiped
  PROVE  Shape(ClearAll(st)) /\ ClearAll(st).wiped
<1> DEFINE end == FoldLeft(GiveBack, [ok |-> TRUE, device |-> st.device, count |-> 0], Pooled(st.blocks))
           z == ZeroFirst(st.blocks, end.count)
<1>1. ClearAll(st) = IF end.ok
        THEN [blocks |-> <<>>, reserved |-> 0, device |-> end.device, wiped |-> TRUE]
        ELSE [st EXCEPT !.blocks = z, !.device = end.device]
  BY DEF ClearAll
<1> HIDE DEF end, z
<1>2. CASE end.ok  BY <1>1, <1>2 DEF Shape
<1>3. CASE ~ end.ok  BY <1>1, <1>3 DEF Shape
<1> QED  BY <1>2, <1>3

\* clear, from start to end.
LEMMA ClearAllSound ==
  ASSUME NEW st, NEW out, Full(st.blocks, st.device, out)
  PROVE  Shape(ClearAll(st)) /\ ClearAll(st).wiped /\ Sound(ClearAll(st), out, 0)
<1> DEFINE end == FoldLeft(GiveBack, Beginning(st.device), Pooled(st.blocks))
           e == [a \in DOMAIN st.device \ Addrs(Members(st.blocks)) |-> st.device[a]]
<1>1. end.ok /\ end.device = e  BY GivenBackOwned
<1>2. Full(<<>>, e, out)  BY ClearedOwned
<1>3. ClearAll(st) = IF end.ok
        THEN [blocks |-> <<>>, reserved |-> 0, device |-> end.device, wiped |-> TRUE]
        ELSE [st EXCEPT !.blocks = ZeroFirst(@, end.count), !.device = end.device]
  BY DEF ClearAll, Beginning
<1> HIDE DEF end, e
<1>4. ClearAll(st) = [blocks |-> <<>>, reserved |-> 0, device |-> e, wiped |-> TRUE]
  BY <1>1, <1>3
<1>5. MaxReserve \in Nat  BY PoolAssumption
<1> QED  BY <1>2, <1>4, <1>5, EmptyPool DEF Shape, Sound

\* free of one storage, from start to end.
LEMMA FreeAllStep ==
  ASSUME NEW bs, NEW st, NEW out, NEW delta \in Int, Consistent(bs, st, out, delta), NEW s \in out
  PROVE  Consistent(bs, FreeAll(st, s), out \ {s}, delta)
<1> DEFINE b == Put(st.blocks, s)
           r == st.reserved + s.size
           after == [st EXCEPT !.blocks = Put(@, s), !.reserved = @ + s.size]
<1>1. Shape(st)  BY DEF Consistent
<1>2. FreeAll(st, s) = IF Over(after.reserved) THEN ClearAll(after) ELSE after  BY DEF FreeAll
<1>3. Shape(after) /\ after.blocks = b /\ after.reserved = r /\ after.device = st.device
      /\ after.wiped = st.wiped /\ st.wiped \in BOOLEAN
  BY <1>1 DEF Shape
<1> HIDE DEF after
<1>4. CASE st.wiped /\ delta # 0
  <2>1. Shape(ClearAll(after)) /\ ClearAll(after).wiped  BY <1>3, <1>4, ClearAllWipes
  <2> QED  BY <1>2, <1>3, <1>4, <2>1 DEF Consistent
<1>5. CASE ~ (st.wiped /\ delta # 0)
  <2>1. Sound(st, out, delta)  BY <1>5 DEF Consistent, Shape
  <2>2. /\ Full(b, st.device, out \ {s}) /\ Bytes(Members(b)) = Bytes(Members(st.blocks)) + s.size
        /\ \A i \in DOMAIN st.blocks : i \in DOMAIN b /\ b[i].size = st.blocks[i].size
    <3>1. Full(st.blocks, st.device, out)  BY <2>1 DEF Sound
    <3> QED  BY <3>1, PutOwned
  <2>3. s.size \in Nat /\ Bytes(Members(st.blocks)) \in Nat
    <3>1. Full(st.blocks, st.device, out)  BY <2>1 DEF Sound
    <3>2. s \in Storage  BY <3>1 DEF Full
    <3>3. Members(st.blocks) \in SUBSET Storage /\ IsFiniteSet(Members(st.blocks))
      BY <3>1, FullProperties
    <3> QED  BY <3>2, <3>3, BytesProperties DEF Storage, Sizes
  <2> HIDE DEF b
  <2>4. r = Bytes(Members(b)) + delta  BY <2>1, <2>2, <2>3 DEF Sound
  <2> HIDE DEF r
  <2>5. CASE Over(r)
    <3>1. FreeAll(st, s) = ClearAll(after)  BY <1>2, <1>3, <2>5
    <3>2. Shape(ClearAll(after)) /\ ClearAll(after).wiped /\ Sound(ClearAll(after), out \ {s}, 0)
      BY <1>3, <2>2, ClearAllSound
    <3> QED  BY <3>1, <3>2 DEF Consistent
  <2>6. CASE ~ Over(r)
    <3>1. FreeAll(st, s) = after  BY <1>2, <1>3, <2>6
    <3>2. r \in Int /\ MaxReserve \in Int
      <4>1. Bytes(Members(b)) \in Nat  BY <2>2, <2>3
      <4> QED  BY <2>4, <4>1, PoolAssumption
    <3>3. r <= MaxReserve  BY <2>6, <3>2 DEF Over
    <3>4. Sound(after, out \ {s}, delta)  BY <1>3, <2>2, <2>4, <3>3 DEF Sound
    <3>5. ~ st.wiped => Grown(bs, b)  BY <2>2 DEF Consistent, Grown
    <3> QED  BY <1>3, <3>1, <3>4, <3>5 DEF Consistent
  <2> QED  BY <2>5, <2>6
<1> QED  BY <1>4, <1>5

\* What the collector leaves when it has freed the storages it found.
LEMMA CollectedConsistent ==
  ASSUME NEW bs, NEW st, NEW out, NEW delta \in Int, Consistent(bs, st, out, delta),
         NEW G \in SUBSET out, IsFiniteSet(G), NEW order \in SetToSeqs(G)
  PROVE  Consistent(bs, FoldLeft(FreeAll, st, order), out \ G, delta)
<1> DEFINE n == Cardinality(G)
<1>1. n \in Nat  BY FS_CardinalityType
<1>2. /\ order \in [1 .. n -> G] /\ DOMAIN order = 1 .. n
      /\ \A i, j \in 1 .. n : i # j => order[i] # order[j]
  BY DEF SetToSeqs
<1>3. \A s \in G : \E i \in 1 .. n : s = order[i]
  <2>1. order \in Injection(1 .. n, G)  BY <1>2 DEF Injection, IsInjective
  <2>2. Cardinality(1 .. n) = Cardinality(G)
    <3> HIDE DEF n
    <3>1. 1 \in Int /\ n \in Int /\ (1 > n => n = 0) /\ (n - 1) + 1 = n  BY <1>1
    <3>2. Cardinality(1 .. n) = n  BY <3>1, FS_Interval
    <3> QED  BY <3>2 DEF n
  <2>3. order \in Surjection(1 .. n, G)  BY <2>1, <2>2, FS_Injection
  <2> QED  BY <2>3 DEF Surjection
<1> HIDE DEF n
<1>4. PICK F : Stages("free", st, order, n, F) /\ FoldLeft(FreeAll, st, order) = F[n]
  BY <1>1, <1>2, FreeAllStages
<1> DEFINE Left(k) == out \ {order[i] : i \in 1 .. k}
           Right(k) == Consistent(bs, F[k], Left(k), delta)
           T == {k \in 0 .. n : ~ Right(k)}
<1>5. T = {}
  <2>1. SUFFICES ASSUME T # {} PROVE FALSE  OBVIOUS
  <2>2. PICK k \in T : \A y \in T : k <= y
    <3>1. T \in SUBSET Nat  BY <1>1
    <3> QED  BY <2>1, <3>1, LeastOf
  <2>3. k \in 0 .. n /\ ~ Right(k)  BY <2>2
  <2>4. CASE k = 0
    <3>1. Left(k) = out  BY <2>4
    <3>2. F[k] = st  BY <1>4, <2>4 DEF Stages
    <3> QED  BY <2>3, <3>1, <3>2
  <2>5. CASE k # 0
    <3>1. k - 1 \in 0 .. n /\ ~ (k <= k - 1) /\ k \in 1 .. n /\ k \in Nat  BY <1>1, <2>3, <2>5
    <3>2. Right(k - 1)  BY <2>2, <3>1
    <3>3. F[k] = FreeAll(F[k - 1], order[k])  BY <1>4, <3>1 DEF Stages, Applied
    <3>4. 1 .. k = (1 .. (k - 1)) \cup {k}  BY <3>1
    <3>5. Left(k) = Left(k - 1) \ {order[k]}  BY <3>4
    <3>6. order[k] \in Left(k - 1)
      <4>1. order[k] \in out  BY <1>2, <3>1
      <4>2. \A i \in 1 .. (k - 1) : i \in 1 .. n /\ i # k  BY <1>1, <3>1
      <4> QED  BY <1>2, <3>1, <4>1, <4>2
    <3> HIDE DEF Left
    <3>7. Consistent(bs, F[k], Left(k), delta)  BY <3>2, <3>3, <3>5, <3>6, FreeAllStep
    <3> QED  BY <2>3, <3>7
  <2> QED  BY <2>4, <2>5
<1>6. Right(n)
  <2>1. n \in 0 .. n  BY <1>1
  <2> QED  BY <1>5, <2>1
<1>7. Left(n) = out \ G  BY <1>2, <1>3
<1> QED  BY <1>4, <1>6, <1>7

-----------------------------------------------------------------------------
(* clear, one storage after the other.                                      *)

\* A rounded request is a size.
LEMMA RoundedType ==
  ASSUME NEW n \in Requests
  PROVE  Rounded(n) \in Sizes
<1> DEFINE q == (n + BlockSize - 1) \div BlockSize
<1>1. n \in Nat /\ n >= 1 /\ BlockSize \in Nat /\ BlockSize >= 1  BY PoolAssumption
<1>2. q \in Int /\ q >= 1  BY <1>1
<1> HIDE DEF q
<1>3. q * BlockSize \in Int /\ q * BlockSize >= 1  BY <1>1, <1>2
<1> QED  BY <1>3 DEF Rounded, Sizes, q

\* The types of what is at the positions of the lists.
LEMMA PositionTypes ==
  ASSUME NEW bs, Lists(bs)
  PROVE  /\ Len(bs) \in Nat /\ DOMAIN bs = 1 .. Len(bs) /\ bs \in Seq(Entries)
         /\ \A i \in DOMAIN bs : /\ bs[i] \in Entries /\ bs[i].size \in Sizes
                                 /\ bs[i].list \in Seq(Storage) /\ Len(bs[i].list) \in Nat
                                 /\ DOMAIN bs[i].list = 1 .. Len(bs[i].list)
<1>1. bs \in Seq(Entries)  BY DEF Lists
<1>2. \A i \in DOMAIN bs : bs[i] \in Entries  BY <1>1
<1>3. \A i \in DOMAIN bs : bs[i].size \in Sizes /\ bs[i].list \in Seq(Storage)  BY <1>2 DEF Entries
<1> QED  BY <1>1, <1>2, <1>3

\* clear goes on to the next list.
LEMMA NextListOwned ==
  ASSUME NEW bs, NEW d, NEW out, NEW m \in Nat, NEW n \in Nat, Owned(bs, d, out, m, n),
         m = 0 \/ n > Len(bs[m].list)
  PROVE  Owned(bs, d, out, m + 1, 1)
<1>1. Lists(bs)  BY DEF Owned
<1>2. \A i \in DOMAIN bs : \A j \in DOMAIN bs[i].list : Gone(m + 1, 1, i, j) <=> Gone(m, n, i, j)
  <2> SUFFICES ASSUME NEW i \in DOMAIN bs, NEW j \in DOMAIN bs[i].list
               PROVE  Gone(m + 1, 1, i, j) <=> Gone(m, n, i, j)
    OBVIOUS
  <2>1. i \in Nat /\ i >= 1 /\ j \in Nat /\ j >= 1 /\ j <= Len(bs[i].list) /\ Len(bs[i].list) \in Nat
    BY <1>1, PositionTypes
  <2> QED  BY <2>1 DEF Gone
<1>3. Kept(bs, d, out, m + 1, 1)  BY <1>2 DEF Owned, Kept
<1>4. Found(bs, d, out, m + 1, 1)  BY <1>2 DEF Owned, Found
<1> QED  BY <1>3, <1>4 DEF Owned

\* clear comes to the end of the dictionary.
LEMMA LastListOwned ==
  ASSUME NEW bs, NEW d, NEW out, NEW m \in Nat, NEW n \in Nat, Owned(bs, d, out, m, n),
         m = Len(bs), m = 0 \/ n > Len(bs[m].list)
  PROVE  Full(<<>>, d, out)
<1>1. Lists(bs)  BY DEF Owned
<1>2. \A i \in DOMAIN bs : \A j \in DOMAIN bs[i].list : Gone(m, n, i, j)
  <2> SUFFICES ASSUME NEW i \in DOMAIN bs, NEW j \in DOMAIN bs[i].list
               PROVE  Gone(m, n, i, j)
    OBVIOUS
  <2>1. i \in Nat /\ i >= 1 /\ i <= m /\ j \in Nat /\ j <= Len(bs[i].list) /\ Len(bs[i].list) \in Nat
    BY <1>1, PositionTypes
  <2> QED  BY <2>1 DEF Gone
<1>3. \A a \in DOMAIN d : a \in Addrs(out)  BY <1>2 DEF Owned, Found
<1> QED  BY <1>3, EmptyPool DEF Owned, Full

\* clear frees a storage.
LEMMA FreeOneOwned ==
  ASSUME NEW bs, NEW d, NEW out, NEW m \in DOMAIN bs, NEW n \in DOMAIN bs[m].list,
         Owned(bs, d, out, m, n)
  PROVE  /\ bs[m].list[n].addr \in DOMAIN d
         /\ Owned(bs, Without(d, bs[m].list[n].addr), out, m, n + 1)
<1> DEFINE s == bs[m].list[n]
           e == Without(d, s.addr)
<1>1. Lists(bs) /\ m \in Nat /\ n \in Nat
  <2>1. Lists(bs)  BY DEF Owned
  <2> QED  BY <2>1, PositionTypes
<1>2. ~ Gone(m, n, m, n)  BY <1>1 DEF Gone
<1>3. Given(d, s) /\ s.addr \notin Addrs(out)  BY <1>2 DEF Owned, Kept
<1>4. DOMAIN e = DOMAIN d \ {s.addr} /\ \A a \in DOMAIN e : e[a] = d[a]  BY DEF Without
<1>5. DOMAIN d \in SUBSET Sizes /\ (\A x \in DOMAIN d : d[x] \in Sizes) /\ IsFiniteSet(DOMAIN d)
  BY DEF Owned, Devices
<1>6. e \in Devices
  <2>1. DOMAIN e \in SUBSET Sizes /\ e \in [DOMAIN e -> Sizes]  BY <1>5 DEF Without
  <2> HIDE DEF e
  <2> QED  BY <2>1 DEF Devices
<1> HIDE DEF e, s
<1>7. IsFiniteSet(DOMAIN e)  BY <1>4, <1>5, FS_RemoveElement
<1>8. \A t : Given(d, t) /\ t.addr # s.addr => Given(e, t)  BY <1>4 DEF Given
<1>9. Apart(e, out)
  <2>1. \A t \in out : Given(d, t) /\ t.addr # s.addr  BY <1>3 DEF Owned, Apart, Addrs
  <2> QED  BY <1>8, <2>1 DEF Owned, Apart
<1>10. \A i \in DOMAIN bs : \A j \in DOMAIN bs[i].list :
         /\ Gone(m, n + 1, i, j) <=> (Gone(m, n, i, j) \/ (i = m /\ j = n))
         /\ i \in Nat /\ j \in Nat
  <2> SUFFICES ASSUME NEW i \in DOMAIN bs, NEW j \in DOMAIN bs[i].list
               PROVE  /\ Gone(m, n + 1, i, j) <=> (Gone(m, n, i, j) \/ (i = m /\ j = n))
                      /\ i \in Nat /\ j \in Nat
    OBVIOUS
  <2>1. i \in Nat /\ j \in Nat  BY <1>1, PositionTypes
  <2> QED  BY <1>1, <2>1 DEF Gone
<1>11. ASSUME NEW i \in DOMAIN bs, NEW j \in DOMAIN bs[i].list, ~ Gone(m, n + 1, i, j)
       PROVE  Given(e, bs[i].list[j]) /\ bs[i].list[j].addr \notin Addrs(out)
  <2>1. ~ Gone(m, n, i, j) /\ ~ (i = m /\ j = n)  BY <1>10, <1>11
  <2>2. Given(d, bs[i].list[j]) /\ bs[i].list[j].addr \notin Addrs(out)  BY <2>1 DEF Owned, Kept
  <2>3. bs[i].list[j].addr # s.addr  BY <1>2, <2>1 DEF Owned, Kept, s
  <2> QED  BY <1>8, <2>2, <2>3
<1>12. ASSUME NEW i \in DOMAIN bs, NEW j \in DOMAIN bs[i].list, Gone(m, n + 1, i, j)
       PROVE  bs[i].list[j].addr \notin DOMAIN e
  <2>1. CASE i = m /\ j = n  BY <1>4, <2>1 DEF s
  <2>2. CASE Gone(m, n, i, j)  BY <1>4, <2>2 DEF Owned, Kept
  <2> QED  BY <1>10, <1>12, <2>1, <2>2
<1>13. Kept(bs, e, out, m, n + 1)
  <2>1. \A i, k \in DOMAIN bs : \A j \in DOMAIN bs[i].list, l \in DOMAIN bs[k].list :
          ~ Gone(m, n + 1, i, j) /\ ~ Gone(m, n + 1, k, l) /\ bs[i].list[j].addr = bs[k].list[l].addr =>
            i = k /\ j = l
    BY <1>10 DEF Owned, Kept
  <2> QED  BY <1>11, <1>12, <2>1 DEF Kept
<1>14. ASSUME NEW a \in DOMAIN e, a \notin Addrs(out)
       PROVE  \E i \in DOMAIN bs : \E j \in DOMAIN bs[i].list :
                ~ Gone(m, n + 1, i, j) /\ bs[i].list[j].addr = a
  <2>1. a \in DOMAIN d /\ a # s.addr  BY <1>4
  <2>2. PICK i \in DOMAIN bs : \E j \in DOMAIN bs[i].list :
               ~ Gone(m, n, i, j) /\ bs[i].list[j].addr = a
    BY <1>14, <2>1 DEF Owned, Found
  <2>3. PICK j \in DOMAIN bs[i].list : ~ Gone(m, n, i, j) /\ bs[i].list[j].addr = a  BY <2>2
  <2>4. ~ (i = m /\ j = n)  BY <2>1, <2>3 DEF s
  <2> QED  BY <1>10, <2>3, <2>4
<1>15. Found(bs, e, out, m, n + 1)  BY <1>14 DEF Found
<1> QED  BY <1>1, <1>3, <1>6, <1>7, <1>9, <1>13, <1>15 DEF Owned, Given, e, s

\* ... and forgets its address.
Forgotten(bs, m, n) == [bs EXCEPT ![m].list[n].addr = 0]

\* A storage whose memory went back has an address nobody has.
LEMMA ZeroOwned ==
  ASSUME NEW bs, NEW d, NEW out, NEW m \in DOMAIN bs, NEW n \in DOMAIN bs[m].list,
         Owned(bs, d, out, m, n + 1)
  PROVE  /\ Owned(Forgotten(bs, m, n), d, out, m, n + 1)
         /\ Len(Forgotten(bs, m, n)) = Len(bs)
         /\ Len(Forgotten(bs, m, n)[m].list) = Len(bs[m].list)
<1> DEFINE z == [bs[m].list[n] EXCEPT !.addr = 0]
           new == [bs[m].list EXCEPT ![n] = z]
           e == [bs[m] EXCEPT !.list = new]
           b == [bs EXCEPT ![m] = e]
<1>1. Lists(bs)  BY DEF Owned
<1>2. /\ Len(bs) \in Nat /\ DOMAIN bs = 1 .. Len(bs) /\ bs \in Seq(Entries)
      /\ \A i \in DOMAIN bs : /\ bs[i] \in Entries /\ bs[i].size \in Sizes
                              /\ bs[i].list \in Seq(Storage) /\ Len(bs[i].list) \in Nat
                              /\ DOMAIN bs[i].list = 1 .. Len(bs[i].list)
  BY <1>1, PositionTypes
<1>3. bs[m].list[n] \in Storage  BY <1>2
<1>4. z \in Storage /\ z.addr = 0 /\ z.size = bs[m].size
  <2>1. bs[m].list[n].size = bs[m].size  BY <1>1 DEF Lists
  <2> QED  BY <1>3, <2>1 DEF Storage
<1> HIDE DEF z
<1>5. /\ new \in Seq(Storage) /\ DOMAIN new = DOMAIN bs[m].list /\ Len(new) = Len(bs[m].list)
      /\ new[n] = z /\ \A j \in DOMAIN bs[m].list : j # n => new[j] = bs[m].list[j]
  BY <1>2, <1>4, ExceptSeq
<1> HIDE DEF new
<1>6. e \in Entries /\ e.size = bs[m].size /\ e.list = new  BY <1>2, <1>5 DEF Entries
<1> HIDE DEF e
<1>7. /\ b \in Seq(Entries) /\ DOMAIN b = DOMAIN bs /\ Len(b) = Len(bs) /\ b[m] = e
      /\ \A i \in DOMAIN bs : i # m => b[i] = bs[i]
  BY <1>2, <1>6
<1>8. Forgotten(bs, m, n) = b  BY DEF b, e, new, z, Forgotten
<1> HIDE DEF b
<1>9. \A i \in DOMAIN bs : /\ b[i].size = bs[i].size /\ DOMAIN b[i].list = DOMAIN bs[i].list
                           /\ \A j \in DOMAIN bs[i].list :
                                b[i].list[j] = IF i = m /\ j = n THEN z ELSE bs[i].list[j]
  <2> SUFFICES ASSUME NEW i \in DOMAIN bs
               PROVE  /\ b[i].size = bs[i].size /\ DOMAIN b[i].list = DOMAIN bs[i].list
                      /\ \A j \in DOMAIN bs[i].list :
                           b[i].list[j] = IF i = m /\ j = n THEN z ELSE bs[i].list[j]
    OBVIOUS
  <2>1. CASE i = m  BY <1>5, <1>6, <1>7, <2>1
  <2>2. CASE i # m  BY <1>7, <2>2
  <2> QED  BY <2>1, <2>2
<1>10. Lists(b)
  <2>1. \A i, k \in DOMAIN b : b[i].size = b[k].size => i = k  BY <1>1, <1>7, <1>9 DEF Lists
  <2>2. \A i \in DOMAIN b : \A j \in DOMAIN b[i].list : b[i].list[j].size = b[i].size
    BY <1>1, <1>4, <1>7, <1>9 DEF Lists
  <2> QED  BY <1>7, <2>1, <2>2 DEF Lists
<1>11. z.addr \notin DOMAIN d  BY <1>4 DEF Owned, Devices, Sizes
<1>12. Gone(m, n + 1, m, n)  BY <1>2 DEF Gone
<1>13. Kept(b, d, out, m, n + 1)
  <2>1. \A i \in DOMAIN b : \A j \in DOMAIN b[i].list :
          IF Gone(m, n + 1, i, j) THEN b[i].list[j].addr \notin DOMAIN d
          ELSE Given(d, b[i].list[j]) /\ b[i].list[j].addr \notin Addrs(out)
    <3> SUFFICES ASSUME NEW i \in DOMAIN bs, NEW j \in DOMAIN bs[i].list
                 PROVE  IF Gone(m, n + 1, i, j) THEN b[i].list[j].addr \notin DOMAIN d
                        ELSE Given(d, b[i].list[j]) /\ b[i].list[j].addr \notin Addrs(out)
      BY <1>7, <1>9
    <3>1. CASE i = m /\ j = n  BY <1>9, <1>11, <1>12, <3>1
    <3>2. CASE ~ (i = m /\ j = n)
      <4>1. b[i].list[j] = bs[i].list[j]  BY <1>9, <3>2
      <4> QED  BY <4>1 DEF Owned, Kept
    <3> QED  BY <3>1, <3>2
  <2>2. \A i, k \in DOMAIN b : \A j \in DOMAIN b[i].list, l \in DOMAIN b[k].list :
          ~ Gone(m, n + 1, i, j) /\ ~ Gone(m, n + 1, k, l) /\ b[i].list[j].addr = b[k].list[l].addr =>
            i = k /\ j = l
    <3> SUFFICES ASSUME NEW i \in DOMAIN bs, NEW k \in DOMAIN bs,
                        NEW j \in DOMAIN bs[i].list, NEW l \in DOMAIN bs[k].list,
                        ~ Gone(m, n + 1, i, j), ~ Gone(m, n + 1, k, l),
                        b[i].list[j].addr = b[k].list[l].addr
                 PROVE  i = k /\ j = l
      BY <1>7, <1>9
    <3>1. b[i].list[j] = bs[i].list[j] /\ b[k].list[l] = bs[k].list[l]  BY <1>9, <1>12
    <3> QED  BY <3>1 DEF Owned, Kept
  <2> QED  BY <2>1, <2>2 DEF Kept
<1>14. Found(b, d, out, m, n + 1)
  <2> SUFFICES ASSUME NEW a \in DOMAIN d, a \notin Addrs(out)
               PROVE  \E i \in DOMAIN b : \E j \in DOMAIN b[i].list :
                        ~ Gone(m, n + 1, i, j) /\ b[i].list[j].addr = a
    BY DEF Found
  <2>1. PICK i \in DOMAIN bs : \E j \in DOMAIN bs[i].list :
               ~ Gone(m, n + 1, i, j) /\ bs[i].list[j].addr = a
    BY DEF Owned, Found
  <2>2. PICK j \in DOMAIN bs[i].list : ~ Gone(m, n + 1, i, j) /\ bs[i].list[j].addr = a  BY <2>1
  <2>3. b[i].list[j] = bs[i].list[j]  BY <1>9, <1>12, <2>2
  <2>4. i \in DOMAIN b /\ j \in DOMAIN b[i].list  BY <1>7, <1>9
  <2> QED  BY <2>2, <2>3, <2>4
<1>15. Owned(b, d, out, m, n + 1)  BY <1>10, <1>13, <1>14 DEF Owned
<1> QED  BY <1>5, <1>6, <1>7, <1>8, <1>15

-----------------------------------------------------------------------------
(* The invariant, and the steps of malloc and free.                         *)

\* The storages outside the pool.
Popping == IF op.pc = "popped" THEN {op.storage} ELSE {}
Out == live \cup garbage \cup Popping

\* How far clear has come.
Place == IF op.pc = "clear" THEN <<op.at, op.next>>
         ELSE IF op.pc = "zero" THEN <<op.at, op.next + 1>> ELSE <<0, 1>>

\* What is still to be taken off reserved_size, or to be added to it.
Pending == IF op.pc = "popped" THEN op.storage.size
           ELSE IF op.pc = "appended" THEN -op.storage.size ELSE 0

\* The steps of clear, and where it is in the dictionary.
InClear == {"clear", "zero", "cleared"}

AtClear ==
  /\ DOMAIN op = {"pc", "after", "size", "at", "next", "count", "list", "detached"}
  /\ ~ op.detached /\ op.count \in {-1, Len(blocks)}
  /\ op.at \in 0 .. Len(blocks) /\ op.next \in Nat \ {0}

\* Where each call may be.
Calls ==
  \/ op = Idle
  \/ op.pc = "looked" /\ op.at \in DOMAIN blocks /\ op.size = blocks[op.at].size /\ ~ op.detached
  \/ op.pc = "popped" /\ op.storage \in Storage /\ op.storage \notin live \cup garbage
  \/ op.pc = "appended" /\ op.storage \in Storage
  \/ op.pc = "clear" /\ AtClear /\ op.next <= Len(Iterated) + 1
  \/ op.pc = "zero" /\ AtClear /\ op.next <= Len(Iterated)
  \/ op.pc = "cleared" /\ blocks = <<>>
  \/ op.pc = "retry" /\ blocks = <<>>

\* malloc that tries again has collected the garbage.
Retrying ==
  /\ op.pc \in InClear => op.after \in {"idle", "retry"}
  /\ op.pc = "retry" \/ (op.pc \in InClear /\ op.after = "retry") =>
       garbage = {} /\ op.size \in Sizes

\* The parts of the invariant.
Memory == Owned(blocks, device, Out, Place[1], Place[2])

Counted == op.pc \notin InClear =>
             reserved = Bytes(Members(blocks)) + Pending /\ reserved <= MaxReserve

Good == Memory /\ live \cap garbage = {} /\ Calls /\ Retrying /\ Counted

IInv == ~ disturbed => Good

\* Outside clear the pool is full.
LEMMA Settled ==
  ASSUME op.pc \notin {"clear", "zero"}
  PROVE  Memory <=> Full(blocks, device, Out)
BY OwnedIsFull DEF Memory, Place

\* The same after a step.
LEMMA SettledNext ==
  ASSUME op'.pc \notin {"clear", "zero"}
  PROVE  Memory' <=> Full(blocks', device', Out')
BY OwnedIsFull DEF Memory, Place

\* The types of sizes.
LEMMA FullSizes ==
  ASSUME NEW bs, NEW d, NEW out, Full(bs, d, out)
  PROVE  /\ Bytes(Members(bs)) \in Nat
         /\ \A s \in out : s \in Storage /\ s.size \in Nat /\ s.size \in Sizes
<1>1. Members(bs) \in SUBSET Storage /\ IsFiniteSet(Members(bs))  BY FullProperties
<1>2. \A s \in out : s \in Storage  BY DEF Full
<1> QED  BY <1>1, <1>2, BytesProperties DEF Storage, Sizes

\* The program starts with an empty pool.
LEMMA InitGood == Init => Good
<1> SUFFICES ASSUME Init PROVE Good  OBVIOUS
<1>1. blocks = <<>> /\ device = <<>> /\ live = {} /\ garbage = {} /\ op = Idle /\ reserved = 0
  BY DEF Init
<1>2. op.pc = "idle"  BY <1>1 DEF Idle
<1>3. Out = {}  BY <1>1, <1>2 DEF Out, Popping
<1>4. device \in Devices /\ DOMAIN device = {}
  <2>1. device \in [{} -> Sizes] /\ {} \in SUBSET Sizes /\ DOMAIN device = {}  BY <1>1
  <2> QED  BY <2>1 DEF Devices
<1>5. Full(blocks, device, Out)
  BY <1>1, <1>3, <1>4, EmptyPool, FS_EmptySet DEF Full, Apart
<1>6. Memory  BY <1>2, <1>5, Settled
<1>7. Counted  BY <1>1, <1>2, EmptyPool, PoolAssumption DEF Counted, Pending
<1> QED  BY <1>1, <1>2, <1>6, <1>7 DEF Good, Calls, Retrying, InClear

\* malloc looks its list up.
LEMMA LookupGood ==
  ASSUME Good, Lookup
  PROVE  Good'
<1>1. PICK n \in Requests :
        /\ blocks' = Touch(blocks, Rounded(n))
        /\ op' = [pc |-> "looked", size |-> Rounded(n), at |-> IndexOf(blocks', Rounded(n)),
                  list |-> <<>>, detached |-> FALSE]
  BY DEF Lookup
<1>2. op = Idle /\ reserved' = reserved /\ device' = device /\ live' = live /\ garbage' = garbage
  BY DEF Lookup
<1>3. op.pc = "idle" /\ op'.pc = "looked" /\ op'.size = Rounded(n)
      /\ op'.at = IndexOf(blocks', Rounded(n)) /\ op'.detached = FALSE
  BY <1>1, <1>2 DEF Idle
<1>4. Out' = Out  BY <1>2, <1>3 DEF Out, Popping
<1>5. Full(blocks, device, Out)  BY <1>3, Settled DEF Good
<1>6. Rounded(n) \in Sizes  BY RoundedType
<1>7. Full(blocks', device', Out') /\ Members(blocks') = Members(blocks)
  BY <1>1, <1>2, <1>4, <1>5, <1>6, TouchOwned
<1>8. Memory'  BY <1>3, <1>7, SettledNext
<1>9. Calls'
  <2>1. Lists(blocks)  BY <1>5 DEF Full
  <2>2. /\ IndexOf(Touch(blocks, Rounded(n)), Rounded(n)) \in DOMAIN Touch(blocks, Rounded(n))
        /\ Touch(blocks, Rounded(n))[IndexOf(Touch(blocks, Rounded(n)), Rounded(n))].size = Rounded(n)
    BY <1>6, <2>1, TouchFinds
  <2>3. op'.at \in DOMAIN blocks' /\ blocks'[op'.at].size = op'.size  BY <1>1, <1>3, <2>2
  <2> QED  BY <1>3, <2>3 DEF Calls
<1>10. Counted'  BY <1>2, <1>3, <1>7 DEF Good, Counted, Pending, InClear
<1>11. Retrying'  BY <1>3 DEF Retrying, InClear
<1>12. (live \cap garbage = {})'  BY <1>2 DEF Good
<1> QED  BY <1>8, <1>9, <1>10, <1>11, <1>12 DEF Good

\* malloc takes a storage from the list.
LEMMA PopGood ==
  ASSUME Good, Pop
  PROVE  Good'
<1>1. /\ op.pc = "looked" /\ CurrentList # <<>>
      /\ blocks' = IF op.detached THEN blocks ELSE [blocks EXCEPT ![op.at].list = Popped(@)]
      /\ op' = [pc |-> "popped", storage |-> Last(CurrentList)]
      /\ reserved' = reserved /\ device' = device /\ live' = live /\ garbage' = garbage
  BY DEF Pop
<1>2. op.at \in DOMAIN blocks /\ op.size = blocks[op.at].size /\ ~ op.detached
  BY <1>1 DEF Good, Calls, Idle
<1>3. CurrentList = blocks[op.at].list /\ blocks' = Shortened(blocks, op.at)
  BY <1>1, <1>2 DEF CurrentList, Shortened
<1>4. op'.pc = "popped" /\ op'.storage = Last(blocks[op.at].list)  BY <1>1, <1>3
<1>5. Out' = Out \cup {op'.storage} /\ Out = live \cup garbage  BY <1>1, <1>4 DEF Out, Popping
<1>6. Full(blocks, device, Out)  BY <1>1, Settled DEF Good
<1>7. /\ Full(blocks', device', Out') /\ op'.storage \in Storage /\ op'.storage \notin Out
      /\ Bytes(Members(blocks)) = Bytes(Members(blocks')) + op'.storage.size
  <2>1. op.at \in DOMAIN blocks /\ blocks[op.at].list # <<>>  BY <1>1, <1>2, <1>3
  <2>2. /\ Full(Shortened(blocks, op.at), device, Out \cup {Last(blocks[op.at].list)})
        /\ Last(blocks[op.at].list) \in Storage /\ Last(blocks[op.at].list) \notin Out
        /\ Bytes(Members(blocks)) =
             Bytes(Members(Shortened(blocks, op.at))) + Last(blocks[op.at].list).size
    BY <1>6, <2>1, PopOwned
  <2>3. device' = device  BY <1>1
  <2> QED  BY <1>3, <1>4, <1>5, <2>2, <2>3
<1>8. Memory'  BY <1>4, <1>7, SettledNext
<1>9. Calls'  BY <1>1, <1>4, <1>5, <1>7 DEF Calls
<1>10. Counted'
  <2>1. reserved = Bytes(Members(blocks)) + 0 /\ reserved <= MaxReserve
    BY <1>1 DEF Good, Counted, Pending, InClear
  <2>2. Bytes(Members(blocks)) \in Nat  BY <1>6, FullSizes
  <2> QED  BY <1>1, <1>4, <1>7, <2>1, <2>2 DEF Counted, Pending
<1>11. Retrying'  BY <1>4 DEF Retrying, InClear
<1>12. (live \cap garbage = {})'  BY <1>1 DEF Good
<1> QED  BY <1>8, <1>9, <1>10, <1>11, <1>12 DEF Good

\* malloc returns it.
LEMMA ReuseGood ==
  ASSUME Good, Reuse
  PROVE  Good'
<1>1. /\ op.pc = "popped" /\ reserved' = reserved - op.storage.size
      /\ live' = live \cup {op.storage} /\ op' = Idle /\ op'.pc = "idle"
      /\ blocks' = blocks /\ device' = device /\ garbage' = garbage
  BY DEF Reuse, Idle
<1>2. op.storage \in Storage /\ op.storage \notin live \cup garbage  BY <1>1 DEF Good, Calls, Idle
<1>3. Out' = Out  BY <1>1 DEF Out, Popping
<1>4. Full(blocks, device, Out)  BY <1>1, Settled DEF Good
<1>5. Memory'  BY <1>1, <1>3, <1>4, SettledNext
<1>6. Counted'
  <2>1. reserved = Bytes(Members(blocks)) + op.storage.size /\ reserved <= MaxReserve
    BY <1>1 DEF Good, Counted, Pending, InClear
  <2>2. Bytes(Members(blocks)) \in Nat /\ op.storage.size \in Nat
    BY <1>2, <1>4, FullSizes DEF Storage, Sizes
  <2>3. reserved' = Bytes(Members(blocks)) + 0 /\ reserved' <= MaxReserve
    BY <1>1, <2>1, <2>2, PoolAssumption
  <2> QED  BY <1>1, <2>3 DEF Counted, Pending
<1>7. Calls'  BY <1>1 DEF Calls
<1>8. Retrying'  BY <1>1 DEF Retrying, InClear
<1>9. (live \cap garbage = {})'  BY <1>1, <1>2 DEF Good
<1> QED  BY <1>5, <1>6, <1>7, <1>8, <1>9 DEF Good

\* Memory the device gives to malloc, in the first try or the second.
LEMMA AllocateGood ==
  ASSUME Good, NEW size \in Sizes, op.pc \in {"looked", "retry"}, Allocate(size)
  PROVE  Good'
<1> DEFINE s == Block(Fresh, size)
<1>1. /\ device' = [a \in DOMAIN device \cup {Fresh} |-> IF a = Fresh THEN size ELSE device[a]]
      /\ live' = live \cup {s} /\ op' = Idle /\ op'.pc = "idle"
      /\ blocks' = blocks /\ reserved' = reserved /\ garbage' = garbage
  BY DEF Allocate, Idle
<1>2. Full(blocks, device, Out)  BY Settled DEF Good
<1>3. Fresh \in Sizes /\ Fresh \notin DOMAIN device  BY <1>2, FreshIsFree DEF Full
<1>4. Full(blocks', device', Out \cup {s}) /\ s \notin Out
  BY <1>1, <1>2, <1>3, AllocateOwned
<1> HIDE DEF s
<1>5. Out' = Out \cup {s} /\ s \notin garbage  BY <1>1, <1>4 DEF Out, Popping
<1>6. Memory'  BY <1>1, <1>4, <1>5, SettledNext
<1>7. Counted'  BY <1>1 DEF Good, Counted, Pending, InClear
<1>8. Calls' /\ Retrying'  BY <1>1 DEF Calls, Retrying, InClear
<1>9. (live \cap garbage = {})'  BY <1>1, <1>5 DEF Good
<1> QED  BY <1>6, <1>7, <1>8, <1>9 DEF Good

\* malloc takes memory from the device.
LEMMA MallocNewGood ==
  ASSUME Good, MallocNew
  PROVE  Good'
<1>1. op.pc = "looked" /\ Allocate(op.size)  BY DEF MallocNew
<1>2. Full(blocks, device, Out)  BY <1>1, Settled DEF Good
<1>3. op.at \in DOMAIN blocks /\ op.size = blocks[op.at].size  BY <1>1 DEF Good, Calls, Idle
<1>4. op.size \in Sizes  BY <1>2, <1>3, PositionTypes DEF Full
<1> QED  BY <1>1, <1>4, AllocateGood

\* malloc takes memory from the device after clear.
LEMMA RetryGood ==
  ASSUME Good, Retry
  PROVE  Good'
<1>1. op.pc = "retry" /\ Allocate(op.size)  BY DEF Retry
<1>2. op.size \in Sizes  BY <1>1 DEF Good, Retrying
<1> QED  BY <1>1, <1>2, AllocateGood

\* malloc gives up.
LEMMA RaiseGood ==
  ASSUME Good, RaiseMemoryError
  PROVE  Good'
<1>1. /\ op.pc = "retry" /\ op' = Idle /\ op'.pc = "idle" /\ blocks' = blocks /\ reserved' = reserved
      /\ device' = device /\ live' = live /\ garbage' = garbage
  BY DEF RaiseMemoryError, pool, Idle
<1>2. Full(blocks, device, Out)  BY <1>1, Settled DEF Good
<1>3. Out' = Out  BY <1>1 DEF Out, Popping
<1>4. Memory'  BY <1>1, <1>2, <1>3, SettledNext
<1>5. Counted'  BY <1>1 DEF Good, Counted, Pending, InClear
<1>6. Calls' /\ Retrying'  BY <1>1 DEF Calls, Retrying, InClear
<1>7. (live \cap garbage = {})'  BY <1>1 DEF Good
<1> QED  BY <1>4, <1>5, <1>6, <1>7 DEF Good

\* free appends to the list.
LEMMA FreeAppendGood ==
  ASSUME Good, FreeAppend
  PROVE  Good'
<1>1. PICK s \in live : /\ live' = live \ {s} /\ blocks' = Put(blocks, s)
                        /\ op' = [pc |-> "appended", storage |-> s]
  BY DEF FreeAppend
<1>2. /\ op = Idle /\ op.pc = "idle" /\ op'.pc = "appended" /\ op'.storage = s
      /\ reserved' = reserved /\ device' = device /\ garbage' = garbage
  BY <1>1 DEF FreeAppend, Idle
<1>3. Full(blocks, device, Out)  BY <1>2, Settled DEF Good
<1>4. s \in Out /\ Out' = Out \ {s}  BY <1>1, <1>2 DEF Out, Popping, Good
<1>5. /\ Full(blocks', device', Out')
      /\ Bytes(Members(blocks')) = Bytes(Members(blocks)) + s.size
  BY <1>1, <1>2, <1>3, <1>4, PutOwned
<1>6. s \in Storage /\ s.size \in Nat /\ Bytes(Members(blocks)) \in Nat  BY <1>3, <1>4, FullSizes
<1>7. Counted'
  <2>1. reserved = Bytes(Members(blocks)) + 0 /\ reserved <= MaxReserve
    BY <1>2 DEF Good, Counted, Pending, InClear
  <2>2. reserved' = Bytes(Members(blocks')) + (-s.size) /\ reserved' <= MaxReserve
    BY <1>2, <1>5, <1>6, <2>1
  <2> QED  BY <1>2, <2>2 DEF Counted, Pending
<1>8. Memory'  BY <1>2, <1>5, SettledNext
<1>9. Calls' /\ Retrying'  BY <1>2, <1>6 DEF Calls, Retrying, InClear
<1>10. (live \cap garbage = {})'  BY <1>1, <1>2 DEF Good
<1> QED  BY <1>7, <1>8, <1>9, <1>10 DEF Good

\* clear begins.
LEMMA ClearingNext ==
  ASSUME NEW after, NEW size, op' = Clearing(after, size)
  PROVE  /\ op'.pc = "clear" /\ op'.after = after /\ op'.size = size /\ op'.at = 0 /\ op'.next = 1
         /\ Place'[1] = 0 /\ Place'[2] = 1 /\ Iterated' = <<>>
         /\ Popping' = {}
         /\ Len(blocks') \in Nat => Calls'
<1>1. /\ DOMAIN op' = {"pc", "after", "size", "at", "next", "count", "list", "detached"}
      /\ op'.pc = "clear" /\ op'.after = after /\ op'.size = size /\ op'.at = 0 /\ op'.next = 1
      /\ op'.count = -1 /\ op'.list = <<>> /\ op'.detached = FALSE
  BY DEF Clearing
<1>2. Place'[1] = 0 /\ Place'[2] = 1 /\ Iterated' = <<>> /\ Popping' = {}
  BY <1>1 DEF Place, Iterated, Popping
<1>3. Len(blocks') \in Nat => Calls'  BY <1>1, <1>2 DEF Calls, AtClear
<1> QED  BY <1>1, <1>2, <1>3

\* free counts what it appended, and clears a pool that is too large.
LEMMA FreeCountGood ==
  ASSUME Good, FreeCount
  PROVE  Good'
<1>1. /\ op.pc = "appended" /\ reserved' = reserved + op.storage.size
      /\ op' = IF Over(reserved') THEN Clearing("idle", 0) ELSE Idle
      /\ blocks' = blocks /\ device' = device /\ live' = live /\ garbage' = garbage
  BY DEF FreeCount
<1>2. op.storage \in Storage /\ op.storage.size \in Nat  BY <1>1 DEF Good, Calls, Idle, Storage, Sizes
<1>3. Full(blocks, device, Out)  BY <1>1, Settled DEF Good
<1>4. reserved = Bytes(Members(blocks)) + (-op.storage.size) /\ reserved <= MaxReserve
  BY <1>1 DEF Good, Counted, Pending, InClear
<1>5. Bytes(Members(blocks)) \in Nat  BY <1>3, FullSizes
<1>6. reserved' = Bytes(Members(blocks)) + 0 /\ reserved' \in Int  BY <1>1, <1>2, <1>4, <1>5
<1>7. Len(blocks) \in Nat  BY <1>3, PositionTypes DEF Full
<1>8. (live \cap garbage = {})'  BY <1>1 DEF Good
<1>9. CASE Over(reserved')
  <2>1. op' = Clearing("idle", 0)  BY <1>1, <1>9
  <2>2. /\ op'.pc = "clear" /\ op'.after = "idle" /\ Place'[1] = 0 /\ Place'[2] = 1
        /\ Popping' = {} /\ Calls'
    BY <1>1, <1>7, <2>1, ClearingNext
  <2>3. Out' = Out  BY <1>1, <2>2 DEF Out, Popping
  <2>4. Memory'  BY <1>1, <1>3, <2>2, <2>3, OwnedIsFull DEF Memory
  <2> QED  BY <1>8, <2>2, <2>4 DEF Good, Retrying, Counted, InClear
<1>10. CASE ~ Over(reserved')
  <2>1. op' = Idle /\ op'.pc = "idle"  BY <1>1, <1>10 DEF Idle
  <2>2. reserved' <= MaxReserve  BY <1>6, <1>10, PoolAssumption DEF Over
  <2>3. Out' = Out  BY <1>1, <2>1 DEF Out, Popping
  <2>4. Memory'  BY <1>1, <1>3, <2>1, <2>3, SettledNext
  <2>5. Counted'  BY <1>1, <1>6, <2>1, <2>2 DEF Counted, Pending
  <2> QED  BY <1>8, <2>1, <2>4, <2>5 DEF Good, Calls, Retrying, InClear
<1> QED  BY <1>9, <1>10

\* A cycle is dropped.
LEMMA LoseGood ==
  ASSUME Good, Lose
  PROVE  Good'
<1>1. PICK s \in live : live' = live \ {s} /\ garbage' = garbage \cup {s}  BY DEF Lose
<1>2. op = Idle /\ op.pc = "idle" /\ op' = op /\ blocks' = blocks /\ reserved' = reserved /\ device' = device
  BY DEF Lose, pool, Idle
<1>3. Full(blocks, device, Out)  BY <1>2, Settled DEF Good
<1>4. Out' = Out  BY <1>1, <1>2 DEF Out, Popping
<1>5. Memory'  BY <1>2, <1>3, <1>4, SettledNext
<1>6. Counted'  BY <1>2 DEF Good, Counted, Pending, InClear
<1>7. Calls' /\ Retrying'  BY <1>2 DEF Calls, Retrying, InClear
<1>8. (live \cap garbage = {})'  BY <1>1 DEF Good
<1> QED  BY <1>5, <1>6, <1>7, <1>8 DEF Good

\* The program clears the pool.
LEMMA ClearGood ==
  ASSUME Good, Clear
  PROVE  Good'
<1>1. /\ op = Idle /\ op.pc = "idle" /\ op' = Clearing("idle", 0) /\ blocks' = blocks
      /\ reserved' = reserved /\ device' = device /\ live' = live /\ garbage' = garbage
  BY DEF Clear, pool, Idle
<1>2. Full(blocks, device, Out)  BY <1>1, Settled DEF Good
<1>3. Len(blocks) \in Nat  BY <1>2, PositionTypes DEF Full
<1>4. /\ op'.pc = "clear" /\ op'.after = "idle" /\ Place'[1] = 0 /\ Place'[2] = 1
      /\ Popping' = {} /\ Calls'
  BY <1>1, <1>3, ClearingNext
<1>5. Out' = Out  BY <1>1, <1>4 DEF Out, Popping
<1>6. Memory'  BY <1>1, <1>2, <1>4, <1>5, OwnedIsFull DEF Memory
<1>7. (live \cap garbage = {})'  BY <1>1 DEF Good
<1> QED  BY <1>4, <1>6, <1>7 DEF Good, Retrying, Counted, InClear

-----------------------------------------------------------------------------
(* The steps of clear, and the collector between the steps of a call.       *)

\* clear goes on to the next list, or to the end.
LEMMA ClearListGood ==
  ASSUME Good, ClearList
  PROVE  Good'
<1>1. op.pc = "clear" /\ op.next > Len(Iterated)  BY DEF ClearList
<1>2. AtClear /\ op.next <= Len(Iterated) + 1  BY <1>1 DEF Good, Calls, Idle
<1>3. reserved' = reserved /\ device' = device /\ live' = live /\ garbage' = garbage  BY DEF ClearList
<1>4. Owned(blocks, device, Out, op.at, op.next)  BY <1>1 DEF Good, Memory, Place
<1>5. Len(blocks) \in Nat /\ DOMAIN blocks = 1 .. Len(blocks)  BY <1>4, PositionTypes DEF Owned
<1>6. op.at \in Nat /\ op.next \in Nat /\ op.at <= Len(blocks)  BY <1>2, <1>5 DEF AtClear
<1>7. op.at = 0 \/ op.next > Len(blocks[op.at].list)
  BY <1>1, <1>2 DEF Iterated, CurrentList, AtClear
<1>8. (IF op.count = -1 THEN Len(blocks) ELSE op.count) = Len(blocks)  BY <1>2 DEF AtClear
<1>9. (live \cap garbage = {})'  BY <1>3 DEF Good
<1>10. Popping = {}  BY <1>1 DEF Popping
<1>11. CASE op.at < Len(blocks)
  <2>1. /\ blocks' = blocks
        /\ op' = [op EXCEPT !.at = @ + 1, !.next = 1, !.count = Len(blocks), !.detached = FALSE]
    BY <1>8, <1>11 DEF ClearList
  <2>2. /\ DOMAIN op' = DOMAIN op /\ op'.at = op.at + 1 /\ op'.next = 1 /\ op'.count = Len(blocks)
        /\ op'.detached = FALSE /\ op'.pc = "clear" /\ op'.after = op.after /\ op'.size = op.size
    BY <1>1, <1>2, <2>1 DEF AtClear
  <2>3. Out' = Out  BY <1>3, <1>10, <2>2 DEF Out, Popping
  <2>4. Owned(blocks, device, Out, op.at + 1, 1)  BY <1>4, <1>6, <1>7, NextListOwned
  <2>5. Memory'  BY <1>3, <2>1, <2>2, <2>3, <2>4 DEF Memory, Place
  <2>6. op'.at \in DOMAIN blocks' /\ Len(blocks'[op'.at].list) \in Nat
    <3>1. op.at + 1 \in DOMAIN blocks  BY <1>5, <1>6, <1>11
    <3>2. Lists(blocks)  BY <1>4 DEF Owned
    <3> QED  BY <2>1, <2>2, <3>1, <3>2, PositionTypes
  <2>7. Iterated' = blocks'[op'.at].list  BY <1>6, <2>2 DEF Iterated, CurrentList
  <2>8. AtClear'  BY <1>2, <1>5, <1>6, <1>11, <2>1, <2>2 DEF AtClear
  <2>9. op'.next <= Len(Iterated') + 1  BY <2>2, <2>6, <2>7
  <2>10. Calls'  BY <2>2, <2>8, <2>9 DEF Calls
  <2>11. Retrying'  BY <1>1, <1>3, <2>2 DEF Good, Retrying, InClear
  <2>12. Counted'  BY <2>2 DEF Counted, InClear
  <2> QED  BY <1>9, <2>5, <2>10, <2>11, <2>12 DEF Good
<1>12. CASE ~ (op.at < Len(blocks))
  <2>1. blocks' = <<>> /\ op' = [pc |-> "cleared", after |-> op.after, size |-> op.size]
    BY <1>8, <1>12 DEF ClearList
  <2>2. op'.pc = "cleared" /\ op'.after = op.after /\ op'.size = op.size  BY <2>1
  <2>3. Out' = Out  BY <1>3, <1>10, <2>2 DEF Out, Popping
  <2>4. op.at = Len(blocks)  BY <1>5, <1>6, <1>12
  <2>5. Full(<<>>, device, Out)  BY <1>4, <1>6, <1>7, <2>4, LastListOwned
  <2>6. Memory'  BY <1>3, <2>1, <2>2, <2>3, <2>5, SettledNext
  <2>7. Calls'  BY <2>1, <2>2 DEF Calls
  <2>8. Retrying'  BY <1>1, <1>3, <2>2 DEF Good, Retrying, InClear
  <2>9. Counted'  BY <2>2 DEF Counted, InClear
  <2> QED  BY <1>9, <2>6, <2>7, <2>8, <2>9 DEF Good
<1> QED  BY <1>11, <1>12

\* Where clear frees a storage, or forgets its address, it is in a list.
LEMMA IteratedList ==
  ASSUME Lists(blocks), AtClear, op.next <= Len(Iterated)
  PROVE  /\ op.at \in DOMAIN blocks /\ Iterated = blocks[op.at].list
         /\ op.next \in DOMAIN blocks[op.at].list
<1>1. Len(blocks) \in Nat /\ DOMAIN blocks = 1 .. Len(blocks)  BY PositionTypes
<1>2. op.at \in Nat /\ op.at <= Len(blocks) /\ op.next \in Nat /\ op.next # 0  BY <1>1 DEF AtClear
<1>3. op.at # 0
  <2> SUFFICES ASSUME op.at = 0 PROVE FALSE  OBVIOUS
  <2>1. Iterated = <<>> /\ Len(Iterated) = 0  BY DEF Iterated
  <2> QED  BY <1>2, <2>1
<1>4. op.at \in DOMAIN blocks  BY <1>1, <1>2, <1>3
<1>5. Iterated = blocks[op.at].list  BY <1>3 DEF Iterated, CurrentList, AtClear
<1>6. Len(blocks[op.at].list) \in Nat /\ DOMAIN blocks[op.at].list = 1 .. Len(blocks[op.at].list)
  BY <1>4, PositionTypes
<1> QED  BY <1>2, <1>4, <1>5, <1>6

\* clear gives memory back.
LEMMA ClearFreeGood ==
  ASSUME Good, ClearFree
  PROVE  Good'
<1> DEFINE s == Iterated[op.next]
           st == GiveBack([ok |-> TRUE, device |-> device, count |-> 0], s)
<1>1. /\ op.pc = "clear" /\ op.next <= Len(Iterated)
      /\ device' = st.device
      /\ op' = IF st.ok THEN [op EXCEPT !.pc = "zero"] ELSE Idle
      /\ blocks' = blocks /\ reserved' = reserved /\ live' = live /\ garbage' = garbage
  BY DEF ClearFree
<1>2. AtClear  BY <1>1 DEF Good, Calls, Idle
<1>3. Owned(blocks, device, Out, op.at, op.next)  BY <1>1 DEF Good, Memory, Place
<1>4. /\ op.at \in DOMAIN blocks /\ Iterated = blocks[op.at].list
      /\ op.next \in DOMAIN blocks[op.at].list
  BY <1>1, <1>2, <1>3, IteratedList DEF Owned
<1>5. /\ s.addr \in DOMAIN device
      /\ Owned(blocks, Without(device, s.addr), Out, op.at, op.next + 1)
  BY <1>3, <1>4, FreeOneOwned
<1>6. st = [ok |-> TRUE, device |-> Without(device, s.addr), count |-> 0 + 1]
  BY <1>5, GiveBackKnown
<1>7. device' = Without(device, s.addr) /\ op' = [op EXCEPT !.pc = "zero"]  BY <1>1, <1>6
<1> HIDE DEF s, st
<1>8. /\ DOMAIN op' = DOMAIN op /\ op'.pc = "zero" /\ op'.at = op.at /\ op'.next = op.next
      /\ op'.count = op.count /\ op'.detached = op.detached /\ op'.list = op.list
      /\ op'.after = op.after /\ op'.size = op.size
  BY <1>2, <1>7 DEF AtClear
<1>9. Out' = Out  BY <1>1, <1>8 DEF Out, Popping
<1>10. Memory'  BY <1>1, <1>5, <1>7, <1>8, <1>9 DEF Memory, Place
<1>11. Iterated' = Iterated  BY <1>1, <1>8 DEF Iterated, CurrentList
<1>12. AtClear'  BY <1>1, <1>2, <1>8 DEF AtClear
<1>13. Calls'  BY <1>1, <1>8, <1>11, <1>12 DEF Calls
<1>14. Retrying'  BY <1>1, <1>8 DEF Good, Retrying, InClear
<1>15. Counted'  BY <1>8 DEF Counted, InClear
<1>16. (live \cap garbage = {})'  BY <1>1 DEF Good
<1> QED  BY <1>10, <1>13, <1>14, <1>15, <1>16 DEF Good

\* clear forgets the address.
LEMMA ClearZeroGood ==
  ASSUME Good, ClearZero
  PROVE  Good'
<1>1. /\ op.pc = "zero"
      /\ blocks' = IF op.detached THEN blocks ELSE ZeroOne(blocks)
      /\ op' = [op EXCEPT !.pc = "clear", !.next = @ + 1]
      /\ reserved' = reserved /\ device' = device /\ live' = live /\ garbage' = garbage
  BY DEF ClearZero
<1>2. AtClear /\ op.next <= Len(Iterated)  BY <1>1 DEF Good, Calls, Idle
<1>3. Owned(blocks, device, Out, op.at, op.next + 1)  BY <1>1 DEF Good, Memory, Place
<1>4. /\ op.at \in DOMAIN blocks /\ Iterated = blocks[op.at].list
      /\ op.next \in DOMAIN blocks[op.at].list
  BY <1>2, <1>3, IteratedList DEF Owned
<1>5. blocks' = Forgotten(blocks, op.at, op.next)
  BY <1>1, <1>2 DEF AtClear, ZeroOne, Forgotten
<1>6. /\ Owned(blocks', device, Out, op.at, op.next + 1)
      /\ Len(blocks') = Len(blocks) /\ Len(blocks'[op.at].list) = Len(blocks[op.at].list)
  <2>1. PICK m \in DOMAIN blocks : m = op.at  BY <1>4
  <2>2. PICK n \in DOMAIN blocks[m].list : n = op.next  BY <1>4, <2>1
  <2>3. Owned(blocks, device, Out, m, n + 1)  BY <1>3, <2>1, <2>2
  <2>4. /\ Owned(Forgotten(blocks, m, n), device, Out, m, n + 1)
        /\ Len(Forgotten(blocks, m, n)) = Len(blocks)
        /\ Len(Forgotten(blocks, m, n)[m].list) = Len(blocks[m].list)
    BY <2>3, ZeroOwned
  <2> QED  BY <1>5, <2>1, <2>2, <2>4
<1>7. /\ DOMAIN op' = DOMAIN op /\ op'.pc = "clear" /\ op'.at = op.at /\ op'.next = op.next + 1
      /\ op'.count = op.count /\ op'.detached = op.detached /\ op'.after = op.after /\ op'.size = op.size
  BY <1>1, <1>2 DEF AtClear
<1>8. Out' = Out  BY <1>1, <1>7 DEF Out, Popping
<1>9. Memory'  BY <1>1, <1>6, <1>7, <1>8 DEF Memory, Place
<1>10. op.at # 0
  <2>1. Lists(blocks)  BY <1>3 DEF Owned
  <2> QED  BY <1>4, <2>1, PositionTypes
<1>11. Iterated' = blocks'[op.at].list  BY <1>2, <1>7, <1>10 DEF Iterated, CurrentList, AtClear
<1>12. Len(Iterated') = Len(Iterated) /\ Len(Iterated) \in Nat
  <2>1. Lists(blocks)  BY <1>3 DEF Owned
  <2> QED  BY <1>4, <1>6, <1>11, <2>1, PositionTypes
<1>13. AtClear' /\ op'.next <= Len(Iterated') + 1
  <2>1. op.next \in Nat  BY <1>2 DEF AtClear
  <2>2. op'.next <= Len(Iterated') + 1 /\ op'.next \in Nat \ {0}  BY <1>2, <1>7, <1>12, <2>1
  <2> QED  BY <1>2, <1>6, <1>7, <2>2 DEF AtClear
<1>14. Calls'  BY <1>7, <1>13 DEF Calls
<1>15. Retrying'  BY <1>1, <1>7 DEF Good, Retrying, InClear
<1>16. Counted'  BY <1>7 DEF Counted, InClear
<1>17. (live \cap garbage = {})'  BY <1>1 DEF Good
<1> QED  BY <1>9, <1>14, <1>15, <1>16, <1>17 DEF Good

\* clear resets reserved_size.
LEMMA ClearCountGood ==
  ASSUME Good, ClearCount
  PROVE  Good'
<1>1. /\ op.pc = "cleared" /\ reserved' = 0
      /\ op' = IF op.after = "idle" THEN Idle ELSE [pc |-> "retry", size |-> op.size]
      /\ blocks' = blocks /\ device' = device /\ live' = live /\ garbage' = garbage
  BY DEF ClearCount
<1>2. blocks = <<>>  BY <1>1 DEF Good, Calls, Idle
<1>3. Full(blocks, device, Out)  BY <1>1, Settled DEF Good
<1>4. op.after \in {"idle", "retry"}  BY <1>1 DEF Good, Retrying, InClear
<1>5. op'.pc \in {"idle", "retry"} /\ (op'.pc = "idle" => op' = Idle)
      /\ (op'.pc = "retry" => op.after = "retry" /\ op'.size = op.size)
  BY <1>1, <1>4 DEF Idle
<1>6. Out' = Out  BY <1>1, <1>5 DEF Out, Popping
<1>7. Memory'  BY <1>1, <1>3, <1>5, <1>6, SettledNext
<1>8. Counted'  BY <1>1, <1>2, <1>5, EmptyPool, PoolAssumption DEF Counted, Pending
<1>9. Calls'  BY <1>1, <1>2, <1>5 DEF Calls
<1>10. Retrying'  BY <1>1, <1>5 DEF Good, Retrying, InClear
<1>11. (live \cap garbage = {})'  BY <1>1 DEF Good
<1> QED  BY <1>7, <1>8, <1>9, <1>10, <1>11 DEF Good

\* What a collection leaves, when a call has still to count delta.
LEMMA CollectionSound ==
  ASSUME NEW delta \in Int, Full(blocks, device, Out), reserved = Bytes(Members(blocks)) + delta,
         reserved <= MaxReserve, NEW st \in Collected(garbage)
  PROVE  Consistent(blocks, st, Out \ garbage, delta)
<1>1. PICK order \in SetToSeqs(garbage) : st = FoldLeft(FreeAll, State, order)  BY DEF Collected
<1>2. State.blocks = blocks /\ State.reserved = reserved /\ State.device = device /\ State.wiped = FALSE
      /\ Shape(State)
  BY DEF State, Shape
<1>3. Consistent(blocks, State, Out, delta)  BY <1>2 DEF Consistent, Sound, Grown
<1>4. garbage \in SUBSET Out /\ IsFiniteSet(garbage)
  <2>1. garbage \in SUBSET Out /\ IsFiniteSet(Out)  BY DEF Full, Out
  <2> QED  BY <2>1, FS_Subset
<1> QED  BY <1>1, <1>3, <1>4, CollectedConsistent

\* malloc collects the garbage and begins to clear.
LEMMA OutOfMemoryGood ==
  ASSUME Good, OutOfMemory
  PROVE  Good'
<1>1. PICK st \in Collected(garbage) : Become(st)  BY DEF OutOfMemory, CollectEverything
<1>2. /\ op.pc = "looked" /\ garbage' = {} /\ live' = live /\ op' = Clearing("retry", op.size)
  BY DEF OutOfMemory, CollectEverything
<1>3. Full(blocks, device, Out)  BY <1>2, Settled DEF Good
<1>4. reserved = Bytes(Members(blocks)) + 0 /\ reserved <= MaxReserve
  BY <1>2 DEF Good, Counted, Pending, InClear
<1>5. Consistent(blocks, st, Out \ garbage, 0)  BY <1>1, <1>3, <1>4, CollectionSound
<1>6. Full(blocks', device', Out \ garbage)  BY <1>1, <1>5 DEF Consistent, Sound, Become
<1>7. op.size \in Sizes
  <2>1. op.at \in DOMAIN blocks /\ op.size = blocks[op.at].size  BY <1>2 DEF Good, Calls, Idle
  <2> QED  BY <1>3, <2>1, PositionTypes DEF Full
<1>8. Len(blocks') \in Nat  BY <1>6, PositionTypes DEF Full
<1>9. /\ op'.pc = "clear" /\ op'.after = "retry" /\ op'.size = op.size
      /\ Place'[1] = 0 /\ Place'[2] = 1 /\ Popping' = {} /\ Calls'
  BY <1>2, <1>8, ClearingNext
<1>10. Out' = Out \ garbage  BY <1>2, <1>9 DEF Good, Out, Popping
<1>11. Memory'  BY <1>6, <1>9, <1>10, OwnedIsFull DEF Memory
<1>12. Retrying'  BY <1>2, <1>7, <1>9 DEF Retrying, InClear
<1>13. Counted'  BY <1>9 DEF Counted, InClear
<1> QED  BY <1>2, <1>9, <1>11, <1>12, <1>13 DEF Good

\* The collector runs where it spoils nothing.
LEMMA CollectGood ==
  ASSUME Good, Collect, ~ disturbed'
  PROVE  Good'
<1>1. PICK st \in Collected(garbage) :
        /\ Become(st)
        /\ op' = IF st.wiped /\ op.pc \in {"looked", "clear", "zero"} /\ ~op.detached
                 THEN [op EXCEPT !.detached = TRUE,
                         !.list = IF op.at \in DOMAIN blocks THEN Zeroed(blocks[op.at].list) ELSE <<>>]
                 ELSE op
        /\ disturbed' = (disturbed \/ Spoils(st))
  BY DEF Collect
<1>2. garbage # {} /\ garbage' = {} /\ live' = live  BY DEF Collect
<1>3. op.pc \notin InClear /\ (op.pc \in {"looked", "popped", "appended"} => ~ st.wiped)
  BY <1>1 DEF Spoils, InClear
<1>4. op' = op  BY <1>1, <1>3 DEF InClear
<1>5. Full(blocks, device, Out)  BY <1>3, Settled DEF Good, InClear
<1>6. op.pc \in {"idle", "looked", "popped", "appended"}
  BY <1>2, <1>3 DEF Good, Calls, Retrying, Idle, InClear
<1>7. Pending \in Int /\ (op.pc = "idle" => Pending = 0)
  <2>1. CASE op.pc = "popped"
    <3>1. op.storage.size \in Nat  BY <2>1 DEF Good, Calls, Idle, Storage, Sizes
    <3> QED  BY <2>1, <3>1 DEF Pending
  <2>2. CASE op.pc = "appended"
    <3>1. op.storage.size \in Nat  BY <2>2 DEF Good, Calls, Idle, Storage, Sizes
    <3> QED  BY <2>2, <3>1 DEF Pending
  <2> QED  BY <2>1, <2>2 DEF Pending
<1>8. Consistent(blocks, st, Out \ garbage, Pending)
  <2>1. reserved = Bytes(Members(blocks)) + Pending /\ reserved <= MaxReserve
    BY <1>3 DEF Good, Counted
  <2> QED  BY <1>1, <1>5, <1>7, <2>1, CollectionSound
<1>9. Sound(st, Out \ garbage, Pending)  BY <1>3, <1>6, <1>7, <1>8 DEF Consistent
<1>10. /\ Full(blocks', device', Out \ garbage)
       /\ reserved' = Bytes(Members(blocks')) + Pending /\ reserved' <= MaxReserve
  BY <1>1, <1>9 DEF Sound, Become
<1>11. Pending' = Pending /\ Popping' = Popping  BY <1>4 DEF Pending, Popping
<1>12. Out' = Out \ garbage
  <2>1. Popping \cap garbage = {}  BY DEF Good, Calls, Popping, Idle
  <2> QED  BY <1>2, <1>11, <2>1 DEF Good, Out
<1>13. Memory'
  <2>1. op'.pc \notin {"clear", "zero"}  BY <1>3, <1>4 DEF InClear
  <2> QED  BY <1>10, <1>12, <2>1, SettledNext
<1>14. Counted'  BY <1>10, <1>11 DEF Counted
<1>15. Calls'
  <2>1. CASE op.pc = "looked"
    <3>1. op.at \in DOMAIN blocks /\ op.size = blocks[op.at].size /\ ~ op.detached
      BY <2>1 DEF Good, Calls, Idle
    <3>2. Grown(blocks, blocks')  BY <1>1, <1>3, <1>8, <2>1 DEF Consistent, Become
    <3> QED  BY <1>4, <2>1, <3>1, <3>2 DEF Calls, Grown
  <2>2. CASE op.pc # "looked"
    <3>1. op = Idle \/ (op.pc = "popped" /\ op.storage \in Storage /\ op.storage \notin live \cup garbage)
                    \/ (op.pc = "appended" /\ op.storage \in Storage)
      BY <1>6, <2>2 DEF Good, Calls
    <3> QED  BY <1>2, <1>4, <3>1 DEF Calls
  <2> QED  BY <2>1, <2>2
<1>16. Retrying'  BY <1>3, <1>4, <1>6 DEF Retrying, InClear
<1> QED  BY <1>2, <1>13, <1>14, <1>15, <1>16 DEF Good

\* Every step keeps the invariant.
LEMMA NextGood ==
  ASSUME IInv, [Next]_vars
  PROVE  IInv'
<1> SUFFICES ASSUME ~ disturbed' PROVE Good'  BY DEF IInv
<1>1. CASE Next
  <2>1. ~ disturbed
    BY <1>1 DEF Next, Lookup, Pop, Reuse, MallocNew, OutOfMemory, Retry, RaiseMemoryError, Allocate,
       FreeAppend, FreeCount, Lose, Collect, Clear, ClearList, ClearFree, ClearZero, ClearCount
  <2>2. Good  BY <2>1 DEF IInv
  <2>3. CASE Lookup  BY <2>2, <2>3, LookupGood
  <2>4. CASE Pop  BY <2>2, <2>4, PopGood
  <2>5. CASE Reuse  BY <2>2, <2>5, ReuseGood
  <2>6. CASE MallocNew  BY <2>2, <2>6, MallocNewGood
  <2>7. CASE OutOfMemory  BY <2>2, <2>7, OutOfMemoryGood
  <2>8. CASE Retry  BY <2>2, <2>8, RetryGood
  <2>9. CASE RaiseMemoryError  BY <2>2, <2>9, RaiseGood
  <2>10. CASE FreeAppend  BY <2>2, <2>10, FreeAppendGood
  <2>11. CASE FreeCount  BY <2>2, <2>11, FreeCountGood
  <2>12. CASE Lose  BY <2>2, <2>12, LoseGood
  <2>13. CASE Collect  BY <2>2, <2>13, CollectGood
  <2>14. CASE Clear  BY <2>2, <2>14, ClearGood
  <2>15. CASE ClearList  BY <2>2, <2>15, ClearListGood
  <2>16. CASE ClearFree  BY <2>2, <2>16, ClearFreeGood
  <2>17. CASE ClearZero  BY <2>2, <2>17, ClearZeroGood
  <2>18. CASE ClearCount  BY <2>2, <2>18, ClearCountGood
  <2> QED
    BY <1>1, <2>3, <2>4, <2>5, <2>6, <2>7, <2>8, <2>9, <2>10, <2>11, <2>12, <2>13, <2>14, <2>15,
       <2>16, <2>17, <2>18 DEF Next
<1>2. CASE UNCHANGED vars
  <2>1. Good  BY <1>2 DEF IInv, vars
  <2>2. /\ blocks' = blocks /\ reserved' = reserved /\ device' = device /\ live' = live
        /\ garbage' = garbage /\ op' = op
    BY <1>2 DEF vars, pool
  <2> QED
    BY <2>1, <2>2 DEF Good, Memory, Out, Popping, Place, Calls, AtClear, Iterated, CurrentList,
       Retrying, Counted, Pending
<1> QED  BY <1>1, <1>2

\* As long as the collector has spoilt nothing: memory is with one storage, in use
\* or pooled, or with the device; clear has given back exactly what it passed; and
\* reserved_size is what the pool holds, up to what the call under way has still to count.
THEOREM Inductive == Spec => []IInv
<1>1. Init => IInv  BY InitGood DEF IInv
<1>2. IInv /\ [Next]_vars => IInv'  BY NextGood
<1> QED  BY <1>1, <1>2, PTL DEF Spec

-----------------------------------------------------------------------------
(* What the invariant implies.                                              *)

\* All the device has given out is with the storages L.
Holds(d, L) ==
  /\ L \in SUBSET Storage /\ IsFiniteSet(L)
  /\ IsFiniteSet(DOMAIN d) /\ \A a \in DOMAIN d : d[a] \in Nat
  /\ Apart(d, L) /\ DOMAIN d = Addrs(L)

\* Without one storage and its memory it is the same.
LEMMA HoldsLess ==
  ASSUME NEW d, NEW L, Holds(d, L), NEW s \in L
  PROVE  /\ Holds(Without(d, s.addr), L \ {s})
         /\ Total(d) = s.size + Total(Without(d, s.addr))
         /\ Bytes(L) = Bytes(L \ {s}) + s.size /\ s.size \in Nat
<1> DEFINE e == Without(d, s.addr)
<1>1. DOMAIN e = DOMAIN d \ {s.addr} /\ \A a \in DOMAIN e : e[a] = d[a]  BY DEF Without
<1> HIDE DEF e
<1>2. s \in Storage /\ Given(d, s) /\ L \in SUBSET Storage /\ IsFiniteSet(L)  BY DEF Holds, Apart
<1>3. Total(d) = s.size + Total(e)
  <2>1. Total(d) = d[s.addr] + Total(Without(d, s.addr))  BY <1>2, TotalProperties DEF Holds, Given
  <2> QED  BY <1>2, <2>1 DEF Given, e
<1>4. Bytes(L) = Bytes(L \ {s}) + s.size /\ s.size \in Nat
  BY <1>2, BytesProperties DEF Storage, Sizes
<1>5. IsFiniteSet(L \ {s}) /\ IsFiniteSet(DOMAIN e)  BY <1>1, FS_RemoveElement DEF Holds
<1>6. \A x, y \in L : x.addr = y.addr => x = y  BY DEF Holds, Apart
<1>7. DOMAIN e = Addrs(L \ {s})  BY <1>1, <1>6 DEF Holds, Addrs
<1>8. Apart(e, L \ {s})
  <2>1. \A x \in L \ {s} : Given(d, x) /\ x.addr # s.addr  BY <1>6 DEF Holds, Apart
  <2>2. \A x \in L \ {s} : Given(e, x)  BY <1>1, <2>1 DEF Given
  <2> QED  BY <1>6, <2>2 DEF Apart
<1>9. Holds(e, L \ {s})  BY <1>1, <1>2, <1>5, <1>7, <1>8 DEF Holds
<1> QED  BY <1>3, <1>4, <1>9 DEF e

\* When all memory is with the storages in use, it is as much as they are.
LEMMA TotalIsBytes ==
  ASSUME NEW d, NEW L, Holds(d, L)
  PROVE  Total(d) = Bytes(L)
<1> DEFINE Wrong(k) == \E e, M : Holds(e, M) /\ Cardinality(M) = k /\ Total(e) # Bytes(M)
           T == {k \in Nat : Wrong(k)}
<1>1. SUFFICES ASSUME Total(d) # Bytes(L) PROVE FALSE  OBVIOUS
<1>2. Cardinality(L) \in T  BY <1>1, FS_CardinalityType DEF Holds
<1>3. PICK k \in T : \A y \in T : k <= y
  <2>1. T \in SUBSET Nat  OBVIOUS
  <2> HIDE DEF T
  <2> QED  BY <1>2, <2>1, LeastOf
<1>4. PICK e, M : Holds(e, M) /\ Cardinality(M) = k /\ Total(e) # Bytes(M)  BY <1>3
<1>5. M # {}
  <2> SUFFICES ASSUME M = {} PROVE FALSE  OBVIOUS
  <2>1. Total(e) = 0  BY <1>4, TotalProperties DEF Holds, Addrs
  <2>2. Bytes(M) = 0  BY <1>4, BytesProperties DEF Holds
  <2> QED  BY <1>4, <2>1, <2>2
<1>6. PICK s \in M : TRUE  BY <1>5
<1>7. /\ Holds(Without(e, s.addr), M \ {s})
      /\ Total(e) = s.size + Total(Without(e, s.addr))
      /\ Bytes(M) = Bytes(M \ {s}) + s.size /\ s.size \in Nat
  BY <1>4, HoldsLess
<1>8. Cardinality(M \ {s}) = k - 1 /\ k - 1 \in Nat /\ k \in Nat
  <2>1. IsFiniteSet(M)  BY <1>4 DEF Holds
  <2>2. Cardinality(M \ {s}) = Cardinality(M) - 1  BY <2>1, FS_RemoveElement
  <2>3. Cardinality(M \ {s}) \in Nat  BY <1>7, FS_CardinalityType DEF Holds
  <2> QED  BY <1>4, <2>2, <2>3
<1>9. Total(Without(e, s.addr)) # Bytes(M \ {s})
  <2>1. Total(Without(e, s.addr)) \in Nat  BY <1>7, TotalProperties DEF Holds
  <2>2. Bytes(M \ {s}) \in Nat  BY <1>7, BytesProperties DEF Holds
  <2> QED  BY <1>4, <1>7, <2>1, <2>2
<1>10. k - 1 \in T  BY <1>7, <1>8, <1>9
<1> HIDE DEF T
<1> QED  BY <1>3, <1>8, <1>10

\* A storage in use has its memory, also while clear gives back that of others.
LEMMA GoodIsLive == IInv => LiveIsAllocated
<1> SUFFICES ASSUME Good, NEW s \in live \cup garbage
             PROVE  /\ s.addr \in DOMAIN device /\ device[s.addr] = s.size
                    /\ \A i \in DOMAIN Pooled(blocks) : Pooled(blocks)[i].addr # s.addr
                    /\ \A t \in live \cup garbage : t # s => t.addr # s.addr
  BY DEF IInv, LiveIsAllocated
<1>1. Owned(blocks, device, Out, Place[1], Place[2])  BY DEF Good, Memory
<1>2. live \cup garbage \in SUBSET Out  BY DEF Out
<1>3. Apart(device, Out) /\ Kept(blocks, device, Out, Place[1], Place[2])  BY <1>1 DEF Owned
<1>4. s.addr \in DOMAIN device /\ device[s.addr] = s.size /\ s.addr \in Addrs(Out)
  BY <1>2, <1>3 DEF Apart, Given, Addrs
<1>5. \A t \in live \cup garbage : t # s => t.addr # s.addr  BY <1>2, <1>3 DEF Apart
<1>6. \A i \in DOMAIN blocks : \A j \in DOMAIN blocks[i].list : blocks[i].list[j].addr # s.addr
  BY <1>3, <1>4 DEF Kept
<1>7. blocks \in Seq(Entries)  BY <1>1 DEF Owned, Lists
<1>8. \A x \in Members(blocks) : x.addr # s.addr  BY <1>6, <1>7, MembersProperties
<1>9. \A i \in DOMAIN Pooled(blocks) : Pooled(blocks)[i] \in Members(blocks)
  BY <1>7, PooledProperties DEF ToSet
<1> QED  BY <1>4, <1>5, <1>8, <1>9

\* Between calls no memory is lost.
LEMMA GoodLosesNothing == IInv => NothingLost
<1> SUFFICES ASSUME Good, op = Idle
             PROVE  /\ DOMAIN device = Addrs(Storages)
                    /\ IsInjective(Pooled(blocks))
                    /\ reserved = Bytes(ToSet(Pooled(blocks)))
                    /\ reserved <= MaxReserve
  BY DEF IInv, NothingLost
<1>1. op.pc = "idle"  BY DEF Idle
<1>2. Full(blocks, device, Out)  BY <1>1, Settled DEF Good
<1>3. Out = live \cup garbage  BY <1>1 DEF Out, Popping
<1>4. /\ Distinct(blocks) /\ blocks \in Seq(Entries)
      /\ \A s \in Members(blocks) : Given(device, s)
      /\ \A a \in DOMAIN device : a \in Addrs(Out) \/ a \in Addrs(Members(blocks))
  BY <1>2, FullProperties
<1>5. ToSet(Pooled(blocks)) = Members(blocks) /\ IsInjective(Pooled(blocks))
  BY <1>4, PooledProperties
<1>6. \A s \in Out : Given(device, s)  BY <1>2 DEF Full, Apart
<1>7. DOMAIN device = Addrs(Storages)
  BY <1>3, <1>4, <1>5, <1>6 DEF Storages, Addrs, Given
<1>8. reserved = Bytes(Members(blocks)) + 0 /\ reserved <= MaxReserve
  BY <1>1 DEF Good, Counted, Pending, InClear
<1>9. Bytes(Members(blocks)) \in Nat  BY <1>2, FullSizes
<1> QED  BY <1>5, <1>7, <1>8, <1>9

\* When malloc gives up, the pool is empty and nothing is garbage.
LEMMA GoodErrorIsReal == IInv => MemoryErrorIsReal
<1> SUFFICES ASSUME Good, op.pc = "retry", ~ Room(op.size)
             PROVE  Bytes(live) + op.size > Capacity
  BY DEF IInv, MemoryErrorIsReal
<1>1. blocks = <<>>  BY DEF Good, Calls, Idle
<1>2. garbage = {} /\ op.size \in Sizes  BY DEF Good, Retrying
<1>3. Out = live  BY <1>2 DEF Out, Popping
<1>4. Full(<<>>, device, live)  BY <1>1, <1>3, Settled DEF Good
<1>5. Members(<<>>) = {}  BY EmptyPool
<1>6. DOMAIN device = Addrs(live)
  <2>1. \A a \in DOMAIN device : a \in Addrs(live)
    BY <1>4, <1>5, FullProperties DEF Addrs
  <2>2. \A s \in live : s.addr \in DOMAIN device  BY <1>4 DEF Full, Apart, Given
  <2> QED  BY <2>1, <2>2 DEF Addrs
<1>7. Holds(device, live)
  <2>1. \A a \in DOMAIN device : device[a] \in Nat  BY <1>4 DEF Full, Devices, Sizes
  <2> QED  BY <1>4, <1>6, <2>1 DEF Full, Holds
<1>8. Total(device) = Bytes(live)  BY <1>7, TotalIsBytes
<1>9. Bytes(live) \in Nat  BY <1>7, BytesProperties DEF Holds
<1> QED  BY <1>2, <1>8, <1>9, PoolAssumption DEF Room, Sizes

\* A storage in use has memory of its size, which is allocated and nobody else's, for
\* any requests, block size, limit, capacity and order of collections (malloc, free, clear).
THEOREM LiveStayAllocated == Spec => []LiveIsAllocated
BY Inductive, GoodIsLive, PTL

\* Between calls memory is in use or pooled, once, or with the device, and reserved_size
\* is what the pool holds, and within the limit.
THEOREM NothingIsLost == Spec => []NothingLost
BY Inductive, GoodLosesNothing, PTL

\* malloc raises MemoryError only when the storages in use leave no room.
THEOREM ErrorsAreReal == Spec => []MemoryErrorIsReal
BY Inductive, GoodErrorIsReal, PTL

-----------------------------------------------------------------------------
(* The division: powers of two.                                             *)

\* The powers, or the states of the loop for d, one from the other.
First(kind, d)     == IF kind = "power" THEN 1 ELSE Start(d)
After(kind, d, x)  == IF kind = "power" THEN 2 * x ELSE Turn(d, x)
Unrolled(kind, d, m, f) == f = [n \in 0 .. m |-> IF n = 0 THEN First(kind, d) ELSE After(kind, d, f[n - 1])]

LEMMA UnrolledExists ==
  ASSUME NEW kind, NEW d
  PROVE  \A m \in Nat : \E f : Unrolled(kind, d, m, f)
<1> SUFFICES ASSUME NEW n \in Nat, ~ \E f : Unrolled(kind, d, n, f) PROVE FALSE  OBVIOUS
<1>1. PICK T : T = {m \in Nat : ~ \E f : Unrolled(kind, d, m, f)}  OBVIOUS
<1>2. PICK m \in T : \A y \in T : m <= y  BY <1>1, LeastOf
<1>3. m \in Nat /\ ~ \E f : Unrolled(kind, d, m, f)  BY <1>1, <1>2
<1>4. CASE m = 0
  <2>1. PICK f : f = [i \in 0 .. m |-> First(kind, d)]  OBVIOUS
  <2>2. \A i \in 0 .. m : i = 0  BY <1>4
  <2>3. Unrolled(kind, d, m, f)  BY <2>1, <2>2 DEF Unrolled
  <2> QED  BY <1>3, <2>3
<1>5. CASE m # 0
  <2>1. m - 1 \in Nat /\ ~ (m <= m - 1)  BY <1>3, <1>5
  <2>2. PICK g : Unrolled(kind, d, m - 1, g)  BY <1>1, <1>2, <2>1
  <2>3. PICK f : f = [i \in 0 .. m |-> IF i = m THEN After(kind, d, g[m - 1]) ELSE g[i]]  OBVIOUS
  <2>4. ASSUME NEW i \in 0 .. m PROVE f[i] = IF i = 0 THEN First(kind, d) ELSE After(kind, d, f[i - 1])
    <3>1. i # 0 => i - 1 \in 0 .. m /\ i - 1 # m /\ f[i - 1] = g[i - 1]  BY <1>3, <2>3
    <3>2. CASE i = m  BY <1>5, <2>3, <3>1, <3>2
    <3>3. CASE i # m
      <4>1. i \in 0 .. (m - 1)  BY <1>3, <3>3
      <4>2. f[i] = g[i] /\ g[i] = IF i = 0 THEN First(kind, d) ELSE After(kind, d, g[i - 1])
        BY <2>2, <2>3, <3>3, <4>1 DEF Unrolled
      <4> QED  BY <3>1, <4>2
    <3> QED  BY <3>2, <3>3
  <2>5. f = [i \in 0 .. m |-> f[i]]  BY <2>3
  <2>6. Unrolled(kind, d, m, f)  BY <2>4, <2>5 DEF Unrolled
  <2> QED  BY <1>3, <2>6
<1> QED  BY <1>4, <1>5

\* The powers double.
LEMMA PowDoubles ==
  /\ Pow2[0] = 1
  /\ \A n \in 0 .. 2 * W - 1 : Pow2[n + 1] = 2 * Pow2[n]
<1>1. 2 * W \in Nat  BY WidthAssumption
<1>2. PICK D : D = 0 .. 2 * W  OBVIOUS
<1>3. PICK g : Unrolled("power", 0, 2 * W, g)  BY <1>1, UnrolledExists
<1>4. g = [n \in D |-> IF n = 0 THEN 1 ELSE 2 * g[n - 1]]  BY <1>2, <1>3 DEF Unrolled, First, After
<1>5. Pow2 = CHOOSE h : h = [n \in D |-> IF n = 0 THEN 1 ELSE 2 * h[n - 1]]  BY <1>2 DEF Pow2
<1>6. Pow2 = [n \in D |-> IF n = 0 THEN 1 ELSE 2 * Pow2[n - 1]]  BY <1>4, <1>5
<1>7. Pow2[0] = 1  BY <1>1, <1>2, <1>6
<1>8. ASSUME NEW n \in 0 .. 2 * W - 1 PROVE Pow2[n + 1] = 2 * Pow2[n]
  <2>1. n + 1 \in D /\ n + 1 # 0 /\ (n + 1) - 1 = n  BY <1>1, <1>2
  <2> QED  BY <1>6, <2>1
<1> QED  BY <1>7, <1>8

LEMMA PowPositive == \A n \in 0 .. 2 * W : Pow2[n] \in Nat \ {0}
<1> SUFFICES ASSUME NEW i \in 0 .. 2 * W, Pow2[i] \notin Nat \ {0} PROVE FALSE  OBVIOUS
<1>1. PICK T : T = {n \in Nat : n <= 2 * W /\ Pow2[n] \notin Nat \ {0}}  OBVIOUS
<1>2. i \in T /\ T \in SUBSET Nat  BY <1>1, WidthAssumption
<1>3. PICK n \in T : \A y \in T : n <= y  BY <1>2, LeastOf
<1>4. n \in Nat /\ n <= 2 * W /\ Pow2[n] \notin Nat \ {0}  BY <1>1, <1>3
<1>5. n # 0  BY <1>4, PowDoubles
<1>6. n - 1 \in 0 .. 2 * W - 1 /\ n - 1 \in Nat /\ ~ (n <= n - 1) /\ (n - 1) + 1 = n
  BY <1>4, <1>5, WidthAssumption
<1>7. Pow2[n - 1] \in Nat \ {0}  BY <1>1, <1>3, <1>6, WidthAssumption
<1>8. Pow2[n] = 2 * Pow2[n - 1]  BY <1>6, PowDoubles
<1> QED  BY <1>4, <1>7, <1>8

\* The powers from Half on.
LEMMA PowShift == \A n \in 0 .. W + 1 : Pow2[W - 1 + n] = Half * Pow2[n]
<1> SUFFICES ASSUME NEW i \in 0 .. W + 1, Pow2[W - 1 + i] # Half * Pow2[i] PROVE FALSE  OBVIOUS
<1>1. PICK T : T = {n \in Nat : n <= W + 1 /\ Pow2[W - 1 + n] # Half * Pow2[n]}  OBVIOUS
<1>2. i \in T /\ T \in SUBSET Nat  BY <1>1, WidthAssumption
<1>3. PICK n \in T : \A y \in T : n <= y  BY <1>2, LeastOf
<1>4. n \in Nat /\ n <= W + 1 /\ Pow2[W - 1 + n] # Half * Pow2[n]  BY <1>1, <1>3
<1>5. Half \in Nat  BY PowPositive, WidthAssumption DEF Half
<1>6. n # 0
  <2>1. (W - 1) + 0 = W - 1  BY WidthAssumption
  <2> QED  BY <1>4, <1>5, <2>1, PowDoubles DEF Half
<1>7. /\ n - 1 \in Nat /\ ~ (n <= n - 1) /\ n - 1 <= W + 1
      /\ n - 1 \in 0 .. 2 * W - 1 /\ W - 1 + (n - 1) \in 0 .. 2 * W - 1
      /\ (n - 1) + 1 = n /\ (W - 1 + (n - 1)) + 1 = W - 1 + n
  BY <1>4, <1>6, WidthAssumption
<1>8. Pow2[W - 1 + (n - 1)] = Half * Pow2[n - 1]  BY <1>1, <1>3, <1>7
<1>9. Pow2[n] = 2 * Pow2[n - 1] /\ Pow2[W - 1 + n] = 2 * Pow2[W - 1 + (n - 1)]  BY <1>7, PowDoubles
<1>10. Pow2[n - 1] \in Nat  BY <1>7, PowPositive, WidthAssumption
<1>11. 2 * (Half * Pow2[n - 1]) = Half * (2 * Pow2[n - 1])  BY <1>5, <1>10
<1> QED  BY <1>4, <1>8, <1>9, <1>11

\* The bounds of the integers.
LEMMA HalfType ==
  /\ Half \in Nat /\ Wrap \in Nat /\ Wrap = 2 * Half /\ Half >= 4
  /\ \E x \in Nat : Half = 2 * x
<1>1. W - 1 \in 0 .. 2 * W - 1 /\ W - 2 \in 0 .. 2 * W - 1 /\ W - 3 \in 0 .. 2 * W - 1
      /\ (W - 1) + 1 = W /\ (W - 2) + 1 = W - 1 /\ (W - 3) + 1 = W - 2
  BY WidthAssumption
<1>2. Pow2[W] = 2 * Pow2[W - 1] /\ Pow2[W - 1] = 2 * Pow2[W - 2] /\ Pow2[W - 2] = 2 * Pow2[W - 3]
  BY <1>1, PowDoubles
<1>3. Pow2[W - 3] \in Nat \ {0}  BY <1>1, PowPositive
<1>4. Pow2[W - 2] \in Nat /\ Pow2[W - 2] >= 2  BY <1>2, <1>3
<1> QED  BY <1>2, <1>4 DEF Half, Wrap

-----------------------------------------------------------------------------
(* Integer arithmetic.                                                      *)

LEMMA DivMod ==
  \A x \in Int, a \in Nat \ {0} :
    /\ x = a * (x \div a) + (x % a) /\ x \div a \in Int /\ x % a \in Int /\ 0 <= x % a /\ x % a < a
    /\ x >= 0 => x \div a >= 0
OBVIOUS

LEMMA NatDivMod ==
  ASSUME NEW x \in Nat, NEW a \in Nat \ {0}
  PROVE  \E k, j \in Nat : k = x \div a /\ j < a /\ x = a * k + j
<1> DEFINE k == x \div a  j == x % a
<1>1. x = a * k + j /\ k \in Nat /\ j \in Nat /\ j < a /\ k = x \div a  BY DivMod
<1> HIDE DEF k, j
<1> QED  BY <1>1

IsDivision(x, a, q, r) == x \in Int /\ q \in Int /\ r \in Int /\ x = a * q + r /\ 0 <= r /\ r < a

LEMMA DivUnique ==
  ASSUME NEW a \in Nat \ {0}, NEW x, NEW q, NEW r, IsDivision(x, a, q, r)
  PROVE  x \div a = q /\ x % a = r
BY DEF IsDivision

\* Division when the dividend is doubled.
LEMMA DoubleDiv ==
  ASSUME NEW P \in Nat, NEW a \in Nat \ {0}
  PROVE  /\ (2 * P) \div a = 2 * (P \div a) + (2 * (P % a)) \div a
         /\ (2 * P) % a = (2 * (P % a)) % a
         /\ (2 * (P % a)) \div a = IF 2 * (P % a) >= a THEN 1 ELSE 0
<1> DEFINE q == P \div a  r == P % a
<1>1. P = a * q + r /\ q \in Nat /\ r \in Nat /\ r < a  BY DivMod
<1> HIDE DEF q, r
<1>2. CASE 2 * r >= a
  <2>1. 2 * r = a * 1 + (2 * r - a) /\ 0 <= 2 * r - a /\ 2 * r - a < a  BY <1>1, <1>2
  <2>2. IsDivision(2 * r, a, 1, 2 * r - a)  BY <1>1, <2>1 DEF IsDivision
  <2>3. 2 * P = a * (2 * q + 1) + (2 * r - a)
    <3>1. 2 * (a * q) = a * (2 * q) /\ a * (2 * q + 1) = a * (2 * q) + a  BY <1>1
    <3> QED  BY <1>1, <3>1
  <2>4. (2 * P) \div a = 2 * q + 1 /\ (2 * P) % a = 2 * r - a
    <3>1. IsDivision(2 * P, a, 2 * q + 1, 2 * r - a)  BY <1>1, <2>1, <2>3 DEF IsDivision
    <3> QED  BY <3>1, DivUnique
  <2>5. (2 * r) \div a = 1 /\ (2 * r) % a = 2 * r - a  BY <2>2, DivUnique
  <2> QED  BY <1>2, <2>4, <2>5 DEF q, r
<1>3. CASE ~ (2 * r >= a)
  <2>1. 2 * r = a * 0 + 2 * r /\ 0 <= 2 * r /\ 2 * r < a  BY <1>1, <1>3
  <2>2. IsDivision(2 * r, a, 0, 2 * r)  BY <1>1, <2>1 DEF IsDivision
  <2>3. 2 * P = a * (2 * q) + 2 * r
    <3>1. 2 * (a * q) = a * (2 * q)  BY <1>1
    <3> QED  BY <1>1, <3>1
  <2>4. (2 * P) \div a = 2 * q /\ (2 * P) % a = 2 * r
    <3>1. IsDivision(2 * P, a, 2 * q, 2 * r)  BY <1>1, <2>1, <2>3 DEF IsDivision
    <3> QED  BY <3>1, DivUnique
  <2>5. 2 * q + 0 = 2 * q  BY <1>1
  <2>6. (2 * r) \div a = 0 /\ (2 * r) % a = 2 * r  BY <2>2, DivUnique
  <2> QED  BY <1>3, <2>4, <2>5, <2>6 DEF q, r
<1> QED  BY <1>2, <1>3

-----------------------------------------------------------------------------
(* The largest dividend.                                                    *)

\* The largest quotient that counts, and one more than the largest magnitude of a dividend
\* whose quotient is positive.
Top(d) == Half + (IF d < 0 THEN 1 ELSE 0)

LEMMA AncProperties ==
  ASSUME NEW d \in Ints, Magnitude(d) >= 2
  PROVE  /\ Magnitude(d) \in Nat \ {0} /\ Magnitude(d) <= Half
         /\ d > 0 => Magnitude(d) <= Half - 1
         /\ Top(d) \in Nat /\ Anc(d, Magnitude(d)) \in Nat /\ 2 <= Anc(d, Magnitude(d))
         /\ Anc(d, Magnitude(d)) = Magnitude(d) * (Top(d) \div Magnitude(d)) - 1
         /\ Top(d) = Anc(d, Magnitude(d)) + 1 + (Top(d) % Magnitude(d))
         /\ Magnitude(d) - 1 <= Anc(d, Magnitude(d)) /\ Anc(d, Magnitude(d)) <= Top(d) - 1
<1> DEFINE ad == Magnitude(d)  t == Top(d)  c == t \div ad  j == t % ad
<1>1. d \in Int /\ Half \in Nat /\ Half >= 4 /\ -Half <= d /\ d <= Half - 1
  BY HalfType DEF Ints
<1>2. ad \in Nat \ {0} /\ ad <= Half /\ (d > 0 => ad <= Half - 1) /\ ad >= 2  BY <1>1 DEF Magnitude
<1>3. t \in Nat /\ t >= Half /\ t <= Half + 1  BY <1>1 DEF Top
<1>4. Anc(d, ad) = t - 1 - j  BY DEF Anc, Top
<1> HIDE DEF ad, t
<1>5. t = ad * c + j /\ c \in Int /\ j \in Nat /\ j < ad  BY <1>2, <1>3, DivMod
<1> HIDE DEF c, j
<1>6. c >= 1
  <2>1. SUFFICES ASSUME c <= 0 PROVE FALSE  BY <1>5
  <2>2. ad * c <= 0  BY <1>2, <1>5, <2>1
  <2>3. ad * c \in Int  BY <1>2, <1>5
  <2> QED  BY <1>1, <1>2, <1>3, <1>5, <2>2, <2>3
<1>7. ad * c >= ad  BY <1>2, <1>5, <1>6
<1>8. ad * c \in Int  BY <1>2, <1>5
<1>9. Anc(d, ad) = ad * c - 1 /\ Anc(d, ad) \in Nat /\ ad - 1 <= Anc(d, ad) /\ Anc(d, ad) <= t - 1
      /\ t = Anc(d, ad) + 1 + j
  BY <1>2, <1>3, <1>4, <1>5, <1>7, <1>8
<1>10. 2 <= Anc(d, ad)
  <2>1. CASE ad >= 3  BY <1>2, <1>9, <2>1
  <2>2. CASE ad < 3
    <3>1. j <= 1  BY <1>2, <1>5, <2>2
    <3> QED  BY <1>1, <1>3, <1>4, <1>5, <3>1
  <2> QED  BY <1>2, <2>1, <2>2
<1> QED  BY <1>2, <1>3, <1>9, <1>10 DEF ad, t, c, j

-----------------------------------------------------------------------------
(* The loop of calculate_magic_numbers.                                     *)

\* The power at which the loop stops.
Enough(d, P) == P > Anc(d, Magnitude(d)) * (Magnitude(d) - (P % Magnitude(d)))

\* The powers the loop goes on from: its start, and those that are not enough.
LEMMA OddTops ==
  ASSUME NEW p \in W .. 2 * W - 1
  PROVE  \E y \in Nat : Pow2[p] = Half * (2 * y)
<1>1. PICK n : n = p - W  OBVIOUS
<1>2. n \in 0 .. 2 * W - 1 /\ n \in 0 .. 2 * W /\ n + 1 \in 0 .. W + 1 /\ (W - 1) + (n + 1) = p
  BY <1>1, WidthAssumption
<1>3. Pow2[p] = Half * Pow2[n + 1]  BY <1>2, PowShift
<1>4. Pow2[n + 1] = 2 * Pow2[n] /\ Pow2[n] \in Nat  BY <1>2, PowDoubles, PowPositive
<1> QED  BY <1>3, <1>4

\* The quotient by anc does not wrap around.
LEMMA FirstFits ==
  ASSUME NEW d \in Ints, Magnitude(d) >= 2, NEW p \in W - 1 .. 2 * W - 1,
         p = W - 1 \/ ~ Enough(d, Pow2[p])
  PROVE  (2 * Pow2[p]) \div Anc(d, Magnitude(d)) < Wrap
<1> DEFINE P == Pow2[p]  ad == Magnitude(d)  n == Anc(d, ad)  q == P \div n  r == P % n
           delta == ad - (P % ad)
<1>1. P \in Nat \ {0}  BY PowPositive, WidthAssumption
<1>2. ad \in Nat \ {0} /\ ad <= Half /\ n \in Nat /\ n >= 2 /\ n <= Half  /\ ad >= 2
      /\ Half \in Nat /\ Half >= 4 /\ Wrap = 2 * Half
  <2>1. Top(d) - 1 <= Half /\ Top(d) \in Nat  BY HalfType DEF Top
  <2> QED  BY <2>1, AncProperties, HalfType
<1>3. p = W - 1 => P = Half  BY DEF Half
<1>4. p # W - 1 => P <= n * delta  BY <1>1, <1>2, DivMod DEF Enough
<1>5. ad = Half => n = Half - 1
  <2>1. SUFFICES ASSUME ad = Half PROVE n = Half - 1  OBVIOUS
  <2>2. d \in Int /\ ~ (d > 0)  BY <1>2, <2>1, AncProperties DEF Ints
  <2>3. Top(d) = Half + 1  BY <1>2, <2>1, <2>2 DEF Top, Magnitude
  <2>4. IsDivision(Half + 1, Half, 1, 1)  BY <1>2 DEF IsDivision
  <2>5. Top(d) % ad = 1  BY <1>2, <2>1, <2>3, <2>4, DivUnique
  <2>6. Top(d) = n + 1 + (Top(d) % ad)  BY AncProperties
  <2> QED  BY <1>2, <2>3, <2>5, <2>6
<1>6. p # W - 1 => \E y \in Nat : P = Half * (2 * y)
  <2>1. p # W - 1 => p \in W .. 2 * W - 1  BY WidthAssumption
  <2> QED  BY <2>1, OddTops
<1>7. \E x \in Nat : Half = 2 * x  BY HalfType
<1>8. n \in Nat \ {0}  BY <1>2
<1>9. (2 * P) \div n = 2 * q + (IF 2 * r >= n THEN 1 ELSE 0)  BY <1>1, <1>8, DoubleDiv
<1>10. delta \in Nat /\ 1 <= delta /\ delta <= ad  BY <1>1, <1>2, DivMod
<1> SUFFICES (2 * P) \div n < Wrap  OBVIOUS
<1> HIDE DEF P, ad, n, delta
<1>11. P = n * q + r /\ q \in Nat /\ r \in Nat /\ r < n  BY <1>1, <1>8, DivMod
<1> HIDE DEF q, r
<1>12. CASE p = W - 1
  <2>1. 2 * q <= n * q /\ n * q \in Nat  BY <1>2, <1>11
  <2> QED  BY <1>2, <1>3, <1>9, <1>11, <1>12, <2>1
<1>13. CASE p # W - 1
  <2>1. n * q <= n * delta  BY <1>2, <1>4, <1>10, <1>11, <1>13
  <2>2. q <= delta  BY <1>8, <1>10, <1>11, <2>1
  <2>3. CASE q < delta  BY <1>2, <1>9, <1>10, <1>11, <2>3
  <2>4. CASE q = delta
    <3>1. r = 0  BY <1>2, <1>4, <1>10, <1>11, <1>13, <2>4
    <3>2. CASE delta < Half  BY <1>2, <1>9, <1>10, <1>11, <2>4, <3>1, <3>2
    <3>3. CASE delta = Half
      <4>1. ad = Half /\ n = Half - 1  BY <1>2, <1>5, <1>10, <3>3
      <4>2. P = Half * (Half - 1)  BY <1>2, <1>11, <2>4, <3>1, <3>3, <4>1
      <4>3. PICK y \in Nat : P = Half * (2 * y)  BY <1>6, <1>13
      <4>4. 2 * y = Half - 1  BY <1>2, <4>2, <4>3
      <4> QED  BY <1>2, <1>7, <4>4
    <3> QED  BY <1>2, <1>10, <3>2, <3>3
  <2> QED  BY <1>10, <1>11, <2>2, <2>3, <2>4
<1> QED  BY <1>12, <1>13

\* Neither does the quotient by the divisor, nor its successor, the multiplier.
LEMMA SecondFits ==
  ASSUME NEW d \in Ints, Magnitude(d) >= 2, NEW p \in W - 1 .. 2 * W - 1,
         p = W - 1 \/ ~ Enough(d, Pow2[p])
  PROVE  (2 * Pow2[p]) \div Magnitude(d) + 1 < Wrap
<1> DEFINE P == Pow2[p]  ad == Magnitude(d)  n == Anc(d, ad)  q == P \div ad  r == P % ad
           c == Top(d) \div ad
<1>1. P \in Nat \ {0}  BY PowPositive, WidthAssumption
<1>2. ad \in Nat \ {0} /\ ad <= Half /\ n \in Nat /\ n >= 2 /\ ad >= 2
      /\ Half \in Nat /\ Half >= 4 /\ Wrap = 2 * Half /\ n <= Top(d) - 1 /\ n = ad * c - 1
  BY AncProperties, HalfType
<1>3. n <= Half /\ Top(d) \in Nat /\ c \in Int
  <2>1. Top(d) - 1 <= Half /\ Top(d) \in Nat  BY HalfType DEF Top
  <2>2. c \in Int  BY <1>2, <2>1, DivMod
  <2> QED  BY <1>2, <2>1, <2>2
<1>4. p = W - 1 => P = Half  BY DEF Half
<1>5. p # W - 1 => P <= n * (ad - r)  BY <1>1, <1>2, DivMod DEF Enough
<1>6. p # W - 1 => \E y \in Nat : P = Half * (2 * y)
  <2>1. p # W - 1 => p \in W .. 2 * W - 1  BY WidthAssumption
  <2> QED  BY <2>1, OddTops
<1>7. \E x \in Nat : Half = 2 * x  BY HalfType
<1>8. (2 * P) \div ad = 2 * q + (IF 2 * r >= ad THEN 1 ELSE 0)  BY <1>1, <1>2, DoubleDiv
<1> SUFFICES (2 * P) \div ad + 1 < Wrap  OBVIOUS
<1> HIDE DEF P, ad, n, c
<1>9. P = ad * q + r /\ q \in Nat /\ r \in Nat /\ r < ad  BY <1>1, <1>2, DivMod
<1> HIDE DEF q, r
<1>10. CASE p = W - 1
  <2>1. 2 * q <= ad * q /\ ad * q \in Nat  BY <1>2, <1>9
  <2> QED  BY <1>2, <1>4, <1>8, <1>9, <1>10, <2>1
<1>11. CASE p # W - 1
  <2>1. ad * q + r <= n * ad - n * r
    <3>1. n * (ad - r) = n * ad - n * r  BY <1>2, <1>9
    <3> QED  BY <1>5, <1>9, <1>11, <3>1
  <2>2. n * ad = ad * n /\ n * ad \in Nat /\ n * r \in Nat /\ ad * q \in Nat  BY <1>2, <1>9
  <2>3. CASE r = 0
    <3>1. n * r = 0  BY <1>2, <2>3
    <3>2. ad * q <= ad * n  BY <2>1, <2>2, <2>3, <3>1
    <3>3. q <= n  BY <1>2, <1>9, <3>2
    <3>4. q # Half
      <4>1. SUFFICES ASSUME q = Half PROVE FALSE  OBVIOUS
      <4>2. n = Half  BY <1>2, <1>3, <3>3, <4>1
      <4>3. PICK y \in Nat : P = Half * (2 * y)  BY <1>6, <1>11
      <4>4. P = Half * ad
        <5>1. ad * Half = Half * ad  BY <1>2
        <5> QED  BY <1>2, <1>9, <2>2, <2>3, <4>1, <5>1
      <4>5. ad = 2 * y  BY <1>2, <4>3, <4>4
      <4>6. ad * c = 2 * (y * c) /\ y * c \in Int  BY <1>3, <4>5
      <4>7. Half = 2 * (y * c) - 1  BY <1>2, <4>2, <4>6
      <4> QED  BY <1>2, <1>7, <4>6, <4>7
    <3>5. q <= Half - 1  BY <1>2, <1>3, <1>9, <3>3, <3>4
    <3> QED  BY <1>2, <1>8, <1>9, <2>3, <3>5
  <2>4. CASE r # 0 /\ 2 * r < ad
    <3>1. n * r >= 0 /\ ad * q < ad * n  BY <1>9, <2>1, <2>2, <2>4
    <3>2. q < n  BY <1>2, <1>9, <3>1
    <3> QED  BY <1>2, <1>3, <1>8, <1>9, <2>4, <3>2
  <2>5. CASE 2 * r >= ad
    <3>1. n * (2 * r) >= n * ad  BY <1>2, <1>9, <2>5
    <3>2. n * (2 * r) = 2 * (n * r)  BY <1>2, <1>9
    <3>3. 2 * (ad * q) < ad * n  BY <1>2, <1>9, <2>1, <2>2, <2>5, <3>1, <3>2
    <3>4. ad * (2 * q) = 2 * (ad * q)  BY <1>2, <1>9
    <3>5. 2 * q < n  BY <1>2, <1>9, <3>3, <3>4
    <3> QED  BY <1>2, <1>3, <1>8, <1>9, <2>5, <3>5
  <2> QED  BY <1>2, <1>9, <2>3, <2>4, <2>5
<1> QED  BY <1>10, <1>11

\* Comparing quotients decides whether the power is enough.
LEMMA GoesOnDecides ==
  ASSUME NEW d \in Ints, Magnitude(d) >= 2, NEW P \in Nat
  PROVE  GoesOn(P \div Anc(d, Magnitude(d)), P % Anc(d, Magnitude(d)), Magnitude(d) - (P % Magnitude(d)))
           <=> ~ Enough(d, P)
<1> DEFINE ad == Magnitude(d)  n == Anc(d, ad)  q == P \div n  r == P % n  delta == ad - (P % ad)
<1>1. ad \in Nat \ {0} /\ n \in Nat \ {0}  BY AncProperties
<1>2. delta \in Nat /\ 1 <= delta  BY <1>1, DivMod
<1>3. Enough(d, P) <=> P > n * delta  BY DEF Enough
<1> SUFFICES GoesOn(q, r, delta) <=> ~ (P > n * delta)  BY <1>3
<1> HIDE DEF ad, n, delta
<1>4. P = n * q + r /\ q \in Nat /\ r \in Nat /\ r < n  BY <1>1, DivMod
<1> HIDE DEF q, r
<1>5. n * q \in Nat /\ n * delta \in Nat  BY <1>1, <1>2, <1>4
<1>6. CASE q < delta
  <2>1. n * (q + 1) <= n * delta  BY <1>1, <1>2, <1>4, <1>6
  <2>2. n * (q + 1) = n * q + n  BY <1>1, <1>4
  <2> QED  BY <1>1, <1>4, <1>5, <1>6, <2>1, <2>2 DEF GoesOn
<1>7. CASE q = delta
  <2>1. n * q = n * delta  BY <1>7
  <2> QED  BY <1>1, <1>2, <1>4, <1>5, <1>7, <2>1 DEF GoesOn
<1>8. CASE q > delta
  <2>1. n * (delta + 1) <= n * q  BY <1>1, <1>2, <1>4, <1>8
  <2>2. n * (delta + 1) = n * delta + n  BY <1>1, <1>2
  <2> QED  BY <1>1, <1>2, <1>4, <1>5, <1>8, <2>1, <2>2 DEF GoesOn
<1> QED  BY <1>2, <1>4, <1>6, <1>7, <1>8

\* The state after k turns: exact quotients of the power, which was not enough before.
Turned(d, k, st) ==
  /\ st.p \in W - 1 .. 2 * W - 1
  /\ LET P == Pow2[st.p] ad == Magnitude(d) anc == Anc(d, Magnitude(d))
     IN  st.q1 = P \div anc /\ st.r1 = P % anc /\ st.q2 = P \div ad /\ st.r2 = P % ad
  /\ st.more \in BOOLEAN
  /\ st.more => st.p = W - 1 + k /\ (k = 0 \/ ~ Enough(d, Pow2[st.p]))
  /\ ~ st.more => st.p >= W /\ Enough(d, Pow2[st.p]) /\ st.q2 + 1 < Wrap

LEMMA StartTurned ==
  ASSUME NEW d \in Ints, Magnitude(d) >= 2
  PROVE  Turned(d, 0, Start(d))
BY WidthAssumption DEF Turned, Start, Half

\* The last power is enough for every divisor.
LEMMA LastEnough ==
  ASSUME NEW d \in Ints, Magnitude(d) >= 2
  PROVE  Enough(d, Pow2[2 * W - 1])
<1> DEFINE ad == Magnitude(d)  n == Anc(d, ad)  P == Pow2[2 * W - 1]  delta == ad - (P % ad)
<1>1. P = Half * Wrap
  <2>1. W \in 0 .. W + 1 /\ (W - 1) + W = 2 * W - 1  BY WidthAssumption
  <2> QED  BY <2>1, PowShift DEF Wrap
<1>2. ad \in Nat \ {0} /\ ad <= Half /\ n \in Nat /\ n <= Half /\ Half \in Nat /\ Half >= 4 /\ Wrap = 2 * Half
  <2>1. Top(d) - 1 <= Half /\ Top(d) \in Nat  BY HalfType DEF Top
  <2> QED  BY <2>1, AncProperties, HalfType
<1>3. P \in Nat  BY <1>1, <1>2
<1>4. delta \in Nat /\ delta <= Half  BY <1>2, <1>3, DivMod
<1> SUFFICES P > n * delta  BY DEF Enough
<1> HIDE DEF ad, n, P, delta
<1>5. n * delta <= Half * delta /\ Half * delta <= Half * Half  BY <1>2, <1>4
<1>6. P = Half * Half + Half * Half /\ Half * Half > 0 /\ Half * Half \in Nat /\ n * delta \in Nat
  BY <1>1, <1>2, <1>4
<1> QED  BY <1>2, <1>4, <1>5, <1>6

LEMMA TurnTurned ==
  ASSUME NEW d \in Ints, Magnitude(d) >= 2, NEW k \in 0 .. W, NEW st, Turned(d, k, st)
  PROVE  Turned(d, k + 1, Turn(d, st))
<1> DEFINE ad == Magnitude(d)  n == Anc(d, ad)  P == Pow2[st.p]
<1>1. CASE ~ st.more
  <2>1. Turn(d, st) = st  BY <1>1 DEF Turn
  <2> QED  BY <1>1, <2>1 DEF Turned
<1>2. CASE st.more
  <2>1. st.p = W - 1 + k /\ (st.p = W - 1 \/ ~ Enough(d, P))  BY <1>2, WidthAssumption DEF Turned
  <2>2. st.p \in W - 1 .. 2 * W - 2
    <3>1. st.p \in W - 1 .. 2 * W - 1  BY DEF Turned
    <3>2. st.p # 2 * W - 1
      <4>1. 2 * W - 1 # W - 1  BY WidthAssumption
      <4> QED  BY <2>1, <4>1, LastEnough
    <3> QED  BY <3>1, <3>2, WidthAssumption
  <2>3. st.p + 1 \in W .. 2 * W - 1 /\ Pow2[st.p + 1] = 2 * P /\ P \in Nat /\ 2 * P \in Nat
    <3>1. st.p \in 0 .. 2 * W - 1 /\ st.p \in 0 .. 2 * W /\ st.p + 1 \in W .. 2 * W - 1
      BY <2>2, WidthAssumption
    <3>2. P \in Nat  BY <3>1, PowPositive
    <3> QED  BY <3>1, <3>2, PowDoubles
  <2>4. ad \in Nat \ {0} /\ n \in Nat \ {0} /\ Wrap \in Nat \ {0}  BY AncProperties, HalfType
  <2>5. /\ (2 * P) \div n = 2 * st.q1 + (2 * st.r1) \div n /\ (2 * P) % n = (2 * st.r1) % n
        /\ (2 * P) \div ad = 2 * st.q2 + (2 * st.r2) \div ad /\ (2 * P) % ad = (2 * st.r2) % ad
    <3>1. st.q1 = P \div n /\ st.r1 = P % n /\ st.q2 = P \div ad /\ st.r2 = P % ad  BY DEF Turned
    <3>2. (2 * P) \div n = 2 * (P \div n) + (2 * (P % n)) \div n /\ (2 * P) % n = (2 * (P % n)) % n
      BY <2>3, <2>4, DoubleDiv
    <3>3. (2 * P) \div ad = 2 * (P \div ad) + (2 * (P % ad)) \div ad /\ (2 * P) % ad = (2 * (P % ad)) % ad
      BY <2>3, <2>4, DoubleDiv
    <3> QED  BY <3>1, <3>2, <3>3
  <2>6. (2 * P) \div n < Wrap /\ (2 * P) \div ad + 1 < Wrap
    BY <2>1, <2>2, FirstFits, SecondFits, WidthAssumption
  <2>7. (2 * P) \div n \in Nat /\ (2 * P) \div ad \in Nat /\ (2 * P) % n \in Nat /\ (2 * P) % ad \in Nat
    BY <2>3, <2>4, DivMod
  <2>8. Unsigned((2 * P) \div n) = (2 * P) \div n /\ Unsigned((2 * P) \div ad) = (2 * P) \div ad
    <3>1. \A x \in Nat : x < Wrap => Unsigned(x) = x  BY <2>4 DEF Unsigned
    <3> QED  BY <2>4, <2>6, <2>7, <3>1
  <2>9. Turn(d, st) = [p |-> st.p + 1, q1 |-> (2 * P) \div n, r1 |-> (2 * P) % n, q2 |-> (2 * P) \div ad,
                       r2 |-> (2 * P) % ad, more |-> ~ Enough(d, 2 * P)]
    <3>1. GoesOn((2 * P) \div n, (2 * P) % n, ad - ((2 * P) % ad)) <=> ~ Enough(d, 2 * P)
      BY <2>3, GoesOnDecides
    <3>2. GoesOn((2 * P) \div n, (2 * P) % n, ad - ((2 * P) % ad)) \in BOOLEAN  BY DEF GoesOn
    <3>3. GoesOn((2 * P) \div n, (2 * P) % n, ad - ((2 * P) % ad)) = (~ Enough(d, 2 * P))
      BY <3>1, <3>2
    <3> QED  BY <1>2, <2>5, <2>8, <3>3 DEF Turn
  <2>10. st.p + 1 = W - 1 + (k + 1)  BY <2>1, WidthAssumption
  <2>11. Enough(d, 2 * P) \in BOOLEAN  BY DEF Enough
  <2> HIDE DEF ad, n, P
  <2> DEFINE to == Turn(d, st)
  <2>12. to.p = st.p + 1 /\ to.q1 = (2 * P) \div n /\ to.r1 = (2 * P) % n /\ to.q2 = (2 * P) \div ad
         /\ to.r2 = (2 * P) % ad /\ to.more = ~ Enough(d, 2 * P)
    BY <2>9
  <2> HIDE DEF to
  <2>13. to.p \in W - 1 .. 2 * W - 1 /\ to.p >= W  BY <2>3, <2>12, WidthAssumption
  <2>14. Turned(d, k + 1, to)
    BY <2>3, <2>6, <2>10, <2>11, <2>12, <2>13 DEF Turned, ad, n
  <2> QED  BY <2>14 DEF to
<1> QED  BY <1>1, <1>2 DEF Turned

\* The loop ends, with a power that is enough and a multiplier that fits.
LEMMA LoopEnds ==
  ASSUME NEW d \in Ints, Magnitude(d) >= 2
  PROVE  Turned(d, W + 1, Loop(d)) /\ ~ Loop(d).more
<1>1. W + 1 \in Nat /\ W + 1 \in 0 .. W + 1  BY WidthAssumption
<1>2. PICK D : D = 0 .. W + 1  OBVIOUS
<1>3. PICK g : Unrolled("turn", d, W + 1, g)  BY <1>1, UnrolledExists
<1>4. g = [n \in D |-> IF n = 0 THEN Start(d) ELSE Turn(d, g[n - 1])]
  BY <1>2, <1>3 DEF Unrolled, First, After
<1>5. PICK f : f = CHOOSE h : h = [n \in D |-> IF n = 0 THEN Start(d) ELSE Turn(d, h[n - 1])]  OBVIOUS
<1>6. f = [n \in D |-> IF n = 0 THEN Start(d) ELSE Turn(d, f[n - 1])]  BY <1>4, <1>5
<1>7. Loop(d) = f[W + 1]  BY <1>2, <1>5 DEF Loop
<1>8. ASSUME NEW i \in 0 .. W + 1, ~ Turned(d, i, f[i]) PROVE FALSE
  <2>1. PICK T : T = {n \in Nat : n <= W + 1 /\ ~ Turned(d, n, f[n])}  OBVIOUS
  <2>2. i \in T /\ T \in SUBSET Nat  BY <1>1, <1>8, <2>1
  <2>3. PICK n \in T : \A y \in T : n <= y  BY <2>2, LeastOf
  <2>4. n \in Nat /\ n <= W + 1 /\ ~ Turned(d, n, f[n])  BY <2>1, <2>3
  <2>5. n # 0
    <3>1. f[0] = Start(d)  BY <1>1, <1>2, <1>6
    <3> QED  BY <2>4, <3>1, StartTurned
  <2>6. n - 1 \in Nat /\ n - 1 <= W + 1 /\ ~ (n <= n - 1) /\ n - 1 \in 0 .. W /\ (n - 1) + 1 = n /\ n \in 0 .. W + 1
    BY <1>1, <2>4, <2>5, WidthAssumption
  <2>7. Turned(d, n - 1, f[n - 1])  BY <2>1, <2>3, <2>6
  <2>8. f[n] = Turn(d, f[n - 1])  BY <1>2, <1>6, <2>5, <2>6
  <2>9. Turned(d, (n - 1) + 1, Turn(d, f[n - 1]))  BY <2>6, <2>7, TurnTurned
  <2> QED  BY <2>4, <2>6, <2>8, <2>9
<1>9. Turned(d, W + 1, Loop(d))  BY <1>1, <1>7, <1>8
<1>10. ~ Loop(d).more
  <2>1. W - 1 + (W + 1) \notin W - 1 .. 2 * W - 1  BY WidthAssumption
  <2> QED  BY <1>9, <2>1 DEF Turned
<1> QED  BY <1>9, <1>10

-----------------------------------------------------------------------------
(* Multiplying is dividing.                                                 *)

\* m times a is a little more than the power P: by e, which is small for every dividend up
\* to n, the last number before a multiple of a, and beyond it up to one less than t.
Multiplier(a, P, m, e, n, t) ==
  /\ a \in Nat \ {0, 1} /\ P \in Nat \ {0} /\ m \in Nat /\ e \in Nat \ {0} /\ e <= a
  /\ m * a = P + e
  /\ n \in Nat /\ P > n * e /\ a - 1 <= n
  /\ t \in Nat /\ \E c, j \in Nat : n + 1 = a * c /\ t = n + 1 + j /\ j < a

\* What the surplus adds to a dividend does not reach the next quotient.
LEMMA SurplusIsSmall ==
  ASSUME NEW a, NEW P, NEW m, NEW e, NEW n, NEW t, Multiplier(a, P, m, e, n, t),
         NEW x \in Nat, NEW k, NEW j, IsDivision(x, a, k, j), x <= t, x <= n \/ j + 2 <= a
  PROVE  e * x < P * (a - j)
<1>0. x = a * k + j /\ k \in Int /\ j \in Nat /\ j < a  BY DEF IsDivision
<1>1. /\ a \in Nat /\ P \in Nat /\ e \in Nat /\ n \in Nat /\ t \in Nat
      /\ P > n * e /\ a - 1 <= n /\ a * k \in Int
  BY <1>0 DEF Multiplier
<1>2. x \in Nat /\ a - j \in Nat  BY <1>0, <1>1
<1>3. n * e = e * n /\ n * e \in Nat  BY <1>1
<1>4. CASE x <= n
  <2>1. e * x <= e * n  BY <1>1, <1>2, <1>4
  <2>2. P * 1 <= P * (a - j)  BY <1>0, <1>1, <1>2
  <2>3. e * x \in Nat /\ P * (a - j) \in Nat  BY <1>1, <1>2
  <2> QED  BY <1>1, <1>3, <2>1, <2>2, <2>3
<1>5. CASE x > n
  <2>1. PICK c \in Nat, i \in Nat : n + 1 = a * c /\ t = n + 1 + i /\ i < a  BY DEF Multiplier
  <2>2. x <= a * c + i /\ a * c <= x  BY <1>1, <1>2, <1>5, <2>1
  <2>3. k = c
    <3>1. IsDivision(x, a, k, j)  OBVIOUS
    <3>2. IsDivision(x, a, c, x - a * c)
      <4>1. a * c \in Nat  BY <1>1, <2>1
      <4> QED  BY <1>1, <1>2, <2>1, <2>2, <4>1 DEF IsDivision
    <3>3. a \in Nat \ {0}  BY DEF Multiplier
    <3> QED  BY <3>1, <3>2, <3>3, DivUnique
  <2>4. x = n + (j + 1) /\ j + 1 <= n  BY <1>0, <1>1, <1>2, <1>5, <2>1, <2>3
  <2>5. e * x = e * n + e * (j + 1) /\ e * (j + 1) <= e * n  BY <1>0, <1>1, <2>4
  <2>6. P * 2 <= P * (a - j)  BY <1>0, <1>1, <1>2, <1>5
  <2>7. e * (j + 1) \in Nat /\ P * (a - j) \in Nat  BY <1>0, <1>1, <1>2
  <2> QED  BY <1>1, <1>3, <2>5, <2>6, <2>7
<1> QED  BY <1>1, <1>2, <1>4, <1>5

\* Beyond n the remainders of dividends count from 0.
LEMMA RemainderBeyond ==
  ASSUME NEW a, NEW P, NEW m, NEW e, NEW n, NEW t, Multiplier(a, P, m, e, n, t),
         NEW x \in Nat, x < t
  PROVE  x <= n \/ (x % a) + 2 <= a
<1>1. PICK c \in Nat, i \in Nat : n + 1 = a * c /\ t = n + 1 + i /\ i < a  BY DEF Multiplier
<1>2. a \in Nat \ {0} /\ n \in Nat /\ t \in Nat  BY DEF Multiplier
<1>3. CASE x > n
  <2>1. IsDivision(x, a, c, x - a * c) /\ x - a * c = x - (n + 1)
    <3>1. a * c \in Nat  BY <1>1, <1>2
    <3> QED  BY <1>1, <1>2, <1>3, <3>1 DEF IsDivision
  <2>2. x % a = x - (n + 1)  BY <1>2, <2>1, DivUnique
  <2> QED  BY <1>1, <1>2, <1>3, <2>2
<1> QED  BY <1>2, <1>3

\* What is left of m times a dividend, times a.
LEMMA Left ==
  ASSUME NEW a \in Nat, NEW P \in Nat, NEW m \in Nat, NEW e \in Nat, m * a = P + e,
         NEW k \in Nat, NEW j \in Nat
  PROVE  a * (m * (a * k + j) - P * k) = P * j + e * (a * k + j)
<1> DEFINE x == a * k + j
<1>1. x \in Nat /\ x = a * k + j  OBVIOUS
<1> HIDE DEF x
<1> SUFFICES a * (m * x - P * k) = P * j + e * x  BY <1>1
<1>2. a * (m * x) = (m * a) * x  BY <1>1
<1>3. (P + e) * x = P * x + e * x  BY <1>1
<1>4. P * x = P * (a * k) + P * j  BY <1>1
<1>5. P * (a * k) = a * (P * k)  OBVIOUS
<1>6. a * (m * x - P * k) = a * (m * x) - a * (P * k)
  <2>1. m * x \in Int /\ P * k \in Int  BY <1>1
  <2> QED  BY <2>1
<1>7. a * (m * x) \in Int /\ a * (P * k) \in Int /\ P * j \in Int /\ e * x \in Int /\ P * x \in Int  BY <1>1
<1>8. a * (m * x) = P * x + e * x  BY <1>2, <1>3
<1>9. a * (m * x) = a * (P * k) + P * j + e * x  BY <1>4, <1>5, <1>7, <1>8
<1> QED  BY <1>6, <1>7, <1>9

LEMMA FloorDivides ==
  ASSUME NEW a, NEW P, NEW m, NEW e, NEW n, NEW t, Multiplier(a, P, m, e, n, t),
         NEW x \in Nat, x < t
  PROVE  (m * x) \div P = x \div a
<1> DEFINE k == x \div a  j == x % a
<1>1. a \in Nat \ {0} /\ P \in Nat \ {0} /\ m \in Nat /\ e \in Nat \ {0} /\ m * a = P + e /\ t \in Nat
  BY DEF Multiplier
<1>2. x = a * k + j /\ k \in Nat /\ j \in Nat /\ j < a  BY <1>1, DivMod
<1>3. x <= n \/ j + 2 <= a  BY RemainderBeyond
<1> HIDE DEF k, j
<1>4. e * x < P * (a - j)
  <2>1. IsDivision(x, a, k, j)  BY <1>1, <1>2 DEF IsDivision
  <2> QED  BY <1>1, <1>3, <2>1, SurplusIsSmall
<1>5. PICK r : r = m * x - P * k  OBVIOUS
<1>6. r \in Int /\ m * x \in Int /\ m * x = P * k + r
  <2>1. m * x \in Int /\ P * k \in Int  BY <1>1, <1>2
  <2> QED  BY <1>5, <2>1
<1>7. a * r = P * j + e * x  BY <1>1, <1>2, <1>5, Left
<1>8. P * (a - j) = a * P - P * j  BY <1>1, <1>2
<1>9. P * j \in Nat /\ e * x \in Nat /\ a * P \in Nat  BY <1>1, <1>2
<1>10. 0 <= a * r /\ a * r < a * P  BY <1>4, <1>7, <1>8, <1>9
<1>11. 0 <= r /\ r < P  BY <1>1, <1>6, <1>10
<1>12. IsDivision(m * x, P, k, r)  BY <1>1, <1>2, <1>6, <1>11 DEF IsDivision
<1> QED  BY <1>1, <1>12, DivUnique DEF k

\* The dividend t, when the power is a multiple of it.
LEMMA SurplusAtTop ==
  ASSUME NEW a, NEW P, NEW m, NEW e, NEW n, NEW t, Multiplier(a, P, m, e, n, t),
         NEW g \in Nat, P = t * g, t % a = a - 1
  PROVE  e * t <= P
<1>1. PICK c \in Nat, i \in Nat : n + 1 = a * c /\ t = n + 1 + i /\ i < a  BY DEF Multiplier
<1>2. /\ a \in Nat \ {0} /\ P \in Nat \ {0} /\ m \in Nat /\ e \in Nat \ {0} /\ e <= a /\ m * a = P + e
      /\ t \in Nat
  BY DEF Multiplier
<1>3. i = a - 1
  <2>1. IsDivision(t, a, c, i)  BY <1>1, <1>2 DEF IsDivision
  <2> QED  BY <1>2, <2>1, DivUnique
<1>4. t = a * (c + 1) - 1  BY <1>1, <1>2, <1>3
<1>5. g >= 1
  <2>1. g = 0 => P = 0  BY <1>2
  <2> QED  BY <1>2, <2>1
<1>6. P = a * ((c + 1) * g) - g
  <2>1. (a * (c + 1) - 1) * g = (a * (c + 1)) * g - g  BY <1>2
  <2>2. (a * (c + 1)) * g = a * ((c + 1) * g)  BY <1>2
  <2> QED  BY <1>4, <2>1, <2>2
<1>7. e <= g
  <2>1. SUFFICES ASSUME e > g PROVE FALSE  BY <1>2
  <2>2. PICK w : w = (c + 1) * g  OBVIOUS
  <2>3. w \in Int  BY <2>2
  <2>4. a * (m - w) = e - g
    <3>1. a * (m - w) = m * a - a * w /\ a * w \in Int /\ m * a \in Int  BY <1>2, <2>3
    <3> QED  BY <1>2, <1>6, <2>2, <3>1
  <2>5. m - w >= 1
    <3>1. m - w <= 0 => a * (m - w) <= 0  BY <1>2, <2>3
    <3> QED  BY <1>2, <2>1, <2>3, <2>4, <3>1
  <2>6. a * 1 <= a * (m - w)  BY <1>2, <2>3, <2>5
  <2> QED  BY <1>2, <1>5, <2>1, <2>4, <2>6
<1>8. e * t <= g * t /\ g * t = t * g  BY <1>2, <1>7
<1> QED  BY <1>8

LEMMA CeilingDivides ==
  ASSUME NEW a, NEW P, NEW m, NEW e, NEW n, NEW t, Multiplier(a, P, m, e, n, t),
         NEW x \in Nat \ {0}, x < t \/ (x = t /\ \E g \in Nat : P = t * g)
  PROVE  (-(m * x)) \div P = -(x \div a) - 1
<1> DEFINE k == x \div a  j == x % a
<1>1. a \in Nat \ {0} /\ P \in Nat \ {0} /\ m \in Nat /\ e \in Nat \ {0} /\ m * a = P + e /\ t \in Nat /\ n \in Nat
  BY DEF Multiplier
<1>2. x = a * k + j /\ k \in Nat /\ j \in Nat /\ j < a  BY <1>1, DivMod
<1>3. x < t => x <= n \/ j + 2 <= a  BY RemainderBeyond
<1>4. e * x <= P * (a - j)
  <2>1. CASE x <= t /\ (x <= n \/ j + 2 <= a)
    <3> HIDE DEF k, j
    <3>0. IsDivision(x, a, k, j)  BY <1>1, <1>2 DEF IsDivision
    <3>1. e * x < P * (a - j)  BY <1>1, <2>1, <3>0, SurplusIsSmall
    <3>2. e * x \in Nat /\ P * (a - j) \in Nat  BY <1>1, <1>2
    <3> QED  BY <3>1, <3>2
  <2>2. CASE x = t /\ ~ (j + 2 <= a)
    <3>1. j = a - 1  BY <1>1, <1>2, <2>2
    <3>2. PICK g \in Nat : P = t * g  BY <1>1, <2>2
    <3>3. e * t <= P  BY <2>2, <3>1, <3>2, SurplusAtTop
    <3>4. P * (a - j) = P  BY <1>1, <3>1
    <3> QED  BY <2>2, <3>3, <3>4
  <2> QED  BY <1>1, <1>3, <2>1, <2>2
<1> HIDE DEF k, j
<1>5. PICK r : r = m * x - P * k  OBVIOUS
<1>6. r \in Int /\ m * x \in Int /\ P * k \in Int
  <2>1. m * x \in Int /\ P * k \in Int  BY <1>1, <1>2
  <2> QED  BY <1>5, <2>1
<1>7. a * r = P * j + e * x  BY <1>1, <1>2, <1>5, Left
<1>8. P * (a - j) = a * P - P * j  BY <1>1, <1>2
<1>9. P * j \in Nat /\ e * x \in Nat /\ e * x > 0 /\ a * P \in Nat  BY <1>1, <1>2
<1>10. 0 < a * r /\ a * r <= a * P  BY <1>4, <1>7, <1>8, <1>9
<1>11. 0 < r /\ r <= P  BY <1>1, <1>6, <1>10
<1>12. P * (-k - 1) = -(P * k) - P /\ -k - 1 \in Int  BY <1>1, <1>2
<1>13. -(m * x) = P * (-k - 1) + (P - r)  BY <1>1, <1>5, <1>6, <1>12
<1>14. IsDivision(-(m * x), P, -k - 1, P - r)  BY <1>1, <1>6, <1>11, <1>12, <1>13 DEF IsDivision
<1> QED  BY <1>1, <1>14, DivUnique DEF k

-----------------------------------------------------------------------------
(* Integers of W bits.                                                      *)

LEMMA SignedKeeps == \A x \in Ints : Signed(x) = x
<1> SUFFICES ASSUME NEW x \in Ints PROVE Signed(x) = x  OBVIOUS
<1>1. /\ x \in Int /\ -Half <= x /\ x <= Half - 1
      /\ Half \in Nat /\ Half >= 4 /\ Wrap = 2 * Half /\ Wrap \in Nat \ {0}
  BY HalfType DEF Ints
<1>2. CASE x >= 0
  <2>1. IsDivision(x, Wrap, 0, x)  BY <1>1, <1>2 DEF IsDivision
  <2>2. Unsigned(x) = x  BY <1>1, <2>1, DivUnique DEF Unsigned
  <2> QED  BY <1>1, <2>2 DEF Signed
<1>3. CASE x < 0
  <2>1. IsDivision(x, Wrap, -1, x + Wrap)  BY <1>1, <1>3 DEF IsDivision
  <2>2. Unsigned(x) = x + Wrap  BY <1>1, <2>1, DivUnique DEF Unsigned
  <2> QED  BY <1>1, <2>2 DEF Signed
<1> QED  BY <1>1, <1>2, <1>3

\* The multiplier, which may need W bits and a sign, and the dividend that is added or
\* subtracted when it does.
LEMMA MagicMultiplier ==
  ASSUME NEW d \in Ints, Magnitude(d) >= 2
  PROVE  LET end == Loop(d) M == end.q2 + 1 magic == MagicNumbers(d)
         IN  /\ M \in Nat /\ M < Wrap
             /\ magic.m \in Int /\ magic.as \in Int /\ magic.s = end.p - W
             /\ magic.m + Wrap * magic.as = IF d < 0 THEN -M ELSE M
<1> DEFINE end == Loop(d)  M == end.q2 + 1  m == Signed(IF d < 0 THEN -M ELSE M)
<1>1. Half \in Nat /\ Half >= 4 /\ Wrap = 2 * Half /\ Wrap \in Nat \ {0} /\ d \in Int /\ d # 0
  BY HalfType DEF Ints, Magnitude
<1>2. M \in Nat /\ M >= 1 /\ M < Wrap
  <2>1. Turned(d, W + 1, end) /\ ~ end.more  BY LoopEnds
  <2>2. end.p \in 0 .. 2 * W  BY <2>1, WidthAssumption DEF Turned
  <2>3. Pow2[end.p] \in Nat /\ Magnitude(d) \in Nat \ {0}  BY <2>2, PowPositive, AncProperties
  <2>4. end.q2 = Pow2[end.p] \div Magnitude(d)  BY <2>1 DEF Turned
  <2>5. end.q2 \in Nat  BY <2>3, <2>4, DivMod
  <2>6. end.q2 + 1 < Wrap  BY <2>1 DEF Turned
  <2> QED  BY <2>5, <2>6
<1>3. MagicNumbers(d) = [m |-> m, s |-> end.p - W,
                         as |-> CASE d > 0 /\ m < 0 -> 1 [] d < 0 /\ m > 0 -> -1 [] OTHER -> 0]
  BY DEF MagicNumbers
<1>4. d > 0 => m = IF M < Half THEN M ELSE M - Wrap
  <2>1. IsDivision(M, Wrap, 0, M)  BY <1>1, <1>2 DEF IsDivision
  <2>2. Unsigned(M) = M  BY <1>1, <2>1, DivUnique DEF Unsigned
  <2> QED  BY <1>1, <2>2 DEF Signed
<1>5. d < 0 => m = IF Wrap - M < Half THEN Wrap - M ELSE -M
  <2>1. IsDivision(-M, Wrap, -1, Wrap - M)  BY <1>1, <1>2 DEF IsDivision
  <2>2. Unsigned(-M) = Wrap - M  BY <1>1, <2>1, DivUnique DEF Unsigned
  <2> QED  BY <1>1, <1>2, <2>2 DEF Signed
<1> DEFINE as == MagicNumbers(d).as
<1>6. MagicNumbers(d).m = m /\ MagicNumbers(d).s = end.p - W
      /\ as = CASE d > 0 /\ m < 0 -> 1 [] d < 0 /\ m > 0 -> -1 [] OTHER -> 0
  BY <1>3
<1> HIDE DEF end, M, m, as
<1>7. m \in Int  BY <1>1, <1>2, <1>4, <1>5
<1>8. as \in Int /\ m + Wrap * as = IF d < 0 THEN -M ELSE M
  <2>1. CASE d > 0 /\ m < 0
    <3>1. as = 1  BY <1>1, <1>6, <1>7, <2>1
    <3> QED  BY <1>1, <1>2, <1>4, <2>1, <3>1
  <2>2. CASE d > 0 /\ m >= 0
    <3>1. as = 0  BY <1>1, <1>6, <1>7, <2>2
    <3> QED  BY <1>1, <1>2, <1>4, <2>2, <3>1
  <2>3. CASE d < 0 /\ m > 0
    <3>1. as = -1  BY <1>1, <1>6, <1>7, <2>3
    <3> QED  BY <1>1, <1>2, <1>5, <2>3, <3>1
  <2>4. CASE d < 0 /\ m <= 0
    <3>1. as = 0  BY <1>1, <1>6, <1>7, <2>4
    <3> QED  BY <1>1, <1>2, <1>5, <2>4, <3>1
  <2>5. d > 0 \/ d < 0  BY <1>1
  <2>6. m >= 0 \/ m < 0  BY <1>7
  <2>7. m > 0 \/ m <= 0  BY <1>7
  <2> QED  BY ONLY <2>1, <2>2, <2>3, <2>4, <2>5, <2>6, <2>7
<1>9. MagicNumbers(d).m \in Int /\ MagicNumbers(d).m + Wrap * as = IF d < 0 THEN -M ELSE M
  BY <1>6, <1>7, <1>8
<1> QED  BY <1>2, <1>6, <1>8, <1>9 DEF end, M, as

\* What a kernel multiplies by is a multiplier for the divisor and the largest dividends.
LEMMA MagicDivides ==
  ASSUME NEW d \in Ints, Magnitude(d) >= 2
  PROVE  LET ad == Magnitude(d) P == Pow2[Loop(d).p]
         IN  /\ Multiplier(ad, P, Loop(d).q2 + 1, ad - (P % ad), Anc(d, ad), Top(d))
             /\ Loop(d).p - W \in 0 .. W - 1 /\ P = Wrap * Pow2[Loop(d).p - W]
             /\ \E g \in Nat : P = Half * g
<1> DEFINE ad == Magnitude(d)  n == Anc(d, ad)  end == Loop(d)  P == Pow2[end.p]
<1>1. Turned(d, W + 1, end) /\ ~ end.more  BY LoopEnds
<1>2. end.p \in W .. 2 * W - 1  BY <1>1, WidthAssumption DEF Turned
<1>3. /\ end.p \in 0 .. 2 * W /\ end.p - W \in 0 .. W - 1 /\ (end.p - W) + 1 \in 0 .. W + 1
      /\ W - 1 + ((end.p - W) + 1) = end.p /\ end.p - W \in 0 .. 2 * W - 1 /\ end.p - W \in 0 .. 2 * W
  BY <1>2, WidthAssumption
<1>4. P \in Nat \ {0}  BY <1>3, PowPositive
<1>5. P = Half * Pow2[(end.p - W) + 1] /\ Pow2[(end.p - W) + 1] = 2 * Pow2[end.p - W] /\ Pow2[end.p - W] \in Nat
  BY <1>3, PowShift, PowDoubles, PowPositive
<1>6. P = Wrap * Pow2[end.p - W] /\ \E g \in Nat : P = Half * g
  <2>1. Half \in Nat /\ Wrap = 2 * Half  BY HalfType
  <2>2. Half * (2 * Pow2[end.p - W]) = (2 * Half) * Pow2[end.p - W]  BY <1>5, <2>1
  <2>3. 2 * Pow2[end.p - W] \in Nat  BY <1>5
  <2> QED  BY <1>5, <2>1, <2>2, <2>3
<1>7. end.q2 = P \div ad /\ Enough(d, P)  BY <1>1 DEF Turned
<1>8. ad \in Nat \ {0} /\ ad # 1 /\ n \in Nat /\ Top(d) \in Nat /\ ad - 1 <= n /\ n >= 2
  BY AncProperties
<1>8a. n = ad * (Top(d) \div ad) - 1 /\ Top(d) = n + 1 + (Top(d) % ad)  BY AncProperties
<1>9. P = ad * (P \div ad) + (P % ad) /\ P \div ad \in Nat /\ P % ad \in Nat /\ P % ad < ad
  <2>1. PICK x : x = P  OBVIOUS
  <2>2. PICK a : a = ad  OBVIOUS
  <2> HIDE DEF ad, n, end, P
  <2>3. x \in Nat \ {0} /\ a \in Nat \ {0}  BY <1>4, <1>8, <2>1, <2>2
  <2>4. x = a * (x \div a) + (x % a) /\ x \div a \in Nat /\ x % a \in Nat /\ x % a < a  BY <2>3, DivMod
  <2> QED  BY <2>1, <2>2, <2>4
<1>10. Top(d) \div ad \in Nat /\ Top(d) % ad \in Nat /\ Top(d) % ad < ad  BY <1>8, DivMod
<1>11. P > n * (ad - (P % ad))  BY <1>7 DEF Enough
<1> DEFINE e == ad - (P % ad)  M == end.q2 + 1
<1> HIDE DEF ad, n, end, P
<1>12. e \in Nat \ {0} /\ e <= ad  BY <1>8, <1>9
<1>13. M \in Nat /\ M * ad = P + e
  <2>1. (P \div ad + 1) * ad = ad * (P \div ad) + ad  BY <1>8, <1>9
  <2> QED  BY <1>7, <1>8, <1>9, <2>1
<1>14. n + 1 = ad * (Top(d) \div ad)
  <2>1. ad * (Top(d) \div ad) \in Nat  BY <1>8, <1>10
  <2> QED  BY <1>8, <1>8a, <2>1
<1>15. Multiplier(ad, P, M, e, n, Top(d))
  BY <1>4, <1>8, <1>8a, <1>10, <1>11, <1>12, <1>13, <1>14 DEF Multiplier
<1> QED  BY <1>3, <1>6, <1>15 DEF ad, n, end, P

\* The quotient of a sum, of a quotient, and of a product of W bits.
LEMMA DivAdds ==
  ASSUME NEW x \in Int, NEW y \in Int, NEW a \in Nat \ {0}
  PROVE  (x + a * y) \div a = x \div a + y
<1>1. PICK q \in Int, r \in Int : x = a * q + r /\ 0 <= r /\ r < a /\ q = x \div a  BY DivMod
<1>2. x + a * y = a * (q + y) + r /\ q + y \in Int /\ x + a * y \in Int  BY <1>1
<1>3. IsDivision(x + a * y, a, q + y, r)  BY <1>1, <1>2 DEF IsDivision
<1> QED  BY <1>1, <1>3, DivUnique

LEMMA DivTwice ==
  ASSUME NEW x \in Int, NEW a \in Nat \ {0}, NEW b \in Nat \ {0}
  PROVE  (x \div a) \div b = x \div (a * b)
<1>1. PICK q \in Int, r \in Int : x = a * q + r /\ 0 <= r /\ r < a /\ q = x \div a  BY DivMod
<1>2. PICK k \in Int, j \in Int : q = b * k + j /\ 0 <= j /\ j < b /\ k = q \div b  BY DivMod
<1>3. a * b \in Nat \ {0}  OBVIOUS
<1>4. x = (a * b) * k + (a * j + r)
  <2>1. PICK h \in Int : h = b * k  BY <1>2
  <2>2. a * (h + j) = a * h + a * j  BY <1>2, <2>1
  <2>3. a * h = (a * b) * k
    <3>1. a * (b * k) = (a * b) * k  BY <1>2
    <3> QED  BY <2>1, <3>1
  <2>4. a * h \in Int /\ a * j \in Int  BY <1>2, <2>1
  <2>5. a * q = a * h + a * j  BY <1>2, <2>1, <2>2
  <2>6. x = (a * h + a * j) + r  BY <1>1, <2>5
  <2> QED  BY <1>1, <2>3, <2>4, <2>6
<1>5. a * j + r \in Int /\ 0 <= a * j + r /\ a * j + r < a * b
  <2>1. a * j \in Nat /\ a * b \in Nat /\ a * (j + 1) = a * j + a  BY <1>2
  <2>2. a * (j + 1) <= a * b  BY <1>2
  <2> QED  BY <1>1, <2>1, <2>2
<1>6. IsDivision(x, a * b, k, a * j + r)  BY <1>2, <1>4, <1>5 DEF IsDivision
<1> QED  BY <1>1, <1>2, <1>3, <1>6, DivUnique

LEMMA HighHalfFits ==
  ASSUME NEW M \in Nat, M < Wrap, NEW x \in Nat, x <= Half
  PROVE  (M * x) \div Wrap \in Ints /\ (-(M * x)) \div Wrap \in Ints
<1>1. Half \in Nat /\ Half >= 4 /\ Wrap = 2 * Half /\ Wrap \in Nat \ {0}  BY HalfType
<1>2. M * x \in Nat /\ M * x <= Wrap * Half - Half /\ Wrap * Half \in Nat
  <2>1. M <= Wrap - 1  BY <1>1
  <2>2. M * x <= (Wrap - 1) * x /\ (Wrap - 1) * x <= (Wrap - 1) * Half /\ M * x \in Nat /\ (Wrap - 1) * x \in Nat
    BY <1>1, <2>1
  <2>3. (Wrap - 1) * Half = Wrap * Half - Half /\ Wrap * Half \in Nat  BY <1>1
  <2> QED  BY <1>1, <2>2, <2>3
<1>3. ASSUME NEW y \in Int, -(Wrap * Half) <= y, y < Wrap * Half  PROVE y \div Wrap \in Ints
  <2>1. PICK q \in Int, r \in Int : y = Wrap * q + r /\ 0 <= r /\ r < Wrap /\ q = y \div Wrap
    BY <1>1, DivMod
  <2>2. Wrap * q < Wrap * Half /\ Wrap * (-Half - 1) < Wrap * q
    <3>1. Wrap * q \in Int /\ Wrap * (-Half - 1) = -(Wrap * Half) - Wrap  BY <1>1, <2>1
    <3> QED  BY <1>1, <1>2, <1>3, <2>1, <3>1
  <2>3. q < Half /\ -Half - 1 < q  BY <1>1, <2>1, <2>2
  <2> QED  BY <1>1, <2>1, <2>3 DEF Ints
<1>4. PICK y \in Nat : y = M * x  BY <1>2
<1>5. y \div Wrap \in Ints
  <2>1. y \in Int /\ -(Wrap * Half) <= y /\ y < Wrap * Half  BY <1>1, <1>2, <1>4
  <2> QED  BY <1>3, <2>1
<1>6. (-y) \div Wrap \in Ints
  <2>1. -y \in Int /\ -(Wrap * Half) <= -y /\ -y < Wrap * Half  BY <1>1, <1>2, <1>4
  <2> QED  BY <1>3, <2>1
<1> QED  BY <1>4, <1>5, <1>6

-----------------------------------------------------------------------------
(* The division.                                                            *)

LEMMA DividesByMore ==
  ASSUME NEW d \in Ints, Magnitude(d) >= 2, NEW n \in Ints
  PROVE  /\ FastDiv(n, MagicNumbers(d)) = Truncated(n, d)
         /\ Magnitude(n) \div Magnitude(d) \in 0 .. Half - 1
<1> DEFINE ad == Magnitude(d)  x == Magnitude(n)  end == Loop(d)  M == end.q2 + 1
           magic == MagicNumbers(d)  P == Pow2[end.p]  g == Pow2[end.p - W]  k == x \div ad
           high == IF (n < 0) = (d < 0) THEN M * x ELSE -(M * x)
<1>1. /\ Half \in Nat /\ Half >= 4 /\ Wrap = 2 * Half /\ Wrap \in Nat \ {0} /\ d \in Int /\ n \in Int
      /\ d # 0 /\ -Half <= n /\ n < Half
  BY HalfType DEF Ints, Magnitude
<1>2. x \in Nat /\ x <= Half /\ (n >= 0 => x < Half) /\ (n # 0 => x # 0) /\ ad \in Nat \ {0} /\ ad >= 2
      /\ x = (IF n < 0 THEN -n ELSE n)
  BY <1>1 DEF Magnitude
<1>3. M \in Nat /\ M < Wrap /\ magic.m \in Int /\ magic.as \in Int /\ magic.s = end.p - W
      /\ magic.m + Wrap * magic.as = IF d < 0 THEN -M ELSE M
  BY MagicMultiplier
<1>4. /\ Multiplier(ad, P, M, ad - (P % ad), Anc(d, ad), Top(d))
      /\ end.p - W \in 0 .. W - 1 /\ P = Wrap * g /\ \E h \in Nat : P = Half * h
  BY MagicDivides
<1>5. g \in Nat \ {0} /\ magic.s \in Nat /\ P \in Nat \ {0}
  <2>1. end.p - W \in 0 .. 2 * W  BY <1>4, WidthAssumption
  <2> QED  BY <1>1, <1>3, <1>4, <2>1, PowPositive, WidthAssumption
<1>6. Top(d) = IF d < 0 THEN Half + 1 ELSE Half  BY <1>1 DEF Top
<1> HIDE DEF ad, x, end, M, magic, P, g, k
<1>7. k \in 0 .. Half - 1
  <2>1. x \in Nat /\ ad \in Nat \ {0}  BY <1>2
  <2>2. PICK q \in Nat, j \in Nat : q = x \div ad /\ x = ad * q + j  BY <2>1, NatDivMod
  <2>3. q = k  BY <2>2 DEF k
  <2>4. 2 * q <= ad * q /\ ad * q \in Int  BY <1>2, <2>2
  <2> QED  BY <1>1, <1>2, <2>2, <2>3, <2>4
<1>8. MulHigh(magic.m, n) + n * magic.as = high \div Wrap
  <2>1. PICK m \in Int, as \in Int : m = magic.m /\ as = magic.as  BY <1>3
  <2>2. (m * n + Wrap * (n * as)) \div Wrap = (m * n) \div Wrap + n * as
    <3>1. m * n \in Int /\ n * as \in Int  BY <1>1, <2>1
    <3> QED  BY <1>1, <3>1, DivAdds
  <2>3. m * n + Wrap * (n * as) = (m + Wrap * as) * n  BY <1>1, <2>1
  <2>4. (m + Wrap * as) * n = high  BY <1>1, <1>2, <1>3, <2>1
  <2> QED  BY <2>1, <2>2, <2>3, <2>4 DEF MulHigh
<1>9. high \in Int /\ high \div Wrap \in Ints  BY <1>2, <1>3, HighHalfFits
<1>10. Signed(MulHigh(magic.m, n) + n * magic.as) \div Pow2[magic.s] = high \div P
  <2>1. (high \div Wrap) \div g = high \div (Wrap * g)  BY <1>1, <1>5, <1>9, DivTwice
  <2> QED  BY <1>3, <1>4, <1>8, <1>9, <2>1, SignedKeeps DEF g
<1> DEFINE r == high \div P
<1>11. FastDiv(n, magic) = Signed(r + (IF r < 0 THEN 1 ELSE 0))
  BY <1>5, <1>10 DEF FastDiv
<1>12. CASE (n < 0) = (d < 0)
  <2>1. x < Top(d)  BY <1>1, <1>2, <1>6, <1>12
  <2>2. (M * x) \div P = k  BY <1>2, <1>4, <2>1, FloorDivides DEF k
  <2>3. r + (IF r < 0 THEN 1 ELSE 0) = k  BY <1>7, <1>12, <2>2
  <2>4. k \in Ints  BY <1>1, <1>7 DEF Ints
  <2>5. Truncated(n, d) = k  BY <1>12 DEF Truncated, k, x, ad
  <2> QED  BY <1>7, <1>11, <2>3, <2>4, <2>5, SignedKeeps DEF magic, k, x, ad
<1>13. CASE (n < 0) # (d < 0) /\ n # 0
  <2>1. x < Top(d) \/ (x = Top(d) /\ \E h \in Nat : P = Top(d) * h)  BY <1>1, <1>2, <1>4, <1>6
  <2>2. x \in Nat \ {0}  BY <1>2, <1>13
  <2>3. (-(M * x)) \div P = -k - 1  BY <1>4, <2>1, <2>2, CeilingDivides DEF k
  <2>4. r + (IF r < 0 THEN 1 ELSE 0) = -k  BY <1>7, <1>13, <2>3
  <2>5. -k \in Ints  BY <1>1, <1>7 DEF Ints
  <2>6. Truncated(n, d) = -k  BY <1>13 DEF Truncated, k, x, ad
  <2> QED  BY <1>7, <1>11, <2>4, <2>5, <2>6, SignedKeeps DEF magic, k, x, ad
<1>14. CASE (n < 0) # (d < 0) /\ n = 0
  <2>1. x = 0 /\ high = 0  BY <1>2, <1>3, <1>14
  <2>2. r = 0 /\ k = 0
    <3>1. IsDivision(0, P, 0, 0) /\ IsDivision(0, ad, 0, 0)  BY <1>2, <1>5 DEF IsDivision
    <3> QED  BY <1>2, <1>5, <2>1, <3>1, DivUnique DEF k
  <2>3. 0 \in Ints  BY <1>1 DEF Ints
  <2>4. Truncated(n, d) = 0  BY <1>14, <2>2 DEF Truncated, k, x, ad
  <2> QED  BY <1>7, <1>11, <2>2, <2>3, <2>4, SignedKeeps DEF magic, k, x, ad
<1> QED  BY <1>12, <1>13, <1>14

LEMMA Negated ==
  ASSUME NEW x \in Int, NEW y \in Int
  PROVE  (-x) * y = -(x * y) /\ x * (-y) = -(x * y) /\ x * y \in Int
OBVIOUS

LEMMA RemainderByMore ==
  ASSUME NEW d \in Ints, Magnitude(d) >= 2, NEW n \in Ints
  PROVE  FastMod(n, d, MagicNumbers(d)) = n - d * Truncated(n, d)
<1>1. Half \in Nat /\ Half >= 4 /\ d \in Int /\ n \in Int /\ d # 0 /\ -Half <= d /\ d < Half
  BY HalfType DEF Ints, Magnitude
<1>2. PICK ad \in Nat \ {0}, x \in Nat :
        ad = Magnitude(d) /\ x = Magnitude(n) /\ ad <= Half /\ ad = (IF d < 0 THEN -d ELSE d)
        /\ x = (IF n < 0 THEN -n ELSE n)
  BY <1>1 DEF Magnitude
<1>3. PICK k \in Nat, j \in Nat : k = x \div ad /\ j < ad /\ x = ad * k + j  BY NatDivMod
<1>4. PICK t \in Int : t = Truncated(n, d) /\ t = IF (n < 0) = (d < 0) THEN k ELSE -k
  BY <1>2, <1>3 DEF Truncated
<1>5. n - d * t = IF n < 0 THEN -j ELSE j
  <2>1. (-d) * k = -(d * k) /\ d * (-k) = -(d * k) /\ d * k \in Int  BY <1>1, Negated
  <2>2. CASE n < 0 /\ d < 0
    <3>1. t = k /\ ad = -d /\ n = -x  BY <1>1, <1>2, <1>4, <2>2
    <3>2. x = -(d * k) + j /\ d * t = d * k  BY <1>3, <2>1, <3>1
    <3> QED  BY <1>1, <1>3, <2>1, <2>2, <3>1, <3>2
  <2>3. CASE n < 0 /\ d >= 0
    <3>1. t = -k /\ ad = d /\ n = -x  BY <1>1, <1>2, <1>4, <2>3
    <3>2. x = d * k + j /\ d * t = -(d * k)  BY <1>3, <2>1, <3>1
    <3> QED  BY <1>1, <1>3, <2>1, <2>3, <3>1, <3>2
  <2>4. CASE n >= 0 /\ d < 0
    <3>1. t = -k /\ ad = -d /\ n = x  BY <1>1, <1>2, <1>4, <2>4
    <3>2. x = -(d * k) + j /\ d * t = -(d * k)  BY <1>3, <2>1, <3>1
    <3> QED  BY <1>1, <1>3, <2>1, <2>4, <3>1, <3>2
  <2>5. CASE n >= 0 /\ d >= 0
    <3>1. t = k /\ ad = d /\ n = x  BY <1>1, <1>2, <1>4, <2>5
    <3>2. x = d * k + j /\ d * t = d * k  BY <1>3, <2>1, <3>1
    <3> QED  BY <1>1, <1>3, <2>1, <2>5, <3>1, <3>2
  <2> QED  BY <1>1, <2>2, <2>3, <2>4, <2>5
<1>6. n - d * t \in Ints  BY <1>1, <1>2, <1>3, <1>5 DEF Ints
<1>7. FastDiv(n, MagicNumbers(d)) * d = d * t
  <2>1. FastDiv(n, MagicNumbers(d)) = t  BY <1>4, DividesByMore
  <2>2. t * d = d * t  BY <1>1
  <2> QED  BY <2>1, <2>2
<1>8. Signed(n - d * t) = n - d * t  BY <1>6, SignedKeeps
<1> QED  BY <1>4, <1>7, <1>8 DEF FastMod

\* The divisors 1 and -1 need no multiplier.
LEMMA DividesByOne ==
  ASSUME NEW d \in {1, -1}, NEW n \in Ints, ~ (n = -Half /\ d = -1)
  PROVE  /\ FastDiv(n, MagicNumbers(d)) = Truncated(n, d)
         /\ FastMod(n, d, MagicNumbers(d)) = n - d * Truncated(n, d)
<1>1. Half \in Nat /\ Half >= 4 /\ Wrap \in Nat \ {0} /\ n \in Int /\ -Half <= n /\ n < Half
  BY HalfType DEF Ints
<1>2. n * d \in Ints  BY <1>1 DEF Ints
<1>3. MagicNumbers(d) = [m |-> 0, s |-> -1, as |-> d]  BY DEF MagicNumbers, Magnitude
<1>4. MulHigh(0, n) = 0
  <2>1. IsDivision(0, Wrap, 0, 0)  BY <1>1 DEF IsDivision
  <2>2. 0 * n = 0  BY <1>1
  <2> QED  BY <1>1, <2>1, <2>2, DivUnique DEF MulHigh
<1>5. FastDiv(n, MagicNumbers(d)) = n * d
  <2>1. 0 + n * d = n * d  BY <1>1
  <2>2. FastDiv(n, MagicNumbers(d)) = Signed(0 + n * d)  BY <1>3, <1>4 DEF FastDiv
  <2> QED  BY <1>2, <2>1, <2>2, SignedKeeps
<1>6. Truncated(n, d) = n * d
  <2>1. IsDivision(Magnitude(n), 1, Magnitude(n), 0)  BY <1>1 DEF IsDivision, Magnitude
  <2>2. Magnitude(n) \div 1 = Magnitude(n)  BY <2>1, DivUnique
  <2> QED  BY <1>1, <2>2 DEF Truncated, Magnitude
<1>7. FastMod(n, d, MagicNumbers(d)) = 0
  <2>1. n - n * d * d = 0 /\ 0 \in Ints  BY <1>1 DEF Ints
  <2> QED  BY <1>5, <2>1, SignedKeeps DEF FastMod
<1>8. n - d * (n * d) = 0  BY <1>1
<1> QED  BY <1>5, <1>6, <1>7, <1>8

\* For integers of every width from 3 bits, and the code's are of 32, and for every divisor:
\* the loop of calculate_magic_numbers ends, and with the numbers it leaves fastintdiv and
\* fastintmod give C's quotient and remainder of every dividend.
THEOREM EveryDivisionIsExact == divisor \in Ints => DividesExactly
<1> SUFFICES ASSUME divisor \in Ints, divisor # 0 PROVE DividesExactly  BY DEF DividesExactly
<1>1. Half \in Nat /\ divisor \in Int  BY HalfType DEF Ints
<1>2. Magnitude(divisor) # 1 => Magnitude(divisor) >= 2  BY <1>1 DEF Magnitude
<1>3. Magnitude(divisor) = 1 => divisor \in {1, -1}  BY <1>1 DEF Magnitude
<1>4. CASE Magnitude(divisor) # 1
  <2>1. ~ Loop(divisor).more  BY <1>2, <1>4, LoopEnds
  <2> QED  BY <1>2, <1>4, <2>1, DividesByMore, RemainderByMore DEF DividesExactly
<1>5. CASE Magnitude(divisor) = 1
  BY <1>3, <1>5, DividesByOne DEF DividesExactly
<1> QED  BY <1>4, <1>5

-----------------------------------------------------------------------------
(* Layouts: the folds they are calculated with.                             *)

\* Two folds that meet the same elements have the same stages.
LEMMA StagesAgree ==
  ASSUME NEW kind, NEW b, NEW q, NEW r, NEW n \in Nat, NEW F, NEW G,
         Stages(kind, b, q, n, F), Stages(kind, b, r, n, G),
         \A k \in 1 .. n : q[k] = r[k]
  PROVE  \A k \in 0 .. n : F[k] = G[k]
<1> DEFINE T == {k \in 0 .. n : F[k] # G[k]}
<1>1. SUFFICES ASSUME T # {} PROVE FALSE  OBVIOUS
<1>2. PICK k \in T : \A y \in T : k <= y
  <2>1. T \in SUBSET Nat  OBVIOUS
  <2> HIDE DEF T
  <2> QED  BY <1>1, <2>1, LeastOf
<1>3. k # 0  BY <1>2 DEF Stages
<1>4. k \in 1 .. n /\ k - 1 \in 0 .. n /\ ~ (k <= k - 1)  BY <1>2, <1>3
<1>5. F[k - 1] = G[k - 1]  BY <1>2, <1>4
<1>6. Applied(kind, q, k, F[k - 1]) = Applied(kind, r, k, G[k - 1])  BY <1>4, <1>5 DEF Applied
<1> QED  BY <1>2, <1>4, <1>6 DEF Stages

\* Modes, and layouts of them.
AnyMode == [size : Nat \ {0}, stride : Nat]
Layouts == Seq(AnyMode)

\* The recursive functions of the folds.
SizeOf(q) == CHOOSE g : g = [s \in SUBSET DOMAIN q |->
  IF s = {} THEN 1 ELSE Multiply(g[s \ {Max(s)}], q[Max(s)])]

MergedOf(q) == CHOOSE g : g = [s \in SUBSET DOMAIN q |->
  IF s = {} THEN <<>> ELSE Merge(g[s \ {Max(s)}], q[Max(s)])]

OffsetOf(a, i) == CHOOSE g : g = [s \in SUBSET DOMAIN [k \in DOMAIN a |-> k] |->
  IF s = {} THEN 0
  ELSE g[s \ {Max(s)}]
       + Coordinate(a, i, [k \in DOMAIN a |-> k][Max(s)]) * a[[k \in DOMAIN a |-> k][Max(s)]].stride]

LEMMA SizeStages ==
  ASSUME NEW q \in Seq(AnyMode)
  PROVE  \E F : Stages("multiply", 1, q, Len(q), F) /\ Size(q) = F[Len(q)]
<1>1. DOMAIN q = 1 .. Len(q) /\ Len(q) \in Nat  OBVIOUS
<1>2. Size(q) = SizeOf(q)[DOMAIN q]  BY DEF Size, FoldLeft, MapThenFoldSet, SizeOf
<1> DEFINE Step(g, s) == IF s = {} THEN 1 ELSE Multiply(g[s \ {Max(s)}], q[Max(s)])
<1>3. SizeOf(q) = CHOOSE g : g = [s \in SUBSET DOMAIN q |-> Step(g, s)]  BY DEF SizeOf
<1>4. \A g, s : Unfold("multiply", 1, q, g, s) = Step(g, s)  BY DEF Unfold, Applied, Taken
<1> HIDE DEF Step
<1>5. PICK g : Folds("multiply", 1, q, 1 .. Len(q), g)  BY <1>1, StagesExist
<1>6. g = [s \in SUBSET DOMAIN q |-> Step(g, s)]  BY <1>1, <1>4, <1>5 DEF Folds
<1>7. SizeOf(q) = [s \in SUBSET DOMAIN q |-> Step(SizeOf(q), s)]  BY <1>3, <1>6
<1>8. Folds("multiply", 1, q, 1 .. Len(q), SizeOf(q))  BY <1>1, <1>4, <1>7 DEF Folds
<1> QED  BY <1>1, <1>2, <1>8, FoldStages

LEMMA MergeStages ==
  ASSUME NEW q \in Seq(AnyMode)
  PROVE  \E F : Stages("merge", <<>>, q, Len(q), F) /\ FoldLeft(Merge, <<>>, q) = F[Len(q)]
<1>1. DOMAIN q = 1 .. Len(q) /\ Len(q) \in Nat  OBVIOUS
<1>2. FoldLeft(Merge, <<>>, q) = MergedOf(q)[DOMAIN q]  BY DEF FoldLeft, MapThenFoldSet, MergedOf
<1> DEFINE Step(g, s) == IF s = {} THEN <<>> ELSE Merge(g[s \ {Max(s)}], q[Max(s)])
<1>3. MergedOf(q) = CHOOSE g : g = [s \in SUBSET DOMAIN q |-> Step(g, s)]  BY DEF MergedOf
<1>4. \A g, s : Unfold("merge", <<>>, q, g, s) = Step(g, s)  BY DEF Unfold, Applied, Taken
<1> HIDE DEF Step
<1>5. PICK g : Folds("merge", <<>>, q, 1 .. Len(q), g)  BY <1>1, StagesExist
<1>6. g = [s \in SUBSET DOMAIN q |-> Step(g, s)]  BY <1>1, <1>4, <1>5 DEF Folds
<1>7. MergedOf(q) = [s \in SUBSET DOMAIN q |-> Step(MergedOf(q), s)]  BY <1>3, <1>6
<1>8. Folds("merge", <<>>, q, 1 .. Len(q), MergedOf(q))  BY <1>1, <1>4, <1>7 DEF Folds
<1> QED  BY <1>1, <1>2, <1>8, FoldStages

\* What each mode adds to an offset.
Shares(a, i) == [k \in DOMAIN a |-> Coordinate(a, i, k) * a[k].stride]

LEMMA OffsetStages ==
  ASSUME NEW a \in Seq(AnyMode), NEW i \in Nat
  PROVE  \E F : Stages("add", 0, Shares(a, i), Len(a), F) /\ Offset(a, i) = F[Len(a)]
<1> DEFINE q == Shares(a, i)  ks == [k \in DOMAIN a |-> k]
<1>1. DOMAIN a = 1 .. Len(a) /\ Len(a) \in Nat /\ DOMAIN ks = 1 .. Len(a)  OBVIOUS
<1>2. Offset(a, i) = OffsetOf(a, i)[DOMAIN ks]  BY DEF Offset, FoldLeft, MapThenFoldSet, OffsetOf
<1> DEFINE Step(g, s) == IF s = {} THEN 0
                         ELSE g[s \ {Max(s)}] + Coordinate(a, i, ks[Max(s)]) * a[ks[Max(s)]].stride
<1>3. OffsetOf(a, i) = CHOOSE g : g = [s \in SUBSET DOMAIN ks |-> Step(g, s)]  BY DEF OffsetOf
<1>4. ASSUME NEW g, NEW s \in SUBSET DOMAIN ks PROVE Unfold("add", 0, q, g, s) = Step(g, s)
  <2>1. CASE s = {}  BY <2>1 DEF Unfold
  <2>2. CASE s # {}
    <3>1. Max(s) \in DOMAIN a  BY <1>1, <2>2, MaxIsTheGreatest
    <3>2. ks[Max(s)] = Max(s) /\ q[Max(s)] = Coordinate(a, i, Max(s)) * a[Max(s)].stride
      BY <3>1 DEF Shares
    <3> HIDE DEF q, ks
    <3>3. Unfold("add", 0, q, g, s) = g[s \ {Max(s)}] + q[Max(s)]  BY <2>2 DEF Unfold, Applied, Taken
    <3> QED  BY <2>2, <3>2, <3>3
  <2> QED  BY <2>1, <2>2
<1> HIDE DEF Step, q
<1>5. PICK g : Folds("add", 0, q, 1 .. Len(a), g)  BY <1>1, StagesExist
<1>6. g = [s \in SUBSET DOMAIN ks |-> Step(g, s)]  BY <1>1, <1>4, <1>5 DEF Folds
<1> HIDE DEF ks
<1>7. OffsetOf(a, i) = [s \in SUBSET DOMAIN ks |-> Step(OffsetOf(a, i), s)]  BY <1>3, <1>6
<1>8. Folds("add", 0, q, 1 .. Len(a), OffsetOf(a, i))  BY <1>1, <1>4, <1>7 DEF Folds
<1> QED  BY <1>1, <1>2, <1>8, FoldStages DEF q

-----------------------------------------------------------------------------
(* Layouts: coalesce.                                                       *)

LEMMA AppendAt ==
  ASSUME NEW a \in Layouts, NEW m \in AnyMode
  PROVE  /\ Append(a, m) \in Layouts /\ Len(Append(a, m)) = Len(a) + 1 /\ Len(a) \in Nat
         /\ \A k \in 1 .. Len(a) : Append(a, m)[k] = a[k]
         /\ Append(a, m)[Len(a) + 1] = m
BY DEF Layouts

LEMMA PrefixOf ==
  ASSUME NEW S, NEW q \in Seq(S), NEW n \in 0 .. Len(q)
  PROVE  /\ SubSeq(q, 1, n) \in Seq(S) /\ Len(SubSeq(q, 1, n)) = n
         /\ \A k \in 1 .. n : SubSeq(q, 1, n)[k] = q[k]
<1>1. 1 \in 1 .. Len(q) + 1 /\ n \in 0 .. Len(q) /\ n \in Nat /\ (1 <= n \/ n = 0) /\ n - 1 + 1 = n
      /\ \A k \in 1 .. n : 1 + k - 1 = k /\ q[k] \in S
  OBVIOUS
<1>2. SubSeq(q, 1, n) \in Seq(S)  BY <1>1
<1>3. Len(SubSeq(q, 1, n)) = IF 1 <= n THEN n - 1 + 1 ELSE 0  BY <1>1, SubSeqProperties
<1>4. \A k \in 1 .. n : SubSeq(q, 1, n)[k] = q[k]  BY <1>1
<1> QED  BY <1>1, <1>2, <1>3, <1>4

LEMMA PrefixAppend ==
  ASSUME NEW S, NEW a \in Seq(S), NEW n \in 1 .. Len(a)
  PROVE  SubSeq(a, 1, n) = Append(SubSeq(a, 1, n - 1), a[n])
<1>1. a \in Seq(S) /\ Len(a) \in Nat  OBVIOUS
<1>2. n \in 1 .. Len(a) /\ n - 1 \in 0 .. Len(a) /\ n \in 0 .. Len(a) /\ n \in Nat  BY <1>1
<1> DEFINE p == SubSeq(a, 1, n - 1)  m == a[n]
<1>3. SubSeq(a, 1, n) \in Seq(S) /\ Len(SubSeq(a, 1, n)) = n
      /\ \A k \in 1 .. n : SubSeq(a, 1, n)[k] = a[k]
  BY <1>1, <1>2, PrefixOf
<1>4. p \in Seq(S) /\ Len(p) = n - 1 /\ \A k \in 1 .. n - 1 : p[k] = a[k]  BY <1>1, <1>2, PrefixOf
<1>5. m \in S  BY <1>1, <1>2
<1> HIDE DEF p, m
<1>6. Append(p, m) \in Seq(S) /\ Len(Append(p, m)) = n
      /\ \A k \in 1 .. n : Append(p, m)[k] = IF k = n THEN m ELSE a[k]
  BY <1>2, <1>4, <1>5
<1>7. \A k \in 1 .. n : SubSeq(a, 1, n)[k] = Append(p, m)[k]  BY <1>3, <1>6 DEF m
<1>8. SubSeq(a, 1, n) = Append(p, m)  BY <1>3, <1>6, <1>7
<1> QED  BY <1>8 DEF p, m

LEMMA EmptySize == Size(<<>>) = 1
<1>1. <<>> \in Seq(AnyMode) /\ Len(<<>>) = 0  OBVIOUS
<1> QED  BY <1>1, SizeStages DEF Stages

LEMMA SizeAppend ==
  ASSUME NEW a \in Layouts, NEW m \in AnyMode
  PROVE  Size(Append(a, m)) = Size(a) * m.size
<1> DEFINE b == Append(a, m)  n == Len(a)
<1>1. /\ b \in Seq(AnyMode) /\ Len(b) = n + 1 /\ n \in Nat /\ b[n + 1] = m
      /\ \A k \in 1 .. n : a[k] = b[k]
  BY AppendAt DEF Layouts
<1>2. PICK F : Stages("multiply", 1, a, n, F) /\ Size(a) = F[n]  BY SizeStages DEF Layouts
<1>3. PICK G : Stages("multiply", 1, b, n + 1, G) /\ Size(b) = G[n + 1]  BY <1>1, SizeStages
<1> HIDE DEF b, n
<1>4. Stages("multiply", 1, b, n, G)  BY <1>1, <1>3 DEF Stages
<1>5. F[n] = G[n]
  <2>1. n \in Nat /\ \A k \in 1 .. n : a[k] = b[k]  BY <1>1
  <2>2. Stages("multiply", 1, a, n, F)  BY <1>2
  <2>3. \A k \in 0 .. n : F[k] = G[k]  BY <1>4, <2>1, <2>2, StagesAgree
  <2> QED  BY <2>1, <2>3
<1>6. G[n + 1] = Multiply(G[n], m)
  <2>1. n + 1 \in 1 .. n + 1 /\ (n + 1) - 1 = n  BY <1>1
  <2>2. G[n + 1] = Applied("multiply", b, n + 1, G[(n + 1) - 1])  BY <1>3, <2>1 DEF Stages
  <2> QED  BY <1>1, <2>1, <2>2 DEF Applied
<1> QED  BY <1>2, <1>3, <1>5, <1>6 DEF Multiply, b

\* A layout is empty, or one more mode than a layout.
LEMMA LastMode ==
  ASSUME NEW a \in Layouts, a # <<>>
  PROVE  /\ Front(a) \in Layouts /\ Last(a) \in AnyMode /\ a = Append(Front(a), Last(a))
         /\ Len(Front(a)) = Len(a) - 1 /\ Last(a) = a[Len(a)] /\ Len(a) \in Nat \ {0}
         /\ \A k \in 1 .. Len(a) - 1 : Front(a)[k] = a[k]
<1>1. Len(a) \in Nat \ {0} /\ Front(a) = SubSeq(a, 1, Len(a) - 1) /\ Last(a) = a[Len(a)]
  BY DEF Layouts, Front, Last
<1>2. Front(a) \in Layouts /\ Last(a) \in AnyMode /\ Len(Front(a)) = Len(a) - 1
      /\ \A k \in 1 .. Len(a) - 1 : Front(a)[k] = a[k]
  <2>1. a \in Seq(AnyMode) /\ 1 \in 1 .. Len(a) + 1 /\ Len(a) - 1 \in 0 .. Len(a)
        /\ Len(a) \in 1 .. Len(a) /\ Len(a) - 1 \in Nat
    BY <1>1 DEF Layouts
  <2>2. a[Len(a)] \in AnyMode  BY <2>1
  <2>3. \A k \in 1 .. Len(a) - 1 : a[k] \in AnyMode  BY <2>1
  <2>4. SubSeq(a, 1, Len(a) - 1) \in Seq(AnyMode)  BY <2>1, <2>3
  <2>5. PICK n \in 0 .. Len(a) : n = Len(a) - 1  BY <2>1
  <2>6. Len(SubSeq(a, 1, n)) = n /\ \A k \in 1 .. n : SubSeq(a, 1, n)[k] = a[k]  BY <2>1, PrefixOf
  <2> QED  BY <1>1, <2>2, <2>4, <2>5, <2>6 DEF Layouts
<1>3. a = Append(Front(a), Last(a))
  <2>1. Len(Append(Front(a), Last(a))) = Len(a)  BY <1>1, <1>2 DEF Layouts
  <2>2. \A k \in 1 .. Len(a) : Append(Front(a), Last(a))[k] = a[k]  BY <1>1, <1>2 DEF Layouts
  <2> QED  BY <1>1, <1>2, <2>1, <2>2 DEF Layouts
<1> QED  BY <1>1, <1>2, <1>3

\* So what holds of the empty layout, and of one more mode than in a layout it holds of,
\* holds of all layouts.
LEMMA AllLayouts ==
  ASSUME NEW T \in SUBSET Layouts, <<>> \in T, \A x \in T, m \in AnyMode : Append(x, m) \in T
  PROVE  \A a \in Layouts : a \in T
<1> DEFINE Bad == {n \in Nat : \E a \in Layouts \ T : Len(a) = n}
<1>1. Bad = {}
  <2>1. SUFFICES ASSUME Bad # {} PROVE FALSE  OBVIOUS
  <2>2. PICK n \in Bad : \A k \in Bad : n <= k
    <3>1. Bad \in SUBSET Nat  OBVIOUS
    <3> HIDE DEF Bad
    <3> QED  BY <2>1, <3>1, LeastOf
  <2>3. PICK a \in Layouts \ T : Len(a) = n  BY <2>2
  <2>4. Front(a) \in Layouts /\ Last(a) \in AnyMode /\ a = Append(Front(a), Last(a))
        /\ Len(Front(a)) = n - 1 /\ n \in Nat \ {0}
    <3>1. a # <<>>  BY <2>3
    <3> QED  BY <2>3, <3>1, LastMode
  <2>5. n - 1 \in Nat /\ ~ (n <= n - 1)  BY <2>4
  <2>6. Front(a) \in T  BY <2>2, <2>4, <2>5
  <2> QED  BY <2>3, <2>4, <2>6
<1> SUFFICES ASSUME NEW a \in Layouts PROVE a \in T  OBVIOUS
<1>2. Len(a) \in Nat  BY DEF Layouts
<1> QED  BY <1>1, <1>2

LEMMA SizePositive == \A a \in Layouts : Size(a) \in Nat \ {0}
<1> DEFINE T == {a \in Layouts : Size(a) \in Nat \ {0}}
<1>1. T \in SUBSET Layouts /\ <<>> \in T  BY EmptySize DEF Layouts
<1>2. ASSUME NEW a \in T, NEW m \in AnyMode PROVE Append(a, m) \in T
  <2>1. Size(Append(a, m)) = Size(a) * m.size /\ m.size \in Nat \ {0} /\ Append(a, m) \in Layouts
    BY SizeAppend, AppendAt DEF AnyMode
  <2> QED  BY <2>1
<1> HIDE DEF T
<1>3. \A a \in Layouts : a \in T  BY <1>1, <1>2, AllLayouts
<1> QED  BY <1>3 DEF T

\* The offset of any index: every coordinate is bounded, and no index too large.
Parts(a, i) == [k \in 1 .. Len(a) |-> ((i \div Before(a, k)) % a[k].size) * a[k].stride]
IsWhole(a, i, x) == \E F : Stages("add", 0, Parts(a, i), Len(a), F) /\ x = F[Len(a)]
Whole(a, i) == CHOOSE x : IsWhole(a, i, x)

LEMMA WholeUnique ==
  ASSUME NEW a \in Layouts, NEW i, NEW x, IsWhole(a, i, x)
  PROVE  Whole(a, i) = x
<1>1. IsWhole(a, i, Whole(a, i))  BY DEF Whole
<1>2. PICK F : Stages("add", 0, Parts(a, i), Len(a), F) /\ x = F[Len(a)]  BY DEF IsWhole
<1>3. PICK G : Stages("add", 0, Parts(a, i), Len(a), G) /\ Whole(a, i) = G[Len(a)]
  BY <1>1 DEF IsWhole
<1>4. Len(a) \in Nat /\ Len(a) \in 0 .. Len(a)  BY DEF Layouts
<1>5. \A k \in 0 .. Len(a) : F[k] = G[k]  BY <1>2, <1>3, <1>4, StagesAgree
<1> QED  BY <1>2, <1>3, <1>4, <1>5

LEMMA WholeExists ==
  ASSUME NEW a \in Layouts, NEW i
  PROVE  \E F : Stages("add", 0, Parts(a, i), Len(a), F) /\ Whole(a, i) = F[Len(a)]
<1>1. Len(a) \in Nat  BY DEF Layouts
<1>2. PICK g : Folds("add", 0, Parts(a, i), 1 .. Len(a), g)  BY <1>1, StagesExist
<1>3. PICK F : Stages("add", 0, Parts(a, i), Len(a), F)  BY <1>1, <1>2, FoldStages
<1>4. IsWhole(a, i, F[Len(a)])  BY <1>3 DEF IsWhole
<1> QED  BY <1>3, <1>4, WholeUnique

LEMMA BeforeAppend ==
  ASSUME NEW a \in Layouts, NEW m \in AnyMode
  PROVE  /\ \A k \in 1 .. Len(a) : Before(Append(a, m), k) = Before(a, k)
         /\ Before(Append(a, m), Len(a) + 1) = Size(a)
<1> DEFINE b == Append(a, m)
<1>1. /\ b \in Seq(AnyMode) /\ Len(b) = Len(a) + 1 /\ Len(a) \in Nat /\ a \in Seq(AnyMode)
      /\ \A k \in 1 .. Len(a) : b[k] = a[k]
  BY AppendAt DEF Layouts
<1> HIDE DEF b
<1>2. ASSUME NEW n \in 0 .. Len(a) PROVE SubSeq(b, 1, n) = SubSeq(a, 1, n)
  <2>1. n \in 0 .. Len(b)  BY <1>1
  <2>2. SubSeq(a, 1, n) \in Seq(AnyMode) /\ Len(SubSeq(a, 1, n)) = n
        /\ \A k \in 1 .. n : SubSeq(a, 1, n)[k] = a[k]
    BY <1>1, PrefixOf
  <2>3. SubSeq(b, 1, n) \in Seq(AnyMode) /\ Len(SubSeq(b, 1, n)) = n
        /\ \A k \in 1 .. n : SubSeq(b, 1, n)[k] = b[k]
    BY <1>1, <2>1, PrefixOf
  <2>4. \A k \in 1 .. n : SubSeq(b, 1, n)[k] = SubSeq(a, 1, n)[k]  BY <1>1, <2>2, <2>3
  <2> QED  BY <2>2, <2>3, <2>4
<1>3. \A k \in 1 .. Len(a) : k - 1 \in 0 .. Len(a)  BY <1>1
<1>4. SubSeq(b, 1, Len(a)) = a
  <2>1. Len(a) \in 0 .. Len(a)  BY <1>1
  <2>2. SubSeq(b, 1, Len(a)) = SubSeq(a, 1, Len(a))  BY <1>2, <2>1
  <2> QED  BY <1>1, <2>2, SubSeqFull
<1>5. (Len(a) + 1) - 1 = Len(a)  BY <1>1
<1> QED  BY <1>2, <1>3, <1>4, <1>5 DEF Before, b

LEMMA WholeEmpty == \A i : Whole(<<>>, i) = 0
<1> SUFFICES ASSUME NEW i PROVE Whole(<<>>, i) = 0  OBVIOUS
<1>1. <<>> \in Layouts /\ Len(<<>>) = 0  BY DEF Layouts
<1> QED  BY <1>1, WholeExists DEF Stages

LEMMA WholeAppend ==
  ASSUME NEW a \in Layouts, NEW m \in AnyMode, NEW i
  PROVE  Whole(Append(a, m), i) = Whole(a, i) + ((i \div Size(a)) % m.size) * m.stride
<1> DEFINE b == Append(a, m)  n == Len(a)
<1>1. /\ b \in Layouts /\ Len(b) = n + 1 /\ n \in Nat /\ b[n + 1] = m
      /\ \A k \in 1 .. n : b[k] = a[k]
  BY AppendAt
<1>2. PICK F : Stages("add", 0, Parts(a, i), n, F) /\ Whole(a, i) = F[n]  BY WholeExists
<1>3. PICK G : Stages("add", 0, Parts(b, i), n + 1, G) /\ Whole(b, i) = G[n + 1]
  BY <1>1, WholeExists
<1>4. Before(b, n + 1) = Size(a) /\ \A k \in 1 .. n : Before(b, k) = Before(a, k)  BY BeforeAppend
<1> HIDE DEF b
<1>5. \A k \in 1 .. n : Parts(a, i)[k] = Parts(b, i)[k]  BY <1>1, <1>4 DEF Parts
<1>6. Parts(b, i)[n + 1] = ((i \div Size(a)) % m.size) * m.stride
  <2>1. n + 1 \in 1 .. Len(b)  BY <1>1
  <2> QED  BY <1>1, <1>4, <2>1 DEF Parts
<1> HIDE DEF n
<1>7. Stages("add", 0, Parts(b, i), n, G)  BY <1>1, <1>3 DEF Stages
<1>8. F[n] = G[n]
  <2>1. n \in Nat /\ n \in 0 .. n  BY <1>1
  <2>2. Stages("add", 0, Parts(a, i), n, F)  BY <1>2
  <2>3. \A k \in 0 .. n : F[k] = G[k]  BY <1>5, <1>7, <2>1, <2>2, StagesAgree
  <2> QED  BY <2>1, <2>3
<1>9. G[n + 1] = G[n] + Parts(b, i)[n + 1]
  <2>1. n + 1 \in 1 .. n + 1 /\ (n + 1) - 1 = n  BY <1>1
  <2>2. G[n + 1] = Applied("add", Parts(b, i), n + 1, G[(n + 1) - 1])  BY <1>3, <2>1 DEF Stages
  <2> QED  BY <2>1, <2>2 DEF Applied
<1> QED  BY <1>2, <1>3, <1>6, <1>8, <1>9 DEF b

LEMMA WholeIsNat == \A a \in Layouts, i \in Nat : Whole(a, i) \in Nat
<1> SUFFICES ASSUME NEW i \in Nat PROVE \A a \in Layouts : Whole(a, i) \in Nat  OBVIOUS
<1> DEFINE T == {a \in Layouts : Whole(a, i) \in Nat}
<1>1. T \in SUBSET Layouts /\ <<>> \in T  BY WholeEmpty DEF Layouts
<1>2. ASSUME NEW a \in T, NEW m \in AnyMode PROVE Append(a, m) \in T
  <2>1. Whole(Append(a, m), i) = Whole(a, i) + ((i \div Size(a)) % m.size) * m.stride  BY WholeAppend
  <2>2. Size(a) \in Nat \ {0} /\ m.size \in Nat \ {0} /\ m.stride \in Nat  BY SizePositive DEF AnyMode
  <2>3. i \div Size(a) \in Nat  BY <2>2, NatDivMod
  <2>4. (i \div Size(a)) % m.size \in Nat  BY <2>2, <2>3, DivMod
  <2>5. ((i \div Size(a)) % m.size) * m.stride \in Nat  BY <2>2, <2>4
  <2> QED  BY <2>1, <2>5, AppendAt
<1> HIDE DEF T
<1>3. \A a \in Layouts : a \in T  BY <1>1, <1>2, AllLayouts
<1> QED  BY <1>3 DEF T

\* The coordinate in a layout of one mode is bounded too, when the index is.
LEMMA CoordinateInDomain ==
  ASSUME NEW a \in Layouts, NEW i \in Domain(a)
  PROVE  \A k \in 1 .. Len(a) : Coordinate(a, i, k) = (i \div Before(a, k)) % a[k].size
<1>0. Size(a) \in Nat \ {0} /\ i \in Nat /\ i < Size(a)  BY SizePositive DEF Domain
<1>1. CASE Len(a) # 1  BY <1>1 DEF Coordinate
<1>2. CASE Len(a) = 1
  <2>1. Front(a) \in Layouts /\ Last(a) \in AnyMode /\ a = Append(Front(a), Last(a)) /\ Last(a) = a[1]
        /\ Len(Front(a)) = 0
    <3>1. a # <<>>  BY <1>2
    <3> QED  BY <1>2, <3>1, LastMode
  <2>2. Front(a) = <<>>  BY <2>1 DEF Layouts
  <2>3. Before(a, 1) = 1
    <3>1. <<>> \in Layouts /\ Len(<<>>) + 1 = 1  BY DEF Layouts
    <3>2. Before(Append(<<>>, Last(a)), Len(<<>>) + 1) = Size(<<>>)  BY <2>1, <3>1, BeforeAppend
    <3> QED  BY <2>1, <2>2, <3>1, <3>2, EmptySize
  <2>4. Size(a) = 1 * a[1].size /\ a[1].size \in Nat \ {0}  BY <2>1, <2>2, EmptySize, SizeAppend DEF AnyMode
  <2>5. i \div 1 = i
    <3>1. IsDivision(i, 1, i, 0)  BY <1>0 DEF IsDivision
    <3> QED  BY <3>1, DivUnique
  <2>6. i % a[1].size = i
    <3>1. IsDivision(i, a[1].size, 0, i)  BY <1>0, <2>4 DEF IsDivision
    <3> QED  BY <2>4, <3>1, DivUnique
  <2> QED  BY <1>2, <2>3, <2>5, <2>6 DEF Coordinate
<1> QED  BY <1>1, <1>2

LEMMA WholeIsOffset ==
  ASSUME NEW a \in Layouts, NEW i \in Domain(a)
  PROVE  Offset(a, i) = Whole(a, i)
<1>1. Size(a) \in Nat \ {0} /\ i \in Nat /\ i < Size(a)  BY SizePositive DEF Domain
<1>2. a \in Seq(AnyMode) /\ Len(a) \in Nat /\ DOMAIN a = 1 .. Len(a)  BY DEF Layouts
<1>3. PICK F : Stages("add", 0, Shares(a, i), Len(a), F) /\ Offset(a, i) = F[Len(a)]
  BY <1>1, <1>2, OffsetStages
<1>4. \A k \in 1 .. Len(a) : Coordinate(a, i, k) = (i \div Before(a, k)) % a[k].size  BY CoordinateInDomain
<1>5. \A k \in 1 .. Len(a) : Shares(a, i)[k] = Parts(a, i)[k]  BY <1>2, <1>4 DEF Shares, Parts
<1>6. Stages("add", 0, Parts(a, i), Len(a), F)
  <2>1. \A k \in 1 .. Len(a) : F[k] = F[k - 1] + Shares(a, i)[k]  BY <1>3 DEF Stages, Applied
  <2>2. \A k \in 1 .. Len(a) : F[k] = F[k - 1] + Parts(a, i)[k]  BY <1>5, <2>1
  <2> QED  BY <1>3, <2>2 DEF Stages, Applied
<1>7. IsWhole(a, i, F[Len(a)])  BY <1>6 DEF IsWhole
<1> QED  BY <1>3, <1>7, WholeUnique

\* The coordinate in a product of two sizes is that in the first and that in the second.
LEMMA TwoCoordinates ==
  ASSUME NEW x \in Nat, NEW s \in Nat \ {0}, NEW t \in Nat \ {0}
  PROVE  x % (s * t) = (x % s) + s * ((x \div s) % t)
<1>1. PICK q \in Nat, r \in Nat : q = x \div s /\ r < s /\ x = s * q + r  BY NatDivMod
<1>2. PICK k \in Nat, j \in Nat : k = q \div t /\ j < t /\ q = t * k + j  BY NatDivMod
<1>3. r = x % s /\ j = q % t
  <2>1. IsDivision(x, s, q, r) /\ IsDivision(q, t, k, j)  BY <1>1, <1>2 DEF IsDivision
  <2> QED  BY <2>1, DivUnique
<1>4. s * t \in Nat \ {0}  OBVIOUS
<1>5. x = (s * t) * k + (s * j + r)
  <2>1. PICK h \in Nat : h = t * k  BY <1>2
  <2>2. s * (h + j) = s * h + s * j  BY <1>2, <2>1
  <2>3. s * h = (s * t) * k
    <3>1. s * (t * k) = (s * t) * k  BY <1>2
    <3> QED  BY <2>1, <3>1
  <2>4. s * h \in Nat /\ s * j \in Nat  BY <1>2, <2>1
  <2>5. s * q = s * h + s * j  BY <1>2, <2>1, <2>2
  <2>6. x = (s * h + s * j) + r  BY <1>1, <2>5
  <2>7. PICK y \in Nat, z \in Nat : y = s * h /\ z = s * j  BY <2>4
  <2>8. x = (y + z) + r  BY <2>6, <2>7
  <2>9. x = y + (z + r)
    <3>1. r \in Nat  BY <1>1
    <3> QED  BY <2>7, <2>8, <3>1
  <2> QED  BY <2>3, <2>7, <2>9
<1>6. s * j + r \in Nat /\ s * j + r < s * t
  <2>1. s * j \in Nat /\ s * (j + 1) = s * j + s  BY <1>2
  <2>2. s * (j + 1) <= s * t /\ s * t \in Nat  BY <1>2
  <2> QED  BY <1>1, <2>1, <2>2
<1>7. PICK y \in Nat \ {0}, z \in Nat : y = s * t /\ z = s * j + r  BY <1>4, <1>6
<1>8. IsDivision(x, y, k, z)  BY <1>2, <1>5, <1>6, <1>7 DEF IsDivision
<1>9. x % (s * t) = s * j + r  BY <1>7, <1>8, DivUnique
<1>10. s * j \in Nat /\ s * ((x \div s) % t) = s * j
  <2>1. (x \div s) % t = j  BY <1>1, <1>3
  <2>2. s * j \in Nat  BY <1>2
  <2> QED  BY <2>1, <2>2
<1> QED  BY <1>1, <1>3, <1>9, <1>10

\* Two layouts with the same size and the same offset of every index.
Same(x, y) == x \in Layouts /\ Size(x) = Size(y) /\ \A i \in Nat : Whole(x, i) = Whole(y, i)

LEMMA SameAppend ==
  ASSUME NEW x \in Layouts, NEW y \in Layouts, NEW m \in AnyMode, Same(x, y)
  PROVE  Same(Append(x, m), Append(y, m))
<1>1. Append(x, m) \in Layouts  BY AppendAt
<1>2. Size(x) = Size(y) /\ \A i \in Nat : Whole(x, i) = Whole(y, i)  BY DEF Same
<1>3. Size(Append(x, m)) = Size(Append(y, m))  BY <1>2, SizeAppend
<1>4. \A i \in Nat : Whole(Append(x, m), i) = Whole(Append(y, m), i)
  <2> TAKE i \in Nat
  <2>1. Whole(x, i) = Whole(y, i) /\ Size(x) = Size(y)  BY <1>2
  <2> QED  BY <2>1, WholeAppend
<1> QED  BY <1>1, <1>3, <1>4 DEF Same

\* Two modes, the second starting where the first ends, are one.
LEMMA ModeInTwo ==
  ASSUME NEW f \in Layouts, NEW l \in AnyMode, NEW m \in AnyMode, NEW w,
         m.stride = l.size * l.stride, w = Mode(l.size * m.size, l.stride)
  PROVE  w \in AnyMode /\ Same(Append(f, w), Append(Append(f, l), m))
<1>1. m.size \in Nat \ {0} /\ m.stride \in Nat /\ l.size \in Nat \ {0} /\ l.stride \in Nat  BY DEF AnyMode
<1>2. w \in AnyMode /\ w.size = l.size * m.size /\ w.stride = l.stride  BY <1>1 DEF AnyMode, Mode
<1> DEFINE o == Append(f, l)
<1>3. o \in Layouts /\ Append(f, w) \in Layouts  BY <1>2, AppendAt
<1>4. Size(f) \in Nat \ {0} /\ Size(o) = Size(f) * l.size  BY SizePositive, SizeAppend
<1>5. Size(Append(f, w)) = Size(Append(o, m))
  <2>1. Size(Append(f, w)) = Size(f) * (l.size * m.size)  BY <1>2, SizeAppend
  <2>2. Size(Append(o, m)) = (Size(f) * l.size) * m.size  BY <1>3, <1>4, SizeAppend
  <2>3. Size(f) * (l.size * m.size) = (Size(f) * l.size) * m.size  BY <1>1, <1>4
  <2> QED  BY <2>1, <2>2, <2>3
<1>6. ASSUME NEW i \in Nat PROVE Whole(Append(f, w), i) = Whole(Append(o, m), i)
  <2>1. PICK x \in Nat : x = i \div Size(f)
    <3>1. i \div Size(f) \in Nat  BY <1>4, NatDivMod
    <3> QED  BY <3>1
  <2>2. Whole(Append(f, w), i) = Whole(f, i) + (x % (l.size * m.size)) * l.stride
    BY <1>2, <2>1, WholeAppend
  <2>3. Whole(o, i) = Whole(f, i) + (x % l.size) * l.stride  BY <2>1, WholeAppend
  <2>4. i \div Size(o) = x \div l.size
    <3>1. (i \div Size(f)) \div l.size = i \div (Size(f) * l.size)  BY <1>1, <1>4, DivTwice
    <3> QED  BY <1>4, <2>1, <3>1
  <2>5. Whole(Append(o, m), i) = Whole(o, i) + ((x \div l.size) % m.size) * (l.size * l.stride)
    <3>1. Whole(Append(o, m), i) = Whole(o, i) + ((i \div Size(o)) % m.size) * m.stride
      BY <1>3, WholeAppend
    <3> QED  BY <2>4, <3>1
  <2>6. x % (l.size * m.size) = (x % l.size) + l.size * ((x \div l.size) % m.size)
    BY <1>1, TwoCoordinates
  <2>7. PICK c \in Nat, e \in Nat : c = x % l.size /\ e = (x \div l.size) % m.size
    <3>1. x % l.size \in Nat  BY <1>1, DivMod
    <3>2. x \div l.size \in Nat  BY <1>1, NatDivMod
    <3>3. (x \div l.size) % m.size \in Nat  BY <1>1, <3>2, DivMod
    <3> QED  BY <3>1, <3>3
  <2>8. PICK p \in Nat, t \in Nat : p = l.size /\ t = l.stride  BY <1>1
  <2>9. (c + p * e) * t = c * t + e * (p * t)
    <3>1. PICK h \in Nat : h = p * e  BY <2>7, <2>8
    <3>2. (c + h) * t = c * t + h * t  BY <2>7, <3>1
    <3>3. (p * e) * t = e * (p * t)  BY <2>7, <2>8
    <3> QED  BY <3>1, <3>2, <3>3
  <2>10. Whole(f, i) \in Nat /\ c * t \in Nat /\ e * (p * t) \in Nat
    <3>1. p * t \in Nat  BY <2>8
    <3>2. c * t \in Nat /\ e * (p * t) \in Nat  BY <2>7, <2>8, <3>1
    <3>3. Whole(f, i) \in Nat  BY WholeIsNat
    <3> QED  BY <3>2, <3>3
  <2>11. Whole(Append(f, w), i) = Whole(f, i) + (c * t + e * (p * t))
    BY <2>2, <2>6, <2>7, <2>8, <2>9
  <2>12. Whole(Append(o, m), i) = (Whole(f, i) + c * t) + e * (p * t)
    BY <2>3, <2>5, <2>7, <2>8
  <2> QED  BY <2>10, <2>11, <2>12
<1> QED  BY <1>2, <1>3, <1>5, <1>6 DEF Same

\* A mode that is merged keeps the size and every offset.
LEMMA MergeKeeps ==
  ASSUME NEW o \in Layouts, NEW m \in AnyMode
  PROVE  Same(Merge(o, m), Append(o, m))
<1>0. m.size \in Nat \ {0} /\ m.stride \in Nat  BY DEF AnyMode
<1>1. CASE o # <<>> /\ m.stride = Last(o).size * Last(o).stride
  <2> DEFINE f == Front(o)  l == Last(o)  w == Mode(l.size * m.size, l.stride)
  <2>1. f \in Layouts /\ l \in AnyMode /\ o = Append(f, l) /\ l = o[Len(o)]
        /\ Len(f) = Len(o) - 1 /\ Len(o) \in Nat \ {0} /\ \A k \in 1 .. Len(o) - 1 : f[k] = o[k]
    BY <1>1, LastMode
  <2>2. l = [size |-> l.size, stride |-> l.stride]  BY <2>1 DEF AnyMode
  <2>3. w \in AnyMode /\ Same(Append(f, w), Append(o, m))  BY <1>1, <2>1, ModeInTwo
  <2>4. Merge(o, m) = [o EXCEPT ![Len(o)].size = @ * m.size]  BY <1>1 DEF Merge
  <2>5. [l EXCEPT !.size = @ * m.size] = w  BY <2>2 DEF Mode
  <2> HIDE DEF f, l, w
  <2>6. Merge(o, m) = Append(f, w)
    <3>1. Merge(o, m) = [o EXCEPT ![Len(o)] = w]  BY <2>1, <2>4, <2>5
    <3>2. o \in Seq(AnyMode) /\ f \in Seq(AnyMode)  BY <2>1 DEF Layouts
    <3>3. PICK z : z = [o EXCEPT ![Len(o)] = w]  OBVIOUS
    <3>4. PICK y : y = Append(f, w)  OBVIOUS
    <3>5. DOMAIN o = 1 .. Len(o) /\ Len(o) \in 1 .. Len(o)  BY <2>1, <3>2
    <3>6. z \in Seq(AnyMode) /\ Len(z) = Len(o)
      <4>1. o \in [1 .. Len(o) -> AnyMode] /\ Len(o) \in Nat  BY <3>2
      <4>2. z \in [1 .. Len(o) -> AnyMode]  BY <2>3, <3>3, <4>1
      <4> QED  BY <4>1, <4>2, SeqDef, LenProperties
    <3>7. \A k \in 1 .. Len(o) : z[k] = IF k = Len(o) THEN w ELSE o[k]  BY <3>3, <3>5
    <3>8. y \in Seq(AnyMode) /\ Len(y) = Len(o)  BY <2>1, <2>3, <3>2, <3>4
    <3>9. \A k \in 1 .. Len(o) : y[k] = IF k = Len(o) THEN w ELSE o[k]  BY <2>1, <3>2, <3>4
    <3>10. z = y  BY <3>6, <3>7, <3>8, <3>9
    <3> QED  BY <3>1, <3>3, <3>4, <3>10
  <2> QED  BY <2>3, <2>6
<1>2. CASE ~ (o # <<>> /\ m.stride = Last(o).size * Last(o).stride) /\ m.size = 1
  <2>1. Merge(o, m) = o  BY <1>2 DEF Merge
  <2>2. Size(o) \in Nat \ {0} /\ Size(Append(o, m)) = Size(o)
    <3>1. Size(o) \in Nat \ {0} /\ Size(Append(o, m)) = Size(o) * 1  BY <1>2, SizePositive, SizeAppend
    <3> QED  BY <3>1
  <2>3. ASSUME NEW i \in Nat PROVE Whole(Append(o, m), i) = Whole(o, i)
    <3>1. PICK x \in Nat : x = i \div Size(o)
      <4>1. i \div Size(o) \in Nat  BY <2>2, NatDivMod
      <4> QED  BY <4>1
    <3>2. x % 1 = 0
      <4>1. IsDivision(x, 1, x, 0)  BY DEF IsDivision
      <4> QED  BY <4>1, DivUnique
    <3>3. Whole(Append(o, m), i) = Whole(o, i) + 0 * m.stride  BY <1>2, <3>1, <3>2, WholeAppend
    <3>4. Whole(o, i) \in Nat /\ 0 * m.stride = 0  BY <1>0, WholeIsNat
    <3> QED  BY <3>3, <3>4
  <2> QED  BY <2>1, <2>2, <2>3 DEF Same
<1>3. CASE ~ (o # <<>> /\ m.stride = Last(o).size * Last(o).stride) /\ m.size # 1
  <2>1. Merge(o, m) = Append(o, m)  BY <1>3 DEF Merge
  <2> QED  BY <2>1, AppendAt DEF Same
<1> QED  BY <1>1, <1>2, <1>3

\* What coalesce has after each mode is the layout of the modes so far.
LEMMA MergedPrefix ==
  ASSUME NEW a \in Layouts, NEW F, Stages("merge", <<>>, a, Len(a), F)
  PROVE  \A n \in 0 .. Len(a) : Same(F[n], SubSeq(a, 1, n))
<1>1. a \in Seq(AnyMode) /\ Len(a) \in Nat  BY DEF Layouts
<1> DEFINE T == {n \in 0 .. Len(a) : ~ Same(F[n], SubSeq(a, 1, n))}
<1>2. SUFFICES ASSUME T # {} PROVE FALSE  OBVIOUS
<1>3. PICK n \in T : \A y \in T : n <= y
  <2>1. T \in SUBSET Nat  OBVIOUS
  <2> HIDE DEF T
  <2> QED  BY <1>2, <2>1, LeastOf
<1>4. CASE n = 0
  <2>1. SubSeq(a, 1, 0) = <<>> /\ F[0] = <<>> /\ <<>> \in Layouts
    <3>1. 0 \in 0 .. Len(a)  BY <1>1
    <3>2. SubSeq(a, 1, 0) \in Seq(AnyMode) /\ Len(SubSeq(a, 1, 0)) = 0  BY <1>1, <3>1, PrefixOf
    <3> QED  BY <3>2 DEF Stages, Layouts
  <2> QED  BY <1>3, <1>4, <2>1 DEF Same
<1>5. CASE n # 0
  <2>1. n \in 1 .. Len(a) /\ n - 1 \in 0 .. Len(a) /\ ~ (n <= n - 1) /\ n \in 0 .. Len(a)  BY <1>1, <1>3, <1>5
  <2> DEFINE p == SubSeq(a, 1, n - 1)  o == F[n - 1]  m == a[n]
  <2>2. Same(o, p)  BY <1>3, <2>1
  <2>3. m \in AnyMode /\ p \in Layouts  BY <1>1, <2>1, PrefixOf DEF Layouts
  <2>4. F[n] = Merge(o, m)  BY <2>1 DEF Stages, Applied
  <2>5. SubSeq(a, 1, n) = Append(p, m)  BY <1>1, <2>1, PrefixAppend
  <2> HIDE DEF p, o, m
  <2>6. o \in Layouts  BY <2>2 DEF Same
  <2>7. Same(Merge(o, m), Append(o, m)) /\ Same(Append(o, m), Append(p, m))
    BY <2>2, <2>3, <2>6, MergeKeeps, SameAppend
  <2>8. Same(F[n], SubSeq(a, 1, n))  BY <2>4, <2>5, <2>7 DEF Same
  <2> QED  BY <1>3, <2>8
<1> QED  BY <1>4, <1>5

\* coalesce keeps the function of every layout, however many modes it has: its size, and
\* the offset of every index (TensorLayout coalesce).
THEOREM CoalesceKeepsLayouts ==
  ASSUME NEW a \in Layouts
  PROVE  /\ Coalesce(a) \in Layouts /\ Size(Coalesce(a)) = Size(a)
         /\ \A i \in Domain(a) : Offset(Coalesce(a), i) = Offset(a, i)
<1>1. a \in Seq(AnyMode) /\ Len(a) \in Nat /\ Len(a) \in 0 .. Len(a)  BY DEF Layouts
<1> DEFINE out == FoldLeft(Merge, <<>>, a)
<1>2. SubSeq(a, 1, Len(a)) = a  BY <1>1, SubSeqFull
<1>3. Same(out, a)
  <2>1. PICK F : Stages("merge", <<>>, a, Len(a), F) /\ out = F[Len(a)]  BY <1>1, MergeStages
  <2> HIDE DEF out
  <2> QED  BY <1>1, <1>2, <2>1, MergedPrefix
<1>4. Same(Coalesce(a), a)
  <2>1. CASE out # <<>>  BY <1>3, <2>1 DEF Coalesce
  <2>2. CASE out = <<>>
    <3> DEFINE u == Mode(1, 1)
    <3>1. Coalesce(a) = Unit /\ Unit = Append(<<>>, u)  BY <2>2 DEF Coalesce, Unit
    <3>2. u \in AnyMode /\ u.size = 1 /\ u.stride = 1 /\ <<>> \in Layouts  BY DEF AnyMode, Mode, Layouts
    <3> HIDE DEF u
    <3>3. Unit \in Layouts /\ Size(Unit) = 1
      <4>1. Append(<<>>, u) \in Layouts  BY <3>2, AppendAt
      <4>2. Size(Append(<<>>, u)) = Size(<<>>) * u.size  BY <3>2, SizeAppend
      <4> QED  BY <3>1, <3>2, <4>1, <4>2, EmptySize
    <3>4. ASSUME NEW i \in Nat PROVE Whole(Unit, i) = 0
      <4>1. Whole(Unit, i) = 0 + ((i \div 1) % 1) * 1  BY <3>1, <3>2, EmptySize, WholeEmpty, WholeAppend
      <4>2. IsDivision(i \div 1, 1, i \div 1, 0)  BY DivMod DEF IsDivision
      <4>3. (i \div 1) % 1 = 0  BY <4>2, DivUnique
      <4> QED  BY <4>1, <4>3
    <3> QED  BY <1>3, <2>2, <3>1, <3>3, <3>4, EmptySize, WholeEmpty DEF Same
  <2> QED  BY <2>1, <2>2
<1>5. \A i \in Domain(a) : i \in Nat /\ i \in Domain(Coalesce(a))  BY <1>4, SizePositive DEF Domain, Same
<1> QED  BY <1>4, <1>5, WholeIsOffset DEF Same

-----------------------------------------------------------------------------
(* Layouts: group.                                                          *)

\* The fold of group.
Ungrouped == [first |-> <<>>, rest |-> <<>>, full |-> FALSE, count |-> 1, ok |-> TRUE]
Turns(a, limit, zeros) == [k \in DOMAIN a |-> [mode |-> a[k], limit |-> limit, zeros |-> zeros]]
GroupedOf(a, limit, zeros) == CHOOSE g : g = [s \in SUBSET DOMAIN a |->
  IF s = {} THEN [first |-> <<>>, rest |-> <<>>, full |-> FALSE, count |-> 1, ok |-> TRUE]
  ELSE GroupStep(limit, zeros, g[s \ {Max(s)}], a[Max(s)])]

GroupsBy(a, limit, zeros, F) ==
  /\ F[0] = Ungrouped /\ Group(a, limit, zeros) = F[Len(a)]
  /\ \A k \in 1 .. Len(a) : F[k] = GroupStep(limit, zeros, F[k - 1], a[k])

LEMMA GroupStages ==
  ASSUME NEW a \in Seq(AnyMode), NEW limit, NEW zeros
  PROVE  \E F : GroupsBy(a, limit, zeros, F)
<1> DEFINE q == Turns(a, limit, zeros)
<1>1. DOMAIN a = 1 .. Len(a) /\ Len(a) \in Nat  OBVIOUS
<1>2. Group(a, limit, zeros) = GroupedOf(a, limit, zeros)[DOMAIN a]
  BY DEF Group, FoldLeft, MapThenFoldSet, GroupedOf
<1> DEFINE Step(g, s) == IF s = {} THEN Ungrouped ELSE GroupStep(limit, zeros, g[s \ {Max(s)}], a[Max(s)])
<1>3. GroupedOf(a, limit, zeros) = CHOOSE g : g = [s \in SUBSET DOMAIN a |-> Step(g, s)]
  BY DEF GroupedOf, Ungrouped
<1>4. ASSUME NEW g, NEW s \in SUBSET DOMAIN a PROVE Unfold("group", Ungrouped, q, g, s) = Step(g, s)
  <2>1. CASE s = {}  BY <2>1 DEF Unfold
  <2>2. CASE s # {}
    <3>1. Max(s) \in DOMAIN a  BY <1>1, <2>2, MaxIsTheGreatest
    <3>2. q[Max(s)].mode = a[Max(s)] /\ q[Max(s)].limit = limit /\ q[Max(s)].zeros = zeros
      BY <3>1 DEF Turns
    <3> HIDE DEF q
    <3>3. Unfold("group", Ungrouped, q, g, s)
          = GroupStep(q[Max(s)].limit, q[Max(s)].zeros, g[s \ {Max(s)}], q[Max(s)].mode)
      BY <2>2 DEF Unfold, Applied, Taken
    <3> QED  BY <2>2, <3>2, <3>3
  <2> QED  BY <2>1, <2>2
<1> HIDE DEF Step, q
<1>5. PICK g : Folds("group", Ungrouped, q, 1 .. Len(a), g)  BY <1>1, StagesExist
<1>6. g = [s \in SUBSET DOMAIN a |-> Step(g, s)]  BY <1>1, <1>4, <1>5 DEF Folds
<1>7. GroupedOf(a, limit, zeros) = [s \in SUBSET DOMAIN a |-> Step(GroupedOf(a, limit, zeros), s)]
  BY <1>3, <1>6
<1>8. Folds("group", Ungrouped, q, 1 .. Len(a), GroupedOf(a, limit, zeros))  BY <1>1, <1>4, <1>7 DEF Folds
<1>9. PICK F : /\ Stages("group", Ungrouped, q, Len(a), F)
               /\ GroupedOf(a, limit, zeros)[1 .. Len(a)] = F[Len(a)]
  BY <1>1, <1>8, FoldStages
<1>10. ASSUME NEW k \in 1 .. Len(a) PROVE F[k] = GroupStep(limit, zeros, F[k - 1], a[k])
  <2>1. q[k].mode = a[k] /\ q[k].limit = limit /\ q[k].zeros = zeros  BY <1>1 DEF q, Turns
  <2>2. F[k] = GroupStep(q[k].limit, q[k].zeros, F[k - 1], q[k].mode)  BY <1>9 DEF Stages, Applied
  <2> QED  BY <2>1, <2>2
<1> QED  BY <1>1, <1>2, <1>9, <1>10 DEF Stages, GroupsBy

\* The size that group counts: modes of stride 0 have size 1 when they are ignored.
Elements(z, x) == IF z THEN Size(FilterZeros(x)) ELSE Size(x)
Ignored(z, m)  == z /\ m.stride = 0

LEMMA FilterAppend ==
  ASSUME NEW a \in Layouts, NEW m \in AnyMode
  PROVE  /\ FilterZeros(a) \in Layouts
         /\ FilterZeros(Append(a, m)) = Append(FilterZeros(a), IF m.stride = 0 THEN Mode(1, 0) ELSE m)
<1> DEFINE Still(x) == IF x.stride = 0 THEN Mode(1, 0) ELSE x
<1>1. a \in Seq(AnyMode) /\ Len(a) \in Nat /\ DOMAIN a = 1 .. Len(a)  BY DEF Layouts
<1>2. \A x \in AnyMode : Still(x) \in AnyMode  BY DEF AnyMode, Mode
<1>3. FilterZeros(a) = [k \in 1 .. Len(a) |-> Still(a[k])]  BY <1>1 DEF FilterZeros
<1>4. Append(a, m) \in Seq(AnyMode) /\ DOMAIN Append(a, m) = 1 .. Len(a) + 1  BY <1>1
<1>5. FilterZeros(Append(a, m)) = [k \in 1 .. Len(a) + 1 |-> Still(Append(a, m)[k])]
  BY <1>4 DEF FilterZeros
<1> HIDE DEF Still
<1>6. FilterZeros(a) \in Seq(AnyMode) /\ Len(FilterZeros(a)) = Len(a)
  <2>1. [k \in 1 .. Len(a) |-> Still(a[k])] \in [1 .. Len(a) -> AnyMode]  BY <1>1, <1>2
  <2> QED  BY <1>1, <1>3, <2>1, SeqDef, LenProperties
<1>7. FilterZeros(Append(a, m)) \in Seq(AnyMode) /\ Len(FilterZeros(Append(a, m))) = Len(a) + 1
  <2>1. [k \in 1 .. Len(a) + 1 |-> Still(Append(a, m)[k])] \in [1 .. Len(a) + 1 -> AnyMode]
    BY <1>2, <1>4
  <2> QED  BY <1>1, <1>5, <2>1, SeqDef, LenProperties
<1>8. Append(FilterZeros(a), Still(m)) \in Seq(AnyMode) /\ Len(Append(FilterZeros(a), Still(m))) = Len(a) + 1
  BY <1>2, <1>6
<1>9. ASSUME NEW k \in 1 .. Len(a) + 1
      PROVE FilterZeros(Append(a, m))[k] = Append(FilterZeros(a), Still(m))[k]
  <2>1. FilterZeros(Append(a, m))[k] = Still(Append(a, m)[k])  BY <1>5
  <2>2. CASE k = Len(a) + 1
    <3>1. Append(a, m)[k] = m  BY <1>1, <2>2
    <3>2. Append(FilterZeros(a), Still(m))[k] = Still(m)  BY <1>2, <1>6, <2>2
    <3> QED  BY <2>1, <3>1, <3>2
  <2>3. CASE k # Len(a) + 1
    <3>1. k \in 1 .. Len(a)  BY <1>1, <2>3
    <3>2. Append(a, m)[k] = a[k]  BY <1>1, <3>1
    <3>3. Append(FilterZeros(a), Still(m))[k] = FilterZeros(a)[k]  BY <1>2, <1>6, <3>1
    <3> QED  BY <1>3, <2>1, <3>1, <3>2, <3>3
  <2> QED  BY <2>2, <2>3
<1>10. FilterZeros(Append(a, m)) = Append(FilterZeros(a), Still(m))  BY <1>7, <1>8, <1>9
<1> QED  BY <1>6, <1>10 DEF Layouts, Still

LEMMA ElementsAppend ==
  ASSUME NEW z \in BOOLEAN, NEW x \in Layouts, NEW m \in AnyMode
  PROVE  /\ Elements(z, x) \in Nat \ {0}
         /\ Elements(z, Append(x, m)) = IF Ignored(z, m) THEN Elements(z, x) ELSE Elements(z, x) * m.size
<1> DEFINE still == IF m.stride = 0 THEN Mode(1, 0) ELSE m
<1>1. still \in AnyMode /\ still.size = IF m.stride = 0 THEN 1 ELSE m.size  BY DEF AnyMode, Mode
<1>2. FilterZeros(x) \in Layouts /\ FilterZeros(Append(x, m)) = Append(FilterZeros(x), still)  BY FilterAppend
<1> HIDE DEF still
<1>3. Size(FilterZeros(Append(x, m))) = Size(FilterZeros(x)) * still.size  BY <1>1, <1>2, SizeAppend
<1>4. Size(x) \in Nat \ {0} /\ Size(FilterZeros(x)) \in Nat \ {0}  BY <1>2, SizePositive
<1>5. Size(FilterZeros(x)) * 1 = Size(FilterZeros(x))  BY <1>4
<1>6. CASE Ignored(z, m)  BY <1>1, <1>3, <1>4, <1>5, <1>6 DEF Ignored, Elements
<1>7. CASE ~ Ignored(z, m)
  <2>1. CASE z  BY <1>1, <1>3, <1>4, <1>7, <2>1 DEF Ignored, Elements
  <2>2. CASE ~ z  BY <1>4, <1>7, <2>2, SizeAppend DEF Elements
  <2> QED  BY <2>1, <2>2
<1> QED  BY <1>6, <1>7

LEMMA NoElements == \A z \in BOOLEAN : Elements(z, <<>>) = 1
<1>1. FilterZeros(<<>>) = <<>>  BY DEF FilterZeros
<1> QED  BY <1>1, EmptySize DEF Elements

\* Modes that are put after both parts, and after the first when there is no second.
LEMMA ConcatAppend ==
  ASSUME NEW x \in Layouts, NEW y \in Layouts, NEW m \in AnyMode
  PROVE  x \o y \in Layouts /\ x \o Append(y, m) = Append(x \o y, m)
<1>1. x \in Seq(AnyMode) /\ y \in Seq(AnyMode) /\ Append(y, m) \in Seq(AnyMode)  BY DEF Layouts
<1>2. x \o y \in Seq(AnyMode) /\ Len(x \o y) = Len(x) + Len(y) /\ Len(x) \in Nat /\ Len(y) \in Nat  BY <1>1
<1>3. x \o Append(y, m) \in Seq(AnyMode) /\ Len(x \o Append(y, m)) = Len(x) + Len(y) + 1  BY <1>1
<1>4. Append(x \o y, m) \in Seq(AnyMode) /\ Len(Append(x \o y, m)) = Len(x) + Len(y) + 1  BY <1>2
<1>5. ASSUME NEW k \in 1 .. Len(x) + Len(y) + 1 PROVE (x \o Append(y, m))[k] = Append(x \o y, m)[k]
  BY <1>1, <1>2
<1>6. x \o Append(y, m) = Append(x \o y, m)  BY <1>3, <1>4, <1>5
<1> QED  BY <1>2, <1>6 DEF Layouts

LEMMA ConcatEmpty == \A x \in Layouts : x \o <<>> = x
BY DEF Layouts

LEMMA ShapeDivPositive ==
  ASSUME NEW x \in Nat \ {0}, NEW y \in Nat \ {0}
  PROVE  ShapeDiv(x, y) \in Nat \ {0} /\ (x % y = 0 => x = y * ShapeDiv(x, y))
<1>1. PICK k \in Nat, j \in Nat : k = x \div y /\ j < y /\ x = y * k + j  BY NatDivMod
<1>2. IsDivision(x, y, k, j)  BY <1>1 DEF IsDivision
<1>3. x % y = j  BY <1>2, DivUnique
<1>4. CASE j = 0
  <2>1. x = y * k  BY <1>1, <1>4
  <2>2. k # 0  BY <2>1
  <2> QED  BY <1>1, <1>3, <1>4, <2>1, <2>2 DEF ShapeDiv
<1>5. CASE j # 0  BY <1>3, <1>5 DEF ShapeDiv
<1> QED  BY <1>4, <1>5

\* What group has after the modes of p: the first part is as large as what was counted,
\* until it has the size that was asked for, and both parts are the modes so far.
GroupStates == [first : Layouts, rest : Layouts, full : BOOLEAN, count : Nat \ {0}, ok : BOOLEAN]
Grouping(z, limit, st, p) ==
  /\ st \in GroupStates
  /\ st.ok => /\ st.count = Elements(z, p)
              /\ Elements(z, st.first) = IF st.full THEN limit ELSE st.count
              /\ st.full => limit <= st.count
              /\ ~ st.full => st.rest = <<>> /\ st.count <= limit
              /\ ~ z => Same(st.first \o st.rest, p) /\ (st.rest # <<>> => limit < st.count)
Fitting(limit, st) == st.ok /\ st.count < limit => limit % st.count = 0

\* A step of group before its check of the count.
Cut(limit, st) == ShapeDiv(limit, st.count)
Regrouped(z, limit, st, m) ==
  CASE Ignored(z, m) -> IF st.full THEN [st EXCEPT !.rest = Append(@, m)] ELSE [st EXCEPT !.first = Append(@, m)]
    [] ~ Ignored(z, m) /\ st.count * m.size <= limit ->
         [st EXCEPT !.first = Append(@, m), !.count = @ * m.size, !.full = @ \/ st.count * m.size = limit]
    [] OTHER ->
         IF st.full THEN [st EXCEPT !.rest = Append(@, m), !.count = @ * m.size]
         ELSE [first |-> Append(st.first, Mode(Cut(limit, st), m.stride)),
               rest  |-> Append(st.rest, Mode(ShapeDiv(m.size, Cut(limit, st)), m.stride * Cut(limit, st))),
               full  |-> TRUE, count |-> st.count * m.size,
               ok    |-> st.ok /\ Divides(limit, st.count) /\ m.size % Cut(limit, st) = 0]

LEMMA GroupStepIs ==
  ASSUME NEW z, NEW limit, NEW st, NEW m
  PROVE  GroupStep(limit, z, st, m) =
           IF ~ st.ok THEN st
           ELSE [Regrouped(z, limit, st, m) EXCEPT
                   !.ok = @ /\ ~ (Regrouped(z, limit, st, m).count < limit /\ limit % Regrouped(z, limit, st, m).count # 0)]
BY DEF GroupStep, Regrouped, Cut, Ignored

\* A mode that is cut.
LEMMA CutKeeps ==
  ASSUME NEW z \in BOOLEAN, NEW limit \in Nat \ {0}, NEW st, NEW m \in AnyMode, NEW p \in Layouts,
         Grouping(z, limit, st, p), Fitting(limit, st), ~ Ignored(z, m),
         st.ok, ~ st.full, ~ (st.count * m.size <= limit)
  PROVE  Grouping(z, limit, Regrouped(z, limit, st, m), Append(p, m))
<1> DEFINE c == Cut(limit, st)  e == ShapeDiv(m.size, c)
           l == Mode(c, m.stride)  r == Mode(e, m.stride * c)
           n == [first |-> Append(st.first, l), rest |-> Append(st.rest, r), full |-> TRUE,
                 count |-> st.count * m.size, ok |-> st.ok /\ Divides(limit, st.count) /\ m.size % c = 0]
<1>1. Regrouped(z, limit, st, m) = n  BY DEF Regrouped
<1>2. m.size \in Nat \ {0} /\ m.stride \in Nat /\ m = [size |-> m.size, stride |-> m.stride]  BY DEF AnyMode
<1>3. /\ st.first \in Layouts /\ st.rest = <<>> /\ st.rest \in Layouts
      /\ st.count \in Nat \ {0} /\ st.count <= limit /\ st.count = Elements(z, p)
      /\ Elements(z, st.first) = st.count /\ (~ z => Same(st.first \o st.rest, p))
  BY DEF Grouping, GroupStates
<1>4. limit % st.count = 0
  <2>1. CASE st.count < limit  BY <2>1 DEF Fitting
  <2>2. CASE st.count = limit
    <3>1. IsDivision(limit, limit, 1, 0)  BY DEF IsDivision
    <3> QED  BY <2>2, <3>1, DivUnique
  <2> QED  BY <1>3, <2>1, <2>2
<1>5. c \in Nat \ {0} /\ limit = st.count * c  BY <1>3, <1>4, ShapeDivPositive DEF Cut
<1>6. e \in Nat \ {0} /\ (m.size % c = 0 => m.size = c * e)  BY <1>2, <1>5, ShapeDivPositive
<1> HIDE DEF c, e
<1>7. m.stride * c \in Nat /\ m.stride * c = c * m.stride  BY <1>2, <1>5
<1>8. l \in AnyMode /\ l.size = c /\ l.stride = m.stride  BY <1>2, <1>5 DEF AnyMode, Mode
<1>9. r \in AnyMode /\ r.size = e /\ r.stride = c * m.stride  BY <1>6, <1>7 DEF AnyMode, Mode
<1> HIDE DEF l, r
<1>10. st.count * m.size \in Nat \ {0} /\ limit < st.count * m.size  BY <1>2, <1>3
<1>11. n \in GroupStates
  <2>1. Append(st.first, l) \in Layouts /\ Append(st.rest, r) \in Layouts  BY <1>3, <1>8, <1>9, AppendAt
  <2>2. (st.ok /\ Divides(limit, st.count) /\ m.size % c = 0) \in BOOLEAN  OBVIOUS
  <2> QED  BY <1>10, <2>1, <2>2 DEF GroupStates
<1>12. Elements(z, Append(p, m)) = st.count * m.size  BY <1>3, ElementsAppend
<1>13. Elements(z, Append(st.first, l)) = limit
  <2>1. ~ Ignored(z, l)  BY <1>8 DEF Ignored
  <2> QED  BY <1>3, <1>5, <1>8, <2>1, ElementsAppend
<1>14. ASSUME ~ z, m.size % c = 0 PROVE Same(Append(st.first, l) \o Append(st.rest, r), Append(p, m))
  <2>1. Append(st.first, l) \in Layouts /\ Append(st.first, m) \in Layouts  BY <1>3, <1>8, AppendAt
  <2>2. Append(st.first, l) \o Append(st.rest, r) = Append(Append(st.first, l), r)
    BY <1>3, <1>9, <2>1, ConcatAppend, ConcatEmpty
  <2>3. Mode(l.size * r.size, l.stride) = m  BY <1>2, <1>6, <1>8, <1>9, <1>14 DEF Mode
  <2>4. Same(Append(st.first, m), Append(Append(st.first, l), r))
    BY <1>3, <1>8, <1>9, <2>3, ModeInTwo
  <2>5. Append(Append(st.first, l), r) \in Layouts  BY <1>9, <2>1, AppendAt
  <2>6. Same(st.first, p)
    <3>1. st.first \o st.rest = st.first  BY <1>3, ConcatEmpty
    <3> QED  BY <1>3, <1>14, <3>1
  <2>7. Same(Append(st.first, m), Append(p, m))  BY <1>3, <2>6, SameAppend
  <2> QED  BY <2>2, <2>4, <2>5, <2>7 DEF Same
<1>15. n.first = Append(st.first, l) /\ n.rest = Append(st.rest, r) /\ n.full /\ n.count = st.count * m.size
       /\ (n.ok => m.size % c = 0)
  OBVIOUS
<1> HIDE DEF n
<1>16. limit <= n.count /\ limit < n.count  BY <1>10, <1>15
<1>17. Grouping(z, limit, n, Append(p, m))  BY <1>11, <1>12, <1>13, <1>14, <1>15, <1>16 DEF Grouping
<1> QED  BY <1>1, <1>17

\* A mode that goes to one of the parts.
LEMMA PutKeeps ==
  ASSUME NEW z \in BOOLEAN, NEW limit \in Nat \ {0}, NEW st, NEW m \in AnyMode, NEW p \in Layouts,
         Grouping(z, limit, st, p), st.ok,
         Ignored(z, m) \/ st.count * m.size <= limit \/ st.full
  PROVE  Grouping(z, limit, Regrouped(z, limit, st, m), Append(p, m))
<1> DEFINE n == Regrouped(z, limit, st, m)
<1>1. m.size \in Nat \ {0} /\ m.stride \in Nat  BY DEF AnyMode
<1>2. /\ st.first \in Layouts /\ st.rest \in Layouts /\ st.full \in BOOLEAN
      /\ st.count \in Nat \ {0} /\ st.count = Elements(z, p)
      /\ Elements(z, st.first) = (IF st.full THEN limit ELSE st.count)
      /\ (st.full => limit <= st.count)
      /\ (~ st.full => st.rest = <<>> /\ st.count <= limit)
      /\ (~ z => Same(st.first \o st.rest, p) /\ (st.rest # <<>> => limit < st.count))
      /\ st = [first |-> st.first, rest |-> st.rest, full |-> st.full, count |-> st.count, ok |-> st.ok]
  BY DEF Grouping, GroupStates
<1>3. st.count * m.size \in Nat \ {0} /\ st.count <= st.count * m.size  BY <1>1, <1>2
<1>4. Elements(z, Append(p, m)) = IF Ignored(z, m) THEN st.count ELSE st.count * m.size
  BY <1>2, ElementsAppend
<1>5. Elements(z, Append(st.first, m)) =
        IF Ignored(z, m) THEN Elements(z, st.first) ELSE Elements(z, st.first) * m.size
  BY <1>2, ElementsAppend
<1>6. Append(st.first, m) \in Layouts /\ Append(st.rest, m) \in Layouts  BY <1>2, AppendAt
<1>7. ASSUME ~ z PROVE Same(st.first \o Append(st.rest, m), Append(p, m))
  <2>1. st.first \o st.rest \in Layouts /\ st.first \o Append(st.rest, m) = Append(st.first \o st.rest, m)
    BY <1>2, ConcatAppend
  <2> QED  BY <1>2, <1>7, <2>1, SameAppend
<1>8. ASSUME ~ z, st.rest = <<>> PROVE Same(Append(st.first, m) \o st.rest, Append(p, m))
  <2>1. st.first \o st.rest = st.first /\ Append(st.first, m) \o st.rest = Append(st.first, m)
    BY <1>2, <1>6, <1>8, ConcatEmpty
  <2> QED  BY <1>2, <1>8, <2>1, SameAppend
<1>9. CASE Ignored(z, m) /\ st.full
  <2>1. n = [first |-> st.first, rest |-> Append(st.rest, m), full |-> TRUE, count |-> st.count, ok |-> TRUE]
    BY <1>2, <1>9 DEF Regrouped
  <2>2. z  BY <1>9 DEF Ignored
  <2> HIDE DEF n
  <2>3. n \in GroupStates  BY <1>2, <1>6, <2>1 DEF GroupStates
  <2>4. n.first = st.first /\ n.full /\ n.count = st.count  BY <2>1
  <2>5. Elements(z, n.first) = limit /\ limit <= n.count /\ n.count = Elements(z, Append(p, m))
    BY <1>2, <1>4, <1>9, <2>4
  <2>6. Grouping(z, limit, n, Append(p, m))  BY <2>2, <2>3, <2>4, <2>5 DEF Grouping
  <2> QED  BY <2>6 DEF n
<1>10. CASE Ignored(z, m) /\ ~ st.full
  <2>1. n = [first |-> Append(st.first, m), rest |-> st.rest, full |-> FALSE, count |-> st.count, ok |-> TRUE]
    BY <1>2, <1>10 DEF Regrouped
  <2>2. z  BY <1>10 DEF Ignored
  <2> HIDE DEF n
  <2>3. n \in GroupStates  BY <1>2, <1>6, <2>1 DEF GroupStates
  <2>4. n.first = Append(st.first, m) /\ n.rest = st.rest /\ ~ n.full /\ n.count = st.count  BY <2>1
  <2>5. Elements(z, n.first) = n.count /\ n.rest = <<>> /\ n.count <= limit
        /\ n.count = Elements(z, Append(p, m))
    BY <1>2, <1>4, <1>5, <1>10, <2>4
  <2>6. Grouping(z, limit, n, Append(p, m))  BY <2>2, <2>3, <2>4, <2>5 DEF Grouping
  <2> QED  BY <2>6 DEF n
<1>11. CASE ~ Ignored(z, m) /\ st.count * m.size <= limit
  <2> DEFINE full == st.full \/ st.count * m.size = limit
  <2>1. n = [first |-> Append(st.first, m), rest |-> st.rest, full |-> full, count |-> st.count * m.size, ok |-> TRUE]
    BY <1>2, <1>11 DEF Regrouped
  <2> HIDE DEF n
  <2>2. full \in BOOLEAN  BY <1>2
  <2>3. n \in GroupStates  BY <1>2, <1>3, <1>6, <2>1, <2>2 DEF GroupStates
  <2>4. st.full => st.count = limit /\ st.count * m.size = limit  BY <1>1, <1>2, <1>3, <1>11
  <2>5. st.full => m.size = 1
    <3>1. m.size # 1 => st.count * m.size >= st.count * 2  BY <1>1, <1>2
    <3> QED  BY <1>2, <2>4, <3>1
  <2>6. ~ z => st.rest = <<>>  BY <1>2, <2>4
  <2>7. Elements(z, Append(st.first, m)) = IF full THEN limit ELSE st.count * m.size
    <3>1. CASE st.full
      <4>1. limit * 1 = limit  OBVIOUS
      <4> QED  BY <1>2, <1>5, <1>11, <2>5, <3>1, <4>1
    <3>2. CASE ~ st.full  BY <1>2, <1>5, <1>11, <3>2
    <3> QED  BY <3>1, <3>2
  <2>8. full => limit <= st.count * m.size  BY <2>4
  <2>9. ~ full => st.rest = <<>> /\ st.count * m.size <= limit  BY <1>2, <1>11
  <2> HIDE DEF full
  <2>10. n.full = full /\ n.count = st.count * m.size /\ n.first = Append(st.first, m) /\ n.rest = st.rest
    BY <2>1
  <2>11. ~ z => Same(n.first \o n.rest, Append(p, m)) /\ n.rest = <<>>  BY <1>8, <2>6, <2>10
  <2>12. n.count = Elements(z, Append(p, m))  BY <1>4, <1>11, <2>10
  <2>13. Grouping(z, limit, n, Append(p, m))
    BY <2>2, <2>3, <2>7, <2>8, <2>9, <2>10, <2>11, <2>12 DEF Grouping
  <2> QED  BY <2>13 DEF n
<1>12. CASE ~ Ignored(z, m) /\ ~ (st.count * m.size <= limit) /\ st.full
  <2>1. n = [first |-> st.first, rest |-> Append(st.rest, m), full |-> TRUE, count |-> st.count * m.size, ok |-> TRUE]
    BY <1>2, <1>12 DEF Regrouped
  <2> HIDE DEF n
  <2>2. n \in GroupStates  BY <1>2, <1>3, <1>6, <2>1 DEF GroupStates
  <2>3. limit < st.count * m.size  BY <1>3, <1>12
  <2>4. n.first = st.first /\ n.rest = Append(st.rest, m) /\ n.full /\ n.count = st.count * m.size  BY <2>1
  <2>5. Elements(z, n.first) = limit /\ limit < n.count /\ limit <= n.count
        /\ n.count = Elements(z, Append(p, m))
    BY <1>2, <1>3, <1>4, <1>12, <2>3, <2>4
  <2>6. ~ z => Same(n.first \o n.rest, Append(p, m))  BY <1>7, <2>4
  <2>7. Grouping(z, limit, n, Append(p, m))  BY <2>2, <2>4, <2>5, <2>6 DEF Grouping
  <2> QED  BY <2>7 DEF n
<1> QED  BY <1>2, <1>9, <1>10, <1>11, <1>12

LEMMA GroupStepKeeps ==
  ASSUME NEW z \in BOOLEAN, NEW limit \in Nat \ {0}, NEW st, NEW m \in AnyMode, NEW p \in Layouts,
         Grouping(z, limit, st, p), Fitting(limit, st)
  PROVE  /\ Grouping(z, limit, GroupStep(limit, z, st, m), Append(p, m))
         /\ Fitting(limit, GroupStep(limit, z, st, m))
<1> DEFINE x == Regrouped(z, limit, st, m)
           check == ~ (x.count < limit /\ limit % x.count # 0)
           n == GroupStep(limit, z, st, m)
<1>1. CASE ~ st.ok
  <2>1. n = st  BY <1>1, GroupStepIs
  <2> QED  BY <1>1, <2>1 DEF Grouping, Fitting
<1>2. CASE st.ok
  <2>1. Grouping(z, limit, x, Append(p, m))  BY <1>2, CutKeeps, PutKeeps
  <2>2. n = [x EXCEPT !.ok = @ /\ check]  BY <1>2, GroupStepIs
  <2>3. x \in GroupStates  BY <2>1 DEF Grouping
  <2> HIDE DEF x, n
  <2>4. check \in BOOLEAN  OBVIOUS
  <2>5. n.first = x.first /\ n.rest = x.rest /\ n.full = x.full /\ n.count = x.count /\ n.ok = (x.ok /\ check)
        /\ n \in GroupStates
    <3> HIDE DEF check
    <3> QED  BY <2>2, <2>3, <2>4 DEF GroupStates
  <2>6. Grouping(z, limit, n, Append(p, m))
    <3> HIDE DEF check
    <3> QED  BY <2>1, <2>5 DEF Grouping
  <2>7. Fitting(limit, n)  BY <2>5 DEF Fitting
  <2> QED  BY <2>6, <2>7 DEF n
<1> QED  BY <1>1, <1>2

\* group keeps the function of every layout, of any number of modes, and gives the first part
\* the size that was asked for: the two parts, one after the other, are the layout, and when
\* modes of stride 0 are ignored the first part has that many different elements at least
\* as its modes count them (TensorLayout group).
THEOREM GroupKeepsLayouts ==
  ASSUME NEW a \in Layouts, NEW size \in Nat \ {0}
  PROVE  /\ Group(a, size, FALSE).ok =>
              LET parts == Group(a, size, FALSE)
              IN  /\ parts.first \o parts.rest \in Layouts /\ Size(parts.first \o parts.rest) = Size(a)
                  /\ \A i \in Domain(a) : Offset(parts.first \o parts.rest, i) = Offset(a, i)
                  /\ size <= Size(a) => Size(parts.first) = size
         /\ Group(a, size, TRUE).ok =>
              (size <= Size(Filter(a)) => Size(Filter(Group(a, size, TRUE).first)) = size)
<1>1. a \in Seq(AnyMode) /\ Len(a) \in Nat /\ SubSeq(a, 1, Len(a)) = a
  <2>1. a \in Seq(AnyMode)  BY DEF Layouts
  <2> QED  BY <2>1, SubSeqFull
<1>2. ASSUME NEW z \in BOOLEAN PROVE Grouping(z, size, Group(a, size, z), a)
  <2>0. PICK F : GroupsBy(a, size, z, F)  BY <1>1, GroupStages
  <2>1. /\ F[0] = Ungrouped /\ Group(a, size, z) = F[Len(a)]
        /\ \A k \in 1 .. Len(a) : F[k] = GroupStep(size, z, F[k - 1], a[k])
    BY <2>0 DEF GroupsBy
  <2> DEFINE Fine(n) == Grouping(z, size, F[n], SubSeq(a, 1, n)) /\ Fitting(size, F[n])
             T == {n \in 0 .. Len(a) : ~ Fine(n)}
  <2>2. T = {}
    <3>1. SUFFICES ASSUME T # {} PROVE FALSE  OBVIOUS
    <3>2. PICK n \in T : \A y \in T : n <= y
      <4>1. T \in SUBSET Nat  OBVIOUS
      <4> HIDE DEF T
      <4> QED  BY <3>1, <4>1, LeastOf
    <3>3. CASE n = 0
      <4>1. SubSeq(a, 1, 0) = <<>> /\ <<>> \in Layouts
        <5>1. 0 \in 0 .. Len(a)  BY <1>1
        <5>2. SubSeq(a, 1, 0) \in Seq(AnyMode) /\ Len(SubSeq(a, 1, 0)) = 0  BY <1>1, <5>1, PrefixOf
        <5> QED  BY <5>2 DEF Layouts
      <4>2. <<>> \o <<>> = <<>>  BY <4>1, ConcatEmpty
      <4>3. size % 1 = 0
        <5>1. IsDivision(size, 1, size, 0)  BY DEF IsDivision
        <5> QED  BY <5>1, DivUnique
      <4>4. Ungrouped \in GroupStates  BY <4>1 DEF Ungrouped, GroupStates
      <4>5. Same(<<>>, <<>>)  BY <4>1 DEF Same
      <4>6. Grouping(z, size, Ungrouped, <<>>)
        BY <4>2, <4>4, <4>5, NoElements DEF Grouping, Ungrouped
      <4>7. Fitting(size, Ungrouped)  BY <4>3 DEF Fitting, Ungrouped
      <4> QED  BY <2>1, <3>2, <3>3, <4>1, <4>6, <4>7
    <3>4. CASE n # 0
      <4>1. n \in 1 .. Len(a) /\ n - 1 \in 0 .. Len(a) /\ ~ (n <= n - 1)  BY <1>1, <3>2, <3>4
      <4>2. Fine(n - 1)  BY <3>2, <4>1
      <4>3. a[n] \in AnyMode /\ SubSeq(a, 1, n - 1) \in Layouts  BY <1>1, <4>1, PrefixOf DEF Layouts
      <4>4. SubSeq(a, 1, n) = Append(SubSeq(a, 1, n - 1), a[n])  BY <1>1, <4>1, PrefixAppend
      <4>5. F[n] = GroupStep(size, z, F[n - 1], a[n])  BY <2>1, <4>1
      <4>6. Fine(n)  BY <4>2, <4>3, <4>4, <4>5, GroupStepKeeps
      <4> QED  BY <3>2, <4>6
    <3> QED  BY <3>3, <3>4
  <2>3. Len(a) \in 0 .. Len(a)  BY <1>1
  <2>4. Fine(Len(a))  BY <2>2, <2>3
  <2> QED  BY <1>1, <2>1, <2>4
<1>3. ASSUME NEW z \in BOOLEAN, Group(a, size, z).ok, size <= Elements(z, a)
      PROVE Elements(z, Group(a, size, z).first) = size
  <2>1. PICK st : st = Group(a, size, z)  OBVIOUS
  <2>2. Grouping(z, size, st, a) /\ st.ok  BY <1>2, <1>3, <2>1
  <2>3. st.count \in Nat /\ st.count = Elements(z, a)
        /\ Elements(z, st.first) = (IF st.full THEN size ELSE st.count)
        /\ (~ st.full => st.count <= size)
    BY <2>2 DEF Grouping, GroupStates
  <2> QED  BY <1>3, <2>1, <2>3
<1>4. ASSUME Group(a, size, FALSE).ok
      PROVE  LET parts == Group(a, size, FALSE)
             IN  /\ parts.first \o parts.rest \in Layouts /\ Size(parts.first \o parts.rest) = Size(a)
                 /\ \A i \in Domain(a) : Offset(parts.first \o parts.rest, i) = Offset(a, i)
                 /\ size <= Size(a) => Size(parts.first) = size
  <2>1. PICK st : st = Group(a, size, FALSE)  OBVIOUS
  <2>2. Same(st.first \o st.rest, a)  BY <1>2, <1>4, <2>1 DEF Grouping
  <2>3. \A i \in Domain(a) : i \in Nat /\ i \in Domain(st.first \o st.rest)
    BY <2>2, SizePositive DEF Domain, Same
  <2>4. \A i \in Domain(a) : Offset(st.first \o st.rest, i) = Offset(a, i)
    BY <2>2, <2>3, WholeIsOffset DEF Same
  <2>5. size <= Size(a) => Size(st.first) = size  BY <1>3, <1>4, <2>1 DEF Elements
  <2> QED  BY <2>1, <2>2, <2>4, <2>5 DEF Same
<1>5. ASSUME Group(a, size, TRUE).ok, size <= Size(Filter(a))
      PROVE  Size(Filter(Group(a, size, TRUE).first)) = size
  <2>1. \A x \in Layouts : Size(Filter(x)) = Elements(TRUE, x)
    <3> TAKE x \in Layouts
    <3>1. FilterZeros(x) \in Layouts
      <4>1. Mode(1, 1) \in AnyMode  BY DEF AnyMode, Mode
      <4> QED  BY <4>1, FilterAppend
    <3> QED  BY <3>1, CoalesceKeepsLayouts DEF Filter, Elements
  <2>2. Group(a, size, TRUE).first \in Layouts  BY <1>2 DEF Grouping, GroupStates
  <2> QED  BY <1>3, <1>5, <2>1, <2>2
<1> QED  BY <1>4, <1>5

-----------------------------------------------------------------------------
(* Layouts: common_reshape.                                                 *)

\* The first modes of a layout decide the offsets of the first indices.
LEMMA ConcatKeeps ==
  ASSUME NEW x \in Layouts
  PROVE  \A y \in Layouts : /\ x \o y \in Layouts /\ Size(x) <= Size(x \o y)
                            /\ \A i \in 0 .. Size(x) - 1 : Whole(x \o y, i) = Whole(x, i)
<1> DEFINE T == {y \in Layouts : /\ x \o y \in Layouts /\ Size(x) <= Size(x \o y)
                                 /\ \A i \in 0 .. Size(x) - 1 : Whole(x \o y, i) = Whole(x, i)}
<1>1. Size(x) \in Nat \ {0}  BY SizePositive
<1>2. T \in SUBSET Layouts /\ <<>> \in T
  <2>1. x \o <<>> = x /\ <<>> \in Layouts  BY ConcatEmpty DEF Layouts
  <2> QED  BY <1>1, <2>1
<1>3. ASSUME NEW z \in T, NEW m \in AnyMode PROVE Append(z, m) \in T
  <2>1. z \in Layouts /\ x \o z \in Layouts /\ Size(x) <= Size(x \o z)
        /\ \A i \in 0 .. Size(x) - 1 : Whole(x \o z, i) = Whole(x, i)
    OBVIOUS
  <2> HIDE DEF T
  <2>2. x \o Append(z, m) = Append(x \o z, m) /\ Append(z, m) \in Layouts  BY <2>1, ConcatAppend, AppendAt
  <2>3. Size(x \o z) \in Nat \ {0} /\ m.size \in Nat \ {0} /\ m.stride \in Nat
    BY <2>1, SizePositive DEF AnyMode
  <2>4. Size(x \o Append(z, m)) = Size(x \o z) * m.size  BY <2>1, <2>2, SizeAppend
  <2>5. Size(x) <= Size(x \o Append(z, m))
    <3>1. Size(x \o z) <= Size(x \o z) * m.size /\ Size(x \o z) * m.size \in Nat  BY <2>3
    <3> QED  BY <1>1, <2>1, <2>3, <2>4, <3>1
  <2>6. ASSUME NEW i \in 0 .. Size(x) - 1 PROVE Whole(x \o Append(z, m), i) = Whole(x, i)
    <3>1. i \in Nat /\ i < Size(x \o z)  BY <1>1, <2>1, <2>3
    <3>2. i \div Size(x \o z) = 0
      <4>1. IsDivision(i, Size(x \o z), 0, i)  BY <2>3, <3>1 DEF IsDivision
      <4> QED  BY <2>3, <4>1, DivUnique
    <3>3. 0 % m.size = 0
      <4>1. IsDivision(0, m.size, 0, 0)  BY <2>3 DEF IsDivision
      <4> QED  BY <2>3, <4>1, DivUnique
    <3>4. Whole(x \o Append(z, m), i) = Whole(x \o z, i) + 0 * m.stride
      BY <2>1, <2>2, <3>2, <3>3, WholeAppend
    <3>5. Whole(x \o z, i) = Whole(x, i) /\ Whole(x, i) \in Nat  BY <2>1, <3>1, WholeIsNat
    <3> QED  BY <2>3, <3>4, <3>5
  <2>7. x \o Append(z, m) \in Layouts  BY <2>1, <2>2, AppendAt
  <2> QED  BY <2>2, <2>5, <2>6, <2>7 DEF T
<1> HIDE DEF T
<1>4. \A y \in Layouts : y \in T  BY <1>2, <1>3, AllLayouts
<1> QED  BY <1>4 DEF T

LEMMA SameConcat ==
  ASSUME NEW x \in Layouts, NEW y \in Layouts, Same(x, y)
  PROVE  \A t \in Layouts : Same(x \o t, y \o t)
<1> DEFINE T == {t \in Layouts : Same(x \o t, y \o t)}
<1>1. T \in SUBSET Layouts /\ <<>> \in T  BY ConcatEmpty DEF Layouts
<1>2. ASSUME NEW z \in T, NEW m \in AnyMode PROVE Append(z, m) \in T
  <2>1. z \in Layouts /\ Same(x \o z, y \o z)  OBVIOUS
  <2> HIDE DEF T
  <2>2. /\ x \o z \in Layouts /\ x \o Append(z, m) = Append(x \o z, m)
        /\ y \o z \in Layouts /\ y \o Append(z, m) = Append(y \o z, m)
    BY <2>1, ConcatAppend
  <2>3. Same(x \o Append(z, m), y \o Append(z, m))  BY <2>1, <2>2, SameAppend
  <2> QED  BY <2>1, <2>3, AppendAt DEF T
<1> HIDE DEF T
<1>3. \A t \in Layouts : t \in T  BY <1>1, <1>2, AllLayouts
<1> QED  BY <1>3 DEF T

\* The fold of common_reshape.
Unshaped(a, b) == [ok |-> TRUE, a |-> a, b |-> b, outA |-> <<>>, outB |-> <<>>]
ReshapedOf(a, b, N) == CHOOSE g : g = [s \in SUBSET DOMAIN [turn \in 1 .. N |-> turn] |->
  IF s = {} THEN Unshaped(a, b) ELSE ReshapeStep(g[s \ {Max(s)}])]

\* The modes of size 1 that common_reshape adds for those of the other layout, and its result.
Unmoved(x) == [k \in DOMAIN LeadingOnes(x) |-> Mode(1, 1)]
Reshapes(st) == [ok |-> st.ok,
                 a  |-> st.outA \o LeadingOnes(st.a) \o Unmoved(st.b),
                 b  |-> st.outB \o Unmoved(st.a) \o LeadingOnes(st.b)]

LEMMA ReshapeStages ==
  ASSUME NEW a \in Layouts, NEW b \in Layouts
  PROVE  \E F : /\ F[0] = Unshaped(a, b)
                /\ \A k \in 1 .. Len(a) + Len(b) : F[k] = ReshapeStep(F[k - 1])
                /\ CommonReshape(a, b) = Reshapes(F[Len(a) + Len(b)])
<1> DEFINE N == Len(a) + Len(b)  turns == [turn \in 1 .. N |-> turn]
<1>1. N \in Nat /\ DOMAIN turns = 1 .. N  BY DEF Layouts
<1>2. CommonReshape(a, b) = Reshapes(ReshapedOf(a, b, N)[DOMAIN turns])
  BY DEF CommonReshape, FoldLeft, MapThenFoldSet, ReshapedOf, Unshaped, Reshapes, Unmoved
<1> DEFINE Step(g, s) == IF s = {} THEN Unshaped(a, b) ELSE ReshapeStep(g[s \ {Max(s)}])
<1>3. ReshapedOf(a, b, N) = CHOOSE g : g = [s \in SUBSET DOMAIN turns |-> Step(g, s)]  BY DEF ReshapedOf
<1>4. \A g, s : Unfold("reshape", Unshaped(a, b), <<>>, g, s) = Step(g, s)  BY DEF Unfold, Applied, Taken
<1> HIDE DEF Step, N
<1>5. PICK g : Folds("reshape", Unshaped(a, b), <<>>, 1 .. N, g)  BY <1>1, StagesExist
<1>6. g = [s \in SUBSET DOMAIN turns |-> Step(g, s)]  BY <1>1, <1>4, <1>5 DEF Folds
<1>7. ReshapedOf(a, b, N) = [s \in SUBSET DOMAIN turns |-> Step(ReshapedOf(a, b, N), s)]  BY <1>3, <1>6
<1>8. Folds("reshape", Unshaped(a, b), <<>>, 1 .. N, ReshapedOf(a, b, N))  BY <1>1, <1>4, <1>7 DEF Folds
<1>9. PICK F : Stages("reshape", Unshaped(a, b), <<>>, N, F) /\ ReshapedOf(a, b, N)[1 .. N] = F[N]
  BY <1>1, <1>8, FoldStages
<1>10. F[0] = Unshaped(a, b) /\ \A k \in 1 .. N : F[k] = ReshapeStep(F[k - 1])  BY <1>9 DEF Stages, Applied
<1>11. CommonReshape(a, b) = Reshapes(F[N])  BY <1>1, <1>2, <1>9
<1> QED  BY <1>10, <1>11 DEF N

\* A mode that is used up to s, a part of which is put out.
UsedUp(x, s) == IF Head(x).size = s THEN Tail(x)
                ELSE <<Mode(Head(x).size \div s, Head(x).stride * s)>> \o Tail(x)

LEMMA UsedKeeps ==
  ASSUME NEW a \in Layouts, NEW out \in Layouts, NEW x \in Layouts, x # <<>>, Same(out \o x, a),
         NEW s \in Nat \ {0}, s <= Head(x).size, Head(x).size % s = 0
  PROVE  /\ UsedUp(x, s) \in Layouts /\ Mode(s, Head(x).stride) \in AnyMode
         /\ Same(Append(out, Mode(s, Head(x).stride)) \o UsedUp(x, s), a)
<1> DEFINE h == Head(x)  t == Tail(x)  l == Mode(s, h.stride)  r == Mode(h.size \div s, h.stride * s)
<1>1. h \in AnyMode /\ t \in Layouts /\ x = <<h>> \o t  BY DEF Layouts
<1>2. h.size \in Nat \ {0} /\ h.stride \in Nat /\ h = [size |-> h.size, stride |-> h.stride]
  BY <1>1 DEF AnyMode
<1>3. out \o x = Append(out, h) \o t
  <2> HIDE DEF h, t
  <2>1. out \in Seq(AnyMode) /\ <<h>> \in Seq(AnyMode) /\ t \in Seq(AnyMode)  BY <1>1 DEF Layouts
  <2>2. out \o (<<h>> \o t) = (out \o <<h>>) \o t  BY <2>1
  <2>3. out \o <<h>> = Append(out, h)  BY <1>1, <2>1
  <2> QED  BY <1>1, <2>2, <2>3
<1>4. l \in AnyMode /\ l.size = s /\ l.stride = h.stride  BY <1>2 DEF AnyMode, Mode
<1>5. CASE h.size = s
  <2>1. l = h /\ UsedUp(x, s) = t  BY <1>2, <1>5 DEF Mode, UsedUp
  <2> QED  BY <1>1, <1>3, <1>4, <2>1
<1>6. CASE h.size # s
  <2>1. UsedUp(x, s) = <<r>> \o t  BY <1>6 DEF UsedUp
  <2>2. h.size \div s \in Nat \ {0} /\ h.size = s * (h.size \div s)
    <3>1. h.size % s = 0 => h.size = s * ShapeDiv(h.size, s)  BY <1>2, ShapeDivPositive
    <3>2. ShapeDiv(h.size, s) = h.size \div s /\ ShapeDiv(h.size, s) \in Nat \ {0}
      BY <1>2, ShapeDivPositive DEF ShapeDiv
    <3> QED  BY <3>1, <3>2
  <2>3. h.stride * s \in Nat /\ h.stride * s = s * h.stride  BY <1>2
  <2>4. r \in AnyMode /\ r.size = h.size \div s /\ r.stride = s * h.stride  BY <2>2, <2>3 DEF AnyMode, Mode
  <2>5. Mode(l.size * r.size, l.stride) = h  BY <1>2, <1>4, <2>2, <2>4 DEF Mode
  <2> HIDE DEF h, t, l, r
  <2>6. Append(out, l) \in Layouts /\ Append(Append(out, l), r) \in Layouts /\ Append(out, h) \in Layouts
    BY <1>1, <1>4, <2>4, AppendAt
  <2>7. Same(Append(out, h), Append(Append(out, l), r))  BY <1>4, <2>4, <2>5, ModeInTwo
  <2>8. Same(Append(Append(out, l), r), Append(out, h))  BY <2>6, <2>7 DEF Same
  <2>9. Same(Append(Append(out, l), r) \o t, Append(out, h) \o t)  BY <1>1, <2>6, <2>8, SameConcat
  <2>10. Append(out, l) \o (<<r>> \o t) = Append(Append(out, l), r) \o t /\ <<r>> \o t \in Layouts
    <3>1. Append(out, l) \in Seq(AnyMode) /\ <<r>> \in Seq(AnyMode) /\ t \in Seq(AnyMode)
      BY <1>1, <2>4, <2>6 DEF Layouts
    <3>2. Append(out, l) \o (<<r>> \o t) = (Append(out, l) \o <<r>>) \o t  BY <3>1
    <3>3. Append(out, l) \o <<r>> = Append(Append(out, l), r)  BY <2>4, <3>1
    <3>4. <<r>> \o t \in Seq(AnyMode)  BY <3>1
    <3> QED  BY <3>2, <3>3, <3>4 DEF Layouts
  <2>11. Same(Append(out, l) \o UsedUp(x, s), a)  BY <1>3, <2>1, <2>9, <2>10 DEF Same
  <2> QED  BY <1>4, <2>1, <2>10, <2>11 DEF h, l
<1> QED  BY <1>5, <1>6

\* What common_reshape has after some turns: what it put out for each layout and what is
\* left of it are the layout, and both have put out the same sizes.
SameShape(x, y) == Len(x) = Len(y) /\ \A k \in 1 .. Len(x) : x[k].size = y[k].size
Reshaping(a, b, st) == st.ok =>
  /\ st.a \in Layouts /\ st.outA \in Layouts /\ Same(st.outA \o st.a, a)
  /\ st.b \in Layouts /\ st.outB \in Layouts /\ Same(st.outB \o st.b, b)
  /\ SameShape(st.outA, st.outB)

LEMMA ReshapeStepKeeps ==
  ASSUME NEW a \in Layouts, NEW b \in Layouts, NEW st, Reshaping(a, b, st)
  PROVE  Reshaping(a, b, ReshapeStep(st))
<1> DEFINE m == Head(st.a)  n == Head(st.b)  s == Least(m.size, n.size)  next == ReshapeStep(st)
<1>1. CASE st.a = <<>> \/ st.b = <<>> \/ ~ st.ok
  <2>1. next = st  BY <1>1 DEF ReshapeStep
  <2> QED  BY <2>1
<1>2. CASE ~ (st.a = <<>> \/ st.b = <<>> \/ ~ st.ok)
  <2>1. next = [ok |-> Divides(m.size, n.size), a |-> UsedUp(st.a, s), b |-> UsedUp(st.b, s),
                outA |-> Append(st.outA, Mode(s, m.stride)), outB |-> Append(st.outB, Mode(s, n.stride))]
    BY <1>2 DEF ReshapeStep, UsedUp
  <2>2. SUFFICES ASSUME Divides(m.size, n.size) PROVE Reshaping(a, b, next)
    <3>1. next.ok = Divides(m.size, n.size)  BY <2>1
    <3> QED  BY <3>1 DEF Reshaping
  <2>3. /\ st.a \in Layouts /\ st.outA \in Layouts /\ Same(st.outA \o st.a, a)
        /\ st.b \in Layouts /\ st.outB \in Layouts /\ Same(st.outB \o st.b, b)
        /\ SameShape(st.outA, st.outB)
    BY <1>2 DEF Reshaping
  <2>4. m \in AnyMode /\ n \in AnyMode  BY <1>2, <2>3 DEF Layouts
  <2>5. m.size \in Nat \ {0} /\ n.size \in Nat \ {0}  BY <2>4 DEF AnyMode
  <2>6. s \in Nat \ {0} /\ s <= m.size /\ s <= n.size /\ m.size % s = 0 /\ n.size % s = 0
    <3>1. PICK x \in Nat \ {0}, y \in Nat \ {0} : x = m.size /\ y = n.size  BY <2>5
    <3>2. x % x = 0 /\ y % y = 0
      <4>1. IsDivision(x, x, 1, 0) /\ IsDivision(y, y, 1, 0)  BY DEF IsDivision
      <4> QED  BY <4>1, DivUnique
    <3>3. x % y = 0 => y <= x
      <4>1. IsDivision(x, y, 0, x) \/ y <= x  BY DEF IsDivision
      <4>2. IsDivision(x, y, 0, x) => x % y = x  BY DivUnique
      <4> QED  BY <4>1, <4>2
    <3>4. y % x = 0 => x <= y
      <4>1. IsDivision(y, x, 0, y) \/ x <= y  BY DEF IsDivision
      <4>2. IsDivision(y, x, 0, y) => y % x = y  BY DivUnique
      <4> QED  BY <4>1, <4>2
    <3>5. x % y = 0 \/ y % x = 0  BY <2>2, <3>1 DEF Divides
    <3>6. PICK z \in Nat \ {0} : z = Least(x, y)  BY DEF Least
    <3>7. (z = x /\ x < y) \/ (z = y /\ y <= x)  BY <3>6 DEF Least
    <3>8. CASE z = x /\ x < y
      <4>1. y % x = 0  BY <3>3, <3>5, <3>8
      <4> QED  BY <3>1, <3>2, <3>6, <3>8, <4>1
    <3>9. CASE z = y /\ y <= x
      <4>1. x % y = 0
        <5>1. CASE x = y  BY <3>2, <5>1
        <5>2. CASE x # y  BY <3>4, <3>5, <3>9, <5>2
        <5> QED  BY <5>1, <5>2
      <4> QED  BY <3>1, <3>2, <3>6, <3>9, <4>1
    <3> QED  BY <3>7, <3>8, <3>9
  <2> DEFINE l == Mode(s, m.stride)  r == Mode(s, n.stride)
  <2> HIDE DEF s
  <2>7. UsedUp(st.a, s) \in Layouts /\ l \in AnyMode /\ Same(Append(st.outA, l) \o UsedUp(st.a, s), a)
    BY <1>2, <2>3, <2>6, UsedKeeps
  <2>8. UsedUp(st.b, s) \in Layouts /\ r \in AnyMode /\ Same(Append(st.outB, r) \o UsedUp(st.b, s), b)
    BY <1>2, <2>3, <2>6, UsedKeeps
  <2>9. l.size = r.size  BY DEF Mode
  <2> HIDE DEF l, r, m, n
  <2>10. Append(st.outA, l) \in Layouts /\ Append(st.outB, r) \in Layouts
    BY <2>3, <2>7, <2>8, AppendAt
  <2>11. SameShape(Append(st.outA, l), Append(st.outB, r))
    <3>1. /\ Len(Append(st.outA, l)) = Len(st.outA) + 1 /\ Len(st.outA) \in Nat
          /\ \A k \in 1 .. Len(st.outA) : Append(st.outA, l)[k] = st.outA[k]
          /\ Append(st.outA, l)[Len(st.outA) + 1] = l
      BY <2>3, <2>7, AppendAt
    <3>2. /\ Len(Append(st.outB, r)) = Len(st.outB) + 1 /\ Len(st.outB) \in Nat
          /\ \A k \in 1 .. Len(st.outB) : Append(st.outB, r)[k] = st.outB[k]
          /\ Append(st.outB, r)[Len(st.outB) + 1] = r
      BY <2>3, <2>8, AppendAt
    <3>3. Len(st.outA) = Len(st.outB) /\ \A k \in 1 .. Len(st.outA) : st.outA[k].size = st.outB[k].size
      BY <2>3 DEF SameShape
    <3>4. ASSUME NEW k \in 1 .. Len(st.outA) + 1 PROVE Append(st.outA, l)[k].size = Append(st.outB, r)[k].size
      <4>1. CASE k = Len(st.outA) + 1  BY <2>9, <3>1, <3>2, <3>3, <4>1
      <4>2. CASE k # Len(st.outA) + 1
        <5>1. k \in 1 .. Len(st.outA)  BY <3>1, <4>2
        <5> QED  BY <3>1, <3>2, <3>3, <5>1
      <4> QED  BY <4>1, <4>2
    <3> QED  BY <3>1, <3>2, <3>3, <3>4 DEF SameShape
  <2>12. /\ next.a = UsedUp(st.a, s) /\ next.outA = Append(st.outA, l)
         /\ next.b = UsedUp(st.b, s) /\ next.outB = Append(st.outB, r)
    BY <2>1 DEF l, r
  <2> QED  BY <2>7, <2>8, <2>10, <2>11, <2>12 DEF Reshaping
<1> QED  BY <1>1, <1>2

\* Modes of size 1 change nothing.
AllOnes(v) == \A k \in 1 .. Len(v) : v[k].size = 1

LEMMA OnesKeepSize ==
  ASSUME NEW x \in Layouts
  PROVE  \A y \in Layouts : AllOnes(y) => Size(x \o y) = Size(x)
<1> DEFINE T == {y \in Layouts : AllOnes(y) => Size(x \o y) = Size(x)}
<1>1. T \in SUBSET Layouts /\ <<>> \in T  BY ConcatEmpty DEF Layouts
<1>2. ASSUME NEW z \in T, NEW m \in AnyMode PROVE Append(z, m) \in T
  <2>1. z \in Layouts /\ (AllOnes(z) => Size(x \o z) = Size(x))  OBVIOUS
  <2> HIDE DEF T
  <2>2. /\ Append(z, m) \in Layouts /\ Len(Append(z, m)) = Len(z) + 1 /\ Len(z) \in Nat
        /\ \A k \in 1 .. Len(z) : Append(z, m)[k] = z[k]
        /\ Append(z, m)[Len(z) + 1] = m
    BY <2>1, AppendAt
  <2>3. x \o z \in Layouts /\ x \o Append(z, m) = Append(x \o z, m)  BY <2>1, ConcatAppend
  <2>4. ASSUME AllOnes(Append(z, m)) PROVE Size(x \o Append(z, m)) = Size(x)
    <3>1. AllOnes(z)  BY <2>2, <2>4 DEF AllOnes
    <3>2. m.size = 1
      <4>1. Len(z) + 1 \in 1 .. Len(Append(z, m))  BY <2>2
      <4> QED  BY <2>2, <2>4, <4>1 DEF AllOnes
    <3>3. Size(x \o Append(z, m)) = Size(x) * 1  BY <2>1, <2>3, <3>1, <3>2, SizeAppend
    <3>4. Size(x) \in Nat  BY SizePositive
    <3> QED  BY <3>3, <3>4
  <2> QED  BY <2>2, <2>4 DEF T
<1> HIDE DEF T
<1>3. \A y \in Layouts : y \in T  BY <1>1, <1>2, AllLayouts
<1> QED  BY <1>3 DEF T

LEMMA OnesAreOnes ==
  ASSUME NEW x \in Layouts
  PROVE  LeadingOnes(x) \in Layouts /\ AllOnes(LeadingOnes(x))
<1> DEFINE I == {i \in 1 .. Len(x) : x[i].size # 1}
<1>1. x \in Seq(AnyMode) /\ Len(x) \in Nat  BY DEF Layouts
<1>2. Ones(x) = IF I # {} THEN Min(I) ELSE 0  BY DEF Ones, SelectInSeq
<1>3. CASE I = {}
  <2>1. LeadingOnes(x) = x  BY <1>2, <1>3 DEF LeadingOnes
  <2> QED  BY <1>3, <2>1 DEF AllOnes
<1>4. CASE I # {}
  <2>1. PICK n \in I : \A i \in I : n <= i
    <3>1. I \in SUBSET Nat  OBVIOUS
    <3> HIDE DEF I
    <3> QED  BY <1>4, <3>1, LeastOf
  <2>2. Min(I) \in I /\ \A i \in I : Min(I) <= i
    <3>1. \E y \in I : \A i \in I : y <= i  BY <2>1
    <3> HIDE DEF I
    <3> QED  BY <3>1 DEF Min
  <2>3. PICK k : k = Min(I)  OBVIOUS
  <2>4. k \in 1 .. Len(x) /\ Ones(x) = k /\ k # 0  BY <1>1, <1>2, <1>4, <2>2, <2>3
  <2>5. LeadingOnes(x) = SubSeq(x, 1, k - 1)  BY <2>4 DEF LeadingOnes
  <2>6. k - 1 \in 0 .. Len(x)  BY <1>1, <2>4
  <2>7. SubSeq(x, 1, k - 1) \in Seq(AnyMode) /\ Len(SubSeq(x, 1, k - 1)) = k - 1
        /\ \A i \in 1 .. k - 1 : SubSeq(x, 1, k - 1)[i] = x[i]
    BY <1>1, <2>6, PrefixOf
  <2>8. \A i \in 1 .. k - 1 : x[i].size = 1
    <3>1. \A i \in 1 .. k - 1 : i \in 1 .. Len(x) /\ ~ (k <= i)  BY <1>1, <2>4
    <3> QED  BY <2>2, <2>3, <3>1
  <2> QED  BY <2>5, <2>7, <2>8 DEF Layouts, AllOnes
<1> QED  BY <1>3, <1>4

LEMMA ConcatAt ==
  ASSUME NEW S, NEW x \in Seq(S), NEW y \in Seq(S)
  PROVE  /\ x \o y \in Seq(S) /\ Len(x \o y) = Len(x) + Len(y) /\ Len(x) \in Nat /\ Len(y) \in Nat
         /\ \A k \in 1 .. Len(x) : (x \o y)[k] = x[k]
         /\ \A k \in 1 .. Len(y) : (x \o y)[Len(x) + k] = y[k]
OBVIOUS

\* Two layouts of one shape, continued by modes of size 1.
LEMMA ShapeConcat ==
  ASSUME NEW x \in Layouts, NEW y \in Layouts, NEW v \in Layouts, NEW w \in Layouts,
         SameShape(x, y), SameShape(v, w)
  PROVE  SameShape(x \o v, y \o w)
<1>1. /\ Len(x \o v) = Len(x) + Len(v) /\ Len(x) \in Nat /\ Len(v) \in Nat
      /\ \A k \in 1 .. Len(x) : (x \o v)[k] = x[k]
      /\ \A k \in 1 .. Len(v) : (x \o v)[Len(x) + k] = v[k]
  BY ConcatAt DEF Layouts
<1>2. /\ Len(y \o w) = Len(y) + Len(w)
      /\ \A k \in 1 .. Len(y) : (y \o w)[k] = y[k]
      /\ \A k \in 1 .. Len(w) : (y \o w)[Len(y) + k] = w[k]
  BY ConcatAt DEF Layouts
<1>3. Len(x) = Len(y) /\ Len(v) = Len(w)  BY DEF SameShape
<1>4. ASSUME NEW k \in 1 .. Len(x) + Len(v) PROVE (x \o v)[k].size = (y \o w)[k].size
  <2>1. CASE k <= Len(x)
    <3>1. k \in 1 .. Len(x)  BY <1>1, <2>1
    <3> QED  BY <1>1, <1>2, <1>3, <3>1 DEF SameShape
  <2>2. CASE ~ (k <= Len(x))
    <3>1. PICK j \in 1 .. Len(v) : k = Len(x) + j
      <4>1. k - Len(x) \in 1 .. Len(v) /\ k = Len(x) + (k - Len(x))  BY <1>1, <2>2
      <4> QED  BY <4>1
    <3>2. v[j].size = w[j].size  BY DEF SameShape
    <3> QED  BY <1>1, <1>2, <1>3, <3>1, <3>2
  <2> QED  BY <2>1, <2>2
<1> QED  BY <1>1, <1>2, <1>3, <1>4 DEF SameShape

\* A layout that is given back: what was put out for c, and modes of size 1.
LEMMA PutOutKeeps ==
  ASSUME NEW out \in Layouts, NEW y \in Layouts, NEW c \in Layouts, NEW v \in Layouts, NEW w \in Layouts,
         Same(out \o y, c), AllOnes(v), AllOnes(w)
  PROVE  out \o v \o w \in Layouts /\ \A i \in Domain(out \o v \o w) : Offset(c, i) = Offset(out \o v \o w, i)
<1>1. out \o v \in Layouts /\ Size(out \o v) = Size(out)  BY ConcatKeeps, OnesKeepSize
<1>2. out \o v \o w \in Layouts /\ Size(out \o v \o w) = Size(out)
  BY <1>1, ConcatKeeps, OnesKeepSize
<1>3. Size(out) \in Nat \ {0} /\ Size(c) \in Nat /\ Size(out) <= Size(c)
  <2>1. Size(out) <= Size(out \o y) /\ Size(out \o y) = Size(c)  BY ConcatKeeps DEF Same
  <2> QED  BY <2>1, SizePositive
<1>4. ASSUME NEW i \in Domain(out \o v \o w) PROVE Offset(c, i) = Offset(out \o v \o w, i)
  <2>1. i \in Nat /\ i \in 0 .. Size(out) - 1 /\ i \in Domain(c)  BY <1>2, <1>3 DEF Domain
  <2>2. Offset(c, i) = Whole(c, i) /\ Offset(out \o v \o w, i) = Whole(out \o v \o w, i)
    BY <1>2, <2>1, WholeIsOffset
  <2>3. Whole(c, i) = Whole(out \o y, i)  BY <2>1 DEF Same
  <2>4. Whole(out \o y, i) = Whole(out, i)  BY <2>1, ConcatKeeps
  <2>5. Whole(out \o v, i) = Whole(out, i)  BY <2>1, ConcatKeeps
  <2>6. Whole(out \o v \o w, i) = Whole(out \o v, i)  BY <1>1, <2>1, ConcatKeeps
  <2> QED  BY <2>2, <2>3, <2>4, <2>5, <2>6
<1> QED  BY <1>2, <1>4

\* common_reshape gives any two layouts one shape, and keeps the offsets of both at every
\* index that it has (TensorLayout common_reshape).
THEOREM ReshapeKeepsLayouts ==
  ASSUME NEW a \in Layouts, NEW b \in Layouts, CommonReshape(a, b).ok
  PROVE  LET both == CommonReshape(a, b)
         IN  /\ both.a \in Layouts /\ both.b \in Layouts
             /\ [k \in DOMAIN both.a |-> both.a[k].size] = [k \in DOMAIN both.b |-> both.b[k].size]
             /\ \A i \in Domain(both.a) : Offset(a, i) = Offset(both.a, i)
             /\ \A i \in Domain(both.b) : Offset(b, i) = Offset(both.b, i)
<1>1. PICK st : Reshaping(a, b, st) /\ st.ok /\ CommonReshape(a, b) = Reshapes(st)
  <2>1. PICK N : N = Len(a) + Len(b)  OBVIOUS
  <2>2. N \in Nat  BY <2>1 DEF Layouts
  <2>3. PICK F : /\ F[0] = Unshaped(a, b) /\ \A k \in 1 .. N : F[k] = ReshapeStep(F[k - 1])
                 /\ CommonReshape(a, b) = Reshapes(F[N])
    BY <2>1, ReshapeStages
  <2> DEFINE T == {n \in 0 .. N : ~ Reshaping(a, b, F[n])}
  <2>4. T = {}
    <3>1. SUFFICES ASSUME T # {} PROVE FALSE  OBVIOUS
    <3>2. PICK n \in T : \A y \in T : n <= y
      <4>1. T \in SUBSET Nat  OBVIOUS
      <4> HIDE DEF T
      <4> QED  BY <3>1, <4>1, LeastOf
    <3>3. CASE n = 0
      <4>1. <<>> \in Layouts /\ <<>> \o a = a /\ <<>> \o b = b /\ SameShape(<<>>, <<>>)
        BY DEF Layouts, SameShape
      <4>2. Reshaping(a, b, Unshaped(a, b))  BY <4>1 DEF Reshaping, Unshaped, Same
      <4> QED  BY <2>3, <3>2, <3>3, <4>2
    <3>4. CASE n # 0
      <4>1. n \in 1 .. N /\ n - 1 \in 0 .. N /\ ~ (n <= n - 1)  BY <2>2, <3>2, <3>4
      <4>2. Reshaping(a, b, F[n - 1])  BY <3>2, <4>1
      <4>3. F[n] = ReshapeStep(F[n - 1])  BY <2>3, <4>1
      <4>4. Reshaping(a, b, F[n])  BY <4>2, <4>3, ReshapeStepKeeps
      <4> QED  BY <3>2, <4>4
    <3> QED  BY <3>3, <3>4
  <2>5. Reshaping(a, b, F[N])
    <3>1. N \in 0 .. N  BY <2>2
    <3> QED  BY <2>4, <3>1
  <2>6. F[N].ok  BY <2>3 DEF Reshapes
  <2> QED  BY <2>3, <2>5, <2>6
<1>2. /\ st.a \in Layouts /\ st.outA \in Layouts /\ Same(st.outA \o st.a, a)
      /\ st.b \in Layouts /\ st.outB \in Layouts /\ Same(st.outB \o st.b, b)
      /\ SameShape(st.outA, st.outB)
  BY <1>1 DEF Reshaping
<1>3. ASSUME NEW x \in Layouts
      PROVE  /\ Unmoved(x) \in Layouts /\ AllOnes(Unmoved(x))
             /\ LeadingOnes(x) \in Layouts /\ AllOnes(LeadingOnes(x))
             /\ SameShape(LeadingOnes(x), Unmoved(x)) /\ SameShape(Unmoved(x), LeadingOnes(x))
  <2>1. PICK y : y = LeadingOnes(x)  OBVIOUS
  <2>2. y \in Layouts /\ \A k \in 1 .. Len(y) : y[k].size = 1  BY <2>1, OnesAreOnes DEF AllOnes
  <2>3. DOMAIN y = 1 .. Len(y) /\ Len(y) \in Nat  BY <2>2 DEF Layouts
  <2>4. PICK u : u = [k \in 1 .. Len(y) |-> Mode(1, 1)]  OBVIOUS
  <2>5. Mode(1, 1) \in AnyMode /\ Mode(1, 1).size = 1  BY DEF AnyMode, Mode
  <2>6. u \in Seq(AnyMode) /\ Len(u) = Len(y)
    <3>1. u \in [1 .. Len(y) -> AnyMode]  BY <2>4, <2>5
    <3> QED  BY <2>3, <3>1, SeqDef, LenProperties
  <2>7. \A k \in 1 .. Len(y) : u[k].size = 1  BY <2>4, <2>5
  <2>8. u = Unmoved(x)  BY <2>1, <2>3, <2>4 DEF Unmoved
  <2> QED  BY <2>1, <2>2, <2>6, <2>7, <2>8 DEF Layouts, SameShape, AllOnes
<1> DEFINE x == st.outA \o LeadingOnes(st.a) \o Unmoved(st.b)
           y == st.outB \o Unmoved(st.a) \o LeadingOnes(st.b)
<1>4. x \in Layouts /\ \A i \in Domain(x) : Offset(a, i) = Offset(x, i)
  <2>1. PICK o \in Layouts, r \in Layouts, v \in Layouts, w \in Layouts :
          /\ o = st.outA /\ r = st.a /\ v = LeadingOnes(st.a) /\ w = Unmoved(st.b)
          /\ AllOnes(v) /\ AllOnes(w)
    BY <1>2, <1>3
  <2>2. Same(o \o r, a)  BY <1>2, <2>1
  <2>3. o \o v \o w \in Layouts /\ \A i \in Domain(o \o v \o w) : Offset(a, i) = Offset(o \o v \o w, i)
    BY <2>1, <2>2, PutOutKeeps
  <2> QED  BY <2>1, <2>3
<1>5. y \in Layouts /\ \A i \in Domain(y) : Offset(b, i) = Offset(y, i)
  <2>1. PICK o \in Layouts, r \in Layouts, v \in Layouts, w \in Layouts :
          /\ o = st.outB /\ r = st.b /\ v = Unmoved(st.a) /\ w = LeadingOnes(st.b)
          /\ AllOnes(v) /\ AllOnes(w)
    BY <1>2, <1>3
  <2>2. Same(o \o r, b)  BY <1>2, <2>1
  <2>3. o \o v \o w \in Layouts /\ \A i \in Domain(o \o v \o w) : Offset(b, i) = Offset(o \o v \o w, i)
    BY <2>1, <2>2, PutOutKeeps
  <2> QED  BY <2>1, <2>3
<1>6. SameShape(x, y)
  <2>1. /\ LeadingOnes(st.a) \in Layouts /\ Unmoved(st.a) \in Layouts /\ SameShape(LeadingOnes(st.a), Unmoved(st.a))
        /\ LeadingOnes(st.b) \in Layouts /\ Unmoved(st.b) \in Layouts /\ SameShape(Unmoved(st.b), LeadingOnes(st.b))
    BY <1>2, <1>3
  <2>2. st.outA \o LeadingOnes(st.a) \in Layouts /\ st.outB \o Unmoved(st.a) \in Layouts
    BY <1>2, <2>1, ConcatKeeps
  <2>3. SameShape(st.outA \o LeadingOnes(st.a), st.outB \o Unmoved(st.a))  BY <1>2, <2>1, ShapeConcat
  <2> QED  BY <2>1, <2>2, <2>3, ShapeConcat
<1>7. CommonReshape(a, b) = [ok |-> st.ok, a |-> x, b |-> y]  BY <1>1 DEF Reshapes
<1> HIDE DEF x, y
<1>8. [k \in DOMAIN x |-> x[k].size] = [k \in DOMAIN y |-> y[k].size]
  <2>1. DOMAIN x = 1 .. Len(x) /\ DOMAIN y = 1 .. Len(y)  BY <1>4, <1>5 DEF Layouts
  <2>2. DOMAIN x = DOMAIN y /\ \A k \in DOMAIN x : x[k].size = y[k].size  BY <1>6, <2>1 DEF SameShape
  <2> QED  BY <2>2
<1>9. CommonReshape(a, b).a = x /\ CommonReshape(a, b).b = y  BY <1>7
<1> QED  BY <1>4, <1>5, <1>8, <1>9

-----------------------------------------------------------------------------
(* Layouts: filter_lo_hi.                                                   *)

\* The offset of an index in two layouts, one after the other.
LEMMA ConcatWhole ==
  ASSUME NEW x \in Layouts, NEW i \in Nat
  PROVE  \A y \in Layouts : /\ Size(x \o y) = Size(x) * Size(y)
                            /\ Whole(x \o y, i) = Whole(x, i) + Whole(y, i \div Size(x))
<1> DEFINE T == {y \in Layouts : /\ Size(x \o y) = Size(x) * Size(y)
                                 /\ Whole(x \o y, i) = Whole(x, i) + Whole(y, i \div Size(x))}
<1>1. Size(x) \in Nat \ {0} /\ Whole(x, i) \in Nat  BY SizePositive, WholeIsNat
<1>2. T \in SUBSET Layouts /\ <<>> \in T
  <2>1. x \o <<>> = x /\ <<>> \in Layouts  BY ConcatEmpty DEF Layouts
  <2>2. Size(x) = Size(x) * 1 /\ Whole(x, i) = Whole(x, i) + 0  BY <1>1
  <2> QED  BY <2>1, <2>2, EmptySize, WholeEmpty
<1>3. ASSUME NEW z \in T, NEW m \in AnyMode PROVE Append(z, m) \in T
  <2>1. z \in Layouts /\ Size(x \o z) = Size(x) * Size(z)
        /\ Whole(x \o z, i) = Whole(x, i) + Whole(z, i \div Size(x))
    OBVIOUS
  <2> HIDE DEF T
  <2>2. x \o z \in Layouts /\ x \o Append(z, m) = Append(x \o z, m) /\ Append(z, m) \in Layouts
    BY <2>1, ConcatAppend, AppendAt
  <2>3. PICK p \in Nat \ {0}, q \in Nat \ {0}, s \in Nat \ {0}, t \in Nat :
          p = Size(x) /\ q = Size(z) /\ s = m.size /\ t = m.stride
    BY <1>1, <2>1, SizePositive DEF AnyMode
  <2>4. PICK j \in Nat : j = i \div p
    <3>1. i \div p \in Nat  BY NatDivMod
    <3> QED  BY <3>1
  <2>5. j \div q = i \div (p * q)  BY <2>4, DivTwice
  <2>6. Whole(x \o Append(z, m), i) = Whole(x \o z, i) + ((i \div (p * q)) % s) * t
    BY <2>1, <2>2, <2>3, WholeAppend
  <2>7. Whole(Append(z, m), j) = Whole(z, j) + ((j \div q) % s) * t  BY <2>1, <2>3, WholeAppend
  <2>8. PICK e \in Nat : e = ((j \div q) % s) * t
    <3>1. j \div q \in Nat  BY <2>3, NatDivMod
    <3>2. (j \div q) % s \in Nat  BY <2>3, <3>1, DivMod
    <3>3. ((j \div q) % s) * t \in Nat  BY <2>3, <3>2
    <3> QED  BY <3>3
  <2>9. PICK v \in Nat, w \in Nat : v = Whole(x, i) /\ w = Whole(z, j)  BY <1>1, <2>1, WholeIsNat
  <2>10. Whole(x \o Append(z, m), i) = (v + w) + e  BY <2>1, <2>3, <2>4, <2>5, <2>6, <2>8, <2>9
  <2>11. Whole(x, i) + Whole(Append(z, m), i \div Size(x)) = v + (w + e)  BY <2>3, <2>4, <2>7, <2>8, <2>9
  <2>12. Whole(x \o Append(z, m), i) = Whole(x, i) + Whole(Append(z, m), i \div Size(x))
    BY <2>8, <2>9, <2>10, <2>11
  <2>13. Size(x \o Append(z, m)) = Size(x) * Size(Append(z, m))
    <3>1. Size(x \o Append(z, m)) = (p * q) * s  BY <2>1, <2>2, <2>3, SizeAppend
    <3>2. Size(Append(z, m)) = q * s  BY <2>1, <2>3, SizeAppend
    <3>3. (p * q) * s = p * (q * s)  BY <2>3
    <3> QED  BY <2>3, <3>1, <3>2, <3>3
  <2> QED  BY <2>2, <2>12, <2>13 DEF T
<1> HIDE DEF T
<1>4. \A y \in Layouts : y \in T  BY <1>2, <1>3, AllLayouts
<1> QED  BY <1>4 DEF T

\* Layouts of two and three modes, given by their sizes and strides.
OfTwo(o, p, x, q, y, c) ==
  o \in Layouts /\ Size(o) = p * q /\ Whole(o, c) = (c % p) * x + ((c \div p) % q) * y

OfThree(o, p, x, q, y, r, z, c) ==
  /\ o \in Layouts /\ Size(o) = (p * q) * r
  /\ Whole(o, c) = ((c % p) * x + ((c \div p) % q) * y) + ((c \div (p * q)) % r) * z

LEMMA ModeParts ==
  \A p \in Nat \ {0}, x \in Nat :
    Mode(p, x) \in AnyMode /\ Mode(p, x).size = p /\ Mode(p, x).stride = x
BY DEF AnyMode, Mode

LEMMA OneMode ==
  ASSUME NEW m \in AnyMode, NEW c \in Nat
  PROVE  <<m>> \in Layouts /\ Size(<<m>>) = m.size /\ Whole(<<m>>, c) = (c % m.size) * m.stride
<1>1. <<>> \in Layouts /\ <<m>> = Append(<<>>, m)  BY DEF Layouts
<1>2. <<m>> \in Layouts  BY <1>1, AppendAt
<1>3. PICK p \in Nat \ {0}, x \in Nat : p = m.size /\ x = m.stride  BY DEF AnyMode
<1>4. Size(<<m>>) = p
  <2>1. Size(Append(<<>>, m)) = 1 * p  BY <1>1, <1>3, EmptySize, SizeAppend
  <2>2. 1 * p = p  BY <1>3
  <2> QED  BY <1>1, <2>1, <2>2
<1>5. Whole(<<m>>, c) = (c % p) * x
  <2>1. Whole(<<m>>, c) = 0 + ((c \div 1) % p) * x
    BY <1>1, <1>3, EmptySize, WholeEmpty, WholeAppend
  <2>2. c \div 1 = c
    <3>1. IsDivision(c, 1, c, 0)  BY DEF IsDivision
    <3> QED  BY <3>1, DivUnique
  <2>3. (c % p) * x \in Nat
    <3>1. c % p \in Nat  BY <1>3, DivMod
    <3> QED  BY <1>3, <3>1
  <2> QED  BY <2>1, <2>2, <2>3
<1> QED  BY <1>2, <1>3, <1>4, <1>5

LEMMA TwoModes ==
  ASSUME NEW p \in Nat \ {0}, NEW q \in Nat \ {0}, NEW x \in Nat, NEW y \in Nat, NEW c \in Nat,
         NEW o, o = <<Mode(p, x), Mode(q, y)>> \/ o = <<Mode(p, x)>> \o <<Mode(q, y)>>
  PROVE  OfTwo(o, p, x, q, y, c)
<1>1. PICK l \in AnyMode : l = Mode(p, x) /\ l.size = p /\ l.stride = x  BY ModeParts
<1>2. PICK m \in AnyMode : m = Mode(q, y) /\ m.size = q /\ m.stride = y  BY ModeParts
<1>3. <<l>> \in Seq(AnyMode) /\ <<m>> \in Seq(AnyMode)  OBVIOUS
<1>4. o = Append(<<l>>, m)
  <2>1. <<l, m>> = Append(<<l>>, m) /\ <<l>> \o <<m>> = Append(<<l>>, m)  BY <1>3
  <2> QED  BY <1>1, <1>2, <2>1
<1>5. PICK v : v = <<l>>  OBVIOUS
<1>6. v \in Layouts /\ Size(v) = p /\ Whole(v, c) = (c % p) * x  BY <1>1, <1>5, OneMode
<1>7. o = Append(v, m)  BY <1>4, <1>5
<1>8. o \in Layouts  BY <1>6, <1>7, AppendAt
<1>9. Size(o) = Size(v) * m.size  BY <1>6, <1>7, SizeAppend
<1>10. Whole(o, c) = Whole(v, c) + ((c \div Size(v)) % m.size) * m.stride  BY <1>6, <1>7, WholeAppend
<1> QED  BY <1>2, <1>6, <1>8, <1>9, <1>10 DEF OfTwo

LEMMA ThreeModes ==
  ASSUME NEW p \in Nat \ {0}, NEW q \in Nat \ {0}, NEW r \in Nat \ {0},
         NEW x \in Nat, NEW y \in Nat, NEW z \in Nat, NEW c \in Nat,
         NEW o, o = <<Mode(p, x)>> \o <<Mode(q, y), Mode(r, z)>>
  PROVE  OfThree(o, p, x, q, y, r, z, c)
<1>1. PICK l \in AnyMode : l = Mode(p, x)  BY ModeParts
<1>2. PICK m \in AnyMode : m = Mode(q, y)  BY ModeParts
<1>3. PICK n \in AnyMode : n = Mode(r, z) /\ n.size = r /\ n.stride = z  BY ModeParts
<1>4. PICK v : v = <<l, m>>  OBVIOUS
<1>5. OfTwo(v, p, x, q, y, c)  BY <1>1, <1>2, <1>4, TwoModes
<1>6. o = Append(v, n)
  <2>1. <<l>> \in Seq(AnyMode) /\ <<m, n>> \in Seq(AnyMode) /\ v \in Seq(AnyMode)  BY <1>4
  <2>2. PICK w : w = Append(v, n)  OBVIOUS
  <2>3. o = <<l>> \o <<m, n>>  BY <1>1, <1>2, <1>3
  <2>4. o \in Seq(AnyMode) /\ Len(o) = 3 /\ o[1] = l /\ o[2] = m /\ o[3] = n  BY <2>1, <2>3
  <2>5. w \in Seq(AnyMode) /\ Len(w) = 3 /\ w[1] = l /\ w[2] = m /\ w[3] = n  BY <1>4, <2>1, <2>2
  <2>6. \A k \in 1 .. 3 : o[k] = w[k]
    <3>1. \A k \in 1 .. 3 : k = 1 \/ k = 2 \/ k = 3  OBVIOUS
    <3> QED  BY <2>4, <2>5, <3>1
  <2> QED  BY <2>2, <2>4, <2>5, <2>6
<1>7. v \in Layouts /\ Size(v) = p * q /\ Whole(v, c) = (c % p) * x + ((c \div p) % q) * y
  BY <1>5 DEF OfTwo
<1>8. o \in Layouts  BY <1>6, <1>7, AppendAt
<1>9. Size(o) = Size(v) * n.size  BY <1>6, <1>7, SizeAppend
<1>10. Whole(o, c) = Whole(v, c) + ((c \div Size(v)) % n.size) * n.stride  BY <1>6, <1>7, WholeAppend
<1> QED  BY <1>3, <1>7, <1>8, <1>9, <1>10 DEF OfThree

\* What a multiple is divided by, and what it is not.
LEMMA Remainders ==
  ASSUME NEW x \in Nat, NEW y \in Nat \ {0}
  PROVE  /\ x < y => x % y = x
         /\ x % y = 0 => \E e \in Nat : x = y * e /\ (x # 0 => e # 0)
<1>1. PICK k \in Nat, j \in Nat : k = x \div y /\ j < y /\ x = y * k + j  BY NatDivMod
<1>2. IsDivision(x, y, k, j)  BY <1>1 DEF IsDivision
<1>3. x % y = j  BY <1>2, DivUnique
<1>4. x < y => x % y = x
  <2>1. x < y => IsDivision(x, y, 0, x)  BY DEF IsDivision
  <2>2. IsDivision(x, y, 0, x) => x % y = x  BY DivUnique
  <2> QED  BY <2>1, <2>2
<1>5. ASSUME x % y = 0 PROVE \E e \in Nat : x = y * e /\ (x # 0 => e # 0)
  <2>1. x = y * k  BY <1>1, <1>3, <1>5
  <2>2. k = 0 => x = 0  BY <2>1
  <2> QED  BY <1>1, <2>1, <2>2
<1> QED  BY <1>4, <1>5

\* What a number has below lo, between lo and hi, which is q times lo, and above hi.
IsSplit(x, lo, q, hi, r, s, z) ==
  /\ r \in Nat /\ s \in Nat /\ z \in Nat /\ r < lo /\ s < q
  /\ x = hi * z + lo * s + r

LEMMA SplitUnique ==
  ASSUME NEW x \in Nat, NEW lo \in Nat \ {0}, NEW q \in Nat \ {0}, NEW hi \in Nat \ {0}, hi = lo * q,
         NEW r, NEW s, NEW z, IsSplit(x, lo, q, hi, r, s, z)
  PROVE  x % lo = r /\ (x \div lo) % q = s /\ x \div hi = z
<1>1. r \in Nat /\ s \in Nat /\ z \in Nat /\ r < lo /\ s < q /\ x = hi * z + lo * s + r  BY DEF IsSplit
<1>2. PICK y \in Nat : y = q * z + s
  <2>1. q * z \in Nat  BY <1>1
  <2> QED  BY <1>1, <2>1
<1>3. x = lo * y + r
  <2>1. PICK h \in Nat : h = q * z
    <3>1. q * z \in Nat  BY <1>1
    <3> QED  BY <3>1
  <2>2. lo * (h + s) = lo * h + lo * s  BY <1>1, <2>1
  <2>3. hi * z = lo * h
    <3>1. (lo * q) * z = lo * (q * z)  BY <1>1
    <3> QED  BY <2>1, <3>1
  <2> QED  BY <1>1, <1>2, <2>1, <2>2, <2>3
<1>4. x % lo = r /\ x \div lo = y
  <2>1. IsDivision(x, lo, y, r)  BY <1>1, <1>2, <1>3 DEF IsDivision
  <2> QED  BY <2>1, DivUnique
<1>5. y % q = s /\ y \div q = z
  <2>1. IsDivision(y, q, z, s)  BY <1>1, <1>2 DEF IsDivision
  <2> QED  BY <2>1, DivUnique
<1>6. (x \div lo) \div q = x \div (lo * q)  BY DivTwice
<1> QED  BY <1>4, <1>5, <1>6

\* What shape_div makes of a multiple, and of a size that is cut at a smaller one.
LEMMA ShapeDivMultiple ==
  ASSUME NEW x \in Nat \ {0}, NEW q \in Nat \ {0}, NEW y \in Nat \ {0}, y = x * q
  PROVE  ShapeDiv(y, x) = q
<1>1. IsDivision(y, x, q, 0)  BY DEF IsDivision
<1>2. y % x = 0 /\ y \div x = q  BY <1>1, DivUnique
<1> QED  BY <1>2 DEF ShapeDiv

LEMMA CutAt ==
  ASSUME NEW n \in Nat \ {0}, NEW s \in Nat \ {0}, s < n, Divides(n, s)
  PROVE  \E e \in Nat \ {0} : e = ShapeDiv(n, s) /\ n = s * e
<1>1. s % n = s  BY Remainders
<1>2. n % s = 0  BY <1>1 DEF Divides
<1> QED  BY <1>2, ShapeDivPositive

\* The two coordinates of an index in a mode that is cut in two, and the offsets they
\* stand for.
AreCut(c, n, s, e, t, u, c1, c2, d) ==
  /\ c1 = c % s /\ c1 < s /\ c2 = c \div s /\ d = c2 % e /\ d < e
  /\ (c % n) * t = c1 * t + u * d
CanCut(c, n, s, e, t, u) == \E c1, c2, d \in Nat : AreCut(c, n, s, e, t, u, c1, c2, d)

LEMMA CutCoordinates ==
  ASSUME NEW n \in Nat \ {0}, NEW s \in Nat \ {0}, NEW e \in Nat \ {0}, n = s * e,
         NEW t \in Nat, NEW u \in Nat, u = s * t, NEW c \in Nat
  PROVE  CanCut(c, n, s, e, t, u)
<1>1. PICK c1 \in Nat : c1 = c % s /\ c1 < s
  <2>1. c % s \in Nat /\ c % s < s  BY DivMod
  <2> QED  BY <2>1
<1>2. PICK c2 \in Nat : c2 = c \div s
  <2>1. c \div s \in Nat  BY NatDivMod
  <2> QED  BY <2>1
<1>3. PICK d \in Nat : d = c2 % e /\ d < e
  <2>1. c2 % e \in Nat /\ c2 % e < e  BY <1>2, DivMod
  <2> QED  BY <2>1
<1>4. c % (s * e) = (c % s) + s * ((c \div s) % e)  BY TwoCoordinates
<1>5. c % n = c1 + s * d
  <2>1. (c \div s) % e = d  BY <1>2, <1>3
  <2> QED  BY <1>1, <1>4, <2>1
<1>6. (c % n) * t = c1 * t + u * d
  <2>1. PICK h \in Nat : h = s * d
    <3>1. s * d \in Nat  BY <1>3
    <3> QED  BY <3>1
  <2>2. (c1 + h) * t = c1 * t + h * t  BY <1>1, <2>1
  <2>3. h * t = u * d
    <3>1. (s * d) * t = (s * t) * d  BY <1>3
    <3> QED  BY <2>1, <3>1
  <2> QED  BY <1>5, <2>1, <2>2, <2>3
<1> QED  BY <1>1, <1>2, <1>3, <1>6 DEF CanCut, AreCut

\* x is r + lo * s + hi * z, and the layout o keeps r and z of it.
Keeps(o, c, x, lo, q, hi) == \E r, s, z : IsSplit(x, lo, q, hi, r, s, z) /\ Whole(o, c) = r + hi * z

\* What becomes of a mode.
ModeKept(m, o, c, lo, q, hi) ==
  o \in Layouts /\ Size(o) = m.size /\ Keeps(o, c, (c % m.size) * m.stride, lo, q, hi)

\* What filter_lo_hi makes of a mode that starts below lo and passes it, ...
LEMMA CrossLowKeeps ==
  ASSUME NEW m \in AnyMode, NEW lo \in Nat \ {0}, NEW q \in Nat \ {0}, NEW hi \in Nat \ {0}, hi = lo * q,
         NEW c \in Nat, m.stride # 0, m.stride < lo, lo % m.stride = 0, lo < m.size * m.stride,
         CrossLow(m, lo, hi).ok
  PROVE  ModeKept(m, CrossLow(m, lo, hi).out, c, lo, q, hi)
<1>1. PICK n \in Nat \ {0}, t \in Nat \ {0} : n = m.size /\ t = m.stride  BY DEF AnyMode
<1>2. PICK s1 \in Nat \ {0} : s1 = ShapeDiv(lo, t) /\ lo = s1 * t
  <2>1. ShapeDiv(lo, t) \in Nat \ {0} /\ lo = t * ShapeDiv(lo, t)  BY <1>1, ShapeDivPositive
  <2> QED  BY <1>1, <2>1
<1>3. PICK s2 : s2 = ShapeDiv(n, s1)  OBVIOUS
<1>4. ShapeDiv(hi, lo) = q  BY ShapeDivMultiple
<1> DEFINE high == s2 * lo > hi
           rest == IF high THEN <<Mode(q, 0), Mode(ShapeDiv(s2, q), hi)>> ELSE <<Mode(s2, 0)>>
           ok   == Divides(lo, t) /\ Divides(n, s1) /\ (high => Divides(hi, lo) /\ Divides(s2, q))
<1>5. CrossLow(m, lo, hi) = [ok |-> ok, out |-> <<Mode(s1, t)>> \o rest]
  BY <1>1, <1>2, <1>3, <1>4 DEF CrossLow
<1>6. ok /\ CrossLow(m, lo, hi).out = <<Mode(s1, t)>> \o rest
  <2> HIDE DEF ok, rest
  <2> QED  BY <1>5
<1>7. s1 < n
  <2>1. n <= s1 => n * t <= s1 * t  BY <1>1, <1>2
  <2>2. lo < n * t /\ n * t \in Nat  BY <1>1
  <2> QED  BY <1>1, <1>2, <2>1, <2>2
<1>8. s2 \in Nat \ {0} /\ n = s1 * s2
  <2>1. Divides(n, s1)  BY <1>6
  <2>2. \E e \in Nat \ {0} : e = ShapeDiv(n, s1) /\ n = s1 * e  BY <1>7, <2>1, CutAt
  <2> QED  BY <1>3, <2>2
<1>9. PICK c1 \in Nat, c2 \in Nat, d \in Nat :
        /\ c1 = c % s1 /\ c1 < s1 /\ c2 = c \div s1 /\ d = c2 % s2 /\ d < s2
        /\ (c % n) * t = c1 * t + lo * d
  <2>1. t \in Nat /\ lo \in Nat  OBVIOUS
  <2>2. CanCut(c, n, s1, s2, t, lo)  BY <1>2, <1>8, <2>1, CutCoordinates
  <2> QED  BY <2>2 DEF CanCut, AreCut
<1>10. PICK x \in Nat : x = c1 * t /\ x < lo
  <2>1. c1 * t \in Nat  BY <1>9
  <2>2. c1 * t < s1 * t  BY <1>1, <1>9
  <2> QED  BY <1>2, <2>1, <2>2
<1>11. CASE high
  <2>1. PICK w \in Nat : w = q * lo /\ w = hi  OBVIOUS
  <2>2. q < s2
    <3>1. s2 <= q => s2 * lo <= q * lo  BY <1>8
    <3>2. s2 * lo > w /\ s2 * lo \in Nat  BY <1>8, <1>11, <2>1
    <3> QED  BY <1>8, <2>1, <3>1, <3>2
  <2>3. Divides(s2, q)  BY <1>6, <1>11
  <2>4. PICK e \in Nat \ {0} : e = ShapeDiv(s2, q) /\ s2 = q * e  BY <1>8, <2>2, <2>3, CutAt
  <2>5. rest = <<Mode(q, 0), Mode(e, hi)>>  BY <1>11, <2>4
  <2>6. PICK o : o = <<Mode(s1, t)>> \o <<Mode(q, 0), Mode(e, hi)>>  OBVIOUS
  <2>7. CrossLow(m, lo, hi).out = o  BY <1>6, <2>5, <2>6
  <2>8. o \in Layouts /\ Size(o) = (s1 * q) * e
        /\ Whole(o, c) = ((c % s1) * t + ((c \div s1) % q) * 0) + ((c \div (s1 * q)) % e) * hi
    <3>1. 0 \in Nat /\ t \in Nat /\ hi \in Nat  OBVIOUS
    <3>2. OfThree(o, s1, t, q, 0, e, hi, c)  BY <2>4, <2>6, <3>1, ThreeModes
    <3> QED  BY <3>2 DEF OfThree
  <2>9. Size(o) = n
    <3>1. (s1 * q) * e = s1 * (q * e)  BY <2>4
    <3> QED  BY <1>8, <2>4, <2>8, <3>1
  <2>10. PICK d1 \in Nat, d2 \in Nat, d3 \in Nat :
           /\ d1 = c2 % q /\ d1 < q /\ d2 = c2 \div q /\ d3 = d2 % e
           /\ (c2 % s2) * lo = d1 * lo + hi * d3
    <3>1. hi = q * lo  OBVIOUS
    <3>2. CanCut(c2, s2, q, e, lo, hi)
      <4>1. lo \in Nat /\ hi \in Nat  OBVIOUS
      <4> QED  BY <1>8, <2>4, <3>1, <4>1, CutCoordinates
    <3> QED  BY <3>2 DEF CanCut, AreCut
  <2>11. c \div (s1 * q) = d2
    <3>1. c \in Int  OBVIOUS
    <3>2. (c \div s1) \div q = c \div (s1 * q)  BY <3>1, DivTwice
    <3> QED  BY <1>9, <2>10, <3>2
  <2>12. PICK y \in Nat : y = hi * d3
    <3>1. hi * d3 \in Nat  BY <2>10
    <3> QED  BY <3>1
  <2>13. Whole(o, c) = x + hi * d3
    <3>1. Whole(o, c) = (x + d1 * 0) + d3 * hi  BY <1>9, <1>10, <2>8, <2>10, <2>11
    <3>2. d1 * 0 = 0 /\ d3 * hi = hi * d3  BY <2>10
    <3> QED  BY <1>10, <3>1, <3>2
  <2>14. (c % n) * t = hi * d3 + lo * d1 + x
    <3>1. lo * d = d1 * lo + hi * d3
      <4>1. lo * d = d * lo  BY <1>9
      <4> QED  BY <1>9, <2>10, <4>1
    <3>2. d1 * lo = lo * d1 /\ lo * d1 \in Nat  BY <2>10
    <3> QED  BY <1>9, <1>10, <2>12, <3>1, <3>2
  <2>15. IsSplit((c % n) * t, lo, q, hi, x, d1, d3)  BY <1>10, <2>10, <2>14 DEF IsSplit
  <2> QED  BY <1>1, <2>7, <2>8, <2>9, <2>13, <2>15 DEF Keeps, ModeKept
<1>12. CASE ~ high
  <2>1. ~ (s2 * lo > hi)  BY <1>12
  <2>2. s2 <= q
    <3>1. q + 1 <= s2 => (q + 1) * lo <= s2 * lo  BY <1>8
    <3>2. (q + 1) * lo = hi + lo /\ s2 * lo \in Nat  BY <1>8
    <3> QED  BY <1>8, <2>1, <3>1, <3>2
  <2>3. rest = <<Mode(s2, 0)>>  BY <1>12
  <2>4. PICK o : o = <<Mode(s1, t)>> \o <<Mode(s2, 0)>>  OBVIOUS
  <2>5. CrossLow(m, lo, hi).out = o  BY <1>6, <2>3, <2>4
  <2>6. o \in Layouts /\ Size(o) = s1 * s2 /\ Whole(o, c) = (c % s1) * t + ((c \div s1) % s2) * 0
    <3>1. 0 \in Nat /\ t \in Nat  OBVIOUS
    <3>2. OfTwo(o, s1, t, s2, 0, c)  BY <1>8, <2>4, <3>1, TwoModes
    <3> QED  BY <3>2 DEF OfTwo
  <2>7. Whole(o, c) = x + hi * 0
    <3>1. Whole(o, c) = x + d * 0  BY <1>9, <1>10, <2>6
    <3>2. d * 0 = 0 /\ hi * 0 = 0  BY <1>9
    <3> QED  BY <3>1, <3>2
  <2>8. IsSplit((c % n) * t, lo, q, hi, x, d, 0)
    <3>1. hi * 0 = 0 /\ lo * d \in Nat /\ d < q  BY <1>8, <1>9, <2>2
    <3> QED  BY <1>9, <1>10, <3>1 DEF IsSplit
  <2> QED  BY <1>1, <1>8, <2>5, <2>6, <2>7, <2>8 DEF Keeps, ModeKept
<1> QED  BY <1>11, <1>12

\* ... of one that starts at lo and passes the upper bound, ...
LEMMA CrossHighKeeps ==
  ASSUME NEW m \in AnyMode, NEW lo \in Nat \ {0}, NEW q \in Nat \ {0}, NEW hi \in Nat \ {0}, hi = lo * q,
         NEW c \in Nat, m.stride = lo, hi < m.size * lo, CrossHigh(m, lo, hi).ok
  PROVE  ModeKept(m, CrossHigh(m, lo, hi).out, c, lo, q, hi)
<1>1. PICK n \in Nat \ {0} : n = m.size  BY DEF AnyMode
<1>2. ShapeDiv(hi, lo) = q  BY ShapeDivMultiple
<1>3. CrossHigh(m, lo, hi) = [ok |-> Divides(hi, lo) /\ Divides(n, q),
                              out |-> <<Mode(q, 0), Mode(ShapeDiv(n, q), hi)>>]
  BY <1>1, <1>2 DEF CrossHigh
<1>4. Divides(n, q) /\ CrossHigh(m, lo, hi).out = <<Mode(q, 0), Mode(ShapeDiv(n, q), hi)>>
  <2>1. PICK o : o = <<Mode(q, 0), Mode(ShapeDiv(n, q), hi)>>  OBVIOUS
  <2>2. PICK ok : ok = (Divides(hi, lo) /\ Divides(n, q))  OBVIOUS
  <2>3. CrossHigh(m, lo, hi) = [ok |-> ok, out |-> o]  BY <1>3, <2>1, <2>2
  <2>4. CrossHigh(m, lo, hi).ok = ok /\ CrossHigh(m, lo, hi).out = o  BY <2>3
  <2> QED  BY <2>1, <2>2, <2>4
<1>5. q < n
  <2>1. n <= q => n * lo <= q * lo  BY <1>1
  <2>2. q * lo = hi /\ n * lo \in Nat /\ hi < n * lo  BY <1>1
  <2> QED  BY <1>1, <2>1, <2>2
<1>6. PICK e \in Nat \ {0} : e = ShapeDiv(n, q) /\ n = q * e  BY <1>1, <1>4, <1>5, CutAt
<1>7. PICK o : o = <<Mode(q, 0), Mode(e, hi)>>  OBVIOUS
<1>8. CrossHigh(m, lo, hi).out = o  BY <1>4, <1>6, <1>7
<1>9. o \in Layouts /\ Size(o) = q * e /\ Whole(o, c) = (c % q) * 0 + ((c \div q) % e) * hi
  <2>1. 0 \in Nat /\ hi \in Nat  OBVIOUS
  <2>2. OfTwo(o, q, 0, e, hi, c)  BY <1>6, <1>7, <2>1, TwoModes
  <2> QED  BY <2>2 DEF OfTwo
<1>10. PICK d1 \in Nat, d2 \in Nat, d3 \in Nat :
         /\ d1 = c % q /\ d1 < q /\ d2 = c \div q /\ d3 = d2 % e
         /\ (c % n) * lo = d1 * lo + hi * d3
  <2>1. hi = q * lo  OBVIOUS
  <2>2. lo \in Nat /\ hi \in Nat  OBVIOUS
  <2>3. CanCut(c, n, q, e, lo, hi)  BY <1>6, <2>1, <2>2, CutCoordinates
  <2> QED  BY <2>3 DEF CanCut, AreCut
<1>11. Whole(o, c) = 0 + hi * d3
  <2>1. Whole(o, c) = d1 * 0 + d3 * hi  BY <1>9, <1>10
  <2>2. d1 * 0 = 0 /\ d3 * hi = hi * d3  BY <1>10
  <2> QED  BY <2>1, <2>2
<1>12. IsSplit((c % n) * lo, lo, q, hi, 0, d1, d3)
  <2>1. d1 * lo = lo * d1 /\ lo * d1 \in Nat /\ hi * d3 \in Nat  BY <1>10
  <2> QED  BY <1>10, <2>1 DEF IsSplit
<1> QED  BY <1>1, <1>6, <1>8, <1>9, <1>11, <1>12 DEF Keeps, ModeKept

\* ... and of any mode that starts and ends in step with the bounds.
LEMMA FilterModeKeeps ==
  ASSUME NEW m \in AnyMode, NEW lo \in Nat \ {0}, NEW q \in Nat \ {0}, NEW hi \in Nat \ {0}, hi = lo * q,
         lo < hi, NEW c \in Nat, InStep(m, lo, hi), FilterMode(m, lo, hi).ok
  PROVE  ModeKept(m, FilterMode(m, lo, hi).out, c, lo, q, hi)
<1>1. PICK n \in Nat \ {0}, t \in Nat : n = m.size /\ t = m.stride  BY DEF AnyMode
<1>2. PICK end \in Nat : end = n * t
  <2>1. n * t \in Nat  BY <1>1
  <2> QED  BY <2>1
<1>3. PICK k \in Nat : k = c % n /\ k < n
  <2>1. c % n \in Nat /\ c % n < n  BY DivMod
  <2> QED  BY <2>1
<1>4. PICK x \in Nat : x = k * t
  <2>1. k * t \in Nat  BY <1>3
  <2> QED  BY <2>1
<1>5. t # 0 => x < end
  <2>1. t # 0 => k * t < n * t  BY <1>1, <1>3
  <2> QED  BY <1>2, <1>4, <2>1
<1>6. /\ \/ t = 0
         \/ t < lo /\ (end > lo => lo % t = 0)
         \/ t = lo
         \/ t \in lo + 1 .. hi - 1 /\ t % lo = 0 /\ end <= hi
         \/ t % hi = 0
  BY <1>1, <1>2 DEF InStep
<1>7. t < hi => t % hi = t  BY <1>1, Remainders
<1>8. FilterMode(m, lo, hi) =
        CASE t < lo /\ end > lo -> CrossLow(m, lo, hi)
          [] lo <= t /\ t < hi /\ end > hi -> CrossHigh(m, lo, hi)
          [] lo <= t /\ t < hi /\ end <= hi -> [ok |-> TRUE, out |-> <<Mode(n, 0)>>]
          [] OTHER -> [ok |-> TRUE, out |-> <<m>>]
  BY <1>1, <1>2 DEF FilterMode
<1>9. CASE t < lo /\ end > lo
  <2>1. FilterMode(m, lo, hi) = CrossLow(m, lo, hi)  BY <1>8, <1>9
  <2>2. t # 0
    <3>1. n * 0 = 0  BY <1>1
    <3> QED  BY <1>2, <1>9, <3>1
  <2>3. lo % t = 0  BY <1>6, <1>7, <1>9, <2>2
  <2> QED  BY <1>1, <1>2, <1>9, <2>1, <2>2, <2>3, CrossLowKeeps
<1>10. CASE lo <= t /\ t < hi /\ end > hi
  <2>1. FilterMode(m, lo, hi) = CrossHigh(m, lo, hi)  BY <1>8, <1>10
  <2>2. t = lo  BY <1>6, <1>7, <1>10
  <2>3. hi < m.size * lo  BY <1>1, <1>2, <1>10, <2>2
  <2> QED  BY <1>1, <2>1, <2>2, <2>3, CrossHighKeeps
<1>11. CASE lo <= t /\ t < hi /\ end <= hi
  <2>1. FilterMode(m, lo, hi) = [ok |-> TRUE, out |-> <<Mode(n, 0)>>]  BY <1>8, <1>11
  <2>2. PICK l \in AnyMode : l = Mode(n, 0) /\ l.size = n /\ l.stride = 0  BY <1>1, ModeParts
  <2>3. PICK o : o = <<l>>  OBVIOUS
  <2>4. FilterMode(m, lo, hi).out = o  BY <2>1, <2>2, <2>3
  <2>5. o \in Layouts /\ Size(o) = n /\ Whole(o, c) = k * 0  BY <1>3, <2>2, <2>3, OneMode
  <2>6. PICK e \in Nat : t = lo * e
    <3>1. t = lo \/ t % lo = 0  BY <1>6, <1>7, <1>11
    <3>2. t = lo => t = lo * 1  OBVIOUS
    <3>3. t % lo = 0 => \E e \in Nat : t = lo * e  BY Remainders
    <3> QED  BY <3>1, <3>2, <3>3
  <2>7. PICK s \in Nat : s = e * k
    <3>1. e * k \in Nat  BY <1>3, <2>6
    <3> QED  BY <3>1
  <2>8. x = lo * s
    <3>1. k * (lo * e) = lo * (e * k)  BY <1>3, <2>6
    <3> QED  BY <1>4, <2>6, <2>7, <3>1
  <2>9. s < q
    <3>1. x < hi  BY <1>5, <1>11
    <3>2. q <= s => lo * q <= lo * s  BY <2>7
    <3> QED  BY <2>7, <2>8, <3>1, <3>2
  <2>10. IsSplit(x, lo, q, hi, 0, s, 0)
    <3>1. hi * 0 = 0  OBVIOUS
    <3> QED  BY <1>4, <2>7, <2>8, <2>9, <3>1 DEF IsSplit
  <2>11. Whole(o, c) = 0 + hi * 0
    <3>1. hi * 0 = 0 /\ k * 0 = 0  BY <1>3
    <3> QED  BY <2>5, <3>1
  <2>12. Keeps(o, c, x, lo, q, hi)  BY <2>10, <2>11 DEF Keeps, ModeKept
  <2> QED  BY <1>1, <1>3, <1>4, <2>4, <2>5, <2>12 DEF ModeKept
<1>12. CASE ~ (t < lo /\ end > lo) /\ ~ (lo <= t /\ t < hi)
  <2>1. FilterMode(m, lo, hi) = [ok |-> TRUE, out |-> <<m>>]  BY <1>8, <1>12
  <2>2. PICK o : o = <<m>>  OBVIOUS
  <2>3. FilterMode(m, lo, hi).out = o  BY <2>1, <2>2
  <2>4. o \in Layouts /\ Size(o) = n /\ Whole(o, c) = x  BY <1>1, <1>3, <1>4, <2>2, OneMode
  <2>5. CASE t < lo
    <3>1. x < lo
      <4>1. t = 0 => x = 0  BY <1>3, <1>4
      <4> QED  BY <1>5, <1>12, <2>5, <4>1
    <3>2. IsSplit(x, lo, q, hi, x, 0, 0) /\ Whole(o, c) = x + hi * 0
      <4>1. hi * 0 = 0 /\ lo * 0 = 0  OBVIOUS
      <4> QED  BY <1>4, <2>4, <3>1, <4>1 DEF IsSplit
    <3>3. Keeps(o, c, x, lo, q, hi)  BY <3>2 DEF Keeps, ModeKept
    <3> QED  BY <1>1, <1>3, <1>4, <2>3, <2>4, <3>3 DEF ModeKept
  <2>6. CASE hi <= t
    <3>1. t % hi = 0  BY <1>6, <2>6
    <3>2. PICK e \in Nat : t = hi * e
      <4>1. t % hi = 0 => \E e \in Nat : t = hi * e  BY Remainders
      <4> QED  BY <3>1, <4>1
    <3>3. PICK z \in Nat : z = e * k
      <4>1. e * k \in Nat  BY <1>3, <3>2
      <4> QED  BY <4>1
    <3>4. x = hi * z
      <4>1. k * (hi * e) = hi * (e * k)  BY <1>3, <3>2
      <4> QED  BY <1>4, <3>2, <3>3, <4>1
    <3>5. IsSplit(x, lo, q, hi, 0, 0, z) /\ Whole(o, c) = 0 + hi * z
      <4>1. lo * 0 = 0  OBVIOUS
      <4> QED  BY <1>4, <2>4, <3>3, <3>4, <4>1 DEF IsSplit
    <3>6. Keeps(o, c, x, lo, q, hi)  BY <3>5 DEF Keeps, ModeKept
    <3> QED  BY <1>1, <1>3, <1>4, <2>3, <2>4, <3>6 DEF ModeKept
  <2> QED  BY <1>12, <2>5, <2>6
<1> QED  BY <1>9, <1>10, <1>11, <1>12

\* The sum of which NoCarry says that it stays within mode k of a.
Carry(a, b, i, k) ==
  FoldLeft(LAMBDA sum, j : sum + Coordinate(a, Coordinate(b, i, j) * b[j].stride, k), 0,
           [j \in DOMAIN b |-> j])

CarryOf(a, b, i, k) == CHOOSE g : g = [s \in SUBSET DOMAIN [j \in DOMAIN b |-> j] |->
  IF s = {} THEN 0
  ELSE g[s \ {Max(s)}]
       + Coordinate(a, Coordinate(b, i, [j \in DOMAIN b |-> j][Max(s)])
                       * b[[j \in DOMAIN b |-> j][Max(s)]].stride, k)]

\* What each mode of b adds to it.
Carries(a, b, i, k) == [j \in DOMAIN b |-> Coordinate(a, Coordinate(b, i, j) * b[j].stride, k)]

LEMMA CarryStages ==
  ASSUME NEW a, NEW b \in Seq(AnyMode), NEW i, NEW k
  PROVE  \E F : Stages("add", 0, Carries(a, b, i, k), Len(b), F) /\ Carry(a, b, i, k) = F[Len(b)]
<1> DEFINE q == Carries(a, b, i, k)  js == [j \in DOMAIN b |-> j]
<1>1. DOMAIN b = 1 .. Len(b) /\ Len(b) \in Nat /\ DOMAIN js = 1 .. Len(b)  OBVIOUS
<1>2. Carry(a, b, i, k) = CarryOf(a, b, i, k)[DOMAIN js]
  BY DEF Carry, FoldLeft, MapThenFoldSet, CarryOf
<1> DEFINE Step(g, s) == IF s = {} THEN 0
                         ELSE g[s \ {Max(s)}]
                              + Coordinate(a, Coordinate(b, i, js[Max(s)]) * b[js[Max(s)]].stride, k)
<1>3. CarryOf(a, b, i, k) = CHOOSE g : g = [s \in SUBSET DOMAIN js |-> Step(g, s)]  BY DEF CarryOf
<1>4. ASSUME NEW g, NEW s \in SUBSET DOMAIN js PROVE Unfold("add", 0, q, g, s) = Step(g, s)
  <2>1. CASE s = {}  BY <2>1 DEF Unfold
  <2>2. CASE s # {}
    <3>1. Max(s) \in DOMAIN b  BY <1>1, <2>2, MaxIsTheGreatest
    <3>2. /\ js[Max(s)] = Max(s)
          /\ q[Max(s)] = Coordinate(a, Coordinate(b, i, Max(s)) * b[Max(s)].stride, k)
      BY <3>1 DEF Carries
    <3> HIDE DEF q, js
    <3>3. Unfold("add", 0, q, g, s) = g[s \ {Max(s)}] + q[Max(s)]  BY <2>2 DEF Unfold, Applied, Taken
    <3> QED  BY <2>2, <3>2, <3>3
  <2> QED  BY <2>1, <2>2
<1> HIDE DEF Step, q
<1>5. PICK g : Folds("add", 0, q, 1 .. Len(b), g)  BY <1>1, StagesExist
<1>6. g = [s \in SUBSET DOMAIN js |-> Step(g, s)]  BY <1>1, <1>4, <1>5 DEF Folds
<1> HIDE DEF js
<1>7. CarryOf(a, b, i, k) = [s \in SUBSET DOMAIN js |-> Step(CarryOf(a, b, i, k), s)]  BY <1>3, <1>6
<1>8. Folds("add", 0, q, 1 .. Len(b), CarryOf(a, b, i, k))  BY <1>1, <1>4, <1>7 DEF Folds
<1> QED  BY <1>1, <1>2, <1>8, FoldStages DEF q

\* What the modes of a layout add below lo, between lo and hi, and above hi.
LowParts(a, i, lo)     == [k \in 1 .. Len(a) |-> Parts(a, i)[k] % lo]
MiddleParts(a, i, lo, q) == [k \in 1 .. Len(a) |-> (Parts(a, i)[k] \div lo) % q]
HighParts(a, i, hi)     == [k \in 1 .. Len(a) |-> Parts(a, i)[k] \div hi]

LEMMA StagesOfSums ==
  ASSUME NEW q, NEW n \in Nat
  PROVE  \E F : Stages("add", 0, q, n, F)
<1>1. PICK g : Folds("add", 0, q, 1 .. n, g)  BY StagesExist
<1> QED  BY <1>1, FoldStages

LEMMA EmptyConcat == \A x \in Layouts : <<>> \o x = x
BY DEF Layouts

LEMMA LenOfFunction ==
  ASSUME NEW n \in Nat, NEW S, NEW o \in [1 .. n -> S]
  PROVE  Len(o) = n
OBVIOUS

\* The offset x of an index, and that in the layout out, when the modes add r below lo,
\* s between lo and hi, and z above hi.
AreFiltered(a, out, i, lo, hi, x, r, s, z) ==
  /\ out \in Layouts /\ Size(out) = Size(a) /\ r \in Nat /\ s \in Nat /\ z \in Nat
  /\ x = hi * z + lo * s + r /\ Whole(out, i) = r + hi * z

\* The modes of a layout put one after the other; what filter_lo_hi makes of them.
LEMMA FilteredSums ==
  ASSUME NEW a \in Layouts, a # <<>>, NEW lo \in Nat \ {0}, NEW q \in Nat \ {0}, NEW hi \in Nat \ {0},
         hi = lo * q, lo < hi, NEW i \in Nat,
         \A k \in DOMAIN a : InStep(a[k], lo, hi) /\ FilterMode(a[k], lo, hi).ok,
         NEW n, n = Len(a),
         NEW F, Stages("add", 0, Parts(a, i), n, F),
         NEW R, Stages("add", 0, LowParts(a, i, lo), n, R),
         NEW S, Stages("add", 0, MiddleParts(a, i, lo, q), n, S),
         NEW Z, Stages("add", 0, HighParts(a, i, hi), n, Z),
         NEW o, o = [k \in DOMAIN a |-> FilterMode(a[k], lo, hi).out]
  PROVE  AreFiltered(a, FlattenSeq(o), i, lo, hi, F[n], R[n], S[n], Z[n])
<1>1. /\ n \in Nat \ {0} /\ DOMAIN a = 1 .. n /\ a \in Seq(AnyMode)
      /\ \A k \in 1 .. n : a[k] \in AnyMode
  BY DEF Layouts
<1>2. Len(o) = n /\ \A k \in 1 .. n : o[k] = FilterMode(a[k], lo, hi).out
  <2>1. PICK V : V = {o[k] : k \in 1 .. n}  OBVIOUS
  <2>2. o \in [1 .. n -> V]  BY <1>1, <2>1
  <2>3. Len(o) = n  BY <1>1, <2>2, LenOfFunction
  <2> QED  BY <1>1, <2>3
<1> DEFINE f == FlattenOf(o)
           H == [k \in 0 .. n |-> IF k = 0 THEN <<>> ELSE f[k]]
           p(k) == SubSeq(a, 1, k)
           Inv(k) == /\ H[k] \in Layouts /\ p(k) \in Layouts /\ Size(H[k]) = Size(p(k))
                     /\ F[k] \in Nat /\ R[k] \in Nat /\ S[k] \in Nat /\ Z[k] \in Nat
                     /\ F[k] = hi * Z[k] + lo * S[k] + R[k]
                     /\ Whole(H[k], i) = R[k] + hi * Z[k]
<1>3. FlattenSeq(o) = f[n] /\ f[1] = o[1] /\ \A k \in 2 .. n : f[k] = f[k - 1] \o o[k]
  BY <1>1, <1>2, FlattenStages
<1>4. H[0] = <<>> /\ \A k \in 1 .. n : H[k] = f[k]
  <2>1. 0 \in 0 .. n /\ \A k \in 1 .. n : k \in 0 .. n /\ k # 0  BY <1>1
  <2> HIDE DEF f
  <2> QED  BY <2>1
<1> HIDE DEF H, f
<1>5. ASSUME NEW k \in 1 .. n, o[k] \in Layouts PROVE H[k] = H[k - 1] \o o[k]
  <2>1. CASE k = 1
    <3>1. H[1] = o[1] /\ H[0] = <<>>  BY <1>1, <1>3, <1>4, <2>1
    <3>2. <<>> \o o[k] = o[k]  BY <1>5, EmptyConcat
    <3>3. k - 1 = 0 /\ H[k] = o[k]  BY <2>1, <3>1
    <3> QED  BY <3>1, <3>2, <3>3
  <2>2. CASE k # 1
    <3>1. k \in 2 .. n /\ k - 1 \in 1 .. n  BY <1>1, <2>2
    <3> QED  BY <1>3, <1>4, <3>1
  <2> QED  BY <2>1, <2>2
<1>6. Inv(0)
  <2>1. p(0) = <<>>  BY <1>1
  <2>2. F[0] = 0 /\ R[0] = 0 /\ S[0] = 0 /\ Z[0] = 0  BY DEF Stages
  <2>3. <<>> \in Layouts  BY DEF Layouts
  <2>4. hi * 0 = 0 /\ lo * 0 = 0  OBVIOUS
  <2> HIDE DEF p
  <2> QED  BY <1>4, <2>1, <2>2, <2>3, <2>4, WholeEmpty
<1>7. ASSUME NEW k \in 1 .. n, Inv(k - 1) PROVE Inv(k)
  <2>1. PICK m \in AnyMode : m = a[k]  BY <1>1
  <2>2. p(k) = Append(p(k - 1), m)  BY <1>1, <2>1, PrefixAppend
  <2> DEFINE before == Size(p(k - 1))
  <2>3. before = Before(a, k)  BY DEF Before
  <2> HIDE DEF p
  <2>4. PICK b \in Nat \ {0} : b = before /\ b = Size(H[k - 1])  BY <1>7, SizePositive
  <2>5. PICK c \in Nat : c = i \div b
    <3>1. i \div b \in Nat  BY NatDivMod
    <3> QED  BY <3>1
  <2>6. PICK u : u = (c % m.size) * m.stride  OBVIOUS
  <2>7. Parts(a, i)[k] = u  BY <1>1, <2>1, <2>3, <2>4, <2>5, <2>6 DEF Parts
  <2>8. InStep(m, lo, hi) /\ FilterMode(m, lo, hi).ok /\ o[k] = FilterMode(m, lo, hi).out
    BY <1>1, <1>2, <2>1
  <2>9. ModeKept(m, o[k], c, lo, q, hi)  BY <2>8, FilterModeKeeps
  <2>10. PICK r, s, z : IsSplit(u, lo, q, hi, r, s, z) /\ Whole(o[k], c) = r + hi * z
    BY <2>6, <2>9 DEF ModeKept, Keeps
  <2>11. /\ r \in Nat /\ s \in Nat /\ z \in Nat /\ u = hi * z + lo * s + r
         /\ o[k] \in Layouts /\ Size(o[k]) = m.size
    BY <2>9, <2>10 DEF IsSplit, ModeKept
  <2>12. u \in Nat
    <3>1. hi * z \in Nat /\ lo * s \in Nat  BY <2>11
    <3> QED  BY <2>11, <3>1
  <2>13. u % lo = r /\ (u \div lo) % q = s /\ u \div hi = z  BY <2>10, <2>12, SplitUnique
  <2>14. /\ LowParts(a, i, lo)[k] = r /\ MiddleParts(a, i, lo, q)[k] = s /\ HighParts(a, i, hi)[k] = z
    BY <1>1, <2>7, <2>13 DEF LowParts, MiddleParts, HighParts
  <2>15. /\ F[k] = F[k - 1] + u /\ R[k] = R[k - 1] + r /\ S[k] = S[k - 1] + s /\ Z[k] = Z[k - 1] + z
    BY <2>7, <2>14 DEF Stages, Applied
  <2>16. H[k] = H[k - 1] \o o[k]  BY <1>5, <2>11
  <2>17. PICK h : h = H[k - 1]  OBVIOUS
  <2>18. h \in Layouts /\ Size(h) = b /\ Whole(h, i) = R[k - 1] + hi * Z[k - 1] /\ H[k] = h \o o[k]
    BY <1>7, <2>4, <2>16, <2>17
  <2>19. h \o o[k] \in Layouts  BY <2>11, <2>18, ConcatKeeps
  <2>20. Size(h \o o[k]) = Size(h) * Size(o[k])
         /\ Whole(h \o o[k], i) = Whole(h, i) + Whole(o[k], i \div Size(h))
    BY <2>11, <2>18, ConcatWhole
  <2>21. p(k) \in Layouts /\ Size(p(k)) = Size(p(k - 1)) * m.size
    <3>1. PICK g \in Layouts : g = p(k - 1)  BY <1>7
    <3>2. Append(g, m) \in Layouts /\ Size(Append(g, m)) = Size(g) * m.size  BY AppendAt, SizeAppend
    <3> QED  BY <2>2, <3>1, <3>2
  <2>22. Size(H[k]) = Size(p(k))  BY <2>4, <2>11, <2>18, <2>20, <2>21
  <2>23. PICK F1 \in Nat, R1 \in Nat, S1 \in Nat, Z1 \in Nat :
           F1 = F[k - 1] /\ R1 = R[k - 1] /\ S1 = S[k - 1] /\ Z1 = Z[k - 1]
    BY <1>7
  <2>24. F1 = hi * Z1 + lo * S1 + R1  BY <1>7, <2>23
  <2>25. Whole(H[k], i) = (R1 + hi * Z1) + (r + hi * z)  BY <2>5, <2>10, <2>18, <2>20, <2>23
  <2>26. PICK A1 \in Nat, A2 \in Nat, B1 \in Nat, B2 \in Nat :
           A1 = hi * Z1 /\ A2 = hi * z /\ B1 = lo * S1 /\ B2 = lo * s
    <3>1. hi * Z1 \in Nat /\ hi * z \in Nat /\ lo * S1 \in Nat /\ lo * s \in Nat  BY <2>11
    <3> QED  BY <3>1
  <2>27. hi * (Z1 + z) = A1 + A2 /\ lo * (S1 + s) = B1 + B2  BY <2>11, <2>26
  <2>28. F[k] = F1 + u /\ R[k] = R1 + r /\ S[k] = S1 + s /\ Z[k] = Z1 + z  BY <2>15, <2>23
  <2>29. hi * Z[k] = A1 + A2 /\ lo * S[k] = B1 + B2  BY <2>27, <2>28
  <2>30. F1 + u = (A1 + A2) + (B1 + B2) + (R1 + r)
    <3>1. F1 = A1 + B1 + R1 /\ u = A2 + B2 + r  BY <2>11, <2>24, <2>26
    <3>2. r \in Nat  BY <2>11
    <3>3. \A v, w, x1, x2, y1, y2 \in Nat :
            (v + x1 + w) + (y1 + x2 + y2) = (v + y1) + (x1 + x2) + (w + y2)
      OBVIOUS
    <3>4. (A1 + B1 + R1) + (A2 + B2 + r) = (A1 + A2) + (B1 + B2) + (R1 + r)  BY <3>2, <3>3
    <3> QED  BY <3>1, <3>4
  <2>31. F[k] = hi * Z[k] + lo * S[k] + R[k]  BY <2>28, <2>29, <2>30
  <2>32. Whole(H[k], i) = R[k] + hi * Z[k]
    <3>1. Whole(H[k], i) = (R1 + A1) + (r + A2)  BY <2>25, <2>26
    <3>2. (R1 + A1) + (r + A2) = (R1 + r) + (A1 + A2)  BY <2>11, <2>26
    <3> QED  BY <2>28, <2>29, <3>1, <3>2
  <2>33. F[k] \in Nat /\ R[k] \in Nat /\ S[k] \in Nat /\ Z[k] \in Nat
    <3>1. r \in Nat /\ s \in Nat /\ z \in Nat  BY <2>11
    <3>2. F1 + u \in Nat /\ R1 + r \in Nat /\ S1 + s \in Nat /\ Z1 + z \in Nat  BY <2>12, <3>1
    <3> QED  BY <2>28, <3>2
  <2> QED  BY <2>18, <2>19, <2>21, <2>22, <2>31, <2>32, <2>33
<1>8. p(n) = a  BY <1>1, SubSeqFull
<1> HIDE DEF Inv
<1>9. \A k \in 0 .. n : Inv(k)
  <2> DEFINE T == {k \in 0 .. n : ~ Inv(k)}
  <2>1. SUFFICES ASSUME T # {} PROVE FALSE  OBVIOUS
  <2>2. T \in SUBSET Nat  OBVIOUS
  <2>3. PICK k \in T : \A y \in T : k <= y
    <3> HIDE DEF T
    <3> QED  BY <2>1, <2>2, LeastOf
  <2>4. k # 0 /\ k \in 1 .. n  BY <1>6
  <2>5. k - 1 \in 0 .. n /\ ~ (k <= k - 1)  BY <2>4
  <2>6. Inv(k - 1)  BY <2>3, <2>5
  <2> QED  BY <1>7, <2>4, <2>6
<1>10. Inv(n) /\ n \in 1 .. n  BY <1>1, <1>9
<1>11. H[n] = FlattenSeq(o)  BY <1>3, <1>4, <1>10
<1> HIDE DEF p
<1>12. /\ H[n] \in Layouts /\ Size(H[n]) = Size(p(n)) /\ Whole(H[n], i) = R[n] + hi * Z[n]
       /\ R[n] \in Nat /\ S[n] \in Nat /\ Z[n] \in Nat /\ F[n] = hi * Z[n] + lo * S[n] + R[n]
  BY <1>10 DEF Inv
<1> QED  BY <1>8, <1>11, <1>12 DEF AreFiltered

LEMMA PartsAreNat ==
  ASSUME NEW a \in Layouts, NEW i \in Nat, NEW k \in 1 .. Len(a)
  PROVE  Parts(a, i)[k] \in Nat
<1>1. a \in Seq(AnyMode) /\ Len(a) \in Nat /\ a[k] \in AnyMode  BY DEF Layouts
<1>2. k - 1 \in 0 .. Len(a)  BY <1>1
<1>3. PICK b \in Nat \ {0} : b = Before(a, k)
  <2>1. SubSeq(a, 1, k - 1) \in Layouts  BY <1>1, <1>2, PrefixOf DEF Layouts
  <2> QED  BY <2>1, SizePositive DEF Before
<1>4. PICK s \in Nat \ {0}, t \in Nat : s = a[k].size /\ t = a[k].stride  BY <1>1 DEF AnyMode
<1>5. i \div b \in Nat  BY NatDivMod
<1>6. (i \div b) % s \in Nat  BY <1>5, DivMod
<1>7. ((i \div b) % s) * t \in Nat  BY <1>6
<1> QED  BY <1>3, <1>4, <1>7 DEF Parts

\* filter_lo_hi, of every layout and all bounds: what moves between lo and hi stands
\* still, and what is below and above stays as it is, when the modes start and end in
\* step with the bounds and their sum carries nothing past lo or hi.
THEOREM ReduceKeepsLayouts ==
  ASSUME NEW a \in Layouts, a # <<>>, NEW lo \in Nat \ {0}, NEW hi \in Nat \ {0}, hi % lo = 0, lo < hi,
         FilterLoHi(a, lo, hi).ok, \A k \in DOMAIN a : InStep(a[k], lo, hi),
         NoCarry(<<Mode(lo, 0), Mode(hi \div lo, 0), Mode(1, 0)>>, a)
  PROVE  /\ Size(FilterLoHi(a, lo, hi).out) = Size(a)
         /\ \A i \in Domain(a) : Offset(FilterLoHi(a, lo, hi).out, i)
                                   = (Offset(a, i) % lo) + hi * (Offset(a, i) \div hi)
<1>1. PICK q \in Nat \ {0} : q = hi \div lo /\ hi = lo * q
  <2>1. PICK e \in Nat, j \in Nat : e = hi \div lo /\ j < lo /\ hi = lo * e + j  BY NatDivMod
  <2>2. IsDivision(hi, lo, e, j)  BY <2>1 DEF IsDivision
  <2>3. hi % lo = j  BY <2>2, DivUnique
  <2>4. hi = lo * e  BY <2>1, <2>3
  <2>5. e # 0
    <3>1. lo * 0 = 0  OBVIOUS
    <3> QED  BY <2>4, <3>1
  <2> QED  BY <2>1, <2>4, <2>5
<1>2. PICK o : o = [k \in DOMAIN a |-> FilterMode(a[k], lo, hi).out]  OBVIOUS
<1>3. FilterLoHi(a, lo, hi).out = FlattenSeq(o) /\ \A k \in DOMAIN a : FilterMode(a[k], lo, hi).ok
  <2>1. PICK ok : ok = \A k \in DOMAIN a : FilterMode(a[k], lo, hi).ok  OBVIOUS
  <2>2. PICK out : out = FlattenSeq(o)  OBVIOUS
  <2>3. FilterLoHi(a, lo, hi) = [ok |-> ok, out |-> out]  BY <1>2, <2>1, <2>2 DEF FilterLoHi
  <2>4. FilterLoHi(a, lo, hi).ok = ok /\ FilterLoHi(a, lo, hi).out = out  BY <2>3
  <2> QED  BY <2>1, <2>2, <2>4
<1>4. PICK n \in Nat \ {0} : n = Len(a) /\ DOMAIN a = 1 .. n  BY DEF Layouts
<1>5. PICK A : A = <<Mode(lo, 0), Mode(q, 0), Mode(1, 0)>>  OBVIOUS
<1>6. NoCarry(A, a)  BY <1>1, <1>5
<1>7. /\ A \in Layouts /\ Len(A) = 3 /\ Before(A, 1) = 1 /\ Before(A, 2) = lo
      /\ A[1].size = lo /\ A[2].size = q
  <2>1. PICK l \in AnyMode, m \in AnyMode, u \in AnyMode :
          l = Mode(lo, 0) /\ l.size = lo /\ m = Mode(q, 0) /\ m.size = q /\ u = Mode(1, 0)
    <3>1. 1 \in Nat \ {0} /\ 0 \in Nat  OBVIOUS
    <3> QED  BY <3>1, ModeParts
  <2>2. A = <<l, m, u>>  BY <1>5, <2>1
  <2>3. A \in Layouts /\ A \in Seq(AnyMode) /\ Len(A) = 3 /\ A[1] = l /\ A[2] = m
    BY <2>2 DEF Layouts
  <2>4. SubSeq(A, 1, 1 - 1) = <<>> /\ SubSeq(A, 1, 2 - 1) = <<l>>
    <3>1. 0 \in 0 .. Len(A) /\ 1 \in 0 .. Len(A) /\ 1 - 1 = 0 /\ 2 - 1 = 1  BY <2>3
    <3>2. SubSeq(A, 1, 0) \in Seq(AnyMode) /\ Len(SubSeq(A, 1, 0)) = 0  BY <2>3, <3>1, PrefixOf
    <3>3. /\ SubSeq(A, 1, 1) \in Seq(AnyMode) /\ Len(SubSeq(A, 1, 1)) = 1
          /\ \A k \in 1 .. 1 : SubSeq(A, 1, 1)[k] = A[k]
      BY <2>3, <3>1, PrefixOf
    <3>4. SubSeq(A, 1, 0) = <<>>  BY <3>2
    <3>5. SubSeq(A, 1, 1) = <<l>>
      <4>1. PICK v : v = SubSeq(A, 1, 1)  OBVIOUS
      <4>2. v \in Seq(AnyMode) /\ Len(v) = 1 /\ v[1] = l  BY <2>3, <3>3, <4>1
      <4>3. v = <<l>>  BY <4>2
      <4> QED  BY <4>1, <4>3
    <3> QED  BY <3>1, <3>4, <3>5
  <2>5. Size(<<l>>) = lo  BY <2>1, OneMode
  <2> QED  BY <2>1, <2>3, <2>4, <2>5, EmptySize DEF Before
<1>8. ASSUME NEW i \in Domain(a)
      PROVE  /\ FlattenSeq(o) \in Layouts /\ Size(FlattenSeq(o)) = Size(a)
             /\ Whole(FlattenSeq(o), i) = (Offset(a, i) % lo) + hi * (Offset(a, i) \div hi)
  <2>1. i \in Nat  BY SizePositive DEF Domain
  <2>2. PICK F : Stages("add", 0, Parts(a, i), n, F) /\ Whole(a, i) = F[n]  BY <1>4, WholeExists
  <2>3. PICK R : Stages("add", 0, LowParts(a, i, lo), n, R)  BY <1>4, StagesOfSums
  <2>4. PICK S : Stages("add", 0, MiddleParts(a, i, lo, q), n, S)  BY <1>4, StagesOfSums
  <2>5. PICK Z : Stages("add", 0, HighParts(a, i, hi), n, Z)  BY <1>4, StagesOfSums
  <2>6. /\ FlattenSeq(o) \in Layouts /\ Size(FlattenSeq(o)) = Size(a)
        /\ R[n] \in Nat /\ S[n] \in Nat /\ Z[n] \in Nat
        /\ F[n] = hi * Z[n] + lo * S[n] + R[n]
        /\ Whole(FlattenSeq(o), i) = R[n] + hi * Z[n]
    <3>1. \A k \in DOMAIN a : InStep(a[k], lo, hi) /\ FilterMode(a[k], lo, hi).ok  BY <1>3
    <3>2. AreFiltered(a, FlattenSeq(o), i, lo, hi, F[n], R[n], S[n], Z[n])
      BY <1>1, <1>2, <1>4, <2>1, <2>2, <2>3, <2>4, <2>5, <3>1, FilteredSums
    <3> QED  BY <3>2 DEF AreFiltered
  <2>7. \A k \in 1 .. n : Coordinate(a, i, k) * a[k].stride = Parts(a, i)[k]
    <3>1. \A k \in 1 .. Len(a) : Coordinate(a, i, k) = (i \div Before(a, k)) % a[k].size
      BY CoordinateInDomain
    <3> QED  BY <1>4, <3>1 DEF Parts
  <2>8. \A k \in 1 .. n : Carries(A, a, i, 1)[k] = LowParts(a, i, lo)[k]
    <3> TAKE k \in 1 .. n
    <3>1. Carries(A, a, i, 1)[k] = Coordinate(A, Parts(a, i)[k], 1)  BY <1>4, <2>7 DEF Carries
    <3>2. Parts(a, i)[k] \div 1 = Parts(a, i)[k]
      <4>1. Parts(a, i)[k] \in Nat  BY <1>4, <2>1, PartsAreNat
      <4>2. IsDivision(Parts(a, i)[k], 1, Parts(a, i)[k], 0)  BY <4>1 DEF IsDivision
      <4> QED  BY <4>2, DivUnique
    <3>3. Coordinate(A, Parts(a, i)[k], 1) = (Parts(a, i)[k] \div 1) % lo  BY <1>7 DEF Coordinate
    <3> QED  BY <1>4, <3>1, <3>2, <3>3 DEF LowParts
  <2>9. \A k \in 1 .. n : Carries(A, a, i, 2)[k] = MiddleParts(a, i, lo, q)[k]
    <3> TAKE k \in 1 .. n
    <3>1. Carries(A, a, i, 2)[k] = Coordinate(A, Parts(a, i)[k], 2)  BY <1>4, <2>7 DEF Carries
    <3>2. Coordinate(A, Parts(a, i)[k], 2) = (Parts(a, i)[k] \div lo) % q  BY <1>7 DEF Coordinate
    <3> QED  BY <1>4, <3>1, <3>2 DEF MiddleParts
  <2>10. Carry(A, a, i, 1) < lo /\ Carry(A, a, i, 2) < q
    <3>1. 1 \in 1 .. Len(A) - 1 /\ 2 \in 1 .. Len(A) - 1  BY <1>7
    <3>2. \A k \in 1 .. Len(A) - 1 : Carry(A, a, i, k) < A[k].size  BY <1>6 DEF NoCarry, Carry
    <3> QED  BY <1>7, <3>1, <3>2
  <2>11. a \in Seq(AnyMode) /\ n \in 0 .. n  BY <1>4 DEF Layouts
  <2>12. Carry(A, a, i, 1) = R[n]
    <3>1. PICK f : Stages("add", 0, Carries(A, a, i, 1), n, f) /\ Carry(A, a, i, 1) = f[n]
      BY <1>4, <2>11, CarryStages
    <3>2. n \in Nat /\ Stages("add", 0, Carries(A, a, i, 1), n, f)  BY <3>1
    <3>3. \A k \in 0 .. n : f[k] = R[k]  BY <2>3, <2>8, <3>2, StagesAgree
    <3> QED  BY <2>11, <3>1, <3>3
  <2>13. Carry(A, a, i, 2) = S[n]
    <3>1. PICK f : Stages("add", 0, Carries(A, a, i, 2), n, f) /\ Carry(A, a, i, 2) = f[n]
      BY <1>4, <2>11, CarryStages
    <3>2. n \in Nat /\ Stages("add", 0, Carries(A, a, i, 2), n, f)  BY <3>1
    <3>3. \A k \in 0 .. n : f[k] = S[k]  BY <2>4, <2>9, <3>2, StagesAgree
    <3> QED  BY <2>11, <3>1, <3>3
  <2>14. PICK x \in Nat, r \in Nat, s \in Nat, z \in Nat :
           x = F[n] /\ r = R[n] /\ s = S[n] /\ z = Z[n] /\ x = hi * z + lo * s + r
    <3>1. F[n] \in Nat  BY <2>1, <2>2, WholeIsNat
    <3> QED  BY <2>6, <3>1
  <2>15. IsSplit(x, lo, q, hi, r, s, z)  BY <2>10, <2>12, <2>13, <2>14 DEF IsSplit
  <2>16. x % lo = r /\ x \div hi = z  BY <1>1, <2>15, SplitUnique
  <2>17. Offset(a, i) = x  BY <2>2, <2>14, WholeIsOffset
  <2> QED  BY <2>6, <2>14, <2>16, <2>17
<1>9. FlattenSeq(o) \in Layouts /\ Size(FlattenSeq(o)) = Size(a)
  <2>1. 0 \in Domain(a)  BY SizePositive DEF Domain
  <2> QED  BY <1>8, <2>1
<1>10. ASSUME NEW i \in Domain(a) PROVE Offset(FlattenSeq(o), i) = Whole(FlattenSeq(o), i)
  <2>1. i \in Domain(FlattenSeq(o))  BY <1>9 DEF Domain
  <2> QED  BY <1>9, <2>1, WholeIsOffset
<1> QED  BY <1>3, <1>8, <1>9, <1>10

\* The functions that rewrite layouts keep what they say of the elements, whatever the
\* layouts and however many modes they have (coalesce, group, common_reshape, filter_lo_hi).
THEOREM RewritingKeepsLayouts == lhs \in Layouts /\ rhs \in Layouts => LayoutsKeepTheirFunction
<1> SUFFICES ASSUME lhs \in Layouts, rhs \in Layouts PROVE LayoutsKeepTheirFunction  OBVIOUS
<1>1. Coalesced  BY CoalesceKeepsLayouts DEF Coalesced, Agree
<1>2. Grouped
  <2> SUFFICES ASSUME Single, NEW size \in PartSizes
               PROVE  /\ LET parts == Group(lhs, size, FALSE)
                         IN  parts.ok => /\ Agree(lhs, parts.first \o parts.rest, Domain(lhs))
                                         /\ (size <= Size(lhs) => Size(parts.first) = size)
                      /\ LET parts == Group(lhs, size, TRUE)
                         IN  parts.ok /\ size <= Size(Filter(lhs)) => Size(Filter(parts.first)) = size
    BY DEF Grouped
  <2>1. size \in Nat \ {0}  BY LayoutRewritingAssumption
  <2> QED  BY <2>1, GroupKeepsLayouts DEF Agree
<1>3. Reshaped
  <2> DEFINE both == CommonReshape(lhs, rhs)
  <2>1. SUFFICES ASSUME both.ok
                 PROVE  /\ [k \in DOMAIN both.a |-> both.a[k].size] = [k \in DOMAIN both.b |-> both.b[k].size]
                        /\ Agree(lhs, both.a, Domain(both.a)) /\ Agree(rhs, both.b, Domain(both.b))
    BY DEF Reshaped
  <2> QED  BY <2>1, ReshapeKeepsLayouts DEF Agree
<1>4. Reduced
  <2> SUFFICES ASSUME Single, NEW lo \in PartSizes, NEW hi \in PartSizes,
                      hi % lo = 0, lo < hi, FilterLoHi(lhs, lo, hi).ok,
                      \A k \in DOMAIN lhs : InStep(lhs[k], lo, hi),
                      NoCarry(<<Mode(lo, 0), Mode(hi \div lo, 0), Mode(1, 0)>>, lhs)
               PROVE  /\ Size(FilterLoHi(lhs, lo, hi).out) = Size(lhs)
                      /\ \A i \in Domain(lhs) : Offset(FilterLoHi(lhs, lo, hi).out, i)
                                                  = (Offset(lhs, i) % lo) + hi * (Offset(lhs, i) \div hi)
    BY DEF Reduced
  <2>1. lo \in Nat \ {0} /\ hi \in Nat \ {0} /\ lhs # <<>>  BY LayoutRewritingAssumption DEF Single
  <2> QED  BY <2>1, ReduceKeepsLayouts
<1> QED  BY <1>1, <1>2, <1>3, <1>4 DEF LayoutsKeepTheirFunction

=============================================================================
