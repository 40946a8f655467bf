------------------------- MODULE MemoryPlannerProofs -------------------------
(***************************************************************************)
(* Proofs about the memory planner, for any set of tensors, any sizes and  *)
(* any alignment.  The inductive invariant says that the free list is      *)
(* coalesced and that the free addresses are exactly those no tensor       *)
(* holds; everything else follows from it.  The lemmas before it say what  *)
(* a list is after an insertion or an erasure, what align_up gives, and    *)
(* what cutting n bytes off a hole and giving n bytes back do to a         *)
(* coalesced free list.                                                    *)
(***************************************************************************)
EXTENDS MemoryPlanner, SequenceTheorems, WellFoundedInduction, TLAPS

-----------------------------------------------------------------------------
(* Inserting into and erasing from a std::list, for the sequences that      *)
(* stand for such lists.                                                    *)

\* A scan from the front stops at a first position: a non-empty set of positions
\* has a least element.
LEMMA LeastOf ==
  ASSUME NEW T \in SUBSET Nat, T # {}
  PROVE  \E x \in T : \A y \in T : x <= y
<1> DEFINE R == OpToRel(<, Nat)
<1>1. IsWellFoundedOn(R, Nat)  BY NatLessThanWellFounded
<1>2. \A x, y \in Nat : y < x => <<y, x>> \in R  BY DEF OpToRel
<1> HIDE DEF R
<1>3. \E x \in T : \A y \in T : ~ (<<y, x>> \in R)  BY <1>1, WFMin
<1>4. PICK x \in T : \A y \in T : ~ (<<y, x>> \in R)  BY <1>3
<1>5. ASSUME NEW y \in T PROVE x <= y
  <2>1. x \in Nat /\ y \in Nat  OBVIOUS
  <2>2. ~ (y < x)  BY <1>2, <1>4, <2>1
  <2> QED  BY <2>1, <2>2
<1> QED  BY <1>5

\* std::list::erase: the elements after position i move down by one.
LEMMA RemoveAtProperties ==
  ASSUME NEW S, NEW s \in Seq(S), NEW i \in 1 .. Len(s)
  PROVE  /\ RemoveAt(s, i) \in Seq(S)
         /\ Len(RemoveAt(s, i)) = Len(s) - 1
         /\ \A j \in 1 .. (Len(s) - 1) :
              RemoveAt(s, i)[j] = IF j < i THEN s[j] ELSE s[j + 1]
<1> DEFINE f == SubSeq(s, 1, i - 1)
           b == SubSeq(s, i + 1, Len(s))
<1>1. Len(s) \in Nat /\ \A j \in 1 .. Len(s) : s[j] \in S
  BY LenProperties, ElementOfSeq
<1>2. /\ f \in Seq(S)
      /\ Len(f) = i - 1
      /\ \A j \in 1 .. (i - 1) : f[j] = s[j]
  <2>1. \A j \in 1 .. (i - 1) : s[j] \in S  BY <1>1
  <2> QED  BY <1>1, <2>1, SubSeqProperties
<1>3. /\ b \in Seq(S)
      /\ Len(b) = Len(s) - i
      /\ \A j \in 1 .. (Len(s) - i) : b[j] = s[i + j]
  <2>1. \A j \in (i + 1) .. Len(s) : s[j] \in S  BY <1>1
  <2>2. /\ b \in Seq(S)
        /\ Len(b) = IF i + 1 <= Len(s) THEN Len(s) - (i + 1) + 1 ELSE 0
        /\ \A j \in 1 .. (Len(s) - (i + 1) + 1) : b[j] = s[i + 1 + j - 1]
    BY <1>1, <2>1, SubSeqProperties
  <2> QED  BY <1>1, <2>2
<1> HIDE DEF f, b
<1>4. /\ f \o b \in Seq(S)
      /\ Len(f \o b) = Len(f) + Len(b)
      /\ \A j \in 1 .. Len(f) + Len(b) :
           (f \o b)[j] = IF j <= Len(f) THEN f[j] ELSE b[j - Len(f)]
  BY <1>2, <1>3, ConcatProperties
<1> DEFINE fb == f \o b
<1>5. RemoveAt(s, i) = fb  BY DEF RemoveAt, f, b
<1>6. /\ RemoveAt(s, i) \in Seq(S)
      /\ Len(RemoveAt(s, i)) = Len(s) - 1
      /\ \A j \in 1 .. (Len(s) - 1) :
           RemoveAt(s, i)[j] = IF j <= i - 1 THEN f[j] ELSE b[j - (i - 1)]
  <2>1. fb \in Seq(S) /\ Len(fb) = Len(f) + Len(b)  BY <1>4
  <2>2. \A j \in 1 .. Len(f) + Len(b) :
          fb[j] = IF j <= Len(f) THEN f[j] ELSE b[j - Len(f)]
    BY <1>4
  <2>3. Len(f) + Len(b) = Len(s) - 1  BY <1>1, <1>2, <1>3
  <2> HIDE DEF fb
  <2> QED  BY <1>2, <1>5, <2>1, <2>2, <2>3
<1> HIDE DEF fb
<1>7. ASSUME NEW j \in 1 .. (Len(s) - 1)
      PROVE  RemoveAt(s, i)[j] = IF j < i THEN s[j] ELSE s[j + 1]
  <2>1. CASE j < i
    BY <1>1, <1>2, <1>6, <2>1
  <2>2. CASE j >= i
    <3>1. RemoveAt(s, i)[j] = b[j - (i - 1)]
      BY <1>1, <1>6, <2>2
    <3>2. j - (i - 1) \in 1 .. (Len(s) - i) /\ i + (j - (i - 1)) = j + 1
      BY <1>1, <2>2
    <3>3. b[j - (i - 1)] = s[j + 1]
      BY <1>3, <3>2
    <3> QED  BY <2>2, <3>1, <3>3
  <2> QED  BY <2>1, <2>2, <1>1
<1> QED  BY <1>6, <1>7

\* std::list::insert: e lands on position i and the rest moves up by one.
LEMMA InsertAtProperties ==
  ASSUME NEW S, NEW s \in Seq(S), NEW i \in 1 .. (Len(s) + 1), NEW e \in S
  PROVE  /\ InsertAt(s, i, e) \in Seq(S)
         /\ Len(InsertAt(s, i, e)) = Len(s) + 1
         /\ \A j \in 1 .. (Len(s) + 1) :
              InsertAt(s, i, e)[j] = IF j < i THEN s[j]
                                     ELSE IF j = i THEN e ELSE s[j - 1]
<1> DEFINE f == SubSeq(s, 1, i - 1)
           b == SubSeq(s, i, Len(s))
<1>1. Len(s) \in Nat /\ \A j \in 1 .. Len(s) : s[j] \in S
  BY LenProperties, ElementOfSeq
<1>2. /\ f \in Seq(S)
      /\ Len(f) = i - 1
      /\ \A j \in 1 .. (i - 1) : f[j] = s[j]
  <2>1. \A j \in 1 .. (i - 1) : s[j] \in S  BY <1>1
  <2> QED  BY <1>1, <2>1, SubSeqProperties
<1>3. /\ b \in Seq(S)
      /\ Len(b) = Len(s) - i + 1
      /\ \A j \in 1 .. (Len(s) - i + 1) : b[j] = s[i + j - 1]
  <2>1. \A j \in i .. Len(s) : s[j] \in S  BY <1>1
  <2> QED  BY <1>1, <2>1, SubSeqProperties
<1>4. <<e>> \in Seq(S) /\ Len(<<e>>) = 1 /\ <<e>>[1] = e  OBVIOUS
<1>5. /\ f \o <<e>> \in Seq(S)
      /\ Len(f \o <<e>>) = Len(f) + 1
      /\ \A j \in 1 .. Len(f) + 1 :
           (f \o <<e>>)[j] = IF j <= Len(f) THEN f[j] ELSE <<e>>[j - Len(f)]
  BY <1>2, <1>4, ConcatProperties
<1> DEFINE fe == f \o <<e>>
<1>6. fe \in Seq(S) /\ Len(fe) = i
  BY <1>2, <1>5
<1>7. \A j \in 1 .. i : fe[j] = IF j < i THEN s[j] ELSE e
  <2> SUFFICES ASSUME NEW j \in 1 .. i PROVE fe[j] = IF j < i THEN s[j] ELSE e
    OBVIOUS
  <2>1. CASE j < i  BY <1>2, <1>5, <2>1
  <2>2. CASE j = i  BY <1>2, <1>4, <1>5, <2>2
  <2> QED  BY <2>1, <2>2
<1> HIDE DEF fe
<1>8. /\ fe \o b \in Seq(S)
      /\ Len(fe \o b) = Len(fe) + Len(b)
      /\ \A j \in 1 .. Len(fe) + Len(b) :
           (fe \o b)[j] = IF j <= Len(fe) THEN fe[j] ELSE b[j - Len(fe)]
  BY <1>3, <1>6, ConcatProperties
<1>9. InsertAt(s, i, e) = fe \o b  BY DEF InsertAt, fe
<1> HIDE DEF f, b
<1> QED  BY <1>1, <1>3, <1>6, <1>7, <1>8, <1>9

-----------------------------------------------------------------------------
(* The free list.                                                           *)

USE AlignmentAssumption

\* A request is rounded up, never down.
LEMMA CeilProperties ==
  ASSUME NEW n \in Nat \ {0}
  PROVE  Ceil(n) \in Nat \ {0} /\ Ceil(n) >= n
<1> DEFINE q == (n + Alignment - 1) \div Alignment
           r == (n + Alignment - 1) % Alignment
<1>1. q \in Int /\ r \in 0 .. (Alignment - 1) /\ n + Alignment - 1 = Alignment * q + r
  OBVIOUS
<1>2. Ceil(n) = q * Alignment  BY DEF Ceil
<1> HIDE DEF q, r
<1>3. q * Alignment \in Int /\ q * Alignment = Alignment * q  BY <1>1
<1>4. Alignment * q >= n  BY <1>1, <1>3
<1> QED  BY <1>2, <1>3, <1>4

\* The elements of a list of regions, one by one.
LEMMA RegionAt ==
  ASSUME NEW rs \in Seq(Region)
  PROVE  /\ Len(rs) \in Nat
         /\ DOMAIN rs = 1 .. Len(rs)
         /\ \A i \in 1 .. Len(rs) :
              /\ rs[i] \in Region
              /\ rs[i].start \in Nat
              /\ rs[i].size \in Nat \cup {Unbounded}
<1>1. Len(rs) \in Nat /\ DOMAIN rs = 1 .. Len(rs)  BY LenProperties
<1>2. \A i \in 1 .. Len(rs) : rs[i] \in Region  BY ElementOfSeq
<1> QED  BY <1>1, <1>2 DEF Region, Unbounded

\* The same, and the order, in a well-formed list.
LEMMA WellFormedAt ==
  ASSUME NEW rs \in Seq(Region), WellFormed(rs)
  PROVE  /\ Len(rs) \in Nat \ {0}
         /\ rs[Len(rs)].size = -1
         /\ \A i \in 1 .. Len(rs) : i < Len(rs) => rs[i].size \in Nat \ {0}
         /\ \A i, j \in 1 .. Len(rs) :
              i < j => rs[i].start + rs[i].size < rs[j].start
  BY RegionAt DEF WellFormed, Unbounded

\* The scan of memory_planner_allocate always finds a region: the last one.
LEMMA FirstFitProperties ==
  ASSUME NEW rs \in Seq(Region), WellFormed(rs), NEW n \in Nat \ {0}
  PROVE  /\ FirstFit(rs, n) \in 1 .. Len(rs)
         /\ Fits(rs[FirstFit(rs, n)], n)
         /\ \A j \in 1 .. (FirstFit(rs, n) - 1) : ~ Fits(rs[j], n)
<1> DEFINE T == {i \in 1 .. Len(rs) : Fits(rs[i], n)}
<1>1. T \in SUBSET Nat /\ Len(rs) \in T
  BY WellFormedAt DEF Fits, Unbounded
<1>2. PICK i \in T : \A j \in T : i <= j
  BY <1>1, LeastOf
<1>3. \A j \in 1 .. (i - 1) : ~ Fits(rs[j], n)
  BY <1>2, RegionAt
<1>4. i \in DOMAIN rs /\ Fits(rs[i], n)
  BY <1>2, RegionAt
<1> QED  BY <1>3, <1>4, RegionAt DEF FirstFit

\* The scan of memory_planner_free finds a region too, when start is not free.
LEMMA AfterProperties ==
  ASSUME NEW rs \in Seq(Region), WellFormed(rs), NEW p \in Nat, ~ IsFree(rs, p)
  PROVE  /\ After(rs, p) \in 1 .. Len(rs)
         /\ rs[After(rs, p)].start > p
         /\ \A j \in 1 .. (After(rs, p) - 1) : rs[j].start <= p
<1> DEFINE T == {i \in 1 .. Len(rs) : rs[i].start > p}
<1>1. Len(rs) \in T
  BY WellFormedAt, RegionAt DEF IsFree, InRegion, Unbounded
<1>2. T \in SUBSET Nat
  OBVIOUS
<1>3. PICK i \in T : \A j \in T : i <= j
  BY <1>1, <1>2, LeastOf
<1>4. \A j \in 1 .. (i - 1) : rs[j].start <= p
  BY <1>3, RegionAt
<1>5. i \in DOMAIN rs /\ rs[i].start > p
  BY <1>3, RegionAt
<1> QED  BY <1>4, <1>5, RegionAt DEF After

-----------------------------------------------------------------------------
(* Three changes that keep a list well-formed: a region erased, a region   *)
(* replaced by one that stays between its neighbours, a region inserted    *)
(* between two neighbours.                                                 *)

\* The addresses of all regions but the i-th.
FreeBut(rs, i, a) == \E k \in 1 .. Len(rs) : k # i /\ InRegion(rs[k], a)

\* Region r begins after, or ends before, the regions on one side of position i.
Precedes(rs, i, r) == \A j \in 1 .. Len(rs) : j < i => rs[j].start + rs[j].size < r.start
Follows(rs, i, r)  == \A k \in 1 .. Len(rs) : i <= k => r.start + r.size < rs[k].start

\* Region r is unbounded just if the region on position i, the last one, is.
SameKind(rs, i, r) == IF i < Len(rs) THEN r.size > 0 ELSE r.size = -1

LEMMA RemoveRegion ==
  ASSUME NEW rs \in Seq(Region), WellFormed(rs), NEW i \in 1 .. Len(rs), i < Len(rs)
  PROVE  /\ RemoveAt(rs, i) \in Seq(Region)
         /\ WellFormed(RemoveAt(rs, i))
         /\ \A a \in Nat : IsFree(RemoveAt(rs, i), a) <=> FreeBut(rs, i, a)
<1> DEFINE ts == RemoveAt(rs, i)
<1>1. Len(rs) \in Nat \ {0} /\ DOMAIN rs = 1 .. Len(rs) /\ rs[Len(rs)].size = -1
  BY RegionAt, WellFormedAt
<1>2. \A j \in 1 .. Len(rs) : j < Len(rs) => rs[j].size \in Nat \ {0}
  BY WellFormedAt
<1>3. \A j, k \in 1 .. Len(rs) : j < k => rs[j].start + rs[j].size < rs[k].start
  BY WellFormedAt
<1>4. /\ ts \in Seq(Region)
      /\ Len(ts) = Len(rs) - 1
      /\ \A j \in 1 .. (Len(rs) - 1) : ts[j] = IF j < i THEN rs[j] ELSE rs[j + 1]
  BY RemoveAtProperties
<1>5. DOMAIN ts = 1 .. (Len(rs) - 1)  BY <1>4, RegionAt
<1> HIDE DEF ts
<1>6. \A j \in 1 .. (Len(rs) - 1) :
        \E k \in 1 .. Len(rs) : k # i /\ ts[j] = rs[k] /\ k = IF j < i THEN j ELSE j + 1
  BY <1>1, <1>4
<1>7. WellFormed(ts)
  <2>1. Len(ts) > 0 /\ ts[Len(ts)] = rs[Len(rs)]  BY <1>1, <1>4
  <2>2. ASSUME NEW j \in 1 .. (Len(ts) - 1)
        PROVE  ts[j].size > 0
    <3>1. PICK k \in 1 .. Len(rs) : ts[j] = rs[k] /\ k = IF j < i THEN j ELSE j + 1
      BY <1>1, <1>4, <1>6
    <3>2. k < Len(rs)  BY <1>1, <1>4, <3>1
    <3> QED  BY <1>2, <3>1, <3>2
  <2>3. ASSUME NEW j \in 1 .. (Len(ts) - 1), NEW l \in (j + 1) .. Len(ts)
        PROVE  ts[j].start + ts[j].size < ts[l].start
    <3>0. j \in 1 .. (Len(rs) - 1) /\ l \in 1 .. (Len(rs) - 1) /\ j < l
      BY <1>1, <1>4
    <3>1. PICK k \in 1 .. Len(rs) : ts[j] = rs[k] /\ k = IF j < i THEN j ELSE j + 1
      BY <1>6, <3>0
    <3>2. PICK m \in 1 .. Len(rs) : ts[l] = rs[m] /\ m = IF l < i THEN l ELSE l + 1
      BY <1>6, <3>0
    <3>3. k < m  BY <3>0, <3>1, <3>2
    <3> QED  BY <1>3, <3>1, <3>2, <3>3
  <2> QED  BY <1>1, <2>1, <2>2, <2>3 DEF WellFormed, Unbounded
<1>8. ASSUME NEW a \in Nat, IsFree(ts, a)
      PROVE  FreeBut(rs, i, a)
  <2>1. PICK j \in 1 .. (Len(rs) - 1) : InRegion(ts[j], a)  BY <1>5, <1>8 DEF IsFree
  <2> QED  BY <1>6, <2>1 DEF FreeBut
<1>9. ASSUME NEW a \in Nat, FreeBut(rs, i, a)
      PROVE  IsFree(ts, a)
  <2>1. PICK k \in 1 .. Len(rs) : k # i /\ InRegion(rs[k], a)  BY <1>9 DEF FreeBut
  <2>2. PICK j \in 1 .. (Len(rs) - 1) : ts[j] = rs[k]
    <3>1. CASE k < i
      <4>1. k \in 1 .. (Len(rs) - 1)  BY <1>1, <3>1
      <4> QED  BY <1>4, <3>1, <4>1
    <3>2. CASE k > i
      <4>1. k - 1 \in 1 .. (Len(rs) - 1) /\ ~ (k - 1 < i) /\ (k - 1) + 1 = k  BY <1>1, <3>2
      <4> QED  BY <1>4, <4>1
    <3> QED  BY <1>1, <2>1, <3>1, <3>2
  <2> QED  BY <1>5, <2>1, <2>2 DEF IsFree
<1> QED  BY <1>4, <1>7, <1>8, <1>9 DEF ts

LEMMA ReplaceRegion ==
  ASSUME NEW rs \in Seq(Region), WellFormed(rs), NEW i \in 1 .. Len(rs),
         NEW r \in Region,
         SameKind(rs, i, r),
         Precedes(rs, i, r), Follows(rs, i + 1, r)
  PROVE  /\ [rs EXCEPT ![i] = r] \in Seq(Region)
         /\ WellFormed([rs EXCEPT ![i] = r])
         /\ \A a \in Nat : IsFree([rs EXCEPT ![i] = r], a) <=> InRegion(r, a) \/ FreeBut(rs, i, a)
<1> DEFINE ts == [rs EXCEPT ![i] = r]
<1>1. Len(rs) \in Nat \ {0} /\ DOMAIN rs = 1 .. Len(rs) /\ rs[Len(rs)].size = -1
  BY RegionAt, WellFormedAt
<1>2. \A j \in 1 .. Len(rs) : j < Len(rs) => rs[j].size \in Nat \ {0}
  BY WellFormedAt
<1>3. \A j, k \in 1 .. Len(rs) : j < k => rs[j].start + rs[j].size < rs[k].start
  BY WellFormedAt
<1>4. /\ ts \in Seq(Region)
      /\ Len(ts) = Len(rs)
      /\ \A j \in 1 .. Len(rs) : ts[j] = IF j = i THEN r ELSE rs[j]
  BY ExceptSeq
<1>5. DOMAIN ts = 1 .. Len(rs)  BY <1>4, RegionAt
<1> HIDE DEF ts
<1>6. ts[i] = r /\ \A j \in 1 .. Len(rs) : j # i => ts[j] = rs[j]
  BY <1>4
<1>7. WellFormed(ts)
  <2>1. ts[Len(rs)].size = -1
    <3>1. Len(rs) \in 1 .. Len(rs)  BY <1>1
    <3>2. CASE ~ (i < Len(rs))
      <4>1. i = Len(rs)  BY <1>1, <3>2
      <4> QED  BY <1>6, <3>2, <4>1 DEF SameKind
    <3>3. CASE i < Len(rs)
      <4>1. ts[Len(rs)] = rs[Len(rs)]  BY <1>6, <3>1, <3>3
      <4> QED  BY <1>1, <4>1
    <3> QED  BY <3>2, <3>3
  <2>2. ASSUME NEW j \in 1 .. (Len(ts) - 1)
        PROVE  ts[j].size > 0
    <3>1. j \in 1 .. Len(rs) /\ j < Len(rs)  BY <1>1, <1>4
    <3>2. CASE j = i
      <4>1. i < Len(rs)  BY <3>1, <3>2
      <4> QED  BY <1>6, <3>2, <4>1 DEF SameKind
    <3>3. CASE j # i  BY <1>2, <1>6, <3>1, <3>3
    <3> QED  BY <3>2, <3>3
  <2>3. ASSUME NEW j \in 1 .. (Len(ts) - 1), NEW k \in (j + 1) .. Len(ts)
        PROVE  ts[j].start + ts[j].size < ts[k].start
    <3>1. j \in 1 .. Len(rs) /\ k \in 1 .. Len(rs) /\ j < k  BY <1>1, <1>4
    <3>2. CASE j = i
      <4>1. ts[k] = rs[k] /\ i + 1 <= k  BY <1>6, <3>1, <3>2
      <4> QED  BY <1>6, <3>1, <3>2, <4>1 DEF Follows
    <3>3. CASE k = i
      <4>1. ts[j] = rs[j]  BY <1>6, <3>1, <3>3
      <4> QED  BY <1>6, <3>1, <3>3, <4>1 DEF Precedes
    <3>4. CASE j # i /\ k # i  BY <1>3, <1>6, <3>1, <3>4
    <3> QED  BY <3>2, <3>3, <3>4
  <2> QED  BY <1>1, <1>4, <2>1, <2>2, <2>3 DEF WellFormed, Unbounded
<1>8. ASSUME NEW a \in Nat, IsFree(ts, a)
      PROVE  InRegion(r, a) \/ FreeBut(rs, i, a)
  <2>1. PICK j \in 1 .. Len(rs) : InRegion(ts[j], a)  BY <1>5, <1>8 DEF IsFree
  <2> QED  BY <1>6, <2>1 DEF FreeBut
<1>9. ASSUME NEW a \in Nat, InRegion(r, a) \/ FreeBut(rs, i, a)
      PROVE  IsFree(ts, a)
  <2>1. CASE InRegion(r, a)  BY <1>5, <1>6, <2>1 DEF IsFree
  <2>2. CASE FreeBut(rs, i, a)  BY <1>5, <1>6, <2>2 DEF IsFree, FreeBut
  <2> QED  BY <1>9, <2>1, <2>2
<1> QED  BY <1>4, <1>7, <1>8, <1>9 DEF ts

LEMMA InsertRegion ==
  ASSUME NEW rs \in Seq(Region), WellFormed(rs), NEW i \in 1 .. Len(rs),
         NEW r \in Region, r.size > 0,
         Precedes(rs, i, r), Follows(rs, i, r)
  PROVE  /\ InsertAt(rs, i, r) \in Seq(Region)
         /\ WellFormed(InsertAt(rs, i, r))
         /\ \A a \in Nat : IsFree(InsertAt(rs, i, r), a) <=> InRegion(r, a) \/ IsFree(rs, a)
<1> DEFINE ts == InsertAt(rs, i, r)
<1>1. Len(rs) \in Nat \ {0} /\ DOMAIN rs = 1 .. Len(rs) /\ rs[Len(rs)].size = -1
  BY RegionAt, WellFormedAt
<1>2. \A j \in 1 .. Len(rs) : j < Len(rs) => rs[j].size \in Nat \ {0}
  BY WellFormedAt
<1>3. \A j, k \in 1 .. Len(rs) : j < k => rs[j].start + rs[j].size < rs[k].start
  BY WellFormedAt
<1>4. /\ ts \in Seq(Region)
      /\ Len(ts) = Len(rs) + 1
      /\ \A j \in 1 .. (Len(rs) + 1) :
           ts[j] = IF j < i THEN rs[j] ELSE IF j = i THEN r ELSE rs[j - 1]
  <2>1. i \in 1 .. (Len(rs) + 1)  BY <1>1
  <2> QED  BY <2>1, InsertAtProperties
<1>5. DOMAIN ts = 1 .. (Len(rs) + 1)  BY <1>1, <1>4, RegionAt
<1> HIDE DEF ts
<1>6. /\ ts[i] = r
      /\ \A j \in 1 .. Len(rs) : j < i => ts[j] = rs[j]
      /\ \A j \in 1 .. Len(rs) : i <= j => ts[j + 1] = rs[j]
  <2>1. i \in 1 .. (Len(rs) + 1) /\ ~ (i < i)  BY <1>1
  <2>2. ts[i] = r  BY <1>4, <2>1
  <2>3. ASSUME NEW j \in 1 .. Len(rs), j < i PROVE ts[j] = rs[j]
    <3>1. j \in 1 .. (Len(rs) + 1)  BY <1>1
    <3> QED  BY <1>4, <2>3, <3>1
  <2>4. ASSUME NEW j \in 1 .. Len(rs), i <= j PROVE ts[j + 1] = rs[j]
    <3>1. j + 1 \in 1 .. (Len(rs) + 1) /\ ~ (j + 1 < i) /\ j + 1 # i /\ (j + 1) - 1 = j
      BY <1>1, <2>4
    <3> QED  BY <1>4, <3>1
  <2> QED  BY <2>2, <2>3, <2>4
<1>7. \A j \in 1 .. (Len(rs) + 1) :
        \/ j = i
        \/ j < i /\ j \in 1 .. Len(rs) /\ ts[j] = rs[j]
        \/ j > i /\ j - 1 \in 1 .. Len(rs) /\ i <= j - 1 /\ ts[j] = rs[j - 1]
  <2> SUFFICES ASSUME NEW j \in 1 .. (Len(rs) + 1)
               PROVE  \/ j = i
                      \/ j < i /\ j \in 1 .. Len(rs) /\ ts[j] = rs[j]
                      \/ j > i /\ j - 1 \in 1 .. Len(rs) /\ i <= j - 1 /\ ts[j] = rs[j - 1]
    OBVIOUS
  <2>1. CASE j < i
    <3>1. j \in 1 .. Len(rs)  BY <1>1, <2>1
    <3> QED  BY <1>6, <2>1, <3>1
  <2>2. CASE j > i
    <3>1. j - 1 \in 1 .. Len(rs) /\ i <= j - 1 /\ (j - 1) + 1 = j  BY <1>1, <2>2
    <3>2. ts[(j - 1) + 1] = rs[j - 1]  BY <1>6, <3>1
    <3> QED  BY <2>2, <3>1, <3>2
  <2> QED  BY <1>1, <2>1, <2>2
<1>8. WellFormed(ts)
  <2>1. ts[Len(ts)].size = -1
    <3>1. Len(rs) \in 1 .. Len(rs) /\ i <= Len(rs)  BY <1>1
    <3>2. ts[Len(rs) + 1] = rs[Len(rs)]  BY <1>6, <3>1
    <3> QED  BY <1>1, <1>4, <3>2
  <2>2. ASSUME NEW j \in 1 .. (Len(ts) - 1)
        PROVE  ts[j].size > 0
    <3>1. j \in 1 .. (Len(rs) + 1) /\ j <= Len(rs)  BY <1>1, <1>4
    <3>2. CASE j = i  BY <1>6, <3>2
    <3>3. CASE j < i /\ j \in 1 .. Len(rs) /\ ts[j] = rs[j]
      <4>1. j < Len(rs)  BY <1>1, <3>3
      <4> QED  BY <1>2, <3>3, <4>1
    <3>4. CASE j > i /\ j - 1 \in 1 .. Len(rs) /\ ts[j] = rs[j - 1]
      <4>1. j - 1 < Len(rs)  BY <1>1, <3>1
      <4> QED  BY <1>2, <3>4, <4>1
    <3> QED  BY <1>7, <3>1, <3>2, <3>3, <3>4
  <2>3. ASSUME NEW j \in 1 .. (Len(ts) - 1), NEW k \in (j + 1) .. Len(ts)
        PROVE  ts[j].start + ts[j].size < ts[k].start
    <3>1. j \in 1 .. (Len(rs) + 1) /\ k \in 1 .. (Len(rs) + 1) /\ j < k  BY <1>1, <1>4
    <3>2. CASE j = i
      <4>1. k > i  BY <3>1, <3>2
      <4>2. k - 1 \in 1 .. Len(rs) /\ i <= k - 1 /\ ts[k] = rs[k - 1]  BY <1>7, <3>1, <4>1
      <4>3. r.start + r.size < rs[k - 1].start  BY <4>2 DEF Follows
      <4> QED  BY <1>6, <3>2, <4>2, <4>3
    <3>3. CASE j < i /\ j \in 1 .. Len(rs) /\ ts[j] = rs[j]
      <4>1. CASE k = i
        <5>1. rs[j].start + rs[j].size < r.start  BY <3>3 DEF Precedes
        <5> QED  BY <1>6, <3>3, <4>1, <5>1
      <4>2. CASE k < i /\ k \in 1 .. Len(rs) /\ ts[k] = rs[k]
        BY <1>3, <3>1, <3>3, <4>2
      <4>3. CASE k > i /\ k - 1 \in 1 .. Len(rs) /\ i <= k - 1 /\ ts[k] = rs[k - 1]
        <5>1. j < k - 1  BY <3>3, <4>3
        <5>2. rs[j].start + rs[j].size < rs[k - 1].start  BY <1>3, <3>3, <4>3, <5>1
        <5> QED  BY <3>3, <4>3, <5>2
      <4> QED  BY <1>7, <3>1, <4>1, <4>2, <4>3
    <3>4. CASE j > i /\ j - 1 \in 1 .. Len(rs) /\ ts[j] = rs[j - 1]
      <4>1. k > i  BY <3>1, <3>4
      <4>2. k - 1 \in 1 .. Len(rs) /\ ts[k] = rs[k - 1]  BY <1>7, <3>1, <4>1
      <4>3. j - 1 < k - 1  BY <3>1
      <4>4. rs[j - 1].start + rs[j - 1].size < rs[k - 1].start  BY <1>3, <3>4, <4>2, <4>3
      <4> QED  BY <3>4, <4>2, <4>4
    <3> QED  BY <1>7, <3>1, <3>2, <3>3, <3>4
  <2> QED  BY <1>1, <1>4, <2>1, <2>2, <2>3 DEF WellFormed, Unbounded
<1>9. ASSUME NEW a \in Nat, IsFree(ts, a)
      PROVE  InRegion(r, a) \/ IsFree(rs, a)
  <2>1. PICK j \in 1 .. (Len(rs) + 1) : InRegion(ts[j], a)  BY <1>5, <1>9 DEF IsFree
  <2>2. CASE j = i  BY <1>6, <2>1, <2>2
  <2>3. CASE j < i /\ j \in 1 .. Len(rs) /\ ts[j] = rs[j]  BY <1>1, <2>1, <2>3 DEF IsFree
  <2>4. CASE j > i /\ j - 1 \in 1 .. Len(rs) /\ ts[j] = rs[j - 1]  BY <1>1, <2>1, <2>4 DEF IsFree
  <2> QED  BY <1>7, <2>2, <2>3, <2>4
<1>10. ASSUME NEW a \in Nat, InRegion(r, a) \/ IsFree(rs, a)
      PROVE  IsFree(ts, a)
  <2>1. CASE InRegion(r, a)
    <3>1. i \in 1 .. (Len(rs) + 1)  BY <1>1
    <3> QED  BY <1>5, <1>6, <2>1, <3>1 DEF IsFree
  <2>2. CASE IsFree(rs, a)
    <3>1. PICK k \in 1 .. Len(rs) : InRegion(rs[k], a)  BY <1>1, <2>2 DEF IsFree
    <3>2. CASE k < i
      <4>1. k \in 1 .. (Len(rs) + 1) /\ ts[k] = rs[k]  BY <1>1, <1>6, <3>2
      <4> QED  BY <1>5, <3>1, <4>1 DEF IsFree
    <3>3. CASE i <= k
      <4>1. k + 1 \in 1 .. (Len(rs) + 1) /\ ts[k + 1] = rs[k]  BY <1>1, <1>6, <3>3
      <4> QED  BY <1>5, <3>1, <4>1 DEF IsFree
    <3> QED  BY <3>2, <3>3
  <2> QED  BY <1>10, <2>1, <2>2
<1> QED  BY <1>4, <1>8, <1>9, <1>10 DEF ts

-----------------------------------------------------------------------------

\* Cutting a block of n bytes from the front of a region that fits keeps the
\* list well-formed and makes exactly the addresses of the block unavailable.
LEMMA TakeFromProperties ==
  ASSUME NEW rs \in Seq(Region), WellFormed(rs),
         NEW i \in 1 .. Len(rs), NEW n \in Nat \ {0}, Fits(rs[i], n)
  PROVE  /\ TakeFrom(rs, i, n) \in Seq(Region)
         /\ WellFormed(TakeFrom(rs, i, n))
         /\ \A a \in rs[i].start .. (rs[i].start + n - 1) : IsFree(rs, a)
         /\ \A a \in Nat : IsFree(TakeFrom(rs, i, n), a) <=>
              IsFree(rs, a) /\ ~ (rs[i].start <= a /\ a < rs[i].start + n)
<1> DEFINE ts == TakeFrom(rs, i, n)
           p  == rs[i].start
           r  == [start |-> p + n, size |-> IF rs[i].size = -1 THEN -1 ELSE rs[i].size - n]
<1>1. Len(rs) \in Nat \ {0} /\ DOMAIN rs = 1 .. Len(rs) /\ rs[Len(rs)].size = -1
  BY RegionAt, WellFormedAt
<1>2. \A j \in 1 .. Len(rs) : rs[j].start \in Nat /\ rs[j].size \in Int
  BY RegionAt DEF Unbounded
<1>3. \A j \in 1 .. Len(rs) : j < Len(rs) => rs[j].size \in Nat \ {0}
  BY WellFormedAt
<1>4. \A j, k \in 1 .. Len(rs) : j < k => rs[j].start + rs[j].size < rs[k].start
  BY WellFormedAt
<1>5. p \in Nat /\ rs[i].size \in Int /\ (rs[i].size = -1 \/ rs[i].size >= n)
  BY <1>2 DEF Fits, Unbounded
<1>6. IF i < Len(rs) THEN rs[i].size >= n /\ rs[i].size # -1 ELSE rs[i].size = -1
  <2>1. CASE i < Len(rs)
    <3>1. rs[i].size \in Nat  BY <1>3, <2>1
    <3> QED  BY <1>5, <2>1, <3>1
  <2>2. CASE ~ (i < Len(rs))
    <3>1. i = Len(rs)  BY <1>1, <2>2
    <3> QED  BY <1>1, <2>2, <3>1
  <2> QED  BY <2>1, <2>2
<1> HIDE DEF p
<1>7. \A a \in p .. (p + n - 1) : InRegion(rs[i], a)
  BY <1>5 DEF InRegion, Unbounded, p
<1>8. \A a \in p .. (p + n - 1) : IsFree(rs, a)
  BY <1>1, <1>7 DEF IsFree
<1>9. ASSUME NEW a \in Nat, NEW k \in 1 .. Len(rs), k # i, InRegion(rs[k], a)
      PROVE  ~ (p <= a /\ a < p + n)
  <2>1. rs[k].start <= a /\ rs[k].start \in Nat /\ rs[k].size \in Int
    BY <1>2, <1>9 DEF InRegion
  <2>2. CASE k < i
    <3>1. rs[k].size # -1  BY <1>1, <1>3, <2>2
    <3>2. a < rs[k].start + rs[k].size  BY <1>9, <3>1 DEF InRegion, Unbounded
    <3>3. rs[k].start + rs[k].size < p  BY <1>4, <2>2 DEF p
    <3> QED  BY <1>5, <2>1, <3>2, <3>3
  <2>3. CASE i < k
    <3>1. i < Len(rs)  BY <1>1, <2>3
    <3>2. rs[i].size >= n  BY <1>6, <3>1
    <3>3. p + rs[i].size < rs[k].start  BY <1>4, <2>3 DEF p
    <3> QED  BY <1>5, <2>1, <3>2, <3>3
  <2> QED  BY <1>1, <1>9, <2>2, <2>3
<1>10. \A a \in Nat : FreeBut(rs, i, a) => IsFree(rs, a) /\ ~ (p <= a /\ a < p + n)
  BY <1>1, <1>9 DEF FreeBut, IsFree
<1>11. \A a \in Nat : IsFree(rs, a) => InRegion(rs[i], a) \/ FreeBut(rs, i, a)
  BY <1>1 DEF IsFree, FreeBut
<1>12. CASE rs[i].size = n
  <2>1. i < Len(rs)  BY <1>6, <1>12
  <2>2. ts = RemoveAt(rs, i)  BY <1>12 DEF TakeFrom
  <2> HIDE DEF ts
  <2>3. /\ ts \in Seq(Region)
        /\ WellFormed(ts)
        /\ \A a \in Nat : IsFree(ts, a) <=> FreeBut(rs, i, a)
    BY <2>1, <2>2, RemoveRegion
  <2>4. \A a \in Nat : InRegion(rs[i], a) => p <= a /\ a < p + n
    BY <1>5, <1>12 DEF InRegion, Unbounded, p
  <2> QED  BY <1>8, <1>10, <1>11, <2>3, <2>4 DEF ts, p
<1>13. CASE rs[i].size # n
  <2>1. r \in Region
    <3>1. p + n \in Nat  BY <1>5
    <3>2. CASE rs[i].size = -1
      <4>1. r = [start |-> p + n, size |-> -1]  BY <3>2
      <4> QED  BY <3>1, <4>1 DEF Region, Unbounded
    <3>3. CASE rs[i].size # -1
      <4>1. rs[i].size - n \in Nat  BY <1>5, <3>3
      <4>2. r = [start |-> p + n, size |-> rs[i].size - n]  BY <3>3
      <4> QED  BY <3>1, <4>1, <4>2 DEF Region, Unbounded
    <3> QED  BY <3>2, <3>3
  <2>2. ts = [rs EXCEPT ![i] = r]  BY <1>13 DEF TakeFrom, Unbounded, p
  <2>3. r.start = p + n /\ r.size = IF rs[i].size = -1 THEN -1 ELSE rs[i].size - n
    OBVIOUS
  <2> HIDE DEF ts, r
  <2>4. \A a \in Nat : InRegion(r, a) <=> InRegion(rs[i], a) /\ ~ (p <= a /\ a < p + n)
    BY <1>5, <2>3 DEF InRegion, Unbounded, p
  <2>5. SameKind(rs, i, r)
    BY <1>5, <1>6, <1>13, <2>3 DEF SameKind
  <2>6. Precedes(rs, i, r)
    BY <1>2, <1>4, <1>5, <2>3 DEF Precedes, p
  <2>7. Follows(rs, i + 1, r)
    <3> SUFFICES ASSUME NEW k \in 1 .. Len(rs), i + 1 <= k
                 PROVE  r.start + r.size < rs[k].start
      BY DEF Follows
    <3>1. i < Len(rs) /\ i < k  BY <1>1
    <3>2. r.start + r.size = p + rs[i].size  BY <1>5, <1>6, <2>3, <3>1
    <3> QED  BY <1>4, <3>1, <3>2 DEF p
  <2>8. /\ ts \in Seq(Region)
        /\ WellFormed(ts)
        /\ \A a \in Nat : IsFree(ts, a) <=> InRegion(r, a) \/ FreeBut(rs, i, a)
    BY <2>1, <2>2, <2>5, <2>6, <2>7, ReplaceRegion
  <2>9. \A a \in Nat : InRegion(rs[i], a) => IsFree(rs, a)
    BY <1>1 DEF IsFree
  <2> QED  BY <1>8, <1>10, <1>11, <2>4, <2>8, <2>9 DEF ts, p
<1> QED  BY <1>12, <1>13

\* A block of n bytes before a region, and one after it, as one region with it.
LEMMA JoinNext ==
  ASSUME NEW y \in Region, NEW p \in Nat, NEW n \in Nat \ {0}, NEW r \in Region,
         y.start = p + n, y.size = -1 \/ y.size \in Nat \ {0}, r.start = p,
         r.size = IF y.size = -1 THEN -1 ELSE y.size + n
  PROVE  \A a \in Nat : InRegion(r, a) <=> InRegion(y, a) \/ (p <= a /\ a < p + n)
<1> DEFINE w == y.size
<1>1. \A a \in Nat : InRegion(y, a) <=> p + n <= a /\ (w = -1 \/ a < p + n + w)
  BY DEF InRegion, Unbounded
<1>2. \A a \in Nat : InRegion(r, a) <=> p <= a /\ (r.size = -1 \/ a < p + r.size)
  BY DEF InRegion, Unbounded
<1>3. w = -1 \/ w \in Nat \ {0}  OBVIOUS
<1>4. r.size = IF w = -1 THEN -1 ELSE w + n  OBVIOUS
<1> HIDE DEF w
<1>5. CASE w = -1  BY <1>1, <1>2, <1>4, <1>5
<1>6. CASE w \in Nat \ {0}
  <2>1. r.size = w + n /\ r.size # -1  BY <1>4, <1>6
  <2>2. p + r.size = p + n + w  BY <1>6, <2>1
  <2> QED  BY <1>1, <1>2, <1>6, <2>1, <2>2
<1> QED  BY <1>3, <1>5, <1>6

LEMMA JoinPrevious ==
  ASSUME NEW x \in Region, NEW n \in Nat \ {0}, NEW r \in Region,
         x.size \in Nat \ {0}, r.start = x.start, r.size = x.size + n
  PROVE  \A a \in Nat : InRegion(r, a) <=>
           InRegion(x, a) \/ (x.start + x.size <= a /\ a < x.start + x.size + n)
<1> DEFINE s == x.start
           z == x.size
<1>1. s \in Nat /\ z \in Nat \ {0}  BY DEF Region
<1>2. \A a \in Nat : InRegion(x, a) <=> s <= a /\ a < s + z  BY DEF InRegion, Unbounded
<1>3. r.size = z + n /\ r.size # -1  OBVIOUS
<1>4. \A a \in Nat : InRegion(r, a) <=> s <= a /\ a < s + (z + n)
  BY <1>3 DEF InRegion, Unbounded
<1> HIDE DEF s, z
<1>5. \A a \in Nat : InRegion(r, a) <=> InRegion(x, a) \/ (s + z <= a /\ a < s + z + n)
  BY <1>1, <1>2, <1>4
<1> QED  BY <1>5 DEF s, z

\* Two regions and the block of n bytes between them, as one region.
LEMMA JoinBoth ==
  ASSUME NEW x \in Region, NEW y \in Region, NEW n \in Nat \ {0}, NEW r \in Region,
         x.size \in Nat \ {0}, y.start = x.start + x.size + n,
         r = Extend(y, x.start, x.size + n)
  PROVE  /\ y.size \in Nat => r.start + r.size = y.start + y.size
         /\ \A a \in Nat : InRegion(r, a) <=>
              InRegion(y, a) \/ InRegion(x, a) \/ (x.start + x.size <= a /\ a < y.start)
<1> DEFINE s == x.start
           z == x.size
           w == y.size
<1>1. s \in Nat /\ z \in Nat \ {0} /\ (w \in Nat \/ w = -1)  BY DEF Region, Unbounded
<1>2. y.start = s + z + n  OBVIOUS
<1>3. r.start = s /\ r.size = IF w = -1 THEN -1 ELSE w + (z + n)  BY DEF Extend, Unbounded
<1>4. \A a \in Nat : InRegion(x, a) <=> s <= a /\ a < s + z  BY DEF InRegion, Unbounded
<1>5. \A a \in Nat : InRegion(y, a) <=> s + z + n <= a /\ (w = -1 \/ a < s + z + n + w)
  BY DEF InRegion, Unbounded
<1>6. \A a \in Nat : InRegion(r, a) <=> s <= a /\ (r.size = -1 \/ a < s + r.size)
  BY <1>3 DEF InRegion, Unbounded
<1> HIDE DEF s, z, w
<1>7. CASE w = -1
  <2>1. r.size = -1  BY <1>3, <1>7
  <2>2. \A a \in Nat : InRegion(r, a) <=>
           InRegion(y, a) \/ InRegion(x, a) \/ (s + z <= a /\ a < y.start)
    BY <1>1, <1>2, <1>4, <1>5, <1>6, <1>7, <2>1
  <2> QED  BY <1>7, <2>2 DEF s, z, w
<1>8. CASE w \in Nat
  <2>1. r.size = w + (z + n) /\ r.size # -1  BY <1>1, <1>3, <1>8
  <2>2. \A a \in Nat : InRegion(r, a) <=>
           InRegion(y, a) \/ InRegion(x, a) \/ (s + z <= a /\ a < y.start)
    BY <1>1, <1>2, <1>4, <1>5, <1>6, <1>8, <2>1
  <2>3. r.start + r.size = y.start + w  BY <1>1, <1>2, <1>3, <1>8, <2>1
  <2> QED  BY <2>2, <2>3 DEF s, z, w
<1> QED  BY <1>1, <1>7, <1>8

\* Giving back a block none of whose addresses is free keeps the list
\* well-formed, whichever neighbours the block touches, and makes exactly the
\* addresses of the block available.
LEMMA GiveBackProperties ==
  ASSUME NEW rs \in Seq(Region), WellFormed(rs),
         NEW p \in Nat, NEW n \in Nat \ {0},
         \A a \in p .. (p + n - 1) : ~ IsFree(rs, a)
  PROVE  /\ GiveBack(rs, p, n) \in Seq(Region)
         /\ WellFormed(GiveBack(rs, p, n))
         /\ \A a \in Nat : IsFree(GiveBack(rs, p, n), a) <=>
              IsFree(rs, a) \/ (p <= a /\ a < p + n)
<1> DEFINE gs == GiveBack(rs, p, n)
           i  == After(rs, p)
           h  == i - 1
           joinsNext == p + n = rs[i].start
           joinsPrev == i > 1 /\ p = rs[h].start + rs[h].size
<1>1. Len(rs) \in Nat \ {0} /\ DOMAIN rs = 1 .. Len(rs) /\ rs[Len(rs)].size = -1
  BY RegionAt, WellFormedAt
<1>2. \A j \in 1 .. Len(rs) : rs[j].start \in Nat /\ rs[j].size \in Int
  BY RegionAt DEF Unbounded
<1>3. \A j \in 1 .. Len(rs) : j < Len(rs) => rs[j].size \in Nat \ {0}
  BY WellFormedAt
<1>4. \A j, k \in 1 .. Len(rs) : j < k => rs[j].start + rs[j].size < rs[k].start
  BY WellFormedAt
<1>5. \A a \in Nat : p <= a /\ a < p + n => ~ IsFree(rs, a)
  OBVIOUS
<1>6. /\ i \in 1 .. Len(rs)
      /\ rs[i].start > p
      /\ \A j \in 1 .. (i - 1) : rs[j].start <= p
  BY <1>5, AfterProperties
<1>7. h = i - 1 /\ (i > 1 => h \in 1 .. Len(rs) /\ h < Len(rs))
  BY <1>1, <1>6
<1>8. gs = CASE joinsNext /\ joinsPrev ->
                  RemoveAt([rs EXCEPT ![i] = Extend(@, rs[h].start, rs[h].size + n)], h)
             [] joinsNext /\ ~ joinsPrev -> [rs EXCEPT ![i] = Extend(@, p, n)]
             [] ~ joinsNext /\ joinsPrev -> [rs EXCEPT ![h].size = @ + n]
             [] OTHER -> InsertAt(rs, i, [start |-> p, size |-> n])
  BY DEF GiveBack
<1> HIDE DEF gs, i, h, joinsNext, joinsPrev
<1>9. \A j \in 1 .. Len(rs), a \in Nat : InRegion(rs[j], a) => IsFree(rs, a)
  BY <1>1 DEF IsFree
<1>10. rs[i].start >= p + n
  <2> SUFFICES ASSUME rs[i].start < p + n PROVE FALSE  BY <1>2, <1>6
  <2>1. InRegion(rs[i], rs[i].start)
    BY <1>1, <1>2, <1>3, <1>6 DEF InRegion, Unbounded
  <2> QED  BY <1>2, <1>5, <1>6, <1>9, <2>1
<1>11. ASSUME NEW j \in 1 .. Len(rs), j < i
       PROVE  rs[j].size \in Nat \ {0} /\ rs[j].start + rs[j].size <= p
  <2>1. rs[j].start <= p  BY <1>1, <1>6, <1>11
  <2>2. rs[j].size \in Nat \ {0}  BY <1>1, <1>3, <1>6, <1>11
  <2>3. ~ InRegion(rs[j], p)  BY <1>5, <1>9
  <2> QED  BY <1>2, <2>1, <2>2, <2>3 DEF InRegion, Unbounded
<1>12. ASSUME NEW k \in 1 .. Len(rs), i < k
       PROVE  rs[i].start + rs[i].size < rs[k].start /\ rs[i].size \in Nat \ {0}
  <2>1. i < Len(rs)  BY <1>1, <1>6, <1>12
  <2> QED  BY <1>3, <1>4, <1>6, <1>12, <2>1
<1>13. IF i < Len(rs) THEN rs[i].size > 0 ELSE rs[i].size = -1
  <2>1. CASE i < Len(rs)  BY <1>3, <1>6, <2>1
  <2>2. CASE ~ (i < Len(rs))
    <3>1. i \in Nat /\ Len(rs) \in Nat /\ i <= Len(rs)  BY <1>1, <1>6
    <3>2. i = Len(rs)  BY <2>2, <3>1
    <3> QED  BY <1>1, <2>2, <3>2
  <2> QED  BY <2>1, <2>2
<1>14. \A a \in Nat : IsFree(rs, a) <=> InRegion(rs[i], a) \/ FreeBut(rs, i, a)
  BY <1>1, <1>6 DEF IsFree, FreeBut
<1>15. ASSUME joinsPrev
       PROVE  \A a \in Nat : IsFree(rs, a) <=> InRegion(rs[h], a) \/ FreeBut(rs, h, a)
  <2>1. h \in 1 .. Len(rs)
    <3>1. i > 1  BY <1>15 DEF joinsPrev
    <3> QED  BY <1>7, <3>1
  <2> QED  BY <1>1, <2>1 DEF IsFree, FreeBut
<1>16. rs[i].start \in Nat /\ (rs[i].size = -1 \/ rs[i].size \in Nat \ {0})
  BY <1>2, <1>3, <1>6, <1>13
<1>17. ASSUME ~ joinsPrev, NEW j \in 1 .. Len(rs), j < i
       PROVE  rs[j].start + rs[j].size < p
  <2>1. i > 1 /\ h \in 1 .. Len(rs) /\ h < i  BY <1>1, <1>6, <1>7, <1>17
  <2>2. rs[h].start + rs[h].size <= p /\ rs[h].size \in Nat /\ rs[h].start \in Nat
    BY <1>2, <1>11, <2>1
  <2>3. CASE j = h
    <3>1. p # rs[h].start + rs[h].size  BY <1>17, <2>1 DEF joinsPrev
    <3> QED  BY <2>2, <2>3, <3>1
  <2>4. CASE j < h
    <3>1. rs[j].start + rs[j].size < rs[h].start  BY <1>4, <2>1, <2>4
    <3>2. rs[j].start \in Nat /\ rs[j].size \in Int  BY <1>2
    <3> QED  BY <2>2, <3>1, <3>2
  <2>5. h \in Int /\ j \in Int /\ (j = h \/ j < h)  BY <1>6, <1>7, <1>17, <2>1
  <2> QED  BY <2>3, <2>4, <2>5
<1>18. CASE joinsNext /\ ~ joinsPrev
  <2> DEFINE r == Extend(rs[i], p, n)
  <2>1. r.start = p /\ r.size = IF rs[i].size = -1 THEN -1 ELSE rs[i].size + n
    BY DEF Extend, Unbounded
  <2>2. r \in Region
    <3>1. rs[i].size = -1 \/ rs[i].size \in Nat  BY RegionAt, <1>6 DEF Unbounded
    <3> QED  BY <3>1 DEF Extend, Region, Unbounded
  <2>3. gs = [rs EXCEPT ![i] = r]  BY <1>8, <1>18
  <2> HIDE DEF r
  <2>4. \A a \in Nat : InRegion(r, a) <=> InRegion(rs[i], a) \/ (p <= a /\ a < p + n)
    <3>1. rs[i].start = p + n  BY <1>18 DEF joinsNext
    <3>2. rs[i] \in Region  BY <1>6, RegionAt
    <3> QED  BY <1>16, <2>1, <2>2, <3>1, <3>2, JoinNext
  <2>5. SameKind(rs, i, r)  BY <1>2, <1>6, <1>13, <2>1 DEF SameKind
  <2>6. Precedes(rs, i, r)
    <3> SUFFICES ASSUME NEW j \in 1 .. Len(rs), j < i
                 PROVE  rs[j].start + rs[j].size < p
      BY <2>1 DEF Precedes
    <3> QED  BY <1>18, <1>17
  <2>7. Follows(rs, i + 1, r)
    <3> SUFFICES ASSUME NEW k \in 1 .. Len(rs), i + 1 <= k
                 PROVE  r.start + r.size < rs[k].start
      BY DEF Follows
    <3>1. i < k  BY <1>6
    <3>2. rs[i].start + rs[i].size < rs[k].start /\ rs[i].size \in Nat \ {0}  BY <1>12, <3>1
    <3>3. r.start + r.size = rs[i].start + rs[i].size
      BY <1>2, <1>6, <1>18, <2>1, <3>2 DEF joinsNext
    <3> QED  BY <3>2, <3>3
  <2>8. /\ gs \in Seq(Region)
        /\ WellFormed(gs)
        /\ \A a \in Nat : IsFree(gs, a) <=> InRegion(r, a) \/ FreeBut(rs, i, a)
    BY <1>6, <2>2, <2>3, <2>5, <2>6, <2>7, ReplaceRegion
  <2> QED  BY <1>14, <2>4, <2>8 DEF gs
<1>19. CASE ~ joinsNext /\ joinsPrev
  <2> DEFINE r == [rs[h] EXCEPT !.size = @ + n]
  <2>1. h \in 1 .. Len(rs) /\ h < i /\ h < Len(rs)
    <3>1. i > 1  BY <1>19 DEF joinsPrev
    <3> QED  BY <1>6, <1>7, <3>1
  <2>2. rs[h].size \in Nat \ {0} /\ rs[h] \in Region  BY <1>11, <2>1, RegionAt
  <2>3. r.start = rs[h].start /\ r.size = rs[h].size + n /\ r \in Region
    BY <2>2 DEF Region
  <2>4. gs = [rs EXCEPT ![h] = r]  BY <1>8, <1>19
  <2> HIDE DEF r
  <2>5. \A a \in Nat : InRegion(r, a) <=> InRegion(rs[h], a) \/ (p <= a /\ a < p + n)
    <3>1. p = rs[h].start + rs[h].size  BY <1>19 DEF joinsPrev
    <3> QED  BY <2>2, <2>3, <3>1, JoinPrevious
  <2>6. SameKind(rs, h, r)  BY <2>1, <2>2, <2>3 DEF SameKind
  <2>7. Precedes(rs, h, r)  BY <1>4, <2>1, <2>3 DEF Precedes
  <2>8. Follows(rs, h + 1, r)
    <3> SUFFICES ASSUME NEW k \in 1 .. Len(rs), h + 1 <= k
                 PROVE  r.start + r.size < rs[k].start
      BY DEF Follows
    <3>1. r.start + r.size = p + n
      BY <1>2, <1>19, <2>1, <2>2, <2>3 DEF joinsPrev
    <3>2. p + n < rs[i].start
      <4>1. p + n # rs[i].start  BY <1>19 DEF joinsNext
      <4>2. p + n <= rs[i].start  BY <1>10
      <4>3. rs[i].start \in Nat  BY <1>2, <1>6
      <4> QED  BY <4>1, <4>2, <4>3
    <3>3. i <= k  BY <1>6, <1>7
    <3>4. CASE i = k  BY <3>1, <3>2, <3>4
    <3>5. CASE i < k
      <4>1. rs[i].start + rs[i].size < rs[k].start /\ rs[i].size \in Nat \ {0}  BY <1>12, <3>5
      <4> QED  BY <1>2, <1>6, <3>1, <3>2, <4>1
    <3> QED  BY <1>6, <3>3, <3>4, <3>5
  <2>9. /\ gs \in Seq(Region)
        /\ WellFormed(gs)
        /\ \A a \in Nat : IsFree(gs, a) <=> InRegion(r, a) \/ FreeBut(rs, h, a)
    BY <2>1, <2>3, <2>4, <2>6, <2>7, <2>8, ReplaceRegion
  <2> QED  BY <1>15, <1>19, <2>5, <2>9 DEF gs
<1>20. CASE ~ joinsNext /\ ~ joinsPrev
  <2> DEFINE r == [start |-> p, size |-> n]
  <2>1. r.start = p /\ r.size = n /\ r \in Region  BY DEF Region
  <2>2. gs = InsertAt(rs, i, r)  BY <1>8, <1>20
  <2> HIDE DEF r
  <2>3. \A a \in Nat : InRegion(r, a) <=> (p <= a /\ a < p + n)
    BY <2>1 DEF InRegion, Unbounded
  <2>4. Precedes(rs, i, r)
    <3> SUFFICES ASSUME NEW j \in 1 .. Len(rs), j < i
                 PROVE  rs[j].start + rs[j].size < p
      BY <2>1 DEF Precedes
    <3> QED  BY <1>20, <1>17
  <2>5. Follows(rs, i, r)
    <3> SUFFICES ASSUME NEW k \in 1 .. Len(rs), i <= k
                 PROVE  p + n < rs[k].start
      BY <2>1 DEF Follows
    <3>1. p + n < rs[i].start
      <4>1. p + n # rs[i].start  BY <1>20 DEF joinsNext
      <4>2. p + n <= rs[i].start  BY <1>10
      <4>3. rs[i].start \in Nat  BY <1>2, <1>6
      <4> QED  BY <4>1, <4>2, <4>3
    <3>2. CASE i = k  BY <3>1, <3>2
    <3>3. CASE i < k
      <4>1. rs[i].start + rs[i].size < rs[k].start /\ rs[i].size \in Nat \ {0}  BY <1>12, <3>3
      <4>2. rs[i].start \in Nat /\ rs[k].start \in Nat  BY <1>2, <1>6
      <4> QED  BY <3>1, <4>1, <4>2
    <3> QED  BY <1>6, <3>2, <3>3
  <2>6. /\ gs \in Seq(Region)
        /\ WellFormed(gs)
        /\ \A a \in Nat : IsFree(gs, a) <=> InRegion(r, a) \/ IsFree(rs, a)
    <3>1. r.size > 0  BY <2>1
    <3> QED  BY <1>6, <2>1, <2>2, <2>4, <2>5, <3>1, InsertRegion
  <2> QED  BY <2>3, <2>6 DEF gs
<1>21. CASE joinsNext /\ joinsPrev
  <2> DEFINE r  == Extend(rs[i], rs[h].start, rs[h].size + n)
             us == RemoveAt(rs, h)
             vs == [rs EXCEPT ![i] = r]
  <2>1. h \in 1 .. Len(rs) /\ h < i /\ h < Len(rs)
    <3>1. i > 1  BY <1>21 DEF joinsPrev
    <3> QED  BY <1>6, <1>7, <3>1
  <2>2. rs[h].size \in Nat \ {0} /\ rs[h].start \in Nat  BY <1>2, <1>11, <2>1
  <2>3. /\ r.start = rs[h].start
        /\ r.size = IF rs[i].size = -1 THEN -1 ELSE rs[i].size + (rs[h].size + n)
    BY DEF Extend, Unbounded
  <2>4. r \in Region
    <3>1. rs[h].size + n \in Nat  BY <2>2
    <3>2. (IF rs[i].size = -1 THEN -1 ELSE rs[i].size + (rs[h].size + n)) \in Nat \cup {-1}
      BY <1>16, <3>1
    <3> QED  BY <2>2, <3>2 DEF Extend, Region, Unbounded
  <2>5. gs = RemoveAt(vs, h)  BY <1>8, <1>21
  <2> HIDE DEF r
  <2>6. /\ us \in Seq(Region)
        /\ Len(us) = Len(rs) - 1
        /\ \A j \in 1 .. (Len(rs) - 1) : us[j] = IF j < h THEN rs[j] ELSE rs[j + 1]
    BY <2>1, RemoveAtProperties
  <2>7. /\ WellFormed(us)
        /\ \A a \in Nat : IsFree(us, a) <=> FreeBut(rs, h, a)
    BY <2>1, RemoveRegion
  <2>8. /\ vs \in Seq(Region)
        /\ Len(vs) = Len(rs)
        /\ \A j \in 1 .. Len(rs) : vs[j] = IF j = i THEN r ELSE rs[j]
    BY <1>6, <2>4, ExceptSeq
  <2> HIDE DEF us, vs
  <2>9. /\ gs \in Seq(Region)
        /\ Len(gs) = Len(rs) - 1
        /\ \A j \in 1 .. (Len(rs) - 1) : gs[j] = IF j < h THEN vs[j] ELSE vs[j + 1]
    <3>1. h \in 1 .. Len(vs)  BY <2>1, <2>8
    <3> QED  BY <2>5, <2>8, <3>1, RemoveAtProperties
  <2>10. h \in 1 .. Len(us) /\ us[h] = rs[i] /\ h \in Nat /\ i = h + 1
    <3>1. h \in 1 .. (Len(rs) - 1) /\ ~ (h < h) /\ h + 1 = i  BY <1>1, <1>6, <1>7, <2>1
    <3> QED  BY <2>6, <3>1
  <2>11. gs = [us EXCEPT ![h] = r]
    <3> DEFINE ws == [us EXCEPT ![h] = r]
    <3>1. /\ ws \in Seq(Region)
          /\ Len(ws) = Len(us)
          /\ \A j \in 1 .. Len(us) : ws[j] = IF j = h THEN r ELSE us[j]
      BY <2>4, <2>6, <2>10, ExceptSeq
    <3> HIDE DEF ws
    <3>2. ASSUME NEW j \in 1 .. Len(gs) PROVE gs[j] = ws[j]
      <4>1. j \in 1 .. (Len(rs) - 1) /\ j \in 1 .. Len(us)  BY <2>6, <2>9
      <4>2. CASE j < h
        <5>1. j \in 1 .. Len(rs) /\ j # i /\ j # h  BY <1>1, <2>1, <2>10, <4>1, <4>2
        <5>2. gs[j] = rs[j]  BY <2>8, <2>9, <4>1, <4>2, <5>1
        <5>3. ws[j] = rs[j]  BY <2>6, <3>1, <4>1, <4>2, <5>1
        <5> QED  BY <5>2, <5>3
      <4>3. CASE j = h
        <5>1. ~ (j < h) /\ j + 1 = i  BY <2>10, <4>3
        <5>2. gs[j] = r  BY <1>6, <2>8, <2>9, <4>1, <5>1
        <5>3. ws[j] = r  BY <3>1, <4>1, <4>3
        <5> QED  BY <5>2, <5>3
      <4>4. CASE j > h
        <5>1. j + 1 \in 1 .. Len(rs) /\ j + 1 # i /\ ~ (j < h) /\ j # h
          BY <1>1, <2>10, <4>1, <4>4
        <5>2. gs[j] = rs[j + 1]  BY <2>8, <2>9, <4>1, <5>1
        <5>3. ws[j] = rs[j + 1]  BY <2>6, <3>1, <4>1, <5>1
        <5> QED  BY <5>2, <5>3
      <4> QED  BY <2>10, <4>1, <4>2, <4>3, <4>4
    <3>3. Len(gs) = Len(ws)  BY <2>6, <2>9, <3>1
    <3>4. gs = ws  BY <2>9, <3>1, <3>2, <3>3, SeqEqual
    <3> QED  BY <3>4 DEF ws
  <2>12. /\ rs[i].size \in Nat => r.start + r.size = rs[i].start + rs[i].size
         /\ \A a \in Nat : InRegion(r, a) <=>
              InRegion(rs[i], a) \/ InRegion(rs[h], a) \/ (p <= a /\ a < p + n)
    <3>1. rs[i].start = p + n /\ p = rs[h].start + rs[h].size
      BY <1>21 DEF joinsNext, joinsPrev
    <3>2. rs[h] \in Region /\ rs[i] \in Region  BY <1>6, <2>1, RegionAt
    <3>3. rs[h].size \in Nat \ {0} /\ rs[i].start = rs[h].start + rs[h].size + n  BY <2>2, <3>1
    <3>4. r = Extend(rs[i], rs[h].start, rs[h].size + n)  BY DEF r
    <3>5. /\ rs[i].size \in Nat => r.start + r.size = rs[i].start + rs[i].size
          /\ \A a \in Nat : InRegion(r, a) <=>
               \/ InRegion(rs[i], a) \/ InRegion(rs[h], a)
               \/ (rs[h].start + rs[h].size <= a /\ a < rs[i].start)
      BY <2>4, <3>2, <3>3, <3>4, JoinBoth
    <3> QED  BY <3>1, <3>5
  <2>13. SameKind(us, h, r)
    <3>1. h < Len(us) <=> i < Len(rs)  BY <1>1, <2>6, <2>10
    <3>2. CASE i < Len(rs)
      <4>1. rs[i].size \in Nat \ {0}  BY <1>13, <1>16, <3>2
      <4>2. r.size = rs[i].size + (rs[h].size + n)  BY <2>3, <4>1
      <4>3. r.size > 0  BY <2>2, <4>1, <4>2
      <4> QED  BY <3>1, <3>2, <4>3 DEF SameKind
    <3>3. CASE ~ (i < Len(rs))
      <4>1. r.size = -1  BY <1>13, <2>3, <3>3
      <4> QED  BY <3>1, <3>3, <4>1 DEF SameKind
    <3> QED  BY <3>2, <3>3
  <2>14. Precedes(us, h, r)
    <3> SUFFICES ASSUME NEW j \in 1 .. Len(us), j < h
                 PROVE  us[j].start + us[j].size < r.start
      BY DEF Precedes
    <3>1. j \in 1 .. (Len(rs) - 1) /\ j \in 1 .. Len(rs)  BY <1>1, <2>6
    <3>2. us[j] = rs[j]  BY <2>6, <3>1
    <3> QED  BY <1>4, <2>1, <2>3, <3>1, <3>2
  <2>15. Follows(us, h + 1, r)
    <3> SUFFICES ASSUME NEW k \in 1 .. Len(us), h + 1 <= k
                 PROVE  r.start + r.size < us[k].start
      BY DEF Follows
    <3>1. k \in 1 .. (Len(rs) - 1) /\ k + 1 \in 1 .. Len(rs) /\ ~ (k < h) /\ i < k + 1
      BY <1>1, <2>6, <2>10
    <3>2. us[k] = rs[k + 1]  BY <2>6, <3>1
    <3>3. rs[i].start + rs[i].size < rs[k + 1].start /\ rs[i].size \in Nat \ {0}
      BY <1>12, <3>1
    <3>4. r.start + r.size = rs[i].start + rs[i].size  BY <2>12, <3>3
    <3> QED  BY <3>2, <3>3, <3>4
  <2>16. /\ gs \in Seq(Region)
         /\ WellFormed(gs)
         /\ \A a \in Nat : IsFree(gs, a) <=> InRegion(r, a) \/ FreeBut(us, h, a)
    BY <2>4, <2>6, <2>7, <2>10, <2>11, <2>13, <2>14, <2>15, ReplaceRegion
  <2>17. \A a \in Nat : IsFree(us, a) <=> InRegion(rs[i], a) \/ FreeBut(us, h, a)
    <3>1. DOMAIN us = 1 .. Len(us)  BY <2>6, RegionAt
    <3> QED  BY <2>10, <3>1 DEF IsFree, FreeBut
  <2> QED  BY <1>15, <1>21, <2>7, <2>12, <2>16, <2>17 DEF gs
<1> QED  BY <1>18, <1>19, <1>20, <1>21

-----------------------------------------------------------------------------

\* The address at which a bounded region ends is not free: the next region, if
\* it began there, would have been merged.
LEMMA RegionEndNotFree ==
  ASSUME NEW rs \in Seq(Region), WellFormed(rs), NEW k \in 1 .. Len(rs), k < Len(rs)
  PROVE  ~ IsFree(rs, rs[k].start + rs[k].size)
<1> SUFFICES ASSUME NEW m \in 1 .. Len(rs), InRegion(rs[m], rs[k].start + rs[k].size)
             PROVE  FALSE
  BY RegionAt DEF IsFree
<1>1. Len(rs) \in Nat /\ rs[k].size \in Nat \ {0} /\ rs[k].start \in Nat
  BY RegionAt, WellFormedAt
<1>2. rs[m].start \in Nat /\ rs[m].start <= rs[k].start + rs[k].size
  BY RegionAt DEF InRegion
<1>3. CASE m <= k
  <2>1. rs[m].size \in Nat \ {0}  BY <1>1, <1>3, WellFormedAt
  <2>2. rs[k].start + rs[k].size < rs[m].start + rs[m].size
    BY <1>1, <1>2, <2>1 DEF InRegion, Unbounded
  <2>3. CASE m = k  BY <1>1, <2>2, <2>3
  <2>4. CASE m < k
    <3>1. rs[m].start + rs[m].size < rs[k].start  BY <2>4, WellFormedAt
    <3> QED  BY <1>1, <1>2, <2>1, <2>2, <3>1
  <2> QED  BY <1>3, <2>3, <2>4
<1>4. CASE k < m
  <2>1. rs[k].start + rs[k].size < rs[m].start  BY <1>4, WellFormedAt
  <2> QED  BY <1>1, <1>2, <2>1
<1> QED  BY <1>3, <1>4

\* A window of free addresses lies in one region.
LEMMA FreeWindow ==
  ASSUME NEW rs \in Seq(Region), WellFormed(rs), NEW a \in Nat, NEW n \in Nat \ {0},
         \A b \in a .. (a + n - 1) : IsFree(rs, b)
  PROVE  \E k \in 1 .. Len(rs) : rs[k].start <= a /\ Fits(rs[k], n)
<1>1. IsFree(rs, a)  OBVIOUS
<1>2. PICK k \in 1 .. Len(rs) : InRegion(rs[k], a)  BY <1>1, RegionAt DEF IsFree
<1>3. rs[k].start \in Nat /\ rs[k].start <= a  BY <1>2, RegionAt DEF InRegion
<1>4. CASE rs[k].size = -1  BY <1>3, <1>4 DEF Fits, Unbounded
<1>5. CASE rs[k].size # -1
  <2>1. k < Len(rs) /\ rs[k].size \in Nat \ {0}
    <3>1. Len(rs) \in Nat /\ rs[Len(rs)].size = -1  BY WellFormedAt
    <3>2. k < Len(rs)  BY <1>5, <3>1
    <3> QED  BY <3>2, WellFormedAt
  <2>2. ~ IsFree(rs, rs[k].start + rs[k].size)  BY <2>1, RegionEndNotFree
  <2>3. a < rs[k].start + rs[k].size  BY <1>2, <1>5 DEF InRegion, Unbounded
  <2>4. ~ (rs[k].start + rs[k].size < a + n)
    <3> SUFFICES ASSUME rs[k].start + rs[k].size < a + n PROVE FALSE  OBVIOUS
    <3>1. rs[k].start + rs[k].size \in a .. (a + n - 1)  BY <1>3, <2>1, <2>3
    <3> QED  BY <2>2, <3>1
  <2>5. rs[k].size >= n  BY <1>3, <2>1, <2>4
  <2> QED  BY <1>3, <2>5 DEF Fits
<1> QED  BY <1>4, <1>5

\* Every address from Used on is free.
LEMMA FreeAboveUsed ==
  ASSUME NEW rs \in Seq(Region), WellFormed(rs)
  PROVE  /\ Used(rs) \in Nat
         /\ \A a \in Nat : a >= Used(rs) => IsFree(rs, a)
<1>1. Len(rs) \in 1 .. Len(rs) /\ rs[Len(rs)].size = -1  BY WellFormedAt
<1>2. Used(rs) \in Nat  BY <1>1, RegionAt DEF Used
<1>3. \A a \in Nat : a >= Used(rs) => InRegion(rs[Len(rs)], a)
  BY <1>1, <1>2 DEF InRegion, Used, Unbounded
<1> QED  BY <1>1, <1>2, <1>3, RegionAt DEF IsFree

\* The only list in which everything is free is the initial one.
LEMMA AllFree ==
  ASSUME NEW rs \in Seq(Region), WellFormed(rs), \A a \in Nat : IsFree(rs, a)
  PROVE  rs = InitRegions
<1>1. Len(rs) \in Nat \ {0} /\ rs[Len(rs)].size = -1  BY WellFormedAt
<1>2. Len(rs) = 1
  <2> SUFFICES ASSUME 1 < Len(rs) PROVE FALSE
    <3>1. \A l \in Nat \ {0} : 1 < l \/ l = 1  OBVIOUS
    <3> QED  BY <1>1, <3>1
  <2>1. 1 \in 1 .. Len(rs) /\ rs[1].start \in Nat /\ rs[1].size \in Nat
    <3>1. 1 \in 1 .. Len(rs)  BY <1>1
    <3> QED  BY <3>1, RegionAt, WellFormedAt
  <2>2. ~ IsFree(rs, rs[1].start + rs[1].size)  BY <2>1, RegionEndNotFree
  <2> QED  BY <2>1, <2>2
<1>3. rs[1] \in Region /\ rs[1].start \in Nat
  <2>1. 1 \in 1 .. Len(rs)  BY <1>2
  <2> QED  BY <2>1, RegionAt
<1>4. InRegion(rs[1], 0)  BY <1>2, RegionAt DEF IsFree
<1>5. rs[1].start = 0 /\ rs[1].size = -1  BY <1>1, <1>2, <1>3, <1>4 DEF InRegion
<1>6. rs[1] = [start |-> 0, size |-> -1]  BY <1>3, <1>5 DEF Region
<1>7. rs = << rs[1] >>  BY <1>2
<1> QED  BY <1>6, <1>7 DEF InitRegions, Unbounded

-----------------------------------------------------------------------------
(* The planner.                                                            *)

USE SizesAssumption

\* Address a is in the block of tensor t.
Holds(t, a) == t \in Live /\ ptr[t] <= a /\ a < End(t)

\* FreeListDisjoint and NoLeak in one: free is the complement of held.
Partition == \A a \in Nat : IsFree(regions, a) <=> ~ \E t \in Tensors : Holds(t, a)

IInv == TypeOK /\ Coalesced /\ BlocksDisjoint /\ Partition

\* What is known of a tensor that has a block.
LEMMA LiveType ==
  ASSUME TypeOK, NEW t \in Live
  PROVE  /\ t \in Tensors
         /\ ptr[t] \in Nat /\ ptr[t] \in DOMAIN size_map
         /\ size_map[ptr[t]] \in Nat \ {0}
         /\ End(t) \in Nat /\ End(t) = ptr[t] + size_map[ptr[t]]
<1>1. t \in Tensors /\ ptr[t] \in Nat  BY DEF Live
<1>2. ptr[t] \in DOMAIN size_map  BY DEF TypeOK
<1>3. size_map[ptr[t]] \in Nat \ {0}  BY <1>2 DEF TypeOK
<1> QED  BY <1>1, <1>2, <1>3 DEF End

-----------------------------------------------------------------------------
(* The two steps that change the list, in terms of addresses.              *)

\* A block is cut: it was free, and it is now held by t; all others stay.
Cut(t, p, n) ==
  /\ p \in Nat /\ n \in Nat \ {0}
  /\ t \notin Live
  /\ Live' = Live \cup {t}
  /\ ptr'[t] = p /\ End(t)' = p + n
  /\ \A u \in Live : u # t /\ ptr'[u] = ptr[u] /\ End(u)' = End(u)
  /\ \A a \in p .. (p + n - 1) : IsFree(regions, a)
  /\ \A a \in Nat : IsFree(regions', a) <=> IsFree(regions, a) /\ ~ (p <= a /\ a < p + n)

\* A block is returned: it is free now; all others stay.
Returned(t) ==
  /\ t \in Live
  /\ Live' = Live \ {t}
  /\ ptr'[t] \notin Nat
  /\ \A u \in Live \ {t} : ptr'[u] = ptr[u] /\ End(u)' = End(u)
  /\ \A a \in Nat : IsFree(regions', a) <=> IsFree(regions, a) \/ (ptr[t] <= a /\ a < End(t))

LEMMA AllocateStep ==
  ASSUME IInv, NEW t \in Tensors, NEW n \in Sizes \ {0}, Allocate(t, n)
  PROVE  /\ TypeOK' /\ Coalesced'
         /\ Cut(t, regions[FirstFit(regions, Ceil(n))].start, Ceil(n))
         /\ size_map'[ptr'[t]] = Ceil(n)
         /\ \A u \in Live : size_map'[ptr[u]] = size_map[ptr[u]]
<1> DEFINE size == Ceil(n)
           i    == FirstFit(regions, size)
           p    == regions[i].start
<1>1. n \in Nat \ {0}  OBVIOUS
<1>2. size \in Nat \ {0} /\ size >= n  BY <1>1, CeilProperties
<1>3. TypeOK /\ regions \in Seq(Region) /\ WellFormed(regions) /\ Partition
  BY DEF IInv, TypeOK, Coalesced
<1>4. /\ ptr[t] = NoPtr
      /\ regions' = TakeFrom(regions, i, size)
      /\ size_map' = [q \in DOMAIN size_map \cup {p} |-> IF q = p THEN size ELSE size_map[q]]
      /\ ptr' = [ptr EXCEPT ![t] = p]
  BY DEF Allocate, Record
<1> HIDE DEF size
<1>5. i \in 1 .. Len(regions) /\ Fits(regions[i], size)
  BY <1>2, <1>3, FirstFitProperties
<1>6. p \in Nat  BY <1>3, <1>5, RegionAt
<1> HIDE DEF i
<1>7. /\ regions' \in Seq(Region)
      /\ WellFormed(regions')
      /\ \A a \in p .. (p + size - 1) : IsFree(regions, a)
      /\ \A a \in Nat : IsFree(regions', a) <=> IsFree(regions, a) /\ ~ (p <= a /\ a < p + size)
  BY <1>2, <1>3, <1>4, <1>5, TakeFromProperties
<1> HIDE DEF p
<1>8. ptr \in [Tensors -> Nat \cup {NullPtr, NoPtr}]  BY <1>3 DEF TypeOK
<1>9. t \notin Live /\ ptr'[t] = p /\ \A u \in Tensors : u # t => ptr'[u] = ptr[u]
  BY <1>4, <1>8 DEF Live, NoPtr
<1>10. Live' = Live \cup {t}  BY <1>6, <1>9 DEF Live
<1>11. \A u \in Live : ptr[u] \in DOMAIN size_map /\ ptr[u] # p /\ ptr[u] \in Nat
  <2> SUFFICES ASSUME NEW u \in Live
               PROVE  ptr[u] \in DOMAIN size_map /\ ptr[u] # p /\ ptr[u] \in Nat
    OBVIOUS
  <2>1. u \in Tensors /\ ptr[u] \in Nat /\ ptr[u] \in DOMAIN size_map
        /\ size_map[ptr[u]] \in Nat \ {0} /\ End(u) = ptr[u] + size_map[ptr[u]]
    BY <1>3, LiveType
  <2>2. Holds(u, ptr[u])  BY <2>1 DEF Holds
  <2>3. ~ IsFree(regions, ptr[u])  BY <1>3, <2>1, <2>2 DEF Partition
  <2>4. IsFree(regions, p)  BY <1>2, <1>6, <1>7
  <2> QED  BY <2>1, <2>3, <2>4
<1>12. size_map'[p] = size /\ \A u \in Live : size_map'[ptr[u]] = size_map[ptr[u]]
  BY <1>4, <1>11
<1>13. End(t)' = p + size  BY <1>9, <1>12 DEF End
<1>14. \A u \in Live : u # t /\ ptr'[u] = ptr[u] /\ End(u)' = End(u)
  <2> SUFFICES ASSUME NEW u \in Live
               PROVE  u # t /\ ptr'[u] = ptr[u] /\ End(u)' = End(u)
    OBVIOUS
  <2>1. u # t /\ u \in Tensors  BY <1>9 DEF Live
  <2>2. ptr'[u] = ptr[u]  BY <1>9, <2>1
  <2> QED  BY <1>12, <2>1, <2>2 DEF End
<1>15. TypeOK'
  <2>1. /\ size_map' \in [DOMAIN size_map' -> Nat \ {0}]
        /\ DOMAIN size_map' = DOMAIN size_map \cup {p}
        /\ DOMAIN size_map' \subseteq Nat
    <3>1. size_map \in [DOMAIN size_map -> Nat \ {0}] /\ DOMAIN size_map \subseteq Nat
      BY <1>3 DEF TypeOK
    <3> QED  BY <1>2, <1>4, <1>6, <3>1
  <2>2. ptr' \in [Tensors -> Nat \cup {NullPtr, NoPtr}]  BY <1>4, <1>6, <1>8
  <2>3. \A u \in Live' : ptr'[u] \in DOMAIN size_map'
    BY <1>9, <1>10, <1>11, <1>14, <2>1
  <2> QED  BY <1>7, <2>1, <2>2, <2>3 DEF TypeOK
<1>16. Coalesced'  BY <1>7 DEF Coalesced
<1>17. Cut(t, p, size)
  BY <1>2, <1>6, <1>7, <1>9, <1>10, <1>13, <1>14 DEF Cut
<1> QED  BY <1>9, <1>12, <1>15, <1>16, <1>17 DEF p, i, size

LEMMA FreeStep ==
  ASSUME IInv, NEW t \in Tensors, Free(t)
  PROVE  TypeOK' /\ Coalesced' /\ Returned(t) /\ UNCHANGED size_map
<1> DEFINE p == ptr[t]
           n == size_map[p]
<1>1. TypeOK /\ regions \in Seq(Region) /\ WellFormed(regions) /\ Partition
  BY DEF IInv, TypeOK, Coalesced
<1>2. /\ t \in Live
      /\ regions' = GiveBack(regions, p, n)
      /\ ptr' = [ptr EXCEPT ![t] = NoPtr]
      /\ size_map' = size_map
  BY DEF Free
<1>3. p \in Nat /\ n \in Nat \ {0} /\ End(t) = p + n /\ End(t) \in Nat
  BY <1>1, <1>2, LiveType
<1> HIDE DEF p, n
<1>4. \A a \in p .. (p + n - 1) : ~ IsFree(regions, a)
  <2> SUFFICES ASSUME NEW a \in p .. (p + n - 1) PROVE ~ IsFree(regions, a)
    OBVIOUS
  <2>1. a \in Nat /\ p <= a /\ a < p + n  BY <1>3
  <2>2. Holds(t, a)  BY <1>2, <1>3, <2>1 DEF Holds, p
  <2> QED  BY <1>1, <2>1, <2>2 DEF Partition
<1>5. /\ regions' \in Seq(Region)
      /\ WellFormed(regions')
      /\ \A a \in Nat : IsFree(regions', a) <=> IsFree(regions, a) \/ (p <= a /\ a < p + n)
  BY <1>1, <1>2, <1>3, <1>4, GiveBackProperties
<1>6. ptr \in [Tensors -> Nat \cup {NullPtr, NoPtr}]  BY <1>1 DEF TypeOK
<1>7. ptr'[t] = NoPtr /\ NoPtr \notin Nat /\ \A u \in Tensors : u # t => ptr'[u] = ptr[u]
  BY <1>2, <1>6 DEF NoPtr
<1>8. Live' = Live \ {t}  BY <1>7 DEF Live
<1>9. \A u \in Live \ {t} : ptr'[u] = ptr[u] /\ End(u)' = End(u)
  <2> SUFFICES ASSUME NEW u \in Live \ {t} PROVE ptr'[u] = ptr[u] /\ End(u)' = End(u)
    OBVIOUS
  <2>1. ptr'[u] = ptr[u]  BY <1>7 DEF Live
  <2> QED  BY <1>2, <2>1 DEF End
<1>10. TypeOK'
  <2>1. ptr' \in [Tensors -> Nat \cup {NullPtr, NoPtr}]  BY <1>2, <1>6
  <2>2. \A u \in Live' : ptr'[u] \in DOMAIN size_map'
    BY <1>1, <1>2, <1>8, <1>9 DEF TypeOK
  <2> QED  BY <1>1, <1>2, <1>5, <2>1, <2>2 DEF TypeOK
<1>11. Coalesced'  BY <1>5 DEF Coalesced
<1>12. Returned(t)
  BY <1>2, <1>3, <1>5, <1>7, <1>8, <1>9 DEF Returned, p
<1> QED  BY <1>2, <1>10, <1>11, <1>12

\* A step with the null pointer changes nothing but which tensors have it.
LEMMA EmptyStep ==
  ASSUME TypeOK, NEW t \in Tensors, AllocateEmpty(t) \/ FreeEmpty(t)
  PROVE  /\ TypeOK'
         /\ t \notin Live
         /\ ptr'[t] \notin Nat
         /\ UNCHANGED <<regions, size_map, Live>>
         /\ \A u \in Tensors : u # t => ptr'[u] = ptr[u]
<1>1. ptr \in [Tensors -> Nat \cup {NullPtr, NoPtr}]  BY DEF TypeOK
<1>2. PICK q \in {NullPtr, NoPtr} : ptr' = [ptr EXCEPT ![t] = q]
  BY DEF AllocateEmpty, FreeEmpty
<1>3. NullPtr \notin Nat /\ NoPtr \notin Nat  BY DEF NullPtr, NoPtr
<1>4. ptr[t] \in {NullPtr, NoPtr} /\ UNCHANGED <<regions, size_map>>
  BY DEF AllocateEmpty, FreeEmpty
<1>5. ptr'[t] = q /\ \A u \in Tensors : u # t => ptr'[u] = ptr[u]  BY <1>1, <1>2
<1>6. Live' = Live  BY <1>3, <1>4, <1>5 DEF Live
<1>7. ptr' \in [Tensors -> Nat \cup {NullPtr, NoPtr}]  BY <1>1, <1>2
<1>8. \A u \in Live' : ptr'[u] \in DOMAIN size_map'
  <2> SUFFICES ASSUME NEW u \in Live PROVE ptr'[u] \in DOMAIN size_map
    BY <1>4, <1>6
  <2>1. u # t  BY <1>3, <1>4 DEF Live
  <2> QED  BY <1>5, <2>1 DEF TypeOK, Live
<1> QED  BY <1>3, <1>4, <1>5, <1>6, <1>7, <1>8 DEF TypeOK, Live

-----------------------------------------------------------------------------
(* The inductive invariant.                                                *)

LEMMA InitInvariant == Init => IInv
<1> SUFFICES ASSUME Init PROVE IInv  OBVIOUS
<1>1. /\ regions = << [start |-> 0, size |-> -1] >>
      /\ size_map = [p \in {} |-> 0]
      /\ ptr = [t \in Tensors |-> NoPtr]
  BY DEF Init, InitRegions, Unbounded
<1>2. Live = {}  BY <1>1 DEF Live, NoPtr
<1>3. TypeOK
  <2>1. regions \in Seq(Region)  BY <1>1 DEF Region, Unbounded
  <2> QED  BY <1>1, <1>2, <2>1 DEF TypeOK
<1>4. Len(regions) = 1 /\ regions[1] = [start |-> 0, size |-> -1] /\ DOMAIN regions = 1 .. 1
  BY <1>1
<1>5. Coalesced  BY <1>4 DEF Coalesced, WellFormed, Unbounded
<1>6. BlocksDisjoint  BY <1>2 DEF BlocksDisjoint
<1>7. \A a \in Nat : IsFree(regions, a)  BY <1>4 DEF IsFree, InRegion, Unbounded
<1>8. Partition  BY <1>2, <1>7 DEF Partition, Holds
<1> QED  BY <1>3, <1>5, <1>6, <1>8 DEF IInv

\* memory_planner_init at the start of a later launch.
LEMMA ResetStep == Reset => IInv' /\ Live' = {}
<1>1. Init' => IInv'  BY InitInvariant, PTL
<1>2. Reset => Init'  BY DEF Reset, Init
<1>3. Reset => Live' = {}  BY DEF Reset, Live, NoPtr
<1> QED  BY <1>1, <1>2, <1>3

LEMMA CutKeepsBlocks ==
  ASSUME IInv, NEW t \in Tensors, NEW p, NEW n, Cut(t, p, n)
  PROVE  BlocksDisjoint' /\ Partition'
<1>1. TypeOK /\ BlocksDisjoint /\ Partition  BY DEF IInv
<1>2. /\ p \in Nat /\ n \in Nat \ {0}
      /\ t \notin Live
      /\ Live' = Live \cup {t}
      /\ ptr'[t] = p /\ End(t)' = p + n
      /\ \A u \in Live : u # t /\ ptr'[u] = ptr[u] /\ End(u)' = End(u)
      /\ \A a \in Nat : p <= a /\ a < p + n => IsFree(regions, a)
      /\ \A a \in Nat : IsFree(regions', a) <=> IsFree(regions, a) /\ ~ (p <= a /\ a < p + n)
  BY DEF Cut
<1>3. ASSUME NEW u \in Live
      PROVE  (End(u) <= p \/ p + n <= ptr[u]) /\ ptr[u] \in Nat /\ End(u) \in Nat
  <2>1. u \in Tensors /\ ptr[u] \in Nat /\ End(u) \in Nat /\ ptr[u] < End(u)
    BY <1>1, LiveType
  <2>2. ASSUME NEW a \in Nat, Holds(u, a) PROVE ~ (p <= a /\ a < p + n)
    BY <1>1, <1>2, <2>1, <2>2 DEF Partition
  <2>3. ~ (ptr[u] <= p /\ p < End(u))
    <3> SUFFICES ASSUME ptr[u] <= p /\ p < End(u) PROVE FALSE  OBVIOUS
    <3>1. Holds(u, p)  BY DEF Holds
    <3> QED  BY <1>2, <2>2, <3>1
  <2>4. ~ (p <= ptr[u] /\ ptr[u] < p + n)
    <3> SUFFICES ASSUME p <= ptr[u] /\ ptr[u] < p + n PROVE FALSE  OBVIOUS
    <3>1. Holds(u, ptr[u])  BY <2>1 DEF Holds
    <3> QED  BY <2>1, <2>2, <3>1
  <2> QED  BY <1>2, <2>1, <2>3, <2>4
<1>4. BlocksDisjoint'
  <2> SUFFICES ASSUME NEW u \in Live \cup {t}, NEW v \in Live \cup {t}, u # v
               PROVE  End(u)' <= ptr'[v] \/ End(v)' <= ptr'[u]
    BY <1>2 DEF BlocksDisjoint
  <2>1. CASE u = t
    <3>1. v \in Live  BY <2>1
    <3> QED  BY <1>2, <1>3, <2>1, <3>1
  <2>2. CASE v = t
    <3>1. u \in Live  BY <2>2
    <3> QED  BY <1>2, <1>3, <2>2, <3>1
  <2>3. CASE u # t /\ v # t
    <3>1. u \in Live /\ v \in Live  BY <2>3
    <3>2. End(u) <= ptr[v] \/ End(v) <= ptr[u]  BY <1>1, <3>1 DEF BlocksDisjoint
    <3> QED  BY <1>2, <3>1, <3>2
  <2> QED  BY <2>1, <2>2, <2>3
<1>5. ASSUME NEW a \in Nat, NEW u \in Tensors
      PROVE  Holds(u, a)' <=> Holds(u, a) \/ (u = t /\ p <= a /\ a < p + n)
  BY <1>2 DEF Holds
<1>6. Partition'
  <2> SUFFICES ASSUME NEW a \in Nat
               PROVE  IsFree(regions', a) <=> ~ \E u \in Tensors : Holds(u, a)'
    BY DEF Partition
  <2>1. (\E u \in Tensors : Holds(u, a)') <=>
           (\E u \in Tensors : Holds(u, a)) \/ (p <= a /\ a < p + n)
    BY <1>5
  <2> QED  BY <1>1, <1>2, <2>1 DEF Partition
<1> QED  BY <1>4, <1>6

LEMMA ReturnKeepsBlocks ==
  ASSUME IInv, NEW t \in Tensors, Returned(t)
  PROVE  BlocksDisjoint' /\ Partition'
<1>1. TypeOK /\ BlocksDisjoint /\ Partition  BY DEF IInv
<1>2. /\ t \in Live
      /\ Live' = Live \ {t}
      /\ \A u \in Live \ {t} : ptr'[u] = ptr[u] /\ End(u)' = End(u)
      /\ \A a \in Nat : IsFree(regions', a) <=> IsFree(regions, a) \/ (ptr[t] <= a /\ a < End(t))
  BY DEF Returned
<1>3. BlocksDisjoint'  BY <1>1, <1>2 DEF BlocksDisjoint
<1>4. ASSUME NEW a \in Nat, NEW u \in Tensors, u # t
      PROVE  Holds(u, a)' <=> Holds(u, a)
  BY <1>2, <1>4 DEF Holds
<1>5. \A a \in Nat : ~ Holds(t, a)' /\ (Holds(t, a) <=> ptr[t] <= a /\ a < End(t))
  BY <1>2 DEF Holds
<1>6. ASSUME NEW a \in Nat, NEW u \in Tensors, Holds(u, a), u # t
      PROVE  ~ Holds(t, a)
  <2>1. u \in Live /\ t \in Live  BY <1>2, <1>6 DEF Holds
  <2>2. End(u) <= ptr[t] \/ End(t) <= ptr[u]  BY <1>1, <1>6, <2>1 DEF BlocksDisjoint
  <2>3. ptr[u] \in Nat /\ End(u) \in Nat /\ ptr[t] \in Nat /\ End(t) \in Nat
    BY <1>1, <2>1, LiveType
  <2> QED  BY <1>6, <2>2, <2>3 DEF Holds
<1>7. Partition'
  <2> SUFFICES ASSUME NEW a \in Nat
               PROVE  IsFree(regions', a) <=> ~ \E u \in Tensors : Holds(u, a)'
    BY DEF Partition
  <2>1. CASE Holds(t, a)
    <3>1. ~ \E u \in Tensors : Holds(u, a)'  BY <1>4, <1>5, <1>6, <2>1
    <3> QED  BY <1>2, <1>5, <2>1, <3>1
  <2>2. CASE ~ Holds(t, a)
    <3>1. (\E u \in Tensors : Holds(u, a)') <=> \E u \in Tensors : Holds(u, a)
      BY <1>4, <1>5, <2>2
    <3>2. IsFree(regions, a) <=> ~ \E u \in Tensors : Holds(u, a)  BY <1>1 DEF Partition
    <3> QED  BY <1>2, <1>5, <2>2, <3>1, <3>2
  <2> QED  BY <2>1, <2>2
<1> QED  BY <1>3, <1>7

\* Every step keeps the inductive invariant.
LEMMA StepInvariant == IInv /\ [Next]_vars => IInv'
<1> SUFFICES ASSUME IInv, [Next]_vars PROVE IInv'  OBVIOUS
<1>1. ASSUME NEW t \in Tensors, NEW n \in Sizes \ {0}, Allocate(t, n) PROVE IInv'
  BY <1>1, AllocateStep, CutKeepsBlocks DEF IInv
<1>2. ASSUME NEW t \in Tensors, Free(t) PROVE IInv'
  BY <1>2, FreeStep, ReturnKeepsBlocks DEF IInv
<1>3. ASSUME UNCHANGED <<regions, size_map, Live>>, TypeOK',
             \A u \in Live : ptr'[u] = ptr[u]
      PROVE  IInv'
  <2>1. \A u \in Live : End(u)' = End(u)  BY <1>3 DEF End
  <2>2. Coalesced'  BY <1>3 DEF IInv, Coalesced
  <2>3. BlocksDisjoint'  BY <1>3, <2>1 DEF IInv, BlocksDisjoint
  <2>4. \A u, a : Holds(u, a)' <=> Holds(u, a)  BY <1>3, <2>1 DEF Holds
  <2>5. Partition'  BY <1>3, <2>4 DEF IInv, Partition
  <2> QED  BY <1>3, <2>2, <2>3, <2>5 DEF IInv
<1>4. ASSUME NEW t \in Tensors, AllocateEmpty(t) \/ FreeEmpty(t) PROVE IInv'
  <2>1. /\ TypeOK' /\ t \notin Live /\ UNCHANGED <<regions, size_map, Live>>
        /\ \A u \in Tensors : u # t => ptr'[u] = ptr[u]
    BY <1>4, EmptyStep DEF IInv
  <2>2. \A u \in Live : ptr'[u] = ptr[u]  BY <2>1 DEF Live
  <2> QED  BY <1>3, <2>1, <2>2
<1>5. CASE UNCHANGED vars
  <2>1. UNCHANGED <<regions, size_map, ptr, Live>>  BY <1>5 DEF vars, Live
  <2>2. TypeOK'  BY <2>1 DEF IInv, TypeOK
  <2> QED  BY <1>3, <2>1, <2>2
<1> QED  BY <1>1, <1>2, <1>4, <1>5, ResetStep DEF Next

\* The inductive invariant holds of every state the planner reaches.
THEOREM Invariant == Spec => []IInv
  BY InitInvariant, StepInvariant, PTL DEF Spec

-----------------------------------------------------------------------------
(* The safety properties.                                                  *)

\* The planner's data always have their types and every held pointer is
\* recorded in size_map, so that memory_planner_free finds its size.
THEOREM TypeCorrect == Spec => []TypeOK
<1>1. IInv => TypeOK  BY DEF IInv
<1> QED  BY <1>1, Invariant, PTL

\* The free list stays sorted and fully merged through every allocate and free.
THEOREM CoalescedAlways == Spec => []Coalesced
<1>1. IInv => Coalesced  BY DEF IInv
<1> QED  BY <1>1, Invariant, PTL

\* memory_planner_allocate never hands out an address that is in use.
THEOREM Disjointness == Spec => []BlocksDisjoint
<1>1. IInv => BlocksDisjoint  BY DEF IInv
<1> QED  BY <1>1, Invariant, PTL

\* The free list never reaches into a block that is held.
THEOREM FreeListSeparate == Spec => []FreeListDisjoint
<1>1. ASSUME IInv PROVE FreeListDisjoint
  <2> SUFFICES ASSUME NEW t \in Live, NEW a \in ptr[t] .. (End(t) - 1)
               PROVE  ~ IsFree(regions, a)
    BY DEF FreeListDisjoint
  <2>1. t \in Tensors /\ ptr[t] \in Nat /\ End(t) \in Nat  BY <1>1, LiveType DEF IInv
  <2>2. a \in Nat /\ Holds(t, a)  BY <2>1 DEF Holds
  <2> QED  BY <1>1, <2>1, <2>2 DEF IInv, Partition
<1> QED  BY <1>1, Invariant, PTL

\* No byte is lost between the free list and the blocks that are held.
THEOREM NothingLost == Spec => []NoLeak
<1>1. ASSUME IInv PROVE NoLeak
  <2> SUFFICES ASSUME NEW a \in 0 .. (Used(regions) - 1), ~ IsFree(regions, a)
               PROVE  \E t \in Live : ptr[t] <= a /\ a < End(t)
    BY DEF NoLeak
  <2>1. a \in Nat
    <3>1. Used(regions) \in Nat  BY <1>1, FreeAboveUsed DEF IInv, TypeOK, Coalesced
    <3> QED  BY <3>1
  <2>2. PICK t \in Tensors : Holds(t, a)  BY <1>1, <2>1 DEF IInv, Partition
  <2> QED  BY <2>2 DEF Holds
<1> QED  BY <1>1, Invariant, PTL

\* Both together: the list and the blocks share out the workspace.
THEOREM AccountedAlways == Spec => []Accounted
<1>1. FreeListDisjoint /\ NoLeak => Accounted  BY DEF Accounted
<1> QED  BY <1>1, FreeListSeparate, NothingLost, PTL

\* memory_planner_used bounds every block, so a workspace of that size holds all.
THEOREM UsedBoundsBlocks == Spec => []UsedCoversBlocks
<1>1. ASSUME IInv PROVE UsedCoversBlocks
  <2> SUFFICES ASSUME NEW t \in Live PROVE End(t) <= Used(regions)
    BY DEF UsedCoversBlocks
  <2>1. /\ t \in Tensors /\ ptr[t] \in Nat /\ size_map[ptr[t]] \in Nat \ {0}
        /\ End(t) = ptr[t] + size_map[ptr[t]]
    BY <1>1, LiveType DEF IInv
  <2>2. End(t) - 1 \in Nat /\ Holds(t, End(t) - 1)  BY <2>1 DEF Holds
  <2>3. ~ IsFree(regions, End(t) - 1)  BY <1>1, <2>1, <2>2 DEF IInv, Partition
  <2>4. Used(regions) \in Nat /\ ~ (End(t) - 1 >= Used(regions))
    BY <1>1, <2>2, <2>3, FreeAboveUsed DEF IInv, TypeOK, Coalesced
  <2> QED  BY <2>1, <2>4
<1> QED  BY <1>1, Invariant, PTL

\* However blocks were interleaved, returning them all restores the initial list.
THEOREM ReturnsToInitial == Spec => []EmptyIsInitial
<1>1. ASSUME IInv PROVE EmptyIsInitial
  <2> SUFFICES ASSUME Live = {} PROVE regions = InitRegions
    BY DEF EmptyIsInitial
  <2>1. \A a \in Nat : IsFree(regions, a)  BY <1>1 DEF IInv, Partition, Holds
  <2> QED  BY <1>1, <2>1, AllFree DEF IInv, TypeOK, Coalesced
<1> QED  BY <1>1, Invariant, PTL

-----------------------------------------------------------------------------
(* The action properties.                                                  *)

\* A block that is held is not moved or resized by anyone's allocate or free.
THEOREM BlocksNeverMove == Spec => BlocksStay
<1> DEFINE Stay == \A t \in Live : ptr'[t] \in Nat => ptr'[t] = ptr[t] /\ End(t)' = End(t)
<1>1. IInv /\ [Next]_vars => [Stay]_vars
  <2> SUFFICES ASSUME IInv, Next, NEW t \in Live, ptr'[t] \in Nat
               PROVE  ptr'[t] = ptr[t] /\ End(t)' = End(t)
    OBVIOUS
  <2>1. ASSUME NEW u \in Tensors, NEW n \in Sizes \ {0}, Allocate(u, n)
        PROVE  ptr'[t] = ptr[t] /\ End(t)' = End(t)
    <3>1. Cut(u, regions[FirstFit(regions, Ceil(n))].start, Ceil(n))
      BY <2>1, AllocateStep
    <3> QED  BY <3>1 DEF Cut
  <2>2. ASSUME NEW u \in Tensors, Free(u)
        PROVE  ptr'[t] = ptr[t] /\ End(t)' = End(t)
    <3>1. Returned(u)  BY <2>2, FreeStep
    <3> QED  BY <3>1 DEF Returned
  <2>3. ASSUME NEW u \in Tensors, AllocateEmpty(u) \/ FreeEmpty(u)
        PROVE  ptr'[t] = ptr[t] /\ End(t)' = End(t)
    <3>1. /\ u \notin Live /\ UNCHANGED size_map
          /\ \A v \in Tensors : v # u => ptr'[v] = ptr[v]
      BY <2>3, EmptyStep DEF IInv
    <3>2. ptr'[t] = ptr[t]  BY <3>1 DEF Live
    <3> QED  BY <3>1, <3>2 DEF End
  <2>4. ~ Reset  BY ResetStep DEF Live, Reset, NoPtr
  <2> QED  BY <2>1, <2>2, <2>3, <2>4 DEF Next
<1> QED  BY <1>1, Invariant, PTL DEF Spec, BlocksStay

\* First fit on a coalesced list is lowest address: no lower place was possible.
THEOREM LowestAddressAlways == Spec => LowestAddress
<1> DEFINE Lowest ==
      \A t \in Tensors :
        (t \notin Live /\ ptr'[t] \in Nat) =>
           \A a \in 0 .. (ptr'[t] - 1) :
             \E u \in Live : ptr[u] < a + size_map'[ptr'[t]] /\ a < End(u)
<1>1. IInv /\ [Next]_vars => [Lowest]_vars
  <2> SUFFICES ASSUME IInv, Next, NEW t \in Tensors, t \notin Live, ptr'[t] \in Nat,
                      NEW a \in 0 .. (ptr'[t] - 1)
               PROVE  \E u \in Live : ptr[u] < a + size_map'[ptr'[t]] /\ a < End(u)
    OBVIOUS
  <2>0. TypeOK /\ regions \in Seq(Region) /\ WellFormed(regions) /\ Partition
    BY DEF IInv, TypeOK, Coalesced
  <2>1. ASSUME NEW n \in Sizes \ {0}, Allocate(t, n)
        PROVE  \E u \in Live : ptr[u] < a + size_map'[ptr'[t]] /\ a < End(u)
    <3> DEFINE size == Ceil(n)
               i    == FirstFit(regions, size)
    <3>1. n \in Nat \ {0}  OBVIOUS
    <3>2. size \in Nat \ {0}  BY <3>1, CeilProperties
    <3>3. size_map'[ptr'[t]] = size /\ ptr'[t] = regions[i].start
      BY <2>1, AllocateStep DEF Cut
    <3> HIDE DEF size
    <3>4. i \in 1 .. Len(regions) /\ \A k \in 1 .. (i - 1) : ~ Fits(regions[k], size)
      BY <2>0, <3>2, FirstFitProperties
    <3> HIDE DEF i
    <3>5. a \in Nat /\ a < regions[i].start /\ regions[i].start \in Nat  BY <3>3
    <3>6. ~ \A b \in a .. (a + size - 1) : IsFree(regions, b)
      <4> SUFFICES ASSUME \A b \in a .. (a + size - 1) : IsFree(regions, b) PROVE FALSE
        OBVIOUS
      <4>1. PICK k \in 1 .. Len(regions) : regions[k].start <= a /\ Fits(regions[k], size)
        BY <2>0, <3>2, <3>5, FreeWindow
      <4>2. CASE k < i
        <5>1. k \in 1 .. (i - 1)  BY <3>4, <4>2
        <5> QED  BY <3>4, <4>1, <5>1
      <4>3. CASE k = i  BY <3>5, <4>1, <4>3
      <4>4. CASE i < k
        <5>1. Len(regions) \in Nat  BY <2>0, RegionAt
        <5>2. i < Len(regions)  BY <3>4, <4>4, <5>1
        <5>3. regions[i].size \in Nat \ {0} /\ regions[i].start + regions[i].size < regions[k].start
          BY <2>0, <3>4, <4>4, <5>2, WellFormedAt
        <5>4. regions[k].start \in Nat  BY <2>0, RegionAt
        <5> QED  BY <3>5, <4>1, <5>3, <5>4
      <4> QED  BY <3>4, <4>2, <4>3, <4>4
    <3>7. PICK b \in a .. (a + size - 1) : ~ IsFree(regions, b)  BY <3>6
    <3>8. b \in Nat /\ a <= b /\ b < a + size  BY <3>2, <3>5
    <3>9. PICK u \in Tensors : Holds(u, b)  BY <2>0, <3>7, <3>8 DEF Partition
    <3>10. u \in Live /\ ptr[u] <= b /\ b < End(u)  BY <3>9 DEF Holds
    <3>11. ptr[u] \in Nat /\ End(u) \in Nat  BY <2>0, <3>10, LiveType
    <3>12. ptr[u] < a + size /\ a < End(u)  BY <3>2, <3>5, <3>8, <3>10, <3>11
    <3> QED  BY <3>3, <3>10, <3>12
  <2>2. ASSUME NEW u \in Tensors, u # t,
               \/ \E n \in Sizes \ {0} : Allocate(u, n)
               \/ Free(u)
               \/ AllocateEmpty(u) \/ FreeEmpty(u)
        PROVE  FALSE
    <3>1. ptr \in [Tensors -> Nat \cup {NullPtr, NoPtr}]  BY <2>0 DEF TypeOK
    <3>2. \E q : ptr' = [ptr EXCEPT ![u] = q]
      BY <2>2 DEF Allocate, Free, AllocateEmpty, FreeEmpty
    <3>3. ptr'[t] = ptr[t]  BY <2>2, <3>1, <3>2
    <3> QED  BY <3>3 DEF Live
  <2>3. ASSUME Free(t) PROVE FALSE  BY <2>3 DEF Free
  <2>4. ASSUME AllocateEmpty(t) \/ FreeEmpty(t) PROVE FALSE
    BY <2>0, <2>4, EmptyStep
  <2>5. ~ Reset  BY DEF Reset, NoPtr
  <2> QED  BY <2>1, <2>2, <2>3, <2>4, <2>5 DEF Next
<1> QED  BY <1>1, Invariant, PTL DEF Spec, LowestAddress

-----------------------------------------------------------------------------
(* The refinement.                                                         *)

\* The planner, with its list, its rounding and its first-fit scan, implements
\* the allocator that only promises disjoint intervals that stay put.
THEOREM Refinement == Spec => AllocatorSpec
<1> DEFINE bar == [t \in Tensors |-> BlockOf(t)]
<1>1. Init => A!Init
  <2> SUFFICES ASSUME Init PROVE bar = [t \in Tensors |-> A!NoBlock]
    BY DEF A!Init
  <2>1. Live = {}  BY DEF Init, Live, NoPtr
  <2> QED  BY <2>1 DEF BlockOf, A!NoBlock
<1>2. IInv /\ [Next]_vars => [A!Next]_bar
  <2> SUFFICES ASSUME IInv, [Next]_vars PROVE A!Next \/ bar' = bar
    OBVIOUS
  <2>0. TypeOK /\ Partition  BY DEF IInv
  <2>1. ASSUME NEW t \in Tensors, NEW n \in Sizes \ {0}, Allocate(t, n)
        PROVE  A!Next
    <3> DEFINE p == regions[FirstFit(regions, Ceil(n))].start
               b == [start |-> p, size |-> Ceil(n)]
    <3>1. Cut(t, p, Ceil(n)) /\ size_map'[ptr'[t]] = Ceil(n)
          /\ \A u \in Live : size_map'[ptr[u]] = size_map[ptr[u]]
      BY <2>1, AllocateStep
    <3>2. n \in Nat \ {0} /\ Ceil(n) >= n /\ Ceil(n) \in Nat \ {0}
      <4>1. n \in Nat \ {0}  OBVIOUS
      <4> QED  BY <4>1, CeilProperties
    <3> DEFINE size == Ceil(n)
    <3>3. b = [start |-> p, size |-> size] /\ size = Ceil(n)  OBVIOUS
    <3> HIDE DEF p, size
    <3>4. /\ p \in Nat /\ size \in Nat \ {0} /\ size >= n
          /\ t \notin Live /\ Live' = Live \cup {t} /\ ptr'[t] = p
          /\ size_map'[p] = size
          /\ \A u \in Live : u # t /\ ptr'[u] = ptr[u]
          /\ \A a \in Nat : p <= a /\ a < p + size => IsFree(regions, a)
      BY <3>1, <3>2, <3>3 DEF Cut
    <3> HIDE DEF b
    <3>5. BlockOf(t)' = b /\ BlockOf(t) = A!NoBlock
      BY <3>3, <3>4 DEF BlockOf, A!NoBlock
    <3>6. ASSUME NEW u \in Tensors, u # t PROVE BlockOf(u)' = BlockOf(u)
      <4>1. CASE u \in Live  BY <3>1, <3>4, <4>1 DEF BlockOf
      <4>2. CASE u \notin Live  BY <3>4, <3>6, <4>2 DEF BlockOf
      <4> QED  BY <4>1, <4>2
    <3>7. bar' = [bar EXCEPT ![t] = b]  BY <3>5, <3>6
    <3>8. ASSUME NEW u \in Tensors, bar[u] # A!NoBlock
          PROVE  ~ A!Overlap(b, bar[u])
      <4>1. u \in Live /\ bar[u] = [start |-> ptr[u], size |-> size_map[ptr[u]]]
        BY <3>8 DEF BlockOf, A!NoBlock
      <4>2. /\ ptr[u] \in Nat /\ size_map[ptr[u]] \in Nat \ {0}
            /\ End(u) = ptr[u] + size_map[ptr[u]]
        BY <2>0, <4>1, LiveType
      <4> DEFINE q == ptr[u]
                 m == size_map[q]
      <4>3. \A a \in Nat : p <= a /\ a < p + size => ~ (q <= a /\ a < q + m)
        <5> SUFFICES ASSUME NEW a \in Nat, p <= a, a < p + size, q <= a, a < q + m
                     PROVE  FALSE
          OBVIOUS
        <5>1. Holds(u, a)  BY <4>1, <4>2 DEF Holds
        <5> QED  BY <2>0, <3>4, <5>1 DEF Partition
      <4>4. q \in Nat /\ m \in Nat \ {0}  BY <4>2
      <4>5. b.start = p /\ b.size = size /\ bar[u].start = q /\ bar[u].size = m
        BY <3>3, <4>1
      <4> HIDE DEF q, m
      <4>6. ~ (p < q + m /\ q < p + size)  BY <3>4, <4>3, <4>4
      <4> QED  BY <4>5, <4>6 DEF A!Overlap
    <3>9. bar'[t] = b /\ b \in [start : Nat, size : Nat \ {0}] /\ b.size >= n
      BY <3>3, <3>4, <3>5
    <3>10. A!Alloc(t, bar'[t], n)
      BY <3>5, <3>7, <3>8, <3>9 DEF A!Alloc
    <3> QED  BY <3>9, <3>10 DEF A!Next, A!AllocSome
  <2>2. ASSUME NEW t \in Tensors, Free(t)
        PROVE  A!Next
    <3>1. Returned(t) /\ UNCHANGED size_map  BY <2>2, FreeStep
    <3>2. t \notin Live' /\ Live' = Live \ {t} /\ \A u \in Live \ {t} : ptr'[u] = ptr[u]
      BY <3>1 DEF Returned
    <3>3. BlockOf(t)' = A!NoBlock  BY <3>2 DEF BlockOf, A!NoBlock
    <3>4. ASSUME NEW u \in Tensors, u # t PROVE BlockOf(u)' = BlockOf(u)
      <4>1. CASE u \in Live  BY <3>1, <3>2, <3>4, <4>1 DEF BlockOf
      <4>2. CASE u \notin Live  BY <3>2, <3>4, <4>2 DEF BlockOf
      <4> QED  BY <4>1, <4>2
    <3>5. bar' = [bar EXCEPT ![t] = A!NoBlock]  BY <3>3, <3>4
    <3> QED  BY <3>5 DEF A!Next, A!Free
  <2>3. ASSUME UNCHANGED <<size_map, Live>>, \A u \in Live : ptr'[u] = ptr[u]
        PROVE  bar' = bar
    BY <2>3 DEF BlockOf
  <2>4. ASSUME NEW t \in Tensors, AllocateEmpty(t) \/ FreeEmpty(t)
        PROVE  bar' = bar
    <3>1. /\ t \notin Live /\ UNCHANGED <<size_map, Live>>
          /\ \A u \in Tensors : u # t => ptr'[u] = ptr[u]
      BY <2>0, <2>4, EmptyStep
    <3>2. \A u \in Live : ptr'[u] = ptr[u]  BY <3>1 DEF Live
    <3> QED  BY <2>3, <3>1, <3>2
  <2>5. CASE UNCHANGED vars  BY <2>3, <2>5 DEF vars, Live
  <2>6. ASSUME Reset PROVE A!Next
    <3>1. Live' = {}  BY <2>6, ResetStep
    <3>2. bar' = [t \in Tensors |-> A!NoBlock]  BY <3>1 DEF BlockOf, A!NoBlock
    <3> QED  BY <3>2 DEF A!Next, A!FreeAll
  <2> QED  BY <2>1, <2>2, <2>4, <2>5, <2>6 DEF Next
<1> QED  BY <1>1, <1>2, Invariant, PTL DEF Spec, AllocatorSpec, A!Spec

=============================================================================
