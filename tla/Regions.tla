------------------------------- MODULE Regions -------------------------------
(***************************************************************************)
(* The free list of the memory planner that is linked into every compiled  *)
(* graph (include/hidet/runtime/memory_planner.h), as operators on a       *)
(* sequence of free regions.  The list is ordered by start address and its *)
(* last region has size -1: it is unbounded.                               *)
(***************************************************************************)
EXTENDS Integers, SequencesExt

CONSTANT Alignment   \* 128 in the code: every block is a multiple of it

ASSUME AlignmentAssumption == Alignment \in Nat \ {0}

Unbounded == -1      \* size of the last region
NullPtr   == -1      \* the pointer of an empty block

Region == [start : Nat, size : Nat \cup {Unbounded}]

InitRegions == << [start |-> 0, size |-> Unbounded] >>

\* The size of the block that serves a request of size bytes.
Ceil(size) == ((size + Alignment - 1) \div Alignment) * Alignment

\* Whether region r can serve a block of the given (already rounded) size.
Fits(r, size) == r.size >= size \/ r.size = Unbounded

\* Mutant: the last region that fits.
LastFit(regions, size) ==
  CHOOSE i \in DOMAIN regions :
    /\ Fits(regions[i], size)
    /\ \A j \in (i + 1) .. Len(regions) : ~ Fits(regions[j], size)

\* The first region, in list order, that fits.
FirstFit(regions, size) ==
  CHOOSE i \in DOMAIN regions :
    /\ Fits(regions[i], size)
    /\ \A j \in 1 .. (i - 1) : ~ Fits(regions[j], size)

\* Mutant: the region is cut one byte short.
TakeFromShort(regions, i, size) ==
  IF regions[i].size = size
  THEN RemoveAt(regions, i)
  ELSE [regions EXCEPT ![i] =
          [start |-> @.start + size - 1,
           size  |-> IF @.size = Unbounded THEN Unbounded ELSE @.size - size + 1]]

\* The list after a block of the given size is cut from the front of region i.
TakeFrom(regions, i, size) ==
  IF regions[i].size = size
  THEN RemoveAt(regions, i)
  ELSE [regions EXCEPT ![i] =
          [start |-> @.start + size,
           size  |-> IF @.size = Unbounded THEN Unbounded ELSE @.size - size]]

\* The first region that starts after the block at start.
After(regions, start) ==
  CHOOSE i \in DOMAIN regions :
    /\ regions[i].start > start
    /\ \A j \in 1 .. (i - 1) : regions[j].start <= start

\* Region r extended downwards so that it starts at start, n bytes earlier.
Extend(r, start, n) ==
  [start |-> start, size |-> IF r.size = Unbounded THEN Unbounded ELSE r.size + n]

\* Mutants: a block is never merged with the region before it; when it is merged
\* with both neighbours only its own size is added to the next.
GiveBackNextOnly(regions, start, size) ==
  LET i == After(regions, start)
  IN  IF start + size = regions[i].start
      THEN [regions EXCEPT ![i] = Extend(@, start, size)]
      ELSE InsertAt(regions, i, [start |-> start, size |-> size])

GiveBackShort(regions, start, size) ==
  LET i == After(regions, start)
      joinsNext == start + size = regions[i].start
      joinsPrev == i > 1 /\ start = regions[i - 1].start + regions[i - 1].size
  IN  CASE joinsNext /\ joinsPrev ->
             RemoveAt([regions EXCEPT ![i] = Extend(@, start, size)], i - 1)
        [] joinsNext /\ ~ joinsPrev ->
             [regions EXCEPT ![i] = Extend(@, start, size)]
        [] ~ joinsNext /\ joinsPrev ->
             [regions EXCEPT ![i - 1].size = @ + size]
        [] OTHER ->
             InsertAt(regions, i, [start |-> start, size |-> size])

\* The list after the block [start, start + size) is returned to it: the block
\* is merged with the region that begins at its end, with the region that ends
\* at its start, with both, or becomes a region of its own.
GiveBack(regions, start, size) ==
  LET i == After(regions, start)
      joinsNext == start + size = regions[i].start
      joinsPrev == i > 1 /\ start = regions[i - 1].start + regions[i - 1].size
  IN  CASE joinsNext /\ joinsPrev ->
             RemoveAt([regions EXCEPT ![i] =
                         Extend(@, regions[i - 1].start, regions[i - 1].size + size)], i - 1)
        [] joinsNext /\ ~ joinsPrev ->
             [regions EXCEPT ![i] = Extend(@, start, size)]
        [] ~ joinsNext /\ joinsPrev ->
             [regions EXCEPT ![i - 1].size = @ + size]
        [] OTHER ->
             InsertAt(regions, i, [start |-> start, size |-> size])

\* Bytes of the workspace below the unbounded region.
Used(regions) == regions[Len(regions)].start

-----------------------------------------------------------------------------

\* The list is sorted, its last region is the unbounded one, and no two regions
\* touch: GiveBack merges in both directions.
WellFormed(regions) ==
  /\ Len(regions) > 0
  /\ regions[Len(regions)].size = Unbounded
  /\ \A i \in 1 .. (Len(regions) - 1) :
       /\ regions[i].size > 0
       /\ \A j \in (i + 1) .. Len(regions) :
            regions[i].start + regions[i].size < regions[j].start

InRegion(r, a) == r.start <= a /\ (r.size = Unbounded \/ a < r.start + r.size)

\* Address a belongs to the free list.
IsFree(regions, a) == \E i \in DOMAIN regions : InRegion(regions[i], a)

=============================================================================
