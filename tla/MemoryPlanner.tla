---------------------------- MODULE MemoryPlanner ----------------------------
(***************************************************************************)
(* One memory planner and the code that calls it.                          *)
(*                                                                         *)
(* The planner keeps its free list (regions) and the sizes of the blocks   *)
(* it has handed out (size_map, whose entries are never erased).  A caller *)
(* keeps the pointer it was given for each tensor (ptr) and passes it back *)
(* to free; the generated launch function does both, see GraphMemory.      *)
(***************************************************************************)
EXTENDS Regions

CONSTANTS Tensors,   \* the tensors that are given blocks
          Sizes      \* sizes in bytes that are asked for

ASSUME SizesAssumption == Sizes \subseteq Nat

NoPtr == -2          \* the tensor has no block now (NullPtr is an empty one)

VARIABLES regions, size_map, ptr

vars == <<regions, size_map, ptr>>

Live == {t \in Tensors : ptr[t] \in Nat}

End(t) == ptr[t] + size_map[ptr[t]]

-----------------------------------------------------------------------------

\* memory_planner_init
Init ==
  /\ regions = InitRegions
  /\ size_map = [p \in {} |-> 0]
  /\ ptr = [t \in Tensors |-> NoPtr]

\* size_map[ret] = size
Record(ret, size) ==
  size_map' = [p \in DOMAIN size_map \cup {ret} |->
                 IF p = ret THEN size ELSE size_map[p]]

\* memory_planner_allocate with size 0: a pointer that stands for no memory.
AllocateEmpty(t) ==
  /\ 0 \in Sizes
  /\ ptr[t] = NoPtr
  /\ ptr' = [ptr EXCEPT ![t] = NullPtr]
  /\ UNCHANGED <<regions, size_map>>

\* memory_planner_allocate
Allocate(t, n) ==
  /\ ptr[t] = NoPtr
  /\ LET size == Ceil(n)
         i    == FirstFit(regions, size)
     IN  /\ regions' = TakeFrom(regions, i, size)
         /\ Record(regions[i].start, size)
         /\ ptr' = [ptr EXCEPT ![t] = regions[i].start]

\* memory_planner_free of a block, or of the null pointer
Free(t) ==
  /\ t \in Live
  /\ regions' = GiveBack(regions, ptr[t], size_map[ptr[t]])
  /\ ptr' = [ptr EXCEPT ![t] = NoPtr]
  /\ UNCHANGED size_map

FreeEmpty(t) ==
  /\ ptr[t] = NullPtr
  /\ ptr' = [ptr EXCEPT ![t] = NoPtr]
  /\ UNCHANGED <<regions, size_map>>

\* memory_planner_init, called again for the next launch: what was held is forgotten
Reset ==
  /\ regions' = InitRegions
  /\ size_map' = [p \in {} |-> 0]
  /\ ptr' = [t \in Tensors |-> NoPtr]

Next ==
  \/ Reset
  \/ \E t \in Tensors :
       \/ AllocateEmpty(t)
       \/ \E n \in Sizes \ {0} : Allocate(t, n)
       \/ Free(t)
       \/ FreeEmpty(t)

Spec == Init /\ [][Next]_vars

-----------------------------------------------------------------------------

\* The planner's data are what the C++ declarations say, and the pointers held
\* by callers are keys of size_map.
TypeOK ==
  /\ regions \in Seq(Region)
  /\ size_map \in [DOMAIN size_map -> Nat \ {0}]
  /\ DOMAIN size_map \subseteq Nat
  /\ ptr \in [Tensors -> Nat \cup {NullPtr, NoPtr}]
  /\ \A t \in Live : ptr[t] \in DOMAIN size_map

\* The free list is sorted, ends in the unbounded region, and holds no two
\* regions that touch (memory_planner.h:69-109): a freed block is never stranded
\* beside a free region that a larger request could have used together with it.
Coalesced == WellFormed(regions)

\* Two tensors that hold blocks at the same time never share an address.
BlocksDisjoint ==
  \A t, u \in Live : t # u => End(t) <= ptr[u] \/ End(u) <= ptr[t]

\* No address is both free and held: no region of the list reaches into a block.
FreeListDisjoint ==
  \A t \in Live : \A a \in ptr[t] .. (End(t) - 1) : ~ IsFree(regions, a)

\* Nothing is lost: every address below the unbounded region is in some block
\* or in some region of the list.
NoLeak ==
  \A a \in 0 .. (Used(regions) - 1) :
    IsFree(regions, a) \/ \E t \in Live : ptr[t] <= a /\ a < End(t)

\* No memory is lost or promised twice: every address below the unbounded region
\* is in some block or in some region of the list, and not in both.
Accounted == FreeListDisjoint /\ NoLeak

\* memory_planner_used, the number the workspace is sized by, covers every block.
UsedCoversBlocks == \A t \in Live : End(t) <= Used(regions)

\* When everything has been given back the free list is the initial one again,
\* whatever the order of the frees was.
EmptyIsInitial == Live = {} => regions = InitRegions

\* While a tensor keeps its block, neither its address nor the size recorded for
\* it changes, though size_map is shared by all of them and never cleaned.
BlocksStay ==
  [][\A t \in Live : ptr'[t] \in Nat => ptr'[t] = ptr[t] /\ End(t)' = End(t)]_vars

\* A new block is put at the lowest address where it meets no held block.
LowestAddress ==
  [][\A t \in Tensors :
       (t \notin Live /\ ptr'[t] \in Nat) =>
          \A a \in 0 .. (ptr'[t] - 1) :
            \E u \in Live : ptr[u] < a + size_map'[ptr'[t]] /\ a < End(u)]_vars

\* The abstract allocator, and the planner's blocks seen as its intervals.
BlockOf(t) == IF t \in Live THEN [start |-> ptr[t], size |-> size_map[ptr[t]]]
                            ELSE [start |-> 0, size |-> 0]

A == INSTANCE Allocator WITH
       Clients <- Tensors,
       block   <- [t \in Tensors |-> BlockOf(t)]

AllocatorSpec == A!Spec

=============================================================================
