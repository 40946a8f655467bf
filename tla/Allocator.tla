------------------------------ MODULE Allocator ------------------------------
(***************************************************************************)
(* What the memory planner promises, and all of it: a client that asks for *)
(* memory is given an interval of addresses that no other client holds,    *)
(* and the interval stays where it is until that client gives it back.     *)
(* How the interval is chosen is left open.                                *)
(***************************************************************************)
EXTENDS Integers

CONSTANTS Clients,  \* who holds blocks
          Sizes     \* sizes a client may ask for, 0 included

VARIABLE block      \* block[c]: the interval c holds, as [start, size]

NoBlock == [start |-> 0, size |-> 0]

Overlap(a, b) == a.start < b.start + b.size /\ b.start < a.start + a.size

Init == block = [c \in Clients |-> NoBlock]

Alloc(c, b, n) ==
  /\ block[c] = NoBlock
  /\ b.size >= n
  /\ \A d \in Clients : block[d] # NoBlock => ~ Overlap(b, block[d])
  /\ block' = [block EXCEPT ![c] = b]

Free(c) ==
  /\ block' = [block EXCEPT ![c] = NoBlock]

\* The interval is stated through block' so that it ranges over all intervals.
AllocSome(c) ==
  /\ block'[c] \in [start : Nat, size : Nat \ {0}]
  /\ \E n \in Sizes \ {0} : Alloc(c, block'[c], n)

\* Everything is given back at once.
FreeAll == block' = [c \in Clients |-> NoBlock]

Next == FreeAll \/ \E c \in Clients : AllocSome(c) \/ Free(c)

Spec == Init /\ [][Next]_block

=============================================================================
