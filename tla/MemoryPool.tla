---------------------------- MODULE MemoryPool ----------------------------
(***************************************************************************)
(* MemoryPool (runtime/storage.py): a cache of device memory.  Storages    *)
(* return to the pool from their __del__, which runs when the last         *)
(* reference goes or when the garbage collector finds the storage in a     *)
(* cycle.  The collector may start between two steps of malloc, free or    *)
(* clear; what it frees it frees to the end (it does not start within      *)
(* itself).  A storage is finalized once, so those in the pool are not.    *)
(***************************************************************************)
EXTENDS Integers, Sequences, FiniteSets, SequencesExt

CONSTANTS Requests,    \* the sizes programs ask for
          BlockSize, MaxReserve,
          Capacity     \* what the device can give

ASSUME PoolAssumption ==
  /\ BlockSize \in Nat \ {0} /\ Requests \subseteq Nat \ {0}
  /\ MaxReserve \in Nat /\ Capacity \in Nat

VARIABLES blocks,    \* memory_blocks: its entries [size, list] in insertion order
          reserved,  \* reserved_size
          device,    \* memory_api.addr2nbytes
          live,      \* the storages the program refers to
          garbage,   \* those only the collector can find
          op,        \* what the pool is doing
          disturbed  \* history: the collector ran where it may spoil a call

pool == <<blocks, reserved, device>>
vars == <<pool, live, garbage, op, disturbed>>

Block(addr, size) == [addr |-> addr, size |-> size]
Idle == [pc |-> "idle"]

Init == /\ blocks = <<>> /\ reserved = 0 /\ device = <<>>
        /\ live = {} /\ garbage = {} /\ op = Idle /\ disturbed = FALSE

-----------------------------------------------------------------------------
(* The dictionary of lists.                                                 *)

Has(bs, size)    == \E i \in DOMAIN bs : bs[i].size = size
IndexOf(bs, size) == CHOOSE i \in DOMAIN bs : bs[i].size = size
Touch(bs, size)  == IF Has(bs, size) THEN bs ELSE Append(bs, [size |-> size, list |-> <<>>])

\* Mutant: a list is replaced by the freed storage.
PutOver(bs, s) == LET b == Touch(bs, s.size) IN [b EXCEPT ![IndexOf(b, s.size)].list = <<s>>]

Put(bs, s) == LET b == Touch(bs, s.size) IN [b EXCEPT ![IndexOf(b, s.size)].list = Append(@, s)]

Pooled(bs)       == FlattenSeq([i \in DOMAIN bs |-> bs[i].list])
Zeroed(list)     == [i \in DOMAIN list |-> [list[i] EXCEPT !.addr = 0]]

(* The device.                                                              *)

Total(d) == FoldFunction(+, 0, d)
Fresh    == CHOOSE a \in 1 .. Cardinality(DOMAIN device) + 1 : a \notin DOMAIN device
Without(d, addr) == [a \in DOMAIN d \ {addr} |-> d[a]]

-----------------------------------------------------------------------------
(* free and clear from start to end, as the collector runs them.            *)

State == [blocks |-> blocks, reserved |-> reserved, device |-> device, wiped |-> FALSE]

\* memory_api.free of one storage: an address the device does not know is given
\* back all the same, and then raises KeyError.
GiveBack(st, s) ==
  IF ~st.ok THEN st
  ELSE IF s.addr \in DOMAIN st.device THEN [st EXCEPT !.device = Without(@, s.addr), !.count = @ + 1]
  ELSE [st EXCEPT !.ok = FALSE]

\* The first n pooled storages have been freed.
ZeroFirst(bs, n) ==
  [i \in DOMAIN bs |-> [bs[i] EXCEPT !.list =
     [j \in DOMAIN bs[i].list |->
        IF Len(Pooled(SubSeq(bs, 1, i - 1))) + j <= n THEN Block(0, bs[i].size) ELSE bs[i].list[j]]]]

ClearAll(st) ==
  LET end == FoldLeft(GiveBack, [ok |-> TRUE, device |-> st.device, count |-> 0],
                      Pooled(st.blocks))
  IN  IF end.ok
      THEN [blocks |-> <<>>, reserved |-> 0, device |-> end.device, wiped |-> TRUE]
      ELSE [st EXCEPT !.blocks = ZeroFirst(@, end.count), !.device = end.device]

Over(bytes) == bytes > MaxReserve

FreeAll(st, s) ==
  LET after == [st EXCEPT !.blocks = Put(@, s), !.reserved = @ + s.size]
  IN  IF Over(after.reserved) THEN ClearAll(after) ELSE after

\* The collector finalizes the storages it found, in some order.
Collected(storages) ==
  {FoldLeft(FreeAll, State, order) : order \in SetToSeqs(storages)}

\* A list that malloc or clear works on is a list of nothing once it was cleared.
Become(st) ==
  /\ blocks' = st.blocks /\ reserved' = st.reserved /\ device' = st.device

\* Nothing is spoilt when the collector runs between calls, or inside malloc or free
\* and what it frees does not exceed the limit.
Spoils(st) == \/ op.pc \in {"clear", "zero", "cleared"}
              \/ op.pc \in {"looked", "popped", "appended"} /\ st.wiped

Collect ==
  /\ garbage # {}
  /\ \E st \in Collected(garbage) :
       /\ Become(st)
       /\ op' = IF st.wiped /\ op.pc \in {"looked", "clear", "zero"} /\ ~op.detached
                THEN [op EXCEPT !.detached = TRUE,
                        !.list = IF op.at \in DOMAIN blocks THEN Zeroed(blocks[op.at].list) ELSE <<>>]
                ELSE op
       /\ disturbed' = (disturbed \/ Spoils(st))
  /\ garbage' = {} /\ UNCHANGED live

-----------------------------------------------------------------------------
(* malloc                                                                   *)

Rounded(nbytes) == ((nbytes + BlockSize - 1) \div BlockSize) * BlockSize

\* Looks up the list, which the defaultdict makes when there is none.
Lookup ==
  /\ op = Idle
  /\ \E n \in Requests :
       /\ blocks' = Touch(blocks, Rounded(n))
       /\ op' = [pc |-> "looked", size |-> Rounded(n), at |-> IndexOf(blocks', Rounded(n)),
                 list |-> <<>>, detached |-> FALSE]
  /\ UNCHANGED <<reserved, device, live, garbage, disturbed>>

CurrentList == IF op.detached THEN op.list ELSE blocks[op.at].list

\* Mutant: the storage is taken and stays in the list.
PoppedNot(list) == list

Popped(list) == Front(list)

Pop ==
  /\ op.pc = "looked" /\ CurrentList # <<>>
  /\ blocks' = IF op.detached THEN blocks ELSE [blocks EXCEPT ![op.at].list = Popped(@)]
  /\ op' = [pc |-> "popped", storage |-> Last(CurrentList)]
  /\ UNCHANGED <<reserved, device, live, garbage, disturbed>>

Reuse ==
  /\ op.pc = "popped"
  /\ reserved' = reserved - op.storage.size
  /\ live' = live \cup {op.storage} /\ op' = Idle
  /\ UNCHANGED <<blocks, device, garbage, disturbed>>

Room(size) == Total(device) + size <= Capacity

Allocate(size) ==
  /\ device' = [a \in DOMAIN device \cup {Fresh} |-> IF a = Fresh THEN size ELSE device[a]]
  /\ live' = live \cup {Block(Fresh, size)} /\ op' = Idle
  /\ UNCHANGED <<blocks, reserved, garbage, disturbed>>

MallocNew ==
  /\ op.pc = "looked" /\ CurrentList = <<>> /\ Room(op.size)
  /\ Allocate(op.size)

Clearing(after, size) ==
  [pc |-> "clear", after |-> after, size |-> size, at |-> 0, next |-> 1, count |-> -1,
   list |-> <<>>, detached |-> FALSE]

\* Mutant: garbage is not collected first.
CollectNone == {}

CollectEverything == garbage

\* Out of memory: gc.collect(), then clear and try again.
OutOfMemory ==
  /\ op.pc = "looked" /\ CurrentList = <<>> /\ ~Room(op.size)
  /\ \E st \in Collected(CollectEverything) : Become(st)
  /\ garbage' = garbage \ CollectEverything
  /\ op' = Clearing("retry", op.size)
  /\ UNCHANGED <<live, disturbed>>

Retry ==
  /\ op.pc = "retry" /\ Room(op.size)
  /\ Allocate(op.size)

RaiseMemoryError ==
  /\ op.pc = "retry" /\ ~Room(op.size)
  /\ op' = Idle
  /\ UNCHANGED <<pool, live, garbage, disturbed>>

-----------------------------------------------------------------------------
(* free, from __del__ when the last reference goes.                         *)

FreeAppend ==
  /\ op = Idle
  /\ \E s \in live :
       /\ live' = live \ {s}
       /\ blocks' = Put(blocks, s)
       /\ op' = [pc |-> "appended", storage |-> s]
  /\ UNCHANGED <<reserved, device, garbage, disturbed>>

FreeCount ==
  /\ op.pc = "appended"
  /\ reserved' = reserved + op.storage.size
  /\ op' = IF Over(reserved') THEN Clearing("idle", 0) ELSE Idle
  /\ UNCHANGED <<blocks, device, live, garbage, disturbed>>

\* A reference cycle around a storage is dropped.
Lose ==
  /\ op = Idle
  /\ \E s \in live : live' = live \ {s} /\ garbage' = garbage \cup {s}
  /\ UNCHANGED <<pool, op, disturbed>>

-----------------------------------------------------------------------------
(* clear                                                                    *)

Clear ==
  /\ op = Idle /\ op' = Clearing("idle", 0)
  /\ UNCHANGED <<pool, live, garbage, disturbed>>

Iterated == IF op.at = 0 THEN <<>> ELSE CurrentList

\* The next list; the iterator raises when the dictionary has grown or shrunk.
ClearList ==
  LET count == IF op.count = -1 THEN Len(blocks) ELSE op.count
  IN  /\ op.pc = "clear" /\ op.next > Len(Iterated)
      /\ IF Len(blocks) # count THEN op' = Idle /\ UNCHANGED blocks
         ELSE IF op.at < Len(blocks)
         THEN /\ op' = [op EXCEPT !.at = @ + 1, !.next = 1, !.count = count, !.detached = FALSE]
              /\ UNCHANGED blocks
         ELSE blocks' = <<>> /\ op' = [pc |-> "cleared", after |-> op.after, size |-> op.size]
      /\ UNCHANGED <<reserved, device, live, garbage, disturbed>>

\* memory_api.free of one storage, ...
ClearFree ==
  LET s  == Iterated[op.next]
      st == GiveBack([ok |-> TRUE, device |-> device, count |-> 0], s)
  IN  /\ op.pc = "clear" /\ op.next <= Len(Iterated)
      /\ device' = st.device
      /\ op' = IF st.ok THEN [op EXCEPT !.pc = "zero"] ELSE Idle
      /\ UNCHANGED <<blocks, reserved, live, garbage, disturbed>>

ZeroOne(bs) == [bs EXCEPT ![op.at].list[op.next].addr = 0]

\* ... and its address is forgotten.
ClearZero ==
  /\ op.pc = "zero"
  /\ blocks' = IF op.detached THEN blocks ELSE ZeroOne(blocks)
  /\ op' = [op EXCEPT !.pc = "clear", !.next = @ + 1]
  /\ UNCHANGED <<reserved, device, live, garbage, disturbed>>

ClearCount ==
  /\ op.pc = "cleared"
  /\ reserved' = 0
  /\ op' = IF op.after = "idle" THEN Idle ELSE [pc |-> "retry", size |-> op.size]
  /\ UNCHANGED <<blocks, device, live, garbage, disturbed>>

Next == \/ Lookup \/ Pop \/ Reuse \/ MallocNew \/ OutOfMemory \/ Retry \/ RaiseMemoryError
        \/ FreeAppend \/ FreeCount \/ Lose \/ Collect
        \/ Clear \/ ClearList \/ ClearFree \/ ClearZero \/ ClearCount

Spec == Init /\ [][Next]_vars

-----------------------------------------------------------------------------
(* Properties.                                                              *)

Storages == ToSet(Pooled(blocks)) \cup live \cup garbage
Addrs(storages) == {s.addr : s \in storages}
Bytes(storages) == Total([s \in storages |-> s.size])

\* A storage in use has memory of its size that the device still considers
\* allocated, and that no other storage, in use or pooled, has.
LiveIsAllocated == ~disturbed => \A s \in live \cup garbage :
  /\ s.addr \in DOMAIN device /\ device[s.addr] = s.size
  /\ \A i \in DOMAIN Pooled(blocks) : Pooled(blocks)[i].addr # s.addr
  /\ \A t \in live \cup garbage : t # s => t.addr # s.addr

\* Between calls, memory is in use, or in the pool once, or back with the device;
\* and reserved_size, by which free decides to clear, is what the pool holds, and
\* within the limit.
NothingLost == op = Idle /\ ~disturbed =>
  /\ DOMAIN device = Addrs(Storages)
  /\ IsInjective(Pooled(blocks))
  /\ reserved = Bytes(ToSet(Pooled(blocks)))
  /\ reserved <= MaxReserve

\* malloc raises MemoryError only when the storages in use leave no room, whatever
\* the pool and the garbage held when it was called.
MemoryErrorIsReal == ~disturbed /\ op.pc = "retry" /\ ~Room(op.size) =>
  Bytes(live) + op.size > Capacity

===========================================================================
