----------------------------- MODULE FileStore -----------------------------
(***************************************************************************)
(* FileStore (distributed/store.py): processes that share a key-value      *)
(* store kept as a log in one file.  Every access holds the file lock; a   *)
(* step of this module is what a process does between two points where it  *)
(* can be seen or stopped: reading the log, and appending to it.  A call   *)
(* that only reads or only appends is one step.                            *)
(*                                                                         *)
(* An entry is a key and a value; the entry of a deletion has FileStore's  *)
(* DELETE_PREFIX.  The count of the clients is kept in the log itself,     *)
(* under a key no user key can equal (REGULAR_PREFIX).                     *)
(***************************************************************************)
EXTENDS Integers, Sequences, FiniteSets

CONSTANTS Clients,    \* processes, each with one FileStore
          Keys,
          Empty,      \* b''
          Plans,      \* what may happen: the clients that come, the calls of each,
                      \* and the signals they may get: "int", "term", "kill"
          WorldSize   \* the argument of every constructor, -1 for none

Cnt    == "cnt"
Nobody == "nobody"
ASSUME FileStoreAssumption == Cnt \notin Keys /\ Nobody \notin Clients /\ IsFiniteSet(Clients)

\* Values are numbers, and a value that was set is never b''.
StoreCall == [op : {"set", "delete", "get", "wait", "add", "compare_set"},
              key : Keys, value : Int, expected : Int \cup {Empty}]

ASSUME PlansAssumption ==
  /\ Empty \notin Int
  /\ \A p \in Plans : p.calls \in [Clients -> Seq(StoreCall)]

VARIABLES signals,    \* the signals of the plan that is followed
          exists,     \* the file is there
          log,        \* its entries, <<>> when it is not there
          lock,       \* the process that holds the file lock, or Nobody
          pc,         \* where each process is
          calls,      \* the calls each process has still to make
          cache,      \* FileStore._cache
          seen,       \* get's last_file_size, NoSize for None
          answers,    \* what its calls returned
          counted     \* the processes the count stands for (history)

vars == <<signals, exists, log, lock, pc, calls, cache, seen, answers, counted>>

NoSize == -1
Names  == Keys \cup {Cnt}
Blank  == [k \in Names |-> Empty]

Entry(k, v)  == [key |-> k, value |-> v, delete |-> FALSE]
Deletion(k)  == [key |-> k, value |-> Empty, delete |-> TRUE]

-----------------------------------------------------------------------------

\* _update for one entry: a deletion of a key that is not there raises KeyError.
Apply(c, e) == IF e.delete /\ c.contents[e.key] = Empty THEN [c EXCEPT !.ok = FALSE]
               ELSE [c EXCEPT !.contents[e.key] = e.value]

\* _update: scan the whole file.
Update(l) ==
  LET scan[n \in 0 .. Len(l)] ==
        IF n = 0 THEN [ok |-> TRUE, contents |-> Blank]
        ELSE LET before == scan[n - 1]
             IN  IF before.ok THEN Apply(before, l[n]) ELSE before
  IN  scan[Len(l)]

Readable == Update(log).ok
Contents == Update(log).contents

Number(v) == IF v = Empty THEN 0 ELSE v

Init ==
  /\ exists = FALSE /\ log = <<>> /\ lock = Nobody
  /\ \E p \in Plans :
       /\ calls = p.calls /\ signals = p.signals
       /\ pc = [c \in Clients |-> IF c \in p.clients THEN "start" ELSE "gone"]
  /\ cache = [c \in Clients |-> Blank]
  /\ seen = [c \in Clients |-> NoSize]
  /\ answers = [c \in Clients |-> <<>>]
  /\ counted = {}

Goto(c, label) == pc' = [pc EXCEPT ![c] = label]

\* Mutant: add appends without the lock it read under.
FreeAlways(c) == TRUE

\* The lock is reentrant.
Acquirable(c) == lock \in {Nobody, c}

\* open(.., "ab+") creates the file when it is missing.
Write(entry) == exists' = TRUE /\ log' = Append(log, entry)

\* _update with its result in the cache.
Scan(c) == /\ Readable
           /\ exists' = TRUE
           /\ cache' = [cache EXCEPT ![c] = Contents]
           /\ UNCHANGED log

\* The call at hand ends; the next one starts with no file size seen.
Finish(c, answer) ==
  /\ calls' = [calls EXCEPT ![c] = Tail(@)]
  /\ answers' = [answers EXCEPT ![c] = Append(@, answer)]
  /\ seen' = [seen EXCEPT ![c] = NoSize]

\* Between two calls; after one that raised, the program may go on ("caught"), and
\* when get raised it goes on with the lock ("holding").
Ready(c) == pc[c] \in {"ready", "caught", "holding"}

Calling(c, op) == Ready(c) /\ calls[c] # <<>> /\ Head(calls[c]).op = op

-----------------------------------------------------------------------------
(* __init__: count oneself.  A process too many raises before it has        *)
(* registered the cleanup.                                                  *)

JoinRead(c) ==
  /\ pc[c] = "start" /\ Acquirable(c)
  /\ Scan(c) /\ lock' = c /\ Goto(c, "join")
  /\ UNCHANGED <<calls, seen, answers, counted>>

JoinWrite(c) ==
  LET peers == Number(cache[c][Cnt]) + 1
  IN  /\ pc[c] = "join"
      /\ Write(Entry(Cnt, peers)) /\ lock' = Nobody
      /\ counted' = counted \cup {c}
      /\ Goto(c, IF WorldSize \in 0 .. (peers - 1) THEN "gone" ELSE "ready")
      /\ UNCHANGED <<calls, cache, seen, answers>>

-----------------------------------------------------------------------------
(* The calls.                                                               *)

Set(c) ==
  /\ Calling(c, "set") /\ Acquirable(c)
  /\ Write(Entry(Head(calls[c]).key, Head(calls[c]).value))
  /\ Finish(c, Empty)
  /\ UNCHANGED <<lock, pc, cache, counted>>

DeleteKey(c) ==
  /\ Calling(c, "delete") /\ Acquirable(c)
  /\ Write(Deletion(Head(calls[c]).key))
  /\ Finish(c, Empty)
  /\ UNCHANGED <<lock, pc, cache, counted>>

\* Mutant: the cache is trusted although the file may have grown.
NothingNewEver(c, key) == cache[c][key] = Empty /\ seen[c] # NoSize

\* get's test that spares it another scan.
NothingNew(c, key) == cache[c][key] = Empty /\ seen[c] = Len(log)

\* One round of get's loop; a round that finds nothing new changes nothing.
Get(c) ==
  LET key == Head(calls[c]).key
  IN  /\ Calling(c, "get") /\ Acquirable(c)
      /\ ~NothingNew(c, key)
      /\ Scan(c)
      /\ IF Contents[key] = Empty
         THEN seen' = [seen EXCEPT ![c] = Len(log)] /\ UNCHANGED <<calls, answers>>
         ELSE Finish(c, Contents[key])
      /\ UNCHANGED <<lock, pc, counted>>

\* One round of wait's loop.
Wait(c) ==
  /\ Calling(c, "wait") /\ Acquirable(c)
  /\ Scan(c)
  /\ IF Contents[Head(calls[c]).key] = Empty THEN UNCHANGED <<calls, answers, seen>>
     ELSE Finish(c, Empty)
  /\ UNCHANGED <<lock, pc, counted>>

AddRead(c) ==
  /\ Calling(c, "add") /\ Acquirable(c)
  /\ Scan(c) /\ lock' = c /\ Goto(c, "add")
  /\ UNCHANGED <<calls, seen, answers, counted>>

AddWrite(c) ==
  LET call == Head(calls[c])
      sum  == Number(cache[c][call.key]) + call.value
  IN  /\ pc[c] = "add"
      /\ Write(Entry(call.key, sum)) /\ lock' = Nobody
      /\ Finish(c, sum) /\ Goto(c, "ready")
      /\ UNCHANGED <<cache, counted>>

CompareSetRead(c) ==
  /\ Calling(c, "compare_set") /\ Acquirable(c)
  /\ Scan(c) /\ lock' = c /\ Goto(c, "compare_set")
  /\ UNCHANGED <<calls, seen, answers, counted>>

\* Mutant: compare_set sets the key whatever it holds.
MatchesAny(held, expected) == TRUE

Matches(held, expected) == held = expected

CompareSetWrite(c) ==
  LET call == Head(calls[c])
      held == cache[c][call.key]
  IN  /\ pc[c] = "compare_set"
      /\ IF Matches(held, call.expected)
         THEN Write(Entry(call.key, call.value)) /\ Finish(c, call.value)
         ELSE /\ Finish(c, IF held = Empty THEN call.expected ELSE held)
              /\ UNCHANGED <<exists, log>>
      /\ lock' = Nobody /\ Goto(c, "ready")
      /\ UNCHANGED <<cache, counted>>

-----------------------------------------------------------------------------
(* Leaving.                                                                 *)

\* get and wait raise TimeoutError, which ends the process.
Timeout(c) ==
  /\ \/ Calling(c, "get") /\ NothingNew(c, Head(calls[c]).key)
     \/ Calling(c, "wait") /\ Readable /\ Contents[Head(calls[c]).key] = Empty
  /\ lock = Nobody
  /\ Goto(c, "exit")
  /\ UNCHANGED <<exists, log, lock, calls, cache, seen, answers, counted>>

\* The registered cleanup, when the interpreter exits: count oneself out ...
Exiting(c) == \/ pc[c] \in {"exit", "unwound"}
              \/ Ready(c) /\ calls[c] = <<>>

LockAfter(c) == IF lock = c THEN Nobody ELSE lock

Cleanup(c) ==
  LET rest == Number(Contents[Cnt]) - 1
  IN  /\ Exiting(c) /\ Acquirable(c)
      /\ IF exists
         THEN /\ Readable
              /\ log' = Append(log, Entry(Cnt, rest))
              /\ cache' = [cache EXCEPT ![c] = Contents]
              /\ IF rest = 0 THEN Goto(c, "remove") /\ lock' = c /\ UNCHANGED counted
                 ELSE Goto(c, "gone") /\ counted' = counted \ {c} /\ lock' = LockAfter(c)
         ELSE /\ Goto(c, "gone") /\ counted' = counted \ {c} /\ lock' = LockAfter(c)
              /\ UNCHANGED <<log, cache>>
      /\ UNCHANGED <<exists, calls, seen, answers>>

\* ... and remove the file after the last one.
RemoveFile(c) ==
  /\ pc[c] = "remove"
  /\ exists' = FALSE /\ log' = <<>> /\ lock' = Nobody
  /\ counted' = counted \ {c} /\ Goto(c, "gone")
  /\ UNCHANGED <<calls, cache, seen, answers>>

Scanning(c) == \/ pc[c] = "start"
               \/ Ready(c) /\ calls[c] # <<>>
                  /\ Head(calls[c]).op \notin {"set", "delete"}
                  /\ (Head(calls[c]).op = "get" => ~NothingNew(c, Head(calls[c]).key))
               \/ Exiting(c) /\ exists

\* A scan that raises KeyError, when nobody catches it, ends the process; its
\* cleanup raises again, and the system releases its lock.
ScanFails(c) ==
  /\ Scanning(c) /\ Acquirable(c) /\ ~Readable
  /\ Goto(c, "gone") /\ lock' = LockAfter(c)
  /\ UNCHANGED <<exists, log, calls, cache, seen, answers, counted>>

\* Mutant: a lock taken with "with" is not released when its block raises.
KeptAlways(c, op) == c

\* get takes the lock by hand and keeps it when the scan raises.
Kept(c, op) == IF op = "get" THEN c ELSE lock

\* The program catches the error of a call and goes on.
ScanCaught(c) ==
  /\ Ready(c) /\ calls[c] # <<>> /\ Scanning(c) /\ Acquirable(c) /\ ~Readable
  /\ LET op == Head(calls[c]).op
     IN  /\ lock' = Kept(c, op)
         /\ Goto(c, IF op = "get" \/ pc[c] = "holding" THEN "holding" ELSE "caught")
  /\ calls' = [calls EXCEPT ![c] = Tail(@)]
  /\ seen' = [seen EXCEPT ![c] = NoSize]
  /\ UNCHANGED <<exists, log, cache, answers, counted>>

-----------------------------------------------------------------------------
(* Signals.                                                                 *)

\* The handlers are installed once __init__ is through.  A process gets one signal.
Handling(c) == Ready(c) \/ pc[c] \in {"add", "compare_set", "exit", "remove"}

\* signal_handler runs the cleanup (the lock is reentrant).  SIGTERM then ends
\* the process; the handler SIGINT had before raises KeyboardInterrupt, so the
\* process unwinds and exits.
Signal(c, signal) ==
  LET rest == Number(Contents[Cnt]) - 1
  IN  /\ Handling(c) /\ lock \in {Nobody, c}
      /\ exists => Readable
      /\ log' = IF exists /\ rest # 0 THEN Append(log, Entry(Cnt, rest)) ELSE <<>>
      /\ exists' = (exists /\ rest # 0)
      /\ lock' = Nobody /\ counted' = counted \ {c}
      /\ cache' = IF exists THEN [cache EXCEPT ![c] = Contents] ELSE cache
      /\ Goto(c, IF signal = "int" THEN "unwound" ELSE "gone")
      /\ UNCHANGED <<calls, seen, answers>>

\* A cleanup that raises in the handler ends the process, too.
SignalFails(c) ==
  /\ Handling(c) /\ Acquirable(c) /\ exists /\ ~Readable
  /\ Goto(c, "gone") /\ lock' = LockAfter(c)
  /\ UNCHANGED <<exists, log, calls, cache, seen, answers, counted>>

\* SIGKILL, at any time; the system releases the lock of a dead process.  Entries
\* reach the file when it is closed, at once.
Kill(c) ==
  /\ pc[c] \notin {"start", "gone"}
  /\ lock' = LockAfter(c)
  /\ counted' = IF pc[c] = "remove" THEN counted \ {c} ELSE counted
  /\ Goto(c, "gone")
  /\ UNCHANGED <<exists, log, calls, cache, seen, answers>>

-----------------------------------------------------------------------------

Step(c) == /\ \/ JoinRead(c) \/ JoinWrite(c)
              \/ Set(c) \/ DeleteKey(c) \/ Get(c) \/ Wait(c)
              \/ AddRead(c) \/ AddWrite(c) \/ CompareSetRead(c) \/ CompareSetWrite(c)
              \/ Cleanup(c) \/ RemoveFile(c) \/ ScanFails(c) \/ ScanCaught(c)
           /\ UNCHANGED signals

Interrupt(c) == \/ \E s \in signals \cap {"int", "term"} : Signal(c, s) \/ SignalFails(c)
                \/ "kill" \in signals /\ Kill(c)

Next == \E c \in Clients :
          Step(c) \/ ((Timeout(c) \/ Interrupt(c)) /\ UNCHANGED signals)

\* Processes run until they are stopped, and the lock is polled; a program that has
\* caught an error may never use the store again.
Spec == Init /\ [][Next]_vars
        /\ \A c \in Clients : WF_vars(pc[c] \notin {"caught", "holding"} /\ Step(c))

-----------------------------------------------------------------------------
(* Properties.                                                              *)

\* Programs in which every deletion finds its key: one process at most deletes a
\* key, each time after it has set it (again).
Deletes(call, k) == call.op = "delete" /\ call.key = k

SetBefore(s, i, k) ==
  \E j \in 1 .. (i - 1) : /\ s[j].op = "set" /\ s[j].key = k
                         /\ \A m \in j .. (i - 1) : ~ Deletes(s[m], k)

Tidy(programs) ==
  \A c \in Clients : \A i \in DOMAIN programs[c] : programs[c][i].op = "delete" =>
    /\ SetBefore(programs[c], i, programs[c][i].key)
    /\ \A d \in Clients \ {c} : \A j \in DOMAIN programs[d] :
         ~ Deletes(programs[d][j], programs[c][i].key)

Using == {c \in Clients : Ready(c) \/ pc[c] \in {"add", "compare_set", "exit", "remove"}}

\* The internal entry counts the processes that use the store (class comment),
\* when none is stopped by a signal, so that the last to leave removes the file.
CountsClients == signals = {} =>
  /\ lock = Nobody /\ Using # {} => exists
  /\ lock = Nobody /\ exists => Contents[Cnt] = Cardinality(Using)
  /\ (\A c \in Clients : pc[c] = "gone") => ~exists

\* What is promised, is promised of processes that are at most killed.  (SIGINT and
\* SIGTERM may count a process out twice, in the handler and at the exit or in the
\* cleanup that the handler interrupts; the file then goes too early.)
Promised == signals \subseteq {"kill"}
Store == INSTANCE KeyValueStore WITH
  Programs <- {p.calls : p \in Plans},
  users    <- IF Promised THEN counted ELSE {},
  contents <- LET held == Contents IN [k \in Keys |-> IF Promised THEN held[k] ELSE Empty],
  calls    <- IF Promised THEN calls ELSE (CHOOSE p \in Plans : TRUE).calls,
  answers  <- IF Promised THEN answers ELSE [c \in Clients |-> <<>>]

\* Every behaviour of the file is one of the store that promises atomic calls,
\* also when processes are killed: no two adds return the same sum, one
\* compare_set at most wins a key, and nothing that was set is lost while a
\* process uses the store.
StoreSpec == Store!Spec

\* A get whose key stays in the store returns: it does not wait forever unless
\* the key is again and again absent.
Waiting(c, k) == Calling(c, "get") /\ Head(calls[c]).key = k
GetReturns == \A c \in Clients, k \in Keys :
  []<>(Waiting(c, k) => Contents[k] = Empty)

\* Whatever happens to the others, a process gets through every call that does not
\* wait for a key, and ends or goes on without the store: no lock is left behind, but
\* by a program that caught the error of a get and still lives.
NobodyStuck == \A c \in Clients :
  []<>(\/ pc[c] \in {"gone", "caught"} \/ Calling(c, "get") \/ Calling(c, "wait")
       \/ \E d \in Clients : pc[d] = "holding")

============================================================================
