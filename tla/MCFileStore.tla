---------------------------- MODULE MCFileStore ----------------------------
(***************************************************************************)
(* Programs for FileStore: a process publishes a key and may delete it     *)
(* again, the others read, wait for, add to or compare and set keys.       *)
(***************************************************************************)
EXTENDS FileStore

CONSTANTS k1, k2, p1, p2, p3, empty

MCClients == {p1, p2, p3}
MCKeys    == {k1, k2}

Call(op, k, v)    == [op |-> op, key |-> k, value |-> v, expected |-> Empty]
Swap(k, e, v)     == [op |-> "compare_set", key |-> k, value |-> v, expected |-> e]

\* Only the process that wrote a key deletes it, once.
Publishes == {<<Call("set", k1, 1), Call("delete", k1, 1)>>,
              <<Call("add", k1, 1), Swap(k2, Empty, 1)>>,
              <<Swap(k2, Empty, 1), Call("set", k1, 3)>>}
Reads     == <<<<Call("get", k1, 1)>>,
               <<Call("wait", k1, 1), Call("add", k1, 2)>>,
               <<Swap(k2, Empty, 2), Call("get", k2, 1)>>>>

Sharing == {[c \in MCClients |-> IF c = p1 THEN a ELSE IF c = p2 THEN Reads[i] ELSE Reads[j]] :
              a \in Publishes, <<i, j>> \in {<<1, 2>>, <<2, 3>>}}

\* A process that publishes a key and others that wait for it.
Publishing == {[c \in MCClients |-> CASE c = p1 -> <<Call("add", k2, 1), Call("set", k1, 2)>>
                                      [] c = p2 -> <<Call("get", k1, 1), Call("get", k2, 1)>>
                                      [] c = p3 -> <<Call("wait", k1, 1), Swap(k2, 1, 3)>>]}

\* Two processes delete the same key: later scans raise, in a call that takes the
\* lock with "with" and in get.
Removing == {[c \in MCClients |->
                CASE c = p1 -> <<Call("set", k1, 1), Call("delete", k1, 1)>>
                  [] c = p2 -> <<Call("delete", k1, 1), Call("add", k2, 1), Call("get", k2, 1)>>
                  [] c = p3 -> <<>>]}

Plan(who, scripts, stops) == [clients |-> who, calls |-> scripts, signals |-> stops]

MCPlans == {Plan(MCClients, p, {}) : p \in Sharing}
           \cup {Plan(MCClients, p, {"kill"}) : p \in Publishing}
           \cup {Plan({p1, p2}, p, {"int", "term", "kill"}) : p \in Removing}

\* What the proofs about FileStore assume of the plans they are about.
ASSUME PromisedPlansAreTidy ==
  \A p \in MCPlans : p.signals \subseteq {"kill"} => Tidy(p.calls)
============================================================================
