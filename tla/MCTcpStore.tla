---------------------------- MODULE MCTcpStore ----------------------------
(* Programs for TcpStore: a server and two clients.                        *)
EXTENDS TcpStore

CONSTANTS k1, k2, p1, p2, p3

Do(op, k, v) == [op |-> op, key |-> k, value |-> v]

\* init_process_group: the server publishes the id and the others get it.
Joining == {[c \in Clients |-> IF c = Server THEN <<Do("set", k1, 7)>> ELSE <<Do("get", k1, 0)>>]}

\* Clients that set, add to, wait for and get keys, with each other and the server.
Sharing ==
  {[c \in Clients |-> IF c = Server THEN s ELSE IF c = p2 THEN a ELSE b] :
     s \in {<<Do("set", k1, 1), Do("add", k2, 1)>>, <<Do("wait", k2, 0), Do("set", k1, 3)>>},
     a \in {<<Do("add", k2, 2), Do("get", k1, 0)>>, <<Do("set", k2, 5), Do("wait", k1, 0)>>},
     b \in {<<Do("wait", k2, 0), Do("add", k2, 4)>>, <<Do("get", k1, 0), Do("set", k1, 6)>>}}

Plan(scripts, meet, bound) == [calls |-> scripts, collective |-> meet, timeouts |-> bound]

\* Processes that are never late, or of which up to two reads give up.
MCPlans == {Plan(p, TRUE, 0) : p \in Joining \cup Sharing} \cup {Plan(p, FALSE, 2) : p \in Sharing}

\* What the proof that TcpStore refines KeyValueStore assumes of the plans.
ASSUME PlansAreOrderly == Orderly
===========================================================================
