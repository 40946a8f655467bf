----------------------------- MODULE TcpStore -----------------------------
(***************************************************************************)
(* TCPStore (distributed/store.py): one process, the server, keeps the     *)
(* dictionary; the other clients send it requests, each over its own       *)
(* connection, served by a thread of its own.  init_process_group then     *)
(* creates the NCCL communicator, which waits for every process, and shuts *)
(* the store down.                                                         *)
(*                                                                         *)
(* A connection carries bytes, so nothing ties a reply to its request: a   *)
(* client that gives up on a reply finds it in front of the next one.  A   *)
(* reply is one token, or two for GET (the length of the value, the value).*)
(* Requests are short enough to arrive whole.                              *)
(***************************************************************************)
EXTENDS Integers, Sequences, FiniteSets

CONSTANTS Clients, Server, Keys, Empty,
          Garbled,     \* a value with the bytes of a later request in it
          Plans,       \* what the clients may do: their calls, whether they then
                       \* meet, and (a bound) how many reads and waits give up
          WorldSize    \* the argument of every constructor

WorkerCount == "worker_count"
Names   == Keys \cup {WorkerCount}
Remotes == Clients \ {Server}

ASSUME TcpStoreAssumption == WorkerCount \notin Keys /\ Server \in Clients

\* Values are numbers; what is empty or garbled is none.
StoreCall == [op : {"set", "add", "get", "wait"}, key : Keys, value : Int]

ASSUME PlansAssumption ==
  /\ Empty \notin Int /\ Garbled \notin Int /\ Empty # Garbled
  /\ \A p \in Plans : p.calls \in [Clients -> Seq(StoreCall)]

VARIABLES up,        \* the server: "no", "yes", "closed"
          data,      \* TCPStore._store of the server
          pc,        \* where each process is
          plan,      \* the plan they follow
          answers,   \* what its calls returned so far
          requests,  \* what it sent and the server has not read
          replies,   \* what the server sent and it has not read
          late,      \* it has given up on a reply (history)
          timeouts   \* bound counter

vars == <<up, data, pc, plan, answers, requests, replies, late, timeouts>>

Init ==
  /\ up = "no"
  /\ data = [k \in Names |-> Empty]
  /\ pc = [c \in Clients |-> "start"]
  /\ plan \in Plans
  /\ answers = [c \in Clients |-> <<>>]
  /\ requests = [c \in Clients |-> <<>>]
  /\ replies = [c \in Clients |-> <<>>]
  /\ late = [c \in Clients |-> FALSE]
  /\ timeouts = 0

Goto(c, label) == pc' = [pc EXCEPT ![c] = label]

\* The call a process is at, and its end.
Calling(c)   == Len(answers[c]) < Len(plan.calls[c])
Call(c)      == plan.calls[c][Len(answers[c]) + 1]
Finish(c, a) == answers' = [answers EXCEPT ![c] = Append(@, a)] /\ Goto(c, "ready")

Sum(held, amount) == (IF held = Empty THEN 0 ELSE held) + amount

-----------------------------------------------------------------------------
(* The server.                                                              *)

\* _start_server, then the server's own share of worker_count.
Listen ==
  /\ pc[Server] = "start"
  /\ up' = "yes" /\ Goto(Server, "join")
  /\ UNCHANGED <<data, plan, answers, requests, replies, late, timeouts>>

ServerJoin ==
  /\ pc[Server] = "join"
  /\ data' = [data EXCEPT ![WorkerCount] = Sum(@, 1)]
  /\ Goto(Server, IF Sum(data[WorkerCount], 1) <= WorldSize THEN "ready" ELSE "failed")
  /\ UNCHANGED <<up, plan, answers, requests, replies, late, timeouts>>

\* The server's own calls go to the dictionary, under its lock; get does not wait.
OwnCall ==
  LET call == Call(Server)
      held == data[call.key]
  IN  /\ pc[Server] = "ready" /\ Calling(Server)
      /\ CASE call.op = "set" -> /\ data' = [data EXCEPT ![call.key] = call.value]
                                 /\ Finish(Server, Empty)
           [] call.op = "add" /\ held = Garbled -> Goto(Server, "failed") /\ UNCHANGED <<data, answers>>
           [] call.op = "add" /\ held # Garbled ->
                                 /\ data' = [data EXCEPT ![call.key] = Sum(held, call.value)]
                                 /\ Finish(Server, Sum(held, call.value))
           [] call.op = "get" -> Finish(Server, held) /\ UNCHANGED data
           [] call.op = "wait" -> held # Empty /\ Finish(Server, Empty) /\ UNCHANGED data
      /\ UNCHANGED <<up, plan, requests, replies, late, timeouts>>

Token(kind, value) == [kind |-> kind, value |-> value]
Ack      == Token("one", Empty)   \* b'\x01'
NotReady == Token("one", Empty)   \* and so is NOT_READY
Ready    == Token("zero", Empty)  \* b'\x00'

Reply(c, tokens) == replies' = [replies EXCEPT ![c] = @ \o tokens]
Read(c, n) == requests' = [requests EXCEPT ![c] = SubSeq(@, n + 1, Len(@))]

\* Mutant: the answers are swapped.
CheckedSwapped(key) == IF data[key] # Empty THEN NotReady ELSE Ready

Checked(key) == IF data[key] # Empty THEN Ready ELSE NotReady

\* One request in _handle_client.  The value of a SET is whatever has arrived, so
\* it takes in the requests of a client that did not wait for its reply.
Serve(c) ==
  LET request == Head(requests[c])
      key     == request.key
  IN  /\ up = "yes" /\ requests[c] # <<>>
      /\ CASE request.op = "validate" -> Reply(c, <<Ack>>) /\ Read(c, 1) /\ UNCHANGED data
           [] request.op = "set" ->
                \E n \in 1 .. Len(requests[c]) :
                  /\ data' = [data EXCEPT ![key] = IF n = 1 THEN request.value ELSE Garbled]
                  /\ Read(c, n) /\ Reply(c, <<Ack>>)
           [] request.op = "add" ->
                /\ data[key] # Garbled
                /\ data' = [data EXCEPT ![key] = Sum(@, request.value)]
                /\ Read(c, 1) /\ Reply(c, <<Token("number", Sum(data[key], request.value))>>)
           [] request.op = "check" -> Reply(c, <<Checked(key)>>) /\ Read(c, 1) /\ UNCHANGED data
           [] request.op = "get" ->
                /\ Reply(c, IF data[key] = Empty THEN <<Token("length", 0)>>
                            ELSE <<Token("length", 1), Token("value", data[key])>>)
                /\ Read(c, 1) /\ UNCHANGED data
      /\ UNCHANGED <<up, pc, plan, answers, late, timeouts>>

\* The thread of a connection ends with the server, or when it cannot add.
HandlerEnded(c) ==
  \/ up = "closed"
  \/ requests[c] # <<>> /\ Head(requests[c]).op = "add" /\ data[Head(requests[c]).key] = Garbled

-----------------------------------------------------------------------------
(* The other clients.                                                       *)

Send(c, op, call) ==
  requests' = [requests EXCEPT ![c] = Append(@, [op |-> op, key |-> call.key, value |-> call.value])]

Self == [key |-> WorkerCount, value |-> 1]

\* _connect_to_server, once the server listens.
Connect(c) ==
  /\ pc[c] = "start" /\ up = "yes"
  /\ Send(c, "validate", Self) /\ Goto(c, "validate")
  /\ UNCHANGED <<up, data, plan, answers, replies, late, timeouts>>

\* recv(4096) returns the tokens that have arrived, one or more.
Received(c) == {SubSeq(replies[c], 1, n) : n \in 1 .. Len(replies[c])}
Receive(c, tokens) ==
  replies' = [replies EXCEPT ![c] = SubSeq(@, Len(tokens) + 1, Len(@))]
One(tokens, kind) == Len(tokens) = 1 /\ tokens[1].kind = kind

Validated(c) ==
  /\ pc[c] = "validate"
  /\ \E tokens \in Received(c) :
       /\ Receive(c, tokens)
       /\ IF One(tokens, "one") THEN Send(c, "add", Self) /\ Goto(c, "join")
          ELSE UNCHANGED requests /\ Goto(c, "failed")
  /\ UNCHANGED <<up, data, plan, answers, late, timeouts>>

Joined(c) ==
  /\ pc[c] = "join"
  /\ \E tokens \in Received(c) :
       /\ Receive(c, tokens)
       /\ Goto(c, IF One(tokens, "number") /\ tokens[1].value <= WorldSize THEN "ready" ELSE "failed")
  /\ UNCHANGED <<up, data, plan, answers, requests, late, timeouts>>

\* A request that asks at once, or the first CHECK of wait and get.
Ask(c) ==
  /\ c # Server /\ pc[c] = "ready" /\ Calling(c) /\ up = "yes"
  /\ IF Call(c).op \in {"set", "add"} THEN Send(c, Call(c).op, Call(c)) /\ Goto(c, "sent")
     ELSE Send(c, "check", Call(c)) /\ Goto(c, "poll")
  /\ UNCHANGED <<up, data, plan, answers, replies, late, timeouts>>

\* set does not look at what it receives.
SetReturns(c) ==
  /\ pc[c] = "sent" /\ Call(c).op = "set"
  /\ \E tokens \in Received(c) : Receive(c, tokens) /\ Finish(c, Empty)
  /\ UNCHANGED <<up, data, plan, requests, late, timeouts>>

AddReturns(c) ==
  /\ pc[c] = "sent" /\ Call(c).op = "add"
  /\ \E tokens \in Received(c) :
       /\ Receive(c, tokens)
       /\ IF One(tokens, "number") THEN Finish(c, tokens[1].value)
          ELSE Goto(c, "failed") /\ UNCHANGED answers
  /\ UNCHANGED <<up, data, plan, requests, late, timeouts>>

\* One round of wait: again after NOT_READY, else the end of wait or get's GET.
Polled(c) ==
  /\ pc[c] = "poll"
  /\ \E tokens \in Received(c) :
       /\ Receive(c, tokens)
       /\ CASE One(tokens, "one") -> Goto(c, "ready") /\ UNCHANGED <<answers, requests>>
            [] One(tokens, "zero") /\ Call(c).op = "wait" -> Finish(c, Empty) /\ UNCHANGED requests
            [] One(tokens, "zero") /\ Call(c).op = "get" ->
                 Send(c, "get", Call(c)) /\ Goto(c, "fetch") /\ UNCHANGED answers
            [] OTHER -> Goto(c, "failed") /\ UNCHANGED <<answers, requests>>
  /\ UNCHANGED <<up, data, plan, late, timeouts>>

\* recv(4), then recv(length).
LengthRead(c) ==
  LET first == Head(replies[c])
  IN  /\ pc[c] = "fetch" /\ replies[c] # <<>>
      /\ replies' = [replies EXCEPT ![c] = Tail(@)]
      /\ IF first.kind # "length" THEN Goto(c, "failed") /\ UNCHANGED answers
         ELSE IF first.value = 0 THEN Finish(c, Empty)
         ELSE Goto(c, "value") /\ UNCHANGED answers
      /\ UNCHANGED <<up, data, plan, requests, late, timeouts>>

ValueRead(c) ==
  /\ pc[c] = "value" /\ replies[c] # <<>>
  /\ replies' = [replies EXCEPT ![c] = Tail(@)]
  /\ Finish(c, Head(replies[c]).value)
  /\ UNCHANGED <<up, data, plan, requests, late, timeouts>>

\* A read that gives up, or finds the connection closed, is an empty one to
\* set, and an error to every other call.
EmptyRead(c) ==
  /\ pc[c] \in {"validate", "join", "sent", "poll", "fetch", "value"}
  /\ IF pc[c] = "sent" /\ Call(c).op = "set" THEN Finish(c, Empty)
     ELSE Goto(c, "failed") /\ UNCHANGED answers
  /\ late' = [late EXCEPT ![c] = TRUE]
  /\ UNCHANGED <<up, data, plan, requests, replies>>

TimeOut(c) ==
  /\ timeouts < plan.timeouts /\ timeouts' = timeouts + 1
  /\ EmptyRead(c)

Closed(c) ==
  /\ HandlerEnded(c) /\ replies[c] = <<>> /\ UNCHANGED timeouts
  /\ EmptyRead(c)

\* The server is not there in time, or has gone; wait has waited long enough.
GiveUp(c) ==
  /\ c # Server
  /\ \/ pc[c] = "start" /\ up # "yes"
     \/ pc[c] = "ready" /\ Calling(c) /\ Call(c).op \in {"get", "wait"}
     \/ pc[c] = "ready" /\ Calling(c) /\ up = "closed"
  /\ IF up = "closed" THEN UNCHANGED timeouts
     ELSE timeouts < plan.timeouts /\ timeouts' = timeouts + 1
  /\ Goto(c, "failed")
  /\ UNCHANGED <<up, data, plan, answers, requests, replies, late>>

-----------------------------------------------------------------------------
(* The end.                                                                 *)

\* create_comm returns in no process before every process has called it.
Meet(c) ==
  /\ pc[c] = "ready" /\ ~Calling(c) /\ plan.collective
  /\ Goto(c, "comm")
  /\ UNCHANGED <<up, data, plan, answers, requests, replies, late, timeouts>>

Met == \A c \in Clients : pc[c] \in {"comm", "closed"}

\* Mutant: the store is shut down before the processes have met.
ThroughAlone(c) == pc[c] = "ready" /\ ~Calling(c)

Through(c) == IF plan.collective THEN pc[c] = "comm" /\ Met ELSE pc[c] = "ready" /\ ~Calling(c)

\* shutdown: the server stops reading requests; replies on their way arrive.
Shutdown(c) ==
  /\ Through(c)
  /\ up' = IF c = Server THEN "closed" ELSE up
  /\ Goto(c, "closed")
  /\ UNCHANGED <<data, plan, answers, requests, replies, late, timeouts>>

Step(c) == \/ Connect(c) \/ Validated(c) \/ Joined(c) \/ Ask(c)
           \/ SetReturns(c) \/ AddReturns(c) \/ Polled(c)
           \/ LengthRead(c) \/ ValueRead(c) \/ Closed(c)

Next == \/ Listen \/ ServerJoin \/ OwnCall
        \/ \E c \in Remotes : Serve(c) \/ Step(c) \/ TimeOut(c) \/ GiveUp(c)
        \/ \E c \in Clients : Meet(c) \/ Shutdown(c)

\* Threads of the server and processes run on; a wait polls until it gives up.
Spec == /\ Init /\ [][Next]_vars
        /\ WF_vars(Listen) /\ WF_vars(ServerJoin) /\ WF_vars(OwnCall)
        /\ \A c \in Clients : /\ WF_vars(Serve(c)) /\ WF_vars(Step(c))
                              /\ WF_vars(Meet(c)) /\ WF_vars(Shutdown(c))

-----------------------------------------------------------------------------
(* Properties.                                                              *)

\* What is promised, is promised of plans in which no read gives up.
Promised == plan.timeouts = 0
CarriedOut(c) ==
  /\ c # Server /\ requests[c] = <<>>
  /\ \/ pc[c] = "sent" \/ pc[c] = "value"
     \/ pc[c] = "fetch" /\ replies[c] # <<>>
     \/ pc[c] = "poll" /\ replies[c] = <<Ready>> /\ Call(c).op = "wait"
OnItsWay(c) ==
  LET final == replies[c][Len(replies[c])]
  IN  IF Call(c).op \in {"set", "wait"} THEN Empty ELSE final.value
Answered(c) == IF ~Promised THEN <<>>
               ELSE IF CarriedOut(c) THEN Append(answers[c], OnItsWay(c)) ELSE answers[c]

Store == INSTANCE KeyValueStore WITH
  Programs <- {p.calls : p \in Plans},
  users    <- {c \in Clients : Promised /\ pc[c] # "start"},
  contents <- [k \in Keys |-> IF Promised THEN data[k] ELSE Empty],
  calls    <- [c \in Clients |-> SubSeq(plan.calls[c], Len(Answered(c)) + 1, Len(plan.calls[c]))],
  answers  <- [c \in Clients |-> Answered(c)]

\* Plans that give up no read in which all processes meet before the first shuts the
\* store down, and in which the server does not get: its own get waits for nothing.
Orderly == \A p \in Plans : p.timeouts = 0 =>
  /\ p.collective
  /\ \A i \in DOMAIN p.calls[Server] : p.calls[Server][i].op # "get"

\* Every behaviour of the server and its clients is one of the store that
\* promises atomic calls, when no read gives up: a call that the server has
\* carried out is made, although its client has not read the reply.
StoreSpec == Store!Spec

\* The calls that return when their key is there: the server's own get is not one.
Awaiting(c) == IF c = Server THEN {"wait"} ELSE {"wait", "get"}
Made(c, ops) == {i \in 1 .. Len(answers[c]) : plan.calls[c][i].op \in ops}

\* A wait or a get of a client that never gave up on a reply returns when its key
\* is there and not before, whatever happened on the other connections.  (Nothing
\* of the kind holds of the client that did: it reads the answers of its earlier
\* requests from then on.)
WaitsAreTrue == \A c \in Clients : ~late[c] =>
  \A i \in Made(c, Awaiting(c)) : data[plan.calls[c][i].key] # Empty

\* The group forms: when all meet before the first shuts the store down and no
\* read gives up, every process gets through its calls and the meeting, and none
\* fails because it finds the store closed.
GroupForms == plan.collective /\ Promised => <>[](\A c \in Clients : pc[c] = "closed")

=============================================================================
