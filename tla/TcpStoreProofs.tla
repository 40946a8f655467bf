--------------------------- MODULE TcpStoreProofs ---------------------------
(***************************************************************************)
(* Proofs about the TCP store, for any clients, plans and numbers of reads *)
(* that give up.  Between a client that never gave up on a reply and the   *)
(* server there is at any time its one request or the one reply to it, so  *)
(* that it cannot take another reply for its own, whatever the others do.  *)
(* When no read gives up, what is there is known to the byte, and the      *)
(* store is one of atomic calls: a call takes effect when it is served.    *)
(***************************************************************************)
EXTENDS TcpStore, SequenceTheorems, TLAPS

USE TcpStoreAssumption, PlansAssumption

Values  == Int \cup {Empty, Garbled}
Tokens  == [kind : {"one", "zero", "number", "length", "value"}, value : Values]
Request == [op : {"validate", "set", "add", "check", "get"}, key : Names, value : Int]
Sent    == {r \in Request : r.op = "set" => r.key \in Keys}
Labels  == {"start", "validate", "join", "ready", "sent", "poll", "fetch", "value",
            "failed", "comm", "closed"}
InCall  == {"sent", "poll", "fetch", "value"}

Typed ==
  /\ plan \in Plans
  /\ data \in [Names -> Values] /\ data[WorkerCount] # Garbled
  /\ pc \in [Clients -> Labels]
  /\ answers \in [Clients -> Seq(Values)]
  /\ requests \in [Clients -> Seq(Sent)]
  /\ replies \in [Clients -> Seq(Tokens)]
  /\ late \in [Clients -> BOOLEAN]
  /\ \A c \in Clients : pc[c] \in InCall => c # Server /\ Calling(c)

Filled(k) == k \in Names /\ data[k] # Empty

\* What is on the way between the server and a client that waits for a reply, ...
Exchange(c) ==
  /\ pc[c] \in {"start", "ready"} => requests[c] = <<>> /\ replies[c] = <<>>
  /\ pc[c] \in {"validate", "join", "sent", "poll"} =>
       \/ Len(requests[c]) = 1 /\ requests[c][1].op # "get" /\ replies[c] = <<>>
       \/ requests[c] = <<>> /\ Len(replies[c]) = 1
  /\ pc[c] = "fetch" =>
       \/ Len(requests[c]) = 1 /\ requests[c][1].op = "get" /\ replies[c] = <<>>
       \/ requests[c] = <<>> /\ Len(replies[c]) = 2 /\ replies[c][1].value = 1
  /\ pc[c] = "value" => requests[c] = <<>> /\ Len(replies[c]) = 1

\* ... and what it says of the key that the client waits for.
Meaning(c) ==
  /\ pc[c] = "poll" =>
       /\ requests[c] # <<>> => requests[c][1].op = "check" /\ requests[c][1].key = Call(c).key
       /\ replies[c] # <<>> /\ replies[c][1].kind = "zero" => Filled(Call(c).key)
  /\ pc[c] \in {"fetch", "value"} => Filled(Call(c).key)
  /\ pc[c] = "fetch" /\ requests[c] # <<>> => requests[c][1].key = Call(c).key

Polite == \A c \in Remotes : ~ late[c] => Exchange(c) /\ Meaning(c)

Truthful == \A c \in Clients : ~ late[c] =>
  \A i \in Made(c, Awaiting(c)) : Filled(plan.calls[c][i].key)

IInv == Typed /\ Polite /\ Truthful

-----------------------------------------------------------------------------
(* Types.                                                                   *)

LEMMA NamesType == Keys \subseteq Names /\ WorkerCount \in Names /\ 0 \in Values /\ Int \subseteq Values
BY DEF Names, Values

LEMMA CallType ==
  ASSUME Typed, NEW c \in Clients, Calling(c)
  PROVE  Call(c) \in StoreCall
<1>1. plan.calls \in [Clients -> Seq(StoreCall)] /\ answers[c] \in Seq(Values)  BY DEF Typed
<1>2. Len(answers[c]) + 1 \in 1 .. Len(plan.calls[c])
  BY <1>1 DEF Calling
<1> QED  BY <1>1, <1>2 DEF Call

LEMMA SumType ==
  ASSUME NEW held \in Values, held # Garbled, NEW amount \in Int
  PROVE  Sum(held, amount) \in Int
BY DEF Sum, Values

\* A part of a sequence from some place on.
LEMMA RestType ==
  ASSUME NEW S, NEW s \in Seq(S), NEW n \in 1 .. Len(s)
  PROVE  /\ SubSeq(s, n + 1, Len(s)) \in Seq(S)
         /\ n = Len(s) => SubSeq(s, n + 1, Len(s)) = <<>>
<1>1. Len(s) \in Nat  OBVIOUS
<1>2. SubSeq(s, n + 1, Len(s)) \in Seq(S)
  BY <1>1, SubSeqProperties
<1> QED  BY <1>1, <1>2, SubSeqProperties, EmptySeq

LEMMA FirstType ==
  ASSUME NEW S, NEW s \in Seq(S), NEW n \in 1 .. Len(s)
  PROVE  /\ SubSeq(s, 1, n) \in Seq(S) /\ Len(SubSeq(s, 1, n)) = n
         /\ SubSeq(s, 1, n)[1] = s[1] /\ s[1] \in S
<1>1. Len(s) \in Nat  OBVIOUS
<1> QED  BY <1>1, SubSeqProperties

-----------------------------------------------------------------------------
(* What a step of a client may do.                                          *)

Moves(c) ==
  \/ UNCHANGED <<pc, answers>>
  \/ /\ answers' = answers
     /\ \E label \in Labels : /\ Goto(c, label)
                              /\ label \in InCall => c # Server /\ Calling(c)
  \/ \E a \in Values : Finish(c, a)

Sends(c) == \/ requests' = requests
            \/ \E r \in Sent : requests' = [requests EXCEPT ![c] = Append(@, r)]

Reads(c) == \/ replies' = replies
            \/ \E n \in 1 .. Len(replies[c]) :
                 replies' = [replies EXCEPT ![c] = SubSeq(@, n + 1, Len(@))]

Acts(c) == /\ plan' = plan
           /\ Moves(c) /\ Sends(c) /\ Reads(c)
           /\ late' = late \/ late' = [late EXCEPT ![c] = TRUE]

LEMMA SendSends ==
  ASSUME NEW c \in Clients, NEW call, call.key \in Names, call.value \in Int,
         NEW op \in {"validate", "set", "add", "check", "get"},
         op = "set" => call.key \in Keys, Send(c, op, call)
  PROVE  Sends(c)
<1> DEFINE r == [op |-> op, key |-> call.key, value |-> call.value]
<1>1. r \in Sent  BY DEF Sent, Request
<1>2. requests' = [requests EXCEPT ![c] = Append(@, r)]  BY DEF Send
<1> QED  BY <1>1, <1>2 DEF Sends

LEMMA ReceiveReads ==
  ASSUME Typed, NEW c \in Clients, NEW tokens \in Received(c), Receive(c, tokens)
  PROVE  Reads(c) /\ tokens # <<>> /\ tokens[1] = replies[c][1] /\ tokens[1].value \in Values
<1>1. PICK n \in 1 .. Len(replies[c]) : tokens = SubSeq(replies[c], 1, n)  BY DEF Received
<1>2. replies[c] \in Seq(Tokens)  BY DEF Typed
<1>3. Len(tokens) = n /\ tokens[1] = replies[c][1] /\ replies[c][1] \in Tokens
  BY <1>1, <1>2, FirstType
<1>4. Reads(c)  BY <1>3 DEF Reads, Receive
<1> QED  BY <1>3, <1>4 DEF Tokens

LEMMA TailReads ==
  ASSUME Typed, NEW c \in Clients, replies[c] # <<>>,
         replies' = [replies EXCEPT ![c] = Tail(@)]
  PROVE  Reads(c) /\ Head(replies[c]) = replies[c][1] /\ Head(replies[c]) \in Tokens
<1>1. replies[c] \in Seq(Tokens)  BY DEF Typed
<1>2. Tail(replies[c]) = SubSeq(replies[c], 1 + 1, Len(replies[c]))  BY <1>1, TailIsSubSeq
<1>3. 1 \in 1 .. Len(replies[c])  BY <1>1, EmptySeq
<1>4. Reads(c)  BY <1>2, <1>3 DEF Reads
<1> QED  BY <1>1, <1>4, HeadTailProperties

LEMMA LabelTypes ==
  /\ \A label \in {"start", "validate", "join", "ready", "failed", "comm", "closed"} :
       label \in Labels /\ label \notin InCall
  /\ InCall \subseteq Labels /\ Empty \in Values
BY DEF Labels, InCall, Values

LEMMA StepActs ==
  ASSUME Typed, NEW c \in Remotes, Step(c)
  PROVE  Acts(c) /\ data' = data
<1>1. c \in Clients /\ c # Server  BY DEF Remotes
<1>2. Self.key \in Names /\ Self.value \in Int  BY NamesType DEF Self
<1>3. pc[c] \in InCall => Calling(c)  BY <1>1 DEF Typed
<1>4. Calling(c) => Call(c) \in StoreCall  BY <1>1, CallType
<1>5. CASE Connect(c)
  <2>1. Sends(c)  BY <1>1, <1>2, <1>5, SendSends DEF Connect
  <2>2. Moves(c)  BY <1>5, LabelTypes DEF Connect, Moves
  <2> QED  BY <1>5, <2>1, <2>2 DEF Acts, Connect, Reads
<1>6. CASE Validated(c)
  <2>1. Reads(c)  BY <1>1, <1>6, ReceiveReads DEF Validated
  <2>2. Send(c, "add", Self) \/ requests' = requests  BY <1>6 DEF Validated
  <2>3. Sends(c)  BY <1>1, <1>2, <2>2, SendSends DEF Sends
  <2>4. Moves(c)  BY <1>6, LabelTypes DEF Validated, Moves
  <2> QED  BY <1>6, <2>1, <2>3, <2>4 DEF Acts, Validated
<1>7. CASE Joined(c)
  <2>1. Reads(c)  BY <1>1, <1>7, ReceiveReads DEF Joined
  <2>2. Moves(c)  BY <1>7, LabelTypes DEF Joined, Moves
  <2> QED  BY <1>7, <2>1, <2>2 DEF Acts, Joined, Sends
<1>8. CASE Ask(c)
  <2>1. Call(c) \in StoreCall  BY <1>4, <1>8 DEF Ask
  <2>2. Call(c).key \in Keys /\ Call(c).key \in Names /\ Call(c).value \in Int
    BY <2>1, NamesType DEF StoreCall
  <2>3. PICK op \in {"set", "add", "check"} : Send(c, op, Call(c))  BY <1>8 DEF Ask
  <2>4. Sends(c)  BY <1>1, <2>2, <2>3, SendSends
  <2>5. Moves(c)  BY <1>1, <1>8, LabelTypes DEF Ask, Moves, InCall
  <2> QED  BY <1>8, <2>4, <2>5 DEF Acts, Ask, Reads
<1>9. CASE SetReturns(c)
  <2>1. Reads(c)  BY <1>1, <1>9, ReceiveReads DEF SetReturns
  <2>2. Moves(c)  BY <1>9, LabelTypes DEF SetReturns, Moves
  <2> QED  BY <1>9, <2>1, <2>2 DEF Acts, SetReturns, Sends
<1>10. CASE AddReturns(c)
  <2>1. Reads(c)  BY <1>1, <1>10, ReceiveReads DEF AddReturns
  <2>2. Moves(c)  BY <1>1, <1>10, ReceiveReads, LabelTypes DEF AddReturns, Moves
  <2> QED  BY <1>10, <2>1, <2>2 DEF Acts, AddReturns, Sends
<1>11. CASE Polled(c)
  <2>1. Reads(c)  BY <1>1, <1>11, ReceiveReads DEF Polled
  <2>2. Calling(c) /\ Call(c).key \in Names /\ Call(c).value \in Int
    BY <1>3, <1>4, <1>11, NamesType DEF Polled, InCall, StoreCall
  <2>3. Send(c, "get", Call(c)) \/ requests' = requests  BY <1>11 DEF Polled
  <2>4. Sends(c)  BY <1>1, <2>2, <2>3, SendSends DEF Sends
  <2>5. Moves(c)  BY <1>1, <1>11, <2>2, LabelTypes DEF Polled, Moves, InCall
  <2> QED  BY <1>11, <2>1, <2>4, <2>5 DEF Acts, Polled
<1>12. CASE LengthRead(c)
  <2>1. Reads(c)  BY <1>1, <1>12, TailReads DEF LengthRead
  <2>2. Calling(c)  BY <1>3, <1>12 DEF LengthRead, InCall
  <2>3. Moves(c)  BY <1>1, <1>12, <2>2, LabelTypes DEF LengthRead, Moves, InCall
  <2> QED  BY <1>12, <2>1, <2>3 DEF Acts, LengthRead, Sends
<1>13. CASE ValueRead(c)
  <2>1. Reads(c) /\ Head(replies[c]).value \in Values
    BY <1>1, <1>13, TailReads DEF ValueRead, Tokens
  <2>2. Moves(c)  BY <1>13, <2>1 DEF ValueRead, Moves
  <2> QED  BY <1>13, <2>1, <2>2 DEF Acts, ValueRead, Sends
<1>14. CASE Closed(c)
  <2>1. Moves(c)  BY <1>14, LabelTypes DEF Closed, EmptyRead, Moves
  <2> QED  BY <1>14, <2>1 DEF Acts, Closed, EmptyRead, Sends, Reads
<1> QED  BY <1>5, <1>6, <1>7, <1>8, <1>9, <1>10, <1>11, <1>12, <1>13, <1>14 DEF Step

LEMMA OtherActs ==
  ASSUME Typed, NEW c \in Clients,
         \/ c # Server /\ (TimeOut(c) \/ GiveUp(c))
         \/ Meet(c) \/ Shutdown(c) \/ (c = Server /\ Listen)
  PROVE  Acts(c) /\ data' = data
<1>1. CASE TimeOut(c)
  <2>1. Moves(c)  BY <1>1, LabelTypes DEF TimeOut, EmptyRead, Moves
  <2> QED  BY <1>1, <2>1 DEF Acts, TimeOut, EmptyRead, Sends, Reads
<1>2. CASE GiveUp(c) \/ Meet(c) \/ Shutdown(c) \/ (c = Server /\ Listen)
  <2>1. Moves(c)  BY <1>2, LabelTypes DEF GiveUp, Meet, Shutdown, Listen, Moves
  <2> QED  BY <1>2, <2>1 DEF Acts, GiveUp, Meet, Shutdown, Listen, Sends, Reads
<1> QED  BY <1>1, <1>2

\* The dictionary keeps its types, and no key is emptied.
Keeps == /\ data' \in [Names -> Values] /\ data'[WorkerCount] # Garbled
         /\ \A k \in Names : data[k] # Empty => data'[k] # Empty

LEMMA PutKeeps ==
  ASSUME Typed, NEW k \in Names, NEW v \in Values, v # Empty, v = Garbled => k # WorkerCount,
         data' = [data EXCEPT ![k] = v]
  PROVE  Keeps
BY DEF Typed, Keeps

LEMMA SameKeeps == ASSUME Typed, data' = data PROVE Keeps
BY DEF Typed, Keeps

LEMMA OwnStep ==
  ASSUME Typed, ServerJoin \/ OwnCall
  PROVE  Acts(Server) /\ Keeps
<1>1. CASE ServerJoin
  <2>1. data[WorkerCount] \in Values /\ data[WorkerCount] # Garbled  BY NamesType DEF Typed
  <2>2. Sum(data[WorkerCount], 1) \in Int  BY <2>1, SumType
  <2>3. data' = [data EXCEPT ![WorkerCount] = Sum(data[WorkerCount], 1)]  BY <1>1 DEF ServerJoin
  <2>4. Keeps  BY <2>2, <2>3, NamesType, PutKeeps DEF Values
  <2>5. Moves(Server)  BY <1>1, LabelTypes DEF ServerJoin, Moves
  <2> QED  BY <1>1, <2>4, <2>5 DEF Acts, ServerJoin, Sends, Reads
<1>2. CASE OwnCall
  <2> DEFINE call == Call(Server)
  <2>1. call \in StoreCall  BY <1>2, CallType DEF OwnCall
  <2>2. /\ call.key \in Names /\ call.key # WorkerCount /\ call.value \in Int /\ call.value \in Values
        /\ call.op \in {"set", "add", "get", "wait"} /\ data[call.key] \in Values
    BY <2>1, NamesType DEF StoreCall, Typed
  <2> HIDE DEF call
  <2>3. Acts(Server) /\ Keeps
    <3>1. CASE call.op = "set"
      <4>1. data' = [data EXCEPT ![call.key] = call.value] /\ Finish(Server, Empty)
        BY <1>2, <3>1 DEF OwnCall, call
      <4>2. Keeps  BY <2>2, <4>1, PutKeeps
      <4> QED  BY <1>2, <4>1, <4>2, LabelTypes DEF Acts, Moves, Sends, Reads, OwnCall
    <3>2. CASE call.op = "add" /\ data[call.key] = Garbled
      <4>1. data' = data /\ answers' = answers /\ Goto(Server, "failed")
        BY <1>2, <3>2 DEF OwnCall, call
      <4> QED  BY <1>2, <4>1, SameKeeps, LabelTypes DEF Acts, Moves, Sends, Reads, OwnCall
    <3>3. CASE call.op = "add" /\ data[call.key] # Garbled
      <4>1. Sum(data[call.key], call.value) \in Int  BY <2>2, <3>3, SumType
      <4>2. /\ data' = [data EXCEPT ![call.key] = Sum(data[call.key], call.value)]
            /\ Finish(Server, Sum(data[call.key], call.value))
        BY <1>2, <3>3 DEF OwnCall, call
      <4>3. Keeps  BY <2>2, <4>1, <4>2, NamesType, PutKeeps
      <4> QED  BY <1>2, <4>1, <4>2, <4>3, NamesType DEF Acts, Moves, Sends, Reads, OwnCall
    <3>4. CASE call.op \in {"get", "wait"}
      <4>1. data' = data /\ (Finish(Server, data[call.key]) \/ Finish(Server, Empty))
        BY <1>2, <3>4 DEF OwnCall, call
      <4> QED  BY <1>2, <2>2, <4>1, SameKeeps, LabelTypes DEF Acts, Moves, Sends, Reads, OwnCall
    <3> QED  BY <2>2, <3>1, <3>2, <3>3, <3>4
  <2> QED  BY <2>3
<1> QED  BY <1>1, <1>2

LEMMA ActsTyped ==
  ASSUME Typed, NEW c \in Clients, Acts(c), Keeps
  PROVE  Typed'
<1>1. plan' \in Plans /\ data' \in [Names -> Values] /\ data'[WorkerCount] # Garbled
  BY DEF Typed, Acts, Keeps
<1>2. late' \in [Clients -> BOOLEAN]  BY DEF Typed, Acts
<1>3. requests' \in [Clients -> Seq(Sent)]
  <2>1. CASE requests' = requests  BY <2>1 DEF Typed
  <2>2. ASSUME NEW r \in Sent, requests' = [requests EXCEPT ![c] = Append(@, r)]
        PROVE  requests' \in [Clients -> Seq(Sent)]
    BY <2>2 DEF Typed
  <2> QED  BY <2>1, <2>2 DEF Acts, Sends
<1>4. replies' \in [Clients -> Seq(Tokens)]
  <2>1. CASE replies' = replies  BY <2>1 DEF Typed
  <2>2. ASSUME NEW n \in 1 .. Len(replies[c]),
               replies' = [replies EXCEPT ![c] = SubSeq(@, n + 1, Len(@))]
        PROVE  replies' \in [Clients -> Seq(Tokens)]
    <3>1. SubSeq(replies[c], n + 1, Len(replies[c])) \in Seq(Tokens)  BY RestType DEF Typed
    <3> QED  BY <2>2, <3>1 DEF Typed
  <2> QED  BY <2>1, <2>2 DEF Acts, Reads
<1>5. /\ pc' \in [Clients -> Labels] /\ answers' \in [Clients -> Seq(Values)]
      /\ \A d \in Clients : pc'[d] \in InCall => d # Server /\ Calling(d)'
  <2>0. plan' = plan  BY DEF Acts
  <2>1. CASE UNCHANGED <<pc, answers>>  BY <2>0, <2>1 DEF Typed, Calling
  <2>2. ASSUME answers' = answers, NEW label \in Labels, Goto(c, label),
               label \in InCall => c # Server /\ Calling(c)
        PROVE  <1>5!:
    <3>1. pc' = [pc EXCEPT ![c] = label]  BY <2>2 DEF Goto
    <3> QED  BY <2>0, <2>2, <3>1 DEF Typed, Calling
  <2>3. ASSUME NEW a \in Values, Finish(c, a)
        PROVE  <1>5!:
    <3>1. /\ pc' = [pc EXCEPT ![c] = "ready"] /\ answers' = [answers EXCEPT ![c] = Append(@, a)]
      BY <2>3 DEF Finish, Goto
    <3>2. pc' \in [Clients -> Labels] /\ answers' \in [Clients -> Seq(Values)]
      BY <3>1, LabelTypes DEF Typed
    <3>3. ASSUME NEW d \in Clients, pc'[d] \in InCall PROVE d # Server /\ Calling(d)'
      <4>1. d # c  BY <3>1, <3>3, LabelTypes DEF Typed
      <4>2. answers'[d] = answers[d] /\ pc'[d] = pc[d]  BY <3>1, <4>1 DEF Typed
      <4> QED  BY <2>0, <3>3, <4>2 DEF Typed, Calling
    <3> QED  BY <3>2, <3>3
  <2>4. CASE /\ answers' = answers
             /\ \E label \in Labels : Goto(c, label) /\ (label \in InCall => c # Server /\ Calling(c))
    <3>1. PICK label \in Labels : Goto(c, label) /\ (label \in InCall => c # Server /\ Calling(c))
      BY <2>4
    <3> QED  BY <2>2, <2>4, <3>1
  <2>5. CASE \E a \in Values : Finish(c, a)  BY <2>3, <2>5
  <2> QED  BY <2>1, <2>4, <2>5 DEF Acts, Moves
<1> QED  BY <1>1, <1>2, <1>3, <1>4, <1>5 DEF Typed

-----------------------------------------------------------------------------
(* The server's threads.                                                    *)

Taken(c) == \E n \in 1 .. Len(requests[c]) :
              requests' = [requests EXCEPT ![c] = SubSeq(@, n + 1, Len(@))]
Put(c)   == \E tokens \in Seq(Tokens) : replies' = [replies EXCEPT ![c] = @ \o tokens]

LEMMA ReadTaken ==
  ASSUME NEW c, NEW n \in 1 .. Len(requests[c]), Read(c, n)
  PROVE  Taken(c)
BY DEF Read, Taken

LEMMA ReplyPut ==
  ASSUME NEW c, NEW token \in Tokens, NEW value \in Tokens,
         Reply(c, <<token>>) \/ Reply(c, <<token, value>>)
  PROVE  Put(c)
<1>1. <<token>> \in Seq(Tokens) /\ <<token, value>> \in Seq(Tokens)  OBVIOUS
<1> QED  BY <1>1 DEF Reply, Put

LEMMA FilledStays == ASSUME Keeps, NEW k, Filled(k) PROVE Filled(k)'
BY DEF Keeps, Filled

LEMMA ServeStep ==
  ASSUME Typed, NEW c \in Remotes, Serve(c)
  PROVE  Keeps /\ UNCHANGED <<plan, pc, answers, late>> /\ Taken(c) /\ Put(c)
<1> DEFINE request == Head(requests[c])
           key     == request.key
<1>1. c \in Clients /\ requests[c] \in Seq(Sent) /\ requests[c] # <<>>  BY DEF Serve, Typed, Remotes
<1>2. request \in Sent  BY <1>1
<1>3. /\ key \in Names /\ request.value \in Int /\ request.value \in Values /\ data[key] \in Values
      /\ request.op \in {"validate", "set", "add", "check", "get"}
      /\ request.op = "set" => key # WorkerCount
  BY <1>2, NamesType DEF Sent, Request, Typed
<1>4. 1 \in 1 .. Len(requests[c])  BY <1>1, EmptySeq
<1>5. UNCHANGED <<plan, pc, answers, late>>  BY DEF Serve
<1>6. \A kind \in {"one", "zero", "number", "length", "value"}, v \in Values : Token(kind, v) \in Tokens
  BY DEF Token, Tokens
<1> HIDE DEF request, key
<1>7. CASE request.op \in {"validate", "check"}
  <2>1. /\ data' = data /\ Read(c, 1)
        /\ Reply(c, <<Ack>>) \/ Reply(c, <<Ready>>) \/ Reply(c, <<NotReady>>)
    BY <1>7 DEF Serve, Checked, request
  <2>2. Ack \in Tokens /\ Ready \in Tokens /\ NotReady \in Tokens
    BY <1>6, LabelTypes DEF Ack, Ready, NotReady
  <2>3. Taken(c)  BY <1>4, <2>1, ReadTaken
  <2>4. Put(c)  BY <2>1, <2>2, ReplyPut
  <2> QED  BY <1>5, <2>1, <2>3, <2>4, SameKeeps
<1>8. CASE request.op = "set"
  <2>1. PICK n \in 1 .. Len(requests[c]) :
          /\ data' = [data EXCEPT ![key] = IF n = 1 THEN request.value ELSE Garbled]
          /\ Read(c, n) /\ Reply(c, <<Ack>>)
    BY <1>8 DEF Serve, request, key
  <2>2. Keeps  BY <1>3, <1>8, <2>1, PutKeeps DEF Values
  <2>3. Ack \in Tokens  BY <1>6, LabelTypes DEF Ack
  <2>4. Taken(c)  BY <2>1, ReadTaken
  <2>5. Put(c)  BY <2>1, <2>3, ReplyPut
  <2> QED  BY <1>5, <2>2, <2>4, <2>5
<1>9. CASE request.op = "add"
  <2>1. /\ data[key] # Garbled /\ data' = [data EXCEPT ![key] = Sum(data[key], request.value)]
        /\ Read(c, 1) /\ Reply(c, <<Token("number", Sum(data[key], request.value))>>)
    BY <1>9 DEF Serve, request, key
  <2>2. Sum(data[key], request.value) \in Int  BY <1>3, <2>1, SumType
  <2>3. Keeps  BY <1>3, <2>1, <2>2, NamesType, PutKeeps
  <2>4. Token("number", Sum(data[key], request.value)) \in Tokens  BY <1>6, <2>2, NamesType
  <2>5. Taken(c)  BY <1>4, <2>1, ReadTaken
  <2>6. Put(c)  BY <2>1, <2>4, ReplyPut
  <2> QED  BY <1>5, <2>3, <2>5, <2>6
<1>10. CASE request.op = "get"
  <2>1. /\ data' = data /\ Read(c, 1)
        /\ \/ Reply(c, <<Token("length", 0)>>)
           \/ Reply(c, <<Token("length", 1), Token("value", data[key])>>)
    BY <1>10 DEF Serve, request, key
  <2>2. /\ Token("length", 0) \in Tokens /\ Token("length", 1) \in Tokens
        /\ Token("value", data[key]) \in Tokens
    BY <1>3, <1>6, NamesType
  <2>3. Taken(c)  BY <1>4, <2>1, ReadTaken
  <2>4. Put(c)  BY <2>1, <2>2, ReplyPut
  <2> QED  BY <1>5, <2>1, <2>3, <2>4, SameKeeps
<1> QED  BY <1>3, <1>7, <1>8, <1>9, <1>10

LEMMA ServeTyped ==
  ASSUME Typed, NEW c \in Remotes, Serve(c)
  PROVE  Typed'
<1>1. Keeps /\ UNCHANGED <<plan, pc, answers, late>> /\ Taken(c) /\ Put(c)  BY ServeStep
<1>2. requests' \in [Clients -> Seq(Sent)]
  <2>1. PICK n \in 1 .. Len(requests[c]) : requests' = [requests EXCEPT ![c] = SubSeq(@, n + 1, Len(@))]
    BY <1>1 DEF Taken
  <2>2. SubSeq(requests[c], n + 1, Len(requests[c])) \in Seq(Sent)
    BY RestType DEF Typed, Remotes
  <2> QED  BY <2>1, <2>2 DEF Typed
<1>3. replies' \in [Clients -> Seq(Tokens)]
  <2>1. PICK tokens \in Seq(Tokens) : replies' = [replies EXCEPT ![c] = @ \o tokens]  BY <1>1 DEF Put
  <2>2. replies[c] \o tokens \in Seq(Tokens)  BY DEF Typed, Remotes
  <2> QED  BY <2>1, <2>2 DEF Typed
<1>4. \A d \in Clients : Calling(d)' <=> Calling(d)  BY <1>1 DEF Calling
<1> QED  BY <1>1, <1>2, <1>3, <1>4 DEF Typed, Keeps

\* The thread of a polite client answers its one request.
LEMMA ServePolite ==
  ASSUME Typed, NEW c \in Remotes, Exchange(c), Meaning(c), Serve(c)
  PROVE  Exchange(c)' /\ Meaning(c)'
<1>1. c \in Clients /\ requests[c] \in Seq(Sent) /\ requests[c] # <<>>  BY DEF Serve, Typed, Remotes
<1>2. PICK request \in Sent : Head(requests[c]) = request /\ requests[c][1] = request  BY <1>1, EmptySeq
<1>0. PICK key \in Names : request.key = key  BY <1>2 DEF Sent, Request
<1>3. Keeps /\ UNCHANGED <<plan, pc, answers, late>> /\ Taken(c)  BY ServeStep
<1>4. pc[c] \in Labels  BY <1>1 DEF Typed
<1>5. CASE pc[c] \in {"failed", "comm", "closed"}
  BY <1>3, <1>5 DEF Exchange, Meaning
<1>6. CASE pc[c] \notin {"failed", "comm", "closed"}
  <2>1. /\ pc[c] \in {"validate", "join", "sent", "poll", "fetch"}
        /\ Len(requests[c]) = 1 /\ replies[c] = <<>>
        /\ pc[c] = "fetch" <=> request.op = "get"
    BY <1>1, <1>2, <1>4, <1>6 DEF Exchange, Labels
  <2>2. requests'[c] = <<>>
    <3>1. PICK n \in 1 .. Len(requests[c]) : requests' = [requests EXCEPT ![c] = SubSeq(@, n + 1, Len(@))]
      BY <1>3 DEF Taken
    <3>2. n = Len(requests[c])  BY <2>1, <3>1
    <3>3. SubSeq(requests[c], n + 1, Len(requests[c])) = <<>>  BY <1>1, <3>2, RestType
    <3> QED  BY <1>1, <3>1, <3>3 DEF Typed
  <2>3. Call(c)' = Call(c)  BY <1>3 DEF Call
  <2>4. CASE pc[c] = "fetch"
    <3>1. key = Call(c).key /\ Filled(key) /\ request.op = "get"
      BY <1>0, <1>1, <1>2, <2>1, <2>4 DEF Meaning
    <3>2. Reply(c, <<Token("length", 1), Token("value", data[key])>>)
      BY <1>0, <1>2, <3>1 DEF Serve, Filled
    <3>3. replies'[c] = <<Token("length", 1), Token("value", data[key])>>
      BY <1>1, <2>1, <3>2 DEF Reply, Typed
    <3>4. Len(replies'[c]) = 2 /\ replies'[c][1].value = 1  BY <3>3 DEF Token
    <3>5. Filled(key)'  BY <1>3, <3>1, FilledStays
    <3> QED  BY <1>3, <2>2, <2>3, <2>4, <3>1, <3>4, <3>5 DEF Exchange, Meaning
  <2>5. CASE pc[c] # "fetch"
    <3>1. /\ request.op \in {"validate", "set", "add", "check"}
          /\ pc[c] = "poll" => request.op = "check" /\ key = Call(c).key
      BY <1>0, <1>1, <1>2, <2>1, <2>5 DEF Meaning, Sent, Request
    <3>2. \E token : Reply(c, <<token>>) /\ (request.op = "check" => token = Checked(key))
      BY <1>0, <1>2, <3>1 DEF Serve
    <3>3. PICK token : replies'[c] = <<token>> /\ (request.op = "check" => token = Checked(key))
      BY <1>1, <2>1, <3>2 DEF Reply, Typed
    <3>4. Len(replies'[c]) = 1 /\ replies'[c][1] = token  BY <3>3
    <3>5. ASSUME pc[c] = "poll", token.kind = "zero" PROVE Filled(key)'
      <4>1. data[key] # Empty  BY <3>1, <3>3, <3>5 DEF Checked, NotReady, Token
      <4>2. Filled(key)  BY <4>1 DEF Filled
      <4> QED  BY <1>3, <4>2, FilledStays
    <3> QED  BY <1>3, <2>1, <2>2, <2>3, <2>5, <3>1, <3>4, <3>5 DEF Exchange, Meaning
  <2> QED  BY <2>4, <2>5
<1> QED  BY <1>5, <1>6

-----------------------------------------------------------------------------
(* The steps of a client.                                                   *)

\* A reply alone on its way is all that is received.
LEMMA ReceiveAll ==
  ASSUME Typed, NEW c \in Clients, Len(replies[c]) = 1,
         NEW tokens \in Received(c), Receive(c, tokens)
  PROVE  replies'[c] = <<>> /\ tokens[1] = replies[c][1]
<1>1. PICK n \in 1 .. Len(replies[c]) : tokens = SubSeq(replies[c], 1, n)  BY DEF Received
<1>2. replies[c] \in Seq(Tokens)  BY DEF Typed
<1>3. Len(tokens) = Len(replies[c]) /\ tokens[1] = replies[c][1]  BY <1>1, <1>2, FirstType
<1>4. SubSeq(replies[c], Len(tokens) + 1, Len(replies[c])) = <<>>  BY <1>2, <1>3, RestType
<1> QED  BY <1>3, <1>4 DEF Receive, Typed

LEMMA SomeReceived ==
  ASSUME Typed, NEW c \in Clients, NEW tokens \in Received(c)
  PROVE  replies[c] # <<>>
<1>1. replies[c] \in Seq(Tokens)  BY DEF Typed
<1>2. 1 .. Len(replies[c]) # {}  BY DEF Received
<1> QED  BY <1>1, <1>2

LEMMA SendOne ==
  ASSUME Typed, NEW c \in Clients, requests[c] = <<>>, NEW op, NEW call, Send(c, op, call)
  PROVE  Len(requests'[c]) = 1 /\ requests'[c][1].op = op /\ requests'[c][1].key = call.key
<1> DEFINE r == [op |-> op, key |-> call.key, value |-> call.value]
<1>1. requests'[c] = Append(<<>>, r)  BY DEF Send, Typed
<1>2. requests'[c] = <<r>>  BY <1>1
<1> QED  BY <1>2

\* A call is over, or goes on; one that waits for a key is over when it is there.
Answers(c) ==
  \/ answers'[c] = answers[c]
  \/ /\ \E a : answers'[c] = Append(answers[c], a)
     /\ Call(c).op \in Awaiting(c) => Filled(Call(c).key)

LEMMA FinishAnswers ==
  ASSUME Typed, NEW c \in Clients, NEW a, Finish(c, a),
         Call(c).op \in Awaiting(c) => Filled(Call(c).key)
  PROVE  Answers(c) /\ pc'[c] = "ready"
BY DEF Typed, Finish, Goto, Answers

\* A client that keeps to the exchange keeps to it: it reads its one reply, then
\* sends its one request.
LEMMA StepPolite ==
  ASSUME Typed, NEW c \in Remotes, Exchange(c), Meaning(c), Step(c), ~ late'[c]
  PROVE  Exchange(c)' /\ Meaning(c)' /\ Answers(c)
<1>1. c \in Clients /\ c # Server  BY DEF Remotes
<1>2. data' = data /\ plan' = plan  BY StepActs DEF Acts
<1>3. /\ pc[c] \in Labels /\ requests[c] \in Seq(Sent) /\ replies[c] \in Seq(Tokens)
      /\ pc \in [Clients -> Labels]
  BY <1>1 DEF Typed
<1>4. Awaiting(c) = {"wait", "get"}  BY <1>1 DEF Awaiting
<1>5. CASE Connect(c)
  <2>1. requests[c] = <<>> /\ replies'[c] = <<>> /\ pc'[c] = "validate" /\ answers' = answers
    BY <1>1, <1>3, <1>5 DEF Connect, Exchange, Goto
  <2>2. Len(requests'[c]) = 1 /\ requests'[c][1].op = "validate"
    BY <1>1, <1>5, <2>1, SendOne DEF Connect
  <2> QED  BY <2>1, <2>2 DEF Exchange, Meaning, Answers
<1>6. CASE Validated(c)
  <2>1. PICK tokens \in Received(c) :
          /\ Receive(c, tokens)
          /\ \/ Send(c, "add", Self) /\ Goto(c, "join")
             \/ Goto(c, "failed")
    BY <1>6 DEF Validated
  <2>2. requests[c] = <<>> /\ Len(replies[c]) = 1
    BY <1>1, <1>6, <2>1, SomeReceived DEF Validated, Exchange
  <2>3. replies'[c] = <<>>  BY <1>1, <2>1, <2>2, ReceiveAll
  <2>4. answers' = answers  BY <1>6 DEF Validated
  <2>5. CASE Goto(c, "failed")  BY <1>1, <1>3, <2>4, <2>5 DEF Exchange, Meaning, Answers, Goto
  <2>6. CASE Send(c, "add", Self) /\ Goto(c, "join")
    <3>1. Len(requests'[c]) = 1 /\ requests'[c][1].op = "add"
      BY <1>1, <2>2, <2>6, SendOne
    <3>2. pc'[c] = "join"  BY <1>1, <1>3, <2>6 DEF Goto
    <3> QED  BY <2>3, <2>4, <3>1, <3>2 DEF Exchange, Meaning, Answers
  <2> QED  BY <2>1, <2>5, <2>6
<1>7. CASE Joined(c)
  <2>1. PICK tokens \in Received(c) :
          Receive(c, tokens) /\ (Goto(c, "ready") \/ Goto(c, "failed"))
    BY <1>7 DEF Joined
  <2>2. requests[c] = <<>> /\ Len(replies[c]) = 1
    BY <1>1, <1>7, <2>1, SomeReceived DEF Joined, Exchange
  <2>3. replies'[c] = <<>>  BY <1>1, <2>1, <2>2, ReceiveAll
  <2>4. requests'[c] = <<>> /\ answers' = answers  BY <1>7, <2>2 DEF Joined
  <2>5. pc'[c] \in {"ready", "failed"}  BY <1>1, <1>3, <2>1 DEF Goto
  <2> QED  BY <2>3, <2>4, <2>5 DEF Exchange, Meaning, Answers
<1>8. CASE Ask(c)
  <2>1. requests[c] = <<>> /\ replies'[c] = <<>> /\ answers' = answers
    BY <1>8 DEF Ask, Exchange
  <2>2. Call(c)' = Call(c)  BY <1>2, <2>1 DEF Call
  <2>3. CASE Send(c, Call(c).op, Call(c)) /\ Goto(c, "sent") /\ Call(c).op \in {"set", "add"}
    <3>1. Len(requests'[c]) = 1 /\ requests'[c][1].op # "get"
      BY <1>1, <2>1, <2>3, SendOne
    <3>2. pc'[c] = "sent"  BY <1>1, <1>3, <2>3 DEF Goto
    <3> QED  BY <2>1, <3>1, <3>2 DEF Exchange, Meaning, Answers
  <2>4. CASE Send(c, "check", Call(c)) /\ Goto(c, "poll")
    <3>1. /\ Len(requests'[c]) = 1 /\ requests'[c][1].op = "check"
          /\ requests'[c][1].key = Call(c).key
      BY <1>1, <2>1, <2>4, SendOne
    <3>2. pc'[c] = "poll"  BY <1>1, <1>3, <2>4 DEF Goto
    <3> QED  BY <2>1, <2>2, <3>1, <3>2 DEF Exchange, Meaning, Answers
  <2> QED  BY <1>8, <2>3, <2>4 DEF Ask
<1>9. CASE SetReturns(c) \/ AddReturns(c)
  <2>1. PICK tokens \in Received(c) :
          /\ Receive(c, tokens)
          /\ (\E a : Finish(c, a)) \/ (Goto(c, "failed") /\ answers' = answers)
    BY <1>9 DEF SetReturns, AddReturns
  <2>2. requests[c] = <<>> /\ Len(replies[c]) = 1 /\ requests'[c] = <<>>
    BY <1>1, <1>9, <2>1, SomeReceived DEF SetReturns, AddReturns, Exchange
  <2>3. replies'[c] = <<>>  BY <1>1, <2>1, <2>2, ReceiveAll
  <2>4. Call(c).op \notin Awaiting(c)  BY <1>4, <1>9 DEF SetReturns, AddReturns
  <2>5. Answers(c) /\ pc'[c] \in {"ready", "failed"}
    BY <1>1, <1>3, <2>1, <2>4, FinishAnswers DEF Goto, Answers
  <2> QED  BY <2>2, <2>3, <2>5 DEF Exchange, Meaning
<1>10. CASE Polled(c)
  <2>1. PICK tokens \in Received(c) :
          /\ Receive(c, tokens)
          /\ \/ (Goto(c, "ready") \/ Goto(c, "failed")) /\ UNCHANGED <<answers, requests>>
             \/ One(tokens, "zero") /\ Finish(c, Empty) /\ UNCHANGED requests
             \/ /\ One(tokens, "zero") /\ Send(c, "get", Call(c))
                /\ Goto(c, "fetch") /\ UNCHANGED answers
    BY <1>10 DEF Polled
  <2>2. requests[c] = <<>> /\ Len(replies[c]) = 1 /\ pc[c] = "poll" /\ replies[c] # <<>>
    BY <1>1, <1>10, <2>1, SomeReceived DEF Polled, Exchange
  <2>3. replies'[c] = <<>> /\ tokens[1] = replies[c][1]  BY <1>1, <2>1, <2>2, ReceiveAll
  <2>4. One(tokens, "zero") => Filled(Call(c).key)  BY <2>2, <2>3 DEF One, Meaning
  <2>5. CASE (Goto(c, "ready") \/ Goto(c, "failed")) /\ UNCHANGED <<answers, requests>>
    <3>1. pc'[c] \in {"ready", "failed"}  BY <1>1, <1>3, <2>5 DEF Goto
    <3> QED  BY <2>2, <2>3, <2>5, <3>1 DEF Exchange, Meaning, Answers
  <2>6. CASE One(tokens, "zero") /\ Finish(c, Empty) /\ UNCHANGED requests
    <3>1. Answers(c) /\ pc'[c] = "ready"  BY <1>1, <2>4, <2>6, FinishAnswers
    <3> QED  BY <2>2, <2>3, <2>6, <3>1 DEF Exchange, Meaning
  <2>7. CASE One(tokens, "zero") /\ Send(c, "get", Call(c)) /\ Goto(c, "fetch") /\ UNCHANGED answers
    <3>1. /\ Len(requests'[c]) = 1 /\ requests'[c][1].op = "get"
          /\ requests'[c][1].key = Call(c).key
      BY <1>1, <2>2, <2>7, SendOne
    <3>2. pc'[c] = "fetch"  BY <1>1, <1>3, <2>7 DEF Goto
    <3>3. Call(c)' = Call(c)  BY <1>2, <2>7 DEF Call
    <3>4. Filled(Call(c).key)'  BY <1>2, <2>4, <2>7, <3>3 DEF Filled
    <3> QED  BY <2>3, <2>7, <3>1, <3>2, <3>3, <3>4 DEF Exchange, Meaning, Answers
  <2> QED  BY <2>1, <2>5, <2>6, <2>7
<1>11. CASE LengthRead(c)
  <2>1. /\ requests'[c] = <<>> /\ replies[c] # <<>> /\ pc[c] = "fetch"
        /\ Len(replies[c]) = 2 /\ replies[c][1].value = 1
    BY <1>11 DEF LengthRead, Exchange
  <2>2. Head(replies[c]).value # 0  BY <1>3, <2>1
  <2>3. Len(replies'[c]) = 1  BY <1>1, <1>3, <1>11, <2>1 DEF LengthRead, Typed
  <2>4. pc'[c] \in {"failed", "value"} /\ answers' = answers
    BY <1>1, <1>3, <1>11, <2>2 DEF LengthRead, Goto
  <2>5. Call(c)' = Call(c)  BY <1>2, <2>4 DEF Call
  <2>6. Filled(Call(c).key)'  BY <1>2, <2>1, <2>5 DEF Filled, Meaning
  <2> QED  BY <2>1, <2>3, <2>4, <2>6 DEF Exchange, Meaning, Answers
<1>12. CASE ValueRead(c)
  <2>1. requests'[c] = <<>> /\ Len(replies[c]) = 1 /\ pc[c] = "value"
    BY <1>12 DEF ValueRead, Exchange
  <2>2. Tail(replies[c]) = SubSeq(replies[c], 1 + 1, Len(replies[c]))
    BY <1>3, <1>12, TailIsSubSeq DEF ValueRead
  <2>3. Tail(replies[c]) = <<>>  BY <1>3, <2>1, <2>2, RestType
  <2>4. replies'[c] = <<>>  BY <1>1, <1>12, <2>3 DEF ValueRead, Typed
  <2>5. Filled(Call(c).key)  BY <2>1 DEF Meaning
  <2>6. Finish(c, Head(replies[c]).value)  BY <1>12 DEF ValueRead
  <2>7. Answers(c) /\ pc'[c] = "ready"  BY <1>1, <2>5, <2>6, FinishAnswers
  <2> QED  BY <2>1, <2>4, <2>7 DEF Exchange, Meaning
<1>13. CASE Closed(c)
  <2>1. late'[c] = TRUE  BY <1>1, <1>13 DEF Closed, EmptyRead, Typed
  <2> QED  BY <2>1
<1> QED  BY <1>5, <1>6, <1>7, <1>8, <1>9, <1>10, <1>11, <1>12, <1>13 DEF Step

\* What the other processes do leaves it as it was, and no key is emptied.
LEMMA Undisturbed ==
  ASSUME Typed, Keeps, plan' = plan, NEW d \in Clients, Exchange(d), Meaning(d),
         pc'[d] = pc[d], answers'[d] = answers[d],
         requests'[d] = requests[d], replies'[d] = replies[d]
  PROVE  Exchange(d)' /\ Meaning(d)'
<1>1. Call(d)' = Call(d)  BY DEF Call
<1>2. Filled(Call(d).key) => Filled(Call(d).key)'
  <2> PICK k : k = Call(d).key  OBVIOUS
  <2>1. Filled(k) => Filled(k)'  BY FilledStays
  <2> QED  BY <1>1, <2>1 DEF Filled
<1>3. Exchange(d)'  BY DEF Exchange
<1>4. Meaning(d)'  BY <1>1, <1>2 DEF Meaning
<1> QED  BY <1>3, <1>4

-----------------------------------------------------------------------------
(* The invariant.                                                           *)

True(c) == \A i \in Made(c, Awaiting(c)) : Filled(plan.calls[c][i].key)

LEMMA TrueStays ==
  ASSUME Typed, Keeps, plan' = plan, NEW d \in Clients, True(d), Answers(d)
  PROVE  True(d)'
<1> SUFFICES ASSUME NEW i \in Made(d, Awaiting(d))'
             PROVE  Filled(plan.calls[d][i].key)'
  BY DEF True
<1>1. PICK k : k = plan.calls[d][i].key /\ (Filled(plan.calls[d][i].key)' <=> Filled(k)')
  BY DEF Filled
<1>2. Filled(k) => Filled(k)'  BY FilledStays
<1>3. i \in 1 .. Len(answers'[d]) /\ plan.calls[d][i].op \in Awaiting(d)
  BY DEF Made, Awaiting
<1>4. CASE answers'[d] = answers[d]
  <2>1. i \in Made(d, Awaiting(d))  BY <1>3, <1>4 DEF Made
  <2> QED  BY <1>1, <1>2, <2>1 DEF True
<1>5. CASE \E a : answers'[d] = Append(answers[d], a)
  <2>1. answers[d] \in Seq(Values) /\ Len(answers[d]) \in Nat  BY DEF Typed
  <2>2. Len(answers'[d]) = Len(answers[d]) + 1  BY <1>5, <2>1
  <2>3. i \in 1 .. Len(answers[d]) \/ i = Len(answers[d]) + 1  BY <1>3, <2>1, <2>2
  <2>4. CASE i \in 1 .. Len(answers[d])
    <3>1. i \in Made(d, Awaiting(d))  BY <1>3, <2>4 DEF Made
    <3> QED  BY <1>1, <1>2, <3>1 DEF True
  <2>5. CASE i = Len(answers[d]) + 1
    <3>1. Call(d) = plan.calls[d][i]  BY <2>5 DEF Call
    <3>2. answers'[d] # answers[d]  BY <2>1, <2>2
    <3>3. Filled(k)  BY <1>1, <1>3, <3>1, <3>2 DEF Answers
    <3> QED  BY <1>1, <1>2, <3>3
  <2> QED  BY <2>3, <2>4, <2>5
<1> QED  BY <1>4, <1>5 DEF Answers

LEMMA OthersStay ==
  ASSUME Typed, NEW c \in Clients, Acts(c), NEW d \in Clients, d # c
  PROVE  /\ pc'[d] = pc[d] /\ answers'[d] = answers[d] /\ late'[d] = late[d]
         /\ requests'[d] = requests[d] /\ replies'[d] = replies[d]
<1>1. pc'[d] = pc[d] /\ answers'[d] = answers[d]  BY DEF Typed, Acts, Moves, Finish, Goto
<1>2. requests'[d] = requests[d]  BY DEF Typed, Acts, Sends
<1>3. replies'[d] = replies[d]  BY DEF Typed, Acts, Reads
<1>4. late'[d] = late[d]  BY DEF Typed, Acts
<1> QED  BY <1>1, <1>2, <1>3, <1>4

\* A step of one process keeps the invariant when it keeps its own part of it.
LEMMA ActsKeep ==
  ASSUME IInv, NEW c \in Clients, Acts(c), Keeps,
         ~ late'[c] => (c \in Remotes => Exchange(c)' /\ Meaning(c)') /\ Answers(c)
  PROVE  IInv'
<1>1. Typed /\ plan' = plan  BY DEF IInv, Acts
<1>2. Typed'  BY <1>1, ActsTyped
<1>3. Polite'
  <2> SUFFICES ASSUME NEW d \in Remotes, ~ late'[d] PROVE Exchange(d)' /\ Meaning(d)'
    BY DEF Polite
  <2>1. d \in Clients  BY DEF Remotes
  <2>2. CASE d = c  BY <2>2
  <2>3. CASE d # c
    <3>1. /\ pc'[d] = pc[d] /\ answers'[d] = answers[d] /\ late'[d] = late[d]
          /\ requests'[d] = requests[d] /\ replies'[d] = replies[d]
      BY <1>1, <2>1, <2>3, OthersStay
    <3>2. Exchange(d) /\ Meaning(d)  BY <3>1 DEF IInv, Polite
    <3> QED  BY <1>1, <2>1, <3>1, <3>2, Undisturbed
  <2> QED  BY <2>2, <2>3
<1>4. Truthful'
  <2> SUFFICES ASSUME NEW d \in Clients, ~ late'[d] PROVE True(d)'
    BY DEF Truthful, True
  <2>1. ~ late[d] /\ Answers(d)
    <3>1. CASE d = c  BY <1>1, <3>1 DEF Acts, Typed
    <3>2. CASE d # c  BY <1>1, <3>2, OthersStay DEF Answers
    <3> QED  BY <3>1, <3>2
  <2>2. True(d)  BY <2>1 DEF IInv, Truthful, True
  <2> QED  BY <1>1, <2>1, <2>2, TrueStays
<1> QED  BY <1>2, <1>3, <1>4 DEF IInv

LEMMA ServeKeeps ==
  ASSUME IInv, NEW c \in Remotes, Serve(c)
  PROVE  IInv'
<1>1. /\ Typed /\ Keeps /\ UNCHANGED <<plan, pc, answers, late>> /\ Taken(c) /\ Put(c)
      /\ c \in Clients
  BY ServeStep DEF IInv, Remotes
<1>2. Typed'  BY <1>1, ServeTyped
<1>3. Polite'
  <2> SUFFICES ASSUME NEW d \in Remotes, ~ late'[d] PROVE Exchange(d)' /\ Meaning(d)'
    BY DEF Polite
  <2>1. d \in Clients /\ Exchange(d) /\ Meaning(d)  BY <1>1 DEF Remotes, IInv, Polite
  <2>2. CASE d = c  BY <1>1, <2>1, <2>2, ServePolite
  <2>3. CASE d # c
    <3>1. requests'[d] = requests[d]  BY <1>1, <2>1, <2>3 DEF Taken, Typed
    <3>2. replies'[d] = replies[d]  BY <1>1, <2>1, <2>3 DEF Put, Typed
    <3> QED  BY <1>1, <2>1, <3>1, <3>2, Undisturbed
  <2> QED  BY <2>2, <2>3
<1>4. Truthful'
  <2> SUFFICES ASSUME NEW d \in Clients, ~ late'[d] PROVE True(d)'
    BY DEF Truthful, True
  <2>1. True(d) /\ Answers(d)  BY <1>1 DEF IInv, Truthful, True, Answers
  <2> QED  BY <1>1, <2>1, TrueStays
<1> QED  BY <1>2, <1>3, <1>4 DEF IInv

LEMMA OwnAnswers ==
  ASSUME Typed, ServerJoin \/ OwnCall
  PROVE  Answers(Server)
<1>1. CASE ServerJoin  BY <1>1 DEF ServerJoin, Answers
<1>2. CASE OwnCall
  <2> DEFINE call == Call(Server)
  <2>1. call \in StoreCall  BY <1>2, CallType DEF OwnCall
  <2>2. call.key \in Names /\ call.op \in {"set", "add", "get", "wait"}
    BY <2>1, NamesType DEF StoreCall
  <2>3. Awaiting(Server) = {"wait"}  BY DEF Awaiting
  <2>4. answers' = answers \/ \E a : Finish(Server, a)
    BY <1>2, <2>2 DEF OwnCall
  <2>5. call.op = "wait" => Filled(call.key)
    BY <1>2, <2>2 DEF OwnCall, Filled
  <2> QED  BY <2>3, <2>4, <2>5, FinishAnswers DEF Answers
<1> QED  BY <1>1, <1>2

\* A read that gives up makes its client late, and a client that has failed, met
\* or closed waits for nothing.
LEMMA OtherPolite ==
  ASSUME Typed, NEW c \in Clients, ~ late'[c],
         \/ c # Server /\ (TimeOut(c) \/ GiveUp(c))
         \/ Meet(c) \/ Shutdown(c) \/ (c = Server /\ Listen)
  PROVE  (c \in Remotes => Exchange(c)' /\ Meaning(c)') /\ Answers(c)
<1>1. CASE TimeOut(c)
  <2>1. late'[c] = TRUE  BY <1>1 DEF TimeOut, EmptyRead, Typed
  <2> QED  BY <2>1
<1>2. CASE GiveUp(c) \/ Meet(c) \/ Shutdown(c)
  <2>1. pc'[c] \in {"failed", "comm", "closed"} /\ answers' = answers
    BY <1>2 DEF GiveUp, Meet, Shutdown, Goto, Typed
  <2> QED  BY <2>1 DEF Exchange, Meaning, Answers
<1>3. CASE c = Server /\ Listen  BY <1>3 DEF Listen, Remotes, Answers
<1> QED  BY <1>1, <1>2, <1>3

LEMMA InitTrue == Init => IInv
<1> SUFFICES ASSUME Init PROVE IInv  OBVIOUS
<1>1. Typed  BY LabelTypes, NamesType DEF Init, Typed
<1>2. Polite  BY DEF Init, Polite, Exchange, Meaning, Remotes
<1>3. Truthful  BY DEF Init, Truthful, Made
<1> QED  BY <1>1, <1>2, <1>3 DEF IInv

LEMMA NextTrue == IInv /\ [Next]_vars => IInv'
<1> SUFFICES ASSUME IInv, [Next]_vars PROVE IInv'  OBVIOUS
<1>1. Typed  BY DEF IInv
<1>2. Server \in Clients /\ Server \notin Remotes /\ Remotes \subseteq Clients  BY DEF Remotes
<1>3. CASE UNCHANGED vars
  <2>1. Acts(Server) /\ data' = data /\ Answers(Server)
    BY <1>3 DEF vars, Acts, Moves, Sends, Reads, Answers
  <2> QED  BY <1>1, <1>2, <2>1, SameKeeps, ActsKeep
<1>4. CASE ServerJoin \/ OwnCall
  BY <1>1, <1>2, <1>4, OwnStep, OwnAnswers, ActsKeep
<1>5. ASSUME NEW c \in Remotes, Step(c) PROVE IInv'
  <2>1. c \in Clients /\ Acts(c) /\ data' = data  BY <1>1, <1>2, <1>5, StepActs
  <2>2. Keeps  BY <1>1, <2>1, SameKeeps
  <2>3. ASSUME ~ late'[c] PROVE Exchange(c)' /\ Meaning(c)' /\ Answers(c)
    <3>1. ~ late[c]  BY <1>1, <2>1, <2>3 DEF Acts, Typed
    <3>2. Exchange(c) /\ Meaning(c)  BY <3>1 DEF IInv, Polite
    <3> QED  BY <1>1, <1>5, <2>3, <3>2, StepPolite
  <2> QED  BY <2>1, <2>2, <2>3, ActsKeep
<1>6. ASSUME NEW c \in Clients,
             \/ c # Server /\ (TimeOut(c) \/ GiveUp(c))
             \/ Meet(c) \/ Shutdown(c) \/ (c = Server /\ Listen)
      PROVE  IInv'
  <2>1. Acts(c) /\ data' = data  BY <1>1, <1>6, OtherActs
  <2>2. Keeps  BY <1>1, <2>1, SameKeeps
  <2>3. ~ late'[c] => (c \in Remotes => Exchange(c)' /\ Meaning(c)') /\ Answers(c)
    BY <1>1, <1>6, OtherPolite
  <2> QED  BY <2>1, <2>2, <2>3, ActsKeep
<1>7. ASSUME NEW c \in Remotes, Serve(c) PROVE IInv'  BY <1>7, ServeKeeps
<1>8. ASSUME NEW c \in Remotes, TimeOut(c) \/ GiveUp(c) PROVE IInv'
  BY <1>2, <1>6, <1>8
<1>9. CASE Listen  BY <1>2, <1>6, <1>9
<1> QED  BY <1>3, <1>4, <1>5, <1>6, <1>7, <1>8, <1>9 DEF Next

\* Between the server and a client that never gave up on a reply there is one
\* request or the one reply to it, and nothing when it waits for none; every
\* variable keeps its type, and no key is emptied: whatever the clients call and
\* whichever reads time out (_handle_client and the client's side of TCPStore).
THEOREM Inductive == Spec => []IInv
<1> QED  BY InitTrue, NextTrue, PTL DEF Spec

\* A wait or a get of such a client has returned only when its key is there.
THEOREM WaitsTrue == Spec => []WaitsAreTrue
<1>1. IInv => WaitsAreTrue  BY DEF IInv, Truthful, WaitsAreTrue, Filled
<1> QED  BY <1>1, Inductive, PTL

-----------------------------------------------------------------------------
(***************************************************************************)
(* The refinement, for plans in which no read gives up.  Of those it is    *)
(* assumed (Orderly) that all processes meet before the first shuts the    *)
(* store down, and that the server gets nothing.                           *)
(***************************************************************************)

\* The one request of a client, or the one reply.
Under(c, op, call) == /\ requests[c] = <<[op |-> op, key |-> call.key, value |-> call.value]>>
                      /\ replies[c] = <<>>
Back(c, tokens) == requests[c] = <<>> /\ replies[c] = tokens

\* What is on a connection, to the byte.
Exact(c) ==
  /\ pc[c] \in {"start", "ready", "failed", "comm", "closed"} => Back(c, <<>>)
  /\ pc[c] = "validate" => Under(c, "validate", Self) \/ Back(c, <<Ack>>)
  /\ pc[c] = "join" => Under(c, "add", Self) \/ \E n \in Values : Back(c, <<Token("number", n)>>)
  /\ pc[c] = "sent" =>
       \/ Call(c).op = "set" /\ (Under(c, "set", Call(c)) \/ Back(c, <<Ack>>))
       \/ /\ Call(c).op = "add"
          /\ Under(c, "add", Call(c)) \/ \E n \in Values : Back(c, <<Token("number", n)>>)
  /\ pc[c] = "poll" =>
       /\ Call(c).op \in {"get", "wait"}
       /\ Under(c, "check", Call(c)) \/ Back(c, <<NotReady>>) \/ Back(c, <<Ready>>)
  /\ pc[c] = "fetch" =>
       /\ Call(c).op = "get"
       /\ \/ Under(c, "get", Call(c))
          \/ \E v \in Values : Back(c, <<Token("length", 1), Token("value", v)>>)
  /\ pc[c] = "value" => Call(c).op = "get" /\ \E v \in Values : Back(c, <<Token("value", v)>>)

Undelayed ==
  /\ timeouts = 0
  /\ \A c \in Clients : ~ late[c]
  /\ \A k \in Names : data[k] # Garbled
  /\ up = "closed" => Met
  /\ \A c \in Remotes : Exact(c)

Exactly == Promised => Undelayed

\* What the store is to be seen as: its contents, and what a call has returned
\* once the server has carried it out.
Held    == [k \in Keys |-> data[k]]
Done(c) == IF CarriedOut(c) THEN Append(answers[c], OnItsWay(c)) ELSE answers[c]

Joins(c)  == Held' = Held /\ Done(c)' = Done(c) /\ pc[c] = "start" /\ pc'[c] # "start"
Unseen(c) == Held' = Held /\ Done(c)' = Done(c) /\ (pc[c] = "start" <=> pc'[c] = "start")

\* A call takes effect: call is the next one.
Effective(call, d, done) ==
  /\ Store!Possible(call, data[call.key])
  /\ \A k \in Keys : d[k] = IF k = call.key THEN Store!After(call, data[k]) ELSE data[k]
  /\ done = Store!Result(call, data[call.key])

Called(c) ==
  /\ pc[c] # "start" /\ pc'[c] # "start" /\ Calling(c) /\ Done(c) = answers[c]
  /\ \E a : Effective(Call(c), data', a) /\ Done(c)' = Append(answers[c], a)

Good == Typed /\ Polite /\ Promised /\ Undelayed

\* While a client is in no call, or its request is on its way, nothing is done that
\* it has not seen.
LEMMA NotCarriedOut ==
  ASSUME NEW c \in Clients, c = Server \/ pc[c] \notin InCall \/ requests[c] # <<>>
  PROVE  Done(c) = answers[c]
BY DEF Done, CarriedOut, InCall

LEMMA NotCarriedOutThen ==
  ASSUME NEW c \in Clients, c = Server \/ pc'[c] \notin InCall \/ requests'[c] # <<>>
  PROVE  Done(c)' = answers'[c]
BY DEF Done, CarriedOut, InCall

\* One token is received whole.
LEMMA ReceiveOne ==
  ASSUME Typed, NEW c \in Clients, NEW t, replies[c] = <<t>>,
         NEW tokens \in Received(c), Receive(c, tokens)
  PROVE  replies'[c] = <<>> /\ Len(tokens) = 1 /\ tokens[1] = t
<1>1. Len(replies[c]) = 1 /\ replies[c][1] = t  OBVIOUS
<1>2. PICK n \in 1 .. Len(replies[c]) : tokens = SubSeq(replies[c], 1, n)  BY DEF Received
<1>3. replies[c] \in Seq(Tokens)  BY DEF Typed
<1>4. Len(tokens) = n /\ n = 1  BY <1>1, <1>2, <1>3, FirstType
<1> QED  BY <1>1, <1>4, ReceiveAll

\* What is sent is all that is on its way.
LEMMA SendUnder ==
  ASSUME Typed, NEW c \in Clients, requests[c] = <<>>, NEW op, NEW call, Send(c, op, call)
  PROVE  requests'[c] = <<[op |-> op, key |-> call.key, value |-> call.value]>>
<1> DEFINE r == [op |-> op, key |-> call.key, value |-> call.value]
<1>1. requests'[c] = Append(<<>>, r)  BY DEF Send, Typed
<1> QED  BY <1>1

\* The steps of a client are not seen but for the first.
StepsUnseen(c) == /\ Exact(c)' /\ Done(c)' = Done(c) /\ pc'[c] # "start"
                  /\ UNCHANGED <<timeouts, late, up>>

LEMMA GoodClient ==
  ASSUME Good, NEW c \in Remotes
  PROVE  /\ c \in Clients /\ c # Server /\ Exact(c) /\ ~ late[c]
         /\ pc \in [Clients -> Labels] /\ answers \in [Clients -> Seq(Values)]
         /\ pc[c] \in InCall => Calling(c)
BY DEF Good, Undelayed, Remotes, Typed

LEMMA ConnectUnseen ==
  ASSUME Good, NEW c \in Remotes, Connect(c)
  PROVE  StepsUnseen(c)
<1>1. c \in Clients /\ Exact(c) /\ Typed  BY GoodClient DEF Good
<1>2. pc[c] = "start" /\ pc'[c] = "validate"  BY <1>1 DEF Connect, Goto, Typed
<1>3. requests[c] = <<>> /\ replies[c] = <<>>  BY <1>1, <1>2 DEF Exact, Back
<1>4. requests'[c] = <<[op |-> "validate", key |-> Self.key, value |-> Self.value]>>
  BY <1>1, <1>3, SendUnder DEF Connect
<1>5. replies'[c] = <<>>  BY <1>3 DEF Connect
<1>6. Self' = Self  BY DEF Self
<1>7. Exact(c)'  BY <1>2, <1>4, <1>5, <1>6 DEF Exact, Under
<1>8. Done(c)' = Done(c)
  <2>1. Done(c) = answers[c]  BY <1>1, <1>2, NotCarriedOut DEF InCall
  <2>2. Done(c)' = answers'[c]  BY <1>1, <1>2, NotCarriedOutThen DEF InCall
  <2> QED  BY <2>1, <2>2 DEF Connect
<1> QED  BY <1>2, <1>7, <1>8 DEF StepsUnseen, Connect

LEMMA ValidatedUnseen ==
  ASSUME Good, NEW c \in Remotes, Validated(c)
  PROVE  StepsUnseen(c)
<1>1. c \in Clients /\ Exact(c) /\ Typed /\ pc \in [Clients -> Labels]  BY GoodClient DEF Good
<1>2. pc[c] = "validate"  BY DEF Validated
<1>3. PICK tokens \in Received(c) :
        /\ Receive(c, tokens)
        /\ One(tokens, "one") => Send(c, "add", Self) /\ Goto(c, "join")
  BY DEF Validated
<1>4. requests[c] = <<>> /\ replies[c] = <<Ack>>
  <2>1. replies[c] # <<>>  BY <1>1, SomeReceived
  <2> QED  BY <1>1, <1>2, <2>1 DEF Exact, Under, Back
<1>5. replies'[c] = <<>> /\ One(tokens, "one")
  <2>1. replies'[c] = <<>> /\ Len(tokens) = 1 /\ tokens[1] = Ack
    BY <1>1, <1>3, <1>4, ReceiveOne
  <2> QED  BY <2>1 DEF One, Ack, Token
<1>6. requests'[c] = <<[op |-> "add", key |-> Self.key, value |-> Self.value]>>
  BY <1>1, <1>3, <1>4, <1>5, SendUnder
<1>7. pc'[c] = "join"  BY <1>1, <1>3, <1>5 DEF Goto
<1>8. Self' = Self  BY DEF Self
<1>9. Exact(c)'  BY <1>5, <1>6, <1>7, <1>8 DEF Exact, Under
<1>10. Done(c)' = Done(c)
  <2>1. Done(c) = answers[c]  BY <1>1, <1>2, NotCarriedOut DEF InCall
  <2>2. Done(c)' = answers'[c]  BY <1>1, <1>7, NotCarriedOutThen DEF InCall
  <2> QED  BY <2>1, <2>2 DEF Validated
<1> QED  BY <1>7, <1>9, <1>10 DEF StepsUnseen, Validated

LEMMA JoinedUnseen ==
  ASSUME Good, NEW c \in Remotes, Joined(c)
  PROVE  StepsUnseen(c)
<1>1. c \in Clients /\ Exact(c) /\ Typed /\ pc \in [Clients -> Labels]  BY GoodClient DEF Good
<1>2. pc[c] = "join"  BY DEF Joined
<1>3. PICK tokens \in Received(c) :
        Receive(c, tokens) /\ (Goto(c, "ready") \/ Goto(c, "failed"))
  BY DEF Joined
<1>4. replies[c] # <<>>  BY <1>1, SomeReceived
<1>5. PICK n \in Values : requests[c] = <<>> /\ replies[c] = <<Token("number", n)>>
  BY <1>1, <1>2, <1>4 DEF Exact, Under, Back
<1>6. replies'[c] = <<>>  BY <1>1, <1>3, <1>5, ReceiveOne
<1>7. requests'[c] = <<>>  BY <1>5 DEF Joined
<1>8. pc'[c] \in {"ready", "failed"}  BY <1>1, <1>3 DEF Goto
<1>9. Exact(c)'  BY <1>6, <1>7, <1>8 DEF Exact, Back
<1>10. Done(c)' = Done(c)
  <2>1. Done(c) = answers[c]  BY <1>1, <1>2, NotCarriedOut DEF InCall
  <2>2. Done(c)' = answers'[c]  BY <1>1, <1>8, NotCarriedOutThen DEF InCall
  <2> QED  BY <2>1, <2>2 DEF Joined
<1> QED  BY <1>8, <1>9, <1>10 DEF StepsUnseen, Joined

LEMMA AskUnseen ==
  ASSUME Good, NEW c \in Remotes, Ask(c)
  PROVE  StepsUnseen(c)
<1>1. c \in Clients /\ Exact(c) /\ Typed /\ pc \in [Clients -> Labels]  BY GoodClient DEF Good
<1>2. pc[c] = "ready" /\ Calling(c)  BY DEF Ask
<1>3. requests[c] = <<>> /\ replies'[c] = <<>> /\ answers' = answers
  BY <1>1, <1>2 DEF Exact, Back, Ask
<1>4. Call(c)' = Call(c)  BY DEF Ask, Call
<1>5. Call(c).op \in {"set", "add", "get", "wait"}
  BY <1>1, <1>2, CallType DEF StoreCall
<1>6. PICK op \in {"set", "add", "check"} :
        /\ Send(c, op, Call(c))
        /\ \/ op = Call(c).op /\ Goto(c, "sent")
           \/ op = "check" /\ Call(c).op \in {"get", "wait"} /\ Goto(c, "poll")
  BY <1>5 DEF Ask
<1>7. requests'[c] = <<[op |-> op, key |-> Call(c).key, value |-> Call(c).value]>>
  BY <1>1, <1>3, <1>6, SendUnder
<1>8. requests'[c] # <<>>  BY <1>7
<1>9. CASE op = Call(c).op /\ Goto(c, "sent")
  <2>1. pc'[c] = "sent" /\ Call(c).op \in {"set", "add"}  BY <1>1, <1>5, <1>6, <1>9 DEF Goto
  <2>2. Under(c, Call(c).op, Call(c))'  BY <1>3, <1>4, <1>7, <1>9 DEF Under
  <2> QED
    <3>1. Exact(c)'  BY <1>4, <2>1, <2>2 DEF Exact
    <3>2. Done(c) = answers[c]  BY <1>1, <1>2, NotCarriedOut DEF InCall
    <3>3. Done(c)' = answers'[c]  BY <1>1, <1>8, NotCarriedOutThen
    <3> QED  BY <1>3, <2>1, <3>1, <3>2, <3>3 DEF StepsUnseen, Ask
<1>10. CASE op = "check" /\ Call(c).op \in {"get", "wait"} /\ Goto(c, "poll")
  <2>1. pc'[c] = "poll"  BY <1>1, <1>10 DEF Goto
  <2>2. Under(c, "check", Call(c))'  BY <1>3, <1>4, <1>7, <1>10 DEF Under
  <2> QED
    <3>1. Exact(c)'  BY <1>4, <1>10, <2>1, <2>2 DEF Exact
    <3>2. Done(c) = answers[c]  BY <1>1, <1>2, NotCarriedOut DEF InCall
    <3>3. Done(c)' = answers'[c]  BY <1>1, <1>8, NotCarriedOutThen
    <3> QED  BY <1>3, <2>1, <3>1, <3>2, <3>3 DEF StepsUnseen, Ask
<1> QED  BY <1>6, <1>9, <1>10

LEMMA SetUnseen ==
  ASSUME Good, NEW c \in Remotes, SetReturns(c)
  PROVE  StepsUnseen(c)
<1>1. c \in Clients /\ c # Server /\ Exact(c) /\ Typed /\ pc \in [Clients -> Labels]
  BY GoodClient DEF Good
<1>2. pc[c] = "sent" /\ Call(c).op = "set"  BY DEF SetReturns
<1>3. PICK tokens \in Received(c) : Receive(c, tokens) /\ Finish(c, Empty)
  BY DEF SetReturns
<1>4. replies[c] # <<>>  BY <1>1, SomeReceived
<1>5. requests[c] = <<>> /\ replies[c] = <<Ack>>
  BY <1>1, <1>2, <1>4 DEF Exact, Under, Back
<1>6. replies'[c] = <<>> /\ requests'[c] = <<>>
  BY <1>1, <1>3, <1>5, ReceiveOne DEF SetReturns
<1>7. pc'[c] = "ready" /\ answers'[c] = Append(answers[c], Empty)
  BY <1>1, <1>3 DEF Finish, Goto, Typed
<1>8. Exact(c)'  BY <1>6, <1>7 DEF Exact, Back
<1>9. Done(c) = Append(answers[c], Empty)
  BY <1>1, <1>2, <1>5 DEF Done, CarriedOut, OnItsWay
<1>10. Done(c)' = answers'[c]  BY <1>1, <1>7, NotCarriedOutThen DEF InCall
<1> QED  BY <1>7, <1>8, <1>9, <1>10 DEF StepsUnseen, SetReturns

LEMMA AddUnseen ==
  ASSUME Good, NEW c \in Remotes, AddReturns(c)
  PROVE  StepsUnseen(c)
<1>1. c \in Clients /\ c # Server /\ Exact(c) /\ Typed /\ pc \in [Clients -> Labels]
  BY GoodClient DEF Good
<1>2. pc[c] = "sent" /\ Call(c).op = "add"  BY DEF AddReturns
<1>3. PICK tokens \in Received(c) :
        /\ Receive(c, tokens)
        /\ One(tokens, "number") => Finish(c, tokens[1].value)
  BY DEF AddReturns
<1>4. replies[c] # <<>>  BY <1>1, SomeReceived
<1>5. PICK n \in Values : requests[c] = <<>> /\ replies[c] = <<Token("number", n)>>
  BY <1>1, <1>2, <1>4 DEF Exact, Under, Back
<1>6. /\ replies'[c] = <<>> /\ Len(tokens) = 1 /\ tokens[1] = Token("number", n)
      /\ requests'[c] = <<>>
  BY <1>1, <1>3, <1>5, ReceiveOne DEF AddReturns
<1>7. One(tokens, "number") /\ tokens[1].value = n  BY <1>6 DEF One, Token
<1>8. pc'[c] = "ready" /\ answers'[c] = Append(answers[c], n)
  BY <1>1, <1>3, <1>7 DEF Finish, Goto, Typed
<1>9. Exact(c)'  BY <1>6, <1>8 DEF Exact, Back
<1>10. Done(c) = Append(answers[c], n)
  <2>1. Len(replies[c]) = 1 /\ replies[c][1].value = n  BY <1>5 DEF Token
  <2>2. OnItsWay(c) = n  BY <1>2, <2>1 DEF OnItsWay
  <2> QED  BY <1>1, <1>2, <1>5, <2>2 DEF Done, CarriedOut
<1>11. Done(c)' = answers'[c]  BY <1>1, <1>8, NotCarriedOutThen DEF InCall
<1> QED  BY <1>8, <1>9, <1>10, <1>11 DEF StepsUnseen, AddReturns

LEMMA PolledUnseen ==
  ASSUME Good, NEW c \in Remotes, Polled(c)
  PROVE  StepsUnseen(c)
<1>1. c \in Clients /\ c # Server /\ Exact(c) /\ Typed /\ pc \in [Clients -> Labels]
  BY GoodClient DEF Good
<1>2. pc[c] = "poll" /\ Call(c).op \in {"get", "wait"}  BY <1>1 DEF Polled, Exact
<1>3. PICK tokens \in Received(c) :
        /\ Receive(c, tokens)
        /\ One(tokens, "one") => Goto(c, "ready") /\ UNCHANGED <<answers, requests>>
        /\ One(tokens, "zero") /\ Call(c).op = "wait" => Finish(c, Empty) /\ UNCHANGED requests
        /\ One(tokens, "zero") /\ Call(c).op = "get" =>
             Send(c, "get", Call(c)) /\ Goto(c, "fetch") /\ UNCHANGED answers
  <2>1. PICK tokens \in Received(c) :
       /\ Receive(c, tokens)
       /\ CASE One(tokens, "one") -> Goto(c, "ready") /\ UNCHANGED <<answers, requests>>
            [] One(tokens, "zero") /\ Call(c).op = "wait" -> Finish(c, Empty) /\ UNCHANGED requests
            [] One(tokens, "zero") /\ Call(c).op = "get" ->
                 Send(c, "get", Call(c)) /\ Goto(c, "fetch") /\ UNCHANGED answers
            [] OTHER -> Goto(c, "failed") /\ UNCHANGED <<answers, requests>>
    BY DEF Polled
  <2>2. ~ (One(tokens, "one") /\ One(tokens, "zero"))  BY DEF One
  <2> QED  BY <1>2, <2>1, <2>2
<1>4. replies[c] # <<>>  BY <1>1, SomeReceived
<1>5. requests[c] = <<>> /\ (replies[c] = <<NotReady>> \/ replies[c] = <<Ready>>)
  BY <1>1, <1>2, <1>4 DEF Exact, Under, Back
<1>6. Call(c)' = Call(c) \/ answers' # answers  BY DEF Call, Polled
<1>7. CASE replies[c] = <<NotReady>>
  <2>1. replies'[c] = <<>> /\ One(tokens, "one")
    <3>1. replies'[c] = <<>> /\ Len(tokens) = 1 /\ tokens[1] = NotReady
      BY <1>1, <1>3, <1>7, ReceiveOne
    <3> QED  BY <3>1 DEF One, NotReady, Token
  <2>2. pc'[c] = "ready" /\ answers' = answers /\ requests'[c] = <<>>
    BY <1>1, <1>3, <1>5, <2>1 DEF Goto
  <2>3. Exact(c)'  BY <2>1, <2>2 DEF Exact, Back
  <2>4. Done(c) = answers[c]  BY <1>2, <1>7 DEF Done, CarriedOut, NotReady, Ready, Token
  <2>5. Done(c)' = answers'[c]  BY <1>1, <2>2, NotCarriedOutThen DEF InCall
  <2> QED  BY <2>2, <2>3, <2>4, <2>5 DEF StepsUnseen, Polled
<1>8. CASE replies[c] = <<Ready>>
  <2>1. replies'[c] = <<>> /\ One(tokens, "zero")
    <3>1. replies'[c] = <<>> /\ Len(tokens) = 1 /\ tokens[1] = Ready
      BY <1>1, <1>3, <1>8, ReceiveOne
    <3> QED  BY <3>1 DEF One, Ready, Token
  <2>2. CASE Call(c).op = "wait"
    <3>1. pc'[c] = "ready" /\ answers'[c] = Append(answers[c], Empty) /\ requests'[c] = <<>>
      BY <1>1, <1>3, <1>5, <2>1, <2>2 DEF Finish, Goto, Typed
    <3>2. Exact(c)'  BY <2>1, <3>1 DEF Exact, Back
    <3>3. Done(c) = Append(answers[c], Empty)
      BY <1>1, <1>2, <1>5, <1>8, <2>2 DEF Done, CarriedOut, OnItsWay
    <3>4. Done(c)' = answers'[c]  BY <1>1, <3>1, NotCarriedOutThen DEF InCall
    <3> QED  BY <3>1, <3>2, <3>3, <3>4 DEF StepsUnseen, Polled
  <2>3. CASE Call(c).op = "get"
    <3>1. pc'[c] = "fetch" /\ answers' = answers /\ Send(c, "get", Call(c))
      BY <1>1, <1>3, <2>1, <2>3 DEF Goto
    <3>2. requests'[c] = <<[op |-> "get", key |-> Call(c).key, value |-> Call(c).value]>>
      BY <1>1, <1>5, <3>1, SendUnder
    <3>3. Call(c)' = Call(c)  BY <1>6, <3>1
    <3>4. Exact(c)'  BY <2>1, <2>3, <3>1, <3>2, <3>3 DEF Exact, Under
    <3>5. Done(c) = answers[c]  BY <1>2, <2>3 DEF Done, CarriedOut
    <3>6. Done(c)' = answers'[c]
      <4>1. requests'[c] # <<>>  BY <3>2
      <4> QED  BY <1>1, <4>1, NotCarriedOutThen
    <3> QED  BY <3>1, <3>4, <3>5, <3>6 DEF StepsUnseen, Polled
  <2> QED  BY <1>2, <2>2, <2>3
<1> QED  BY <1>5, <1>7, <1>8

LEMMA LengthUnseen ==
  ASSUME Good, NEW c \in Remotes, LengthRead(c)
  PROVE  StepsUnseen(c)
<1>1. c \in Clients /\ c # Server /\ Exact(c) /\ Typed /\ pc \in [Clients -> Labels]
  BY GoodClient DEF Good
<1>2. pc[c] = "fetch" /\ replies[c] # <<>>  BY DEF LengthRead
<1>3. PICK v \in Values : /\ requests[c] = <<>> /\ Call(c).op = "get"
                          /\ replies[c] = <<Token("length", 1), Token("value", v)>>
  BY <1>1, <1>2 DEF Exact, Under, Back
<1>4. Head(replies[c]).kind = "length" /\ Head(replies[c]).value = 1
  BY <1>3 DEF Token
<1>5. pc'[c] = "value" /\ answers' = answers  BY <1>1, <1>4 DEF LengthRead, Goto
<1>6. requests'[c] = <<>> /\ replies'[c] = <<Token("value", v)>>
  <2>1. Tail(replies[c]) = <<Token("value", v)>>  BY <1>3
  <2> QED  BY <1>1, <1>3, <2>1 DEF LengthRead, Typed
<1>7. Call(c)' = Call(c)  BY <1>5 DEF Call, LengthRead
<1>8. Exact(c)'  BY <1>3, <1>5, <1>6, <1>7 DEF Exact, Back
<1>9. Done(c) = Append(answers[c], v)
  <2>1. Len(replies[c]) = 2 /\ replies[c][2].value = v  BY <1>3 DEF Token
  <2>2. OnItsWay(c) = v  BY <1>3, <2>1 DEF OnItsWay
  <2> QED  BY <1>1, <1>2, <1>3, <2>2 DEF Done, CarriedOut
<1>10. Done(c)' = Append(answers[c], v)
  <2>1. Len(replies'[c]) = 1 /\ replies'[c][1].value = v  BY <1>6 DEF Token
  <2>2. OnItsWay(c)' = v  BY <1>3, <1>7, <2>1 DEF OnItsWay
  <2> QED  BY <1>1, <1>5, <1>6, <2>2 DEF Done, CarriedOut
<1> QED  BY <1>5, <1>8, <1>9, <1>10 DEF StepsUnseen, LengthRead

LEMMA ValueUnseen ==
  ASSUME Good, NEW c \in Remotes, ValueRead(c)
  PROVE  StepsUnseen(c)
<1>1. c \in Clients /\ c # Server /\ Exact(c) /\ Typed /\ pc \in [Clients -> Labels]
  BY GoodClient DEF Good
<1>2. pc[c] = "value"  BY DEF ValueRead
<1>3. PICK v \in Values : /\ requests[c] = <<>> /\ Call(c).op = "get"
                          /\ replies[c] = <<Token("value", v)>>
  BY <1>1, <1>2 DEF Exact, Back
<1>4. Head(replies[c]).value = v /\ Tail(replies[c]) = <<>>  BY <1>3 DEF Token
<1>5. pc'[c] = "ready" /\ answers'[c] = Append(answers[c], v)
  BY <1>1, <1>4 DEF ValueRead, Finish, Goto, Typed
<1>6. requests'[c] = <<>> /\ replies'[c] = <<>>
  BY <1>1, <1>3, <1>4 DEF ValueRead, Typed
<1>7. Exact(c)'  BY <1>5, <1>6 DEF Exact, Back
<1>8. Done(c) = Append(answers[c], v)
  <2>1. Len(replies[c]) = 1 /\ replies[c][1].value = v  BY <1>3 DEF Token
  <2>2. OnItsWay(c) = v  BY <1>3, <2>1 DEF OnItsWay
  <2> QED  BY <1>1, <1>2, <1>3, <2>2 DEF Done, CarriedOut
<1>9. Done(c)' = answers'[c]  BY <1>1, <1>5, NotCarriedOutThen DEF InCall
<1> QED  BY <1>5, <1>7, <1>8, <1>9 DEF StepsUnseen, ValueRead

\* No connection is closed on a client, and nothing gives up.
LEMMA NothingCloses ==
  ASSUME Good, NEW c \in Remotes
  PROVE  ~ Closed(c) /\ ~ TimeOut(c) /\ ~ GiveUp(c)
<1>1. c \in Clients /\ Typed  BY GoodClient DEF Good
<1>2. up = "closed" => pc[c] \in {"comm", "closed"}  BY <1>1 DEF Good, Undelayed, Met
<1>3. timeouts = 0 /\ plan.timeouts = 0  BY DEF Good, Undelayed, Promised
<1>4. ~ TimeOut(c)  BY <1>3 DEF TimeOut
<1>5. ~ GiveUp(c)  BY <1>2, <1>3 DEF GiveUp
<1>6. ~ Closed(c)
  <2> SUFFICES ASSUME Closed(c) PROVE FALSE  OBVIOUS
  <2>1. pc[c] \notin {"comm", "closed"}  BY DEF Closed, EmptyRead
  <2>2. requests[c] # <<>> /\ data[Head(requests[c]).key] = Garbled
    BY <1>2, <2>1 DEF Closed, HandlerEnded
  <2>3. Head(requests[c]) \in Sent
    <3>1. requests[c] \in Seq(Sent)  BY <1>1 DEF Typed
    <3> QED  BY <2>2, <3>1
  <2>4. Head(requests[c]).key \in Names  BY <2>3 DEF Sent, Request
  <2> QED  BY <2>2, <2>4 DEF Good, Undelayed
<1> QED  BY <1>4, <1>5, <1>6

LEMMA StepUnseen ==
  ASSUME Good, NEW c \in Remotes, Step(c)
  PROVE  StepsUnseen(c) /\ (pc[c] = "start" <=> Connect(c))
<1>1. ~ Closed(c)  BY NothingCloses
<1>2. StepsUnseen(c)
  BY <1>1, ConnectUnseen, ValidatedUnseen, JoinedUnseen, AskUnseen, SetUnseen, AddUnseen,
     PolledUnseen, LengthUnseen, ValueUnseen DEF Step
<1>3. pc[c] = "start" <=> Connect(c)
  BY <1>1 DEF Step, Connect, Validated, Joined, Ask, SetReturns, AddReturns, Polled,
              LengthRead, ValueRead
<1> QED  BY <1>2, <1>3

-----------------------------------------------------------------------------
(* The server carries a request out.                                        *)

\* It takes the one request and puts its reply.
LEMMA ServeOne ==
  ASSUME Typed, NEW c \in Clients, NEW r, requests[c] = <<r>>, replies[c] = <<>>,
         NEW n \in 1 .. Len(requests[c]), Read(c, n), NEW tokens \in Seq(Tokens), Reply(c, tokens)
  PROVE  n = 1 /\ requests'[c] = <<>> /\ replies'[c] = tokens
<1>1. Len(requests[c]) = 1 /\ requests[c] \in Seq(Sent)  BY DEF Typed
<1>2. n = 1 /\ n = Len(requests[c])  BY <1>1
<1>3. SubSeq(requests[c], n + 1, Len(requests[c])) = <<>>  BY <1>1, <1>2, RestType
<1>4. requests'[c] = <<>>  BY <1>3 DEF Read, Typed
<1>5. replies'[c] = <<>> \o tokens  BY DEF Reply, Typed
<1> QED  BY <1>2, <1>4, <1>5

LEMMA TokenSeqs ==
  \A kind \in {"one", "zero", "number", "length", "value"}, v \in Values :
    /\ Token(kind, v) \in Tokens /\ <<Token(kind, v)>> \in Seq(Tokens)
    /\ <<Token("length", 1), Token(kind, v)>> \in Seq(Tokens)
<1>1. \A kind \in {"one", "zero", "number", "length", "value"}, v \in Values : Token(kind, v) \in Tokens
  BY DEF Token, Tokens
<1>2. Token("length", 1) \in Tokens  BY <1>1, NamesType
<1> QED  BY <1>1, <1>2

\* What is common to the requests: key is that of the request and held what it holds.
LEMMA ServeParts ==
  ASSUME Good, NEW c \in Remotes, Serve(c)
  PROVE  /\ c \in Clients /\ c # Server /\ Typed /\ Exact(c) /\ requests[c] # <<>>
         /\ UNCHANGED <<up, pc, plan, answers, late, timeouts>>
         /\ Call(c)' = Call(c) /\ Done(c) = answers[c]
         /\ pc[c] \in {"validate", "join", "sent", "poll", "fetch"}
         /\ pc[c] \in InCall => Call(c) \in StoreCall /\ Calling(c) /\ Call(c).key \in Names
                                /\ data[Call(c).key] \in Int \cup {Empty}
<1>1. c \in Clients /\ c # Server /\ Typed /\ Exact(c) /\ (pc[c] \in InCall => Calling(c))
  BY GoodClient DEF Good
<1>2. requests[c] # <<>> /\ UNCHANGED <<up, pc, plan, answers, late, timeouts>>  BY DEF Serve
<1>3. Call(c)' = Call(c)  BY <1>2 DEF Call
<1>4. Done(c) = answers[c]  BY <1>1, <1>2, NotCarriedOut
<1>5. pc[c] \in {"validate", "join", "sent", "poll", "fetch"}
  BY <1>1, <1>2 DEF Exact, Back, Typed, Labels
<1>6. ASSUME pc[c] \in InCall
      PROVE  Call(c) \in StoreCall /\ Call(c).key \in Names /\ data[Call(c).key] \in Int \cup {Empty}
  <2>1. Call(c) \in StoreCall  BY <1>1, <1>6, CallType
  <2>2. Call(c).key \in Names  BY <2>1, NamesType DEF StoreCall
  <2>3. data[Call(c).key] \in Values /\ data[Call(c).key] # Garbled
    BY <2>2 DEF Good, Undelayed, Typed
  <2> QED  BY <2>1, <2>2, <2>3 DEF Values
<1> QED  BY <1>1, <1>2, <1>3, <1>4, <1>5, <1>6

Served(c) == /\ Exact(c)' /\ (Unseen(c) \/ Called(c))
             /\ \A k \in Names : data'[k] # Garbled

LEMMA ServeJoining ==
  ASSUME Good, NEW c \in Remotes, Serve(c), pc[c] \in {"validate", "join"}
  PROVE  Served(c)
<1>1. /\ c \in Clients /\ Typed /\ Exact(c) /\ requests[c] # <<>> /\ pc' = pc
      /\ Done(c) = answers[c] /\ answers' = answers
  BY ServeParts
<1>2. Done(c)' = Done(c)
  <2>1. pc'[c] \notin InCall  BY <1>1 DEF InCall
  <2> QED  BY <1>1, <2>1, NotCarriedOutThen
<1>3. CASE pc[c] = "validate"
  <2>1. /\ requests[c] = <<[op |-> "validate", key |-> Self.key, value |-> Self.value]>>
        /\ replies[c] = <<>>
    BY <1>1, <1>3 DEF Exact, Under, Back
  <2>2. Head(requests[c]).op = "validate" /\ 1 \in 1 .. Len(requests[c])  BY <2>1
  <2>3. Reply(c, <<Ack>>) /\ Read(c, 1) /\ data' = data  BY <2>2 DEF Serve
  <2>4. <<Ack>> \in Seq(Tokens)  BY TokenSeqs, LabelTypes DEF Ack
  <2>5. requests'[c] = <<>> /\ replies'[c] = <<Ack>>  BY <1>1, <2>1, <2>2, <2>3, <2>4, ServeOne
  <2>6. Exact(c)'
    <3>1. pc'[c] = "validate"  BY <1>1, <1>3
    <3>2. Ack' = Ack  BY DEF Ack, Token
    <3> QED  BY <2>5, <3>1, <3>2 DEF Exact, Back
  <2>7. Unseen(c)  BY <1>1, <1>2, <2>3 DEF Unseen, Held
  <2> QED  BY <2>3, <2>6, <2>7 DEF Served, Good, Undelayed
<1>4. CASE pc[c] = "join"
  <2>1. /\ requests[c] = <<[op |-> "add", key |-> Self.key, value |-> Self.value]>>
        /\ replies[c] = <<>>
    BY <1>1, <1>4 DEF Exact, Under, Back
  <2>2. /\ Head(requests[c]).op = "add" /\ Head(requests[c]).key = WorkerCount
        /\ Head(requests[c]).value = 1 /\ 1 \in 1 .. Len(requests[c])
    BY <2>1 DEF Self
  <2> DEFINE n == Sum(data[WorkerCount], 1)
  <2>3. /\ Reply(c, <<Token("number", n)>>) /\ Read(c, 1)
        /\ data' = [data EXCEPT ![WorkerCount] = n]
    BY <2>2 DEF Serve
  <2>4. n \in Int
    <3>1. data[WorkerCount] \in Values /\ data[WorkerCount] # Garbled  BY <1>1, NamesType DEF Typed
    <3> QED  BY <3>1, SumType
  <2> HIDE DEF n
  <2>5. <<Token("number", n)>> \in Seq(Tokens) /\ n \in Values  BY <2>4, TokenSeqs, NamesType
  <2>6. requests'[c] = <<>> /\ replies'[c] = <<Token("number", n)>>
    BY <1>1, <2>1, <2>2, <2>3, <2>5, ServeOne
  <2>7. Exact(c)'
    <3>1. pc'[c] = "join"  BY <1>1, <1>4
    <3>2. \E m \in Values : replies'[c] = <<Token("number", m)>>  BY <2>5, <2>6
    <3> QED  BY <2>6, <3>1, <3>2 DEF Exact, Back, Token
  <2>8. Held' = Held
    <3>1. \A k \in Keys : data'[k] = data[k]  BY <1>1, <2>3 DEF Typed, Names
    <3> QED  BY <3>1 DEF Held
  <2>9. \A k \in Names : data'[k] # Garbled
    BY <1>1, <2>3, <2>4 DEF Typed, Good, Undelayed
  <2> QED  BY <1>1, <1>2, <2>7, <2>8, <2>9 DEF Served, Unseen
<1> QED  BY <1>3, <1>4

LEMMA ServeSet ==
  ASSUME Good, NEW c \in Remotes, Serve(c), pc[c] = "sent", Call(c).op = "set"
  PROVE  Served(c)
<1>1. /\ c \in Clients /\ c # Server /\ Typed /\ Exact(c) /\ requests[c] # <<>> /\ pc' = pc
      /\ Call(c)' = Call(c) /\ Done(c) = answers[c] /\ answers' = answers
      /\ Call(c) \in StoreCall /\ Calling(c) /\ Call(c).key \in Names
  BY ServeParts DEF InCall
<1>2. /\ requests[c] = <<[op |-> "set", key |-> Call(c).key, value |-> Call(c).value]>>
      /\ replies[c] = <<>>
  BY <1>1 DEF Exact, Under, Back
<1>3. /\ Head(requests[c]).op = "set" /\ Head(requests[c]).key = Call(c).key
      /\ Head(requests[c]).value = Call(c).value
  BY <1>2
<1>4. PICK n \in 1 .. Len(requests[c]) :
        /\ data' = [data EXCEPT ![Call(c).key] = IF n = 1 THEN Call(c).value ELSE Garbled]
        /\ Read(c, n) /\ Reply(c, <<Ack>>)
  BY <1>3 DEF Serve
<1>5. <<Ack>> \in Seq(Tokens)  BY TokenSeqs, LabelTypes DEF Ack
<1>6. n = 1 /\ requests'[c] = <<>> /\ replies'[c] = <<Ack>>  BY <1>1, <1>2, <1>4, <1>5, ServeOne
<1>7. data' = [data EXCEPT ![Call(c).key] = Call(c).value]  BY <1>4, <1>6
<1>8. Exact(c)'
  <2>1. pc'[c] = "sent"  BY <1>1
  <2>2. Ack' = Ack  BY DEF Ack, Token
  <2> QED  BY <1>1, <1>6, <2>1, <2>2 DEF Exact, Back
<1>9. Done(c)' = Append(answers[c], Empty)
  BY <1>1, <1>6 DEF Done, CarriedOut, OnItsWay
<1>10. Effective(Call(c), data', Empty)
  <2>1. Store!Possible(Call(c), data[Call(c).key])  BY DEF Store!Possible
  <2>2. \A h : Store!After(Call(c), h) = Call(c).value  BY DEF Store!After
  <2>3. Store!Result(Call(c), data[Call(c).key]) = Empty  BY DEF Store!Result
  <2>4. \A k \in Keys : data'[k] = IF k = Call(c).key THEN Call(c).value ELSE data[k]
    BY <1>1, <1>7, NamesType DEF Typed
  <2> QED  BY <2>1, <2>2, <2>3, <2>4 DEF Effective
<1>11. Called(c)  BY <1>1, <1>9, <1>10 DEF Called
<1>12. \A k \in Names : data'[k] # Garbled
  <2>1. Call(c).value \in Int  BY <1>1 DEF StoreCall
  <2> QED  BY <1>1, <1>7, <2>1 DEF Typed, Good, Undelayed
<1> QED  BY <1>8, <1>11, <1>12 DEF Served

LEMMA ServeAdd ==
  ASSUME Good, NEW c \in Remotes, Serve(c), pc[c] = "sent", Call(c).op = "add"
  PROVE  Served(c)
<1>1. /\ c \in Clients /\ c # Server /\ Typed /\ Exact(c) /\ requests[c] # <<>> /\ pc' = pc
      /\ Call(c)' = Call(c) /\ Done(c) = answers[c] /\ answers' = answers
      /\ Call(c) \in StoreCall /\ Calling(c) /\ Call(c).key \in Names
      /\ data[Call(c).key] \in Int \cup {Empty}
  BY ServeParts DEF InCall
<1>2. /\ requests[c] = <<[op |-> "add", key |-> Call(c).key, value |-> Call(c).value]>>
      /\ replies[c] = <<>>
  BY <1>1 DEF Exact, Under, Back
<1>3. /\ Head(requests[c]).op = "add" /\ Head(requests[c]).key = Call(c).key
      /\ Head(requests[c]).value = Call(c).value /\ 1 \in 1 .. Len(requests[c])
  BY <1>2
<1> DEFINE n == Sum(data[Call(c).key], Call(c).value)
<1>4. /\ data' = [data EXCEPT ![Call(c).key] = n]
      /\ Read(c, 1) /\ Reply(c, <<Token("number", n)>>)
  BY <1>3 DEF Serve
<1>5. n \in Int /\ Call(c).value \in Int
  <2>1. Call(c).value \in Int  BY <1>1 DEF StoreCall
  <2> QED  BY <1>1, <2>1 DEF Sum
<1>6. \A h : Store!Sum(h, Call(c).value) = Sum(h, Call(c).value)  BY DEF Store!Sum, Sum
<1>7. Effective(Call(c), data', n)
  <2>1. Store!Possible(Call(c), data[Call(c).key])  BY DEF Store!Possible
  <2>2. \A h : Store!After(Call(c), h) = Sum(h, Call(c).value)  BY <1>6 DEF Store!After
  <2>3. Store!Result(Call(c), data[Call(c).key]) = n  BY <1>6 DEF Store!Result
  <2>4. \A k \in Keys : data'[k] = IF k = Call(c).key THEN Sum(data[k], Call(c).value) ELSE data[k]
    BY <1>1, <1>4, NamesType DEF Typed
  <2> QED  BY <2>1, <2>2, <2>3, <2>4 DEF Effective
<1> HIDE DEF n
<1>8. <<Token("number", n)>> \in Seq(Tokens) /\ n \in Values  BY <1>5, TokenSeqs, NamesType
<1>9. requests'[c] = <<>> /\ replies'[c] = <<Token("number", n)>>
  BY <1>1, <1>2, <1>3, <1>4, <1>8, ServeOne
<1>10. Exact(c)'
  <2>1. pc'[c] = "sent"  BY <1>1
  <2>2. \E m \in Values : replies'[c] = <<Token("number", m)>>  BY <1>8, <1>9
  <2> QED  BY <1>1, <1>9, <2>1, <2>2 DEF Exact, Back, Token
<1>11. Done(c)' = Append(answers[c], n)
  <2>1. Len(replies'[c]) = 1 /\ replies'[c][1].value = n  BY <1>9 DEF Token
  <2>2. OnItsWay(c)' = n  BY <1>1, <2>1 DEF OnItsWay
  <2> QED  BY <1>1, <1>9, <2>2 DEF Done, CarriedOut
<1>12. Called(c)  BY <1>1, <1>7, <1>11 DEF Called
<1>13. \A k \in Names : data'[k] # Garbled
  BY <1>1, <1>4, <1>5 DEF Typed, Good, Undelayed
<1> QED  BY <1>10, <1>12, <1>13 DEF Served

LEMMA ServeCheck ==
  ASSUME Good, NEW c \in Remotes, Serve(c), pc[c] = "poll"
  PROVE  Served(c)
<1>1. /\ c \in Clients /\ c # Server /\ Typed /\ Exact(c) /\ requests[c] # <<>> /\ pc' = pc
      /\ Call(c)' = Call(c) /\ Done(c) = answers[c] /\ answers' = answers
      /\ Call(c) \in StoreCall /\ Calling(c) /\ Call(c).key \in Names
  BY ServeParts DEF InCall
<1>2. /\ requests[c] = <<[op |-> "check", key |-> Call(c).key, value |-> Call(c).value]>>
      /\ replies[c] = <<>> /\ Call(c).op \in {"get", "wait"}
  BY <1>1 DEF Exact, Under, Back
<1>3. /\ Head(requests[c]).op = "check" /\ Head(requests[c]).key = Call(c).key
      /\ 1 \in 1 .. Len(requests[c])
  BY <1>2
<1>4. data' = data /\ Read(c, 1) /\ Reply(c, <<Checked(Call(c).key)>>)
  BY <1>3 DEF Serve
<1>5. <<Ready>> \in Seq(Tokens) /\ <<NotReady>> \in Seq(Tokens)
  BY TokenSeqs, LabelTypes DEF Ready, NotReady
<1>6. requests'[c] = <<>> /\ replies'[c] = <<Checked(Call(c).key)>>
  <2>1. <<Checked(Call(c).key)>> \in Seq(Tokens)  BY <1>5 DEF Checked
  <2> QED  BY <1>1, <1>2, <1>3, <1>4, <2>1, ServeOne
<1>7. Exact(c)'
  <2>1. pc'[c] = "poll"  BY <1>1
  <2>2. replies'[c] = <<Ready>>' \/ replies'[c] = <<NotReady>>'
    BY <1>6 DEF Checked, Ready, NotReady, Token
  <2> QED  BY <1>1, <1>2, <1>6, <2>1, <2>2 DEF Exact, Back
<1>8. Unseen(c) \/ Called(c)
  <2>1. CASE Call(c).op = "wait" /\ data[Call(c).key] # Empty
    <3>1. replies'[c] = <<Ready>>'  BY <1>6, <2>1 DEF Checked, Ready, Token
    <3>2. Done(c)' = Append(answers[c], Empty)
      BY <1>1, <1>6, <2>1, <3>1 DEF Done, CarriedOut, OnItsWay
    <3>3. Effective(Call(c), data', Empty)
      <4>1. Store!Possible(Call(c), data[Call(c).key])  BY <2>1 DEF Store!Possible
      <4>2. \A h : Store!After(Call(c), h) = h  BY <2>1 DEF Store!After
      <4>3. Store!Result(Call(c), data[Call(c).key]) = Empty  BY <2>1 DEF Store!Result
      <4> QED  BY <1>4, <4>1, <4>2, <4>3 DEF Effective
    <3> QED  BY <1>1, <3>2, <3>3 DEF Called
  <2>2. CASE ~ (Call(c).op = "wait" /\ data[Call(c).key] # Empty)
    <3>1. ~ CarriedOut(c)'
      <4>1. CASE Call(c).op # "wait"  BY <1>1, <4>1 DEF CarriedOut
      <4>2. CASE data[Call(c).key] = Empty
        BY <1>1, <1>6, <4>2 DEF CarriedOut, Checked, NotReady, Ready, Token
      <4> QED  BY <2>2, <4>1, <4>2
    <3>2. Done(c)' = Done(c)  BY <1>1, <3>1 DEF Done
    <3> QED  BY <1>1, <1>4, <3>2 DEF Unseen, Held
  <2> QED  BY <2>1, <2>2
<1> QED  BY <1>4, <1>7, <1>8 DEF Served, Good, Undelayed

LEMMA ServeGet ==
  ASSUME Good, NEW c \in Remotes, Serve(c), pc[c] = "fetch"
  PROVE  Served(c)
<1>1. /\ c \in Clients /\ c # Server /\ Typed /\ Exact(c) /\ requests[c] # <<>> /\ pc' = pc
      /\ Call(c)' = Call(c) /\ Done(c) = answers[c] /\ answers' = answers
      /\ Call(c) \in StoreCall /\ Calling(c) /\ Call(c).key \in Names
      /\ data[Call(c).key] \in Int \cup {Empty}
  BY ServeParts DEF InCall
<1>2. /\ requests[c] = <<[op |-> "get", key |-> Call(c).key, value |-> Call(c).value]>>
      /\ replies[c] = <<>> /\ Call(c).op = "get"
  BY <1>1 DEF Exact, Under, Back
<1>3. /\ Head(requests[c]).op = "get" /\ Head(requests[c]).key = Call(c).key
      /\ 1 \in 1 .. Len(requests[c])
  BY <1>2
<1>4. data[Call(c).key] # Empty
  <2>1. Meaning(c)  BY <1>1 DEF Good, Polite, Undelayed
  <2> QED  BY <2>1 DEF Meaning, Filled
<1>5. PICK v \in Values : v = data[Call(c).key]  BY <1>1 DEF Values
<1>6. data' = data /\ Read(c, 1) /\ Reply(c, <<Token("length", 1), Token("value", v)>>)
  BY <1>3, <1>4, <1>5 DEF Serve
<1>7. requests'[c] = <<>> /\ replies'[c] = <<Token("length", 1), Token("value", v)>>
  <2>1. <<Token("length", 1), Token("value", v)>> \in Seq(Tokens)  BY TokenSeqs
  <2> QED  BY <1>1, <1>2, <1>3, <1>6, <2>1, ServeOne
<1>8. Exact(c)'
  <2>1. pc'[c] = "fetch"  BY <1>1
  <2>2. \E w \in Values : replies'[c] = <<Token("length", 1), Token("value", w)>>  BY <1>7
  <2> QED  BY <1>1, <1>2, <1>7, <2>1, <2>2 DEF Exact, Back, Token
<1>9. Done(c)' = Append(answers[c], v)
  <2>1. Len(replies'[c]) = 2 /\ replies'[c][2].value = v /\ replies'[c] # <<>>
    BY <1>7 DEF Token
  <2>2. OnItsWay(c)' = v  BY <1>1, <1>2, <2>1 DEF OnItsWay
  <2> QED  BY <1>1, <1>7, <2>1, <2>2 DEF Done, CarriedOut
<1>10. Effective(Call(c), data', v)
  <2>1. Store!Possible(Call(c), data[Call(c).key])  BY <1>4 DEF Store!Possible
  <2>2. \A h : Store!After(Call(c), h) = h  BY <1>2 DEF Store!After
  <2>3. Store!Result(Call(c), data[Call(c).key]) = v  BY <1>2, <1>5 DEF Store!Result
  <2> QED  BY <1>6, <2>1, <2>2, <2>3 DEF Effective
<1>11. Called(c)  BY <1>1, <1>9, <1>10 DEF Called
<1> QED  BY <1>6, <1>8, <1>11 DEF Served, Good, Undelayed

LEMMA ServeServed ==
  ASSUME Good, NEW c \in Remotes, Serve(c)
  PROVE  Served(c)
<1>1. pc[c] \in {"validate", "join", "sent", "poll", "fetch"} /\ Exact(c)  BY ServeParts
<1>2. pc[c] = "sent" => Call(c).op \in {"set", "add"}  BY <1>1 DEF Exact
<1> QED  BY <1>1, <1>2, ServeJoining, ServeSet, ServeAdd, ServeCheck, ServeGet

-----------------------------------------------------------------------------
(* The other steps.                                                         *)

Effect(c) == Joins(c) \/ Unseen(c) \/ Called(c)

\* Of a process that does nothing nothing changes.
LEMMA OthersExact ==
  ASSUME NEW d, plan' = plan, pc'[d] = pc[d], answers'[d] = answers[d],
         requests'[d] = requests[d], replies'[d] = replies[d]
  PROVE  Done(d)' = Done(d) /\ (Exact(d) => Exact(d)')
<1>1. Call(d)' = Call(d)  BY DEF Call
<1>2. CarriedOut(d)' <=> CarriedOut(d)  BY <1>1 DEF CarriedOut, Ready, Token
<1>3. OnItsWay(d)' = OnItsWay(d)  BY <1>1 DEF OnItsWay
<1>4. Done(d)' = Done(d)  BY <1>2, <1>3 DEF Done
<1>5. Exact(d) => Exact(d)'
  BY <1>1 DEF Exact, Under, Back, Self, Ack, NotReady, Ready, Token
<1> QED  BY <1>4, <1>5

\* What a step of one process has to do for the whole.
Whole(c) == /\ plan' = plan /\ Effect(c) /\ Undelayed'
            /\ \A d \in Clients : d # c => Done(d)' = Done(d) /\ pc'[d] = pc[d]

LEMMA OneProcess ==
  ASSUME Good, NEW c \in Clients, plan' = plan, Effect(c),
         c \in Remotes => Exact(c)', timeouts' = 0, late' = late,
         \A k \in Names : data'[k] # Garbled, up' = "closed" => Met',
         \A d \in Clients : d # c =>
           /\ pc'[d] = pc[d] /\ answers'[d] = answers[d]
           /\ requests'[d] = requests[d] /\ replies'[d] = replies[d]
  PROVE  Whole(c)
<1>1. \A d \in Clients : d # c => Done(d)' = Done(d) /\ pc'[d] = pc[d] /\ (Exact(d) => Exact(d)')
  BY OthersExact
<1>2. \A d \in Remotes : d \in Clients /\ Exact(d) /\ ~ late[d]
  BY DEF Good, Undelayed, Remotes
<1>3. \A d \in Remotes : Exact(d)'  BY <1>1, <1>2
<1>4. \A d \in Clients : ~ late'[d]  BY DEF Good, Undelayed
<1>5. Undelayed'  BY <1>3, <1>4 DEF Undelayed
<1> QED  BY <1>1, <1>5 DEF Whole

LEMMA StepWhole ==
  ASSUME Good, NEW c \in Remotes, Step(c)
  PROVE  Whole(c)
<1>1. StepsUnseen(c) /\ (pc[c] = "start" <=> Connect(c))  BY StepUnseen
<1>2. c \in Clients /\ c # Server /\ Typed  BY GoodClient DEF Good
<1>3. Acts(c) /\ data' = data  BY <1>2, StepActs
<1>4. Effect(c)
  BY <1>1, <1>3 DEF StepsUnseen, Effect, Joins, Unseen, Held
<1>5. up' # "closed"
  <2>1. pc[c] \notin {"comm", "closed"}
    BY NothingCloses DEF Step, Connect, Validated, Joined, Ask, SetReturns, AddReturns, Polled,
                         LengthRead, ValueRead
  <2>2. up # "closed"  BY <1>2, <2>1 DEF Good, Undelayed, Met
  <2> QED  BY <1>1, <2>2 DEF StepsUnseen
<1>6. \A k \in Names : data'[k] # Garbled  BY <1>3 DEF Good, Undelayed
<1>7. Exact(c)' /\ timeouts' = 0 /\ late' = late  BY <1>1 DEF StepsUnseen, Good, Undelayed
<1>8. plan' = plan  BY <1>3 DEF Acts
<1>9. \A d \in Clients : d # c =>
           /\ pc'[d] = pc[d] /\ answers'[d] = answers[d]
           /\ requests'[d] = requests[d] /\ replies'[d] = replies[d]
  BY <1>2, <1>3, OthersStay
<1> QED  BY <1>2, <1>4, <1>5, <1>6, <1>7, <1>8, <1>9, OneProcess

LEMMA ServeWhole ==
  ASSUME Good, NEW c \in Remotes, Serve(c)
  PROVE  Whole(c)
<1>1. Served(c)  BY ServeServed
<1>2. c \in Clients /\ Typed /\ UNCHANGED <<up, pc, plan, answers, late, timeouts>>
  BY ServeParts
<1>3. Taken(c) /\ Put(c)  BY <1>2, ServeStep
<1>4. up' # "closed"  BY <1>2 DEF Serve
<1>5. Effect(c) /\ Exact(c)' /\ \A k \in Names : data'[k] # Garbled
  BY <1>1 DEF Served, Effect
<1>6. \A d \in Clients : d # c =>
           /\ pc'[d] = pc[d] /\ answers'[d] = answers[d]
           /\ requests'[d] = requests[d] /\ replies'[d] = replies[d]
  BY <1>2, <1>3 DEF Taken, Put, Typed
<1>7. timeouts' = 0 /\ late' = late  BY <1>2 DEF Good, Undelayed
<1> QED  BY <1>2, <1>4, <1>5, <1>6, <1>7, OneProcess

LEMMA ServerFacts ==
  ASSUME Good
  PROVE  Server \in Clients /\ Server \notin Remotes /\ Typed /\ Done(Server) = answers[Server]
         /\ Done(Server)' = answers'[Server]
BY NotCarriedOut, NotCarriedOutThen DEF Good, Remotes

LEMMA ListenWhole ==
  ASSUME Good, Listen
  PROVE  Whole(Server)
<1>1. Server \in Clients /\ Server \notin Remotes /\ Typed /\ Done(Server)' = Done(Server)
  BY ServerFacts DEF Listen
<1>2. pc[Server] = "start" /\ pc'[Server] = "join"  BY <1>1 DEF Listen, Goto, Typed
<1>3. Effect(Server)  BY <1>1, <1>2 DEF Effect, Joins, Held, Listen
<1>4. \A d \in Clients : d # Server => pc'[d] = pc[d]  BY <1>1 DEF Listen, Goto, Typed
<1> QED  BY <1>1, <1>3, <1>4, OneProcess DEF Listen, Good, Undelayed

LEMMA ServerJoinWhole ==
  ASSUME Good, ServerJoin
  PROVE  Whole(Server)
<1>1. Server \in Clients /\ Server \notin Remotes /\ Typed /\ Done(Server)' = Done(Server)
  BY ServerFacts DEF ServerJoin
<1>2. pc[Server] = "join" /\ pc'[Server] \in {"ready", "failed"}
  BY <1>1 DEF ServerJoin, Goto, Typed
<1>3. PICK n \in Int : data' = [data EXCEPT ![WorkerCount] = n]
  <2>1. data[WorkerCount] \in Values /\ data[WorkerCount] # Garbled  BY <1>1, NamesType DEF Typed
  <2>2. Sum(data[WorkerCount], 1) \in Int  BY <2>1, SumType
  <2> QED  BY <2>2 DEF ServerJoin
<1>4. Held' = Held
  <2>1. \A k \in Keys : data'[k] = data[k]  BY <1>1, <1>3 DEF Typed, Names
  <2> QED  BY <2>1 DEF Held
<1>5. Effect(Server)  BY <1>1, <1>2, <1>4 DEF Effect, Unseen
<1>6. \A d \in Clients : d # Server => pc'[d] = pc[d]  BY <1>1 DEF ServerJoin, Goto, Typed
<1>7. \A k \in Names : data'[k] # Garbled
  BY <1>1, <1>3 DEF Typed, Good, Undelayed
<1>8. up' # "closed"
  <2>1. up # "closed"  BY <1>1, <1>2 DEF Good, Undelayed, Met
  <2> QED  BY <2>1 DEF ServerJoin
<1> QED  BY <1>1, <1>5, <1>6, <1>7, <1>8, OneProcess DEF ServerJoin, Good, Undelayed

LEMMA OwnWhole ==
  ASSUME Good, Orderly, OwnCall
  PROVE  Whole(Server)
<1>1. /\ Server \in Clients /\ Server \notin Remotes /\ Typed
      /\ Done(Server) = answers[Server] /\ Done(Server)' = answers'[Server]
  BY ServerFacts
<1>2. pc[Server] = "ready" /\ Calling(Server)  BY DEF OwnCall
<1>3. Call(Server) \in StoreCall  BY <1>1, <1>2, CallType
<1>4. Call(Server).op # "get"
  <2>1. plan \in Plans /\ plan.timeouts = 0  BY <1>1 DEF Typed, Good, Promised
  <2>2. plan.calls[Server] \in Seq(StoreCall) /\ answers[Server] \in Seq(Values)
    BY <1>1, <2>1 DEF Typed
  <2>3. Len(answers[Server]) + 1 \in DOMAIN plan.calls[Server]
    BY <1>2, <2>2 DEF Calling
  <2> QED  BY <2>1, <2>3 DEF Orderly, Call
<1> DEFINE call == Call(Server)
<1>5. /\ call.op \in {"set", "add", "wait"} /\ call.key \in Names /\ call.value \in Int
      /\ data[call.key] \in Int \cup {Empty}
  <2>1. call.op \in {"set", "add", "wait"} /\ call.key \in Names /\ call.value \in Int
    BY <1>3, <1>4, NamesType DEF StoreCall
  <2>2. data[call.key] \in Values /\ data[call.key] # Garbled
    BY <1>1, <2>1 DEF Typed, Good, Undelayed
  <2> QED  BY <2>1, <2>2 DEF Values
<1>6. PICK a \in Values :
        /\ Finish(Server, a) /\ Effective(call, data', a)
        /\ \A k \in Names : data'[k] # Garbled
  <2>0. \A k \in Names : data[k] # Garbled  BY DEF Good, Undelayed
  <2>1. CASE call.op = "set"
    <3>1. data' = [data EXCEPT ![call.key] = call.value] /\ Finish(Server, Empty)
      BY <2>1 DEF OwnCall
    <3>2. Effective(call, data', Empty)
      <4>1. Store!Possible(call, data[call.key])  BY <2>1 DEF Store!Possible
      <4>2. \A h : Store!After(call, h) = call.value  BY <2>1 DEF Store!After
      <4>3. Store!Result(call, data[call.key]) = Empty  BY <2>1 DEF Store!Result
      <4>4. \A k \in Keys : data'[k] = IF k = call.key THEN call.value ELSE data[k]
        BY <1>1, <3>1, NamesType DEF Typed
      <4> HIDE DEF call
      <4> QED  BY <4>1, <4>2, <4>3, <4>4 DEF Effective
    <3>3. \A k \in Names : data'[k] # Garbled  BY <1>1, <1>5, <2>0, <3>1 DEF Typed
    <3> QED  BY <3>1, <3>2, <3>3, LabelTypes
  <2>2. CASE call.op = "add"
    <3> DEFINE n == Sum(data[call.key], call.value)
    <3>1. data' = [data EXCEPT ![call.key] = n] /\ Finish(Server, n)
      BY <1>5, <2>2 DEF OwnCall
    <3>2. n \in Int  BY <1>5 DEF Sum
    <3>3. Effective(call, data', n)
      <4>0. \A h : Store!Sum(h, call.value) = Sum(h, call.value)  BY DEF Store!Sum, Sum
      <4>1. Store!Possible(call, data[call.key])  BY <2>2 DEF Store!Possible
      <4>2. \A h : Store!After(call, h) = Sum(h, call.value)  BY <2>2, <4>0 DEF Store!After
      <4>3. Store!Result(call, data[call.key]) = n  BY <2>2, <4>0 DEF Store!Result
      <4>4. \A k \in Keys : data'[k] = IF k = call.key THEN Sum(data[k], call.value) ELSE data[k]
        BY <1>1, <3>1, NamesType DEF Typed
      <4> HIDE DEF call, n
      <4> QED  BY <4>1, <4>2, <4>3, <4>4 DEF Effective
    <3>4. \A k \in Names : data'[k] # Garbled  BY <1>1, <1>5, <2>0, <3>1, <3>2 DEF Typed
    <3> QED  BY <3>1, <3>2, <3>3, <3>4, NamesType
  <2>3. CASE call.op = "wait"
    <3>1. data' = data /\ Finish(Server, Empty) /\ data[call.key] # Empty
      BY <2>3 DEF OwnCall
    <3>2. Effective(call, data', Empty)
      <4>1. Store!Possible(call, data[call.key])  BY <3>1 DEF Store!Possible
      <4>2. \A h : Store!After(call, h) = h  BY <2>3 DEF Store!After
      <4>3. Store!Result(call, data[call.key]) = Empty  BY <2>3 DEF Store!Result
      <4> HIDE DEF call
      <4> QED  BY <3>1, <4>1, <4>2, <4>3 DEF Effective
    <3> QED  BY <2>0, <3>1, <3>2, LabelTypes
  <2> QED  BY <1>5, <2>1, <2>2, <2>3
<1>7. pc'[Server] = "ready" /\ answers'[Server] = Append(answers[Server], a)
  BY <1>1, <1>6 DEF Finish, Goto, Typed
<1>8. Effect(Server)  BY <1>1, <1>2, <1>6, <1>7 DEF Effect, Called
<1>9. \A d \in Clients : d # Server => pc'[d] = pc[d] /\ answers'[d] = answers[d]
  BY <1>1, <1>6 DEF Finish, Goto, Typed
<1>10. up' # "closed"
  <2>1. up # "closed"  BY <1>1, <1>2 DEF Good, Undelayed, Met
  <2> QED  BY <2>1 DEF OwnCall
<1> QED  BY <1>1, <1>6, <1>8, <1>9, <1>10, OneProcess DEF OwnCall, Good, Undelayed

LEMMA EndWhole ==
  ASSUME Good, Orderly, NEW c \in Clients, Meet(c) \/ Shutdown(c)
  PROVE  Whole(c)
<1>1. Typed /\ UNCHANGED <<data, plan, answers, requests, replies, late, timeouts>>
  BY DEF Good, Meet, Shutdown
<1>2. plan.collective  BY <1>1 DEF Typed, Good, Promised, Orderly
<1>3. pc[c] \in {"ready", "comm"} /\ pc'[c] \in {"comm", "closed"}
  BY <1>1, <1>2 DEF Meet, Shutdown, Through, Goto, Typed
<1>4. \A d \in Clients : d # c => pc'[d] = pc[d]
  BY <1>1 DEF Meet, Shutdown, Goto, Typed
<1>5. c \in Remotes => Exact(c)'
  <2> SUFFICES ASSUME c \in Remotes PROVE Exact(c)'  OBVIOUS
  <2>1. requests[c] = <<>> /\ replies[c] = <<>>  BY <1>3, GoodClient DEF Exact, Back
  <2> QED  BY <1>1, <1>3, <2>1 DEF Exact, Back
<1>6. Effect(c)
  <2>1. Done(c) = answers[c]  BY <1>3, NotCarriedOut DEF InCall
  <2>2. Done(c)' = answers'[c]  BY <1>3, NotCarriedOutThen DEF InCall
  <2> QED  BY <1>1, <1>3, <2>1, <2>2 DEF Effect, Unseen, Held
<1>7. up' = "closed" => Met'
  <2> SUFFICES ASSUME up' = "closed" PROVE Met'  OBVIOUS
  <2>1. Met
    <3>1. CASE Meet(c)
      <4>1. up = "closed"  BY <3>1 DEF Meet
      <4> QED  BY <4>1 DEF Good, Undelayed
    <3>2. CASE Shutdown(c)  BY <1>2, <3>2 DEF Shutdown, Through
    <3> QED  BY <3>1, <3>2
  <2> QED  BY <1>3, <1>4, <2>1 DEF Met
<1> QED  BY <1>1, <1>4, <1>5, <1>6, <1>7, OneProcess DEF Good, Undelayed

LEMMA NextWhole ==
  ASSUME Good, Orderly, Next
  PROVE  \E c \in Clients : Whole(c)
<1>1. Server \in Clients /\ Remotes \subseteq Clients  BY DEF Remotes
<1>2. \A c \in Remotes : ~ TimeOut(c) /\ ~ GiveUp(c)  BY NothingCloses
<1>3. CASE Listen  BY <1>1, <1>3, ListenWhole
<1>4. CASE ServerJoin  BY <1>1, <1>4, ServerJoinWhole
<1>5. CASE OwnCall  BY <1>1, <1>5, OwnWhole
<1>6. CASE \E c \in Remotes : Serve(c)  BY <1>1, <1>6, ServeWhole
<1>7. CASE \E c \in Remotes : Step(c)  BY <1>1, <1>7, StepWhole
<1>8. CASE \E c \in Clients : Meet(c) \/ Shutdown(c)  BY <1>8, EndWhole
<1> QED  BY <1>2, <1>3, <1>4, <1>5, <1>6, <1>7, <1>8 DEF Next

\* What is on every connection, when nothing is late.
LEMMA ExactlyInit == Init => Exactly
<1> SUFFICES ASSUME Init PROVE Undelayed  BY DEF Exactly
<1>1. \A c \in Remotes : Exact(c)
  BY DEF Init, Exact, Back, Remotes
<1>2. \A k \in Names : data[k] # Garbled  BY DEF Init
<1> QED  BY <1>1, <1>2 DEF Init, Undelayed

LEMMA ExactlyStep ==
  ASSUME Orderly
  PROVE  IInv /\ Exactly /\ [Next]_vars => Exactly'
<1> SUFFICES ASSUME IInv, Exactly, [Next]_vars, Promised' PROVE Undelayed'
  BY DEF Exactly
<1>1. CASE UNCHANGED vars
  <2>1. Undelayed  BY <1>1 DEF vars, Exactly, Promised
  <2>2. \A c \in Remotes : Exact(c)'
    <3> SUFFICES ASSUME NEW c \in Remotes PROVE Exact(c)'  OBVIOUS
    <3> QED  BY <1>1, <2>1, OthersExact DEF vars, Undelayed
  <2> QED  BY <1>1, <2>1, <2>2 DEF vars, Undelayed, Met
<1>2. CASE Next
  <2>1. plan' = plan
    BY <1>2 DEF Next, Listen, ServerJoin, OwnCall, Serve, Step, TimeOut, GiveUp, Meet, Shutdown,
       Connect, Validated, Joined, Ask, SetReturns, AddReturns, Polled, LengthRead, ValueRead,
       Closed, EmptyRead
  <2>2. Promised  BY <2>1 DEF Promised
  <2>3. Good  BY <2>2 DEF Exactly, Good, IInv
  <2> QED  BY <1>2, <2>3, NextWhole DEF Whole
<1> QED  BY <1>1, <1>2

\* What is left of a program after its next call.
LEMMA RestAfter ==
  ASSUME NEW S, NEW s \in Seq(S), NEW n \in Nat, n < Len(s)
  PROVE  /\ SubSeq(s, n + 1, Len(s)) # <<>>
         /\ Head(SubSeq(s, n + 1, Len(s))) = s[n + 1]
         /\ Tail(SubSeq(s, n + 1, Len(s))) = SubSeq(s, (n + 1) + 1, Len(s))
<1>1. Len(s) \in Nat  OBVIOUS
<1>2. PICK t : t = SubSeq(s, n + 1, Len(s))  OBVIOUS
<1>3. PICK m \in Nat : m = Len(s) - n  BY <1>1
<1>4. t \in Seq(S) /\ Len(t) = m /\ m > 0 /\ \A i \in 1 .. m : t[i] = s[n + i]
  BY <1>1, <1>2, <1>3, SubSeqProperties
<1>5. t # <<>> /\ Head(t) = s[n + 1]  BY <1>4
<1>6. PICK u : u = SubSeq(s, (n + 1) + 1, Len(s))  OBVIOUS
<1>7. u \in Seq(S) /\ Len(u) = m - 1 /\ \A i \in 1 .. (m - 1) : u[i] = s[n + 1 + i]
  BY <1>1, <1>3, <1>4, <1>6, SubSeqProperties
<1>8. Tail(t) \in Seq(S) /\ Len(Tail(t)) = m - 1 /\ \A i \in 1 .. (m - 1) : Tail(t)[i] = t[i + 1]
  BY <1>4, <1>5
<1>9. Tail(t) = u
  <2>1. \A i \in 1 .. (m - 1) : Tail(t)[i] = u[i]
    BY <1>3, <1>4, <1>7, <1>8
  <2> QED  BY <1>7, <1>8, <2>1, SeqEqual
<1> QED  BY <1>2, <1>5, <1>6, <1>9

\* The state of the abstract store.
Users    == {c \in Clients : pc[c] # "start"}
ToCome   == [c \in Clients |-> SubSeq(plan.calls[c], Len(Done(c)) + 1, Len(plan.calls[c]))]
Returned == [c \in Clients |-> Done(c)]

Mapping ==
  /\ {c \in Clients : Promised /\ pc[c] # "start"} = Users
  /\ [k \in Keys |-> IF Promised THEN data[k] ELSE Empty] = Held
  /\ [c \in Clients |-> SubSeq(plan.calls[c], Len(Answered(c)) + 1, Len(plan.calls[c]))] = ToCome
  /\ [c \in Clients |-> Answered(c)] = Returned

LEMMA Mapped == Promised => Mapping
<1> SUFFICES ASSUME Promised PROVE Mapping  OBVIOUS
<1>1. \A c : Answered(c) = Done(c)  BY DEF Answered, Done
<1> QED  BY <1>1 DEF Mapping, Users, Held, ToCome, Returned

LEMMA MappedThen == Promised' => Mapping'
<1> SUFFICES ASSUME Promised' PROVE Mapping'  OBVIOUS
<1>1. \A c : Answered(c)' = Done(c)'  BY DEF Answered, Done
<1> QED  BY <1>1 DEF Mapping, Users, Held, ToCome, Returned

LEMMA InitMapped == Init => Store!Init
<1> SUFFICES ASSUME Init PROVE Store!Init  OBVIOUS
<1>1. plan.calls \in [Clients -> Seq(StoreCall)] /\ plan \in Plans  BY DEF Init
<1>2. \A c \in Clients : Answered(c) = <<>>
  BY DEF Init, Answered, CarriedOut
<1>3. [c \in Clients |-> SubSeq(plan.calls[c], Len(Answered(c)) + 1, Len(plan.calls[c]))] = plan.calls
  <2>1. ASSUME NEW c \in Clients
        PROVE  SubSeq(plan.calls[c], Len(Answered(c)) + 1, Len(plan.calls[c])) = plan.calls[c]
    <3>1. plan.calls[c] \in Seq(StoreCall) /\ Len(Answered(c)) + 1 = 1  BY <1>1, <1>2
    <3> QED  BY <3>1, SubSeqProperties
  <2> QED  BY <1>1, <2>1
<1>4. {c \in Clients : Promised /\ pc[c] # "start"} = {}  BY DEF Init
<1>5. [k \in Keys |-> IF Promised THEN data[k] ELSE Empty] = [k \in Keys |-> Empty]
  BY NamesType DEF Init
<1>6. [c \in Clients |-> Answered(c)] = [c \in Clients |-> <<>>]  BY <1>2
<1> QED  BY <1>1, <1>3, <1>4, <1>5, <1>6 DEF Store!Init, Store!Nothing

LEMMA StepMapped ==
  ASSUME Orderly
  PROVE  IInv /\ Exactly /\ [Next]_vars => [Store!Next]_(Store!vars)
<1> SUFFICES ASSUME IInv, Exactly, [Next]_vars PROVE [Store!Next]_(Store!vars)
  OBVIOUS
<1>0. plan' = plan
  BY DEF vars, Next, Listen, ServerJoin, OwnCall, Serve, Step, TimeOut, GiveUp, Meet, Shutdown,
     Connect, Validated, Joined, Ask, SetReturns, AddReturns, Polled, LengthRead, ValueRead,
     Closed, EmptyRead
<1>1. CASE ~ Promised
  <2>1. ~ Promised'  BY <1>0, <1>1 DEF Promised
  <2> QED  BY <1>0, <1>1, <2>1 DEF Store!vars, Answered
<1>2. CASE Promised
  <2>1. Promised' /\ Mapping /\ Mapping'  BY <1>0, <1>2, Mapped, MappedThen DEF Promised
  <2>2. CASE UNCHANGED vars
    <3>1. \A c \in Clients : Done(c)' = Done(c)  BY <2>2, OthersExact DEF vars
    <3>2. Users' = Users /\ Held' = Held /\ ToCome' = ToCome /\ Returned' = Returned
      BY <2>2, <3>1 DEF vars, Users, Held, ToCome, Returned
    <3> QED  BY <2>1, <3>2 DEF Mapping, Store!vars
  <2>3. CASE Next
    <3>1. Good  BY <1>2 DEF Good, IInv, Exactly
    <3>2. PICK c \in Clients : Whole(c)  BY <2>3, <3>1, NextWhole
    <3>3. \A d \in Clients : d # c => Done(d)' = Done(d) /\ pc'[d] = pc[d]  BY <3>2 DEF Whole
    <3>4. CASE Unseen(c)
      <4>1. \A d \in Clients : Done(d)' = Done(d) /\ (pc[d] = "start" <=> pc'[d] = "start")
        BY <3>3, <3>4 DEF Unseen
      <4>2. Users' = Users /\ Held' = Held /\ ToCome' = ToCome /\ Returned' = Returned
        BY <1>0, <3>4, <4>1 DEF Unseen, Users, ToCome, Returned
      <4> QED  BY <2>1, <4>2 DEF Mapping, Store!vars
    <3>5. CASE Joins(c)
      <4>1. \A d \in Clients : Done(d)' = Done(d)  BY <3>3, <3>5 DEF Joins
      <4>2. Held' = Held /\ ToCome' = ToCome /\ Returned' = Returned
        BY <1>0, <3>5, <4>1 DEF Joins, ToCome, Returned
      <4>3. c \notin Users /\ Users' = Users \cup {c}  BY <3>3, <3>5 DEF Joins, Users
      <4>4. Store!Join(c)  BY <2>1, <4>2, <4>3 DEF Mapping, Store!Join
      <4> QED  BY <4>4 DEF Store!Next
    <3>6. CASE Called(c)
      <4>1. PICK a : Effective(Call(c), data', a) /\ Done(c)' = Append(answers[c], a)
        BY <3>6 DEF Called
      <4>2. /\ c \in Users /\ Users' = Users /\ Calling(c) /\ Done(c) = answers[c]
        BY <3>3, <3>6 DEF Called, Users
      <4>3. PICK s \in Seq(StoreCall) : s = plan.calls[c]
        BY <3>1 DEF Good, Typed
      <4>4. PICK n \in Nat : n = Len(answers[c]) /\ n < Len(s) /\ Call(c) = s[n + 1]
        <5>1. answers[c] \in Seq(Values)  BY <3>1 DEF Good, Typed
        <5> QED  BY <4>2, <4>3, <5>1 DEF Calling, Call
      <4>5. Len(Append(answers[c], a)) = n + 1
        <5>1. answers[c] \in Seq(Values)  BY <3>1 DEF Good, Typed
        <5> QED  BY <4>4, <5>1
      <4>6. /\ ToCome[c] # <<>> /\ Head(ToCome[c]) = Call(c)
            /\ ToCome' = [ToCome EXCEPT ![c] = Tail(ToCome[c])]
        <5>1. ToCome[c] = SubSeq(s, n + 1, Len(s))  BY <4>2, <4>3, <4>4 DEF ToCome
        <5>2. ToCome'[c] = SubSeq(s, (n + 1) + 1, Len(s))
          BY <1>0, <4>1, <4>3, <4>5 DEF ToCome
        <5>3. ToCome'[c] = Tail(ToCome[c])  BY <4>4, <5>1, <5>2, RestAfter
        <5>4. \A d \in Clients : d # c => ToCome'[d] = ToCome[d]  BY <1>0, <3>3 DEF ToCome
        <5>5. ToCome' = [ToCome EXCEPT ![c] = Tail(ToCome[c])]
          BY <5>3, <5>4 DEF ToCome
        <5> QED  BY <4>4, <5>1, <5>5, RestAfter
      <4>7. Returned' = [Returned EXCEPT ![c] = Append(Returned[c], a)]
        BY <3>3, <4>1, <4>2 DEF Returned
      <4>8. Call(c).key \in Keys
        <5>1. Call(c) \in StoreCall  BY <3>1, <4>2, CallType DEF Good
        <5> QED  BY <5>1 DEF StoreCall
      <4>9. /\ Held[Call(c).key] = data[Call(c).key]
            /\ Held' = [Held EXCEPT ![Call(c).key] = Store!After(Call(c), Held[Call(c).key])]
        BY <4>1, <4>8 DEF Held, Effective
      <4>10. Store!Possible(Call(c), Held[Call(c).key]) /\ a = Store!Result(Call(c), Held[Call(c).key])
        BY <4>1, <4>9 DEF Effective
      <4>11. Store!Call(c)
        BY <2>1, <4>2, <4>6, <4>7, <4>9, <4>10 DEF Mapping, Store!Call
      <4> QED  BY <4>11 DEF Store!Next
    <3> QED  BY <3>2, <3>4, <3>5, <3>6 DEF Whole, Effect
  <2> QED  BY <2>2, <2>3
<1> QED  BY <1>1, <1>2

\* On every connection there is, to the byte, the request of the call that its client
\* is at or the reply to it, as long as nothing is late.
THEOREM ExactExchange ==
  ASSUME Orderly
  PROVE  Spec => [](IInv /\ Exactly)
<1> QED  BY InitTrue, NextTrue, ExactlyInit, ExactlyStep, PTL DEF Spec

\* The server and its clients implement the store of atomic calls: a call is made when
\* the thread of its connection (_handle_client), or the server itself, carries it out.
THEOREM Refinement ==
  ASSUME Orderly
  PROVE  Spec => StoreSpec
<1> QED  BY InitMapped, StepMapped, ExactExchange, PTL DEF Spec, StoreSpec, Store!Spec

=============================================================================
