--------------------------- MODULE KeyValueStore ---------------------------
(***************************************************************************)
(* What a store of hidet.distributed promises to the clients that share it *)
(* (class Store, distributed/store.py): every call takes effect at once,   *)
(* and the contents live at least as long as some client uses the store.   *)
(***************************************************************************)
EXTENDS Integers, Sequences

CONSTANTS Clients, Keys,
          Programs,  \* what the clients may do: functions to sequences of calls
          Empty      \* b'': what an absent key is equal to; also "no answer"

VARIABLES users,     \* the clients that use the store
          contents,  \* the value of every key, Empty when it has none
          calls,     \* the calls each client has still to make
          answers    \* what its calls returned, in order

vars == <<users, contents, calls, answers>>

Nothing == [k \in Keys |-> Empty]

Init == /\ users = {} /\ contents = Nothing
        /\ calls \in Programs /\ answers = [c \in Clients |-> <<>>]

Join(c) == /\ c \notin users
           /\ users' = users \cup {c}
           /\ UNCHANGED <<contents, calls, answers>>

\* Only the departure of the last user may clear the store, and it need not.
Leave(c) == /\ c \in users
            /\ users' = users \ {c}
            /\ contents' \in IF users' = {} THEN {contents, Nothing} ELSE {contents}
            /\ UNCHANGED <<calls, answers>>

Sum(old, amount) == (IF old = Empty THEN 0 ELSE old) + amount

\* Whether a call can return when its key holds held, ...
Possible(call, held) == call.op \in {"get", "wait"} => held # Empty

\* ... what the key holds after it, ...
After(call, held) ==
  CASE call.op = "set"    -> call.value
    [] call.op = "delete" -> Empty
    [] call.op = "add"    -> Sum(held, call.value)
    [] call.op = "compare_set" /\ held = call.expected -> call.value
    [] OTHER -> held

\* ... and what it returns: compare_set says what the key holds in the end.
Result(call, held) ==
  CASE call.op = "get" -> held
    [] call.op = "add" -> Sum(held, call.value)
    [] call.op = "compare_set" /\ held = call.expected -> call.value
    [] call.op = "compare_set" /\ held # call.expected ->
         IF held = Empty THEN call.expected ELSE held
    [] OTHER -> Empty

Call(c) ==
  /\ c \in users /\ calls[c] # <<>>
  /\ LET call == Head(calls[c])
         held == contents[call.key]
     IN  /\ Possible(call, held)
         /\ contents' = [contents EXCEPT ![call.key] = After(call, held)]
         /\ answers' = [answers EXCEPT ![c] = Append(@, Result(call, held))]
  /\ calls' = [calls EXCEPT ![c] = Tail(@)]
  /\ UNCHANGED users

Next == \E c \in Clients : Join(c) \/ Leave(c) \/ Call(c)

Spec == Init /\ [][Next]_vars

============================================================================
