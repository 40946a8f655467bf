-------------------------- MODULE MCDispatchTable --------------------------
(***************************************************************************)
(* DispatchTable for TLC: two processes and a graph of a dynamic and a     *)
(* static task.  One process may be killed, so that the other meets what   *)
(* it left.                                                                *)
(***************************************************************************)
EXTENDS DispatchTable

CONSTANTS p1, p2

MCSplits == <<1, 2, 4>>

Plan(m, first, second) ==
  [mode |-> m, kills |-> 1, todo |-> [p \in Processes |-> IF p = p1 THEN first ELSE second]]

MCPlans == {
  \* inside, at the end of and beyond the intervals, and with a table loaded again
  Plan("interval", <<1, 5>>, <<Clear, 3, 2>>),
  \* the same values by both, by one of them after it looked at the file again
  Plan("points", <<1, 2>>, <<2, Clear, 1>>)}

=============================================================================
