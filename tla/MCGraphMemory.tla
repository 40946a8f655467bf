---------------------------- MODULE MCGraphMemory ----------------------------
(***************************************************************************)
(* GraphMemory for TLC.  Tensor 0 is the graph's input and tensor k the    *)
(* output of node k.  The graphs are the directed acyclic graphs of four   *)
(* nodes, with one or two inputs each, in which every tensor is used, by a *)
(* node or as an output of the graph; and of five or six nodes, where      *)
(* views are of views or several are of one tensor, and an intermediate    *)
(* tensor is made after them.  The nodes that share are any for which      *)
(* their views are handled.                                                *)
(***************************************************************************)
EXTENDS GraphMemory

MCTensors == 0 .. 6

\* The inputs of node k: one earlier tensor, or two in order.
One(k)      == {<<x>> : x \in 0 .. (k - 1)}
OneOrTwo(k) == One(k) \cup {s \in (0 .. (k - 1)) \X (0 .. (k - 1)) : s[1] < s[2]}

UsedIn(w) == UNION {ToSet(w[k]) : k \in DOMAIN w}

Unused(w) == DOMAIN w \ UsedIn(w)

\* The last node's output, every unused tensor, and at most one other.
AreOutputs(o, w) == Unused(w) \subseteq o /\ Cardinality(o \ Unused(w)) <= 1

ViewsIn(s) == {k \in DOMAIN s : s[k]}

\* The nodes that share have one input.
MayShare(s, w) == \A k \in ViewsIn(s) : Len(w[k]) = 1

MakeGraph(w, outs, shares, size, device) ==
  [nodes   |-> [k \in DOMAIN w |->
                  [inputs |-> w[k], outputs |-> <<k>>, share |-> shares[k]]],
   inputs  |-> {0},
   outputs |-> SetToSeq(outs),
   size    |-> size,
   device  |-> device]

AllOne  == [t \in MCTensors |-> 1]
AllCuda == [t \in MCTensors |-> "cuda"]

-----------------------------------------------------------------------------

Wirings == {<<a, b, c, d>> : a \in OneOrTwo(1), b \in OneOrTwo(2),
                             c \in OneOrTwo(3), d \in OneOrTwo(4)}

\* A wiring, the outputs of the graph, and the nodes that share.
Shapes == {x \in Wirings \X (SUBSET (1 .. 4)) \X [1 .. 4 -> BOOLEAN] :
             AreOutputs(x[2], x[1]) /\ MayShare(x[3], x[1])}

\* The large tensors: intermediate ones of a graph without views.  The others, and those
\* that are not in the workspace, have size 1.
AreLarge(large, x) == large # {} => large \cap x[2] = {} /\ ViewsIn(x[3]) = {}

\* Tensor 2 is on the other device; then there is no view of it or by it.
MayMove(moved, x) == moved => \A k \in ViewsIn(x[3]) : k # 2 /\ x[1][k][1] # 2

FourNodes ==
  {MakeGraph(y[1][1], y[1][2], y[1][3],
             [t \in MCTensors |-> IF t \in y[2] THEN 3 ELSE 1],
             [t \in MCTensors |-> IF y[3] /\ t = 2 THEN "cpu" ELSE "cuda"]) :
     y \in {y \in Shapes \X (SUBSET (1 .. 4)) \X BOOLEAN :
              AreLarge(y[2], y[1]) /\ MayMove(y[3], y[1])}}

\* Nodes with one input each and a last one that gathers what is left; the views share
\* the memory of an intermediate tensor, none of which is an output.
FiveNodes == {<<a, b, c, d, e>> : a \in One(1), b \in One(2), c \in One(3), d \in OneOrTwo(4),
                                  e \in OneOrTwo(5)}
SixNodes  == {<<a, b, c, d, e, f>> : a \in One(1), b \in One(2), c \in One(3), d \in One(4),
                                     e \in One(5), f \in OneOrTwo(6)}

Inside(g) ==
  LET root == Root(g)
  IN  \A k \in DOMAIN g.nodes : g.nodes[k].share =>
        root[k] # 0 /\ \A t \in ToSet(g.outputs) : root[t] # root[k]

\* The graphs of n nodes on these wirings, with so many views or more, or none.
MoreNodes(n, wirings, views) ==
  {g \in {MakeGraph(x[1], {n}, x[2], AllOne, AllCuda) :
            x \in {x \in {w \in wirings : Unused(w) = {n}} \X [1 .. n -> BOOLEAN] :
                     MayShare(x[2], x[1]) /\ Cardinality(ViewsIn(x[2])) \notin 1 .. (views - 1)}} :
     Inside(g)}

MCGraphs ==
  {g \in FourNodes \cup MoreNodes(5, FiveNodes, 2) \cup MoreNodes(6, SixNodes, 3) : ViewsHandled(g)}

\* The theorems of GraphMemoryProofs are about some of these graphs.
ASSUME ApartAreHandled == \A g \in FourNodes : ViewsApart(g) => ViewsHandled(g)

=============================================================================
