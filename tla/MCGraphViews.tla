----------------------------- MODULE MCGraphViews ----------------------------
(***************************************************************************)
(* GraphMemory for TLC, on graphs whose views process_share_map does not   *)
(* handle: a block is freed while a view of it is still to be read.        *)
(***************************************************************************)
EXTENDS GraphMemory

MCTensors == 0 .. 5

Node(ins, out, share) == [inputs |-> ins, outputs |-> <<out>>, share |-> share]

OneGraph(nodes, outs) ==
  {[nodes |-> nodes, inputs |-> {0}, outputs |-> outs,
    size |-> [t \in MCTensors |-> 1], device |-> [t \in MCTensors |-> "cuda"]]}

\* An intermediate tensor, a view of it, and two nodes that read the view.
ViewReadTwice ==
  OneGraph(<<Node(<<0>>, 1, FALSE), Node(<<1>>, 2, TRUE), Node(<<2>>, 3, FALSE),
             Node(<<3>>, 4, FALSE), Node(<<2, 4>>, 5, FALSE)>>, <<5>>)

\* An intermediate tensor, a view of it, a view of the view, and a node that reads that.
ViewOfView ==
  OneGraph(<<Node(<<0>>, 1, FALSE), Node(<<1>>, 2, TRUE), Node(<<2>>, 3, TRUE),
             Node(<<3>>, 4, FALSE), Node(<<4>>, 5, FALSE)>>, <<5>>)

FreedEarly == ViewReadTwice \cup ViewOfView

=============================================================================
