----------------------------- MODULE GraphMemory -----------------------------
(***************************************************************************)
(* The memory of a compiled graph (drivers/build_graph.py).  For a graph   *)
(* the builder generates get_workspace_size, which replays the allocations *)
(* of a run to measure how much workspace it needs, and launch, which      *)
(* makes the same allocations inside the workspace and calls the kernels.  *)
(* Both first let tensors that share memory share one address variable     *)
(* (process_share_map), and both free a tensor's block when the count of   *)
(* its uses reaches zero.                                                  *)
(*                                                                         *)
(* A run of the model measures once and then launches any number of times. *)
(* To say what a launch must not do, the model also keeps which tensors'   *)
(* values are intact in memory, and where (valid, place).                  *)
(***************************************************************************)
EXTENDS Regions, FiniteSets

CONSTANTS Tensors,   \* the tensors of a graph
          Graphs     \* the graphs considered, see Node and Graph

\* One planner and one workspace for each.  (A third planner, for hip, is initialised
\* too and stays empty: Tensor2VarMap.get_full_addr has no base for hip, so that a graph
\* with an intermediate tensor there is not built.)
Devices == {"cpu", "cuda"}

NodeType == [inputs : Seq(Tensors), outputs : Seq(Tensors), share : BOOLEAN]

\* A flow graph: its nodes are in topological order, a tensor is computed by one
\* node or is an input of the graph, and a node that shares is an IdentityTask,
\* with one input and one output of the same size on the same device.
ASSUME GraphsAssumption ==
  \A g \in Graphs :
    LET ins(k)  == g.nodes[k].inputs
        outs(k) == g.nodes[k].outputs
    IN
    /\ g.size \in [Tensors -> Nat] /\ g.device \in [Tensors -> Devices]
    /\ g.inputs \subseteq Tensors /\ g.outputs \in Seq(Tensors)
    /\ g.nodes \in Seq(NodeType) /\ g.nodes # << >>
    /\ \A k \in DOMAIN g.nodes :
         /\ \A i \in DOMAIN ins(k) :
              ins(k)[i] \in g.inputs \/ \E j \in 1 .. (k - 1) : ins(k)[i] \in ToSet(outs(j))
         /\ \A i \in DOMAIN outs(k) :
              /\ outs(k)[i] \notin g.inputs
              /\ \A j \in 1 .. (k - 1) : outs(k)[i] \notin ToSet(outs(j))
         /\ g.nodes[k].share =>
              /\ Len(ins(k)) = 1 /\ Len(outs(k)) = 1
              /\ g.size[ins(k)[1]] = g.size[outs(k)[1]]
              /\ g.device[ins(k)[1]] = g.device[outs(k)[1]]
    /\ \A i \in DOMAIN g.outputs :
         g.outputs[i] \in g.inputs \/ \E k \in DOMAIN g.nodes : g.outputs[i] \in ToSet(outs(k))

VARIABLES graph,      \* the graph that is compiled
          mode,       \* which generated function runs: "measure" or "launch"
          pc,         \* where: "share", "alloc", "call", "free" or "done"
          node, arg,  \* the node it is at, and the argument of that node
          change,     \* process_share_map's flag
          map,        \* Tensor2VarMap.map: the variable, locality, uses left
          allocated,  \* Tensor2VarMap.is_var_allocated
          addr,       \* the values of the address variables
          regions, size_map,   \* the planner of each device
          workspace,  \* the sizes get_workspace_size returns
          valid, place         \* tensors whose value is in memory, and where

control == <<mode, pc, node, arg, change>>
planner == <<allocated, addr, regions, size_map>>
memory  == <<valid, place>>
vars    == <<graph, control, map, planner, workspace, memory>>

Nodes     == graph.nodes
Ins(k)    == Nodes[k].inputs
Outs(k)   == Nodes[k].outputs
IsOutput(t) == t \in ToSet(graph.outputs)
IsGlobal(t) == t \in graph.inputs \/ IsOutput(t)

-----------------------------------------------------------------------------

\* The reads of tensors by nodes: a node and the position of one of its inputs.
Reads(g) == UNION {{k} \X DOMAIN g.nodes[k].inputs : k \in DOMAIN g.nodes}

ReadsOf(g, t) == {r \in Reads(g) : g.nodes[r[1]].inputs[r[2]] = t}

\* graph_analyze's usage count: uses by nodes, and by the graph's outputs.
UsageCount(g, t) ==
  Cardinality(ReadsOf(g, t)) + Cardinality({i \in DOMAIN g.outputs : g.outputs[i] = t})

InitMap(g) ==
  [t \in Tensors |->
     [var   |-> t,
      local |-> t \notin g.inputs \cup ToSet(g.outputs),
      usage |-> UsageCount(g, t)]]

\* graph_analyze_share_map: the tensor whose storage t shares, if it shares one.
Root(g) ==
  LET after[k \in 0 .. Len(g.nodes)] ==
        IF k = 0 THEN [t \in Tensors |-> t]
        ELSE IF g.nodes[k].share
             THEN [after[k - 1] EXCEPT ![g.nodes[k].outputs[1]] =
                     after[k - 1][g.nodes[k].inputs[1]]]
             ELSE after[k - 1]
  IN  after[Len(g.nodes)]

\* The buffer an argument variable of launch points to: _create_outputs gives an
\* output that shares memory with a graph input that input's storage.
Buffer(v) == IF IsOutput(v) /\ Root(graph)[v] \in graph.inputs THEN Root(graph)[v] ELSE v

\* get_full_addr: an offset in the workspace, or a buffer passed to launch.
Addr(t) == [inside |-> map[t].local,
            at     |-> IF map[t].local THEN addr[map[t].var] ELSE Buffer(map[t].var)]

\* The bytes of t, written at p, and of u, written at q, have one in common.
Overlap(t, p, u, q) ==
  /\ p.inside = q.inside
  /\ IF p.inside THEN /\ graph.device[t] = graph.device[u]
                      /\ p.at < q.at + graph.size[u]
                      /\ q.at < p.at + graph.size[t]
                 ELSE p.at = q.at

-----------------------------------------------------------------------------

NewLists == [d \in Devices |-> InitRegions]
NoSizes  == [d \in Devices |-> [p \in {} |-> 0]]

Init ==
  /\ graph \in Graphs
  /\ mode = "measure" /\ pc = "share" /\ node = 1 /\ arg = 1 /\ change = FALSE
  /\ map = InitMap(graph)
  /\ allocated = [v \in Tensors |-> FALSE]
  /\ addr = [v \in Tensors |-> NullPtr]
  /\ regions = NewLists /\ size_map = NoSizes
  /\ workspace = [d \in Devices |-> 0]
  /\ valid = graph.inputs
  /\ place = [t \in Tensors |-> [inside |-> FALSE, at |-> t]]

\* Whether two tensors have different address variables.
Differ(x, y) == map[x].var # map[y].var

\* The three ways process_share_map unifies the ends of a node that shares.
Unify(keep, drop, local) ==
  map' = [map EXCEPT ![drop].var   = map[keep].var,
                     ![drop].usage = @ - 1,
                     ![keep].usage = @ + 1,
                     ![drop].local = local]

\* Mutant: the flag is set before it is known that there is something to do.
ChangedByAny(flag, acts) == flag \/ Nodes[node].share

Changed(flag, acts) == flag \/ acts

\* One node in one pass of process_share_map's loop; the pass starts over until
\* a whole one changes nothing.
ShareNode ==
  /\ pc = "share"
  /\ LET in   == Ins(node)[1]
         out  == Outs(node)[1]
         acts == /\ Nodes[node].share
                 /\ map[in].local \/ map[out].local
                 /\ Differ(in, out)
         changed == Changed(change, acts)
     IN  /\ IF ~ acts THEN UNCHANGED map
            ELSE IF ~ map[in].local THEN Unify(in, out, FALSE)
            ELSE IF ~ map[out].local THEN Unify(out, in, FALSE)
            ELSE Unify(in, out, TRUE)
         /\ IF node < Len(Nodes)
            THEN node' = node + 1 /\ change' = changed /\ UNCHANGED pc
            ELSE node' = 1 /\ change' = FALSE /\ pc' = IF changed THEN "share" ELSE "alloc"
  /\ UNCHANGED <<graph, mode, arg, planner, workspace, memory>>

\* Mutant: the size of a block is recorded without the padding.
RecordedShort(sizes, p, size) ==
  [q \in DOMAIN sizes \cup {p} |-> IF q = p THEN size - 1 ELSE sizes[q]]

\* size_map[ret] = size
Recorded(sizes, p, size) ==
  [q \in DOMAIN sizes \cup {p} |-> IF q = p THEN size ELSE sizes[q]]

\* The loop over a node's outputs: a local one with no block yet gets one.
AllocOutput ==
  /\ pc = "alloc" /\ arg <= Len(Outs(node))
  /\ LET y == Outs(node)[arg]
         v == map[y].var
         d == graph.device[y]
         size == Ceil(graph.size[y])
         i == FirstFit(regions[d], size)
     IN  IF ~ allocated[v] /\ map[y].local
         THEN /\ allocated' = [allocated EXCEPT ![v] = TRUE]
              /\ IF graph.size[y] = 0
                 THEN addr' = [addr EXCEPT ![v] = NullPtr] /\ UNCHANGED <<regions, size_map>>
                 ELSE /\ addr' = [addr EXCEPT ![v] = regions[d][i].start]
                      /\ size_map' = [size_map EXCEPT ![d] = Recorded(@, regions[d][i].start, size)]
                      /\ regions' = [regions EXCEPT ![d] = TakeFrom(@, i, size)]
         ELSE UNCHANGED planner
  /\ arg' = arg + 1
  /\ UNCHANGED <<graph, mode, pc, node, change, map, workspace, memory>>

OutputsDone ==
  /\ pc = "alloc" /\ arg > Len(Outs(node))
  /\ pc' = "call" /\ arg' = 1
  /\ UNCHANGED <<graph, mode, node, change, map, planner, workspace, memory>>

\* Mutant: the last size instead of the largest.
Last2(a, b) == b

Max2(a, b) == IF a >= b THEN a ELSE b

\* get_workspace_size_impl, after the outputs of a node have their blocks
Measure ==
  /\ pc = "call" /\ mode = "measure"
  /\ workspace' = [d \in Devices |-> Max2(workspace[d], Used(regions[d]))]
  /\ pc' = "free"
  /\ UNCHANGED <<graph, mode, node, arg, change, map, planner, memory>>

\* A kernel computes its outputs and overwrites what was at their addresses.
Compute(k) ==
  LET ys == ToSet(Outs(k)) IN
  /\ place' = [t \in Tensors |-> IF t \in ys THEN Addr(t) ELSE place[t]]
  /\ valid' = ys \cup {t \in valid : \A y \in ys : ~ Overlap(t, place[t], y, Addr(y))}

\* The kernel of a node that shares (IdentityTask) is empty: its output is where
\* its input is, or has no value.
View(k) ==
  LET x == Ins(k)[1]
      y == Outs(k)[1]
  IN  /\ place' = [place EXCEPT ![y] = Addr(y)]
      /\ valid' = IF x \in valid /\ Addr(y) = place[x] THEN valid \cup {y} ELSE valid \ {y}

CallKernel ==
  /\ pc = "call" /\ mode = "launch"
  /\ IF Nodes[node].share THEN View(node) ELSE Compute(node)
  /\ pc' = "free"
  /\ UNCHANGED <<graph, mode, node, arg, change, map, planner, workspace>>

\* Mutant: one use before the last.
LastUseEarly(x) == map[x].usage = 2 /\ map[x].local

\* The count, not yet decremented, says that this is the last use of a local tensor.
LastUse(x) == map[x].usage = 1 /\ map[x].local

\* The loop over a node's inputs: the last use of a local tensor frees its block.
FreeInput ==
  /\ pc = "free" /\ arg <= Len(Ins(node))
  /\ LET x == Ins(node)[arg]
         v == map[x].var
         d == graph.device[x]
         p == addr[v]
     IN  /\ map' = [map EXCEPT ![x].usage = @ - 1]
         /\ IF LastUse(x)
            THEN /\ allocated' = [allocated EXCEPT ![v] = FALSE]
                 /\ regions' = IF p = NullPtr THEN regions
                               ELSE [regions EXCEPT ![d] = GiveBack(@, p, size_map[d][p])]
                 /\ UNCHANGED <<addr, size_map>>
            ELSE UNCHANGED planner
  /\ arg' = arg + 1
  /\ UNCHANGED <<graph, mode, pc, node, change, workspace, memory>>

NextNode ==
  /\ pc = "free" /\ arg > Len(Ins(node))
  /\ arg' = 1
  /\ IF node < Len(Nodes) THEN node' = node + 1 /\ pc' = "alloc"
                          ELSE pc' = "done" /\ UNCHANGED node
  /\ UNCHANGED <<graph, mode, change, map, planner, workspace, memory>>

\* launch is called: it initialises the planners and starts from the same map.
Launch ==
  /\ pc = "done"
  /\ mode' = "launch" /\ pc' = "share" /\ node' = 1
  /\ map' = InitMap(graph)
  /\ allocated' = [v \in Tensors |-> FALSE]
  /\ regions' = NewLists /\ size_map' = NoSizes
  /\ valid' = graph.inputs
  /\ UNCHANGED <<graph, arg, change, addr, workspace, place>>

Step == \/ ShareNode \/ AllocOutput \/ OutputsDone \/ Measure
        \/ CallKernel \/ FreeInput \/ NextNode

Next == Step \/ Launch

\* The generated function runs to its end once it has been called.
Spec == Init /\ [][Next]_vars /\ WF_vars(Step)

-----------------------------------------------------------------------------

\* The blocks that are in use on device d, by address variable.
Held(d) == {v \in Tensors : allocated[v] /\ graph.device[v] = d /\ addr[v] # NullPtr}

EndOf(v) == addr[v] + size_map[graph.device[v]][addr[v]]

\* The graphs whose views are handled.  process_share_map takes one from the count of a
\* view and adds one to that of its input: in memory that no buffer of the caller
\* stands for, a tensor with k views has a count k too high, and the result of a view
\* one too low.  So the count of a result must not come down to zero: it has two views
\* of its own, or none and one reader at most.  Elsewhere one output is enough to keep
\* all tensors in its buffer, and two need two buffers, unless they have an input's.
ViewsHandled(g) ==
  LET root == Root(g)
      BuffersOf(t) == {u \in ToSet(g.outputs) : root[u] = root[t]}
      ViewsOf(t) == {k \in DOMAIN g.nodes : g.nodes[k].share /\ g.nodes[k].inputs[1] = t}
      Handled(y) ==
        \/ root[y] \in g.inputs
        \/ Cardinality(BuffersOf(y)) = 1
        \/ /\ BuffersOf(y) = {}
           /\ \/ Cardinality(ViewsOf(y)) >= 2
              \/ ViewsOf(y) = {} /\ Cardinality(ReadsOf(g, y)) <= 1
  IN  \A k \in DOMAIN g.nodes : g.nodes[k].share => Handled(g.nodes[k].outputs[1])

\* When a kernel is called, each of its inputs is where the kernel is told to read it,
\* holds what its producer wrote, and is not where the kernel writes (unless the node
\* shares): no block was freed and given to another tensor before the last use was over
\* (the promise of build_graph.py:321).  When launch returns, every output holds its value.
ValuesIntact ==
  LET Intact(x) == x \in valid /\ place[x] = Addr(x)
  IN  mode = "launch" =>
        /\ pc = "call" => \A x \in ToSet(Ins(node)) :
             /\ Intact(x)
             /\ \A y \in ToSet(Outs(node)) : ~Nodes[node].share => ~Overlap(x, Addr(x), y, Addr(y))
        /\ pc = "done" => \A o \in ToSet(graph.outputs) : Intact(o)

\* The kernels of a graph whose views are handled find their operands intact.
OperandsIntact == ViewsHandled(graph) => ValuesIntact

\* What get_workspace_size returned is enough for every block of every launch.
FitsWorkspace ==
  mode = "launch" =>
     \A d \in Devices : \A v \in Held(d) : EndOf(v) <= workspace[d]

\* Every launch ends; in particular process_share_map's loop stops.
Terminates == []<>(pc = "done")

\* Among them, those whose sharing nodes keep out of each other's way: the two tensors
\* of one are not those of another, they are not both outputs of the graph unless the
\* input is one of its inputs, and if both are intermediate the output is read once at
\* most.
ViewsApart(g) ==
  LET V       == {k \in DOMAIN g.nodes : g.nodes[k].share}
      in(k)   == g.nodes[k].inputs[1]
      out(k)  == g.nodes[k].outputs[1]
      IsOut(t) == t \in ToSet(g.outputs)
  IN  \A k \in V :
        /\ \A j \in V : j # k => {in(j), out(j)} \cap {in(k), out(k)} = {}
        /\ IsOut(in(k)) /\ IsOut(out(k)) => in(k) \in g.inputs
        /\ \/ in(k) \in g.inputs \/ IsOut(in(k)) \/ IsOut(out(k))
           \/ \A r, s \in ReadsOf(g, out(k)) : r = s

AllSizes == UNION {{g.size[t] : t \in Tensors} : g \in Graphs}

Pointers(d) ==
  [v \in Tensors |-> IF allocated[v] /\ graph.device[v] = d THEN addr[v] ELSE -2]

CpuPlanner == INSTANCE MemoryPlanner WITH
  Sizes <- AllSizes, regions <- regions["cpu"], size_map <- size_map["cpu"],
  ptr <- Pointers("cpu")

CudaPlanner == INSTANCE MemoryPlanner WITH
  Sizes <- AllSizes, regions <- regions["cuda"], size_map <- size_map["cuda"],
  ptr <- Pointers("cuda")

\* Each planner sees a legal sequence of calls, so that what is proved of MemoryPlanner
\* holds of the planners inside a launch.  (That is, for graphs whose views are handled:
\* with two results that are each read twice, one block is freed twice.)
PlannersLegal == CpuPlanner!Spec /\ CudaPlanner!Spec

=============================================================================
