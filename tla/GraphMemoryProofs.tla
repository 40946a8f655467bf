------------------------- MODULE GraphMemoryProofs -------------------------
(***************************************************************************)
(* Proofs about GraphMemory, for every set of graphs: kernels find their   *)
(* operands intact, the planners are called legally, and what was measured *)
(* is enough workspace, as long as the nodes of a graph that share memory  *)
(* keep out of each other's way (ViewsApart; without it, the code's own    *)
(* promise fails, see section 5 of the README).                            *)
(*                                                                         *)
(* The argument.  process_share_map reaches a map in which the two ends of *)
(* a node that shares have one variable (Settled).  From then on the count *)
(* of a tensor that is alone in its variable is the number of its reads to *)
(* come, and no count reaches its last use too early (Counted), so that    *)
(* every tensor that was made and is still needed keeps its block          *)
(* (BusyAllocated); the planner's own invariant, proved in                 *)
(* MemoryPlannerProofs, keeps blocks apart, so no kernel overwrites a      *)
(* value that is needed (Values).  For the workspace, the addresses and    *)
(* planner lists of a run are a function of the graph alone (Succ): a      *)
(* launch goes through states that the measurement has seen (Replay).      *)
(***************************************************************************)
EXTENDS GraphMemory, SequenceTheorems, FiniteSetTheorems, TLAPS

-----------------------------------------------------------------------------
(***************************************************************************)
(* The proofs about a planner, for each of the two, and what they say of   *)
(* free lists in the operators of this module.                             *)
(***************************************************************************)

CpuP == INSTANCE MemoryPlannerProofs WITH
  Sizes <- AllSizes, regions <- regions["cpu"], size_map <- size_map["cpu"],
  ptr <- Pointers("cpu")

CudaP == INSTANCE MemoryPlannerProofs WITH
  Sizes <- AllSizes, regions <- regions["cuda"], size_map <- size_map["cuda"],
  ptr <- Pointers("cuda")

LEMMA AllSizesNat == AllSizes \subseteq Nat
  BY GraphsAssumption DEF AllSizes

\* The operators of the instance are those of this module (the same for cuda below).
LEMMA CpuOps ==
  /\ \A r, n : CpuP!FirstFit(r, n) = FirstFit(r, n)
  /\ \A r, i, n : CpuP!TakeFrom(r, i, n) = TakeFrom(r, i, n)
  /\ \A r, p, n : CpuP!GiveBack(r, p, n) = GiveBack(r, p, n)
  /\ \A n : CpuP!Ceil(n) = Ceil(n)
  /\ CpuP!InitRegions = InitRegions
<1>1. \A r, n : CpuP!FirstFit(r, n) = FirstFit(r, n)
  BY DEF FirstFit, CpuP!FirstFit, Fits, CpuP!Fits, Unbounded, CpuP!Unbounded
<1>2. \A r, i, n : CpuP!TakeFrom(r, i, n) = TakeFrom(r, i, n)
  BY DEF TakeFrom, CpuP!TakeFrom, Unbounded, CpuP!Unbounded, RemoveAt, CpuP!RemoveAt
<1>3. \A r, p, n : CpuP!GiveBack(r, p, n) = GiveBack(r, p, n)
  BY DEF GiveBack, CpuP!GiveBack, After, CpuP!After, Extend, CpuP!Extend, Unbounded, CpuP!Unbounded,
         RemoveAt, CpuP!RemoveAt, InsertAt, CpuP!InsertAt
<1>4. \A n : CpuP!Ceil(n) = Ceil(n)  BY DEF Ceil, CpuP!Ceil
<1>5. CpuP!InitRegions = InitRegions
  BY DEF InitRegions, CpuP!InitRegions, Unbounded, CpuP!Unbounded
<1> QED  BY <1>1, <1>2, <1>3, <1>4, <1>5

LEMMA FreeLists ==
  /\ CpuP!Region = Region
  /\ \A rs : CpuP!WellFormed(rs) <=> WellFormed(rs)
  /\ \A r, n : CpuP!Fits(r, n) <=> Fits(r, n)
  /\ \A rs, a : CpuP!IsFree(rs, a) <=> IsFree(rs, a)
  /\ \A rs : CpuP!Used(rs) = Used(rs)
<1>1. CpuP!Region = Region  BY DEF CpuP!Region, Region, CpuP!Unbounded, Unbounded
<1>2. \A rs : CpuP!WellFormed(rs) <=> WellFormed(rs)
  BY DEF CpuP!WellFormed, WellFormed, CpuP!Unbounded, Unbounded
<1>3. \A r, n : CpuP!Fits(r, n) <=> Fits(r, n)
  BY DEF CpuP!Fits, Fits, CpuP!Unbounded, Unbounded
<1>4. \A rs, a : CpuP!IsFree(rs, a) <=> IsFree(rs, a)
  BY DEF CpuP!IsFree, IsFree, CpuP!InRegion, InRegion, CpuP!Unbounded, Unbounded
<1>5. \A rs : CpuP!Used(rs) = Used(rs)  BY DEF CpuP!Used, Used
<1> QED  BY <1>1, <1>2, <1>3, <1>4, <1>5

LEMMA LeastOf ==
  ASSUME NEW T \in SUBSET Nat, T # {}
  PROVE  \E x \in T : \A y \in T : x <= y
BY AllSizesNat, AlignmentAssumption, CpuP!LeastOf

LEMMA CeilProperties ==
  ASSUME NEW n \in Nat \ {0}
  PROVE  Ceil(n) \in Nat \ {0} /\ Ceil(n) >= n
BY AllSizesNat, AlignmentAssumption, CpuP!CeilProperties, CpuOps

LEMMA RegionAt ==
  ASSUME NEW rs \in Seq(Region)
  PROVE  /\ Len(rs) \in Nat
         /\ DOMAIN rs = 1 .. Len(rs)
         /\ \A i \in 1 .. Len(rs) :
              /\ rs[i] \in Region
              /\ rs[i].start \in Nat
              /\ rs[i].size \in Nat \cup {Unbounded}
BY AllSizesNat, AlignmentAssumption, CpuP!RegionAt, FreeLists DEF Unbounded, CpuP!Unbounded

LEMMA WellFormedAt ==
  ASSUME NEW rs \in Seq(Region), WellFormed(rs)
  PROVE  /\ Len(rs) \in Nat \ {0}
         /\ rs[Len(rs)].size = -1
         /\ \A i \in 1 .. Len(rs) : i < Len(rs) => rs[i].size \in Nat \ {0}
         /\ \A i, j \in 1 .. Len(rs) :
              i < j => rs[i].start + rs[i].size < rs[j].start
BY AllSizesNat, AlignmentAssumption, CpuP!WellFormedAt, FreeLists

LEMMA FirstFitProperties ==
  ASSUME NEW rs \in Seq(Region), WellFormed(rs), NEW n \in Nat \ {0}
  PROVE  /\ FirstFit(rs, n) \in 1 .. Len(rs)
         /\ Fits(rs[FirstFit(rs, n)], n)
BY AllSizesNat, AlignmentAssumption, CpuP!FirstFitProperties, CpuOps, FreeLists

LEMMA TakeFromProperties ==
  ASSUME NEW rs \in Seq(Region), WellFormed(rs),
         NEW i \in 1 .. Len(rs), NEW n \in Nat \ {0}, Fits(rs[i], n)
  PROVE  /\ TakeFrom(rs, i, n) \in Seq(Region)
         /\ WellFormed(TakeFrom(rs, i, n))
         /\ \A a \in Nat : IsFree(TakeFrom(rs, i, n), a) => IsFree(rs, a)
BY AllSizesNat, AlignmentAssumption, CpuP!TakeFromProperties, CpuOps, FreeLists

LEMMA GiveBackProperties ==
  ASSUME NEW rs \in Seq(Region), WellFormed(rs),
         NEW p \in Nat, NEW n \in Nat \ {0},
         \A a \in p .. (p + n - 1) : ~ IsFree(rs, a)
  PROVE  /\ GiveBack(rs, p, n) \in Seq(Region)
         /\ WellFormed(GiveBack(rs, p, n))
         /\ \A a \in Nat : IsFree(rs, a) => IsFree(GiveBack(rs, p, n), a)
BY AllSizesNat, AlignmentAssumption, CpuP!GiveBackProperties, CpuOps, FreeLists

LEMMA FreeAboveUsed ==
  ASSUME NEW rs \in Seq(Region), WellFormed(rs)
  PROVE  /\ Used(rs) \in Nat
         /\ \A a \in Nat : a >= Used(rs) => IsFree(rs, a)
BY AllSizesNat, AlignmentAssumption, CpuP!FreeAboveUsed, FreeLists

-----------------------------------------------------------------------------

\* The graph that is compiled is one the proofs are about.
Plain == ViewsApart(graph)

-----------------------------------------------------------------------------
(***************************************************************************)
(* The map that process_share_map builds.                                  *)
(***************************************************************************)

In(k)   == Ins(k)[1]
Out(k)  == Outs(k)[1]
Sharing == {k \in DOMAIN Nodes : Nodes[k].share}
Lone(t) == \A k \in Sharing : t # In(k) /\ t # Out(k)

\* t has its own variable, as in the initial map.
Own(t)   == map[t].var = t /\ map[t].local = ~ IsGlobal(t)
Apart(k) == Own(In(k)) /\ Own(Out(k))

At(t, v, local) == map[t].var = v /\ map[t].local = local

\* The ends of k share one variable: that of the graph's input or output, if one
\* of them is, and otherwise that of k's input.
Joined(k) ==
  \/ /\ IsGlobal(In(k)) /\ ~ IsGlobal(Out(k))
     /\ At(In(k), In(k), FALSE) /\ At(Out(k), In(k), FALSE)
  \/ /\ ~ IsGlobal(In(k)) /\ IsGlobal(Out(k))
     /\ At(In(k), Out(k), FALSE) /\ At(Out(k), Out(k), FALSE)
  \/ /\ ~ IsGlobal(In(k)) /\ ~ IsGlobal(Out(k))
     /\ At(In(k), In(k), TRUE) /\ At(Out(k), In(k), TRUE)

\* The case the code leaves alone: the ends are buffers of the caller's.
BothGlobal(k) == IsGlobal(In(k)) /\ IsGlobal(Out(k)) /\ Apart(k)

Fresh(t) == map[t] = InitMap(graph)[t]

\* Joining moves one use from k's output to k's input.
Moved(k) ==
  map[In(k)].local =>
    /\ map[In(k)].usage = UsageCount(graph, In(k)) + 1
    /\ map[Out(k)].usage = UsageCount(graph, Out(k)) - 1

Acts(k) == (map[In(k)].local \/ map[Out(k)].local) /\ Differ(In(k), Out(k))

\* During the loop: each sharing node was joined or was not touched, and a pass
\* that has changed nothing so far has no node behind it that could still act.
ShareInv ==
  /\ \A t \in Tensors : Lone(t) => Fresh(t)
  /\ \A k \in Sharing : (Fresh(In(k)) /\ Fresh(Out(k))) \/ (Joined(k) /\ Moved(k))
  /\ ~ change => \A k \in Sharing : k < node => ~ Acts(k)
  /\ \A v \in Tensors : ~ allocated[v]

\* After the loop.
Settled ==
  /\ \A t \in Tensors : Lone(t) => Own(t)
  /\ \A k \in Sharing : Joined(k) \/ BothGlobal(k)

-----------------------------------------------------------------------------
(***************************************************************************)
(* Reads to come, and the tensors that are in use because of them.         *)
(***************************************************************************)

\* Read r has been made.
Past(r) ==
  \/ pc = "done"
  \/ pc # "share" /\ r[1] < node
  \/ pc = "free" /\ r[1] = node /\ r[2] < arg

Left(t) == {r \in ReadsOf(graph, t) : ~ Past(r)}

Needed(t) == IsOutput(t) \/ Left(t) # {}

\* t has been computed, or was passed to launch.
Made(t) ==
  \/ t \in graph.inputs
  \/ \E k \in DOMAIN Nodes :
       /\ t \in ToSet(Outs(k))
       /\ \/ pc = "done"
          \/ pc # "share" /\ k < node
          \/ pc = "free" /\ k = node

\* t has its block, and its kernel is about to be called.
Pending(t) ==
  \/ pc = "alloc" /\ \E j \in DOMAIN Outs(node) : j < arg /\ t = Outs(node)[j]
  \/ pc = "call" /\ t \in ToSet(Outs(node))

Busy(t) == (Made(t) /\ Needed(t)) \/ Pending(t)

Sole(t) == \A u \in Tensors : u # t => map[u].var # map[t].var

\* The count of a tensor alone in its variable is the number of its reads to come.
\* For two tensors in one variable the counts are off by the use that was moved: one
\* is larger than the reads to come and the other is not positive, so neither is ever
\* taken for a last use.
Counted ==
  \A t \in Tensors : map[t].local =>
    \/ map[t].usage = Cardinality(Left(t)) /\ Sole(t)
    \/ map[t].usage > Cardinality(Left(t))
    \/ map[t].usage <= 0

BusyAllocated == \A t \in Tensors : map[t].local /\ Busy(t) => allocated[map[t].var]

\* The block of a variable is large enough for the tensor it is named after.
Block(v) ==
  LET d == graph.device[v] IN
  IF graph.size[v] = 0 THEN addr[v] = NullPtr
  ELSE /\ addr[v] \in Nat
       /\ addr[v] \in DOMAIN size_map[d]
       /\ size_map[d][addr[v]] = Ceil(graph.size[v])

Blocks == \A v \in Tensors : allocated[v] => Block(v)

Home(t) == [inside |-> FALSE, at |-> t]

InputsHome == /\ \A t \in graph.inputs : place[t] = Home(t)
              /\ pc = "share" => valid = graph.inputs

\* In a launch, what was made and is still needed is intact, where it is looked for.
Values ==
  (mode = "launch" /\ pc # "share") =>
    \A t \in Tensors : Made(t) /\ Needed(t) => t \in valid /\ place[t] = Addr(t)

Control ==
  /\ graph \in Graphs /\ mode \in {"measure", "launch"}
  /\ pc \in {"share", "alloc", "call", "free", "done"}
  /\ node \in DOMAIN Nodes /\ arg \in Nat \ {0} /\ change \in BOOLEAN
  /\ pc \in {"share", "call", "done"} => arg = 1
  /\ pc # "share" => ~ change

Data ==
  /\ map \in [Tensors -> [var : Tensors, local : BOOLEAN, usage : Int]]
  /\ allocated \in [Tensors -> BOOLEAN]
  /\ addr \in [Tensors -> Nat \cup {NullPtr}]
  /\ regions \in [Devices -> Seq(Region)]
  /\ size_map = [d \in Devices |-> size_map[d]]
  /\ workspace \in [Devices -> Nat]
  /\ valid \subseteq Tensors
  /\ place = [t \in Tensors |-> place[t]]

-----------------------------------------------------------------------------
(***************************************************************************)
(* What the assumption on graphs says of the graph that is compiled.       *)
(***************************************************************************)

LEMMA GraphFacts ==
  ASSUME graph \in Graphs
  PROVE  /\ graph.size \in [Tensors -> Nat] /\ graph.device \in [Tensors -> Devices]
         /\ graph.inputs \subseteq Tensors /\ graph.outputs \in Seq(Tensors)
         /\ Nodes \in Seq(NodeType) /\ Len(Nodes) \in Nat \ {0} /\ DOMAIN Nodes = 1 .. Len(Nodes)
<1>1. /\ graph.size \in [Tensors -> Nat] /\ graph.device \in [Tensors -> Devices]
      /\ graph.inputs \subseteq Tensors /\ graph.outputs \in Seq(Tensors)
      /\ graph.nodes \in Seq(NodeType) /\ graph.nodes # << >>
  BY GraphsAssumption
<1> QED  BY <1>1 DEF Nodes

LEMMA NodeFacts ==
  ASSUME graph \in Graphs, NEW k \in DOMAIN Nodes
  PROVE  /\ Ins(k) \in Seq(Tensors) /\ Outs(k) \in Seq(Tensors) /\ Nodes[k].share \in BOOLEAN
         /\ k \in Nat \ {0} /\ k <= Len(Nodes)
<1>1. Nodes \in Seq(NodeType) /\ Len(Nodes) \in Nat \ {0} /\ DOMAIN Nodes = 1 .. Len(Nodes)
  BY GraphFacts
<1>2. Nodes[k] \in NodeType  BY <1>1
<1> QED  BY <1>1, <1>2 DEF NodeType, Ins, Outs

\* No node writes an input of the graph.
LEMMA OutFacts ==
  ASSUME graph \in Graphs, NEW k \in DOMAIN Nodes, NEW t \in ToSet(Outs(k))
  PROVE  t \in Tensors /\ t \notin graph.inputs
<1>1. Outs(k) \in Seq(Tensors)  BY NodeFacts
<1>2. PICK i \in DOMAIN Outs(k) : t = Outs(k)[i]  BY DEF ToSet
<1>3. \A c \in DOMAIN graph.nodes[k].outputs : graph.nodes[k].outputs[c] \notin graph.inputs
  BY GraphsAssumption DEF Nodes
<1> QED  BY <1>1, <1>2, <1>3 DEF Outs, Nodes

\* A tensor is an output of one node only.
LEMMA OneProducer ==
  ASSUME graph \in Graphs, NEW k \in DOMAIN Nodes, NEW j \in DOMAIN Nodes,
         NEW t \in ToSet(Outs(k)), t \in ToSet(Outs(j))
  PROVE  k = j
<1>1. ASSUME NEW a \in DOMAIN Nodes, NEW b \in DOMAIN Nodes, b < a,
             t \in ToSet(Outs(a)), t \in ToSet(Outs(b))
      PROVE  FALSE
  <2>1. PICK i \in DOMAIN Outs(a) : t = Outs(a)[i]  BY <1>1 DEF ToSet
  <2>2. b \in 1 .. (a - 1)
    <3>1. a \in Nat \ {0} /\ b \in Nat \ {0}  BY NodeFacts
    <3> QED  BY <1>1, <3>1
  <2>3. a \in DOMAIN graph.nodes /\ i \in DOMAIN graph.nodes[a].outputs
    BY <2>1 DEF Outs, Nodes
  <2>4. \A c \in 1 .. (a - 1) : graph.nodes[a].outputs[i] \notin ToSet(graph.nodes[c].outputs)
    BY <2>3, GraphsAssumption
  <2> QED  BY <1>1, <2>1, <2>2, <2>4 DEF Outs, Nodes
<1>2. k \in Nat /\ j \in Nat  BY NodeFacts
<1>3. ~ (j < k) /\ ~ (k < j)  BY <1>1
<1> QED  BY <1>2, <1>3

\* An input of a node is passed to launch or made by an earlier node.
LEMMA Topological ==
  ASSUME graph \in Graphs, NEW k \in DOMAIN Nodes, NEW i \in DOMAIN Ins(k)
  PROVE  \/ Ins(k)[i] \in graph.inputs
         \/ \E j \in DOMAIN Nodes : j < k /\ Ins(k)[i] \in ToSet(Outs(j))
<1>1. \/ graph.nodes[k].inputs[i] \in graph.inputs
      \/ \E j \in 1 .. (k - 1) : graph.nodes[k].inputs[i] \in ToSet(graph.nodes[j].outputs)
  BY GraphsAssumption DEF Ins, Nodes
<1>2. k \in Nat \ {0} /\ k <= Len(Nodes) /\ DOMAIN Nodes = 1 .. Len(Nodes) /\ Len(Nodes) \in Nat
  BY NodeFacts, GraphFacts
<1>3. CASE graph.nodes[k].inputs[i] \in graph.inputs  BY <1>3 DEF Ins, Nodes
<1>4. CASE \E j \in 1 .. (k - 1) : graph.nodes[k].inputs[i] \in ToSet(graph.nodes[j].outputs)
  <2>1. PICK j \in 1 .. (k - 1) : graph.nodes[k].inputs[i] \in ToSet(graph.nodes[j].outputs)
    BY <1>4
  <2>2. j \in DOMAIN Nodes /\ j < k  BY <1>2
  <2> QED  BY <2>1, <2>2 DEF Ins, Outs, Nodes
<1> QED  BY <1>1, <1>3, <1>4

\* Every output of the graph is passed to launch or made by a node.
LEMMA OutputsMade ==
  ASSUME graph \in Graphs, NEW t, IsOutput(t)
  PROVE  t \in Tensors /\ (t \in graph.inputs \/ \E k \in DOMAIN Nodes : t \in ToSet(Outs(k)))
<1>1. PICK i \in DOMAIN graph.outputs : t = graph.outputs[i]  BY DEF IsOutput, ToSet
<1>2. \/ graph.outputs[i] \in graph.inputs
      \/ \E k \in DOMAIN graph.nodes : graph.outputs[i] \in ToSet(graph.nodes[k].outputs)
  BY GraphsAssumption
<1>3. graph.outputs \in Seq(Tensors)  BY GraphFacts
<1> QED  BY <1>1, <1>2, <1>3 DEF Outs, Nodes

\* What a node that shares looks like.
LEMMA SharingFacts ==
  ASSUME graph \in Graphs, NEW k \in Sharing
  PROVE  /\ k \in DOMAIN Nodes
         /\ In(k) \in Tensors /\ Out(k) \in Tensors /\ In(k) # Out(k)
         /\ DOMAIN Ins(k) = {1} /\ DOMAIN Outs(k) = {1} /\ ToSet(Outs(k)) = {Out(k)}
         /\ Out(k) \notin graph.inputs
         /\ graph.size[In(k)] = graph.size[Out(k)]
         /\ graph.device[In(k)] = graph.device[Out(k)]
         /\ \A j \in DOMAIN Nodes : In(k) \in ToSet(Outs(j)) => j < k
<1>1. k \in DOMAIN Nodes /\ Nodes[k].share  BY DEF Sharing
<1>2. Ins(k) \in Seq(Tensors) /\ Outs(k) \in Seq(Tensors)  BY <1>1, NodeFacts
<1>3. /\ Len(Ins(k)) = 1 /\ Len(Outs(k)) = 1
      /\ graph.size[In(k)] = graph.size[Out(k)]
      /\ graph.device[In(k)] = graph.device[Out(k)]
  <2>1. /\ Len(graph.nodes[k].inputs) = 1 /\ Len(graph.nodes[k].outputs) = 1
        /\ graph.size[graph.nodes[k].inputs[1]] = graph.size[graph.nodes[k].outputs[1]]
        /\ graph.device[graph.nodes[k].inputs[1]] = graph.device[graph.nodes[k].outputs[1]]
    BY <1>1, GraphsAssumption DEF Nodes
  <2> QED  BY <2>1 DEF Ins, Outs, In, Out, Nodes
<1>4. DOMAIN Ins(k) = {1} /\ DOMAIN Outs(k) = {1}  BY <1>2, <1>3
<1>5. In(k) \in Tensors /\ Out(k) \in Tensors  BY <1>2, <1>4 DEF In, Out
<1>6. ToSet(Outs(k)) = {Out(k)}  BY <1>4 DEF ToSet, Out
<1>7. Out(k) \notin graph.inputs  BY <1>1, <1>6, OutFacts
<1>8. In(k) \in graph.inputs \/ \E j \in DOMAIN Nodes : j < k /\ In(k) \in ToSet(Outs(j))
  BY <1>1, <1>4, Topological DEF In
<1>9. ASSUME NEW j \in DOMAIN Nodes, In(k) \in ToSet(Outs(j)) PROVE j < k
  <2>1. In(k) \notin graph.inputs  BY <1>9, OutFacts
  <2>2. PICK i \in DOMAIN Nodes : i < k /\ In(k) \in ToSet(Outs(i))  BY <1>8, <2>1
  <2>3. i = j  BY <1>9, <2>2, OneProducer
  <2> QED  BY <2>2, <2>3
<1>10. In(k) # Out(k)
  <2> SUFFICES ASSUME In(k) = Out(k) PROVE FALSE  OBVIOUS
  <2>1. k < k  BY <1>1, <1>6, <1>9
  <2> QED  BY <1>1, <2>1, NodeFacts
<1> QED  BY <1>1, <1>3, <1>4, <1>5, <1>6, <1>7, <1>9, <1>10

\* ViewsApart, in the words of this module.
LEMMA PlainFacts ==
  ASSUME Plain, NEW k \in Sharing
  PROVE  /\ \A j \in Sharing : j # k => {In(j), Out(j)} \cap {In(k), Out(k)} = {}
         /\ IsOutput(In(k)) /\ IsOutput(Out(k)) => In(k) \in graph.inputs
         /\ ~ IsGlobal(In(k)) /\ ~ IsGlobal(Out(k)) =>
              \A r, s \in ReadsOf(graph, Out(k)) : r = s
  BY DEF Plain, ViewsApart, Sharing, In, Out, Ins, Outs, Nodes, IsOutput, IsGlobal

\* A tensor is not an end of a sharing node, or it is of just one.
LEMMA EndsOf ==
  ASSUME graph \in Graphs, Plain, NEW t
  PROVE  Lone(t) \/ \E k \in Sharing : t = In(k) \/ t = Out(k)
  BY DEF Lone

-----------------------------------------------------------------------------
(***************************************************************************)
(* The root of a tensor, and the buffer of an output, in closed form.      *)
(***************************************************************************)

\* The body of the recursive function in Root, and the function in closed form.
RootBody(f, k) ==
  IF k = 0 THEN [t \in Tensors |-> t]
  ELSE IF graph.nodes[k].share
       THEN [f[k - 1] EXCEPT ![graph.nodes[k].outputs[1]] = f[k - 1][graph.nodes[k].inputs[1]]]
       ELSE f[k - 1]

RootUpTo(n) ==
  [t \in Tensors |-> IF \E k \in Sharing : k <= n /\ Out(k) = t
                     THEN In(CHOOSE k \in Sharing : k <= n /\ Out(k) = t) ELSE t]

\* The closed form: after n nodes, the outputs of sharing nodes have a root.
LEMMA RootUpToFacts ==
  ASSUME graph \in Graphs, Plain, NEW n \in Nat
  PROVE  /\ \A k \in Sharing : k <= n => RootUpTo(n)[Out(k)] = In(k)
         /\ \A t \in Tensors : (\A k \in Sharing : k <= n => t # Out(k)) => RootUpTo(n)[t] = t
<1>1. ASSUME NEW k \in Sharing, k <= n PROVE RootUpTo(n)[Out(k)] = In(k)
  <2>1. Out(k) \in Tensors  BY SharingFacts
  <2>2. \A j \in Sharing : Out(j) = Out(k) => j = k  BY PlainFacts
  <2>3. PICK j : j = (CHOOSE l \in Sharing : l <= n /\ Out(l) = Out(k))  OBVIOUS
  <2>4. j \in Sharing /\ Out(j) = Out(k)  BY <1>1, <2>3
  <2>5. j = k  BY <2>2, <2>4
  <2>6. RootUpTo(n)[Out(k)] = In(j)  BY <1>1, <2>1, <2>3 DEF RootUpTo
  <2> QED  BY <2>5, <2>6
<1>2. ASSUME NEW t \in Tensors, \A k \in Sharing : k <= n => t # Out(k)
      PROVE  RootUpTo(n)[t] = t
  BY <1>2 DEF RootUpTo
<1> QED  BY <1>1, <1>2

LEMMA RootStep ==
  ASSUME graph \in Graphs, Plain, NEW n \in DOMAIN Nodes
  PROVE  /\ Nodes[n].share =>
              RootUpTo(n) = [RootUpTo(n - 1) EXCEPT ![Out(n)] = RootUpTo(n - 1)[In(n)]]
         /\ ~ Nodes[n].share => RootUpTo(n) = RootUpTo(n - 1)
<1>1. n \in Nat \ {0} /\ n - 1 \in Nat  BY NodeFacts
<1>2. \A k \in Sharing : k \in Nat  BY NodeFacts DEF Sharing
<1>3. \A m : RootUpTo(m) = [t \in Tensors |-> RootUpTo(m)[t]]  BY DEF RootUpTo
<1>4. ASSUME ~ Nodes[n].share PROVE RootUpTo(n) = RootUpTo(n - 1)
  <2>1. \A k \in Sharing : k # n  BY <1>4 DEF Sharing
  <2>2. \A k \in Sharing : k <= n <=> k <= n - 1  BY <1>1, <1>2, <2>1
  <2> QED  BY <2>2 DEF RootUpTo
<1>5. ASSUME Nodes[n].share
      PROVE  RootUpTo(n) = [RootUpTo(n - 1) EXCEPT ![Out(n)] = RootUpTo(n - 1)[In(n)]]
  <2>1. n \in Sharing  BY <1>5 DEF Sharing
  <2>2. In(n) \in Tensors /\ Out(n) \in Tensors  BY <2>1, SharingFacts
  <2>3. \A k \in Sharing : In(n) # Out(k)
    <3>1. \A k \in Sharing : k # n => In(n) # Out(k)  BY <2>1, PlainFacts
    <3>2. In(n) # Out(n)  BY <2>1, SharingFacts
    <3> QED  BY <3>1, <3>2
  <2>4. RootUpTo(n - 1)[In(n)] = In(n)  BY <1>1, <2>2, <2>3, RootUpToFacts
  <2>5. RootUpTo(n)[Out(n)] = In(n)  BY <1>1, <2>1, RootUpToFacts
  <2>6. ASSUME NEW t \in Tensors, t # Out(n) PROVE RootUpTo(n)[t] = RootUpTo(n - 1)[t]
    <3>1. CASE \E k \in Sharing : k <= n /\ Out(k) = t
      <4>1. PICK k \in Sharing : k <= n /\ Out(k) = t  BY <3>1
      <4>2. k <= n - 1  BY <1>1, <1>2, <2>6, <4>1
      <4>3. RootUpTo(n)[Out(k)] = In(k)  BY <1>1, <4>1, RootUpToFacts
      <4>4. RootUpTo(n - 1)[Out(k)] = In(k)  BY <1>1, <4>2, RootUpToFacts
      <4> QED  BY <4>1, <4>3, <4>4
    <3>2. CASE \A k \in Sharing : k <= n => t # Out(k)
      <4>1. \A k \in Sharing : k <= n - 1 => t # Out(k)  BY <1>1, <1>2, <3>2
      <4>2. RootUpTo(n)[t] = t  BY <1>1, <3>2, RootUpToFacts
      <4>3. RootUpTo(n - 1)[t] = t  BY <1>1, <4>1, RootUpToFacts
      <4> QED  BY <4>2, <4>3
    <3> QED  BY <3>1, <3>2
  <2>7. PICK F, G : F = RootUpTo(n) /\ G = RootUpTo(n - 1)  OBVIOUS
  <2>8. F = [t \in Tensors |-> F[t]] /\ G = [t \in Tensors |-> G[t]]  BY <1>3, <2>7
  <2>9. F = [G EXCEPT ![Out(n)] = G[In(n)]]  BY <2>2, <2>4, <2>5, <2>6, <2>7, <2>8
  <2> QED  BY <2>7, <2>9
<1> QED  BY <1>4, <1>5

\* The recursive definition has the closed form.
LEMMA RootClosed ==
  ASSUME graph \in Graphs, Plain
  PROVE  Root(graph) = RootUpTo(Len(Nodes))
<1>1. Len(Nodes) \in Nat /\ DOMAIN Nodes = 1 .. Len(Nodes)  BY GraphFacts
<1>2. PICK D, F : D = 0 .. Len(Nodes) /\ F = [n \in D |-> RootUpTo(n)]  OBVIOUS
<1>3. ASSUME NEW n \in D PROVE F[n] = RootBody(F, n)
  <2>1. CASE n = 0
    <3>1. \A k \in Sharing : ~ (k <= 0)
      <4>1. \A k \in Sharing : k \in Nat \ {0}  BY NodeFacts DEF Sharing
      <4> QED  BY <4>1
    <3>2. RootUpTo(0) = [t \in Tensors |-> t]  BY <3>1 DEF RootUpTo
    <3> QED  BY <1>2, <2>1, <3>2 DEF RootBody
  <2>2. CASE n # 0
    <3>1. n \in DOMAIN Nodes /\ n - 1 \in D  BY <1>1, <1>2, <2>2
    <3>2. F[n] = RootUpTo(n) /\ F[n - 1] = RootUpTo(n - 1)  BY <1>2, <3>1
    <3>3. RootBody(F, n) = IF Nodes[n].share THEN [F[n - 1] EXCEPT ![Out(n)] = F[n - 1][In(n)]]
                           ELSE F[n - 1]
      BY <2>2 DEF RootBody, In, Out, Ins, Outs, Nodes
    <3>4. CASE Nodes[n].share
      <4>1. RootUpTo(n) = [RootUpTo(n - 1) EXCEPT ![Out(n)] = RootUpTo(n - 1)[In(n)]]
        BY <3>1, <3>4, RootStep
      <4> QED  BY <3>2, <3>3, <3>4, <4>1
    <3>5. CASE ~ Nodes[n].share
      <4>1. RootUpTo(n) = RootUpTo(n - 1)  BY <3>1, <3>5, RootStep
      <4> QED  BY <3>2, <3>3, <3>5, <4>1
    <3> QED  BY <3>4, <3>5
  <2> QED  BY <2>1, <2>2
<1>4. F = [n \in D |-> RootBody(F, n)]
  <2>1. F = [n \in D |-> F[n]]  BY <1>2
  <2> QED  BY <1>3, <2>1
<1>5. PICK f : f = CHOOSE h : h = [n \in D |-> RootBody(h, n)]  OBVIOUS
<1>6. f = [n \in D |-> RootBody(f, n)]  BY <1>4, <1>5
<1>7. Root(graph) = f[Len(Nodes)]  BY <1>2, <1>5 DEF Root, RootBody, Nodes
<1>8. \A n \in D : f[n] = F[n]
  <2> SUFFICES ASSUME NEW n0 \in D, f[n0] # F[n0] PROVE FALSE  OBVIOUS
  <2>1. PICK S : S = {n \in D : f[n] # F[n]}  OBVIOUS
  <2>2. S \subseteq Nat /\ n0 \in S  BY <1>1, <1>2, <2>1
  <2>3. PICK m \in S : \A n \in S : m <= n  BY <2>2, LeastOf
  <2>4. m \in D /\ f[m] # F[m] /\ m \in Nat  BY <2>1, <2>2, <2>3
  <2>5. f[m] = RootBody(f, m) /\ F[m] = RootBody(F, m)  BY <1>3, <1>6, <2>4
  <2>6. CASE m = 0  BY <2>4, <2>5, <2>6 DEF RootBody
  <2>7. CASE m # 0
    <3>1. m - 1 \in D /\ ~ (m <= m - 1)  BY <1>1, <1>2, <2>4, <2>7
    <3>2. f[m - 1] = F[m - 1]  BY <2>1, <2>3, <3>1
    <3> QED  BY <2>4, <2>5, <3>2 DEF RootBody
  <2> QED  BY <2>6, <2>7
<1>9. Len(Nodes) \in D  BY <1>1, <1>2
<1> QED  BY <1>2, <1>7, <1>8, <1>9

LEMMA RootFacts ==
  ASSUME graph \in Graphs, Plain
  PROVE  /\ \A k \in Sharing : Root(graph)[Out(k)] = In(k)
         /\ \A t \in Tensors : (\A k \in Sharing : t # Out(k)) => Root(graph)[t] = t
<1>1. Len(Nodes) \in Nat  BY GraphFacts
<1>2. \A k \in Sharing : k <= Len(Nodes)  BY NodeFacts DEF Sharing
<1> QED  BY <1>1, <1>2, RootClosed, RootUpToFacts

-----------------------------------------------------------------------------
(***************************************************************************)
(* Where tensors are once the map has settled.                             *)
(***************************************************************************)

\* The block or buffer that t is in.
Spot(t) == IF map[t].local THEN map[t].var ELSE Buffer(map[t].var)

MapType == map \in [Tensors -> [var : Tensors, local : BOOLEAN, usage : Int]]

\* The tensors a sharing node puts in one place, in each of the four cases.
LEMMA PairCases ==
  ASSUME graph \in Graphs, Plain, Settled, NEW k \in Sharing
  PROVE  \/ /\ IsGlobal(In(k)) /\ ~ IsGlobal(Out(k))
            /\ At(In(k), In(k), FALSE) /\ At(Out(k), In(k), FALSE)
            /\ Buffer(In(k)) = In(k)
         \/ /\ ~ IsGlobal(In(k)) /\ IsGlobal(Out(k))
            /\ At(In(k), Out(k), FALSE) /\ At(Out(k), Out(k), FALSE)
            /\ Buffer(Out(k)) = Out(k)
         \/ /\ ~ IsGlobal(In(k)) /\ ~ IsGlobal(Out(k))
            /\ At(In(k), In(k), TRUE) /\ At(Out(k), In(k), TRUE)
         \/ /\ IsGlobal(In(k)) /\ IsGlobal(Out(k)) /\ In(k) \in graph.inputs
            /\ At(In(k), In(k), FALSE) /\ At(Out(k), Out(k), FALSE)
            /\ Buffer(In(k)) = In(k) /\ Buffer(Out(k)) = In(k)
<1>1. Joined(k) \/ BothGlobal(k)  BY DEF Settled
<1>2. /\ In(k) \in Tensors /\ Out(k) \in Tensors /\ In(k) # Out(k)
      /\ Out(k) \notin graph.inputs
  BY SharingFacts
<1>3. \A j \in Sharing : In(k) # Out(j)
  <2>1. \A j \in Sharing : j # k => In(k) # Out(j)  BY PlainFacts
  <2> QED  BY <1>2, <2>1
<1>4. Root(graph)[In(k)] = In(k) /\ Root(graph)[Out(k)] = In(k)  BY <1>2, <1>3, RootFacts
<1>5. Buffer(In(k)) = In(k)  BY <1>4 DEF Buffer
<1>6. CASE BothGlobal(k)
  <2>1. IsOutput(Out(k))  BY <1>2, <1>6 DEF BothGlobal, IsGlobal
  <2>2. In(k) \in graph.inputs  BY <1>6, <2>1, PlainFacts DEF BothGlobal, IsGlobal
  <2>3. Buffer(Out(k)) = In(k)  BY <1>4, <2>1, <2>2 DEF Buffer
  <2> QED  BY <1>5, <1>6, <2>2, <2>3 DEF BothGlobal, Apart, Own, At
<1>7. CASE Joined(k)
  <2>1. ~ IsGlobal(In(k)) => Buffer(Out(k)) = Out(k)  BY <1>4 DEF Buffer, IsGlobal
  <2> QED  BY <1>5, <1>7, <2>1 DEF Joined
<1> QED  BY <1>1, <1>6, <1>7

\* A tensor that no sharing node touches keeps its own place.
LEMMA LoneFacts ==
  ASSUME graph \in Graphs, Plain, Settled, NEW t \in Tensors, Lone(t)
  PROVE  /\ map[t].var = t /\ map[t].local = ~ IsGlobal(t)
         /\ Buffer(t) = t
<1>1. Own(t)  BY DEF Settled
<1>2. Root(graph)[t] = t  BY RootFacts DEF Lone
<1> QED  BY <1>1, <1>2 DEF Own, Buffer

\* A tensor of the workspace is in its own block or in that of one just like it.
LEMMA LocalFacts ==
  ASSUME graph \in Graphs, Plain, Settled, NEW t \in Tensors, map[t].local
  PROVE  /\ map[t].var \in Tensors /\ ~ IsGlobal(t)
         /\ graph.size[map[t].var] = graph.size[t]
         /\ graph.device[map[t].var] = graph.device[t]
<1>1. CASE Lone(t)  BY <1>1, LoneFacts
<1>2. ASSUME NEW k \in Sharing, t = In(k) \/ t = Out(k)
      PROVE  /\ map[t].var = In(k) /\ ~ IsGlobal(t)
             /\ In(k) \in Tensors
             /\ graph.size[In(k)] = graph.size[t]
             /\ graph.device[In(k)] = graph.device[t]
  <2>1. /\ In(k) \in Tensors
        /\ graph.size[In(k)] = graph.size[Out(k)] /\ graph.device[In(k)] = graph.device[Out(k)]
    BY SharingFacts
  <2>2. /\ ~ IsGlobal(In(k)) /\ ~ IsGlobal(Out(k))
        /\ At(In(k), In(k), TRUE) /\ At(Out(k), In(k), TRUE)
    BY <1>2, PairCases DEF At
  <2> QED  BY <1>2, <2>1, <2>2 DEF At
<1> QED  BY <1>1, <1>2, EndsOf

\* So does an input of the graph.
LEMMA InputFacts ==
  ASSUME graph \in Graphs, Plain, Settled, NEW t \in graph.inputs
  PROVE  t \in Tensors /\ ~ map[t].local /\ map[t].var = t /\ Buffer(t) = t
<1>1. t \in Tensors /\ IsGlobal(t)  BY GraphFacts DEF IsGlobal
<1>2. CASE Lone(t)  BY <1>1, <1>2, LoneFacts
<1>3. ASSUME NEW k \in Sharing, t = In(k) \/ t = Out(k)
      PROVE  ~ map[t].local /\ map[t].var = t /\ Buffer(t) = t
  <2>1. t = In(k)  BY <1>3, SharingFacts
  <2> QED  BY <1>1, <2>1, PairCases DEF At
<1> QED  BY <1>1, <1>2, <1>3, EndsOf

\* A tensor is in its own place or in that of its partner.
LEMMA SpotOf ==
  ASSUME graph \in Graphs, Plain, Settled, NEW t \in Tensors
  PROVE  \/ Spot(t) = t
         \/ \E k \in Sharing : t \in {In(k), Out(k)} /\ Spot(t) \in {In(k), Out(k)}
<1>1. CASE Lone(t)  BY <1>1, LoneFacts DEF Spot
<1>2. ASSUME NEW k \in Sharing, t = In(k) \/ t = Out(k)
      PROVE  Spot(t) \in {In(k), Out(k)}
  BY <1>2, PairCases DEF At, Spot
<1> QED  BY <1>1, <1>2, EndsOf

\* Two tensors are in one place only if one is the view of the other.
LEMMA SpotsDiffer ==
  ASSUME graph \in Graphs, Plain, Settled, NEW t \in Tensors, NEW u \in Tensors,
         t # u, Spot(t) = Spot(u)
  PROVE  \E k \in Sharing : (t = In(k) /\ u = Out(k)) \/ (t = Out(k) /\ u = In(k))
<1>1. \/ Spot(t) = t
      \/ \E k \in Sharing : t \in {In(k), Out(k)} /\ Spot(t) \in {In(k), Out(k)}
  BY SpotOf
<1>2. \/ Spot(u) = u
      \/ \E k \in Sharing : u \in {In(k), Out(k)} /\ Spot(u) \in {In(k), Out(k)}
  BY SpotOf
<1>3. CASE Spot(t) = t /\ Spot(u) = u  BY <1>3
<1>4. ASSUME NEW k \in Sharing, t \in {In(k), Out(k)}, u \in {In(k), Out(k)}
      PROVE  (t = In(k) /\ u = Out(k)) \/ (t = Out(k) /\ u = In(k))
  BY <1>4
<1>5. ASSUME NEW k \in Sharing, NEW j \in Sharing, Spot(t) \in {In(k), Out(k)},
             Spot(t) \in {In(j), Out(j)}
      PROVE  k = j
  <2>1. j # k => {In(j), Out(j)} \cap {In(k), Out(k)} = {}  BY PlainFacts
  <2> QED  BY <1>5, <2>1
<1> QED  BY <1>1, <1>2, <1>3, <1>4, <1>5

\* The output of a sharing node is where its input is.
LEMMA ViewPlace ==
  ASSUME graph \in Graphs, Plain, Settled, NEW k \in Sharing
  PROVE  Addr(In(k)) = Addr(Out(k))
<1>1. map[In(k)].local = map[Out(k)].local /\ Spot(In(k)) = Spot(Out(k))
      /\ (map[In(k)].local => map[In(k)].var = map[Out(k)].var)
  BY PairCases DEF At, Spot
<1> QED  BY <1>1 DEF Addr, Spot

-----------------------------------------------------------------------------
(***************************************************************************)
(* Reads to come: how each step changes what is left, made and pending.    *)
(***************************************************************************)

LEMMA ReadFacts ==
  ASSUME graph \in Graphs, NEW t, NEW r \in ReadsOf(graph, t)
  PROVE  /\ r[1] \in DOMAIN Nodes /\ r[2] \in DOMAIN Ins(r[1]) /\ Ins(r[1])[r[2]] = t
         /\ r = <<r[1], r[2]>> /\ r[1] \in Nat \ {0} /\ r[2] \in Nat \ {0}
         /\ r[1] <= Len(Nodes) /\ r[2] <= Len(Ins(r[1]))
<1>1. PICK k \in DOMAIN Nodes : r \in {k} \X DOMAIN Ins(k)
  BY DEF ReadsOf, Reads, Nodes, Ins
<1>2. r = <<r[1], r[2]>> /\ r[1] = k /\ r[2] \in DOMAIN Ins(k)  BY <1>1
<1>3. Ins(r[1])[r[2]] = t  BY DEF ReadsOf, Ins, Nodes
<1>4. k \in Nat \ {0} /\ k <= Len(Nodes) /\ Ins(k) \in Seq(Tensors)  BY NodeFacts
<1>5. r[2] \in Nat \ {0} /\ r[2] <= Len(Ins(k))  BY <1>2, <1>4
<1> QED  BY <1>1, <1>2, <1>3, <1>4, <1>5

LEMMA ReadMade ==
  ASSUME graph \in Graphs, NEW k \in DOMAIN Nodes, NEW i \in DOMAIN Ins(k)
  PROVE  <<k, i>> \in ReadsOf(graph, Ins(k)[i])
<1>1. <<k, i>> \in {k} \X DOMAIN Ins(k)  OBVIOUS
<1>2. <<k, i>> \in Reads(graph)  BY <1>1 DEF Reads, Ins, Nodes
<1> QED  BY <1>2 DEF ReadsOf, Ins, Nodes

LEMMA ReadsFinite ==
  ASSUME graph \in Graphs, NEW t
  PROVE  IsFiniteSet(ReadsOf(graph, t))
<1>1. /\ Len(Nodes) \in Nat /\ DOMAIN Nodes = 1 .. Len(Nodes)  BY GraphFacts
<1>2. PICK N : N = DOMAIN Nodes  OBVIOUS
<1>3. IsFiniteSet(N)  BY <1>1, <1>2, FS_Interval
<1>4. PICK C : C = {{k} \X DOMAIN Ins(k) : k \in N}  OBVIOUS
<1>5. IsFiniteSet(C)
  <2>1. PICK f : f = [k \in N |-> {k} \X DOMAIN Ins(k)]  OBVIOUS
  <2>2. f \in Surjection(N, C)  BY <1>4, <2>1 DEF Surjection
  <2> QED  BY <1>3, <2>2, FS_Surjection
<1>6. ASSUME NEW c \in C PROVE IsFiniteSet(c)
  <2>1. PICK k \in N : c = {k} \X DOMAIN Ins(k)  BY <1>4
  <2>2. Ins(k) \in Seq(Tensors) /\ k \in Nat  BY <1>2, <2>1, NodeFacts
  <2>3. DOMAIN Ins(k) = 1 .. Len(Ins(k)) /\ Len(Ins(k)) \in Nat  BY <2>2
  <2>4. IsFiniteSet({k})  BY FS_Singleton
  <2>5. IsFiniteSet(DOMAIN Ins(k))  BY <2>3, FS_Interval
  <2> QED  BY <2>1, <2>4, <2>5, FS_Product
<1>7. IsFiniteSet(UNION C)  BY <1>5, <1>6, FS_UNION
<1>8. ReadsOf(graph, t) \subseteq UNION C
  BY <1>2, <1>4 DEF ReadsOf, Reads, Nodes, Ins
<1> QED  BY <1>7, <1>8, FS_Subset

\* The reads to come can be counted.
LEMMA LeftFinite ==
  ASSUME graph \in Graphs, NEW t
  PROVE  IsFiniteSet(Left(t)) /\ Cardinality(Left(t)) \in Nat
<1>1. Left(t) \subseteq ReadsOf(graph, t)  BY DEF Left
<1>2. IsFiniteSet(Left(t))  BY <1>1, ReadsFinite, FS_Subset
<1> QED  BY <1>2, FS_CardinalityType

\* The steps that read nothing.
Quiet == AllocOutput \/ OutputsDone \/ Measure \/ CallKernel \/ NextNode \/ ShareNode

LEMMA QuietPast ==
  ASSUME Control, Quiet, NEW t, NEW r \in ReadsOf(graph, t)
  PROVE  Past(r)' <=> Past(r)
<1>1. /\ graph \in Graphs /\ node \in DOMAIN Nodes /\ arg \in Nat \ {0}
      /\ pc \in {"call", "share"} => arg = 1
  BY DEF Control
<1>2. /\ r[1] \in Nat \ {0} /\ r[2] \in Nat \ {0} /\ r[1] <= Len(Nodes)
      /\ r[2] <= Len(Ins(r[1]))
  BY <1>1, ReadFacts
<1>3. node \in Nat \ {0} /\ node <= Len(Nodes) /\ Len(Nodes) \in Nat
  BY <1>1, NodeFacts, GraphFacts
<1>4. CASE AllocOutput  BY <1>4 DEF AllocOutput, Past
<1>5. CASE OutputsDone  BY <1>5 DEF OutputsDone, Past
<1>6. CASE Measure \/ CallKernel
  <2>1. pc = "call" /\ pc' = "free" /\ node' = node /\ arg' = arg /\ arg = 1
    BY <1>1, <1>6 DEF Measure, CallKernel
  <2> QED  BY <1>2, <2>1 DEF Past
<1>7. CASE NextNode
  <2>1. pc = "free" /\ arg > Len(Ins(node)) /\ arg' = 1
    BY <1>7 DEF NextNode
  <2>2. r[1] = node => r[2] < arg
    <3>1. Ins(node) \in Seq(Tensors)  BY <1>1, NodeFacts
    <3>2. Len(Ins(node)) \in Nat  BY <3>1
    <3> QED  BY <1>1, <1>2, <2>1, <3>2
  <2>3. CASE node < Len(Nodes)
    <3>1. node' = node + 1 /\ pc' = "alloc"  BY <1>7, <2>3 DEF NextNode
    <3> QED  BY <1>2, <1>3, <2>1, <2>2, <3>1 DEF Past
  <2>4. CASE ~ (node < Len(Nodes))
    <3>1. pc' = "done" /\ node = Len(Nodes)  BY <1>3, <1>7, <2>4 DEF NextNode
    <3> QED  BY <1>2, <1>3, <2>1, <2>2, <3>1 DEF Past
  <2> QED  BY <2>3, <2>4
<1>8. CASE ShareNode
  <2>1. pc = "share" /\ (pc' = "share" \/ (pc' = "alloc" /\ node' = 1))
    BY <1>8 DEF ShareNode
  <2> QED  BY <1>2, <2>1 DEF Past
<1> QED  BY <1>4, <1>5, <1>6, <1>7, <1>8 DEF Quiet

LEMMA QuietGraph ==
  ASSUME Step
  PROVE  graph' = graph
  BY Zenon DEF Step, ShareNode, AllocOutput, OutputsDone, Measure, CallKernel, FreeInput, NextNode

\* They leave the reads to come as they are.
LEMMA QuietLeft ==
  ASSUME Control, Quiet, NEW t
  PROVE  Left(t)' = Left(t) /\ (Needed(t)' <=> Needed(t))
<1>1. graph' = graph  BY QuietGraph DEF Quiet, Step
<1>2. \A r \in ReadsOf(graph, t) : Past(r)' <=> Past(r)  BY QuietPast
<1>3. Left(t)' = Left(t)  BY <1>1, <1>2 DEF Left
<1> QED  BY <1>1, <1>3 DEF Needed, IsOutput

\* The step at an input makes that read, and no other.
LEMMA FreeLeft ==
  ASSUME Control, FreeInput, NEW x, x = Ins(node)[arg]
  PROVE  /\ x \in Tensors
         /\ <<node, arg>> \in Left(x) /\ Left(x)' = Left(x) \ {<<node, arg>>}
         /\ \A t : t # x => Left(t)' = Left(t) /\ (Needed(t)' <=> Needed(t))
<1>1. graph \in Graphs /\ node \in DOMAIN Nodes /\ arg \in Nat \ {0}  BY DEF Control
<1>2. pc = "free" /\ pc' = "free" /\ node' = node /\ arg' = arg + 1 /\ graph' = graph
      /\ arg <= Len(Ins(node))
  BY DEF FreeInput
<1>3. Ins(node) \in Seq(Tensors) /\ node \in Nat  BY <1>1, NodeFacts
<1>4. arg \in DOMAIN Ins(node)  BY <1>1, <1>2, <1>3
<1>5. <<node, arg>> \in ReadsOf(graph, x)  BY <1>1, <1>4, ReadMade
<1>6. ASSUME NEW t, NEW r \in ReadsOf(graph, t)
      PROVE  Past(r)' <=> Past(r) \/ r = <<node, arg>>
  <2>1. r[1] \in Nat /\ r[2] \in Nat /\ r = <<r[1], r[2]>>  BY <1>1, ReadFacts
  <2>2. r = <<node, arg>> <=> r[1] = node /\ r[2] = arg  BY <2>1
  <2> QED  BY <1>1, <1>2, <1>3, <2>1, <2>2 DEF Past
<1>7. ~ Past(<<node, arg>>)  BY <1>1, <1>2, <1>3 DEF Past
<1>8. Left(x)' = Left(x) \ {<<node, arg>>}  BY <1>2, <1>6 DEF Left
<1>9. ASSUME NEW t, t # x PROVE Left(t)' = Left(t) /\ (Needed(t)' <=> Needed(t))
  <2>1. <<node, arg>> \notin ReadsOf(graph, t)
    <3>1. \A r \in ReadsOf(graph, t) : Ins(r[1])[r[2]] = t  BY <1>1, ReadFacts
    <3> QED  BY <1>9, <3>1
  <2>2. Left(t)' = Left(t)  BY <1>2, <1>6, <2>1 DEF Left
  <2> QED  BY <1>2, <2>2 DEF Needed, IsOutput
<1>10. <<node, arg>> \in Left(x)  BY <1>5, <1>7 DEF Left
<1> QED  BY <1>3, <1>4, <1>8, <1>9, <1>10

LEMMA MadeStays ==
  ASSUME Control, AllocOutput \/ OutputsDone \/ FreeInput \/ NextNode \/ ShareNode, NEW t
  PROVE  Made(t)' <=> Made(t)
<1>1. graph \in Graphs /\ node \in DOMAIN Nodes  BY DEF Control
<1>2. \A k \in DOMAIN Nodes : k \in Nat \ {0} /\ k <= Len(Nodes)  BY <1>1, NodeFacts
<1>3. node \in Nat \ {0} /\ Len(Nodes) \in Nat  BY <1>1, <1>2, GraphFacts
<1>4. graph' = graph  BY QuietGraph DEF Step
<1>5. CASE AllocOutput  BY <1>4, <1>5, Zenon DEF AllocOutput, Made, Outs, Nodes
<1>6. CASE OutputsDone  BY <1>4, <1>6 DEF OutputsDone, Made, Outs, Nodes
<1>7. CASE FreeInput  BY <1>4, <1>7 DEF FreeInput, Made, Outs, Nodes
<1>8. CASE ShareNode
  <2>1. pc = "share" /\ (pc' = "share" \/ (pc' = "alloc" /\ node' = 1))  BY <1>8 DEF ShareNode
  <2> QED  BY <1>2, <1>4, <2>1 DEF Made, Outs, Nodes
<1>9. CASE NextNode
  <2>1. pc = "free"  BY <1>9 DEF NextNode
  <2>2. ASSUME NEW k \in DOMAIN Nodes
        PROVE  \/ pc' = "done" \/ (pc' # "share" /\ k < node') \/ (pc' = "free" /\ k = node')
               <=> (k < node \/ k = node)
    <3>1. CASE node < Len(Nodes)
      <4>1. node' = node + 1 /\ pc' = "alloc"  BY <1>9, <3>1 DEF NextNode
      <4> QED  BY <1>2, <1>3, <4>1
    <3>2. CASE ~ (node < Len(Nodes))
      <4>1. pc' = "done"  BY <1>9, <3>2 DEF NextNode
      <4>2. k < node \/ k = node  BY <1>2, <1>3, <3>2
      <4> QED  BY <4>1, <4>2
    <3> QED  BY <3>1, <3>2
  <2> QED  BY <1>4, <2>1, <2>2 DEF Made, Outs, Nodes
<1> QED  BY <1>5, <1>6, <1>7, <1>8, <1>9

\* The call of a node makes its outputs.
LEMMA MadeByCall ==
  ASSUME Control, Measure \/ CallKernel, NEW t
  PROVE  Made(t)' <=> Made(t) \/ t \in ToSet(Outs(node))
<1>1. pc = "call" /\ pc' = "free" /\ node' = node /\ graph' = graph
  BY DEF Measure, CallKernel
<1>2. node \in DOMAIN Nodes  BY DEF Control
<1> QED  BY <1>1, <1>2 DEF Made, Outs, Nodes

\* A tensor made before is not an output of the node the program is at.
LEMMA MadeBefore ==
  ASSUME Control, pc \in {"alloc", "call"}, NEW t, Made(t)
  PROVE  t \in Tensors /\ t \notin ToSet(Outs(node))
         /\ \A k \in DOMAIN Nodes : t \in ToSet(Outs(k)) => k < node
<1>1. graph \in Graphs /\ node \in DOMAIN Nodes  BY DEF Control
<1>2. node \in Nat  BY <1>1, NodeFacts
<1>3. CASE t \in graph.inputs
  <2>1. t \in Tensors  BY <1>1, <1>3, GraphFacts
  <2>2. \A k \in DOMAIN Nodes : t \notin ToSet(Outs(k))  BY <1>1, <1>3, OutFacts
  <2> QED  BY <1>1, <2>1, <2>2
<1>4. CASE t \notin graph.inputs
  <2>1. PICK k \in DOMAIN Nodes : t \in ToSet(Outs(k)) /\ k < node  BY <1>4 DEF Made
  <2>2. t \in Tensors  BY <1>1, <2>1, OutFacts
  <2>3. \A j \in DOMAIN Nodes : t \in ToSet(Outs(j)) => j = k  BY <1>1, <2>1, OneProducer
  <2> QED  BY <1>1, <1>2, <2>1, <2>2, <2>3
<1> QED  BY <1>3, <1>4

\* What a node reads was made and is needed when it is called.
LEMMA OperandsNeeded ==
  ASSUME Control, pc \in {"alloc", "call"}, NEW i \in DOMAIN Ins(node)
  PROVE  Made(Ins(node)[i]) /\ Needed(Ins(node)[i]) /\ Ins(node)[i] \in Tensors
<1>1. graph \in Graphs /\ node \in DOMAIN Nodes  BY DEF Control
<1>2. node \in Nat  BY <1>1, NodeFacts
<1>3. Made(Ins(node)[i])  BY <1>1, Topological DEF Made
<1>4. <<node, i>> \in ReadsOf(graph, Ins(node)[i])  BY <1>1, ReadMade
<1>5. ~ Past(<<node, i>>)  BY <1>2 DEF Past
<1>6. Ins(node) \in Seq(Tensors)  BY <1>1, NodeFacts
<1> QED  BY <1>3, <1>4, <1>5, <1>6 DEF Needed, Left

LEMMA PendingSteps ==
  ASSUME Control, NEW t
  PROVE  /\ AllocOutput => (Pending(t)' <=> Pending(t) \/ t = Outs(node)[arg])
         /\ OutputsDone => (Pending(t)' <=> Pending(t))
         /\ Measure \/ CallKernel => ~ Pending(t)' /\ (Pending(t) <=> t \in ToSet(Outs(node)))
         /\ FreeInput \/ NextNode \/ ShareNode => ~ Pending(t)'
<1>1. graph \in Graphs /\ node \in DOMAIN Nodes /\ arg \in Nat \ {0}
      /\ (pc = "share" => arg = 1)
  BY DEF Control
<1>2. Outs(node) \in Seq(Tensors)  BY <1>1, NodeFacts
<1>3. \A j \in DOMAIN Outs(node) : j \in Nat \ {0} /\ j <= Len(Outs(node))  BY <1>2
<1>4. ASSUME AllocOutput PROVE Pending(t)' <=> Pending(t) \/ t = Outs(node)[arg]
  <2>1. pc = "alloc" /\ pc' = "alloc" /\ node' = node /\ graph' = graph /\ arg' = arg + 1
        /\ arg <= Len(Outs(node))
    BY <1>4 DEF AllocOutput
  <2>2. arg \in DOMAIN Outs(node)  BY <1>1, <1>2, <2>1
  <2>3. Outs(node)' = Outs(node)  BY <2>1 DEF Outs, Nodes
  <2>4. \A j \in DOMAIN Outs(node) : j < arg' <=> j < arg \/ j = arg  BY <1>1, <1>3, <2>1
  <2> QED  BY <2>1, <2>2, <2>3, <2>4 DEF Pending
<1>5. ASSUME OutputsDone PROVE Pending(t)' <=> Pending(t)
  <2>1. pc = "alloc" /\ pc' = "call" /\ node' = node /\ graph' = graph /\ arg > Len(Outs(node))
    BY <1>5 DEF OutputsDone
  <2>2. Outs(node)' = Outs(node)  BY <2>1 DEF Outs, Nodes
  <2>3. \A j \in DOMAIN Outs(node) : j < arg
    <3>1. Len(Outs(node)) \in Nat  BY <1>2
    <3> QED  BY <1>1, <1>3, <2>1, <3>1
  <2>4. Pending(t) <=> t \in ToSet(Outs(node))  BY <2>1, <2>3 DEF Pending, ToSet
  <2>5. Pending(t)' <=> t \in ToSet(Outs(node))  BY <2>1, <2>2 DEF Pending
  <2> QED  BY <2>4, <2>5
<1>6. ASSUME Measure \/ CallKernel
      PROVE  ~ Pending(t)' /\ (Pending(t) <=> t \in ToSet(Outs(node)))
  BY <1>6 DEF Measure, CallKernel, Pending
<1>7. ASSUME FreeInput \/ NextNode \/ ShareNode PROVE ~ Pending(t)'
  <2>1. CASE FreeInput  BY <2>1 DEF FreeInput, Pending
  <2>2. CASE pc' = "done" \/ pc' = "share"  BY <2>2 DEF Pending
  <2>3. CASE pc' = "alloc" /\ arg' = 1 /\ node' \in DOMAIN Nodes /\ graph' = graph
    <3>1. Outs(node)' \in Seq(Tensors)
      <4>1. Outs(node') \in Seq(Tensors)  BY <1>1, <2>3, NodeFacts
      <4> QED  BY <2>3, <4>1 DEF Outs, Nodes
    <3>2. \A j \in DOMAIN Outs(node)' : ~ (j < 1)  BY <3>1
    <3> QED  BY <2>3, <3>2 DEF Pending
  <2>4. CASE NextNode
    <3>1. node \in Nat \ {0} /\ Len(Nodes) \in Nat \ {0} /\ DOMAIN Nodes = 1 .. Len(Nodes)
      BY <1>1, NodeFacts, GraphFacts
    <3>2. \/ pc' = "done"
          \/ node < Len(Nodes) /\ pc' = "alloc" /\ arg' = 1 /\ node' = node + 1 /\ graph' = graph
      BY <2>4 DEF NextNode
    <3> QED  BY <2>2, <2>3, <3>1, <3>2
  <2>5. CASE ShareNode
    <3>1. Len(Nodes) \in Nat \ {0} /\ DOMAIN Nodes = 1 .. Len(Nodes)  BY <1>1, GraphFacts
    <3>2. pc = "share" /\ arg' = arg /\ graph' = graph
          /\ (pc' = "share" \/ (pc' = "alloc" /\ node' = 1))
      BY <2>5 DEF ShareNode
    <3>3. 1 \in DOMAIN Nodes /\ arg' = 1  BY <1>1, <3>1, <3>2
    <3> QED  BY <2>2, <2>3, <3>2, <3>3
  <2> QED  BY <1>7, <2>1, <2>4, <2>5
<1> QED  BY <1>4, <1>5, <1>6, <1>7

-----------------------------------------------------------------------------
(***************************************************************************)
(* The map at the start, and one act of process_share_map.                 *)
(***************************************************************************)

LEMMA UsageFacts ==
  ASSUME graph \in Graphs, NEW t
  PROVE  /\ UsageCount(graph, t) \in Nat
         /\ ~ IsOutput(t) => UsageCount(graph, t) = Cardinality(ReadsOf(graph, t))
<1> DEFINE O == {i \in DOMAIN graph.outputs : graph.outputs[i] = t}
<1>1. graph.outputs \in Seq(Tensors)  BY GraphFacts
<1>2. DOMAIN graph.outputs = 1 .. Len(graph.outputs) /\ Len(graph.outputs) \in Nat  BY <1>1
<1>3. IsFiniteSet(DOMAIN graph.outputs)  BY <1>2, FS_Interval
<1>4. IsFiniteSet(O)  BY <1>3, FS_Subset
<1>5. Cardinality(O) \in Nat  BY <1>4, FS_CardinalityType
<1>6. Cardinality(ReadsOf(graph, t)) \in Nat  BY ReadsFinite, FS_CardinalityType
<1>7. ASSUME ~ IsOutput(t) PROVE Cardinality(O) = 0
  <2>1. O = {}  BY <1>7 DEF IsOutput, ToSet
  <2> QED  BY <2>1, FS_EmptySet
<1>8. UsageCount(graph, t) = Cardinality(ReadsOf(graph, t)) + Cardinality(O)  BY DEF UsageCount
<1> HIDE DEF O
<1> QED  BY <1>5, <1>6, <1>7, <1>8

LEMMA InitMapFacts ==
  ASSUME graph \in Graphs, NEW t \in Tensors
  PROVE  /\ InitMap(graph)[t].var = t /\ InitMap(graph)[t].local = ~ IsGlobal(t)
         /\ InitMap(graph)[t].usage = UsageCount(graph, t)
         /\ InitMap(graph)[t] \in [var : Tensors, local : BOOLEAN, usage : Int]
<1>1. InitMap(graph)[t] = [var |-> t, local |-> t \notin graph.inputs \cup ToSet(graph.outputs),
                           usage |-> UsageCount(graph, t)]
  BY DEF InitMap
<1>2. UsageCount(graph, t) \in Int  BY UsageFacts
<1> QED  BY <1>1, <1>2 DEF IsGlobal, IsOutput

LEMMA FreshFacts ==
  ASSUME graph \in Graphs, NEW t \in Tensors, Fresh(t)
  PROVE  /\ Own(t) /\ map[t].var = t /\ map[t].local = ~ IsGlobal(t)
         /\ map[t].usage = UsageCount(graph, t)
  BY InitMapFacts DEF Fresh, Own

\* What Unify does, entry by entry.
LEMMA UnifyFacts ==
  ASSUME MapType, NEW keep \in Tensors, NEW drop \in Tensors, keep # drop, NEW b \in BOOLEAN,
         Unify(keep, drop, b)
  PROVE  /\ MapType'
         /\ map'[drop].var = map[keep].var /\ map'[drop].local = b
         /\ map'[drop].usage = map[drop].usage - 1
         /\ map'[keep].var = map[keep].var /\ map'[keep].local = map[keep].local
         /\ map'[keep].usage = map[keep].usage + 1
         /\ \A t \in Tensors : t # keep /\ t # drop => map'[t] = map[t]
<1>1. map \in [Tensors -> [var : Tensors, local : BOOLEAN, usage : Int]]  BY DEF MapType
<1>2. PICK v : v = map[keep].var  OBVIOUS
<1>3. map' = [map EXCEPT ![drop].var = v, ![drop].usage = @ - 1, ![keep].usage = @ + 1,
                         ![drop].local = b]
  BY <1>2 DEF Unify
<1>4. v \in Tensors  BY <1>1, <1>2
<1>5. map'[drop] = [map[drop] EXCEPT !.var = v, !.usage = @ - 1, !.local = b]  BY <1>1, <1>3
<1>6. map'[keep] = [map[keep] EXCEPT !.usage = @ + 1]  BY <1>1, <1>3
<1>7. \A t \in Tensors : t # keep /\ t # drop => map'[t] = map[t]  BY <1>1, <1>3
<1>8. map[drop] \in [var : Tensors, local : BOOLEAN, usage : Int]
      /\ map[keep] \in [var : Tensors, local : BOOLEAN, usage : Int]
  BY <1>1
<1>9. /\ map'[drop].var = v /\ map'[drop].local = b /\ map'[drop].usage = map[drop].usage - 1
      /\ map'[drop] \in [var : Tensors, local : BOOLEAN, usage : Int]
  <2>1. PICK m : m = map[drop]  OBVIOUS
  <2>2. m \in [var : Tensors, local : BOOLEAN, usage : Int]  BY <1>8, <2>1
  <2>3. m = [var |-> m.var, local |-> m.local, usage |-> m.usage] /\ m.usage - 1 \in Int
    BY <2>2
  <2>4. map'[drop] = [m EXCEPT !.var = v, !.usage = @ - 1, !.local = b]  BY <1>5, <2>1
  <2>5. map'[drop] = [var |-> v, local |-> b, usage |-> m.usage - 1]  BY <2>3, <2>4
  <2> QED  BY <1>4, <2>1, <2>3, <2>5
<1>10. /\ map'[keep].var = map[keep].var /\ map'[keep].local = map[keep].local
       /\ map'[keep].usage = map[keep].usage + 1
       /\ map'[keep] \in [var : Tensors, local : BOOLEAN, usage : Int]
  BY <1>6, <1>8
<1>11. map' = [t \in Tensors |-> map'[t]]  BY <1>1, <1>3
<1>12. \A t \in Tensors : map'[t] \in [var : Tensors, local : BOOLEAN, usage : Int]
  BY <1>1, <1>7, <1>9, <1>10
<1>13. MapType'  BY <1>11, <1>12 DEF MapType
<1> QED  BY <1>2, <1>7, <1>9, <1>10, <1>13

\* A sharing node with something to do joins its two tensors and no others.
LEMMA ShareActs ==
  ASSUME graph \in Graphs, Plain, MapType, ShareNode, ShareInv,
         NEW k \in Sharing, k = node, Acts(k)
  PROVE  /\ MapType' /\ Joined(k)' /\ Moved(k)'
         /\ \A t \in Tensors : t # In(k) /\ t # Out(k) => map'[t] = map[t]
<1>1. PICK x, y : x = In(k) /\ y = Out(k)  OBVIOUS
<1>2. x \in Tensors /\ y \in Tensors /\ x # y  BY <1>1, SharingFacts
<1>3. Fresh(x) /\ Fresh(y)
  <2>1. ~ Joined(k)  BY DEF Acts, Differ, Joined, At
  <2> QED  BY <1>1, <2>1 DEF ShareInv
<1>4. /\ map[x].var = x /\ map[x].local = ~ IsGlobal(x) /\ map[x].usage = UsageCount(graph, x)
      /\ map[y].var = y /\ map[y].local = ~ IsGlobal(y) /\ map[y].usage = UsageCount(graph, y)
  BY <1>2, <1>3, FreshFacts
<1>5. map[x].local \/ map[y].local  BY <1>1 DEF Acts
<1>6. /\ graph' = graph
      /\ ~ map[x].local => Unify(x, y, FALSE)
      /\ map[x].local /\ ~ map[y].local => Unify(y, x, FALSE)
      /\ map[x].local /\ map[y].local => Unify(x, y, TRUE)
  BY <1>1 DEF ShareNode, Acts, In, Out, Sharing
<1>8. (IsGlobal(x)' <=> IsGlobal(x)) /\ (IsGlobal(y)' <=> IsGlobal(y))
      /\ UsageCount(graph, x)' = UsageCount(graph, x) /\ UsageCount(graph, y)' = UsageCount(graph, y)
  BY <1>6 DEF IsGlobal, IsOutput
<1>10. x = In(k)' /\ y = Out(k)'  BY <1>1, <1>6 DEF In, Out, Ins, Outs, Nodes
<1>11. CASE ~ map[x].local
  <2>1. Unify(x, y, FALSE)  BY <1>6, <1>11
  <2>2. /\ MapType' /\ map'[y].var = x /\ map'[y].local = FALSE
        /\ map'[x].var = x /\ map'[x].local = FALSE
        /\ \A t \in Tensors : t # x /\ t # y => map'[t] = map[t]
    BY <1>2, <1>4, <1>11, <2>1, UnifyFacts
  <2>3. IsGlobal(x) /\ ~ IsGlobal(y)  BY <1>4, <1>5, <1>11
  <2> QED  BY <1>1, <1>8, <1>10, <2>2, <2>3 DEF Joined, Moved, At
<1>12. CASE map[x].local /\ ~ map[y].local
  <2>1. Unify(y, x, FALSE)  BY <1>6, <1>12
  <2>2. /\ MapType' /\ map'[x].var = y /\ map'[x].local = FALSE
        /\ map'[y].var = y /\ map'[y].local = FALSE
        /\ \A t \in Tensors : t # x /\ t # y => map'[t] = map[t]
    <3>1. /\ MapType' /\ map'[x].var = map[y].var /\ map'[x].local = FALSE
          /\ map'[y].var = map[y].var /\ map'[y].local = map[y].local
          /\ \A t \in Tensors : t # y /\ t # x => map'[t] = map[t]
      BY <1>2, <2>1, UnifyFacts
    <3> QED  BY <1>4, <1>12, <3>1
  <2>3. ~ IsGlobal(x) /\ IsGlobal(y)  BY <1>4, <1>12
  <2> QED  BY <1>1, <1>8, <1>10, <2>2, <2>3 DEF Joined, Moved, At
<1>13. CASE map[x].local /\ map[y].local
  <2>1. Unify(x, y, TRUE)  BY <1>6, <1>13
  <2>2. /\ MapType' /\ map'[y].var = x /\ map'[y].local = TRUE
        /\ map'[y].usage = UsageCount(graph, y) - 1
        /\ map'[x].var = x /\ map'[x].local = TRUE
        /\ map'[x].usage = UsageCount(graph, x) + 1
        /\ \A t \in Tensors : t # x /\ t # y => map'[t] = map[t]
    <3>1. /\ MapType' /\ map'[y].var = map[x].var /\ map'[y].local = TRUE
          /\ map'[y].usage = map[y].usage - 1
          /\ map'[x].var = map[x].var /\ map'[x].local = map[x].local
          /\ map'[x].usage = map[x].usage + 1
          /\ \A t \in Tensors : t # x /\ t # y => map'[t] = map[t]
      BY <1>2, <2>1, UnifyFacts
    <3> QED  BY <1>4, <1>13, <3>1
  <2>3. ~ IsGlobal(x) /\ ~ IsGlobal(y)  BY <1>4, <1>13
  <2> QED  BY <1>1, <1>8, <1>10, <2>2, <2>3 DEF Joined, Moved, At
<1> QED  BY <1>11, <1>12, <1>13

-----------------------------------------------------------------------------
(***************************************************************************)
(* process_share_map keeps its invariant, and ends in a settled map.       *)
(***************************************************************************)

\* What depends on the graph alone does not change.
LEMMA GraphStays ==
  ASSUME graph' = graph
  PROVE  /\ Plain' = Plain /\ Sharing' = Sharing /\ Nodes' = Nodes
         /\ \A k : In(k)' = In(k) /\ Out(k)' = Out(k) /\ Ins(k)' = Ins(k) /\ Outs(k)' = Outs(k)
         /\ \A t : /\ IsGlobal(t)' = IsGlobal(t) /\ IsOutput(t)' = IsOutput(t)
                   /\ Lone(t)' = Lone(t)
                   /\ UsageCount(graph, t)' = UsageCount(graph, t)
                   /\ Buffer(t)' = Buffer(t)
         /\ InitMap(graph)' = InitMap(graph)
<1>1. Nodes' = Nodes  BY DEF Nodes
<1>2. \A k : Ins(k)' = Ins(k) /\ Outs(k)' = Outs(k)  BY <1>1 DEF Ins, Outs
<1>3. \A k : In(k)' = In(k) /\ Out(k)' = Out(k)  BY <1>2 DEF In, Out
<1>4. Sharing' = Sharing  BY <1>1 DEF Sharing
<1>5. \A t : IsOutput(t)' = IsOutput(t)  BY DEF IsOutput
<1>6. \A t : IsGlobal(t)' = IsGlobal(t)  BY <1>5 DEF IsGlobal
<1>7. \A t : Lone(t)' = Lone(t)  BY <1>3, <1>4 DEF Lone
<1>8. \A t : Buffer(t)' = Buffer(t)  BY <1>5 DEF Buffer
<1> QED  BY <1>1, <1>2, <1>3, <1>4, <1>5, <1>6, <1>7, <1>8 DEF Plain

LEMMA ShareStays ==
  ASSUME graph' = graph, NEW k \in Sharing, graph \in Graphs,
         map'[In(k)] = map[In(k)], map'[Out(k)] = map[Out(k)]
  PROVE  /\ Fresh(In(k))' = Fresh(In(k)) /\ Fresh(Out(k))' = Fresh(Out(k))
         /\ Joined(k)' = Joined(k) /\ Moved(k)' = Moved(k) /\ Acts(k)' = Acts(k)
<1>1. In(k)' = In(k) /\ Out(k)' = Out(k) /\ InitMap(graph)' = InitMap(graph)
      /\ IsGlobal(In(k))' = IsGlobal(In(k)) /\ IsGlobal(Out(k))' = IsGlobal(Out(k))
      /\ UsageCount(graph, In(k))' = UsageCount(graph, In(k))
      /\ UsageCount(graph, Out(k))' = UsageCount(graph, Out(k))
  BY GraphStays
<1>2. PICK x, y : x = In(k) /\ y = Out(k)  OBVIOUS
<1>3. x = In(k)' /\ y = Out(k)' /\ map'[x] = map[x] /\ map'[y] = map[y]  BY <1>1, <1>2
<1>4. Fresh(x)' = Fresh(x) /\ Fresh(y)' = Fresh(y)  BY <1>1, <1>3 DEF Fresh
<1>5. Joined(k)' = Joined(k)  BY <1>1, <1>2, <1>3 DEF Joined, At
<1>6. Moved(k)' = Moved(k)  BY <1>1, <1>2, <1>3 DEF Moved
<1>7. Acts(k)' = Acts(k)  BY <1>1, <1>2, <1>3 DEF Acts, Differ
<1> QED  BY <1>1, <1>2, <1>4, <1>5, <1>6, <1>7 DEF Fresh

\* One node of one pass: it is joined, or was joined, or shares nothing.
LEMMA ShareMaps ==
  ASSUME Plain, Control, MapType, ShareInv, ShareNode
  PROVE  /\ MapType'
         /\ \A t \in Tensors : Lone(t) => Fresh(t)'
         /\ \A k \in Sharing : (Fresh(In(k))' /\ Fresh(Out(k))') \/ (Joined(k)' /\ Moved(k)')
         /\ (~ \E k \in Sharing : k = node /\ Acts(k)) => map' = map
<1>1. graph \in Graphs /\ graph' = graph /\ node \in DOMAIN Nodes
  BY DEF Control, ShareNode
<1>2. InitMap(graph)' = InitMap(graph)  BY <1>1, GraphStays
<1>3. /\ \A t \in Tensors : Lone(t) => Fresh(t)
      /\ \A k \in Sharing : (Fresh(In(k)) /\ Fresh(Out(k))) \/ (Joined(k) /\ Moved(k))
  BY DEF ShareInv
<1>4. CASE ~ \E k \in Sharing : k = node /\ Acts(k)
  <2>1. ~ (Nodes[node].share /\ (map[Ins(node)[1]].local \/ map[Outs(node)[1]].local)
             /\ Differ(Ins(node)[1], Outs(node)[1]))
    BY <1>1, <1>4 DEF Sharing, Acts, In, Out
  <2>2. map' = map  BY <2>1 DEF ShareNode
  <2>3. MapType'  BY <2>2 DEF MapType
  <2>4. \A t \in Tensors : Lone(t) => Fresh(t)'  BY <1>2, <1>3, <2>2 DEF Fresh
  <2>5. \A k \in Sharing : (Fresh(In(k))' /\ Fresh(Out(k))') \/ (Joined(k)' /\ Moved(k)')
    BY <1>1, <1>3, <2>2, ShareStays
  <2> QED  BY <2>2, <2>3, <2>4, <2>5
<1>5. ASSUME NEW n \in Sharing, n = node, Acts(n)
      PROVE  /\ MapType'
             /\ \A t \in Tensors : Lone(t) => Fresh(t)'
             /\ \A k \in Sharing : (Fresh(In(k))' /\ Fresh(Out(k))') \/ (Joined(k)' /\ Moved(k)')
  <2>1. /\ MapType' /\ Joined(n)' /\ Moved(n)'
        /\ \A t \in Tensors : t # In(n) /\ t # Out(n) => map'[t] = map[t]
    BY <1>1, <1>5, ShareActs
  <2>2. \A t \in Tensors : Lone(t) => Fresh(t)'
    BY <1>2, <1>3, <2>1 DEF Fresh, Lone
  <2>3. ASSUME NEW k \in Sharing
        PROVE  (Fresh(In(k))' /\ Fresh(Out(k))') \/ (Joined(k)' /\ Moved(k)')
    <3>1. CASE k = n  BY <2>1, <3>1
    <3>2. CASE k # n
      <4>1. In(k) \in Tensors /\ Out(k) \in Tensors  BY <1>1, SharingFacts
      <4>2. {In(k), Out(k)} \cap {In(n), Out(n)} = {}  BY <3>2, PlainFacts
      <4>3. map'[In(k)] = map[In(k)] /\ map'[Out(k)] = map[Out(k)]  BY <2>1, <4>1, <4>2
      <4> QED  BY <1>1, <1>3, <4>3, ShareStays
    <3> QED  BY <3>1, <3>2
  <2> QED  BY <2>1, <2>2, <2>3
<1> QED  BY <1>4, <1>5

\* The invariant of the loop holds while the loop runs.
LEMMA ShareOn ==
  ASSUME Plain, Control, MapType, ShareInv, ShareNode, pc' = "share"
  PROVE  ShareInv'
<1>1. graph \in Graphs /\ graph' = graph /\ node \in DOMAIN Nodes /\ node \in Nat
      /\ change \in BOOLEAN
  BY NodeFacts DEF Control, ShareNode
<1>2. Sharing' = Sharing /\ \A t : Lone(t)' = Lone(t)  BY <1>1, GraphStays
<1>3. \A t \in Tensors : Lone(t)' => Fresh(t)'  BY <1>2, ShareMaps
<1>4. \A k \in Sharing' : (Fresh(In(k))' /\ Fresh(Out(k))') \/ (Joined(k)' /\ Moved(k)')
  BY <1>2, ShareMaps
<1>5. allocated' = allocated  BY DEF ShareNode, planner
<1>6. ASSUME ~ change', NEW k \in Sharing, k < node' PROVE ~ Acts(k)'
  <2>1. k \in Nat \ {0}  BY <1>1, NodeFacts DEF Sharing
  <2>2. node < Len(Nodes) /\ node' = node + 1
    <3>1. IF node < Len(Nodes) THEN node' = node + 1 ELSE node' = 1  BY DEF ShareNode
    <3>2. node' # 1  BY <1>6, <2>1
    <3> QED  BY <3>1, <3>2
  <2>3. change' = \/ change
                  \/ /\ Nodes[node].share
                     /\ map[In(node)].local \/ map[Out(node)].local
                     /\ Differ(In(node), Out(node))
    BY <2>2 DEF ShareNode, Changed, In, Out
  <2>4. ~ change /\ ~ (/\ Nodes[node].share
                       /\ map[In(node)].local \/ map[Out(node)].local
                       /\ Differ(In(node), Out(node)))
    BY <1>6, <2>3
  <2>5. ~ \E n \in Sharing : n = node /\ Acts(n)  BY <2>4 DEF Acts, Sharing
  <2>6. map' = map  BY <2>5, ShareMaps
  <2>7. Acts(k)' = Acts(k)  BY <1>1, <2>6, ShareStays
  <2>8. k < node \/ k = node  BY <1>1, <1>6, <2>1, <2>2
  <2>9. k < node => ~ Acts(k)  BY <2>4 DEF ShareInv
  <2> QED  BY <2>5, <2>7, <2>8, <2>9
<1>7. ~ change' => \A k \in Sharing' : k < node' => ~ Acts(k)'  BY <1>2, <1>6
<1>8. \A v \in Tensors : ~ allocated'[v]  BY <1>5 DEF ShareInv
<1> QED  BY <1>3, <1>4, <1>7, <1>8 DEF ShareInv

\* When a whole pass has changed nothing, every pair that could be joined is.
LEMMA ShareEnds ==
  ASSUME Plain, Control, MapType, ShareInv, ShareNode, pc' # "share"
  PROVE  Settled' /\ map' = map
<1>1. graph \in Graphs /\ graph' = graph /\ node \in DOMAIN Nodes /\ node \in Nat
      /\ Len(Nodes) \in Nat /\ change \in BOOLEAN
  BY NodeFacts, GraphFacts DEF Control, ShareNode
<1>2. PICK acts : acts = (/\ Nodes[node].share
                          /\ map[In(node)].local \/ map[Out(node)].local
                          /\ Differ(In(node), Out(node)))
  OBVIOUS
<1>3. /\ ~ (node < Len(Nodes))
      /\ pc' = IF change \/ acts THEN "share" ELSE "alloc"
  BY <1>2 DEF ShareNode, Changed, In, Out
<1>4. ~ change /\ ~ acts  BY <1>3
<1>5. ~ \E n \in Sharing : n = node /\ Acts(n)  BY <1>2, <1>4 DEF Acts, Sharing
<1>6. map' = map  BY <1>5, ShareMaps
<1>7. ASSUME NEW k \in Sharing PROVE ~ Acts(k)
  <2>1. k \in Nat /\ k <= Len(Nodes)  BY <1>1, NodeFacts DEF Sharing
  <2>2. k < node \/ k = node  BY <1>1, <1>3, <2>1
  <2>3. k < node => ~ Acts(k)  BY <1>4 DEF ShareInv
  <2> QED  BY <1>5, <2>2, <2>3
<1>8. \A t \in Tensors : Lone(t) => Own(t)  BY <1>1, FreshFacts DEF ShareInv
<1>9. ASSUME NEW k \in Sharing PROVE Joined(k) \/ BothGlobal(k)
  <2>1. CASE Joined(k)  BY <2>1
  <2>2. CASE Fresh(In(k)) /\ Fresh(Out(k))
    <3>1. In(k) \in Tensors /\ Out(k) \in Tensors /\ In(k) # Out(k)  BY <1>1, SharingFacts
    <3>2. /\ Own(In(k)) /\ map[In(k)].var = In(k) /\ map[In(k)].local = ~ IsGlobal(In(k))
          /\ Own(Out(k)) /\ map[Out(k)].var = Out(k) /\ map[Out(k)].local = ~ IsGlobal(Out(k))
      BY <1>1, <2>2, <3>1, FreshFacts
    <3>3. Differ(In(k), Out(k))  BY <3>1, <3>2 DEF Differ
    <3>4. IsGlobal(In(k)) /\ IsGlobal(Out(k))  BY <1>7, <3>2, <3>3 DEF Acts
    <3> QED  BY <3>2, <3>4 DEF BothGlobal, Apart
  <2> QED  BY <2>1, <2>2 DEF ShareInv
<1>10. Settled  BY <1>8, <1>9 DEF Settled
<1>11. Settled'
  <2>1. Sharing' = Sharing
        /\ \A k : In(k)' = In(k) /\ Out(k)' = Out(k)
        /\ \A t : IsGlobal(t)' = IsGlobal(t) /\ Lone(t)' = Lone(t)
    BY <1>1, GraphStays
  <2>2. \A t : Own(t)' = Own(t)  BY <1>6, <2>1 DEF Own
  <2>3. \A k : Joined(k)' = Joined(k)  BY <1>6, <2>1 DEF Joined, At
  <2>4. \A k : BothGlobal(k)' = BothGlobal(k)  BY <2>1, <2>2 DEF BothGlobal, Apart, Own
  <2> QED  BY <1>10, <2>1, <2>2, <2>3, <2>4 DEF Settled
<1> QED  BY <1>6, <1>11

\* The counts that process_share_map leaves.
LEMMA ShareCounts ==
  ASSUME Plain, Control, MapType, ShareInv, pc = "share"
  PROVE  Settled => Counted
<1>1. graph \in Graphs  BY DEF Control
<1>2. ASSUME NEW t PROVE Left(t) = ReadsOf(graph, t)  BY DEF Left, Past
<1>3. ASSUME Settled, NEW t \in Tensors, map[t].local
      PROVE  \/ map[t].usage = Cardinality(Left(t)) /\ Sole(t)
             \/ map[t].usage > Cardinality(Left(t))
             \/ map[t].usage <= 0
  <2>1. /\ ~ IsGlobal(t) /\ ~ IsOutput(t)  BY <1>1, <1>3, LocalFacts DEF IsGlobal
  <2>2. /\ UsageCount(graph, t) = Cardinality(Left(t)) /\ UsageCount(graph, t) \in Nat
    BY <1>1, <1>2, <2>1, UsageFacts
  <2>3. CASE Lone(t)
    <3>1. Fresh(t)  BY <2>3 DEF ShareInv
    <3>2. map[t].usage = UsageCount(graph, t) /\ map[t].var = t  BY <1>1, <3>1, FreshFacts
    <3>3. ASSUME NEW u \in Tensors, u # t PROVE map[u].var # t
      <4>1. CASE Lone(u)  BY <1>1, <1>3, <3>3, <4>1, LoneFacts
      <4>2. ASSUME NEW k \in Sharing, u = In(k) \/ u = Out(k) PROVE map[u].var # t
        <5>1. map[u].var \in {In(k), Out(k)}  BY <1>1, <1>3, <4>2, PairCases DEF At
        <5> QED  BY <2>3, <5>1 DEF Lone
      <4> QED  BY <1>1, <4>1, <4>2, EndsOf
    <3> QED  BY <2>2, <3>2, <3>3 DEF Sole
  <2>4. ASSUME NEW k \in Sharing, t = In(k) \/ t = Out(k)
        PROVE  map[t].usage > Cardinality(Left(t)) \/ map[t].usage <= 0
    <3>1. /\ ~ IsGlobal(In(k)) /\ ~ IsGlobal(Out(k))
          /\ At(In(k), In(k), TRUE) /\ At(Out(k), In(k), TRUE)
      BY <1>1, <1>3, <2>4, PairCases DEF At
    <3>2. In(k) # Out(k) /\ In(k) \in Tensors /\ Out(k) \in Tensors  BY <1>1, SharingFacts
    <3>3. Joined(k) /\ Moved(k)
      <4>1. ~ Fresh(Out(k))
        <5>1. map[Out(k)].var = In(k)  BY <3>1 DEF At
        <5> QED  BY <1>1, <3>2, <5>1, FreshFacts
      <4> QED  BY <4>1 DEF ShareInv
    <3>4. /\ map[In(k)].usage = UsageCount(graph, In(k)) + 1
          /\ map[Out(k)].usage = UsageCount(graph, Out(k)) - 1
      BY <3>1, <3>3 DEF Moved, At
    <3>5. CASE t = In(k)  BY <2>2, <3>4, <3>5
    <3>6. CASE t = Out(k)
      <4>1. \A r, s \in Left(t) : r = s  BY <1>2, <3>1, <3>6, PlainFacts
      <4>2. Cardinality(Left(t)) <= 1
        <5>1. CASE Left(t) = {}  BY <5>1, FS_EmptySet
        <5>2. CASE Left(t) # {}
          <6>1. PICK r : Left(t) = {r}  BY <4>1, <5>2
          <6> QED  BY <6>1, FS_Singleton
        <5> QED  BY <5>1, <5>2
      <4> QED  BY <2>2, <3>4, <3>6, <4>2
    <3> QED  BY <2>4, <3>5, <3>6
  <2> QED  BY <1>1, <2>3, <2>4, EndsOf
<1> QED  BY <1>3 DEF Counted

-----------------------------------------------------------------------------
(***************************************************************************)
(* The two planners: a step of the program is described per device, and    *)
(* each description is a step of the planner, whose invariant then holds.  *)
(***************************************************************************)

FitOf(d, n)   == FirstFit(regions[d], Ceil(n))
StartOf(d, n) == regions[d][FitOf(d, n)].start

\* On device d, v gets a block of n bytes ...
DevAlloc(d, v, n) ==
  /\ Pointers(d)[v] = -2
  /\ regions'[d] = TakeFrom(regions[d], FitOf(d, n), Ceil(n))
  /\ size_map'[d] = [p \in DOMAIN size_map[d] \cup {StartOf(d, n)} |->
                       IF p = StartOf(d, n) THEN Ceil(n) ELSE size_map[d][p]]
  /\ Pointers(d)' = [Pointers(d) EXCEPT ![v] = StartOf(d, n)]

\* ... or gives it back ...
DevFree(d, v) ==
  /\ Pointers(d)[v] \in Nat
  /\ regions'[d] = GiveBack(regions[d], Pointers(d)[v], size_map[d][Pointers(d)[v]])
  /\ size_map'[d] = size_map[d]
  /\ Pointers(d)' = [Pointers(d) EXCEPT ![v] = -2]

\* ... or gets or gives back the empty block ...
DevEmpty(d, v) ==
  /\ regions'[d] = regions[d] /\ size_map'[d] = size_map[d]
  /\ \/ /\ 0 \in AllSizes
        /\ Pointers(d)[v] = -2
        /\ Pointers(d)' = [Pointers(d) EXCEPT ![v] = NullPtr]
     \/ /\ Pointers(d)[v] = NullPtr
        /\ Pointers(d)' = [Pointers(d) EXCEPT ![v] = -2]

\* ... or the planner is initialised.
DevReset(d) ==
  /\ regions'[d] = InitRegions /\ size_map'[d] = [p \in {} |-> 0]
  /\ Pointers(d)' = [t \in Tensors |-> -2]

DevSame(d) ==
  /\ regions'[d] = regions[d] /\ size_map'[d] = size_map[d]
  /\ Pointers(d)' = Pointers(d)

\* What allocating an output, and what the last use of an input, may do.
DevGrow(d) ==
  \/ DevSame(d)
  \/ \E v \in Tensors : DevEmpty(d, v) \/ \E n \in AllSizes \ {0} : DevAlloc(d, v, n)

DevShrink(d) == DevSame(d) \/ \E v \in Tensors : DevEmpty(d, v) \/ DevFree(d, v)

DevNext(d) == DevReset(d) \/ DevGrow(d) \/ DevShrink(d)

PtrEnd(d, v) == Pointers(d)[v] + size_map[d][Pointers(d)[v]]

\* What is known of the planner of device d.
DevFacts(d) ==
  /\ regions[d] \in Seq(Region) /\ WellFormed(regions[d])
  /\ \A v \in Tensors : Pointers(d)[v] \in Nat =>
       /\ Pointers(d)[v] \in DOMAIN size_map[d]
       /\ size_map[d][Pointers(d)[v]] \in Nat \ {0}
  /\ \A u, v \in Tensors :
       (u # v /\ Pointers(d)[u] \in Nat /\ Pointers(d)[v] \in Nat) =>
         PtrEnd(d, u) <= Pointers(d)[v] \/ PtrEnd(d, v) <= Pointers(d)[u]
  /\ \A v \in Tensors : Pointers(d)[v] \in Nat =>
       \A a \in Pointers(d)[v] .. (PtrEnd(d, v) - 1) : ~ IsFree(regions[d], a)

LEMMA CpuStep ==
  ASSUME DevNext("cpu")
  PROVE  [CpuP!Next]_(CpuP!vars)
<1>1. CASE DevReset("cpu")
  BY <1>1, CpuOps DEF DevReset, CpuP!Next, CpuP!Reset, CpuP!NoPtr
<1>2. CASE DevSame("cpu")
  BY <1>2, CpuOps DEF DevSame, CpuP!vars
<1>3. ASSUME NEW v \in Tensors, DevFree("cpu", v) PROVE CpuP!Next
  BY <1>3, CpuOps DEF DevFree, CpuP!Next, CpuP!Free, CpuP!NoPtr, CpuP!Live
<1>4. ASSUME NEW v \in Tensors, DevEmpty("cpu", v) PROVE CpuP!Next
  BY <1>4, CpuOps DEF DevEmpty, CpuP!Next, CpuP!AllocateEmpty, CpuP!FreeEmpty, CpuP!NoPtr,
       CpuP!NullPtr, NullPtr
<1>5. ASSUME NEW v \in Tensors, NEW n \in AllSizes \ {0}, DevAlloc("cpu", v, n) PROVE CpuP!Next
  BY <1>5, CpuOps DEF DevAlloc, CpuP!Next, CpuP!Allocate, CpuP!Record, CpuP!NoPtr, StartOf, FitOf
<1> QED  BY <1>1, <1>2, <1>3, <1>4, <1>5 DEF DevNext, DevGrow, DevShrink

LEMMA CpuReset ==
  ASSUME regions["cpu"] = InitRegions, size_map["cpu"] = [p \in {} |-> 0],
         Pointers("cpu") = [t \in Tensors |-> -2]
  PROVE  CpuP!Init
  BY CpuOps DEF CpuP!Init, CpuP!NoPtr

LEMMA CpuInv ==
  /\ CpuP!Init => CpuP!IInv
  /\ CpuP!IInv /\ DevNext("cpu") => CpuP!IInv'
<1>1. CpuP!Init => CpuP!IInv  BY AllSizesNat, AlignmentAssumption, CpuP!InitInvariant
<1>2. ASSUME CpuP!IInv, DevNext("cpu") PROVE CpuP!IInv'
  <2>1. [CpuP!Next]_(CpuP!vars)  BY <1>2, CpuStep
  <2>2. CpuP!IInv /\ [CpuP!Next]_(CpuP!vars) => CpuP!IInv'
    BY AllSizesNat, AlignmentAssumption, CpuP!StepInvariant
  <2> QED  BY <1>2, <2>1, <2>2
<1> QED  BY <1>1, <1>2

LEMMA CpuFacts ==
  ASSUME CpuP!IInv
  PROVE  DevFacts("cpu")
<1>1. CpuP!TypeOK /\ CpuP!BlocksDisjoint /\ CpuP!Coalesced  BY DEF CpuP!IInv
<1>2. regions["cpu"] \in Seq(Region) /\ WellFormed(regions["cpu"])
  BY <1>1 DEF CpuP!TypeOK, CpuP!Region, Region, CpuP!Unbounded, Unbounded,
              CpuP!Coalesced, CpuP!WellFormed, WellFormed
<1>3. ASSUME NEW v \in Tensors, Pointers("cpu")[v] \in Nat
      PROVE  /\ Pointers("cpu")[v] \in DOMAIN size_map["cpu"]
             /\ size_map["cpu"][Pointers("cpu")[v]] \in Nat \ {0}
             /\ v \in CpuP!Live
  <2>1. v \in CpuP!Live  BY <1>3 DEF CpuP!Live
  <2>2. Pointers("cpu")[v] \in DOMAIN size_map["cpu"]  BY <1>1, <2>1 DEF CpuP!TypeOK
  <2>3. size_map["cpu"] \in [DOMAIN size_map["cpu"] -> Nat \ {0}]  BY <1>1 DEF CpuP!TypeOK
  <2>4. size_map["cpu"][Pointers("cpu")[v]] \in Nat \ {0}  BY <2>2, <2>3
  <2> QED  BY <2>1, <2>2, <2>4
<1>4. ASSUME NEW u \in Tensors, NEW v \in Tensors, u # v,
             Pointers("cpu")[u] \in Nat, Pointers("cpu")[v] \in Nat
      PROVE  \/ PtrEnd("cpu", u) <= Pointers("cpu")[v]
             \/ PtrEnd("cpu", v) <= Pointers("cpu")[u]
  <2>1. u \in CpuP!Live /\ v \in CpuP!Live  BY <1>3, <1>4
  <2>2. CpuP!End(u) <= Pointers("cpu")[v] \/ CpuP!End(v) <= Pointers("cpu")[u]
    BY <1>1, <1>4, <2>1 DEF CpuP!BlocksDisjoint
  <2> QED  BY <2>2 DEF CpuP!End, PtrEnd
<1>5. ASSUME NEW v \in Tensors, Pointers("cpu")[v] \in Nat,
             NEW a \in Pointers("cpu")[v] .. (PtrEnd("cpu", v) - 1)
      PROVE  ~ IsFree(regions["cpu"], a)
  <2>1. v \in CpuP!Live /\ size_map["cpu"][Pointers("cpu")[v]] \in Nat  BY <1>3, <1>5
  <2>2. PICK p, n : p = Pointers("cpu")[v] /\ n = size_map["cpu"][p]  OBVIOUS
  <2>3. p \in Nat /\ n \in Nat /\ PtrEnd("cpu", v) = p + n  BY <1>5, <2>1, <2>2 DEF PtrEnd
  <2>4. a \in Nat /\ p <= a /\ a < p + n  BY <1>5, <2>2, <2>3
  <2>5. CpuP!Holds(v, a)  BY <2>1, <2>2, <2>4 DEF CpuP!Holds, CpuP!End
  <2>6. ~ CpuP!IsFree(regions["cpu"], a)  BY <1>5, <2>4, <2>5 DEF CpuP!IInv, CpuP!Partition
  <2> QED  BY <2>6 DEF IsFree, CpuP!IsFree, InRegion, CpuP!InRegion, Unbounded, CpuP!Unbounded
<1> QED  BY <1>2, <1>3, <1>4, <1>5 DEF DevFacts

\* The same steps for the planner as GraphMemory names it.
LEMMA CpuPlannerOps ==
  /\ \A r, n : CpuPlanner!FirstFit(r, n) = FirstFit(r, n)
  /\ \A r, i, n : CpuPlanner!TakeFrom(r, i, n) = TakeFrom(r, i, n)
  /\ \A r, p, n : CpuPlanner!GiveBack(r, p, n) = GiveBack(r, p, n)
  /\ \A n : CpuPlanner!Ceil(n) = Ceil(n)
  /\ CpuPlanner!InitRegions = InitRegions
<1>1. \A r, n : CpuPlanner!FirstFit(r, n) = FirstFit(r, n)
  BY DEF FirstFit, CpuPlanner!FirstFit, Fits, CpuPlanner!Fits, Unbounded, CpuPlanner!Unbounded
<1>2. \A r, i, n : CpuPlanner!TakeFrom(r, i, n) = TakeFrom(r, i, n)
  BY DEF TakeFrom, CpuPlanner!TakeFrom, Unbounded, CpuPlanner!Unbounded, RemoveAt,
       CpuPlanner!RemoveAt
<1>3. \A r, p, n : CpuPlanner!GiveBack(r, p, n) = GiveBack(r, p, n)
  BY DEF GiveBack, CpuPlanner!GiveBack, After, CpuPlanner!After, Extend, CpuPlanner!Extend,
       Unbounded, CpuPlanner!Unbounded,
         RemoveAt, CpuPlanner!RemoveAt, InsertAt, CpuPlanner!InsertAt
<1>4. \A n : CpuPlanner!Ceil(n) = Ceil(n)  BY DEF Ceil, CpuPlanner!Ceil
<1>5. CpuPlanner!InitRegions = InitRegions
  BY DEF InitRegions, CpuPlanner!InitRegions, Unbounded, CpuPlanner!Unbounded
<1> QED  BY <1>1, <1>2, <1>3, <1>4, <1>5

LEMMA CpuPlannerStep ==
  ASSUME DevNext("cpu")
  PROVE  [CpuPlanner!Next]_(CpuPlanner!vars)
<1>1. CASE DevReset("cpu")
  BY <1>1, CpuPlannerOps DEF DevReset, CpuPlanner!Next, CpuPlanner!Reset, CpuPlanner!NoPtr
<1>2. CASE DevSame("cpu")
  BY <1>2, CpuPlannerOps DEF DevSame, CpuPlanner!vars
<1>3. ASSUME NEW v \in Tensors, DevFree("cpu", v) PROVE CpuPlanner!Next
  BY <1>3, CpuPlannerOps DEF DevFree, CpuPlanner!Next, CpuPlanner!Free, CpuPlanner!NoPtr,
       CpuPlanner!Live
<1>4. ASSUME NEW v \in Tensors, DevEmpty("cpu", v) PROVE CpuPlanner!Next
  BY <1>4, CpuPlannerOps DEF DevEmpty, CpuPlanner!Next, CpuPlanner!AllocateEmpty,
       CpuPlanner!FreeEmpty, CpuPlanner!NoPtr, CpuPlanner!NullPtr, NullPtr
<1>5. ASSUME NEW v \in Tensors, NEW n \in AllSizes \ {0}, DevAlloc("cpu", v, n) PROVE CpuPlanner!Next
  BY <1>5, CpuPlannerOps DEF DevAlloc, CpuPlanner!Next, CpuPlanner!Allocate, CpuPlanner!Record,
       CpuPlanner!NoPtr, StartOf, FitOf
<1> QED  BY <1>1, <1>2, <1>3, <1>4, <1>5 DEF DevNext, DevGrow, DevShrink

LEMMA CpuPlannerInit ==
  ASSUME regions["cpu"] = InitRegions, size_map["cpu"] = [p \in {} |-> 0],
         Pointers("cpu") = [t \in Tensors |-> -2]
  PROVE  CpuPlanner!Init
  BY CpuPlannerOps DEF CpuPlanner!Init, CpuPlanner!NoPtr

LEMMA CudaOps ==
  /\ \A r, n : CudaP!FirstFit(r, n) = FirstFit(r, n)
  /\ \A r, i, n : CudaP!TakeFrom(r, i, n) = TakeFrom(r, i, n)
  /\ \A r, p, n : CudaP!GiveBack(r, p, n) = GiveBack(r, p, n)
  /\ \A n : CudaP!Ceil(n) = Ceil(n)
  /\ CudaP!InitRegions = InitRegions
<1>1. \A r, n : CudaP!FirstFit(r, n) = FirstFit(r, n)
  BY DEF FirstFit, CudaP!FirstFit, Fits, CudaP!Fits, Unbounded, CudaP!Unbounded
<1>2. \A r, i, n : CudaP!TakeFrom(r, i, n) = TakeFrom(r, i, n)
  BY DEF TakeFrom, CudaP!TakeFrom, Unbounded, CudaP!Unbounded, RemoveAt, CudaP!RemoveAt
<1>3. \A r, p, n : CudaP!GiveBack(r, p, n) = GiveBack(r, p, n)
  BY DEF GiveBack, CudaP!GiveBack, After, CudaP!After, Extend, CudaP!Extend, Unbounded,
       CudaP!Unbounded,
         RemoveAt, CudaP!RemoveAt, InsertAt, CudaP!InsertAt
<1>4. \A n : CudaP!Ceil(n) = Ceil(n)  BY DEF Ceil, CudaP!Ceil
<1>5. CudaP!InitRegions = InitRegions
  BY DEF InitRegions, CudaP!InitRegions, Unbounded, CudaP!Unbounded
<1> QED  BY <1>1, <1>2, <1>3, <1>4, <1>5

LEMMA CudaStep ==
  ASSUME DevNext("cuda")
  PROVE  [CudaP!Next]_(CudaP!vars)
<1>1. CASE DevReset("cuda")
  BY <1>1, CudaOps DEF DevReset, CudaP!Next, CudaP!Reset, CudaP!NoPtr
<1>2. CASE DevSame("cuda")
  BY <1>2, CudaOps DEF DevSame, CudaP!vars
<1>3. ASSUME NEW v \in Tensors, DevFree("cuda", v) PROVE CudaP!Next
  BY <1>3, CudaOps DEF DevFree, CudaP!Next, CudaP!Free, CudaP!NoPtr, CudaP!Live
<1>4. ASSUME NEW v \in Tensors, DevEmpty("cuda", v) PROVE CudaP!Next
  BY <1>4, CudaOps DEF DevEmpty, CudaP!Next, CudaP!AllocateEmpty, CudaP!FreeEmpty, CudaP!NoPtr,
       CudaP!NullPtr, NullPtr
<1>5. ASSUME NEW v \in Tensors, NEW n \in AllSizes \ {0}, DevAlloc("cuda", v, n) PROVE CudaP!Next
  BY <1>5, CudaOps DEF DevAlloc, CudaP!Next, CudaP!Allocate, CudaP!Record, CudaP!NoPtr, StartOf,
       FitOf
<1> QED  BY <1>1, <1>2, <1>3, <1>4, <1>5 DEF DevNext, DevGrow, DevShrink

LEMMA CudaReset ==
  ASSUME regions["cuda"] = InitRegions, size_map["cuda"] = [p \in {} |-> 0],
         Pointers("cuda") = [t \in Tensors |-> -2]
  PROVE  CudaP!Init
  BY CudaOps DEF CudaP!Init, CudaP!NoPtr

LEMMA CudaInv ==
  /\ CudaP!Init => CudaP!IInv
  /\ CudaP!IInv /\ DevNext("cuda") => CudaP!IInv'
<1>1. CudaP!Init => CudaP!IInv  BY AllSizesNat, AlignmentAssumption, CudaP!InitInvariant
<1>2. ASSUME CudaP!IInv, DevNext("cuda") PROVE CudaP!IInv'
  <2>1. [CudaP!Next]_(CudaP!vars)  BY <1>2, CudaStep
  <2>2. CudaP!IInv /\ [CudaP!Next]_(CudaP!vars) => CudaP!IInv'
    BY AllSizesNat, AlignmentAssumption, CudaP!StepInvariant
  <2> QED  BY <1>2, <2>1, <2>2
<1> QED  BY <1>1, <1>2

LEMMA CudaFacts ==
  ASSUME CudaP!IInv
  PROVE  DevFacts("cuda")
<1>1. CudaP!TypeOK /\ CudaP!BlocksDisjoint /\ CudaP!Coalesced  BY DEF CudaP!IInv
<1>2. regions["cuda"] \in Seq(Region) /\ WellFormed(regions["cuda"])
  BY <1>1 DEF CudaP!TypeOK, CudaP!Region, Region, CudaP!Unbounded, Unbounded,
              CudaP!Coalesced, CudaP!WellFormed, WellFormed
<1>3. ASSUME NEW v \in Tensors, Pointers("cuda")[v] \in Nat
      PROVE  /\ Pointers("cuda")[v] \in DOMAIN size_map["cuda"]
             /\ size_map["cuda"][Pointers("cuda")[v]] \in Nat \ {0}
             /\ v \in CudaP!Live
  <2>1. v \in CudaP!Live  BY <1>3 DEF CudaP!Live
  <2>2. Pointers("cuda")[v] \in DOMAIN size_map["cuda"]  BY <1>1, <2>1 DEF CudaP!TypeOK
  <2>3. size_map["cuda"] \in [DOMAIN size_map["cuda"] -> Nat \ {0}]  BY <1>1 DEF CudaP!TypeOK
  <2>4. size_map["cuda"][Pointers("cuda")[v]] \in Nat \ {0}  BY <2>2, <2>3
  <2> QED  BY <2>1, <2>2, <2>4
<1>4. ASSUME NEW u \in Tensors, NEW v \in Tensors, u # v,
             Pointers("cuda")[u] \in Nat, Pointers("cuda")[v] \in Nat
      PROVE  \/ PtrEnd("cuda", u) <= Pointers("cuda")[v]
             \/ PtrEnd("cuda", v) <= Pointers("cuda")[u]
  <2>1. u \in CudaP!Live /\ v \in CudaP!Live  BY <1>3, <1>4
  <2>2. CudaP!End(u) <= Pointers("cuda")[v] \/ CudaP!End(v) <= Pointers("cuda")[u]
    BY <1>1, <1>4, <2>1 DEF CudaP!BlocksDisjoint
  <2> QED  BY <2>2 DEF CudaP!End, PtrEnd
<1>5. ASSUME NEW v \in Tensors, Pointers("cuda")[v] \in Nat,
             NEW a \in Pointers("cuda")[v] .. (PtrEnd("cuda", v) - 1)
      PROVE  ~ IsFree(regions["cuda"], a)
  <2>1. v \in CudaP!Live /\ size_map["cuda"][Pointers("cuda")[v]] \in Nat  BY <1>3, <1>5
  <2>2. PICK p, n : p = Pointers("cuda")[v] /\ n = size_map["cuda"][p]  OBVIOUS
  <2>3. p \in Nat /\ n \in Nat /\ PtrEnd("cuda", v) = p + n  BY <1>5, <2>1, <2>2 DEF PtrEnd
  <2>4. a \in Nat /\ p <= a /\ a < p + n  BY <1>5, <2>2, <2>3
  <2>5. CudaP!Holds(v, a)  BY <2>1, <2>2, <2>4 DEF CudaP!Holds, CudaP!End
  <2>6. ~ CudaP!IsFree(regions["cuda"], a)  BY <1>5, <2>4, <2>5 DEF CudaP!IInv, CudaP!Partition
  <2> QED  BY <2>6 DEF IsFree, CudaP!IsFree, InRegion, CudaP!InRegion, Unbounded, CudaP!Unbounded
<1> QED  BY <1>2, <1>3, <1>4, <1>5 DEF DevFacts

\* The same steps for the planner as GraphMemory names it.
LEMMA CudaPlannerOps ==
  /\ \A r, n : CudaPlanner!FirstFit(r, n) = FirstFit(r, n)
  /\ \A r, i, n : CudaPlanner!TakeFrom(r, i, n) = TakeFrom(r, i, n)
  /\ \A r, p, n : CudaPlanner!GiveBack(r, p, n) = GiveBack(r, p, n)
  /\ \A n : CudaPlanner!Ceil(n) = Ceil(n)
  /\ CudaPlanner!InitRegions = InitRegions
<1>1. \A r, n : CudaPlanner!FirstFit(r, n) = FirstFit(r, n)
  BY DEF FirstFit, CudaPlanner!FirstFit, Fits, CudaPlanner!Fits, Unbounded, CudaPlanner!Unbounded
<1>2. \A r, i, n : CudaPlanner!TakeFrom(r, i, n) = TakeFrom(r, i, n)
  BY DEF TakeFrom, CudaPlanner!TakeFrom, Unbounded, CudaPlanner!Unbounded, RemoveAt,
       CudaPlanner!RemoveAt
<1>3. \A r, p, n : CudaPlanner!GiveBack(r, p, n) = GiveBack(r, p, n)
  BY DEF GiveBack, CudaPlanner!GiveBack, After, CudaPlanner!After, Extend, CudaPlanner!Extend,
       Unbounded, CudaPlanner!Unbounded,
         RemoveAt, CudaPlanner!RemoveAt, InsertAt, CudaPlanner!InsertAt
<1>4. \A n : CudaPlanner!Ceil(n) = Ceil(n)  BY DEF Ceil, CudaPlanner!Ceil
<1>5. CudaPlanner!InitRegions = InitRegions
  BY DEF InitRegions, CudaPlanner!InitRegions, Unbounded, CudaPlanner!Unbounded
<1> QED  BY <1>1, <1>2, <1>3, <1>4, <1>5

LEMMA CudaPlannerStep ==
  ASSUME DevNext("cuda")
  PROVE  [CudaPlanner!Next]_(CudaPlanner!vars)
<1>1. CASE DevReset("cuda")
  BY <1>1, CudaPlannerOps DEF DevReset, CudaPlanner!Next, CudaPlanner!Reset, CudaPlanner!NoPtr
<1>2. CASE DevSame("cuda")
  BY <1>2, CudaPlannerOps DEF DevSame, CudaPlanner!vars
<1>3. ASSUME NEW v \in Tensors, DevFree("cuda", v) PROVE CudaPlanner!Next
  BY <1>3, CudaPlannerOps DEF DevFree, CudaPlanner!Next, CudaPlanner!Free, CudaPlanner!NoPtr,
       CudaPlanner!Live
<1>4. ASSUME NEW v \in Tensors, DevEmpty("cuda", v) PROVE CudaPlanner!Next
  BY <1>4, CudaPlannerOps DEF DevEmpty, CudaPlanner!Next, CudaPlanner!AllocateEmpty,
       CudaPlanner!FreeEmpty, CudaPlanner!NoPtr, CudaPlanner!NullPtr, NullPtr
<1>5. ASSUME NEW v \in Tensors, NEW n \in AllSizes \ {0}, DevAlloc("cuda", v, n) PROVE CudaPlanner!Next
  BY <1>5, CudaPlannerOps DEF DevAlloc, CudaPlanner!Next, CudaPlanner!Allocate,
       CudaPlanner!Record, CudaPlanner!NoPtr, StartOf, FitOf
<1> QED  BY <1>1, <1>2, <1>3, <1>4, <1>5 DEF DevNext, DevGrow, DevShrink

LEMMA CudaPlannerInit ==
  ASSUME regions["cuda"] = InitRegions, size_map["cuda"] = [p \in {} |-> 0],
         Pointers("cuda") = [t \in Tensors |-> -2]
  PROVE  CudaPlanner!Init
  BY CudaPlannerOps DEF CudaPlanner!Init, CudaPlanner!NoPtr

PlannerInv == CpuP!IInv /\ CudaP!IInv

LEMMA PlannerFacts ==
  ASSUME PlannerInv, NEW d \in Devices
  PROVE  DevFacts(d)
  BY CpuFacts, CudaFacts DEF PlannerInv, Devices

LEMMA PlannerStep ==
  ASSUME PlannerInv, \A d \in Devices : DevNext(d)
  PROVE  PlannerInv'
<1>1. DevNext("cpu") /\ DevNext("cuda")  BY DEF Devices
<1> QED  BY <1>1, CpuInv, CudaInv DEF PlannerInv

-----------------------------------------------------------------------------
(***************************************************************************)
(* Allocating an output is a legal call of the planner of its device.      *)
(***************************************************************************)

\* A step that changes one variable's block changes the pointers of its device.
LEMMA PointersChange ==
  ASSUME NEW v \in Tensors, NEW b \in BOOLEAN, NEW a, graph' = graph,
         allocated \in [Tensors -> BOOLEAN], addr \in [Tensors -> Nat \cup {NullPtr}],
         allocated' = [allocated EXCEPT ![v] = b],
         addr' = [addr EXCEPT ![v] = a]
  PROVE  /\ \A d : d # graph.device[v] => Pointers(d)' = Pointers(d)
         /\ Pointers(graph.device[v])' =
              [Pointers(graph.device[v]) EXCEPT ![v] = IF b THEN a ELSE -2]
<1>1. \A u \in Tensors : u # v => allocated'[u] = allocated[u] /\ addr'[u] = addr[u]  OBVIOUS
<1>2. allocated'[v] = b /\ addr'[v] = a  OBVIOUS
<1>3. \A d : Pointers(d) = [u \in Tensors |-> IF allocated[u] /\ graph.device[u] = d THEN addr[u] ELSE -2]
  BY DEF Pointers
<1>4. \A d : Pointers(d)' = [u \in Tensors |-> IF allocated'[u] /\ graph.device[u] = d THEN addr'[u] ELSE -2]
  BY DEF Pointers
<1>5. ASSUME NEW d, d # graph.device[v] PROVE Pointers(d)' = Pointers(d)
  BY <1>1, <1>3, <1>4, <1>5
<1>6. PICK d : d = graph.device[v]  OBVIOUS
<1>7. Pointers(d)' = [Pointers(d) EXCEPT ![v] = IF b THEN a ELSE -2]
  <2>1. PICK P, Q : P = Pointers(d) /\ Q = Pointers(d)'  OBVIOUS
  <2>2. \A u \in Tensors : u # v => Q[u] = P[u]  BY <1>1, <1>3, <1>4, <2>1
  <2>3. Q[v] = IF b THEN a ELSE -2  BY <1>2, <1>4, <1>6, <2>1
  <2>4. P = [u \in Tensors |-> P[u]] /\ Q = [u \in Tensors |-> Q[u]]  BY <1>3, <1>4, <2>1
  <2>5. Q = [P EXCEPT ![v] = IF b THEN a ELSE -2]  BY <2>2, <2>3, <2>4
  <2> QED  BY <2>1, <2>5
<1> QED  BY <1>5, <1>6, <1>7

\* Steps that leave the planners alone, and the launch that resets them.
LEMMA PlannerUnchanged ==
  ASSUME graph' = graph, UNCHANGED planner, NEW d
  PROVE  DevSame(d)
  BY DEF planner, DevSame, Pointers

LEMMA PlannerReset ==
  ASSUME graph' = graph, regions' = NewLists, size_map' = NoSizes,
         allocated' = [v \in Tensors |-> FALSE], NEW d \in Devices
  PROVE  DevNext(d)
  BY DEF NewLists, NoSizes, DevNext, DevReset, Pointers

\* What the program does for an output y that needs a block.
AllocDoes(y, v, c, n) ==
  /\ y \in Tensors /\ v \in Tensors /\ c \in Devices /\ n \in AllSizes /\ n \in Nat
  /\ graph.size[v] = n /\ graph.device[v] = c
  /\ allocated' = [allocated EXCEPT ![v] = TRUE]
  /\ n = 0 => addr' = [addr EXCEPT ![v] = NullPtr] /\ UNCHANGED <<regions, size_map>>
  /\ n # 0 =>
       /\ addr' = [addr EXCEPT ![v] = StartOf(c, n)]
       /\ size_map' = [size_map EXCEPT ![c] = size_map'[c]]
       /\ size_map'[c] = [q \in DOMAIN size_map[c] \cup {StartOf(c, n)} |->
                            IF q = StartOf(c, n) THEN Ceil(n) ELSE size_map[c][q]]
       /\ regions' = [regions EXCEPT ![c] = regions'[c]]
       /\ regions'[c] = TakeFrom(regions[c], FitOf(c, n), Ceil(n))

\* An output that is local and has no block gets one.
LEMMA AllocActs ==
  ASSUME Plain, Control, Data, Settled, AllocOutput,
         NEW y, y = Outs(node)[arg], NEW v, v = map[y].var, NEW c, c = graph.device[y],
         NEW n, n = graph.size[y], ~ allocated[v], map[y].local
  PROVE  AllocDoes(y, v, c, n)
<1>1. graph \in Graphs /\ node \in DOMAIN Nodes /\ arg \in Nat \ {0} /\ arg <= Len(Outs(node))
  BY DEF Control, AllocOutput
<1>2. Outs(node) \in Seq(Tensors)  BY <1>1, NodeFacts
<1>3. y \in Tensors  BY <1>1, <1>2
<1>4. v \in Tensors /\ graph.size[v] = n /\ graph.device[v] = c  BY <1>1, <1>3, LocalFacts
<1>5. n \in Nat /\ c \in Devices /\ n \in AllSizes  BY <1>1, <1>3, GraphFacts DEF AllSizes
<1>6. allocated' = [allocated EXCEPT ![v] = TRUE]  BY DEF AllocOutput
<1>7. n = 0 => addr' = [addr EXCEPT ![v] = NullPtr] /\ UNCHANGED <<regions, size_map>>
  BY DEF AllocOutput
<1>8. ASSUME n # 0
      PROVE  /\ addr' = [addr EXCEPT ![v] = StartOf(c, n)]
             /\ size_map' = [size_map EXCEPT ![c] = Recorded(size_map[c], StartOf(c, n), Ceil(n))]
             /\ regions' = [regions EXCEPT ![c] = TakeFrom(regions[c], FitOf(c, n), Ceil(n))]
  <2>1. PICK i, size, p : i = FitOf(c, n) /\ size = Ceil(n) /\ p = StartOf(c, n)  OBVIOUS
  <2>2. i = FirstFit(regions[c], size) /\ p = regions[c][i].start
    BY <2>1 DEF FitOf, StartOf
  <2>3. /\ addr' = [addr EXCEPT ![v] =
                      regions[c][FirstFit(regions[c], Ceil(graph.size[y]))].start]
        /\ size_map' = [size_map EXCEPT ![c] =
             Recorded(@, regions[c][FirstFit(regions[c], Ceil(graph.size[y]))].start,
                      Ceil(graph.size[y]))]
        /\ regions' = [regions EXCEPT ![c] =
             TakeFrom(@, FirstFit(regions[c], Ceil(graph.size[y])), Ceil(graph.size[y]))]
    BY <1>8 DEF AllocOutput
  <2>4. addr' = [addr EXCEPT ![v] = p]  BY <2>1, <2>2, <2>3
  <2>5. size_map' = [size_map EXCEPT ![c] = Recorded(size_map[c], p, size)]  BY <2>1, <2>2, <2>3
  <2>6. regions' = [regions EXCEPT ![c] = TakeFrom(regions[c], i, size)]  BY <2>1, <2>2, <2>3, Zenon
  <2> QED  BY <2>1, <2>4, <2>5, <2>6
<1>9. regions \in [Devices -> Seq(Region)] /\ size_map = [d \in Devices |-> size_map[d]]
  BY DEF Data
<1>10. ASSUME n # 0
       PROVE  /\ size_map'[c] = Recorded(size_map[c], StartOf(c, n), Ceil(n))
              /\ regions'[c] = TakeFrom(regions[c], FitOf(c, n), Ceil(n))
              /\ size_map' = [size_map EXCEPT ![c] = size_map'[c]]
              /\ regions' = [regions EXCEPT ![c] = regions'[c]]
  BY <1>5, <1>8, <1>9, <1>10
<1> QED  BY <1>3, <1>4, <1>5, <1>6, <1>7, <1>8, <1>10 DEF Recorded, AllocDoes

\* An output for which nothing is allocated.
LEMMA AllocSkips ==
  ASSUME AllocOutput, NEW y, y = Outs(node)[arg], allocated[map[y].var] \/ ~ map[y].local
  PROVE  UNCHANGED planner
  BY DEF AllocOutput

\* Tensor2VarMap's block for an output is one step of the planner of its device.
LEMMA AllocLegal ==
  ASSUME Plain, Control, Data, Settled, AllocOutput
  PROVE  \A d \in Devices : DevGrow(d)
<1>1. graph' = graph  BY DEF AllocOutput
<1>2. PICK y, v, c, n : y = Outs(node)[arg] /\ v = map[y].var /\ c = graph.device[y] /\ n = graph.size[y]
  OBVIOUS
<1>3. CASE allocated[v] \/ ~ map[y].local
  BY <1>1, <1>2, <1>3, AllocSkips, PlannerUnchanged DEF DevGrow
<1>4. CASE ~ allocated[v] /\ map[y].local
  <2> AllocDoes(y, v, c, n)  BY <1>2, <1>4, AllocActs
  <2>1. /\ v \in Tensors /\ c \in Devices /\ n \in AllSizes
        /\ graph.device[v] = c /\ allocated' = [allocated EXCEPT ![v] = TRUE]
    BY DEF AllocDoes
  <2>2. Pointers(c)[v] = -2  BY <1>4, <2>1 DEF Pointers
  <2>3. /\ allocated \in [Tensors -> BOOLEAN] /\ addr \in [Tensors -> Nat \cup {NullPtr}]
        /\ regions \in [Devices -> Seq(Region)] /\ size_map = [d \in Devices |-> size_map[d]]
    BY DEF Data
  <2>4. CASE n = 0
    <3>1. addr' = [addr EXCEPT ![v] = NullPtr] /\ UNCHANGED <<regions, size_map>>
      BY <2>4 DEF AllocDoes
    <3>2. /\ \A d : d # c => Pointers(d)' = Pointers(d)
          /\ Pointers(c)' = [Pointers(c) EXCEPT ![v] = NullPtr]
      BY <1>1, <2>1, <2>3, <3>1, PointersChange
    <3>3. DevEmpty(c, v)  BY <2>1, <2>2, <2>4, <3>1, <3>2 DEF DevEmpty
    <3>4. \A d : d # c => DevSame(d)  BY <3>1, <3>2 DEF DevSame
    <3> QED  BY <2>1, <3>3, <3>4 DEF DevGrow
  <2>5. CASE n # 0
    <3>1. PICK p : p = StartOf(c, n)  OBVIOUS
    <3>2. /\ addr' = [addr EXCEPT ![v] = p]
          /\ size_map' = [size_map EXCEPT ![c] = size_map'[c]]
          /\ size_map'[c] = [q \in DOMAIN size_map[c] \cup {p} |->
                               IF q = p THEN Ceil(n) ELSE size_map[c][q]]
          /\ regions' = [regions EXCEPT ![c] = regions'[c]]
          /\ regions'[c] = TakeFrom(regions[c], FitOf(c, n), Ceil(n))
      BY <2>5, <3>1 DEF AllocDoes
    <3>3. /\ \A d : d # c => Pointers(d)' = Pointers(d)
          /\ Pointers(c)' = [Pointers(c) EXCEPT ![v] = p]
      BY <1>1, <2>1, <2>3, <3>2, PointersChange
    <3>4. DevAlloc(c, v, n)  BY <2>2, <3>1, <3>2, <3>3 DEF DevAlloc
    <3>5. \A d \in Devices : d # c => regions'[d] = regions[d] /\ size_map'[d] = size_map[d]
      BY <2>3, <3>2
    <3>6. \A d \in Devices : d # c => DevSame(d)  BY <3>3, <3>5 DEF DevSame
    <3>7. n \in AllSizes \ {0}  BY <2>1, <2>5
    <3> QED  BY <2>1, <3>4, <3>6, <3>7 DEF DevGrow
  <2> QED  BY <2>4, <2>5
<1>5. allocated \in [Tensors -> BOOLEAN]  BY DEF Data
<1> QED  BY <1>3, <1>4

-----------------------------------------------------------------------------
(***************************************************************************)
(* Freeing an input is a legal call; so each step is legal for both planners. *)
(***************************************************************************)

\* A read that is being accounted for is of a tensor that was made.
LEMMA OperandMade ==
  ASSUME Control, pc = "free", NEW i \in DOMAIN Ins(node)
  PROVE  Made(Ins(node)[i])
<1>1. graph \in Graphs /\ node \in DOMAIN Nodes  BY DEF Control
<1>2. \/ Ins(node)[i] \in graph.inputs
      \/ \E j \in DOMAIN Nodes : j < node /\ Ins(node)[i] \in ToSet(Outs(j))
  BY <1>1, Topological
<1> QED  BY <1>2 DEF Made

\* The block that the last use of a tensor frees is in use.
LEMMA FreedIsAllocated ==
  ASSUME Control, BusyAllocated, FreeInput, NEW x, x = Ins(node)[arg], LastUse(x)
  PROVE  allocated[map[x].var]
<1>1. pc = "free" /\ arg \in DOMAIN Ins(node)
  <2>1. graph \in Graphs /\ node \in DOMAIN Nodes /\ arg \in Nat \ {0}  BY DEF Control
  <2>2. Ins(node) \in Seq(Tensors)  BY <2>1, NodeFacts
  <2> QED  BY <2>1, <2>2 DEF FreeInput
<1>2. Made(x)  BY <1>1, OperandMade
<1>3. x \in Tensors /\ Needed(x)  BY FreeLeft DEF Needed
<1> QED  BY <1>2, <1>3 DEF Busy, BusyAllocated, LastUse

\* What an input's last use frees is allocated: the planner is called legally.
LEMMA FreeLegal ==
  ASSUME Plain, Control, Data, Settled, BusyAllocated, FreeInput
  PROVE  \A d \in Devices : DevShrink(d)
<1>1. graph \in Graphs /\ graph' = graph  BY DEF Control, FreeInput
<1>2. PICK x : x = Ins(node)[arg]  OBVIOUS
<1>3. x \in Tensors  BY <1>2, FreeLeft
<1>4. PICK v, c, p : v = map[x].var /\ c = graph.device[x] /\ p = addr[v]  OBVIOUS
<1>5. CASE ~ LastUse(x)
  <2>1. UNCHANGED planner  BY <1>2, <1>5 DEF FreeInput
  <2> QED  BY <1>1, <2>1, PlannerUnchanged DEF DevShrink
<1>6. CASE LastUse(x)
  <2>1. v \in Tensors /\ graph.device[v] = c
    BY <1>1, <1>3, <1>4, <1>6, LocalFacts DEF LastUse
  <2>2. allocated[v]  BY <1>2, <1>4, <1>6, FreedIsAllocated
  <2>3. Pointers(c)[v] = p  BY <1>4, <2>1, <2>2 DEF Pointers
  <2>4. /\ allocated \in [Tensors -> BOOLEAN] /\ addr \in [Tensors -> Nat \cup {NullPtr}]
        /\ regions \in [Devices -> Seq(Region)]
    BY DEF Data
  <2>5. /\ allocated' = [allocated EXCEPT ![v] = FALSE]
        /\ regions' = IF p = NullPtr THEN regions
                      ELSE [regions EXCEPT ![c] = GiveBack(regions[c], p, size_map[c][p])]
        /\ addr' = addr /\ size_map' = size_map
    <3>1. /\ allocated' = [allocated EXCEPT ![v] = FALSE]
          /\ regions' = IF p = NullPtr THEN regions
                        ELSE [regions EXCEPT ![c] = GiveBack(@, p, size_map[c][p])]
          /\ UNCHANGED <<addr, size_map>>
      BY <1>2, <1>4, <1>6 DEF FreeInput
    <3> QED  BY <3>1
  <2>6. addr' = [addr EXCEPT ![v] = p]  BY <1>4, <2>1, <2>4, <2>5
  <2>7. /\ \A d : d # c => Pointers(d)' = Pointers(d)
        /\ Pointers(c)' = [Pointers(c) EXCEPT ![v] = -2]
    BY <1>1, <2>1, <2>4, <2>5, <2>6, PointersChange
  <2>8. CASE p = NullPtr
    <3>1. DevEmpty(c, v)  BY <2>3, <2>5, <2>7, <2>8 DEF DevEmpty
    <3>2. \A d : d # c => DevSame(d)  BY <2>5, <2>7, <2>8 DEF DevSame
    <3> QED  BY <2>1, <3>1, <3>2 DEF DevShrink
  <2>9. CASE p # NullPtr
    <3>1. p \in Nat  BY <1>4, <2>1, <2>4, <2>9
    <3>2. c \in Devices  BY <1>1, <1>3, <1>4, GraphFacts
    <3>3. /\ regions'[c] = GiveBack(regions[c], p, size_map[c][p])
          /\ \A d \in Devices : d # c => regions'[d] = regions[d]
      BY <2>4, <2>5, <2>9, <3>2
    <3>4. DevFree(c, v)  BY <2>3, <2>5, <2>7, <3>1, <3>3 DEF DevFree
    <3>5. \A d \in Devices : d # c => DevSame(d)  BY <2>5, <2>7, <3>3 DEF DevSame
    <3> QED  BY <2>1, <3>4, <3>5 DEF DevShrink
  <2> QED  BY <2>8, <2>9
<1> QED  BY <1>5, <1>6

\* What holds of a state of a graph whose views are apart.
Known ==
  /\ Control /\ Data
  /\ pc = "share" => ShareInv
  /\ pc # "share" => Settled /\ Counted /\ BusyAllocated
  /\ Blocks /\ InputsHome /\ Values

\* Every step of the program is a step, or none, of each of the planners.
LEMMA DevSteps ==
  ASSUME Plain, Known, PlannerInv, Next
  PROVE  \A d \in Devices : DevNext(d)
<1>1. Control /\ Data  BY DEF Known
<1>2. CASE AllocOutput
  <2>1. Settled  BY <1>2 DEF Known, AllocOutput
  <2> QED  BY <1>1, <1>2, <2>1, AllocLegal DEF DevNext
<1>3. CASE FreeInput
  <2>1. Settled /\ BusyAllocated  BY <1>3 DEF Known, FreeInput
  <2> QED  BY <1>1, <1>3, <2>1, FreeLegal DEF DevNext
<1>4. CASE Launch
  <2>1. /\ graph' = graph /\ regions' = NewLists /\ size_map' = NoSizes
        /\ allocated' = [v \in Tensors |-> FALSE]
    BY <1>4 DEF Launch
  <2> QED  BY <2>1, PlannerReset
<1>5. CASE ShareNode \/ OutputsDone \/ Measure \/ CallKernel \/ NextNode
  <2>1. graph' = graph /\ UNCHANGED planner
    BY <1>5 DEF ShareNode, OutputsDone, Measure, CallKernel, NextNode
  <2> QED  BY <2>1, PlannerUnchanged DEF DevNext, DevGrow
<1> QED  BY <1>2, <1>3, <1>4, <1>5 DEF Next, Step

-----------------------------------------------------------------------------
(***************************************************************************)
(* Every block is as large as its tensor, padding included.                *)
(***************************************************************************)

LEMMA PlannerFactsNow == PlannerInv => DevFacts("cpu") /\ DevFacts("cuda")
  BY PlannerFacts DEF Devices

LEMMA PlannerFactsNext ==
  ASSUME PlannerInv', NEW d \in Devices
  PROVE  DevFacts(d)'
<1>1. PlannerInv' => DevFacts("cpu")' /\ DevFacts("cuda")'  BY PlannerFactsNow, PTL
<1> QED  BY <1>1 DEF Devices

\* The planners' part of the type invariant.
LEMMA ListsTyped ==
  ASSUME Data, NEW c \in Devices, PlannerInv',
         regions' = [regions EXCEPT ![c] = regions'[c]],
         size_map' = [size_map EXCEPT ![c] = size_map'[c]]
  PROVE  regions' \in [Devices -> Seq(Region)] /\ size_map' = [d \in Devices |-> size_map'[d]]
<1>1. regions \in [Devices -> Seq(Region)] /\ size_map = [d \in Devices |-> size_map[d]]
  BY DEF Data
<1>2. regions'[c] \in Seq(Region)  BY PlannerFactsNext DEF DevFacts
<1> QED  BY <1>1, <1>2

\* The new block begins in a region, and where no other block does.
LEMMA AllocPlace ==
  ASSUME Plain, Control, Data, Settled, Blocks, PlannerInv, PlannerInv', AllocOutput,
         NEW y, NEW v, NEW c, NEW n, n # 0, AllocDoes(y, v, c, n), ~ allocated[v]
  PROVE  /\ StartOf(c, n) \in Nat
         /\ \A u \in Tensors :
              u # v /\ allocated[u] /\ graph.device[u] = c /\ addr[u] \in Nat =>
                addr[u] # StartOf(c, n)
<1>1. graph' = graph  BY DEF AllocOutput
<1>2. /\ c \in Devices /\ v \in Tensors /\ n \in Nat \ {0} /\ graph.device[v] = c
      /\ allocated' = [allocated EXCEPT ![v] = TRUE] /\ addr' = [addr EXCEPT ![v] = StartOf(c, n)]
  BY DEF AllocDoes
<1>3. StartOf(c, n) \in Nat
  <2>1. regions[c] \in Seq(Region) /\ WellFormed(regions[c])
    BY <1>2, PlannerFacts DEF DevFacts
  <2>2. Ceil(n) \in Nat \ {0}  BY <1>2, CeilProperties
  <2>3. FirstFit(regions[c], Ceil(n)) \in 1 .. Len(regions[c])
    BY <2>1, <2>2, FirstFitProperties
  <2>4. regions[c][FirstFit(regions[c], Ceil(n))].start \in Nat  BY <2>1, <2>3, RegionAt
  <2> QED  BY <2>4 DEF StartOf, FitOf
<1>4. PICK p \in Nat : p = StartOf(c, n)  BY <1>3
<1>5. allocated \in [Tensors -> BOOLEAN] /\ addr \in [Tensors -> Nat \cup {NullPtr}]  BY DEF Data
<1>6. ASSUME NEW u \in Tensors, u # v, allocated[u], graph.device[u] = c, addr[u] \in Nat,
             addr[u] = p
      PROVE  FALSE
  <2>1. allocated'[u] /\ addr'[u] = p /\ allocated'[v] /\ addr'[v] = p
    BY <1>2, <1>4, <1>5, <1>6
  <2>2. \A w \in Tensors : Pointers(c)'[w] = IF allocated'[w] /\ graph.device[w] = c THEN addr'[w] ELSE -2
    BY <1>1 DEF Pointers
  <2>3. Pointers(c)'[u] = p /\ Pointers(c)'[v] = p  BY <1>2, <1>6, <2>1, <2>2
  <2>4. PICK s : s = size_map'[c][p]  OBVIOUS
  <2>5. /\ \A w \in Tensors : Pointers(c)'[w] \in Nat => size_map'[c][Pointers(c)'[w]] \in Nat \ {0}
        /\ \A w, x \in Tensors :
             (w # x /\ Pointers(c)'[w] \in Nat /\ Pointers(c)'[x] \in Nat) =>
               PtrEnd(c, w)' <= Pointers(c)'[x] \/ PtrEnd(c, x)' <= Pointers(c)'[w]
    BY <1>2, PlannerFactsNext DEF DevFacts
  <2>6. s \in Nat \ {0}  BY <1>2, <2>3, <2>4, <2>5
  <2>7. PtrEnd(c, u)' = p + s /\ PtrEnd(c, v)' = p + s  BY <2>3, <2>4 DEF PtrEnd
  <2>8. p + s <= p  BY <1>2, <1>6, <2>3, <2>5, <2>7
  <2> QED  BY <2>6, <2>8
<1> QED  BY <1>3, <1>4, <1>6

\* Allocating an output keeps all blocks as recorded.
LEMMA AllocBlocks ==
  ASSUME Plain, Control, Data, Settled, Blocks, PlannerInv, PlannerInv', AllocOutput
  PROVE  Blocks'
<1>1. graph' = graph  BY DEF AllocOutput
<1>2. PICK y, v, c, n : y = Outs(node)[arg] /\ v = map[y].var /\ c = graph.device[y] /\ n = graph.size[y]
  OBVIOUS
<1>3. CASE allocated[v] \/ ~ map[y].local
  <2>1. UNCHANGED planner  BY <1>2, <1>3, AllocSkips
  <2> QED  BY <1>1, <2>1 DEF planner, Blocks, Block
<1>4. CASE ~ allocated[v] /\ map[y].local
  <2>1. AllocDoes(y, v, c, n)  BY <1>2, <1>4, AllocActs
  <2>2. /\ allocated \in [Tensors -> BOOLEAN] /\ addr \in [Tensors -> Nat \cup {NullPtr}]
        /\ size_map = [d \in Devices |-> size_map[d]]
    BY DEF Data
  <2>3. graph \in Graphs /\ graph.device \in [Tensors -> Devices]  BY GraphFacts DEF Control
  <2>4. /\ v \in Tensors /\ c \in Devices /\ graph.size[v] = n /\ graph.device[v] = c
        /\ allocated' = [allocated EXCEPT ![v] = TRUE]
    BY <2>1 DEF AllocDoes
  <2>5. ASSUME NEW u \in Tensors, allocated[u] PROVE Block(u)  BY <2>5 DEF Blocks
  <2>6. CASE n = 0
    <3>1. addr' = [addr EXCEPT ![v] = NullPtr] /\ size_map' = size_map
      BY <2>1, <2>6 DEF AllocDoes
    <3>2. ASSUME NEW u \in Tensors, allocated'[u] PROVE Block(u)'
      <4>1. CASE u = v  BY <1>1, <2>2, <2>4, <2>6, <3>1, <4>1 DEF Block
      <4>2. CASE u # v
        <5>1. Block(u)  BY <2>2, <2>4, <2>5, <3>2, <4>2
        <5> QED  BY <1>1, <2>2, <3>1, <4>2, <5>1 DEF Block
      <4> QED  BY <4>1, <4>2
    <3> QED  BY <3>2 DEF Blocks
  <2>7. CASE n # 0
    <3>1. PICK p : p = StartOf(c, n)  OBVIOUS
    <3>2. PICK S : S = size_map'[c]  OBVIOUS
    <3>3. /\ addr' = [addr EXCEPT ![v] = p] /\ size_map' = [size_map EXCEPT ![c] = S]
          /\ S = [q \in DOMAIN size_map[c] \cup {p} |-> IF q = p THEN Ceil(n) ELSE size_map[c][q]]
      BY <2>1, <2>7, <3>1, <3>2 DEF AllocDoes
    <3>4. p \in Nat /\ \A u \in Tensors :
            u # v /\ allocated[u] /\ graph.device[u] = c /\ addr[u] \in Nat => addr[u] # p
      BY <1>4, <2>1, <2>7, <3>1, AllocPlace
    <3>5. ASSUME NEW u \in Tensors, allocated'[u] PROVE Block(u)'
      <4>1. CASE u = v
        <5>1. addr'[v] = p /\ size_map'[c] = S /\ p \in DOMAIN S /\ S[p] = Ceil(n)
          BY <2>2, <2>4, <3>3
        <5> QED  BY <1>1, <2>4, <2>7, <3>4, <4>1, <5>1 DEF Block
      <4>2. CASE u # v
        <5>1. Block(u) /\ allocated[u] /\ addr'[u] = addr[u]
          BY <2>2, <2>4, <2>5, <3>3, <3>5, <4>2
        <5>2. CASE graph.size[u] = 0  BY <1>1, <5>1, <5>2 DEF Block
        <5>3. CASE graph.size[u] # 0
          <6>1. PICK d, a : d = graph.device[u] /\ a = addr[u]  OBVIOUS
          <6>2. d \in Devices  BY <2>3, <6>1
          <6>3. a \in Nat /\ a \in DOMAIN size_map[d] /\ size_map[d][a] = Ceil(graph.size[u])
            BY <5>1, <5>3, <6>1 DEF Block
          <6>4. d = c => a # p  BY <3>4, <4>2, <5>1, <6>1, <6>3
          <6>5. a \in DOMAIN size_map'[d] /\ size_map'[d][a] = size_map[d][a]
            <7>1. CASE d = c
              <8>1. size_map'[d] = S  BY <2>2, <2>4, <3>3, <7>1
              <8> QED  BY <3>3, <6>3, <6>4, <7>1, <8>1
            <7>2. CASE d # c
              <8>1. size_map'[d] = size_map[d]  BY <2>2, <3>3, <6>2, <7>2
              <8> QED  BY <6>3, <8>1
            <7> QED  BY <7>1, <7>2
          <6> QED  BY <1>1, <5>1, <5>3, <6>1, <6>3, <6>5 DEF Block
        <5> QED  BY <5>2, <5>3
      <4> QED  BY <4>1, <4>2
    <3> QED  BY <3>5 DEF Blocks
  <2> QED  BY <2>6, <2>7
<1>5. allocated \in [Tensors -> BOOLEAN]  BY DEF Data
<1> QED  BY <1>3, <1>4

-----------------------------------------------------------------------------
(***************************************************************************)
(* What steps that leave the map alone preserve.                           *)
(***************************************************************************)

\* The control of the generated functions stays in its range.
LEMMA ControlStep ==
  ASSUME Control, Next
  PROVE  Control'
<1>1. graph' = graph /\ graph \in Graphs
  BY QuietGraph DEF Control, Next, Launch
<1>2. Nodes' = Nodes  BY <1>1 DEF Nodes
<1>3. DOMAIN Nodes = 1 .. Len(Nodes) /\ Len(Nodes) \in Nat \ {0}  BY <1>1, GraphFacts
<1>4. /\ mode \in {"measure", "launch"} /\ pc \in {"share", "alloc", "call", "free", "done"}
      /\ node \in 1 .. Len(Nodes) /\ arg \in Nat \ {0} /\ change \in BOOLEAN
      /\ (pc \in {"share", "call", "done"} => arg = 1) /\ (pc # "share" => ~ change)
  BY <1>3 DEF Control
<1>5. SUFFICES /\ mode' \in {"measure", "launch"} /\ pc' \in {"share", "alloc", "call", "free", "done"}
               /\ node' \in 1 .. Len(Nodes) /\ arg' \in Nat \ {0} /\ change' \in BOOLEAN
               /\ (pc' \in {"share", "call", "done"} => arg' = 1) /\ (pc' # "share" => ~ change')
  BY <1>1, <1>2, <1>3 DEF Control
<1>6. CASE ShareNode
  <2>1. pc = "share" /\ mode' = mode /\ arg' = arg  BY <1>6 DEF ShareNode
  <2>2. CASE node < Len(Nodes)
    <3>1. node' = node + 1 /\ pc' = pc /\ change' \in BOOLEAN
      BY <1>4, <1>6, <2>2 DEF ShareNode, Changed
    <3> QED  BY <1>3, <1>4, <2>1, <2>2, <3>1
  <2>3. CASE ~ (node < Len(Nodes))
    <3>1. node' = 1 /\ change' = FALSE /\ pc' \in {"share", "alloc"}
      BY <1>6, <2>3 DEF ShareNode
    <3>2. node' \in 1 .. Len(Nodes) /\ arg' \in Nat \ {0}  BY <1>3, <1>4, <2>1, <3>1
    <3>3. arg' = 1 /\ mode' \in {"measure", "launch"}  BY <1>4, <2>1
    <3>4. ~ change' /\ change' \in BOOLEAN  BY <3>1
    <3> QED  BY <3>1, <3>2, <3>3, <3>4
  <2> QED  BY <2>2, <2>3
<1>7. CASE AllocOutput \/ OutputsDone \/ FreeInput
  <2>1. /\ mode' = mode /\ node' = node /\ change' = change
        /\ \/ pc = "alloc" /\ pc' = pc /\ arg' = arg + 1
           \/ pc = "alloc" /\ pc' = "call" /\ arg' = 1
           \/ pc = "free" /\ pc' = pc /\ arg' = arg + 1
    BY <1>7, Zenon DEF AllocOutput, OutputsDone, FreeInput
  <2> QED  BY <1>4, <2>1
<1>8. CASE Measure \/ CallKernel  BY <1>4, <1>8 DEF Measure, CallKernel
<1>9. CASE NextNode  BY <1>3, <1>4, <1>9 DEF NextNode
<1>10. CASE Launch  BY <1>3, <1>4, <1>10 DEF Launch
<1> QED  BY <1>6, <1>7, <1>8, <1>9, <1>10 DEF Next, Step

\* What depends only on where the tensors are.
LEMMA SettledStays ==
  ASSUME Settled, graph \in Graphs, graph' = graph,
         \A t \in Tensors : map'[t].var = map[t].var /\ map'[t].local = map[t].local
  PROVE  Settled'
<1>1. /\ Sharing' = Sharing
      /\ \A k : In(k)' = In(k) /\ Out(k)' = Out(k)
      /\ \A t : IsGlobal(t)' = IsGlobal(t) /\ Lone(t)' = Lone(t)
  BY GraphStays
<1>2. ASSUME NEW t \in Tensors, Lone(t) PROVE Own(t)'
  BY <1>1, <1>2 DEF Settled, Own
<1>3. ASSUME NEW k \in Sharing PROVE Joined(k)' \/ BothGlobal(k)'
  <2>1. In(k) \in Tensors /\ Out(k) \in Tensors  BY SharingFacts
  <2>2. PICK x \in Tensors, y \in Tensors : x = In(k) /\ y = Out(k)  BY <2>1
  <2>3. x = In(k)' /\ y = Out(k)' /\ IsGlobal(x)' = IsGlobal(x) /\ IsGlobal(y)' = IsGlobal(y)
    BY <1>1, <2>2
  <2>4. CASE Joined(k)
    <3>1. Joined(k)'  BY <2>2, <2>3, <2>4 DEF Joined, At
    <3> QED  BY <3>1
  <2>5. CASE BothGlobal(k)
    <3>1. BothGlobal(k)'  BY <2>2, <2>3, <2>5 DEF BothGlobal, Apart, Own
    <3> QED  BY <3>1
  <2> QED  BY <2>4, <2>5 DEF Settled
<1> QED  BY <1>1, <1>2, <1>3 DEF Settled

\* No read made, no count changed.
LEMMA CountedStays ==
  ASSUME Counted, Control, Quiet, map' = map
  PROVE  Counted'
<1>1. ASSUME NEW t \in Tensors, map'[t].local
      PROVE  \/ map'[t].usage = Cardinality(Left(t)') /\ Sole(t)'
             \/ map'[t].usage > Cardinality(Left(t)')
             \/ map'[t].usage <= 0
  <2>1. Left(t)' = Left(t)  BY QuietLeft
  <2>2. Sole(t)' = Sole(t)  BY DEF Sole
  <2> QED  BY <1>1, <2>1, <2>2 DEF Counted
<1> QED  BY <1>1 DEF Counted

\* Where a tensor is, as long as the variable it is in keeps its value.
LEMMA AddrStays ==
  ASSUME graph' = graph, NEW t, map'[t].var = map[t].var, map'[t].local = map[t].local,
         map[t].local => addr'[map[t].var] = addr[map[t].var]
  PROVE  Addr(t)' = Addr(t)
<1>1. \A v : Buffer(v)' = Buffer(v)  BY GraphStays
<1> QED  BY <1>1 DEF Addr

LEMMA InputsStay ==
  ASSUME InputsHome, graph' = graph, place' = place, pc' # "share"
  PROVE  InputsHome'
  BY DEF InputsHome, Home

-----------------------------------------------------------------------------
(***************************************************************************)
(* Each action preserves Known: the outputs of a node.                     *)
(***************************************************************************)

LEMMA AllocData ==
  ASSUME Plain, Control, Data, Settled, Blocks, PlannerInv, PlannerInv', AllocOutput
  PROVE  Data'
<1>1. map' = map /\ workspace' = workspace /\ valid' = valid /\ place' = place
  BY DEF AllocOutput, memory
<1>2. /\ allocated \in [Tensors -> BOOLEAN] /\ addr \in [Tensors -> Nat \cup {NullPtr}]
      /\ regions \in [Devices -> Seq(Region)] /\ size_map = [d \in Devices |-> size_map[d]]
  BY DEF Data
<1>3. SUFFICES /\ allocated' \in [Tensors -> BOOLEAN] /\ addr' \in [Tensors -> Nat \cup {NullPtr}]
               /\ regions' \in [Devices -> Seq(Region)] /\ size_map' = [d \in Devices |-> size_map'[d]]
  BY <1>1 DEF Data
<1>4. PICK y, v, c, n : y = Outs(node)[arg] /\ v = map[y].var /\ c = graph.device[y] /\ n = graph.size[y]
  OBVIOUS
<1>5. CASE allocated[v] \/ ~ map[y].local
  <2>1. UNCHANGED planner  BY <1>4, <1>5, AllocSkips
  <2> QED  BY <1>2, <2>1 DEF planner
<1>6. CASE ~ allocated[v] /\ map[y].local
  <2>1. AllocDoes(y, v, c, n)  BY <1>4, <1>6, AllocActs
  <2>2. c \in Devices /\ allocated' = [allocated EXCEPT ![v] = TRUE]  BY <2>1 DEF AllocDoes
  <2>3. allocated' \in [Tensors -> BOOLEAN]  BY <1>2, <2>2
  <2>4. CASE n = 0
    <3>1. addr' = [addr EXCEPT ![v] = NullPtr] /\ UNCHANGED <<regions, size_map>>
      BY <2>1, <2>4 DEF AllocDoes
    <3>2. addr' \in [Tensors -> Nat \cup {NullPtr}]  BY <1>2, <3>1
    <3>3. regions' = regions /\ size_map' = size_map  BY <3>1
    <3> QED  BY <1>2, <2>3, <3>2, <3>3
  <2>5. CASE n # 0
    <3>1. PICK p : p = StartOf(c, n)  OBVIOUS
    <3>2. /\ addr' = [addr EXCEPT ![v] = p]
          /\ size_map' = [size_map EXCEPT ![c] = size_map'[c]]
          /\ regions' = [regions EXCEPT ![c] = regions'[c]]
      BY <2>1, <2>5, <3>1 DEF AllocDoes
    <3>3. p \in Nat  BY <1>6, <2>1, <2>5, <3>1, AllocPlace
    <3>4. addr' \in [Tensors -> Nat \cup {NullPtr}]  BY <1>2, <3>2, <3>3
    <3>5. regions' \in [Devices -> Seq(Region)] /\ size_map' = [d \in Devices |-> size_map'[d]]
      BY <2>2, <3>2, ListsTyped
    <3> QED  BY <2>3, <3>4, <3>5
  <2> QED  BY <2>4, <2>5
<1> QED  BY <1>2, <1>5, <1>6

\* The variables that are in use keep their blocks, and the output has one now.
LEMMA AllocVariables ==
  ASSUME Plain, Control, Data, Settled, AllocOutput
  PROVE  /\ \A v \in Tensors : allocated[v] => allocated'[v] /\ addr'[v] = addr[v]
         /\ map[Outs(node)[arg]].local => allocated'[map[Outs(node)[arg]].var]
<1>1. PICK y, v, c, n : y = Outs(node)[arg] /\ v = map[y].var /\ c = graph.device[y] /\ n = graph.size[y]
  OBVIOUS
<1>2. CASE allocated[v] \/ ~ map[y].local
  <2>1. UNCHANGED planner  BY <1>1, <1>2, AllocSkips
  <2> QED  BY <1>1, <1>2, <2>1 DEF planner
<1>3. CASE ~ allocated[v] /\ map[y].local
  <2>1. AllocDoes(y, v, c, n)  BY <1>1, <1>3, AllocActs
  <2>2. allocated \in [Tensors -> BOOLEAN] /\ addr \in [Tensors -> Nat \cup {NullPtr}]  BY DEF Data
  <2>3. PICK a : addr' = [addr EXCEPT ![v] = a]  BY <2>1 DEF AllocDoes
  <2>4. v \in Tensors /\ allocated' = [allocated EXCEPT ![v] = TRUE]  BY <2>1 DEF AllocDoes
  <2> QED  BY <1>1, <1>3, <2>2, <2>3, <2>4
<1>4. allocated \in [Tensors -> BOOLEAN]  BY DEF Data
<1> QED  BY <1>2, <1>3

LEMMA AllocKeeps ==
  ASSUME Plain, Known, PlannerInv, PlannerInv', AllocOutput
  PROVE  Known'
<1>1. /\ Control /\ Data /\ Settled /\ Counted /\ BusyAllocated /\ Blocks /\ InputsHome /\ Values
      /\ pc = "alloc" /\ pc' = "alloc" /\ mode' = mode /\ graph' = graph
      /\ map' = map /\ valid' = valid /\ place' = place
  BY DEF Known, AllocOutput, memory
<1>2. graph \in Graphs  BY <1>1 DEF Control
<1>3. \A t \in Tensors : map[t].var \in Tensors  BY <1>1 DEF Data
<1>4. Control'  BY <1>1, ControlStep DEF Next, Step
<1>5. Data'  BY <1>1, AllocData
<1>6. Settled'  BY <1>1, <1>2, SettledStays
<1>7. Counted'  BY <1>1, CountedStays DEF Quiet
<1>8. ASSUME NEW t \in Tensors, map'[t].local, Busy(t)' PROVE allocated'[map'[t].var]
  <2>1. Made(t)' <=> Made(t)  BY <1>1, MadeStays
  <2>2. Needed(t)' <=> Needed(t)  BY <1>1, QuietLeft DEF Quiet
  <2>3. Pending(t)' <=> Pending(t) \/ t = Outs(node)[arg]  BY <1>1, PendingSteps
  <2>4. Busy(t) \/ t = Outs(node)[arg]  BY <1>8, <2>1, <2>2, <2>3 DEF Busy
  <2>5. CASE Busy(t)
    <3>1. allocated[map[t].var]  BY <1>1, <1>8, <2>5 DEF BusyAllocated
    <3> QED  BY <1>1, <1>3, <3>1, AllocVariables
  <2>6. CASE t = Outs(node)[arg]  BY <1>1, <1>8, <2>6, AllocVariables
  <2> QED  BY <2>4, <2>5, <2>6
<1>9. Blocks'  BY <1>1, AllocBlocks
<1>10. InputsHome'  BY <1>1, InputsStay
<1>11. ASSUME mode' = "launch", NEW t \in Tensors, Made(t)', Needed(t)'
       PROVE  t \in valid' /\ place'[t] = Addr(t)'
  <2>1. Made(t)  BY <1>1, <1>11, MadeStays
  <2>2. Needed(t)  BY <1>1, <1>11, QuietLeft DEF Quiet
  <2>3. t \in valid /\ place[t] = Addr(t)  BY <1>1, <1>11, <2>1, <2>2 DEF Values
  <2>4. map[t].local => addr'[map[t].var] = addr[map[t].var]
    <3>1. map[t].local => allocated[map[t].var]
      BY <1>1, <2>1, <2>2 DEF BusyAllocated, Busy
    <3> QED  BY <1>1, <1>3, <3>1, AllocVariables
  <2>5. Addr(t)' = Addr(t)  BY <1>1, <2>4, AddrStays
  <2> QED  BY <1>1, <2>3, <2>5
<1>12. BusyAllocated'  BY <1>8 DEF BusyAllocated
<1>13. Values'  BY <1>11 DEF Values
<1> QED  BY <1>1, <1>4, <1>5, <1>6, <1>7, <1>9, <1>10, <1>12, <1>13 DEF Known

LEMMA OutputsDoneKeeps ==
  ASSUME Plain, Known, OutputsDone
  PROVE  Known'
<1>1. /\ Control /\ Data /\ Settled /\ Counted /\ BusyAllocated /\ Blocks /\ InputsHome /\ Values
      /\ pc = "alloc" /\ pc' = "call" /\ mode' = mode /\ graph' = graph
      /\ map' = map /\ allocated' = allocated /\ addr' = addr /\ regions' = regions
      /\ size_map' = size_map /\ workspace' = workspace /\ valid' = valid /\ place' = place
  BY DEF Known, OutputsDone, memory, planner
<1>2. graph \in Graphs  BY <1>1 DEF Control
<1>3. Control'  BY <1>1, ControlStep DEF Next, Step
<1>4. Data'  BY <1>1 DEF Data
<1>5. Settled'  BY <1>1, <1>2, SettledStays
<1>6. Counted'  BY <1>1, CountedStays DEF Quiet
<1>7. ASSUME NEW t PROVE (Made(t)' <=> Made(t)) /\ (Needed(t)' <=> Needed(t)) /\ (Pending(t)' <=> Pending(t))
  BY <1>1, MadeStays, QuietLeft, PendingSteps DEF Quiet
<1>8. \A t : Addr(t)' = Addr(t)  BY <1>1, AddrStays
<1>9. BusyAllocated'  BY <1>1, <1>7 DEF BusyAllocated, Busy
<1>10. Blocks'  BY <1>1 DEF Blocks, Block
<1>11. InputsHome'  BY <1>1, InputsStay
<1>12. Values'  BY <1>1, <1>7, <1>8 DEF Values
<1> QED  BY <1>1, <1>3, <1>4, <1>5, <1>6, <1>9, <1>10, <1>11, <1>12 DEF Known

-----------------------------------------------------------------------------
(***************************************************************************)
(* Each action preserves Known: the next node, process_share_map, launch.  *)
(***************************************************************************)

LEMMA NextNodeKeeps ==
  ASSUME Plain, Known, NextNode
  PROVE  Known'
<1>1. /\ Control /\ Data /\ Settled /\ Counted /\ BusyAllocated /\ Blocks /\ InputsHome /\ Values
      /\ pc = "free" /\ pc' # "share" /\ mode' = mode /\ graph' = graph
      /\ map' = map /\ allocated' = allocated /\ addr' = addr /\ regions' = regions
      /\ size_map' = size_map /\ workspace' = workspace /\ valid' = valid /\ place' = place
  BY DEF Known, NextNode, memory, planner
<1>2. graph \in Graphs  BY <1>1 DEF Control
<1>3. Control'  BY <1>1, ControlStep DEF Next, Step
<1>4. Data'  BY <1>1 DEF Data
<1>5. Settled'  BY <1>1, <1>2, SettledStays
<1>6. Counted'  BY <1>1, CountedStays DEF Quiet
<1>7. ASSUME NEW t PROVE (Made(t)' <=> Made(t)) /\ (Needed(t)' <=> Needed(t)) /\ ~ Pending(t)'
  BY <1>1, MadeStays, QuietLeft, PendingSteps DEF Quiet
<1>8. \A t : Addr(t)' = Addr(t)  BY <1>1, AddrStays
<1>9. BusyAllocated'  BY <1>1, <1>7 DEF BusyAllocated, Busy
<1>10. Blocks'  BY <1>1 DEF Blocks, Block
<1>11. InputsHome'  BY <1>1, InputsStay
<1>12. Values'  BY <1>1, <1>7, <1>8 DEF Values
<1> QED  BY <1>1, <1>3, <1>4, <1>5, <1>6, <1>9, <1>10, <1>11, <1>12 DEF Known

\* process_share_map goes on.
LEMMA ShareNodeKeeps ==
  ASSUME Plain, Known, ShareNode, pc' = "share"
  PROVE  Known'
<1>1. /\ Control /\ Data /\ ShareInv /\ Blocks /\ InputsHome
      /\ pc = "share" /\ graph' = graph
      /\ allocated' = allocated /\ addr' = addr /\ regions' = regions
      /\ size_map' = size_map /\ workspace' = workspace /\ valid' = valid /\ place' = place
  BY DEF Known, ShareNode, memory, planner
<1>2. MapType  BY <1>1 DEF Data, MapType
<1>3. Control'  BY <1>1, ControlStep DEF Next, Step
<1>4. MapType'  BY <1>1, <1>2, ShareMaps
<1>5. ShareInv'  BY <1>1, <1>2, ShareOn
<1>6. Data'  BY <1>1, <1>4 DEF Data, MapType
<1>7. Blocks'  BY <1>1 DEF Blocks, Block
<1>8. InputsHome'  BY <1>1 DEF InputsHome, Home
<1>9. Values'  BY DEF Values
<1> QED  BY <1>3, <1>5, <1>6, <1>7, <1>8, <1>9 DEF Known

\* process_share_map ends: only the inputs of the graph have values.
LEMMA SharedKeeps ==
  ASSUME Plain, Known, ShareNode, pc' # "share"
  PROVE  Known'
<1>1. /\ Control /\ Data /\ ShareInv /\ Blocks /\ InputsHome
      /\ pc = "share" /\ graph' = graph
      /\ allocated' = allocated /\ addr' = addr /\ regions' = regions
      /\ size_map' = size_map /\ workspace' = workspace /\ valid' = valid /\ place' = place
  BY DEF Known, ShareNode, memory, planner
<1>2. MapType /\ graph \in Graphs  BY <1>1 DEF Data, MapType, Control
<1>3. Control'  BY <1>1, ControlStep DEF Next, Step
<1>4. Settled' /\ map' = map  BY <1>1, <1>2, ShareEnds
<1>5. Settled
  <2>1. /\ Sharing' = Sharing
        /\ \A k : In(k)' = In(k) /\ Out(k)' = Out(k)
        /\ \A t : IsGlobal(t)' = IsGlobal(t) /\ Lone(t)' = Lone(t)
    BY <1>1, GraphStays
  <2>2. ASSUME NEW t \in Tensors, Lone(t) PROVE Own(t)
    BY <1>4, <2>1, <2>2 DEF Settled, Own
  <2>3. ASSUME NEW k \in Sharing PROVE Joined(k) \/ BothGlobal(k)
    <3>1. Joined(k)' \/ BothGlobal(k)'  BY <1>4, <2>1 DEF Settled
    <3>2. Joined(k)' => Joined(k)  BY <1>4, <2>1 DEF Joined, At
    <3>3. BothGlobal(k)' => BothGlobal(k)  BY <1>4, <2>1 DEF BothGlobal, Apart, Own
    <3> QED  BY <3>1, <3>2, <3>3
  <2> QED  BY <2>2, <2>3 DEF Settled
<1>6. Counted'
  <2>1. Counted  BY <1>1, <1>2, <1>5, ShareCounts
  <2> QED  BY <1>1, <1>4, <2>1, CountedStays DEF Quiet
<1>7. ASSUME NEW t, Made(t)' PROVE t \in graph.inputs
  <2>1. Made(t)  BY <1>1, <1>7, MadeStays
  <2> QED  BY <1>1, <2>1 DEF Made
<1>8. ASSUME NEW t \in graph.inputs
      PROVE  ~ map'[t].local /\ t \in valid' /\ place'[t] = Addr(t)'
  <2>1. t \in Tensors /\ ~ map[t].local /\ map[t].var = t /\ Buffer(t) = t
    BY <1>2, <1>5, InputFacts
  <2>2. map \in [Tensors -> [var : Tensors, local : BOOLEAN, usage : Int]]  BY <1>1 DEF Data
  <2>3. map[t].local = FALSE  BY <2>1, <2>2
  <2>4. Addr(t) = Home(t)  BY <2>1, <2>3 DEF Addr, Home
  <2>5. Addr(t)' = Addr(t)  BY <1>1, <1>4, <2>1, AddrStays
  <2> QED  BY <1>1, <1>4, <2>1, <2>4, <2>5 DEF InputsHome
<1>9. \A t : ~ Pending(t)'  BY <1>1, PendingSteps
<1>10. BusyAllocated'  BY <1>7, <1>8, <1>9 DEF BusyAllocated, Busy
<1>11. Data'  BY <1>1, <1>4 DEF Data
<1>12. Blocks'  BY <1>1 DEF Blocks, Block
<1>13. InputsHome'  BY <1>1, InputsStay
<1>14. Values'  BY <1>7, <1>8 DEF Values
<1> QED  BY <1>3, <1>4, <1>6, <1>10, <1>11, <1>12, <1>13, <1>14 DEF Known

\* Where each generated function starts.
LEMMA StartKnown ==
  ASSUME graph \in Graphs, map = InitMap(graph), allocated = [v \in Tensors |-> FALSE],
         node = 1
  PROVE  ShareInv /\ MapType /\ Blocks
<1>1. \A t : Fresh(t)  BY DEF Fresh
<1>2. \A k \in Sharing : k \in Nat \ {0}  BY NodeFacts DEF Sharing
<1>3. \A k \in Sharing : ~ (k < node)  BY <1>2
<1>4. ShareInv  BY <1>1, <1>3 DEF ShareInv
<1>5. MapType
  <2>1. map = [t \in Tensors |-> map[t]]  BY DEF InitMap
  <2> QED  BY <2>1, InitMapFacts DEF MapType
<1> QED  BY <1>4, <1>5 DEF Blocks

LEMMA StartImplies ==
  graph \in Graphs /\ map = InitMap(graph) /\ allocated = [v \in Tensors |-> FALSE] /\ node = 1
    => ShareInv /\ MapType /\ Blocks
  BY StartKnown

LEMMA InitKnown ==
  ASSUME Init
  PROVE  Known
<1>1. graph \in Graphs  BY DEF Init
<1>2. ShareInv /\ MapType /\ Blocks  BY <1>1, StartKnown DEF Init
<1>3. DOMAIN Nodes = 1 .. Len(Nodes) /\ Len(Nodes) \in Nat \ {0} /\ graph.inputs \subseteq Tensors
  BY <1>1, GraphFacts
<1>4. Control
  <2>1. mode = "measure" /\ pc = "share" /\ node = 1 /\ arg = 1 /\ change = FALSE  BY DEF Init
  <2>2. node \in DOMAIN Nodes /\ arg \in Nat \ {0}  BY <1>3, <2>1
  <2>3. change \in BOOLEAN /\ ~ change  BY <2>1
  <2> QED  BY <1>1, <2>1, <2>2, <2>3 DEF Control
<1>5. Data
  <2>1. regions \in [Devices -> Seq(Region)] /\ size_map = [d \in Devices |-> size_map[d]]
    BY DEF Init, NewLists, NoSizes, InitRegions, Region, Unbounded
  <2>2. /\ allocated \in [Tensors -> BOOLEAN] /\ addr \in [Tensors -> Nat \cup {NullPtr}]
        /\ workspace \in [Devices -> Nat] /\ valid \subseteq Tensors
        /\ place = [t \in Tensors |-> place[t]]
    BY <1>3 DEF Init
  <2> QED  BY <1>2, <2>1, <2>2 DEF Data, MapType
<1>6. pc = "share"  BY DEF Init
<1>7. InputsHome  BY <1>3 DEF Init, InputsHome, Home
<1>8. Values  BY <1>6 DEF Values
<1> QED  BY <1>2, <1>4, <1>5, <1>6, <1>7, <1>8 DEF Known

LEMMA LaunchKeeps ==
  ASSUME Known, Launch
  PROVE  Known'
<1>1. /\ Control /\ Data /\ InputsHome /\ graph \in Graphs
      /\ pc' = "share" /\ graph' = graph /\ map' = InitMap(graph)
      /\ allocated' = [v \in Tensors |-> FALSE] /\ addr' = addr
      /\ regions' = NewLists /\ size_map' = NoSizes /\ node' = 1
      /\ workspace' = workspace /\ valid' = graph.inputs /\ place' = place
  BY DEF Known, Launch, Control
<1>2. Control'  BY <1>1, ControlStep DEF Next
<1>3. (graph \in Graphs /\ map = InitMap(graph) /\ allocated = [v \in Tensors |-> FALSE] /\ node = 1)'
  BY <1>1
<1>4. ShareInv' /\ MapType' /\ Blocks'  BY <1>3, StartImplies, PTL
<1>5. regions' \in [Devices -> Seq(Region)] /\ size_map' = [d \in Devices |-> size_map'[d]]
  BY <1>1 DEF NewLists, NoSizes, InitRegions, Region, Unbounded
<1>6. Data'
  <2>1. /\ addr' \in [Tensors -> Nat \cup {NullPtr}] /\ workspace' \in [Devices -> Nat]
        /\ valid' \subseteq Tensors /\ place' = [t \in Tensors |-> place'[t]]
    BY <1>1, GraphFacts DEF Data
  <2> QED  BY <1>1, <1>4, <1>5, <2>1 DEF Data, MapType
<1>7. InputsHome'  BY <1>1 DEF InputsHome, Home
<1>8. Values'  BY <1>1 DEF Values
<1> QED  BY <1>1, <1>2, <1>4, <1>6, <1>7, <1>8 DEF Known

-----------------------------------------------------------------------------
(***************************************************************************)
(* No two tensors that are in use overlap.                                 *)
(***************************************************************************)

\* What a node writes is not where a tensor is that is still needed.
LEMMA SpotsApart ==
  ASSUME Plain, Control, Settled, pc = "call", ~ Nodes[node].share,
         NEW t, Made(t), NEW y \in ToSet(Outs(node))
  PROVE  t \in Tensors /\ y \in Tensors /\ t # y /\ Spot(t) # Spot(y)
<1>1. graph \in Graphs /\ node \in DOMAIN Nodes  BY DEF Control
<1>2. t \in Tensors /\ t \notin ToSet(Outs(node)) /\ \A k \in DOMAIN Nodes : t \in ToSet(Outs(k)) => k < node
  BY MadeBefore
<1>3. y \in Tensors /\ y \notin graph.inputs  BY <1>1, OutFacts
<1>4. ASSUME NEW k \in Sharing, t = In(k), y = Out(k) PROVE FALSE
  <2>1. k \in DOMAIN Nodes /\ y \in ToSet(Outs(k)) /\ Nodes[k].share
    BY <1>1, <1>4, SharingFacts DEF Sharing
  <2>2. k = node  BY <1>1, <2>1, OneProducer
  <2> QED  BY <2>1, <2>2
<1>5. ASSUME NEW k \in Sharing, t = Out(k), y = In(k) PROVE FALSE
  <2>1. k \in DOMAIN Nodes /\ t \in ToSet(Outs(k)) /\ node < k
    BY <1>1, <1>5, SharingFacts
  <2>2. k < node  BY <1>2, <2>1
  <2>3. k \in Nat /\ node \in Nat  BY <1>1, <2>1, NodeFacts
  <2> QED  BY <2>1, <2>2, <2>3
<1>6. Spot(t) # Spot(y)  BY <1>1, <1>2, <1>3, <1>4, <1>5, SpotsDiffer
<1> QED  BY <1>2, <1>3, <1>6

LEMMA SizeFacts ==
  ASSUME graph \in Graphs, NEW t \in Tensors
  PROVE  graph.size[t] \in Nat /\ graph.device[t] \in Devices
  BY GraphFacts

\* Two tensors in different blocks of one workspace have no byte in common.
LEMMA BlocksApart ==
  ASSUME Plain, Control, Data, Settled, Blocks, PlannerInv,
         NEW t \in Tensors, NEW u \in Tensors, map[t].local, map[u].local,
         map[t].var # map[u].var, allocated[map[t].var], allocated[map[u].var]
  PROVE  ~ Overlap(t, Addr(t), u, Addr(u))
<1>1. graph \in Graphs  BY DEF Control
<1>2. SUFFICES ASSUME Overlap(t, Addr(t), u, Addr(u)) PROVE FALSE
  OBVIOUS
<1>3. PICK v, w, d : v = map[t].var /\ w = map[u].var /\ d = graph.device[t]  OBVIOUS
<1>4. PICK a, b, m, n : a = addr[v] /\ b = addr[w] /\ m = graph.size[t] /\ n = graph.size[u]  OBVIOUS
<1>5. graph.device[u] = d /\ a < b + n /\ b < a + m
  <2>1. Addr(t).inside /\ Addr(t).at = a /\ Addr(u).at = b  BY <1>3, <1>4 DEF Addr
  <2> QED  BY <1>2, <1>3, <1>4, <2>1 DEF Overlap
<1>6. m \in Nat /\ n \in Nat /\ d \in Devices  BY <1>1, <1>3, <1>4, SizeFacts
<1>7. /\ v \in Tensors /\ graph.size[v] = m /\ graph.device[v] = d
      /\ w \in Tensors /\ graph.size[w] = n /\ graph.device[w] = d
  BY <1>1, <1>3, <1>4, <1>5, LocalFacts
<1>8. Block(v) /\ Block(w)  BY <1>3, <1>7 DEF Blocks
<1>9. /\ m = 0 => a = -1
      /\ m # 0 => a \in Nat /\ size_map[d][a] = Ceil(m)
      /\ n = 0 => b = -1
      /\ n # 0 => b \in Nat /\ size_map[d][b] = Ceil(n)
  BY <1>4, <1>7, <1>8 DEF Block, NullPtr
<1>10. CASE m = 0 \/ n = 0  BY <1>5, <1>6, <1>9, <1>10
<1>11. CASE m # 0 /\ n # 0
  <2>1. Pointers(d)[v] = a /\ Pointers(d)[w] = b  BY <1>3, <1>4, <1>7 DEF Pointers
  <2>2. a \in Nat /\ b \in Nat  BY <1>9, <1>11
  <2>3. PtrEnd(d, v) <= Pointers(d)[w] \/ PtrEnd(d, w) <= Pointers(d)[v]
    <3>1. \A x, y \in Tensors :
            (x # y /\ Pointers(d)[x] \in Nat /\ Pointers(d)[y] \in Nat) =>
              PtrEnd(d, x) <= Pointers(d)[y] \/ PtrEnd(d, y) <= Pointers(d)[x]
      BY <1>6, PlannerFacts DEF DevFacts
    <3> QED  BY <1>3, <1>7, <2>1, <2>2, <3>1
  <2>4. PtrEnd(d, v) = a + Ceil(m) /\ PtrEnd(d, w) = b + Ceil(n)
    BY <1>9, <1>11, <2>1 DEF PtrEnd
  <2>5. Ceil(m) \in Nat /\ Ceil(m) >= m /\ Ceil(n) \in Nat /\ Ceil(n) >= n
    BY <1>6, <1>11, CeilProperties
  <2> QED  BY <1>5, <1>6, <2>1, <2>2, <2>3, <2>4, <2>5
<1> QED  BY <1>6, <1>10, <1>11

\* A kernel does not write where a value is that is still needed.
LEMMA NotOverwritten ==
  ASSUME Plain, Known, PlannerInv, pc = "call", ~ Nodes[node].share,
         NEW t, Made(t), Needed(t), NEW y \in ToSet(Outs(node))
  PROVE  ~ Overlap(t, Addr(t), y, Addr(y))
<1>1. Control /\ Data /\ Settled /\ BusyAllocated /\ Blocks  BY DEF Known
<1>2. t \in Tensors /\ y \in Tensors /\ Spot(t) # Spot(y)  BY <1>1, SpotsApart
<1>3. map[t].local \in BOOLEAN /\ map[y].local \in BOOLEAN  BY <1>1, <1>2 DEF Data
<1>4. CASE map[t].local # map[y].local  BY <1>4 DEF Overlap, Addr
<1>5. CASE map[t].local = FALSE /\ map[y].local = FALSE
  BY <1>2, <1>5 DEF Overlap, Addr, Spot
<1>6. CASE map[t].local = TRUE /\ map[y].local = TRUE
  <2>1. map[t].var # map[y].var  BY <1>2, <1>6 DEF Spot
  <2>2. Busy(t) /\ Busy(y)  BY DEF Busy, Pending
  <2>3. allocated[map[t].var] /\ allocated[map[y].var]  BY <1>1, <1>2, <1>6, <2>2 DEF BusyAllocated
  <2> QED  BY <1>1, <1>2, <1>6, <2>1, <2>3, BlocksApart
<1> QED  BY <1>3, <1>4, <1>5, <1>6

-----------------------------------------------------------------------------
(***************************************************************************)
(* Each action preserves Known: the call of a node.                        *)
(***************************************************************************)

\* A kernel changes nothing that the memory plan depends on.
LEMMA CallCommon ==
  ASSUME Plain, Known, Measure \/ CallKernel
  PROVE  /\ Control' /\ Settled' /\ Counted' /\ BusyAllocated' /\ Blocks'
         /\ \A t : Addr(t)' = Addr(t) /\ (Needed(t)' <=> Needed(t))
         /\ \A t : Made(t)' <=> Made(t) \/ t \in ToSet(Outs(node))
<1>1. /\ Control /\ Data /\ Settled /\ Counted /\ BusyAllocated /\ Blocks /\ graph \in Graphs
      /\ graph' = graph /\ map' = map /\ allocated' = allocated /\ addr' = addr
      /\ size_map' = size_map /\ pc = "call"
  BY DEF Known, Measure, CallKernel, planner, Control
<1>2. Control'  BY <1>1, ControlStep DEF Next, Step
<1>3. Settled'  BY <1>1, SettledStays
<1>4. Counted'  BY <1>1, CountedStays DEF Quiet
<1>5. Blocks'  BY <1>1 DEF Blocks, Block
<1>6. ASSUME NEW t PROVE Addr(t)' = Addr(t) /\ (Needed(t)' <=> Needed(t))
  BY <1>1, AddrStays, QuietLeft DEF Quiet
<1>7. ASSUME NEW t PROVE Made(t)' <=> Made(t) \/ t \in ToSet(Outs(node))
  BY <1>1, MadeByCall
<1>8. ASSUME NEW t PROVE ~ Pending(t)' /\ (Pending(t) <=> t \in ToSet(Outs(node)))
  BY <1>1, PendingSteps
<1>9. BusyAllocated'  BY <1>1, <1>6, <1>7, <1>8 DEF BusyAllocated, Busy
<1> QED  BY <1>2, <1>3, <1>4, <1>5, <1>6, <1>7, <1>9

LEMMA MeasureKeeps ==
  ASSUME Plain, Known, PlannerInv, Measure
  PROVE  Known'
<1>1. /\ Control /\ Data /\ InputsHome /\ graph' = graph /\ mode' = "measure" /\ pc' = "free"
      /\ map' = map /\ allocated' = allocated /\ addr' = addr /\ regions' = regions
      /\ size_map' = size_map /\ valid' = valid /\ place' = place
      /\ workspace' = [d \in Devices |-> Max2(workspace[d], Used(regions[d]))]
  BY DEF Known, Measure, planner, memory
<1>2. workspace' \in [Devices -> Nat]
  <2>1. ASSUME NEW d \in Devices PROVE Max2(workspace[d], Used(regions[d])) \in Nat
    <3>1. regions[d] \in Seq(Region) /\ WellFormed(regions[d])  BY PlannerFacts DEF DevFacts
    <3>2. Used(regions[d]) \in Nat  BY <3>1, FreeAboveUsed
    <3>3. workspace[d] \in Nat  BY <1>1 DEF Data
    <3> QED  BY <3>2, <3>3 DEF Max2
  <2> QED  BY <1>1, <2>1
<1>3. Data'  BY <1>1, <1>2 DEF Data
<1>4. InputsHome'  BY <1>1, InputsStay
<1>5. Values'  BY <1>1 DEF Values
<1>6. Control' /\ Settled' /\ Counted' /\ BusyAllocated' /\ Blocks'  BY CallCommon
<1> QED  BY <1>1, <1>3, <1>4, <1>5, <1>6 DEF Known

\* What a kernel does to the values in memory.
LEMMA ComputeValues ==
  ASSUME Plain, Known, PlannerInv, mode = "launch", pc = "call",
         ~ Nodes[node].share, Compute(node)
  PROVE  \A t : (Made(t) /\ Needed(t)) \/ t \in ToSet(Outs(node)) =>
           t \in valid' /\ place'[t] = Addr(t)
<1>1. /\ Control /\ Values /\ node \in DOMAIN Nodes /\ graph \in Graphs  BY DEF Known, Control
<1>2. PICK ys : ys = ToSet(Outs(node))  OBVIOUS
<1>3. ys \subseteq Tensors  BY <1>1, <1>2, OutFacts
<1>4. /\ place' = [t \in Tensors |-> IF t \in ys THEN Addr(t) ELSE place[t]]
      /\ valid' = ys \cup {t \in valid : \A y \in ys : ~ Overlap(t, place[t], y, Addr(y))}
  BY <1>2 DEF Compute
<1>5. ASSUME NEW t \in ys PROVE t \in valid' /\ place'[t] = Addr(t)
  BY <1>3, <1>4
<1>6. ASSUME NEW t, Made(t), Needed(t), t \notin ys PROVE t \in valid' /\ place'[t] = Addr(t)
  <2>1. t \in Tensors  BY <1>1, <1>6, MadeBefore
  <2>2. t \in valid /\ place[t] = Addr(t)  BY <1>1, <1>6, <2>1 DEF Values
  <2>3. ASSUME NEW y \in ys PROVE ~ Overlap(t, place[t], y, Addr(y))
    BY <1>2, <1>6, <2>2, NotOverwritten
  <2> QED  BY <1>4, <1>6, <2>1, <2>2, <2>3
<1> QED  BY <1>2, <1>5, <1>6

\* The empty kernel of a sharing node leaves its output where its input is.
LEMMA ViewValues ==
  ASSUME Plain, Known, PlannerInv, mode = "launch", pc = "call", Nodes[node].share, View(node)
  PROVE  \A t : (Made(t) /\ Needed(t)) \/ t \in ToSet(Outs(node)) =>
           t \in valid' /\ place'[t] = Addr(t)
<1>1. /\ Control /\ Values /\ Settled /\ node \in DOMAIN Nodes /\ graph \in Graphs
      /\ place = [t \in Tensors |-> place[t]]
  BY DEF Known, Control, Data
<1>2. node \in Sharing  BY <1>1 DEF Sharing
<1>3. PICK x, y : x = In(node) /\ y = Out(node)  OBVIOUS
<1>4. /\ x \in Tensors /\ y \in Tensors /\ ToSet(Outs(node)) = {y} /\ DOMAIN Ins(node) = {1}
      /\ Addr(x) = Addr(y)
  BY <1>1, <1>2, <1>3, SharingFacts, ViewPlace
<1>5. Made(x) /\ Needed(x)  BY <1>1, <1>3, <1>4, OperandsNeeded DEF In
<1>6. x \in valid /\ place[x] = Addr(x)  BY <1>1, <1>4, <1>5 DEF Values
<1>7. /\ place' = [place EXCEPT ![y] = Addr(y)]
      /\ valid' = IF x \in valid /\ Addr(y) = place[x] THEN valid \cup {y} ELSE valid \ {y}
  BY <1>3 DEF View, In, Out
<1>8. valid' = valid \cup {y} /\ place'[y] = Addr(y) /\ \A t \in Tensors : t # y => place'[t] = place[t]
  BY <1>1, <1>4, <1>6, <1>7
<1>9. ASSUME NEW t, Made(t), Needed(t), t # y PROVE t \in valid' /\ place'[t] = Addr(t)
  <2>1. t \in Tensors  BY <1>1, <1>9, MadeBefore
  <2>2. t \in valid /\ place[t] = Addr(t)  BY <1>1, <1>9, <2>1 DEF Values
  <2> QED  BY <1>8, <1>9, <2>1, <2>2
<1> QED  BY <1>4, <1>8, <1>9

LEMMA CallKeeps ==
  ASSUME Plain, Known, PlannerInv, CallKernel
  PROVE  Known'
<1>1. /\ Control /\ Data /\ InputsHome /\ graph' = graph /\ mode = "launch" /\ mode' = mode
      /\ pc = "call" /\ pc' = "free"
      /\ map' = map /\ allocated' = allocated /\ addr' = addr /\ regions' = regions
      /\ size_map' = size_map /\ workspace' = workspace
      /\ IF Nodes[node].share THEN View(node) ELSE Compute(node)
  BY DEF Known, CallKernel, planner
<1>2. graph \in Graphs /\ node \in DOMAIN Nodes  BY <1>1 DEF Control
<1>3. /\ valid' \subseteq Tensors /\ place' = [t \in Tensors |-> place'[t]]
      /\ \A t \in Tensors : t \notin ToSet(Outs(node)) => place'[t] = place[t]
  <2>1. valid \subseteq Tensors /\ place = [t \in Tensors |-> place[t]]  BY <1>1 DEF Data
  <2>2. \A y \in ToSet(Outs(node)) : y \in Tensors  BY <1>2, OutFacts
  <2>3. CASE ~ Nodes[node].share
    <3>1. PICK A : A = [t \in Tensors |-> Addr(t)]  OBVIOUS
    <3>2. place' = [t \in Tensors |-> IF t \in ToSet(Outs(node)) THEN A[t] ELSE place[t]]
      BY <1>1, <2>3, <3>1 DEF Compute
    <3>3. valid' \subseteq ToSet(Outs(node)) \cup valid  BY <1>1, <2>3 DEF Compute
    <3> QED  BY <2>1, <2>2, <3>2, <3>3
  <2>4. CASE Nodes[node].share
    <3>1. node \in Sharing  BY <1>2, <2>4 DEF Sharing
    <3>2. PICK y, a : y = Out(node) /\ a = Addr(y)  OBVIOUS
    <3>3. y \in Tensors /\ ToSet(Outs(node)) = {y}  BY <1>2, <3>1, <3>2, SharingFacts
    <3>4. place' = [place EXCEPT ![y] = a] /\ valid' \subseteq valid \cup {y}
      BY <1>1, <2>4, <3>2 DEF View, Out
    <3> QED  BY <2>1, <3>3, <3>4
  <2> QED  BY <2>3, <2>4
<1>4. Data'  BY <1>1, <1>3 DEF Data
<1>5. InputsHome'
  <2>1. ASSUME NEW t \in graph.inputs PROVE place'[t] = Home(t)
    <3>1. t \in Tensors  BY <1>2, GraphFacts
    <3>2. t \notin ToSet(Outs(node))  BY <1>2, OutFacts
    <3> QED  BY <1>1, <1>3, <3>1, <3>2 DEF InputsHome
  <2> QED  BY <1>1, <2>1 DEF InputsHome, Home
<1>6. \A t : (Made(t) /\ Needed(t)) \/ t \in ToSet(Outs(node)) => t \in valid' /\ place'[t] = Addr(t)
  BY <1>1, ComputeValues, ViewValues
<1>7. /\ \A t : Addr(t)' = Addr(t) /\ (Needed(t)' <=> Needed(t))
      /\ \A t : Made(t)' <=> Made(t) \/ t \in ToSet(Outs(node))
  BY CallCommon
<1>8. Values'  BY <1>6, <1>7 DEF Values
<1>9. Control' /\ Settled' /\ Counted' /\ BusyAllocated' /\ Blocks'  BY CallCommon
<1> QED  BY <1>1, <1>4, <1>5, <1>8, <1>9 DEF Known

-----------------------------------------------------------------------------
(***************************************************************************)
(* Each action preserves Known: the inputs of a node; and what follows.    *)
(***************************************************************************)

\* The count of the tensor read goes down by one, and nothing else moves.
LEMMA FreeMap ==
  ASSUME Control, Data, FreeInput, NEW x, x = Ins(node)[arg]
  PROVE  /\ x \in Tensors
         /\ \A t \in Tensors : map'[t].var = map[t].var /\ map'[t].local = map[t].local
         /\ \A t \in Tensors : t # x => map'[t] = map[t]
         /\ map'[x].usage = map[x].usage - 1
         /\ map' \in [Tensors -> [var : Tensors, local : BOOLEAN, usage : Int]]
<1>1. x \in Tensors  BY FreeLeft
<1>2. map \in [Tensors -> [var : Tensors, local : BOOLEAN, usage : Int]]  BY DEF Data
<1>3. PICK e : e = map[x]  OBVIOUS
<1>4. e \in [var : Tensors, local : BOOLEAN, usage : Int]  BY <1>1, <1>2, <1>3
<1>5. PICK f : f = [var |-> e.var, local |-> e.local, usage |-> e.usage - 1]  OBVIOUS
<1>6. f \in [var : Tensors, local : BOOLEAN, usage : Int]  BY <1>4, <1>5
<1>7. map' = [map EXCEPT ![x] = f]
  <2>1. map' = [map EXCEPT ![x].usage = @ - 1]  BY DEF FreeInput
  <2>2. map' = [map EXCEPT ![x] = [map[x] EXCEPT !.usage = map[x].usage - 1]]  BY <2>1
  <2>3. [e EXCEPT !.usage = e.usage - 1] = f  BY <1>4, <1>5
  <2> QED  BY <1>3, <2>2, <2>3
<1> QED  BY <1>1, <1>2, <1>3, <1>5, <1>6, <1>7

\* The last use of a tensor, by the count, is the last: after it neither the tensor nor
\* another in the same block is needed.
LEMMA LastUseIsLast ==
  ASSUME Plain, Known, FreeInput, NEW x, x = Ins(node)[arg], LastUse(x)
  PROVE  Sole(x) /\ ~ Needed(x)'
<1>1. Control /\ Data /\ Settled /\ Counted /\ graph \in Graphs /\ graph' = graph
  BY DEF Known, Control, FreeInput
<1>2. x \in Tensors /\ <<node, arg>> \in Left(x) /\ Left(x)' = Left(x) \ {<<node, arg>>}
  BY <1>1, FreeLeft
<1>3. IsFiniteSet(Left(x)) /\ Cardinality(Left(x)) \in Nat  BY <1>1, LeftFinite
<1>4. Cardinality(Left(x) \ {<<node, arg>>}) = Cardinality(Left(x)) - 1
      /\ IsFiniteSet(Left(x) \ {<<node, arg>>})
  BY <1>2, <1>3, FS_RemoveElement
<1>5. Cardinality(Left(x) \ {<<node, arg>>}) \in Nat  BY <1>4, FS_CardinalityType
<1>6. map[x].usage = 1 /\ map[x].local  BY DEF LastUse
<1>7. Cardinality(Left(x)) = 1 /\ Sole(x)
  <2>1. \/ map[x].usage = Cardinality(Left(x)) /\ Sole(x)
        \/ map[x].usage > Cardinality(Left(x))
        \/ map[x].usage <= 0
    BY <1>1, <1>2, <1>6 DEF Counted
  <2> QED  BY <1>3, <1>4, <1>5, <1>6, <2>1
<1>8. Left(x)' = {}
  <2>1. Cardinality(Left(x) \ {<<node, arg>>}) = 0  BY <1>4, <1>7
  <2>2. Left(x) \ {<<node, arg>>} = {}  BY <1>4, <2>1, FS_EmptySet
  <2> QED  BY <1>2, <2>2
<1>9. ~ IsOutput(x)'
  <2>1. ~ IsGlobal(x)  BY <1>1, <1>2, <1>6, LocalFacts
  <2>2. ~ IsOutput(x)  BY <2>1 DEF IsGlobal
  <2>3. graph' = graph  BY <1>1
  <2>4. ToSet(graph.outputs)' = ToSet(graph.outputs)  BY <2>3 DEF ToSet
  <2> QED  BY <2>2, <2>4 DEF IsOutput
<1> QED  BY <1>7, <1>8, <1>9 DEF Needed

\* Counts stay right when a read is made.
LEMMA FreeCounted ==
  ASSUME Plain, Known, FreeInput
  PROVE  Counted'
<1>1. Control /\ Data /\ Counted /\ graph \in Graphs  BY DEF Known, Control, FreeInput
<1>2. PICK x : x = Ins(node)[arg]  OBVIOUS
<1>3. /\ x \in Tensors
      /\ \A t \in Tensors : map'[t].var = map[t].var /\ map'[t].local = map[t].local
      /\ \A t \in Tensors : t # x => map'[t] = map[t]
      /\ map'[x].usage = map[x].usage - 1
  BY <1>1, <1>2, FreeMap
<1>4. /\ <<node, arg>> \in Left(x) /\ Left(x)' = Left(x) \ {<<node, arg>>}
      /\ \A t : t # x => Left(t)' = Left(t)
  BY <1>1, <1>2, FreeLeft
<1>5. \A t \in Tensors : Sole(t)' = Sole(t)  BY <1>3 DEF Sole
<1>6. ASSUME NEW t \in Tensors, map'[t].local
      PROVE  \/ map'[t].usage = Cardinality(Left(t)') /\ Sole(t)'
             \/ map'[t].usage > Cardinality(Left(t)')
             \/ map'[t].usage <= 0
  <2>1. \/ map[t].usage = Cardinality(Left(t)) /\ Sole(t)
        \/ map[t].usage > Cardinality(Left(t))
        \/ map[t].usage <= 0
    BY <1>1, <1>3, <1>6 DEF Counted
  <2>2. CASE t # x
    <3>1. Left(t)' = Left(t) /\ map'[t] = map[t]  BY <1>3, <1>4, <2>2
    <3> QED  BY <1>5, <2>1, <3>1
  <2>3. CASE t = x
    <3>1. PICK S, R : S = Left(x) /\ R = Left(x)'  OBVIOUS
    <3>2. IsFiniteSet(S) /\ Cardinality(S) \in Nat  BY <1>1, <3>1, LeftFinite
    <3>3. Cardinality(R) = Cardinality(S) - 1  BY <1>4, <3>1, <3>2, FS_RemoveElement
    <3>4. map[x].usage \in Int  BY <1>1, <1>3 DEF Data
    <3>5. map'[t].usage = map[t].usage - 1 /\ map[t].usage \in Int  BY <1>3, <2>3, <3>4
    <3>6. \/ map[t].usage = Cardinality(S) /\ Sole(t)
          \/ map[t].usage > Cardinality(S)
          \/ map[t].usage <= 0
      BY <2>1, <2>3, <3>1
    <3>7. CASE map[t].usage = Cardinality(S) /\ Sole(t)
      BY <1>5, <2>3, <3>1, <3>3, <3>5, <3>7
    <3>8. CASE map[t].usage > Cardinality(S)
      <4>1. map'[t].usage > Cardinality(R)  BY <3>2, <3>3, <3>5, <3>8
      <4> QED  BY <2>3, <3>1, <4>1
    <3>9. CASE map[t].usage <= 0  BY <3>5, <3>9
    <3> QED  BY <3>6, <3>7, <3>8, <3>9
  <2> QED  BY <2>2, <2>3
<1> QED  BY <1>6 DEF Counted

LEMMA FreeKeeps ==
  ASSUME Plain, Known, PlannerInv, PlannerInv', FreeInput
  PROVE  Known'
<1>1. /\ Control /\ Data /\ Settled /\ BusyAllocated /\ Blocks /\ InputsHome /\ Values
      /\ graph \in Graphs /\ graph' = graph /\ mode' = mode /\ pc = "free" /\ pc' = "free"
      /\ addr' = addr /\ size_map' = size_map /\ workspace' = workspace
      /\ valid' = valid /\ place' = place
  BY DEF Known, FreeInput, planner, memory, Control
<1>2. PICK x : x = Ins(node)[arg]  OBVIOUS
<1>3. /\ x \in Tensors
      /\ \A t \in Tensors : map'[t].var = map[t].var /\ map'[t].local = map[t].local
      /\ map' \in [Tensors -> [var : Tensors, local : BOOLEAN, usage : Int]]
  BY <1>1, <1>2, FreeMap
<1>4. PICK v, c, p : v = map[x].var /\ c = graph.device[x] /\ p = addr[v]  OBVIOUS
<1>5. c \in Devices  BY <1>1, <1>3, <1>4, SizeFacts
<1>6. /\ allocated \in [Tensors -> BOOLEAN]
      /\ regions \in [Devices -> Seq(Region)] /\ size_map = [d \in Devices |-> size_map[d]]
      /\ \A t \in Tensors : map[t].var \in Tensors
  BY <1>1 DEF Data
<1>7. \/ LastUse(x) /\ allocated' = [allocated EXCEPT ![v] = FALSE]
      \/ ~ LastUse(x) /\ allocated' = allocated
  BY <1>2, <1>4 DEF FreeInput, planner
<1>8. regions' \in [Devices -> Seq(Region)]
  <2>1. \/ regions' = regions
        \/ regions' = [regions EXCEPT ![c] = GiveBack(regions[c], p, size_map[c][p])]
    <3>1. \/ regions' = regions
          \/ regions' = [regions EXCEPT ![c] = GiveBack(@, p, size_map[c][p])]
      BY <1>2, <1>4 DEF FreeInput, planner
    <3> QED  BY <3>1
  <2>2. regions'[c] \in Seq(Region)  BY <1>5, PlannerFactsNext DEF DevFacts
  <2> QED  BY <1>5, <1>6, <2>1, <2>2
<1>9. allocated' \in [Tensors -> BOOLEAN] /\ \A u \in Tensors : allocated'[u] => allocated[u]
  BY <1>6, <1>7
<1>10. Control'  BY <1>1, ControlStep DEF Next, Step
<1>11. Data'  BY <1>1, <1>3, <1>8, <1>9 DEF Data
<1>12. Settled'  BY <1>1, <1>3, SettledStays
<1>13. Counted'  BY FreeCounted
<1>14. Blocks'  BY <1>1, <1>9 DEF Blocks, Block
<1>15. InputsHome'  BY <1>1, InputsStay
<1>16. ASSUME NEW t PROVE (Made(t)' <=> Made(t)) /\ (Needed(t)' => Needed(t)) /\ ~ Pending(t)'
  <2>1. (Made(t)' <=> Made(t)) /\ ~ Pending(t)'  BY <1>1, MadeStays, PendingSteps
  <2>2. CASE t = x
    <3>1. Needed(t)  BY <1>1, <1>2, <2>2, FreeLeft DEF Needed
    <3> QED  BY <2>1, <3>1
  <2>3. CASE t # x
    <3>1. Needed(t)' <=> Needed(t)  BY <1>1, <1>2, <2>3, FreeLeft
    <3> QED  BY <2>1, <3>1
  <2> QED  BY <2>2, <2>3
<1>17. ASSUME NEW t \in Tensors, map'[t].local, Busy(t)' PROVE allocated'[map'[t].var]
  <2>1. Made(t) /\ Needed(t) /\ Needed(t)'  BY <1>16, <1>17 DEF Busy
  <2>2. allocated[map[t].var]  BY <1>1, <1>3, <1>17, <2>1 DEF BusyAllocated, Busy
  <2>3. CASE ~ LastUse(x)  BY <1>3, <1>7, <2>2, <2>3
  <2>4. CASE LastUse(x)
    <3>1. Sole(x) /\ ~ Needed(x)'  BY <1>2, <2>4, LastUseIsLast
    <3>2. t # x  BY <2>1, <3>1
    <3>3. map[t].var # v  BY <1>4, <3>1, <3>2 DEF Sole
    <3>4. allocated' = [allocated EXCEPT ![v] = FALSE]  BY <1>7, <2>4
    <3> QED  BY <1>3, <1>6, <2>2, <3>3, <3>4
  <2> QED  BY <2>3, <2>4
<1>18. BusyAllocated'  BY <1>17 DEF BusyAllocated
<1>19. \A t \in Tensors : Addr(t)' = Addr(t)  BY <1>1, <1>3, AddrStays
<1>20. Values'  BY <1>1, <1>16, <1>19 DEF Values
<1> QED  BY <1>1, <1>10, <1>11, <1>12, <1>13, <1>14, <1>15, <1>18, <1>20 DEF Known

\* The inductive invariant, for the graphs the proofs are about.
PlanInv == Plain => Known /\ PlannerInv

LEMMA PlanInit == Init => PlanInv
<1>1. ASSUME Init PROVE PlannerInv
  <2>1. \A d \in Devices : /\ regions[d] = InitRegions /\ size_map[d] = [p \in {} |-> 0]
                           /\ Pointers(d) = [t \in Tensors |-> -2]
    BY <1>1 DEF Init, NewLists, NoSizes, Pointers
  <2>2. CpuP!Init  BY <2>1, CpuReset DEF Devices
  <2>3. CudaP!Init  BY <2>1, CudaReset DEF Devices
  <2> QED  BY <2>2, <2>3, CpuInv, CudaInv DEF PlannerInv
<1> QED  BY <1>1, InitKnown DEF PlanInv

\* Every step preserves it.
LEMMA PlanSteps ==
  ASSUME Plain, Known, PlannerInv, Next
  PROVE  Known' /\ PlannerInv'
<1>1. PlannerInv'  BY DevSteps, PlannerStep
<1>2. CASE ShareNode
  BY <1>1, <1>2, ShareNodeKeeps, SharedKeeps
<1>3. CASE AllocOutput  BY <1>1, <1>3, AllocKeeps
<1>4. CASE OutputsDone  BY <1>1, <1>4, OutputsDoneKeeps
<1>5. CASE Measure  BY <1>1, <1>5, MeasureKeeps
<1>6. CASE CallKernel  BY <1>1, <1>6, CallKeeps
<1>7. CASE FreeInput  BY <1>1, <1>7, FreeKeeps
<1>8. CASE NextNode  BY <1>1, <1>8, NextNodeKeeps
<1>9. CASE Launch  BY <1>1, <1>9, LaunchKeeps
<1> QED  BY <1>1, <1>2, <1>3, <1>4, <1>5, <1>6, <1>7, <1>8, <1>9 DEF Next, Step

\* A step that changes nothing keeps what is known.
LEMMA StutterKeeps ==
  ASSUME UNCHANGED vars, Known, PlannerInv
  PROVE  Known' /\ PlannerInv'
<1>1. /\ graph' = graph /\ mode' = mode /\ pc' = pc /\ node' = node /\ arg' = arg /\ change' = change
      /\ map' = map /\ allocated' = allocated /\ addr' = addr /\ regions' = regions
      /\ size_map' = size_map /\ workspace' = workspace /\ valid' = valid /\ place' = place
  BY DEF vars, control, planner, memory
<1>2. PlannerInv'
  <2>1. \A d \in Devices : DevNext(d)  BY <1>1, PlannerUnchanged DEF planner, DevNext, DevGrow
  <2> QED  BY <2>1, PlannerStep
<1>3. /\ Sharing' = Sharing /\ Nodes' = Nodes
      /\ \A k : In(k)' = In(k) /\ Out(k)' = Out(k) /\ Ins(k)' = Ins(k) /\ Outs(k)' = Outs(k)
      /\ \A t : IsGlobal(t)' = IsGlobal(t) /\ IsOutput(t)' = IsOutput(t) /\ Lone(t)' = Lone(t)
      /\ \A t : UsageCount(graph, t)' = UsageCount(graph, t) /\ Buffer(t)' = Buffer(t)
      /\ InitMap(graph)' = InitMap(graph)
  BY <1>1, GraphStays
<1>4. \A t : /\ Own(t)' = Own(t) /\ Fresh(t)' = Fresh(t) /\ Addr(t)' = Addr(t) /\ Sole(t)' = Sole(t)
             /\ Block(t)' = Block(t)
  BY <1>1, <1>3 DEF Own, Fresh, Addr, Sole, Block
<1>5. \A t : Left(t)' = Left(t) /\ Made(t)' = Made(t) /\ Pending(t)' = Pending(t)
  BY <1>1, <1>3 DEF Left, Past, Made, Pending
<1>6. \A t : Needed(t)' = Needed(t) /\ Busy(t)' = Busy(t)  BY <1>3, <1>5 DEF Needed, Busy
<1>7. \A k : /\ Joined(k)' = Joined(k) /\ BothGlobal(k)' = BothGlobal(k) /\ Moved(k)' = Moved(k)
             /\ Acts(k)' = Acts(k)
  BY <1>1, <1>3, <1>4 DEF Joined, At, BothGlobal, Apart, Moved, Acts, Differ
<1>8. Control' = Control /\ Data' = Data  BY <1>1, <1>3 DEF Control, Data
<1>9. ShareInv' = ShareInv /\ Settled' = Settled
  BY <1>1, <1>3, <1>4, <1>7 DEF ShareInv, Settled
<1>10. Counted' = Counted /\ BusyAllocated' = BusyAllocated
  BY <1>1, <1>4, <1>5, <1>6 DEF Counted, BusyAllocated
<1>11. Blocks' = Blocks /\ InputsHome' = InputsHome /\ Values' = Values
  BY <1>1, <1>4, <1>5, <1>6 DEF Blocks, InputsHome, Home, Values
<1> QED  BY <1>1, <1>2, <1>8, <1>9, <1>10, <1>11 DEF Known

LEMMA NextGraph == Next => graph' = graph
  BY QuietGraph DEF Next, Launch

LEMMA PlanStep == PlanInv /\ [Next]_vars => PlanInv'
<1> SUFFICES ASSUME PlanInv, [Next]_vars, Plain' PROVE Known' /\ PlannerInv'
  BY DEF PlanInv
<1>1. graph' = graph
  BY NextGraph DEF vars
<1>2. Plain /\ Known /\ PlannerInv
  <2>1. Plain' = Plain  BY <1>1, GraphStays
  <2> QED  BY <2>1 DEF PlanInv
<1> QED  BY <1>2, PlanSteps, StutterKeeps

\* In every state of a run of a graph whose views are apart, all of this is so.
THEOREM PlanInvariant == Spec => []PlanInv
  BY PlanInit, PlanStep, PTL DEF Spec

LEMMA OperandsKept == PlanInv => (ViewsApart(graph) => ValuesIntact)
<1> SUFFICES ASSUME Plain, Known, PlannerInv, mode = "launch"
             PROVE  ValuesIntact
  BY DEF PlanInv, Plain, ValuesIntact
<1>1. Control /\ graph \in Graphs /\ node \in DOMAIN Nodes  BY DEF Known, Control
<1>2. ASSUME pc = "call", NEW x \in ToSet(Ins(node))
      PROVE  /\ x \in valid /\ place[x] = Addr(x)
             /\ \A y \in ToSet(Outs(node)) : ~ Nodes[node].share => ~ Overlap(x, Addr(x), y, Addr(y))
  <2>1. PICK i \in DOMAIN Ins(node) : x = Ins(node)[i]  BY DEF ToSet
  <2>2. Made(x) /\ Needed(x) /\ x \in Tensors  BY <1>1, <1>2, <2>1, OperandsNeeded
  <2>3. x \in valid /\ place[x] = Addr(x)  BY <1>2, <2>2 DEF Known, Values
  <2> QED  BY <1>2, <2>2, <2>3, NotOverwritten
<1>3. ASSUME pc = "done", NEW o \in ToSet(graph.outputs)
      PROVE  o \in valid /\ place[o] = Addr(o)
  <2>1. IsOutput(o)  BY DEF IsOutput
  <2>2. o \in Tensors /\ Made(o)  BY <1>1, <1>3, <2>1, OutputsMade DEF Made
  <2> QED  BY <1>3, <2>1, <2>2 DEF Known, Values, Needed
<1> QED  BY <1>2, <1>3 DEF ValuesIntact

\* When a kernel is called its inputs hold what their producers wrote, are where it is told
\* to read them and are not where it writes, and launch returns intact outputs: no block is
\* freed and given away before its last use (the promise of build_graph.py:321).
\* (OperandsIntact claims it of more graphs; of those TLC checks small ones.)
THEOREM IntactOperands == Spec => [](ViewsApart(graph) => ValuesIntact /\ OperandsIntact)
<1>1. ValuesIntact => OperandsIntact  BY DEF OperandsIntact
<1> QED  BY <1>1, PlanInvariant, OperandsKept, PTL

-----------------------------------------------------------------------------
(***************************************************************************)
(* The planners inside a run are instances of MemoryPlanner.               *)
(***************************************************************************)

LEMMA PlannersStart == Init => CpuPlanner!Init /\ CudaPlanner!Init
<1>1. Init => \A d \in Devices : /\ regions[d] = InitRegions /\ size_map[d] = [p \in {} |-> 0]
                                 /\ Pointers(d) = [t \in Tensors |-> -2]
  BY DEF Init, NewLists, NoSizes, Pointers
<1> QED  BY <1>1, CpuPlannerInit, CudaPlannerInit DEF Devices

\* Each step of the program is a step or a stutter of each planner.
LEMMA PlannersStep ==
  (\A g \in Graphs : ViewsApart(g)) /\ PlanInv /\ graph \in Graphs /\ [Next]_vars =>
     [CpuPlanner!Next]_(CpuPlanner!vars) /\ [CudaPlanner!Next]_(CudaPlanner!vars)
<1> SUFFICES ASSUME Plain, Known, PlannerInv, [Next]_vars
             PROVE  [CpuPlanner!Next]_(CpuPlanner!vars) /\ [CudaPlanner!Next]_(CudaPlanner!vars)
  BY DEF PlanInv, Plain
<1>1. \A d \in Devices : DevNext(d)
  BY DevSteps, PlannerUnchanged DEF vars, DevNext, DevGrow
<1>2. DevNext("cpu") /\ DevNext("cuda")  BY <1>1 DEF Devices
<1> QED  BY <1>2, CpuPlannerStep, CudaPlannerStep

LEMMA GraphKept == Spec => [](graph \in Graphs)
<1>1. Init => graph \in Graphs  BY DEF Init
<1>2. graph \in Graphs /\ [Next]_vars => (graph \in Graphs)'  BY NextGraph DEF vars
<1> QED  BY <1>1, <1>2, PTL DEF Spec

\* For graphs whose views are apart the generated functions call each planner legally: they
\* never free what is not allocated nor give a variable two blocks, so that what is proved of
\* MemoryPlanner holds inside get_workspace_size and launch.
THEOREM LegalPlanners ==
  ASSUME \A g \in Graphs : ViewsApart(g)
  PROVE  Spec => PlannersLegal
<1>1. \A g \in Graphs : ViewsApart(g)  OBVIOUS
<1>2. PlanInv /\ graph \in Graphs /\ [Next]_vars =>
        [CpuPlanner!Next]_(CpuPlanner!vars) /\ [CudaPlanner!Next]_(CudaPlanner!vars)
  BY <1>1, PlannersStep
<1> QED  BY <1>2, PlannersStart, PlanInvariant, GraphKept, PTL
         DEF Spec, PlannersLegal, CpuPlanner!Spec, CudaPlanner!Spec

-----------------------------------------------------------------------------
(***************************************************************************)
(* How much of a region list is used.                                      *)
(***************************************************************************)

\* The last region begins where the rest of memory is free and just after an address
\* that is not.
LEMMA UsedIsLeast ==
  ASSUME NEW rs \in Seq(Region), WellFormed(rs)
  PROVE  /\ Used(rs) \in Nat
         /\ \A a \in Nat : a >= Used(rs) => IsFree(rs, a)
         /\ Used(rs) > 0 => ~ IsFree(rs, Used(rs) - 1)
<1>1. Used(rs) \in Nat /\ \A a \in Nat : a >= Used(rs) => IsFree(rs, a)  BY FreeAboveUsed
<1>2. Len(rs) \in Nat \ {0} /\ DOMAIN rs = 1 .. Len(rs)  BY RegionAt, WellFormedAt
<1>3. ASSUME Used(rs) > 0, NEW i \in 1 .. Len(rs), InRegion(rs[i], Used(rs) - 1)
      PROVE  FALSE
  <2>1. rs[i].start \in Nat  BY RegionAt
  <2>2. CASE i = Len(rs)  BY <1>1, <1>3, <2>1, <2>2 DEF InRegion, Used
  <2>3. CASE i < Len(rs)
    <3>1. Len(rs) \in 1 .. Len(rs)  BY <1>2
    <3>2. rs[i].size \in Nat \ {0} /\ rs[i].start + rs[i].size < rs[Len(rs)].start
      BY <2>3, <3>1, WellFormedAt
    <3>3. Used(rs) = rs[Len(rs)].start  BY DEF Used
    <3>4. Used(rs) - 1 < rs[i].start + rs[i].size  BY <1>3, <3>2 DEF InRegion, Unbounded
    <3>5. PICK e \in Nat, u \in Nat : e = rs[i].start + rs[i].size /\ u = Used(rs)
      BY <1>1, <2>1, <3>2
    <3> QED  BY <3>2, <3>3, <3>4, <3>5
  <2>4. \A l \in Nat : \A k \in 1 .. l : k = l \/ k < l  OBVIOUS
  <2>5. i = Len(rs) \/ i < Len(rs)  BY <1>2, <2>4, Zenon
  <2> QED  BY <2>2, <2>3, <2>5
<1> QED  BY <1>1, <1>2, <1>3 DEF IsFree

\* The less is free, the more is used.
LEMMA UsedGrows ==
  ASSUME NEW rs \in Seq(Region), WellFormed(rs), NEW ts \in Seq(Region), WellFormed(ts),
         \A a \in Nat : IsFree(ts, a) => IsFree(rs, a)
  PROVE  Used(rs) <= Used(ts)
<1>1. Used(rs) \in Nat /\ Used(ts) \in Nat  BY UsedIsLeast
<1>2. ASSUME Used(ts) < Used(rs) PROVE FALSE
  <2>1. Used(rs) - 1 \in Nat /\ Used(rs) - 1 >= Used(ts) /\ Used(rs) > 0  BY <1>1, <1>2
  <2>2. IsFree(rs, Used(rs) - 1)  BY <2>1, UsedIsLeast
  <2> QED  BY <2>1, <2>2, UsedIsLeast
<1> QED  BY <1>1, <1>2

LEMMA UsedOfEmpty == Used(InitRegions) = 0
  BY DEF Used, InitRegions

\* What a step does to the number that the workspace is sized by.
LEMMA AllocUses ==
  ASSUME PlannerInv, NEW d \in Devices, NEW v, NEW n \in AllSizes \ {0}, DevAlloc(d, v, n)
  PROVE  Used(regions[d]) <= Used(regions'[d])
<1>1. PICK rs, i, size : rs = regions[d] /\ i = FitOf(d, n) /\ size = Ceil(n)  OBVIOUS
<1>2. rs \in Seq(Region) /\ WellFormed(rs)  BY <1>1, PlannerFacts DEF DevFacts
<1>3. size \in Nat \ {0}  BY <1>1, AllSizesNat, CeilProperties
<1>4. i \in 1 .. Len(rs) /\ Fits(rs[i], size)
  BY <1>1, <1>2, <1>3, FirstFitProperties DEF FitOf
<1>5. regions'[d] = TakeFrom(rs, i, size)  BY <1>1 DEF DevAlloc
<1>6. /\ TakeFrom(rs, i, size) \in Seq(Region) /\ WellFormed(TakeFrom(rs, i, size))
      /\ \A a \in Nat : IsFree(TakeFrom(rs, i, size), a) => IsFree(rs, a)
  BY <1>2, <1>3, <1>4, TakeFromProperties
<1> QED  BY <1>1, <1>2, <1>5, <1>6, UsedGrows

\* Freeing does not use more.
LEMMA FreeUses ==
  ASSUME PlannerInv, NEW d \in Devices, NEW v \in Tensors, DevFree(d, v)
  PROVE  Used(regions'[d]) <= Used(regions[d])
<1>1. PICK rs, p, n : rs = regions[d] /\ p = Pointers(d)[v] /\ n = size_map[d][p]  OBVIOUS
<1>2. p \in Nat  BY <1>1 DEF DevFree
<1>3. rs \in Seq(Region) /\ WellFormed(rs) /\ n \in Nat \ {0}
      /\ \A a \in p .. (PtrEnd(d, v) - 1) : ~ IsFree(rs, a)
  BY <1>1, <1>2, PlannerFacts DEF DevFacts
<1>4. PtrEnd(d, v) = p + n  BY <1>1 DEF PtrEnd
<1>5. regions'[d] = GiveBack(rs, p, n)  BY <1>1 DEF DevFree
<1>6. /\ GiveBack(rs, p, n) \in Seq(Region) /\ WellFormed(GiveBack(rs, p, n))
      /\ \A a \in Nat : IsFree(rs, a) => IsFree(GiveBack(rs, p, n), a)
  BY <1>2, <1>3, <1>4, GiveBackProperties
<1> QED  BY <1>1, <1>3, <1>5, <1>6, UsedGrows

-----------------------------------------------------------------------------
(***************************************************************************)
(* A run of a generated function is determined by the graph: what it has in *)
(* its variables, as one value, and the value one step later.              *)
(***************************************************************************)

\* What a run of a generated function depends on.
State(q, k, i, c, m, a, p, r, z) ==
  [pc |-> q, node |-> k, arg |-> i, change |-> c, map |-> m,
   allocated |-> a, ptr |-> p, regions |-> r, sizes |-> z]

\* The addresses of the blocks in use: the others are left over from earlier ones.
Masked == [v \in Tensors |-> IF allocated[v] THEN addr[v] ELSE NullPtr]

Cur == State(pc, node, arg, change, map, allocated, Masked, regions, size_map)

\* The value a generated function starts with.
Start(g) ==
  State("share", 1, 1, FALSE, InitMap(g), [v \in Tensors |-> FALSE], [v \in Tensors |-> NullPtr],
        NewLists, NoSizes)

ActsIn(g, k, m) ==
  LET x == g.nodes[k].inputs[1]
      y == g.nodes[k].outputs[1]
  IN  /\ g.nodes[k].share
      /\ m[x].local \/ m[y].local
      /\ m[x].var # m[y].var

JoinedMap(m, keep, drop, b) ==
  [m EXCEPT ![drop].var = m[keep].var, ![drop].usage = @ - 1, ![keep].usage = @ + 1, ![drop].local = b]

NextMap(g, k, m) ==
  LET x == g.nodes[k].inputs[1]
      y == g.nodes[k].outputs[1]
  IN  IF ~ ActsIn(g, k, m) THEN m
      ELSE IF ~ m[x].local THEN JoinedMap(m, x, y, FALSE)
      ELSE IF ~ m[y].local THEN JoinedMap(m, y, x, FALSE)
      ELSE JoinedMap(m, x, y, TRUE)

ShareSucc(g, s) ==
  LET m == NextMap(g, s.node, s.map)
      c == s.change \/ ActsIn(g, s.node, s.map)
  IN  IF s.node < Len(g.nodes)
      THEN State("share", s.node + 1, s.arg, c, m, s.allocated, s.ptr, s.regions, s.sizes)
      ELSE State(IF c THEN "share" ELSE "alloc", 1, s.arg, FALSE, m,
                 s.allocated, s.ptr, s.regions, s.sizes)

\* One step of each kind, as a function.
AllocSucc(g, s) ==
  LET outs == g.nodes[s.node].outputs
      y == outs[s.arg]
      v == s.map[y].var
      d == g.device[y]
      n == g.size[y]
      i == FirstFit(s.regions[d], Ceil(n))
      p == s.regions[d][i].start
  IN  IF s.arg > Len(outs)
      THEN State("call", s.node, 1, s.change, s.map, s.allocated, s.ptr, s.regions, s.sizes)
      ELSE IF s.allocated[v] \/ ~ s.map[y].local
      THEN State("alloc", s.node, s.arg + 1, s.change, s.map, s.allocated, s.ptr, s.regions, s.sizes)
      ELSE IF n = 0
      THEN State("alloc", s.node, s.arg + 1, s.change, s.map, [s.allocated EXCEPT ![v] = TRUE],
                 [s.ptr EXCEPT ![v] = NullPtr], s.regions, s.sizes)
      ELSE State("alloc", s.node, s.arg + 1, s.change, s.map, [s.allocated EXCEPT ![v] = TRUE],
                 [s.ptr EXCEPT ![v] = p],
                 [s.regions EXCEPT ![d] = TakeFrom(s.regions[d], i, Ceil(n))],
                 [s.sizes EXCEPT ![d] = [q \in DOMAIN s.sizes[d] \cup {p} |->
                                           IF q = p THEN Ceil(n) ELSE s.sizes[d][q]]])

CallSucc(s) ==
  State("free", s.node, s.arg, s.change, s.map, s.allocated, s.ptr, s.regions, s.sizes)

FreeSucc(g, s) ==
  LET ins == g.nodes[s.node].inputs
      x == ins[s.arg]
      v == s.map[x].var
      d == g.device[x]
      p == s.ptr[v]
      m == [s.map EXCEPT ![x].usage = @ - 1]
  IN  IF s.arg > Len(ins)
      THEN IF s.node < Len(g.nodes)
           THEN State("alloc", s.node + 1, 1, s.change, s.map, s.allocated, s.ptr, s.regions, s.sizes)
           ELSE State("done", s.node, 1, s.change, s.map, s.allocated, s.ptr, s.regions, s.sizes)
      ELSE IF ~ (s.map[x].usage = 1 /\ s.map[x].local)
      THEN State("free", s.node, s.arg + 1, s.change, m, s.allocated, s.ptr, s.regions, s.sizes)
      ELSE State("free", s.node, s.arg + 1, s.change, m, [s.allocated EXCEPT ![v] = FALSE],
                 [s.ptr EXCEPT ![v] = NullPtr],
                 IF p = NullPtr THEN s.regions
                 ELSE [s.regions EXCEPT ![d] = GiveBack(s.regions[d], p, s.sizes[d][p])],
                 s.sizes)

\* The state after s in a run for graph g.
Succ(g, s) ==
  IF s.pc = "share" THEN ShareSucc(g, s)
  ELSE IF s.pc = "alloc" THEN AllocSucc(g, s)
  ELSE IF s.pc = "call" THEN CallSucc(s)
  ELSE FreeSucc(g, s)

LEMMA CurFields ==
  /\ Cur.pc = pc /\ Cur.node = node /\ Cur.arg = arg /\ Cur.change = change /\ Cur.map = map
  /\ Cur.allocated = allocated /\ Cur.ptr = Masked /\ Cur.regions = regions /\ Cur.sizes = size_map
  BY DEF Cur, State

\* process_share_map, which follows the same order in both functions.
LEMMA ShareReplays ==
  ASSUME ShareNode
  PROVE  Cur' = Succ(graph, Cur)
<1>1. /\ pc = "share" /\ arg' = arg /\ allocated' = allocated /\ addr' = addr
      /\ regions' = regions /\ size_map' = size_map
  BY DEF ShareNode, planner
<1>2. Masked' = Masked  BY <1>1 DEF Masked
<1>3. PICK x, y : x = graph.nodes[node].inputs[1] /\ y = graph.nodes[node].outputs[1]
  OBVIOUS
<1>4. PICK acts : acts = ActsIn(graph, node, map)  OBVIOUS
<1>5. acts = (graph.nodes[node].share /\ (map[x].local \/ map[y].local) /\ map[x].var # map[y].var)
  BY <1>3, <1>4, Zenon DEF ActsIn
<1>6. /\ IF ~ acts THEN UNCHANGED map
         ELSE IF ~ map[x].local THEN Unify(x, y, FALSE)
         ELSE IF ~ map[y].local THEN Unify(y, x, FALSE)
         ELSE Unify(x, y, TRUE)
      /\ IF node < Len(graph.nodes)
         THEN node' = node + 1 /\ change' = (change \/ acts) /\ UNCHANGED pc
         ELSE node' = 1 /\ change' = FALSE /\ pc' = IF change \/ acts THEN "share" ELSE "alloc"
  BY <1>3, <1>5 DEF ShareNode, Changed, Differ, Ins, Outs, Nodes
<1>7. map' = NextMap(graph, node, map)
  BY <1>3, <1>4, <1>6, Zenon DEF NextMap, JoinedMap, Unify
<1>8. Cur' = ShareSucc(graph, Cur)
  <2>1. Cur' = State(pc', node', arg, change', map', allocated, Masked, regions, size_map)
    BY <1>1, <1>2 DEF Cur, State
  <2>2. PICK c : c = (change \/ acts)  OBVIOUS
  <2>3. ShareSucc(graph, Cur) =
          IF node < Len(graph.nodes)
          THEN State("share", node + 1, arg, c, map', allocated, Masked, regions, size_map)
          ELSE State(IF c THEN "share" ELSE "alloc", 1, arg, FALSE, map',
                     allocated, Masked, regions, size_map)
    BY <1>4, <1>7, <2>2, CurFields DEF ShareSucc
  <2>4. CASE node < Len(graph.nodes)
    <3>1. node' = node + 1 /\ change' = c /\ pc' = "share"  BY <1>1, <1>6, <2>2, <2>4
    <3> QED  BY <2>1, <2>3, <2>4, <3>1
  <2>5. CASE ~ (node < Len(graph.nodes))
    <3>1. node' = 1 /\ change' = FALSE /\ pc' = IF c THEN "share" ELSE "alloc"
      BY <1>6, <2>2, <2>5
    <3> QED  BY <2>1, <2>3, <2>5, <3>1
  <2> QED  BY <2>4, <2>5
<1> QED  BY <1>1, <1>8, CurFields DEF Succ

-----------------------------------------------------------------------------
(***************************************************************************)
(* Every step of a run is that function.                                   *)
(***************************************************************************)

LEMMA MaskedChange ==
  ASSUME NEW v \in Tensors, NEW b \in BOOLEAN, NEW a,
         allocated \in [Tensors -> BOOLEAN], addr \in [Tensors -> Nat \cup {NullPtr}],
         allocated' = [allocated EXCEPT ![v] = b], addr' = [addr EXCEPT ![v] = a]
  PROVE  Masked' = [Masked EXCEPT ![v] = IF b THEN a ELSE NullPtr]
<1>1. PICK P, Q : P = Masked /\ Q = Masked'  OBVIOUS
<1>2. P = [u \in Tensors |-> IF allocated[u] THEN addr[u] ELSE NullPtr]  BY <1>1 DEF Masked
<1>3. Q = [u \in Tensors |-> IF allocated'[u] THEN addr'[u] ELSE NullPtr]  BY <1>1 DEF Masked
<1>4. \A u \in Tensors : u # v => allocated'[u] = allocated[u] /\ addr'[u] = addr[u]  OBVIOUS
<1>5. allocated'[v] = b /\ addr'[v] = a  OBVIOUS
<1>6. \A u \in Tensors : u # v => Q[u] = P[u]  BY <1>2, <1>3, <1>4
<1>7. Q[v] = IF b THEN a ELSE NullPtr  BY <1>3, <1>5
<1>8. P = [u \in Tensors |-> P[u]] /\ Q = [u \in Tensors |-> Q[u]]  BY <1>2, <1>3
<1>9. Q = [P EXCEPT ![v] = IF b THEN a ELSE NullPtr]  BY <1>6, <1>7, <1>8
<1> QED  BY <1>1, <1>9

LEMMA AllocReplays ==
  ASSUME Plain, Known, PlannerInv, AllocOutput
  PROVE  Cur' = Succ(graph, Cur)
<1>1. /\ Control /\ Data /\ Settled /\ pc = "alloc" /\ pc' = "alloc" /\ node' = node
      /\ arg' = arg + 1 /\ change' = change /\ map' = map
      /\ arg <= Len(graph.nodes[node].outputs)
  BY Zenon DEF Known, AllocOutput, Outs, Nodes
<1>2. arg \in Nat /\ Len(graph.nodes[node].outputs) \in Nat
  <2>1. graph \in Graphs /\ node \in DOMAIN Nodes /\ arg \in Nat  BY <1>1 DEF Control
  <2>2. Outs(node) \in Seq(Tensors)  BY <2>1, NodeFacts
  <2> QED  BY <2>1, <2>2 DEF Outs, Nodes
<1>3. ~ (arg > Len(graph.nodes[node].outputs))  BY <1>1, <1>2
<1>4. PICK y, v, c, n : /\ y = graph.nodes[node].outputs[arg] /\ v = map[y].var
                        /\ c = graph.device[y] /\ n = graph.size[y]
  OBVIOUS
<1>5. y = Outs(node)[arg]  BY <1>4 DEF Outs, Nodes
<1>6. PICK i, p : i = FirstFit(regions[c], Ceil(n)) /\ p = regions[c][i].start  OBVIOUS
<1>7. Succ(graph, Cur) =
        IF allocated[v] \/ ~ map[y].local
        THEN State("alloc", node, arg + 1, change, map, allocated, Masked, regions, size_map)
        ELSE IF n = 0
        THEN State("alloc", node, arg + 1, change, map, [allocated EXCEPT ![v] = TRUE],
                   [Masked EXCEPT ![v] = NullPtr], regions, size_map)
        ELSE State("alloc", node, arg + 1, change, map, [allocated EXCEPT ![v] = TRUE],
                   [Masked EXCEPT ![v] = p],
                   [regions EXCEPT ![c] = TakeFrom(regions[c], i, Ceil(n))],
                   [size_map EXCEPT ![c] = [q \in DOMAIN size_map[c] \cup {p} |->
                                              IF q = p THEN Ceil(n) ELSE size_map[c][q]]])
  <2>1. Succ(graph, Cur) = AllocSucc(graph, Cur)  BY <1>1, CurFields DEF Succ
  <2>2. CASE allocated[v] \/ ~ map[y].local
    BY <1>3, <1>4, <2>1, <2>2, CurFields DEF AllocSucc
  <2>3. CASE ~ allocated[v] /\ map[y].local /\ n = 0
    BY <1>3, <1>4, <2>1, <2>3, CurFields, Zenon DEF AllocSucc
  <2>4. CASE ~ allocated[v] /\ map[y].local /\ n # 0
    <3>1. PICK Z : Z = [q \in DOMAIN size_map[c] \cup {p} |->
                          IF q = p THEN Ceil(n) ELSE size_map[c][q]]
      BY Zenon
    <3>2. AllocSucc(graph, Cur) =
            State("alloc", node, arg + 1, change, map, [allocated EXCEPT ![v] = TRUE],
                  [Masked EXCEPT ![v] = p],
                  [regions EXCEPT ![c] = TakeFrom(regions[c], i, Ceil(n))],
                  [size_map EXCEPT ![c] = Z])
      BY <1>3, <1>4, <1>6, <2>4, <3>1, CurFields, Zenon DEF AllocSucc
    <3> QED  BY <2>1, <2>4, <3>1, <3>2
  <2> QED  BY <2>2, <2>3, <2>4
<1>8. Cur' = State("alloc", node, arg + 1, change, map, allocated', Masked', regions', size_map')
  BY <1>1 DEF Cur, State
<1>9. CASE allocated[v] \/ ~ map[y].local
  <2>1. UNCHANGED planner  BY <1>4, <1>5, <1>9, AllocSkips
  <2>2. /\ allocated' = allocated /\ addr' = addr /\ regions' = regions /\ size_map' = size_map
    BY <2>1 DEF planner
  <2>3. Masked' = Masked  BY <2>2 DEF Masked
  <2> QED  BY <1>7, <1>8, <1>9, <2>2, <2>3
<1>10. CASE ~ allocated[v] /\ map[y].local
  <2>1. AllocDoes(y, v, c, n)  BY <1>1, <1>4, <1>5, <1>10, AllocActs
  <2>2. v \in Tensors /\ allocated' = [allocated EXCEPT ![v] = TRUE]  BY <2>1 DEF AllocDoes
  <2>3. allocated \in [Tensors -> BOOLEAN] /\ addr \in [Tensors -> Nat \cup {NullPtr}]
    BY <1>1 DEF Data
  <2>4. CASE n = 0
    <3>1. addr' = [addr EXCEPT ![v] = NullPtr] /\ UNCHANGED <<regions, size_map>>
      BY <2>1, <2>4 DEF AllocDoes
    <3>2. Masked' = [Masked EXCEPT ![v] = NullPtr]  BY <2>2, <2>3, <3>1, MaskedChange
    <3>3. regions' = regions /\ size_map' = size_map  BY <3>1
    <3> QED  BY <1>7, <1>8, <1>10, <2>2, <2>4, <3>2, <3>3
  <2>5. CASE n # 0
    <3>1. p = StartOf(c, n) /\ i = FitOf(c, n)  BY <1>6 DEF StartOf, FitOf
    <3>2. PICK R, Z : R = regions'[c] /\ Z = size_map'[c]  OBVIOUS
    <3>3. /\ addr' = [addr EXCEPT ![v] = p]
          /\ size_map' = [size_map EXCEPT ![c] = Z] /\ regions' = [regions EXCEPT ![c] = R]
          /\ Z = [q \in DOMAIN size_map[c] \cup {p} |-> IF q = p THEN Ceil(n) ELSE size_map[c][q]]
          /\ R = TakeFrom(regions[c], i, Ceil(n))
      BY <2>1, <2>5, <3>1, <3>2 DEF AllocDoes
    <3>4. Masked' = [Masked EXCEPT ![v] = p]  BY <2>2, <2>3, <3>3, MaskedChange
    <3> QED  BY <1>7, <1>8, <1>10, <2>2, <2>5, <3>3, <3>4
  <2> QED  BY <2>4, <2>5
<1>11. allocated \in [Tensors -> BOOLEAN]  BY <1>1 DEF Data
<1> QED  BY <1>9, <1>10

\* The other steps of a node but for those that free a block.
LEMMA PlainReplays ==
  ASSUME Known, OutputsDone \/ Measure \/ CallKernel \/ NextNode
  PROVE  Cur' = Succ(graph, Cur)
<1>1. /\ allocated' = allocated /\ addr' = addr /\ regions' = regions /\ size_map' = size_map
      /\ change' = change /\ map' = map
  BY DEF OutputsDone, Measure, CallKernel, NextNode, planner
<1>2. Masked' = Masked  BY <1>1 DEF Masked
<1>3. Cur' = State(pc', node', arg', change, map, allocated, Masked, regions, size_map)
  BY <1>1, <1>2 DEF Cur, State
<1>4. CASE OutputsDone
  <2>1. /\ pc = "alloc" /\ pc' = "call" /\ node' = node /\ arg' = 1
        /\ arg > Len(graph.nodes[node].outputs)
    BY <1>4 DEF OutputsDone, Outs, Nodes
  <2>2. Succ(graph, Cur) = AllocSucc(graph, Cur)  BY <2>1, CurFields DEF Succ
  <2>3. AllocSucc(graph, Cur) = State("call", node, 1, change, map, allocated, Masked, regions, size_map)
    BY <2>1, CurFields, Zenon DEF AllocSucc
  <2> QED  BY <1>3, <2>1, <2>2, <2>3
<1>5. CASE Measure \/ CallKernel
  <2>1. pc = "call" /\ pc' = "free" /\ node' = node /\ arg' = arg  BY <1>5 DEF Measure, CallKernel
  <2>2. Succ(graph, Cur) = CallSucc(Cur)  BY <2>1, CurFields DEF Succ
  <2>3. CallSucc(Cur) = State("free", node, arg, change, map, allocated, Masked, regions, size_map)
    BY CurFields DEF CallSucc
  <2> QED  BY <1>3, <2>1, <2>2, <2>3
<1>6. CASE NextNode
  <2>1. /\ pc = "free" /\ arg' = 1 /\ arg > Len(graph.nodes[node].inputs)
        /\ IF node < Len(graph.nodes) THEN node' = node + 1 /\ pc' = "alloc"
                                      ELSE pc' = "done" /\ node' = node
    BY <1>6 DEF NextNode, Ins, Nodes
  <2>2. Succ(graph, Cur) = FreeSucc(graph, Cur)  BY <2>1, CurFields DEF Succ
  <2>3. FreeSucc(graph, Cur) =
          IF node < Len(graph.nodes)
          THEN State("alloc", node + 1, 1, change, map, allocated, Masked, regions, size_map)
          ELSE State("done", node, 1, change, map, allocated, Masked, regions, size_map)
    BY <2>1, CurFields, Zenon DEF FreeSucc
  <2>4. CASE node < Len(graph.nodes)  BY <1>3, <2>1, <2>2, <2>3, <2>4
  <2>5. CASE ~ (node < Len(graph.nodes))  BY <1>3, <2>1, <2>2, <2>3, <2>5
  <2> QED  BY <2>4, <2>5
<1> QED  BY <1>4, <1>5, <1>6

\* The last use of an input.
LEMMA FreeReplays ==
  ASSUME Plain, Known, FreeInput
  PROVE  Cur' = Succ(graph, Cur)
<1>1. /\ Control /\ Data /\ BusyAllocated /\ pc = "free" /\ pc' = "free" /\ node' = node
      /\ arg' = arg + 1 /\ change' = change /\ arg <= Len(graph.nodes[node].inputs)
  BY Zenon DEF Known, FreeInput, Ins, Nodes
<1>2. arg \in Nat /\ Len(graph.nodes[node].inputs) \in Nat
  <2>1. graph \in Graphs /\ node \in DOMAIN Nodes /\ arg \in Nat  BY <1>1 DEF Control
  <2>2. Ins(node) \in Seq(Tensors)  BY <2>1, NodeFacts
  <2> QED  BY <2>1, <2>2 DEF Ins, Nodes
<1>3. ~ (arg > Len(graph.nodes[node].inputs))  BY <1>1, <1>2
<1>4. PICK x, v, c, p : /\ x = graph.nodes[node].inputs[arg] /\ v = map[x].var
                        /\ c = graph.device[x] /\ p = Masked[v]
  OBVIOUS
<1>5. x = Ins(node)[arg] /\ x \in Tensors
  <2>1. x = Ins(node)[arg]  BY <1>4 DEF Ins, Nodes
  <2> QED  BY <1>1, <2>1, FreeLeft
<1>6. map' = [map EXCEPT ![x].usage = @ - 1]  BY <1>5 DEF FreeInput
<1>7. Succ(graph, Cur) =
        IF ~ LastUse(x)
        THEN State("free", node, arg + 1, change, map', allocated, Masked, regions, size_map)
        ELSE State("free", node, arg + 1, change, map', [allocated EXCEPT ![v] = FALSE],
                   [Masked EXCEPT ![v] = NullPtr],
                   IF p = NullPtr THEN regions
                   ELSE [regions EXCEPT ![c] = GiveBack(regions[c], p, size_map[c][p])],
                   size_map)
  <2>1. Succ(graph, Cur) = FreeSucc(graph, Cur)  BY <1>1, CurFields DEF Succ
  <2> QED  BY <1>3, <1>4, <1>6, <2>1, CurFields, Zenon DEF FreeSucc, LastUse
<1>8. Cur' = State("free", node, arg + 1, change, map', allocated', Masked', regions', size_map')
  BY <1>1 DEF Cur, State
<1>9. CASE ~ LastUse(x)
  <2>1. UNCHANGED planner  BY <1>5, <1>9 DEF FreeInput
  <2>2. allocated' = allocated /\ addr' = addr /\ regions' = regions /\ size_map' = size_map
    BY <2>1 DEF planner
  <2>3. Masked' = Masked  BY <2>2 DEF Masked
  <2> QED  BY <1>7, <1>8, <1>9, <2>2, <2>3
<1>10. CASE LastUse(x)
  <2>1. allocated \in [Tensors -> BOOLEAN] /\ addr \in [Tensors -> Nat \cup {NullPtr}]
        /\ v \in Tensors
    BY <1>1, <1>4, <1>5 DEF Data
  <2>2. allocated[v]  BY <1>1, <1>4, <1>5, <1>10, FreedIsAllocated
  <2>3. p = addr[v]  BY <1>4, <2>1, <2>2 DEF Masked
  <2>4. /\ allocated' = [allocated EXCEPT ![v] = FALSE] /\ addr' = addr /\ size_map' = size_map
        /\ regions' = IF p = NullPtr THEN regions
                      ELSE [regions EXCEPT ![c] = GiveBack(regions[c], p, size_map[c][p])]
    <3>1. /\ allocated' = [allocated EXCEPT ![v] = FALSE]
          /\ regions' = IF p = NullPtr THEN regions
                        ELSE [regions EXCEPT ![c] = GiveBack(@, p, size_map[c][p])]
          /\ UNCHANGED <<addr, size_map>>
      BY <1>4, <1>5, <1>10, <2>3 DEF FreeInput
    <3> QED  BY <3>1
  <2>5. addr' = [addr EXCEPT ![v] = p]  BY <2>1, <2>3, <2>4
  <2>6. Masked' = [Masked EXCEPT ![v] = NullPtr]  BY <2>1, <2>4, <2>5, MaskedChange
  <2> QED  BY <1>7, <1>8, <1>10, <2>4, <2>6
<1> QED  BY <1>9, <1>10

\* A run depends on nothing else: each state follows from the one before.
LEMMA StepReplays ==
  ASSUME Plain, Known, PlannerInv, Step
  PROVE  pc # "done" /\ Cur' = Succ(graph, Cur)
<1>1. pc # "done"
  BY Zenon DEF Step, ShareNode, AllocOutput, OutputsDone, Measure, CallKernel, FreeInput, NextNode
<1> QED  BY <1>1, ShareReplays, AllocReplays, PlainReplays, FreeReplays DEF Step

-----------------------------------------------------------------------------
(***************************************************************************)
(* What the measurement has seen of the run.                               *)
(***************************************************************************)

\* While the run of S that is measured is at state s, s is the last of S.
AtEnd(s) == mode = "measure" /\ s = Cur

\* A number that the measurement has seen, or is about to see.
Seen(s, d) ==
  \/ Used(s.regions[d]) <= workspace[d]
  \/ /\ mode = "measure" /\ pc \in {"alloc", "call"}
     /\ Used(s.regions[d]) <= Used(regions[d])

\* S has the states of the run that is measured, up to the one it is at; those of a
\* launch are among them.
Run(S) ==
  /\ Start(graph) \in S /\ Cur \in S
  /\ \A s \in S : AtEnd(s) \/ s.pc = "done" \/ Succ(graph, s) \in S
  /\ \A s \in S : \A d \in Devices : Used(s.regions[d]) \in Nat /\ Seen(s, d)

Replay == \E S : Run(S)

\* What is used is a number of bytes.
LEMMA UsedNat ==
  ASSUME PlannerInv, NEW d \in Devices
  PROVE  Used(regions[d]) \in Nat
  BY PlannerFacts, UsedIsLeast DEF DevFacts

\* The measurement starts having seen its first state.
LEMMA ReplayInit ==
  ASSUME Init
  PROVE  Replay
<1>1. mode = "measure" /\ pc = "share" /\ workspace = [d \in Devices |-> 0]
  BY DEF Init
<1>2. Cur = Start(graph)
  <2>1. Masked = [v \in Tensors |-> NullPtr]  BY DEF Init, Masked
  <2> QED  BY <2>1 DEF Init, Cur, Start
<1>3. ASSUME NEW d \in Devices PROVE Used(Cur.regions[d]) = 0
  <2>1. Cur.regions = NewLists  BY CurFields DEF Init
  <2> QED  BY <2>1, UsedOfEmpty DEF NewLists
<1>4. PICK S : S = {Cur}  OBVIOUS
<1>5. Run(S)  BY <1>1, <1>2, <1>3, <1>4 DEF Run, AtEnd, Seen
<1> QED  BY <1>5 DEF Replay

\* How a step may change the use of memory on device d.
Uses(d) ==
  \/ Used(regions'[d]) = Used(regions[d])
  \/ pc = "alloc" /\ pc' = "alloc" /\ Used(regions[d]) <= Used(regions'[d])
  \/ pc \notin {"alloc", "call"} /\ Used(regions'[d]) <= Used(regions[d])

\* Only allocation uses more.
LEMMA StepUses ==
  ASSUME Plain, Known, PlannerInv, Step, NEW d \in Devices
  PROVE  Uses(d)
<1>1. CASE ShareNode \/ OutputsDone \/ Measure \/ CallKernel \/ NextNode
  <2>1. regions' = regions
    BY <1>1 DEF ShareNode, OutputsDone, Measure, CallKernel, NextNode, planner
  <2> QED  BY <2>1 DEF Uses
<1>2. CASE AllocOutput
  <2>1. pc = "alloc" /\ pc' = "alloc"  BY <1>2 DEF AllocOutput
  <2>2. DevGrow(d)  BY <1>2, <2>1, AllocLegal DEF Known
  <2>3. CASE regions'[d] = regions[d]  BY <2>3 DEF Uses
  <2>4. CASE \E v \in Tensors, n \in AllSizes \ {0} : DevAlloc(d, v, n)
    <3>1. Used(regions[d]) <= Used(regions'[d])  BY <2>4, AllocUses
    <3> QED  BY <2>1, <3>1 DEF Uses
  <2> QED  BY <2>2, <2>3, <2>4 DEF DevGrow, DevSame, DevEmpty
<1>3. CASE FreeInput
  <2>1. pc = "free"  BY <1>3 DEF FreeInput
  <2>2. DevShrink(d)  BY <1>3, <2>1, FreeLegal DEF Known
  <2>3. CASE regions'[d] = regions[d]  BY <2>3 DEF Uses
  <2>4. CASE \E v \in Tensors : DevFree(d, v)
    <3>1. Used(regions'[d]) <= Used(regions[d])  BY <2>4, FreeUses
    <3> QED  BY <2>1, <3>1 DEF Uses
  <2> QED  BY <2>2, <2>3, <2>4 DEF DevShrink, DevSame, DevEmpty
<1> QED  BY <1>1, <1>2, <1>3 DEF Step

\* What was seen stays seen, and so is what the step leads to.
LEMMA StepSeen ==
  ASSUME Plain, Known, PlannerInv, PlannerInv', Step, NEW d \in Devices,
         NEW u \in Nat, mode = "measure",
         \/ u <= workspace[d]
         \/ pc \in {"alloc", "call"} /\ u <= Used(regions[d])
  PROVE  \/ u <= workspace'[d]
         \/ pc' \in {"alloc", "call"} /\ u <= Used(regions'[d])
<1>1. Used(regions[d]) \in Nat  BY UsedNat
<1>2. Used(regions'[d]) \in Nat
  <2>1. regions'[d] \in Seq(Region) /\ WellFormed(regions'[d])  BY PlannerFactsNext DEF DevFacts
  <2> QED  BY <2>1, UsedIsLeast
<1>3. workspace[d] \in Nat  BY DEF Known, Data
<1>4. CASE Measure
  <2>1. workspace'[d] = Max2(workspace[d], Used(regions[d]))  BY <1>4 DEF Measure
  <2> QED  BY <1>1, <1>3, <2>1 DEF Max2
<1>5. CASE ShareNode \/ OutputsDone \/ CallKernel \/ NextNode \/ AllocOutput \/ FreeInput
  <2>1. /\ workspace' = workspace
        /\ pc \in {"alloc", "call"} => pc' \in {"alloc", "call"}
    BY <1>5, Zenon DEF ShareNode, OutputsDone, CallKernel, NextNode, AllocOutput, FreeInput
  <2>2. CASE u <= workspace[d]  BY <2>1, <2>2
  <2>3. CASE pc \in {"alloc", "call"} /\ u <= Used(regions[d])
    <3>1. Used(regions[d]) <= Used(regions'[d])  BY <1>1, <2>3, StepUses DEF Uses
    <3> QED  BY <1>1, <1>2, <2>1, <2>3, <3>1
  <2> QED  BY <2>2, <2>3
<1> QED  BY <1>4, <1>5 DEF Step

-----------------------------------------------------------------------------
(***************************************************************************)
(* A launch goes through the run that was measured.                        *)
(***************************************************************************)

\* In a launch what is used was measured.
LEMMA LaunchSeen ==
  ASSUME mode = "launch", NEW S, Run(S), NEW d \in Devices
  PROVE  Used(regions[d]) <= workspace[d]
<1>1. Cur \in S /\ Seen(Cur, d)  BY DEF Run
<1>2. Cur.regions = regions  BY CurFields
<1> QED  BY <1>1, <1>2 DEF Seen

\* A step of the measurement is one more state of the run.
LEMMA MeasureReplay ==
  ASSUME Plain, Known, PlannerInv, PlannerInv', Step, Replay, mode = "measure"
  PROVE  Replay'
<1>1. graph' = graph /\ mode' = "measure"
  BY QuietGraph, Zenon DEF Step, ShareNode, AllocOutput, OutputsDone, Measure, CallKernel,
       FreeInput, NextNode
<1>2. pc # "done" /\ Cur' = Succ(graph, Cur)  BY StepReplays
<1>3. PICK S : Run(S)  BY DEF Replay
<1>4. PICK c, n, T : c = Cur /\ n = Cur' /\ T = S \cup {n}  OBVIOUS
<1>5. /\ Start(graph) \in S /\ c \in S
      /\ \A s \in S : s = c \/ s.pc = "done" \/ Succ(graph, s) \in S
      /\ \A s \in S : \A d \in Devices : Used(s.regions[d]) \in Nat /\ Seen(s, d)
  BY <1>3, <1>4 DEF Run, AtEnd
<1>6. ASSUME NEW s \in T PROVE s = n \/ s.pc = "done" \/ Succ(graph, s) \in T
  BY <1>2, <1>4, <1>5
<1>7. ASSUME NEW d \in Devices
      PROVE  Used(n.regions[d]) = Used(regions'[d]) /\ Used(regions'[d]) \in Nat
  <2>1. n.regions = regions'  BY <1>4 DEF Cur, State
  <2>2. regions'[d] \in Seq(Region) /\ WellFormed(regions'[d])  BY PlannerFactsNext DEF DevFacts
  <2> QED  BY <2>1, <2>2, UsedIsLeast
<1>8. ASSUME NEW s \in S, NEW d \in Devices
      PROVE  \/ Used(s.regions[d]) <= workspace'[d]
             \/ pc' \in {"alloc", "call"} /\ Used(s.regions[d]) <= Used(regions'[d])
  <2>1. Used(s.regions[d]) \in Nat /\ Seen(s, d)  BY <1>5
  <2>2. PICK u \in Nat : u = Used(s.regions[d])  BY <2>1
  <2>3. \/ u <= workspace[d]
        \/ pc \in {"alloc", "call"} /\ u <= Used(regions[d])
    BY <2>1, <2>2 DEF Seen
  <2> QED  BY <2>2, <2>3, StepSeen
<1>9. ASSUME NEW d \in Devices
      PROVE  \/ Used(n.regions[d]) <= workspace'[d]
             \/ pc' \in {"alloc", "call"} /\ Used(n.regions[d]) <= Used(regions'[d])
  <2>1. CASE pc' \in {"alloc", "call"}  BY <1>7, <2>1
  <2>2. CASE pc' \notin {"alloc", "call"}
    <3>1. Cur \in S /\ Used(Cur.regions[d]) = Used(regions[d])  BY <1>4, <1>5, CurFields
    <3>2. Used(regions[d]) <= workspace'[d]  BY <1>8, <2>2, <3>1
    <3>3. Used(regions[d]) \in Nat  BY UsedNat
    <3>4. Used(regions'[d]) <= Used(regions[d])
      <4>1. Uses(d)  BY StepUses
      <4> QED  BY <2>2, <3>3, <4>1 DEF Uses
    <3>5. workspace'[d] \in Nat
      <4>1. Known'  BY PlanSteps DEF Next
      <4> QED  BY <4>1 DEF Known, Data
    <3> QED  BY <1>7, <3>2, <3>3, <3>4, <3>5
  <2> QED  BY <2>1, <2>2
<1>10. Run(T)'
  <2>1. (Start(graph) \in T)' /\ (Cur \in T)'  BY <1>1, <1>4, <1>5
  <2>2. \A s \in T : AtEnd(s)' \/ s.pc = "done" \/ Succ(graph, s)' \in T
    BY <1>1, <1>4, <1>6 DEF AtEnd
  <2>3. \A s \in T : \A d \in Devices : Used(s.regions[d]) \in Nat /\ Seen(s, d)'
    BY <1>1, <1>4, <1>5, <1>7, <1>8, <1>9 DEF Seen
  <2> QED  BY <2>1, <2>2, <2>3 DEF Run
<1> QED  BY <1>10 DEF Replay

\* A step of a launch stays in the run that was measured.
LEMMA LaunchReplay ==
  ASSUME Plain, Known, PlannerInv, Step, Replay, mode = "launch"
  PROVE  Replay'
<1>1. graph' = graph /\ mode' = "launch" /\ workspace' = workspace
  BY QuietGraph, Zenon DEF Step, ShareNode, AllocOutput, OutputsDone, Measure, CallKernel,
       FreeInput, NextNode
<1>2. pc # "done" /\ Cur' = Succ(graph, Cur)  BY StepReplays
<1>3. PICK S : Run(S)  BY DEF Replay
<1>4. /\ Start(graph) \in S /\ Cur \in S
      /\ \A s \in S : s.pc = "done" \/ Succ(graph, s) \in S
      /\ \A s \in S : \A d \in Devices : Used(s.regions[d]) \in Nat /\ Used(s.regions[d]) <= workspace[d]
  BY <1>1, <1>3 DEF Run, AtEnd, Seen
<1>5. Cur' \in S
  <2>1. Cur.pc = pc  BY CurFields
  <2> QED  BY <1>2, <1>4, <2>1
<1>6. Run(S)'  BY <1>1, <1>4, <1>5 DEF Run, AtEnd, Seen
<1> QED  BY <1>6 DEF Replay

\* A launch starts where the measurement did.
LEMMA LaunchAgain ==
  ASSUME Known, Launch, Replay
  PROVE  Replay'
<1>1. /\ graph' = graph /\ mode' = "launch" /\ workspace' = workspace /\ pc = "done"
      /\ arg = 1 /\ change = FALSE
  BY DEF Launch, Known, Control
<1>2. Cur' = Start(graph)
  <2>1. /\ pc' = "share" /\ node' = 1 /\ map' = InitMap(graph) /\ arg' = 1 /\ change' = FALSE
        /\ allocated' = [v \in Tensors |-> FALSE]
        /\ regions' = NewLists /\ size_map' = NoSizes
    BY <1>1 DEF Launch
  <2>2. Masked' = [v \in Tensors |-> NullPtr]  BY <2>1 DEF Masked
  <2> QED  BY <2>1, <2>2 DEF Cur, Start
<1>3. PICK S : Run(S)  BY DEF Replay
<1>4. Cur.pc = "done"  BY <1>1, CurFields
<1>5. /\ Start(graph) \in S
      /\ \A s \in S : s.pc = "done" \/ Succ(graph, s) \in S
      /\ \A s \in S : \A d \in Devices : Used(s.regions[d]) \in Nat /\ Used(s.regions[d]) <= workspace[d]
  BY <1>1, <1>3, <1>4 DEF Run, AtEnd, Seen
<1>6. Run(S)'  BY <1>1, <1>2, <1>5 DEF Run, AtEnd, Seen
<1> QED  BY <1>6 DEF Replay

LEMMA ReplayStutters ==
  ASSUME UNCHANGED vars, Replay
  PROVE  Replay'
<1>1. /\ graph' = graph /\ mode' = mode /\ pc' = pc /\ node' = node /\ arg' = arg /\ change' = change
      /\ map' = map /\ allocated' = allocated /\ addr' = addr /\ regions' = regions
      /\ size_map' = size_map /\ workspace' = workspace
  BY DEF vars, control, planner
<1>2. Cur' = Cur  BY <1>1 DEF Cur, Masked
<1>3. PICK S : Run(S)  BY DEF Replay
<1>4. Run(S)'  BY <1>1, <1>2, <1>3 DEF Run, AtEnd, Seen
<1> QED  BY <1>4 DEF Replay

\* The inductive invariant, with the run that was measured.
RunInv == Plain => Known /\ PlannerInv /\ Replay

\* Every step preserves it: the measurement extends the run, a launch repeats it.
LEMMA RunStep == RunInv /\ [Next]_vars => RunInv'
<1> SUFFICES ASSUME RunInv, [Next]_vars, Plain' PROVE Known' /\ PlannerInv' /\ Replay'
  BY DEF RunInv
<1>1. graph' = graph  BY NextGraph DEF vars
<1>2. Plain /\ Known /\ PlannerInv /\ Replay
  <2>1. Plain' = Plain  BY <1>1, GraphStays
  <2> QED  BY <2>1 DEF RunInv
<1>3. Known' /\ PlannerInv'  BY <1>2, PlanSteps, StutterKeeps
<1>4. mode = "measure" \/ mode = "launch"  BY <1>2 DEF Known, Control
<1>5. CASE Step  BY <1>2, <1>3, <1>4, <1>5, MeasureReplay, LaunchReplay
<1>6. CASE Launch  BY <1>2, <1>3, <1>6, LaunchAgain
<1>7. CASE UNCHANGED vars  BY <1>2, <1>3, <1>7, ReplayStutters
<1> QED  BY <1>3, <1>5, <1>6, <1>7 DEF Next

\* In every state of a run of a graph whose views are apart, all of this is so.
THEOREM RunInvariant == Spec => []RunInv
<1>1. Init => RunInv  BY PlanInit, ReplayInit DEF PlanInv, RunInv
<1> QED  BY <1>1, RunStep, PTL DEF Spec

LEMMA WorkspaceFits == RunInv => (ViewsApart(graph) => FitsWorkspace)
<1> SUFFICES ASSUME Known, PlannerInv, Replay, mode = "launch",
                    NEW d \in Devices, NEW v \in Held(d)
             PROVE  EndOf(v) <= workspace[d]
  BY DEF RunInv, Plain, FitsWorkspace
<1>1. Used(regions[d]) <= workspace[d]  BY LaunchSeen DEF Replay
<1>2. v \in Tensors /\ allocated[v] /\ graph.device[v] = d /\ addr[v] # NullPtr  BY DEF Held
<1>3. PICK p, n : p = addr[v] /\ n = size_map[d][p]  OBVIOUS
<1>4. p \in Nat /\ Pointers(d)[v] = p  BY <1>2, <1>3 DEF Known, Data, Pointers
<1>5. n \in Nat \ {0} /\ \A a \in p .. (PtrEnd(d, v) - 1) : ~ IsFree(regions[d], a)
  BY <1>2, <1>3, <1>4, PlannerFacts DEF DevFacts
<1>6. PtrEnd(d, v) = p + n /\ EndOf(v) = p + n  BY <1>2, <1>3, <1>4 DEF PtrEnd, EndOf
<1>7. ~ IsFree(regions[d], p + n - 1) /\ p + n - 1 \in Nat  BY <1>4, <1>5, <1>6
<1>8. Used(regions[d]) \in Nat /\ ~ (p + n - 1 >= Used(regions[d]))
  BY <1>7, PlannerFacts, UsedIsLeast DEF DevFacts
<1>9. workspace[d] \in Nat  BY DEF Known, Data
<1> QED  BY <1>1, <1>4, <1>5, <1>6, <1>8, <1>9

\* The workspace that get_workspace_size returns has room for every block of every launch.
THEOREM WorkspaceIsEnough == Spec => [](ViewsApart(graph) => FitsWorkspace)
  BY RunInvariant, WorkspaceFits, PTL

=============================================================================
