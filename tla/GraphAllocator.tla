--------------------------- MODULE GraphAllocator ---------------------------
(***************************************************************************)
(* ggml-alloc: ggml_gallocr with one buffer.  ggml_gallocr_alloc_graph      *)
(* gives every tensor of a graph a place in a buffer, where tensors whose   *)
(* lifetimes do not meet share memory and an operation may overwrite its    *)
(* last-used source.  A graph with as many nodes and leafs as the last, and *)
(* none larger, takes over its places.                                      *)
(*                                                                          *)
(* Tensors that live elsewhere (the weights, the KV cache) have no part in  *)
(* this and are left out of the graphs, and leafs are the inputs.  A graph  *)
(* is computed here node by node on a memory that remembers which tensor    *)
(* wrote each unit.  Sizes are in units of the alignment; equal sizes stand *)
(* for equal layouts.                                                       *)
(***************************************************************************)
EXTENDS Naturals, Sequences, FiniteSets

CONSTANTS Arena,    \* SIZE_MAX/2
          MaxSize,  \* the largest tensor
          Calls,    \* how many graphs the caller allocates
          FirstGraphs,     \* the graphs it may begin to build
          NodesAfter(_),   \* the nodes it may add to a graph
          GraphsAfter(_, _) \* the graphs it may build after a call with a graph

(* graph.leafs: the sizes of its leafs, tensors 1, 2, ...                   *)
(* graph.nodes: then its nodes, in the order they are computed.  op is      *)
(* "inplace" if ggml_op_can_inplace, "view" or "other"; src are tensors,    *)
(* view the view_src of a view, output GGML_TENSOR_FLAG_OUTPUT.             *)

GGML_MAX_SRC == 10

Node  == [op : {"inplace", "view", "other"}, src : Seq(Nat), size : 1..MaxSize,
          view : Nat, output : BOOLEAN]
Graph == [leafs : Seq(1..MaxSize), nodes : Seq(Node)]

(* A node comes after its sources.  A view is of a tensor that has memory   *)
(* of its own, and lies within it.  Outputs are no views.                   *)
ViewFits(g, n, before) ==
  /\ n.view \in 1..before /\ ~n.output
  /\ IF n.view <= Len(g.leafs) THEN n.size <= g.leafs[n.view]
     ELSE LET root == g.nodes[n.view - Len(g.leafs)]
          IN root.op # "view" /\ n.size <= root.size
WellFormed(g) ==
  /\ g \in Graph
  /\ \A i \in DOMAIN g.nodes :
       LET n == g.nodes[i]
           before == Len(g.leafs) + i - 1
       IN /\ Len(n.src) <= GGML_MAX_SRC
          /\ \A j \in DOMAIN n.src : n.src[j] \in 1..before
          /\ n.op = "view" => ViewFits(g, n, before)

(* The same operations on the same tensors, of whatever sizes.              *)
SameShape(g, h) ==
  /\ Len(g.leafs) = Len(h.leafs) /\ Len(g.nodes) = Len(h.nodes)
  /\ \A i \in DOMAIN g.nodes : [g.nodes[i] EXCEPT !.size = h.nodes[i].size] = h.nodes[i]

ASSUME AllocatorConstants ==
  /\ Arena \in Nat \ {0} /\ MaxSize \in Nat /\ Calls \in Nat
  /\ \A g \in FirstGraphs : WellFormed(g)

VARIABLES
  graph,      \* the graph the caller builds, then allocates and computes
  call,       \* how many graphs it has allocated
  pc, node, parent, \* where in alloc_graph, or computing the graph, it is
  nChildren, nViews, offset, allocated, \* hash_values, per tensor
  free, maxSize,    \* buf_tallocs[0], see DynTallocr
  allocs,     \* node_allocs and leaf_allocs of the last reserve
  bufferSize, \* ggml_backend_buffer_get_size(buffers[0])
  data,       \* per tensor: data, as an offset into the buffer
  memory      \* per unit of the buffer: the tensor written there, or 0

hash    == <<nChildren, nViews, offset, allocated>>
tallocr == <<free, maxSize>>
buffer  == <<allocs, bufferSize, data>>
vars == <<graph, call, pc, node, parent, hash, tallocr, buffer, memory>>

NLeafs   == Len(graph.leafs)
NNodes   == Len(graph.nodes)
Tensors  == 1..NLeafs + NNodes
NodeOf(t) == graph.nodes[t - NLeafs]
IsLeaf(t) == t <= NLeafs
IsView(t) == ~IsLeaf(t) /\ NodeOf(t).op = "view"
IsOutput(t) == ~IsLeaf(t) /\ NodeOf(t).output
Src(t)   == IF IsLeaf(t) THEN <<>> ELSE NodeOf(t).src
ViewSrc(t) == NodeOf(t).view
Size(t)  == IF IsLeaf(t) THEN graph.leafs[t] ELSE NodeOf(t).size

(* What the tensors that own their memory occupy.  The tensor allocator     *)
(* counts as reset while no graph is measured.                              *)
Measuring  == pc \in {"leaf", "node", "parents"}
BlockOf(t) == [offset |-> offset[t], size |-> Size(t)]
Live       == {BlockOf(t) : t \in {u \in Tensors : allocated[u]}}
DT == INSTANCE DynTallocr WITH
  Sizes   <- 1..MaxSize,
  free    <- IF Measuring THEN free ELSE {[offset |-> 0, size |-> Arena]},
  maxSize <- IF Measuring THEN maxSize ELSE 0,
  live    <- IF Measuring THEN Live ELSE {}

Init ==
  /\ graph \in FirstGraphs
  /\ call = 0
  /\ pc = "build" /\ node = 0 /\ parent = 0
  /\ nChildren = <<>> /\ nViews = <<>> /\ offset = <<>> /\ allocated = <<>>
  /\ free = DT!Empty /\ maxSize = 0
  /\ allocs = [leafs |-> <<>>, nodes |-> <<>>]
  /\ bufferSize = 0
  /\ data = <<>>
  /\ memory = <<>>

-----------------------------------------------------------------------------
(* The caller builds its graph, node by node (ggml_build_forward_expand).   *)
BuildNode ==
  /\ pc = "build"
  /\ \E n \in NodesAfter(graph) :
       graph' = [graph EXCEPT !.nodes = Append(@, n)]
  /\ WellFormed(graph')
  /\ UNCHANGED <<call, pc, node, parent, hash, tallocr, buffer, memory>>

(* Leafs are in the graph as sources of its nodes; all nodes are used, or   *)
(* are outputs, or are the last.                                            *)
Used(t) ==
  \E i \in 1..NNodes :
    \E j \in DOMAIN graph.nodes[i].src : graph.nodes[i].src[j] = t
BuildDone ==
  /\ pc = "build" /\ NodesAfter(graph) = {}
  /\ \A t \in Tensors :
       Used(t) \/ (~IsLeaf(t) /\ (IsOutput(t) \/ t = NLeafs + NNodes))
  /\ pc' = "idle"
  /\ UNCHANGED <<graph, call, node, parent, hash, tallocr, buffer, memory>>

-----------------------------------------------------------------------------
(* ggml_gallocr_needs_realloc compares numbers and sizes.  A view or a      *)
(* missing source has stored the size 0.                                    *)
Enough(size, t) == IsView(t) \/ Size(t) <= size

NeedsRealloc == ~
  /\ NNodes = Len(allocs.nodes)
  /\ NLeafs = Len(allocs.leafs)
  /\ \A i \in 1..NNodes :
       /\ Enough(allocs.nodes[i].size, NLeafs + i)
       /\ \A j \in DOMAIN graph.nodes[i].src :
            Enough(IF j \in DOMAIN allocs.nodes[i].src
                   THEN allocs.nodes[i].src[j] ELSE 0, graph.nodes[i].src[j])

(* ggml_gallocr_init_tensor, for the leafs, then for every node.            *)
Places(stored) ==
  LET own(t) == IF IsLeaf(t) THEN stored.leafs[t]
                ELSE stored.nodes[t - NLeafs].offset
  IN [t \in Tensors |-> own(IF IsView(t) THEN ViewSrc(t) ELSE t)]

(* ggml_gallocr_alloc_graph, or the beginning of ggml_gallocr_reserve_n.    *)
AllocGraph ==
  /\ pc = "idle" /\ call < Calls
  /\ call' = call + 1
  /\ \/ /\ NeedsRealloc
        /\ pc' = "leaf" /\ node' = 1
        /\ nChildren' = [t \in Tensors |-> 0] /\ nViews' = [t \in Tensors |-> 0]
        /\ offset' = [t \in Tensors |-> 0]
        /\ allocated' = [t \in Tensors |-> FALSE]
        /\ free' = DT!Empty /\ maxSize' = 0
        /\ UNCHANGED data
     \/ /\ ~NeedsRealloc
        /\ pc' = "load"
        /\ data' = Places(allocs)
        /\ UNCHANGED <<node, hash, tallocr>>
  /\ UNCHANGED <<graph, parent, allocs, bufferSize, memory>>

-----------------------------------------------------------------------------
(* ggml_gallocr_allocate_node                                               *)

(* Fault: a source that is read again later gives its memory away.          *)
ReusableReadAgain(t, p) ==
  allocated[p] /\ ~IsOutput(p) /\ Size(p) = Size(t) /\ nViews[p] = 0

(* A source whose memory the node may take: allocated here, not an output,  *)
(* of the same layout, and read by nothing else.  A view owns no memory, so *)
(* that the code's branch for a view is never reached.                      *)
Reusable(t, p) ==
  /\ allocated[p]
  /\ ~IsOutput(p)
  /\ Size(p) = Size(t)
  /\ nChildren[p] = 1 /\ nViews[p] = 0

Donors(t) ==
  IF IsLeaf(t) \/ NodeOf(t).op # "inplace" THEN {}
  ELSE {j \in DOMAIN Src(t) : Reusable(t, Src(t)[j])}

(* Fault: the source goes on owning the memory it gave away.                *)
ReuseShared(t) ==
  /\ \E j \in Donors(t) :
       /\ offset' = [offset EXCEPT ![t] = offset[Src(t)[j]]]
       /\ allocated' = [allocated EXCEPT ![t] = TRUE]
  /\ UNCHANGED tallocr

(* The node takes over the memory of its first source that allows it.       *)
Reuse(t) ==
  /\ \E j \in Donors(t) :
       /\ \A k \in Donors(t) : j <= k
       /\ offset' = [offset EXCEPT ![t] = offset[Src(t)[j]]]
       /\ allocated' = [allocated EXCEPT ![Src(t)[j]] = FALSE, ![t] = TRUE]
  /\ UNCHANGED tallocr

(* A range that does not fit the last block aborts the program.             *)
AllocateNew(t) ==
  /\ Donors(t) = {}
  /\ \E b \in free :
       /\ DT!BestFit(free, Size(t), b) /\ b.size >= Size(t)
       /\ offset' = [offset EXCEPT ![t] = b.offset]
       /\ free' = DT!Cut(free, b, Size(t))
       /\ maxSize' = DT!Max2(maxSize, b.offset + Size(t))
  /\ allocated' = [allocated EXCEPT ![t] = TRUE]

AllocateNode(t) ==
  \/ /\ IsView(t)
     /\ UNCHANGED <<offset, allocated, tallocr>>
  \/ /\ ~IsView(t)
     /\ Reuse(t) \/ AllocateNew(t)

-----------------------------------------------------------------------------
(* ggml_gallocr_alloc_graph_impl                                            *)

AllocLeaf ==
  /\ pc = "leaf" /\ node <= NLeafs
  /\ AllocateNode(node)
  /\ node' = node + 1
  /\ UNCHANGED <<graph, call, pc, parent, nChildren, nViews, buffer, memory>>

(* Fault: a node that has t as two of its sources counts once.              *)
ChildrenOnce(t) ==
  Cardinality({i \in 1..NNodes :
    \E j \in DOMAIN graph.nodes[i].src : graph.nodes[i].src[j] = t})

(* How often the nodes have t as a source.                                  *)
Uses(t) ==
  {r \in (1..NNodes) \X (1..GGML_MAX_SRC) :
     r[2] \in DOMAIN graph.nodes[r[1]].src /\ graph.nodes[r[1]].src[r[2]] = t}
Children(t) == Cardinality(Uses(t))

ViewsOf(t) ==
  {i \in 1..NNodes : graph.nodes[i].op = "view" /\ graph.nodes[i].view = t}
Views(t) == Cardinality(ViewsOf(t))

CountChildren ==
  /\ pc = "leaf" /\ node > NLeafs
  /\ nChildren' = [t \in Tensors |-> Children(t)]
  /\ nViews' = [t \in Tensors |-> Views(t)]
  /\ pc' = "node"
  /\ UNCHANGED <<graph, call, node, parent, offset, allocated, tallocr, buffer,
                 memory>>

(* Its sources have been allocated before it.                               *)
AllocNode ==
  /\ pc = "node" /\ node \in Tensors
  /\ AllocateNode(node)
  /\ pc' = "parents" /\ parent' = 1
  /\ UNCHANGED <<graph, call, node, nChildren, nViews, buffer, memory>>

(* Fault: outputs are given back like any other node.                       *)
FreeNodeOutput(t) ==
  /\ free' = DT!Merge(free, BlockOf(t))
  /\ allocated' = [allocated EXCEPT ![t] = FALSE]

(* ggml_gallocr_free_node                                                   *)
FreeNode(t) ==
  IF IsOutput(t) THEN UNCHANGED <<free, allocated>>
  ELSE /\ free' = DT!Merge(free, BlockOf(t))
       /\ allocated' = [allocated EXCEPT ![t] = FALSE]

(* One child of p less: what is freed then is p, or what p is a view of.    *)
Freed(p) ==
  LET root == ViewSrc(p) IN
  IF nChildren[p] > 1 \/ nViews[p] > 0 THEN {}
  ELSE IF IsView(p)
       THEN {t \in {root} : nViews[t] = 1 /\ nChildren[t] = 0 /\ allocated[t]}
       ELSE {t \in {p} : allocated[t]}

DropChild(p) ==
  /\ nChildren' = [nChildren EXCEPT ![p] = @ - 1]
  /\ nViews' = IF IsView(p) /\ nChildren[p] = 1 /\ nViews[p] = 0
               THEN [nViews EXCEPT ![ViewSrc(p)] = @ - 1] ELSE nViews
  /\ IF Freed(p) = {} THEN UNCHANGED <<free, allocated>>
                      ELSE \A t \in Freed(p) : FreeNode(t)

UpdateParent ==
  /\ pc = "parents" /\ parent <= Len(Src(node))
  /\ DropChild(Src(node)[parent])
  /\ parent' = parent + 1
  /\ UNCHANGED <<graph, call, pc, node, offset, maxSize, buffer, memory>>

NextNode ==
  /\ pc = "parents" /\ parent > Len(Src(node))
  /\ pc' = "node" /\ node' = node + 1 /\ parent' = 0
  /\ UNCHANGED <<graph, call, hash, tallocr, buffer, memory>>

(* The rest of ggml_gallocr_reserve_n, and the places of this graph.        *)
SizeMax(t) == IF IsView(t) THEN 0 ELSE Size(t)
Stored ==
  [leafs |-> [i \in 1..NLeafs |-> offset[i]],
   nodes |-> [i \in 1..NNodes |->
     [offset |-> offset[NLeafs + i], size |-> SizeMax(NLeafs + i),
      src |-> [j \in DOMAIN graph.nodes[i].src |->
                 SizeMax(graph.nodes[i].src[j])]]]]

Reserve ==
  /\ pc = "node" /\ node \notin Tensors
  /\ allocs' = Stored
  /\ bufferSize' = DT!Max2(bufferSize, maxSize)
  /\ data' = Places(Stored)
  /\ pc' = "load" /\ node' = 0
  /\ UNCHANGED <<graph, call, parent, hash, tallocr, memory>>

-----------------------------------------------------------------------------
(* The caller fills the inputs and computes the graph.                      *)

Units(t) == data[t]..data[t] + Size(t) - 1
Owner(t) == IF IsView(t) THEN ViewSrc(t) ELSE t
Write(t) == [u \in DOMAIN memory |-> IF u \in Units(t) THEN t ELSE memory[u]]

SetInputs ==
  /\ pc = "load"
  /\ memory' = [u \in 0..bufferSize-1 |->
       LET here == {t \in 1..NLeafs : u \in Units(t)} IN
       IF here = {} THEN 0 ELSE CHOOSE t \in here : \A s \in here : s <= t]
  /\ pc' = "run" /\ node' = NLeafs + 1
  /\ UNCHANGED <<graph, call, parent, hash, tallocr, buffer>>

ComputeNode ==
  /\ pc = "run" /\ node \in Tensors
  /\ memory' = IF IsView(node) THEN memory ELSE Write(node)
  /\ node' = node + 1
  /\ UNCHANGED <<graph, call, pc, parent, hash, tallocr, buffer>>

ReadOutputs ==
  /\ pc = "run" /\ node \notin Tensors
  /\ pc' = "idle" /\ node' = 0
  /\ graph' \in GraphsAfter(call, graph)
  /\ WellFormed(graph') /\ SameShape(graph, graph')
  /\ nChildren' = <<>> /\ nViews' = <<>> /\ offset' = <<>> /\ allocated' = <<>>
  /\ data' = <<>> /\ memory' = <<>>
  /\ UNCHANGED <<call, parent, tallocr, allocs, bufferSize>>

Next ==
  \/ BuildNode \/ BuildDone
  \/ AllocGraph
  \/ AllocLeaf \/ CountChildren \/ AllocNode \/ UpdateParent \/ NextNode
  \/ Reserve
  \/ SetInputs \/ ComputeNode \/ ReadOutputs

Spec == Init /\ [][Next]_vars

-----------------------------------------------------------------------------
(* The counters of the hash table never go below zero, and every tensor of  *)
(* a graph that is computed lies inside the buffer.                         *)
TypeOK ==
  /\ call \in 0..Calls
  /\ pc \in {"build", "idle", "leaf", "node", "parents", "load", "run"}
  /\ \A t \in DOMAIN nChildren :
       /\ nChildren[t] \in Nat /\ nViews[t] \in Nat
       /\ offset[t] \in Nat /\ allocated[t] \in BOOLEAN
  /\ maxSize \in Nat /\ bufferSize \in Nat
  /\ pc = "run" => \A t \in Tensors : Units(t) \subseteq DOMAIN memory

(* A node finds its sources as they were computed, or set, in every unit:   *)
(* nothing that shares their memory has been written in between.            *)
Intact(t) == \A u \in Units(Owner(t)) : memory[u] = Owner(t)
ReadsIntact ==
  pc = "run" /\ node \in Tensors =>
    \A j \in DOMAIN Src(node) : Intact(Src(node)[j])

(* "output tensors are never freed and never overwritten" (ggml-alloc.h:47) *)
OutputsKept ==
  pc = "run" => \A t \in Tensors : IsOutput(t) /\ t < node => Intact(t)

(* The graph allocator uses the tensor allocator by its rules: it gives     *)
(* back what it was given, once.                                            *)
ImplementsTallocr == DT!Spec

=============================================================================
