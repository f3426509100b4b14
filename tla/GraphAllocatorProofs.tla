------------------------ MODULE GraphAllocatorProofs ------------------------
(***************************************************************************)
(* Proofs about GraphAllocator, for graphs of any shape and size: it uses   *)
(* the tensor allocator by its rules, what it gives a tensor stays the      *)
(* tensor's as long as someone will read it, and so every node reads what   *)
(* was written for it.                                                      *)
(***************************************************************************)
EXTENDS GraphAllocator, FiniteSetTheorems, TLAPS

P == INSTANCE DynTallocrProofs WITH
  Sizes   <- 1..MaxSize,
  free    <- IF Measuring THEN free ELSE {[offset |-> 0, size |-> Arena]},
  maxSize <- IF Measuring THEN maxSize ELSE 0,
  live    <- IF Measuring THEN Live ELSE {}

(* The node n reads the memory of o, through a view perhaps; that is still  *)
(* to come after m.                                                         *)
Reads(n, o) == \E j \in DOMAIN Src(n) : Owner(Src(n)[j]) = o
Keeps(o, m) == IsOutput(o) \/ \E n \in Tensors : n > m /\ Reads(n, o)

Owns(t)   == t \in Tensors /\ ~IsView(t)
LastDone  == IF pc = "parents" THEN node ELSE node - 1
Placed(t) == Owns(t) /\ t <= LastDone

-----------------------------------------------------------------------------
(* Where the walk over the graph is.                                        *)
WalkInv ==
  /\ pc = "leaf" => node \in 1..NLeafs + 1
  /\ pc = "node" => node \in NLeafs + 1..NLeafs + NNodes + 1
  /\ pc = "parents" => /\ node \in NLeafs + 1..NLeafs + NNodes
                       /\ parent \in 1..Len(Src(node)) + 1
  /\ Measuring => /\ offset \in [Tensors -> Nat]
                  /\ allocated \in [Tensors -> BOOLEAN]
                  /\ nChildren \in [Tensors -> Nat]
                  /\ nViews \in [Tensors -> Nat]

(* What has been allocated, and of that what may still be given back.  What *)
(* someone will read, or is an output, is.                                  *)
LifeInv ==
  Measuring =>
    /\ \A t \in Tensors : allocated[t] => Placed(t)
    /\ \A s, t \in Tensors :
         allocated[s] /\ allocated[t] /\ s # t => BlockOf(s) # BlockOf(t)
    /\ \A t \in Tensors : Placed(t) /\ (pc = "leaf" \/ Keeps(t, LastDone)) => allocated[t]

(* The places that have been given out: within the buffer, and apart from   *)
(* those given out before to tensors that are still read.                   *)
Apart(off, s, t) == off[s] + Size(s) <= off[t] \/ off[t] + Size(t) <= off[s]
PlaceInv ==
  Measuring =>
    /\ \A t \in Tensors : Placed(t) => offset[t] + Size(t) <= maxSize
    /\ \A s, t \in Tensors :
         Placed(s) /\ Placed(t) /\ s < t /\ (IsLeaf(t) \/ Keeps(s, t)) => Apart(offset, s, t)

(* The counters: how often a tensor will still be read, and how many of its *)
(* views have not been read for the last time.                              *)
ToCome(i, j) ==
  \/ NLeafs + i > node
  \/ NLeafs + i = node /\ (pc = "node" \/ j >= parent)
ReadsLeft(t) == {r \in Uses(t) : ToCome(r[1], r[2])}
Dead(v)      == nChildren[v] = 0 /\ Used(v)
ViewsLeft(t) == {i \in ViewsOf(t) : ~Dead(NLeafs + i)}
CountInv ==
  pc \in {"node", "parents"} =>
    \A t \in Tensors : /\ nChildren[t] = Cardinality(ReadsLeft(t))
                       /\ nViews[t] = Cardinality(ViewsLeft(t))

-----------------------------------------------------------------------------
(* Places that serve the graph with these sizes, in a buffer of "limit".    *)
Serve(off, size, limit) ==
  /\ \A t \in Tensors : Owns(t) => off[t] + size[t] <= limit
  /\ \A s, t \in Tensors :
       Owns(s) /\ Owns(t) /\ s < t /\ (IsLeaf(t) \/ Keeps(s, t)) =>
         off[s] + size[s] <= off[t] \/ off[t] + size[t] <= off[s]

(* The places stored are of a graph of this shape.                          *)
StoredOf(off, size) ==
  [leafs |-> [i \in 1..NLeafs |-> off[i]],
   nodes |-> [i \in 1..NNodes |->
     [offset |-> off[NLeafs + i],
      size |-> IF IsView(NLeafs + i) THEN 0 ELSE size[NLeafs + i],
      src |-> [j \in DOMAIN graph.nodes[i].src |->
                 IF IsView(graph.nodes[i].src[j]) THEN 0 ELSE size[graph.nodes[i].src[j]]]]]]
StoredInv ==
  \/ allocs = [leafs |-> <<>>, nodes |-> <<>>]
  \/ \E off \in [Tensors -> Nat], size \in [Tensors -> Nat] :
       allocs = StoredOf(off, size) /\ Serve(off, size, bufferSize)

LeafsUsed == pc # "build" => \A t \in 1..NLeafs : Used(t)
BuildInv  == pc = "build" => allocs = [leafs |-> <<>>, nodes |-> <<>>]

(* While the graph is computed.                                             *)
RunInv ==
  pc \in {"load", "run"} =>
    /\ data \in [Tensors -> Nat]
    /\ \A t \in Tensors : data[t] = data[Owner(t)]
    /\ Serve(data, [t \in Tensors |-> Size(t)], bufferSize)
MemoryInv ==
  pc = "run" =>
    /\ node \in NLeafs + 1..NLeafs + NNodes + 1
    /\ DOMAIN memory = 0..bufferSize - 1
    /\ \A t \in Tensors : Owns(t) /\ t < node /\ Keeps(t, node - 1) => Intact(t)

-----------------------------------------------------------------------------
LEMMA ElementFacts ==
  ASSUME NEW S, NEW s \in Seq(S)
  PROVE  /\ Len(s) \in Nat /\ DOMAIN s = 1..Len(s)
         /\ \A i \in 1..Len(s) : s[i] \in S
OBVIOUS

(* What a well-formed graph is made of.                                     *)
LEMMA NodeFacts ==
  ASSUME WellFormed(graph)
  PROVE  /\ NLeafs \in Nat /\ NNodes \in Nat
         /\ \A i \in 1..NNodes : /\ NLeafs + i \in Tensors /\ ~IsLeaf(NLeafs + i)
                                 /\ NodeOf(NLeafs + i) = graph.nodes[i]
                                 /\ graph.nodes[i] \in Node
         /\ \A t \in Tensors : IsLeaf(t) => t \in 1..NLeafs /\ graph.leafs[t] \in 1..MaxSize
         /\ \A t \in Tensors : ~IsLeaf(t) => /\ t - NLeafs \in 1..NNodes
                                            /\ NodeOf(t) = graph.nodes[t - NLeafs]
                                            /\ NodeOf(t) \in Node
<1>1. graph.leafs \in Seq(1..MaxSize) /\ graph.nodes \in Seq(Node)
  BY DEF WellFormed, Graph
<1>2. /\ NLeafs \in Nat /\ NNodes \in Nat
      /\ \A i \in 1..NNodes : graph.nodes[i] \in Node
      /\ \A i \in 1..NLeafs : graph.leafs[i] \in 1..MaxSize
  BY <1>1, ElementFacts DEF NLeafs, NNodes
<1>3. ASSUME NEW i \in 1..NNodes
      PROVE  /\ NLeafs + i \in Tensors /\ ~IsLeaf(NLeafs + i)
             /\ NodeOf(NLeafs + i) = graph.nodes[i]
  <2>1. NLeafs + i \in Nat /\ NLeafs + i > NLeafs /\ NLeafs + i - NLeafs = i
        /\ NLeafs + i <= NLeafs + NNodes /\ 1 <= NLeafs + i
    BY <1>2
  <2> QED
    BY <1>2, <2>1 DEF Tensors, IsLeaf, NodeOf
<1>4. ASSUME NEW t \in Tensors, IsLeaf(t)
      PROVE  t \in 1..NLeafs
  BY <1>2, <1>4 DEF Tensors, IsLeaf
<1>5. ASSUME NEW t \in Tensors, ~IsLeaf(t)
      PROVE  t - NLeafs \in 1..NNodes
  BY <1>2, <1>5 DEF Tensors, IsLeaf
<1> QED
  BY <1>2, <1>3, <1>4, <1>5 DEF NodeOf

LEMMA SourceFacts ==
  ASSUME WellFormed(graph), NEW t \in Tensors
  PROVE  /\ t \in Nat /\ Size(t) \in 1..MaxSize
         /\ Src(t) \in Seq(Nat) /\ Len(Src(t)) <= GGML_MAX_SRC
         /\ \A j \in DOMAIN Src(t) : Src(t)[j] \in Tensors /\ Src(t)[j] < t
         /\ IsLeaf(t) => DOMAIN Src(t) = {}
<1>1. t \in Nat
  BY NodeFacts DEF Tensors
<1>2. CASE IsLeaf(t)
  <2>1. Src(t) = <<>> /\ Size(t) = graph.leafs[t]
    BY <1>2 DEF Src, Size
  <2> QED
    BY <1>1, <1>2, <2>1, NodeFacts DEF GGML_MAX_SRC
<1>3. CASE ~IsLeaf(t)
  <2> DEFINE i == t - NLeafs
             n == graph.nodes[i]
  <2>1. i \in 1..NNodes /\ NodeOf(t) = n /\ n \in Node /\ i \in DOMAIN graph.nodes
    BY <1>3, NodeFacts DEF WellFormed, Graph, NNodes
  <2>2. Len(n.src) <= GGML_MAX_SRC /\ \A j \in DOMAIN n.src : n.src[j] \in 1..NLeafs + i - 1
    BY <2>1 DEF WellFormed, NLeafs
  <2>3. NLeafs + i - 1 = t - 1 /\ 1..t - 1 \subseteq Tensors
    BY <1>1, NodeFacts DEF Tensors
  <2>4. Src(t) = n.src /\ Size(t) = n.size
    BY <1>3, <2>1 DEF Src, Size
  <2>5. n.src \in Seq(Nat) /\ n.size \in 1..MaxSize
    BY <2>1 DEF Node
  <2> HIDE DEF n
  <2>6. \A j \in DOMAIN n.src : n.src[j] \in Tensors /\ n.src[j] < t
    BY <1>1, <2>2, <2>3
  <2> QED
    BY <1>1, <1>3, <2>2, <2>4, <2>5, <2>6
<1> QED
  BY <1>2, <1>3

LEMMA SlotFacts ==
  ASSUME WellFormed(graph), NEW i \in 1..NNodes, NEW j \in DOMAIN graph.nodes[i].src
  PROVE  j \in 1..GGML_MAX_SRC
<1> DEFINE q == graph.nodes[i].src
<1>0. PICK t \in Tensors : ~IsLeaf(t) /\ NodeOf(t) = graph.nodes[i]
  BY NodeFacts
<1>1. Src(t) = q
  BY <1>0 DEF Src
<1>2. q \in Seq(Nat) /\ Len(q) <= GGML_MAX_SRC
  BY <1>1, SourceFacts
<1> HIDE DEF q
<1>3. Len(q) \in Nat /\ DOMAIN q = 1..Len(q)
  BY <1>2, ElementFacts
<1>4. j \in 1..Len(q)
  BY <1>3 DEF q
<1>5. Len(q) \in Nat /\ Len(q) <= 10
  BY <1>2, <1>3 DEF GGML_MAX_SRC
<1> DEFINE k == Len(q)
<1> HIDE DEF k
<1>6. j \in 1..k /\ k \in Nat /\ k <= 10
  BY <1>4, <1>5 DEF k
<1> QED
  BY <1>6 DEF GGML_MAX_SRC

LEMMA OwnerFacts ==
  ASSUME WellFormed(graph), NEW t \in Tensors
  PROVE  /\ Owner(t) \in Tensors /\ ~IsView(Owner(t)) /\ Owns(Owner(t))
         /\ Size(t) <= Size(Owner(t))
         /\ IsView(t) => /\ Owner(t) = ViewSrc(t) /\ Owner(t) < t
                         /\ ~IsOutput(t) /\ ~IsLeaf(t)
         /\ ~IsView(t) => Owner(t) = t
         /\ IsView(t) \in BOOLEAN /\ IsOutput(t) \in BOOLEAN
<1>1. t \in Nat /\ Size(t) \in Nat
  BY SourceFacts, AllocatorConstants
<1>2. IsView(t) \in BOOLEAN
  BY DEF IsView
<1>3. IsOutput(t) \in BOOLEAN
  BY NodeFacts DEF IsOutput, Node
<1>4. CASE ~IsView(t)
  BY <1>1, <1>2, <1>3, <1>4 DEF Owner, Owns
<1>5. CASE IsView(t)
  <2> DEFINE i == t - NLeafs
             n == graph.nodes[i]
             o == n.view
  <2>1. ~IsLeaf(t) /\ n.op = "view" /\ NodeOf(t) = n
    BY <1>5, NodeFacts DEF IsView
  <2>2. i \in 1..NNodes /\ i \in DOMAIN graph.nodes
    BY <2>1, NodeFacts DEF WellFormed, Graph, NNodes
  <2>3. NLeafs + i - 1 = t - 1 /\ 1..t - 1 \subseteq Tensors
    BY <1>1, NodeFacts DEF Tensors
  <2>4. ViewFits(graph, n, t - 1)
    BY <2>1, <2>2, <2>3 DEF WellFormed, NLeafs
  <2>5. Owner(t) = o /\ ViewSrc(t) = o /\ Size(t) = n.size /\ IsOutput(t) = n.output
    <3>1. IsOutput(t) = n.output
      BY <2>1, <2>2, NodeFacts DEF IsOutput, Node
    <3> QED
      BY <1>5, <2>1, <3>1 DEF Owner, ViewSrc, Size
  <2>6. o \in Tensors /\ o < t /\ ~n.output
    BY <1>1, <2>3, <2>4 DEF ViewFits
  <2>7. ~IsView(o) /\ n.size <= Size(o)
    <3>1. CASE IsLeaf(o)
      BY <2>4, <3>1 DEF ViewFits, IsView, Size, IsLeaf, NLeafs
    <3>2. CASE ~IsLeaf(o)
      BY <2>4, <3>2 DEF ViewFits, IsView, Size, IsLeaf, NLeafs, NodeOf
    <3> QED
      BY <3>1, <3>2
  <2> HIDE DEF o, n
  <2> QED
    BY <1>2, <1>3, <1>5, <2>1, <2>5, <2>6, <2>7 DEF Owns
<1> QED
  BY <1>2, <1>4, <1>5

-----------------------------------------------------------------------------
(* While it is measured the graph stays as it is.                           *)
LEMMA ShapeKept ==
  ASSUME graph' = graph
  PROVE  /\ NLeafs' = NLeafs /\ NNodes' = NNodes /\ Tensors' = Tensors
         /\ WellFormed(graph)' = WellFormed(graph)
         /\ \A t : /\ IsLeaf(t)' = IsLeaf(t) /\ IsView(t)' = IsView(t)
                   /\ IsOutput(t)' = IsOutput(t) /\ Src(t)' = Src(t)
                   /\ Size(t)' = Size(t) /\ Owner(t)' = Owner(t) /\ Owns(t)' = Owns(t)
                   /\ ViewSrc(t)' = ViewSrc(t) /\ Used(t)' = Used(t)
                   /\ Uses(t)' = Uses(t) /\ ViewsOf(t)' = ViewsOf(t)
         /\ \A s, t : Reads(s, t)' = Reads(s, t) /\ Keeps(s, t)' = Keeps(s, t)
<1>1. /\ NLeafs' = NLeafs /\ NNodes' = NNodes /\ Tensors' = Tensors
  BY DEF NLeafs, NNodes, Tensors
<1>2. \A t : /\ IsLeaf(t)' = IsLeaf(t) /\ NodeOf(t)' = NodeOf(t)
             /\ ViewSrc(t)' = ViewSrc(t)
  BY <1>1 DEF IsLeaf, NodeOf, ViewSrc
<1>3. \A t : IsView(t)' = IsView(t) /\ IsOutput(t)' = IsOutput(t) /\ Src(t)' = Src(t)
             /\ Size(t)' = Size(t)
  BY <1>2 DEF IsView, IsOutput, Src, Size
<1>4. \A t : Owner(t)' = Owner(t) /\ Owns(t)' = Owns(t)
  BY <1>1, <1>2, <1>3 DEF Owner, Owns
<1>5. \A t : /\ Used(t)' = Used(t) /\ Uses(t)' = Uses(t) /\ ViewsOf(t)' = ViewsOf(t)
  BY <1>1 DEF Used, Uses, ViewsOf
<1>6. \A s, t : Reads(s, t)' = Reads(s, t)
  BY <1>3, <1>4 DEF Reads
<1>7. \A s, t : Keeps(s, t)' = Keeps(s, t)
  BY <1>1, <1>3, <1>6 DEF Keeps
<1>8. WellFormed(graph)' = WellFormed(graph)
  OBVIOUS
<1> QED
  BY <1>1, <1>2, <1>3, <1>4, <1>5, <1>6, <1>7, <1>8

-----------------------------------------------------------------------------
(* The counters count finite sets.                                          *)
LEMMA FiniteUses ==
  ASSUME WellFormed(graph)
  PROVE  \A t : /\ IsFiniteSet(Uses(t)) /\ IsFiniteSet(ReadsLeft(t))
                /\ IsFiniteSet(ViewsOf(t)) /\ IsFiniteSet(ViewsLeft(t))
<1>1. NNodes \in Nat /\ GGML_MAX_SRC \in Nat
  BY NodeFacts DEF GGML_MAX_SRC
<1>2. IsFiniteSet(1..NNodes) /\ IsFiniteSet(1..GGML_MAX_SRC)
  BY <1>1, FS_Interval
<1>3. IsFiniteSet((1..NNodes) \X (1..GGML_MAX_SRC))
  BY <1>2, FS_Product
<1> SUFFICES ASSUME NEW t
             PROVE  /\ IsFiniteSet(Uses(t)) /\ IsFiniteSet(ReadsLeft(t))
                    /\ IsFiniteSet(ViewsOf(t)) /\ IsFiniteSet(ViewsLeft(t))
  OBVIOUS
<1>4. Uses(t) \in SUBSET ((1..NNodes) \X (1..GGML_MAX_SRC))
  BY DEF Uses
<1>5. ReadsLeft(t) \in SUBSET Uses(t)
  BY DEF ReadsLeft
<1>6. ViewsOf(t) \in SUBSET (1..NNodes)
  BY DEF ViewsOf
<1>7. ViewsLeft(t) \in SUBSET ViewsOf(t)
  BY DEF ViewsLeft
<1>8. IsFiniteSet(Uses(t)) /\ IsFiniteSet(ViewsOf(t))
  BY <1>2, <1>3, <1>4, <1>6, FS_Subset
<1> QED
  BY <1>5, <1>7, <1>8, FS_Subset

(* Sets of none and of one.                                                 *)
LEMMA SmallSets ==
  ASSUME NEW S, IsFiniteSet(S)
  PROVE  /\ Cardinality(S) \in Nat
         /\ Cardinality(S) = 0 => S = {}
         /\ \A x \in S : /\ Cardinality(S) >= 1 /\ Cardinality(S) # 0
                         /\ Cardinality(S) = 1 => S = {x}
                         /\ Cardinality(S \ {x}) = Cardinality(S) - 1
                         /\ IsFiniteSet(S \ {x})
<1>1. Cardinality(S) \in Nat
  BY FS_CardinalityType
<1>2. Cardinality(S) = 0 => S = {}
  BY FS_EmptySet
<1>3. ASSUME NEW x \in S
      PROVE  /\ Cardinality(S) >= 1 /\ Cardinality(S) # 0
             /\ Cardinality(S) = 1 => S = {x}
             /\ Cardinality(S \ {x}) = Cardinality(S) - 1
             /\ IsFiniteSet(S \ {x})
  <2>1. IsFiniteSet(S \ {x}) /\ Cardinality(S \ {x}) = Cardinality(S) - 1
    BY FS_RemoveElement
  <2>2. Cardinality(S \ {x}) \in Nat
    BY <2>1, FS_CardinalityType
  <2>3. Cardinality(S \ {x}) = 0 => S \ {x} = {}
    BY <2>1, FS_EmptySet
  <2> QED
    BY <1>1, <2>1, <2>2, <2>3
<1> QED
  BY <1>1, <1>2, <1>3

(* The node in work reads its sources.                                      *)
LEMMA ReadCounted ==
  ASSUME WellFormed(graph), WalkInv, CountInv, pc \in {"node", "parents"},
         node \in Tensors, NEW j \in DOMAIN Src(node), pc = "node" \/ j >= parent
  PROVE  /\ node - NLeafs \in 1..NNodes /\ NLeafs + (node - NLeafs) = node
         /\ <<node - NLeafs, j>> \in ReadsLeft(Src(node)[j])
         /\ nChildren[Src(node)[j]] >= 1
         /\ nChildren[Src(node)[j]] = 1 =>
              ReadsLeft(Src(node)[j]) = {<<node - NLeafs, j>>}
<1> DEFINE i == node - NLeafs
           s == Src(node)[j]
<1>1. node > NLeafs /\ NLeafs \in Nat /\ NNodes \in Nat /\ node \in Nat
  BY NodeFacts DEF WalkInv, Tensors
<1>2. ~IsLeaf(node) /\ i \in 1..NNodes /\ NodeOf(node) = graph.nodes[i] /\ NLeafs + i = node
  BY <1>1, NodeFacts DEF IsLeaf
<1>3. Src(node) = graph.nodes[i].src
  BY <1>2 DEF Src
<1>4. s \in Tensors
  BY SourceFacts
<1>5. j \in 1..GGML_MAX_SRC
  BY <1>2, <1>3, SlotFacts
<1>6. <<i, j>> \in Uses(s)
  <2>1. j \in DOMAIN graph.nodes[i].src /\ graph.nodes[i].src[j] = s
    BY <1>3
  <2> HIDE DEF i, s
  <2> QED
    BY <1>2, <1>5, <2>1 DEF Uses
<1>7. <<i, j>> \in ReadsLeft(s)
  <2>1. ToCome(i, j)
    BY <1>2 DEF ToCome
  <2> HIDE DEF i, s
  <2> QED
    BY <1>6, <2>1 DEF ReadsLeft
<1>8. nChildren[s] = Cardinality(ReadsLeft(s))
  BY <1>4 DEF CountInv
<1>9. IsFiniteSet(ReadsLeft(s))
  BY FiniteUses
<1> HIDE DEF i, s
<1>10. /\ nChildren[s] >= 1
       /\ nChildren[s] = 1 => ReadsLeft(s) = {<<i, j>>}
  BY <1>7, <1>8, <1>9, SmallSets
<1> QED
  BY <1>2, <1>7, <1>10 DEF i, s

(* A view that has been read for the last time.                             *)
LEMMA ViewsDone ==
  ASSUME WellFormed(graph), WalkInv, CountInv, pc \in {"node", "parents"},
         NEW o \in Tensors, NEW v \in Tensors, IsView(v), ViewSrc(v) = o,
         v - NLeafs \notin ViewsLeft(o)
  PROVE  ReadsLeft(v) = {}
<1> DEFINE i == v - NLeafs
<1>1. i \in 1..NNodes /\ NodeOf(v) = graph.nodes[i] /\ graph.nodes[i].op = "view"
      /\ graph.nodes[i].view = o
  BY NodeFacts DEF IsView, ViewSrc
<1>2. NLeafs + i = v
  BY NodeFacts, SourceFacts
<1>3. i \in ViewsOf(o)
  <2> HIDE DEF i
  <2> QED
    BY <1>1 DEF ViewsOf
<1>4. Dead(v)
  BY <1>2, <1>3 DEF ViewsLeft
<1>5. Cardinality(ReadsLeft(v)) = 0
  BY <1>4 DEF CountInv, Dead
<1> QED
  BY <1>5, FiniteUses, SmallSets

(* When the node in work is the last to read a tensor and its views, nobody *)
(* after it reads its memory.                                               *)
LEMMA NobodyReads ==
  ASSUME WellFormed(graph), WalkInv, CountInv, pc \in {"node", "parents"},
         NEW o \in Tensors,
         \A r \in ReadsLeft(o) : NLeafs + r[1] = node,
         \A v \in Tensors : IsView(v) /\ ViewSrc(v) = o =>
            \A r \in ReadsLeft(v) : NLeafs + r[1] = node
  PROVE  \A n \in Tensors : n > node => ~Reads(n, o)
<1> SUFFICES ASSUME NEW n \in Tensors, n > node, Reads(n, o) PROVE FALSE
  OBVIOUS
<1>1. PICK j \in DOMAIN Src(n) : Owner(Src(n)[j]) = o
  BY DEF Reads
<1> DEFINE i == n - NLeafs
           s == Src(n)[j]
<1>2. s \in Tensors /\ n \in Nat /\ ~IsLeaf(n) /\ NLeafs \in Nat
  BY SourceFacts, NodeFacts
<1>3. /\ i \in 1..NNodes /\ NLeafs + i = n /\ Src(n) = graph.nodes[i].src
  BY <1>2, NodeFacts DEF Src
<1>4. j \in 1..GGML_MAX_SRC
  BY <1>3, SlotFacts
<1>5. <<i, j>> \in Uses(s)
  <2>1. j \in DOMAIN graph.nodes[i].src /\ graph.nodes[i].src[j] = s
    BY <1>3
  <2> HIDE DEF i, s
  <2> QED
    BY <1>3, <1>4, <2>1 DEF Uses
<1>6. ToCome(i, j)
  BY <1>3 DEF ToCome
<1> HIDE DEF i, s
<1>7. <<i, j>> \in ReadsLeft(s)
  BY <1>5, <1>6 DEF ReadsLeft
<1>8. NLeafs + i # node
  BY <1>2, <1>3 DEF WalkInv
<1>9. <<i, j>>[1] = i
  OBVIOUS
<1>10. CASE IsView(s)
  BY <1>1, <1>2, <1>7, <1>8, <1>9, <1>10 DEF s, Owner
<1>11. CASE ~IsView(s)
  BY <1>1, <1>2, <1>7, <1>8, <1>9, <1>11 DEF s, Owner
<1> QED
  BY <1>10, <1>11

-----------------------------------------------------------------------------
(* The tensor allocator below.                                              *)
LEMMA TallocrConstants == P!ConstantsOK
BY AllocatorConstants DEF P!ConstantsOK

LEMMA BlockFacts ==
  ASSUME WellFormed(graph), WalkInv, Measuring, NEW t \in Tensors
  PROVE  /\ offset[t] \in Nat /\ Size(t) \in Nat \ {0} /\ BlockOf(t) \in P!Blocks
         /\ BlockOf(t).offset = offset[t] /\ BlockOf(t).size = Size(t)
         /\ P!End(BlockOf(t)) = offset[t] + Size(t)
<1>1. offset[t] \in Nat
  BY DEF WalkInv
<1>2. Size(t) \in Nat \ {0}
  BY SourceFacts, AllocatorConstants
<1> QED
  BY <1>1, <1>2 DEF BlockOf, P!Blocks, P!End

LEMMA LiveFacts ==
  ASSUME WellFormed(graph), WalkInv, LifeInv, Measuring, P!TallocrInv
  PROVE  /\ \A s, t \in Tensors : allocated[s] /\ allocated[t] /\ s # t => Apart(offset, s, t)
         /\ maxSize \in Nat /\ free \subseteq P!Blocks
         /\ \A t \in Tensors : allocated[t] => BlockOf(t) \in Live
<1>1. \A t \in Tensors : allocated[t] => BlockOf(t) \in Live
  BY DEF Live
<1>2. ASSUME NEW s \in Tensors, NEW t \in Tensors, allocated[s], allocated[t], s # t
      PROVE  Apart(offset, s, t)
  <2>1. BlockOf(s) # BlockOf(t)
    BY <1>2 DEF LifeInv
  <2>2. BlockOf(s) \in Live /\ BlockOf(t) \in Live
    BY <1>1, <1>2
  <2>3. P!Apart(BlockOf(s), BlockOf(t))
    BY <2>1, <2>2 DEF P!TallocrInv, P!Disjoint
  <2> QED
    BY <2>3, BlockFacts DEF P!Apart, Apart
<1>3. maxSize \in Nat /\ free \subseteq P!Blocks
  BY DEF P!TallocrInv
<1> QED
  BY <1>1, <1>2, <1>3

(* A range from the tensor allocator.                                       *)
LEMMA NewRange ==
  ASSUME WellFormed(graph), WalkInv, LifeInv, Measuring, P!TallocrInv,
         NEW t \in Tensors, ~allocated[t], graph' = graph, Measuring', AllocateNew(t)
  PROVE  /\ P!Alloc(Size(t))
         /\ offset' \in [Tensors -> Nat] /\ allocated' \in [Tensors -> BOOLEAN]
         /\ \A u \in Tensors \ {t} : offset'[u] = offset[u] /\ allocated'[u] = allocated[u]
         /\ allocated'[t]
         /\ maxSize <= maxSize' /\ offset'[t] + Size(t) <= maxSize'
         /\ \A u \in Tensors : allocated[u] => Apart(offset', u, t)
<1>1. PICK b \in free :
        /\ DT!BestFit(free, Size(t), b) /\ b.size >= Size(t)
        /\ offset' = [offset EXCEPT ![t] = b.offset]
        /\ free' = DT!Cut(free, b, Size(t))
        /\ maxSize' = DT!Max2(maxSize, b.offset + Size(t))
  BY DEF AllocateNew
<1>2. allocated' = [allocated EXCEPT ![t] = TRUE]
  BY DEF AllocateNew
<1>3. /\ offset \in [Tensors -> Nat] /\ allocated \in [Tensors -> BOOLEAN]
      /\ Size(t) \in Nat \ {0} /\ maxSize \in Nat
  BY BlockFacts, LiveFacts DEF WalkInv
<1> DEFINE new == P!Block(b.offset, Size(t))
<1>4. /\ b.offset \in Nat
      /\ \A x \in Live : P!Apart(x, new) /\ x # new
  <2>1. b \in (IF Measuring THEN free ELSE {[offset |-> 0, size |-> Arena]})
    BY <1>1
  <2>2. /\ b.offset \in Nat
        /\ \A x \in (IF Measuring THEN Live ELSE {}) : P!Apart(x, new) /\ x # new
    BY <1>1, <1>3, <2>1, P!CutApart
  <2> QED
    BY <2>2
<1>5. /\ offset' \in [Tensors -> Nat] /\ allocated' \in [Tensors -> BOOLEAN]
      /\ \A u \in Tensors \ {t} : offset'[u] = offset[u] /\ allocated'[u] = allocated[u]
      /\ allocated'[t] /\ offset'[t] = b.offset
  BY <1>1, <1>2, <1>3, <1>4
<1>6. maxSize <= maxSize' /\ offset'[t] + Size(t) <= maxSize'
  BY <1>1, <1>3, <1>4, <1>5 DEF DT!Max2
<1>7. ASSUME NEW u \in Tensors, allocated[u]
      PROVE  Apart(offset', u, t)
  <2>1. P!Apart(BlockOf(u), new) /\ u # t
    BY <1>4, <1>7, LiveFacts
  <2>2. P!End(new) = offset'[t] + Size(t) /\ new.offset = offset'[t]
    BY <1>5 DEF P!End, P!Block
  <2>3. BlockOf(u).offset = offset'[u] /\ P!End(BlockOf(u)) = offset'[u] + Size(u)
    BY <1>5, <2>1, BlockFacts
  <2> HIDE DEF new
  <2> QED
    BY <2>1, <2>2, <2>3 DEF P!Apart, Apart
<1>8. P!Alloc(Size(t))
  <2>1. Live' = Live \union {new}
    <3>1. \A u \in Tensors \ {t} : BlockOf(u)' = BlockOf(u)
      BY <1>5, ShapeKept DEF BlockOf
    <3>2. BlockOf(t)' = new
      BY <1>5, ShapeKept DEF BlockOf, P!Block
    <3>3. {u \in Tensors : allocated'[u]} = {u \in Tensors : allocated[u]} \union {t}
      BY <1>5
    <3> HIDE DEF new
    <3>4. Live' = {BlockOf(u)' : u \in {v \in Tensors : allocated'[v]}}
      BY ShapeKept DEF Live
    <3>5. ASSUME NEW x \in Live' PROVE x \in Live \union {new}
      <4>1. PICK u \in Tensors : allocated'[u] /\ x = BlockOf(u)'
        BY <3>4
      <4>2. CASE u = t
        BY <3>2, <4>1, <4>2
      <4>3. CASE u # t
        BY <1>5, <3>1, <4>1, <4>3 DEF Live
      <4> QED
        BY <4>2, <4>3
    <3>6. ASSUME NEW x \in Live PROVE x \in Live'
      <4>1. PICK u \in Tensors : allocated[u] /\ x = BlockOf(u)
        BY DEF Live
      <4>2. u # t
        BY <4>1
      <4> QED
        BY <1>5, <3>1, <3>4, <4>1, <4>2
    <3>7. new \in Live'
      BY <1>5, <3>2, <3>4
    <3> QED
      BY <3>5, <3>6, <3>7
  <2>2. P!BestFit(free, Size(t), b)
    BY <1>1 DEF P!BestFit, DT!BestFit, P!Fits, DT!Fits, P!IsLast, DT!IsLast
  <2>3. free' = P!Cut(free, b, Size(t))
    BY <1>1 DEF P!Cut, DT!Cut, P!Block, DT!Block
  <2>4. maxSize' = P!Max2(maxSize, b.offset + Size(t))
    BY <1>1 DEF P!Max2, DT!Max2
  <2> QED
    BY <1>1, <2>1, <2>2, <2>3, <2>4 DEF P!Alloc
<1> QED
  BY <1>5, <1>6, <1>7, <1>8

(* The memory of a source, which lets go of it.                             *)
LEMMA TakenOver ==
  ASSUME WellFormed(graph), WalkInv, LifeInv, PlaceInv, Measuring, P!TallocrInv,
         NEW t \in Tensors, ~allocated[t], graph' = graph, Measuring', Reuse(t)
  PROVE  /\ free' = free /\ maxSize' = maxSize /\ Live' = Live
         /\ offset' \in [Tensors -> Nat] /\ allocated' \in [Tensors -> BOOLEAN]
         /\ \E j \in Donors(t) : LET p == Src(t)[j] IN
              /\ p \in Tensors /\ p # t /\ Reusable(t, p)
              /\ \A u \in Tensors \ {t, p} : allocated'[u] = allocated[u]
              /\ ~allocated'[p]
              /\ \A u \in Tensors : allocated[u] /\ u # p => Apart(offset', u, t)
         /\ \A u \in Tensors \ {t} : offset'[u] = offset[u]
         /\ allocated'[t]
         /\ offset'[t] + Size(t) <= maxSize'
<1>1. PICK j \in Donors(t) :
        /\ offset' = [offset EXCEPT ![t] = offset[Src(t)[j]]]
        /\ allocated' = [allocated EXCEPT ![Src(t)[j]] = FALSE, ![t] = TRUE]
  BY DEF Reuse
<1>2. free' = free /\ maxSize' = maxSize
  BY DEF Reuse, tallocr
<1> DEFINE p == Src(t)[j]
<1>3. j \in DOMAIN Src(t) /\ Reusable(t, p)
  BY <1>1 DEF Donors
<1>4. p \in Tensors /\ allocated[p] /\ Size(p) = Size(t) /\ p # t
  BY <1>3, SourceFacts DEF Reusable
<1>5. /\ offset \in [Tensors -> Nat] /\ allocated \in [Tensors -> BOOLEAN]
      /\ Size(t) \in Nat \ {0} /\ maxSize \in Nat
  BY BlockFacts, LiveFacts DEF WalkInv
<1>6. /\ offset' = [offset EXCEPT ![t] = offset[p]]
      /\ allocated' = [allocated EXCEPT ![p] = FALSE, ![t] = TRUE]
  BY <1>1
<1> HIDE DEF p
<1>7. /\ offset' \in [Tensors -> Nat] /\ allocated' \in [Tensors -> BOOLEAN]
      /\ \A u \in Tensors \ {t} : offset'[u] = offset[u]
      /\ \A u \in Tensors \ {t, p} : allocated'[u] = allocated[u]
      /\ allocated'[t] /\ ~allocated'[p] /\ offset'[t] = offset[p] /\ offset'[p] = offset[p]
  BY <1>4, <1>5, <1>6
<1>8. offset'[t] + Size(t) <= maxSize'
  BY <1>2, <1>4, <1>7 DEF LifeInv, PlaceInv
<1>9. ASSUME NEW u \in Tensors, allocated[u], u # p
      PROVE  Apart(offset', u, t)
  <2>1. Apart(offset, u, p) /\ u # t
    BY <1>4, <1>9, LiveFacts
  <2> QED
    BY <1>4, <1>7, <2>1 DEF Apart
<1>10. Live' = Live
  <2>1. \A u \in Tensors \ {t} : BlockOf(u)' = BlockOf(u)
    BY <1>7, ShapeKept DEF BlockOf
  <2>2. BlockOf(t)' = BlockOf(p)
    BY <1>4, <1>7, ShapeKept DEF BlockOf
  <2>3. Live' = {BlockOf(u)' : u \in {v \in Tensors : allocated'[v]}}
    BY ShapeKept DEF Live
  <2>4. ASSUME NEW x \in Live' PROVE x \in Live
    <3>1. PICK u \in Tensors : allocated'[u] /\ x = BlockOf(u)'
      BY <2>3
    <3>2. CASE u = t
      BY <1>4, <2>2, <3>1, <3>2 DEF Live
    <3>3. CASE u # t
      <4>1. u # p
        BY <1>7, <3>1
      <4>2. allocated[u]
        BY <1>7, <3>1, <3>3, <4>1
      <4> QED
        BY <2>1, <3>1, <3>3, <4>2 DEF Live
    <3> QED
      BY <3>2, <3>3
  <2>5. ASSUME NEW x \in Live PROVE x \in Live'
    <3>1. PICK u \in Tensors : allocated[u] /\ x = BlockOf(u)
      BY DEF Live
    <3>2. u # t
      BY <3>1
    <3>3. CASE u = p
      BY <1>7, <2>2, <2>3, <3>1, <3>3
    <3>4. CASE u # p
      <4>1. allocated'[u]
        BY <1>7, <3>1, <3>2, <3>4
      <4> QED
        BY <2>1, <2>3, <3>1, <3>2, <4>1
    <3> QED
      BY <3>3, <3>4
  <2> QED
    BY <2>4, <2>5
<1>11. /\ p \in Tensors /\ p # t /\ Reusable(t, p)
       /\ \A u \in Tensors \ {t, p} : allocated'[u] = allocated[u]
       /\ ~allocated'[p]
       /\ \A u \in Tensors : allocated[u] /\ u # p => Apart(offset', u, t)
  BY <1>3, <1>4, <1>7, <1>9
<1> QED
  BY <1>1, <1>2, <1>7, <1>8, <1>10, <1>11 DEF p

LEMMA KeepsBefore ==
  ASSUME WellFormed(graph), NEW s \in Tensors, NEW k \in Int, NEW m \in Int, k <= m, Keeps(s, m)
  PROVE  Keeps(s, k)
<1>1. \A n \in Tensors : n \in Int /\ (n > m => n > k)
  BY SourceFacts
<1> QED
  BY <1>1 DEF Keeps

(* A new place for the tensor t, where those in "gone" lost theirs.         *)
LEMMA PlaceGiven ==
  ASSUME WellFormed(graph), WalkInv, LifeInv, PlaceInv, P!TallocrInv,
         pc \in {"leaf", "node"}, node \in Tensors, ~IsView(node),
         graph' = graph, Measuring', LastDone' = node, pc' = "leaf" => pc = "leaf",
         pc = "leaf" => IsLeaf(node), pc = "node" => ~IsLeaf(node),
         NEW gone \in SUBSET Tensors, node \notin gone,
         offset' \in [Tensors -> Nat], allocated' \in [Tensors -> BOOLEAN],
         \A u \in Tensors \ {node} : offset'[u] = offset[u],
         \A u \in Tensors \ (gone \union {node}) : allocated'[u] = allocated[u],
         \A u \in gone : ~allocated'[u] /\ ~Keeps(u, node),
         allocated'[node], pc = "leaf" => gone = {},
         maxSize <= maxSize', maxSize' \in Nat, offset'[node] + Size(node) <= maxSize',
         \A u \in Tensors : allocated[u] /\ u \notin gone => Apart(offset', u, node)
  PROVE  LifeInv' /\ PlaceInv'
<1>0. PICK t \in Tensors : t = node
  OBVIOUS
<1>1. Measuring /\ LastDone = t - 1 /\ t \in Nat /\ t \in Tensors
  BY <1>0, SourceFacts DEF Measuring, LastDone
<1>2. \A u \in Tensors : /\ u \in Nat /\ Size(u) \in Nat \ {0} /\ offset[u] \in Nat
                         /\ offset'[u] \in Nat
  BY <1>1, SourceFacts, BlockFacts
<1>3. \A u \in Tensors : /\ Placed(u)' <=> (Placed(u) \/ u = t)
  <2> SUFFICES ASSUME NEW u \in Tensors PROVE Placed(u)' <=> (Placed(u) \/ u = t)
    OBVIOUS
  <2>1. Owns(u)' = Owns(u) /\ Owns(t)
    BY <1>0, <1>1, ShapeKept DEF Owns
  <2>2. u <= t <=> (u <= t - 1 \/ u = t)
    BY <1>1, <1>2
  <2>3. LastDone' = t
    BY <1>0
  <2> QED
    BY <1>1, <2>1, <2>2, <2>3 DEF Placed
<1>4. \A u \in Tensors : u # t /\ allocated'[u] => allocated[u] /\ u \notin gone
  BY <1>0
<1>5. \A u \in Tensors : allocated[u] => Placed(u)
  BY <1>1 DEF LifeInv
<1>6. \A u \in Tensors : /\ BlockOf(u)'.offset = offset'[u] /\ BlockOf(u)'.size = Size(u)
                         /\ u # t => BlockOf(u)' = BlockOf(u)
  BY <1>0, ShapeKept DEF BlockOf
<1>7. ASSUME NEW u \in Tensors, u # t, allocated'[u]
      PROVE  BlockOf(u)' # BlockOf(t)'
  <2>1. Apart(offset', u, t)
    BY <1>0, <1>4, <1>7
  <2> QED
    BY <1>1, <1>2, <1>6, <2>1 DEF Apart
<1>8. \A u \in Tensors : allocated'[u] => Placed(u)'
  BY <1>3, <1>4, <1>5
<1>9. \A s, u \in Tensors : allocated'[s] /\ allocated'[u] /\ s # u => BlockOf(s)' # BlockOf(u)'
  <2> SUFFICES ASSUME NEW s \in Tensors, NEW u \in Tensors, allocated'[s], allocated'[u], s # u
               PROVE  BlockOf(s)' # BlockOf(u)'
    OBVIOUS
  <2>1. CASE s = t \/ u = t
    BY <1>7, <2>1
  <2>2. CASE s # t /\ u # t
    BY <1>1, <1>4, <1>6, <2>2 DEF LifeInv
  <2> QED
    BY <2>1, <2>2
<1>10. \A u \in Tensors : Keeps(u, t) => Keeps(u, t - 1)
  BY <1>1, KeepsBefore
<1>11. ASSUME NEW u \in Tensors, Placed(u)', pc' = "leaf" \/ Keeps(u, t)
       PROVE  allocated'[u]
  <2>1. CASE u = t
    BY <1>0, <2>1
  <2>2. CASE u # t
    <3>1. Placed(u) /\ allocated[u]
      BY <1>1, <1>3, <1>10, <1>11, <2>2 DEF LifeInv
    <3>2. u \notin gone
      BY <1>0, <1>11
    <3> QED
      BY <1>0, <2>2, <3>1, <3>2
  <2> QED
    BY <2>1, <2>2
<1>12. LifeInv'
  <2>1. \A u \in Tensors : Keeps(u, LastDone)' <=> Keeps(u, t)
    BY <1>0, ShapeKept DEF Keeps
  <2> QED
    BY <1>8, <1>9, <1>11, <2>1, ShapeKept DEF LifeInv
<1>13. ASSUME NEW u \in Tensors, Placed(u)'
       PROVE  offset'[u] + Size(u) <= maxSize'
  <2>1. CASE u = t
    BY <1>0, <2>1
  <2>2. CASE u # t
    <3>1. offset[u] + Size(u) <= maxSize /\ offset'[u] = offset[u]
      BY <1>0, <1>1, <1>3, <1>13, <2>2 DEF PlaceInv
    <3> QED
      BY <1>1, <1>2, <3>1, LiveFacts
  <2> QED
    BY <2>1, <2>2
<1>14. ASSUME NEW s \in Tensors, NEW u \in Tensors, Placed(s)', Placed(u)', s < u,
              IsLeaf(u) \/ Keeps(s, u)
       PROVE  Apart(offset', s, u)
  <2>1. Placed(s)
    <3>1. s # t
      BY <1>1, <1>2, <1>3, <1>14 DEF Placed
    <3> QED
      BY <1>3, <1>14, <3>1
  <2>2. s # t /\ offset'[s] = offset[s]
    BY <1>0, <1>1, <1>2, <2>1 DEF Placed
  <2>3. CASE u = t
    <3>1. pc = "leaf" \/ Keeps(s, t)
      BY <1>0, <1>14, <2>3
    <3>2. allocated[s]
      BY <1>1, <1>10, <2>1, <3>1 DEF LifeInv
    <3>3. s \notin gone
      BY <1>0, <3>1
    <3> QED
      BY <1>0, <2>3, <3>2, <3>3
  <2>4. CASE u # t
    <3>1. Placed(u) /\ offset'[u] = offset[u]
      BY <1>0, <1>3, <1>14, <2>4
    <3>2. Apart(offset, s, u)
      BY <1>1, <1>14, <2>1, <3>1 DEF PlaceInv
    <3> QED
      BY <2>2, <3>1, <3>2 DEF Apart
  <2> QED
    BY <2>3, <2>4
<1>15. PlaceInv'
  <2>1. \A s, u : Apart(offset, s, u)' <=> Apart(offset', s, u)
    BY ShapeKept DEF Apart
  <2> QED
    BY <1>13, <1>14, <2>1, ShapeKept DEF PlaceInv
<1> QED
  BY <1>12, <1>15

(* The node in work is the last to read a source, directly or as a view.    *)
LEMMA LastReader ==
  ASSUME WellFormed(graph), WalkInv, CountInv, pc \in {"node", "parents"}, node \in Tensors,
         NEW j \in DOMAIN Src(node), pc = "node" \/ j >= parent,
         nChildren[Src(node)[j]] = 1, nViews[Src(node)[j]] = 0
  PROVE  \A n \in Tensors : n > node => ~Reads(n, Src(node)[j])
<1> DEFINE p == Src(node)[j]
<1>1. p \in Tensors
  BY SourceFacts
<1>2. NLeafs + (node - NLeafs) = node /\ ReadsLeft(p) = {<<node - NLeafs, j>>}
  BY ReadCounted
<1>3. nViews[p] = 0
  OBVIOUS
<1> HIDE DEF p
<1>4. \A r \in ReadsLeft(p) : NLeafs + r[1] = node
  BY <1>2
<1>5. ViewsLeft(p) = {}
  <2>1. Cardinality(ViewsLeft(p)) = 0
    BY <1>1, <1>3 DEF CountInv
  <2> QED
    BY <2>1, FiniteUses, SmallSets
<1>6. \A v \in Tensors : IsView(v) /\ ViewSrc(v) = p => ReadsLeft(v) = {}
  BY <1>1, <1>5, ViewsDone
<1>7. \A n \in Tensors : n > node => ~Reads(n, p)
  BY <1>1, <1>4, <1>6, NobodyReads
<1> QED
  BY <1>7 DEF p

(* A view counts among those of its root until it has been read for the     *)
(* last time.                                                               *)
LEMMA ViewCounted ==
  ASSUME WellFormed(graph), WalkInv, CountInv, pc \in {"node", "parents"},
         NEW p \in Tensors, IsView(p), nChildren[p] # 0
  PROVE  /\ ViewSrc(p) \in Tensors /\ p - NLeafs \in ViewsLeft(ViewSrc(p))
         /\ NLeafs + (p - NLeafs) = p /\ p - NLeafs \in 1..NNodes
<1> DEFINE i == p - NLeafs
           o == ViewSrc(p)
<1>1. i \in 1..NNodes /\ NodeOf(p) = graph.nodes[i] /\ graph.nodes[i].op = "view"
      /\ graph.nodes[i].view = o
  BY NodeFacts DEF IsView, ViewSrc
<1>2. NLeafs + i = p /\ o \in Tensors
  BY NodeFacts, SourceFacts, OwnerFacts
<1>3. ~Dead(NLeafs + i)
  BY <1>2 DEF Dead
<1> HIDE DEF i, o
<1>4. i \in ViewsLeft(o)
  BY <1>1, <1>3 DEF ViewsLeft, ViewsOf
<1> QED
  BY <1>1, <1>2, <1>4 DEF i, o

(* And the same through the last view of a tensor.                          *)
LEMMA LastViewer ==
  ASSUME WellFormed(graph), WalkInv, CountInv, pc \in {"node", "parents"}, node \in Tensors,
         NEW j \in DOMAIN Src(node), pc = "node" \/ j >= parent,
         NEW p \in Tensors, p = Src(node)[j], NEW o \in Tensors, o = ViewSrc(p),
         IsView(p), nChildren[p] = 1, nViews[o] = 1, nChildren[o] = 0
  PROVE  \A n \in Tensors : n > node => ~Reads(n, o)
<1>1. NLeafs + (node - NLeafs) = node /\ ReadsLeft(p) = {<<node - NLeafs, j>>}
  BY ReadCounted
<1>2. \A r \in ReadsLeft(p) : NLeafs + r[1] = node
  BY <1>1
<1>3. ReadsLeft(o) = {}
  <2>1. Cardinality(ReadsLeft(o)) = 0
    BY DEF CountInv
  <2> QED
    BY <2>1, FiniteUses, SmallSets
<1>4. ViewsLeft(o) = {p - NLeafs}
  <2>1. Cardinality(ViewsLeft(o)) = 1
    BY DEF CountInv
  <2>2. p - NLeafs \in ViewsLeft(o)
    BY ViewCounted
  <2> QED
    BY <2>1, <2>2, FiniteUses, SmallSets
<1>5. ASSUME NEW v \in Tensors, IsView(v), ViewSrc(v) = o
      PROVE  \A r \in ReadsLeft(v) : NLeafs + r[1] = node
  <2>1. CASE v = p
    BY <1>2, <2>1
  <2>2. CASE v # p
    <3>1. v - NLeafs # p - NLeafs
      BY <2>2, SourceFacts, NodeFacts, SMTT(60)
    <3>2. v - NLeafs \notin ViewsLeft(o)
      BY <1>4, <3>1
    <3> QED
      BY <1>5, <3>2, ViewsDone
  <2> QED
    BY <2>1, <2>2
<1> QED
  BY <1>3, <1>5, NobodyReads

(* What the node takes over nobody else will read.                          *)
LEMMA DonorDone ==
  ASSUME WellFormed(graph), WalkInv, CountInv, pc = "node", node \in Tensors,
         NEW j \in Donors(node)
  PROVE  Src(node)[j] \in Tensors /\ ~Keeps(Src(node)[j], node)
<1>1. /\ j \in DOMAIN Src(node) /\ ~IsOutput(Src(node)[j])
      /\ nChildren[Src(node)[j]] = 1 /\ nViews[Src(node)[j]] = 0
  BY DEF Donors, Reusable
<1>2. \A n \in Tensors : n > node => ~Reads(n, Src(node)[j])
  BY <1>1, LastReader
<1> QED
  BY <1>1, <1>2, SourceFacts DEF Keeps

-----------------------------------------------------------------------------
(* The counters do not change while a node is given its place.              *)
LEMMA CountFrame ==
  ASSUME WellFormed(graph), CountInv, pc \in {"node", "parents"}, graph' = graph,
         nChildren' = nChildren, nViews' = nViews,
         \A t \in Tensors : ReadsLeft(t)' = ReadsLeft(t)
  PROVE  CountInv'
<1>1. \A t \in Tensors : ViewsLeft(t)' = ViewsLeft(t)
  <2>1. \A v : Dead(v)' = Dead(v)
    BY ShapeKept DEF Dead
  <2>2. \A i : Dead(NLeafs + i)' = Dead(NLeafs + i)
    BY <2>1, ShapeKept
  <2> QED
    BY <2>2, ShapeKept DEF ViewsLeft
<1>2. ASSUME NEW t \in Tensors
      PROVE  /\ nChildren'[t] = Cardinality(ReadsLeft(t)')
             /\ nViews'[t] = Cardinality(ViewsLeft(t)')
  <2>1. nChildren[t] = Cardinality(ReadsLeft(t)) /\ nViews[t] = Cardinality(ViewsLeft(t))
    BY DEF CountInv
  <2> QED
    BY <1>1, <2>1
<1>3. CountInv' <=> (pc' \in {"node", "parents"} =>
        \A t \in Tensors : /\ nChildren'[t] = Cardinality(ReadsLeft(t)')
                           /\ nViews'[t] = Cardinality(ViewsLeft(t)'))
  BY ShapeKept DEF CountInv
<1> QED
  BY <1>2, <1>3

(* While a graph is measured (ggml_gallocr_alloc_graph_impl).               *)
MeasureInv == WalkInv /\ LifeInv /\ PlaceInv /\ CountInv /\ P!TallocrInv

LEMMA AllocLeafKept ==
  ASSUME WellFormed(graph), MeasureInv, AllocLeaf
  PROVE  P!Alloc(Size(node)) /\ node \in Tensors /\ WalkInv' /\ LifeInv' /\ PlaceInv' /\ CountInv'
<1>1. /\ pc = "leaf" /\ pc' = "leaf" /\ graph' = graph /\ node' = node + 1
      /\ node <= NLeafs /\ nChildren' = nChildren /\ nViews' = nViews
      /\ Measuring /\ Measuring'
  BY DEF AllocLeaf, Measuring
<1>2. node \in Tensors /\ IsLeaf(node) /\ ~IsView(node) /\ node \in Nat /\ NLeafs \in Nat
  BY <1>1, NodeFacts DEF MeasureInv, WalkInv, Tensors, IsLeaf, IsView
<1>3. AllocateNew(node) /\ ~allocated[node]
  <2>1. AllocateNode(node) /\ Donors(node) = {}
    BY <1>2 DEF AllocLeaf, Donors
  <2>2. ~allocated[node]
    BY <1>1, <1>2 DEF MeasureInv, LifeInv, Placed, LastDone
  <2> QED
    BY <1>2, <2>1, <2>2 DEF AllocateNode, Reuse
<1>4. /\ P!Alloc(Size(node))
      /\ offset' \in [Tensors -> Nat] /\ allocated' \in [Tensors -> BOOLEAN]
      /\ \A u \in Tensors \ {node} : offset'[u] = offset[u] /\ allocated'[u] = allocated[u]
      /\ allocated'[node]
      /\ maxSize <= maxSize' /\ offset'[node] + Size(node) <= maxSize'
      /\ \A u \in Tensors : allocated[u] => Apart(offset', u, node)
  BY <1>1, <1>2, <1>3, NewRange DEF MeasureInv
<1>5. LastDone' = node
  BY <1>1, <1>2 DEF LastDone
<1>6. maxSize' \in Nat
  <2>1. P!TallocrInv'
    BY <1>4, <1>2, TallocrConstants, P!AllocKept, SourceFacts DEF MeasureInv
  <2> QED
    BY <1>1, <2>1 DEF P!TallocrInv
<1>7. LifeInv' /\ PlaceInv'
  <2> DEFINE gone == {}
  <2>1. /\ gone \in SUBSET Tensors /\ node \notin gone
        /\ \A u \in Tensors \ (gone \union {node}) : allocated'[u] = allocated[u]
        /\ \A u \in gone : ~allocated'[u] /\ ~Keeps(u, node)
        /\ \A u \in Tensors : allocated[u] /\ u \notin gone => Apart(offset', u, node)
    BY <1>4
  <2>2. pc = "leaf" => gone = {}
    OBVIOUS
  <2> HIDE DEF gone
  <2> QED
    BY <1>1, <1>2, <1>4, <1>5, <1>6, <2>1, <2>2, PlaceGiven DEF MeasureInv
<1>8. WalkInv'
  <2>1. node' \in 1..NLeafs + 1
    BY <1>1, <1>2 DEF MeasureInv, WalkInv
  <2> QED
    BY <1>1, <1>4, <2>1, ShapeKept DEF MeasureInv, WalkInv
<1>9. CountInv'
  BY <1>1 DEF CountInv
<1> QED
  BY <1>2, <1>4, <1>7, <1>8, <1>9

(* No new places: those that are lost were not needed.                      *)
LEMMA PlacesFrame ==
  ASSUME WellFormed(graph), LifeInv, PlaceInv, Measuring, graph' = graph, pc' # "leaf",
         offset' = offset, maxSize' = maxSize,
         LastDone' \in Int, LastDone \in Int, LastDone <= LastDone',
         \A u \in Tensors : Placed(u)' => Placed(u),
         \A u \in Tensors : Placed(u) => Placed(u)',
         \A u \in Tensors : allocated'[u] => allocated[u],
         \A u \in Tensors : allocated[u] => allocated'[u] \/ ~Keeps(u, LastDone')
  PROVE  LifeInv' /\ PlaceInv'
<1>1. \A u \in Tensors : Keeps(u, LastDone') => Keeps(u, LastDone)
  BY KeepsBefore
<1>2. \A u : BlockOf(u)' = BlockOf(u)
  BY ShapeKept DEF BlockOf
<1>3. \A u \in Tensors : Keeps(u, LastDone)' <=> Keeps(u, LastDone')
  BY ShapeKept DEF Keeps
<1>4. \A t \in Tensors : allocated'[t] => Placed(t)'
  BY DEF LifeInv
<1>5. \A s, t \in Tensors : allocated'[s] /\ allocated'[t] /\ s # t => BlockOf(s)' # BlockOf(t)'
  BY <1>2 DEF LifeInv
<1>6. \A t \in Tensors : Placed(t)' /\ Keeps(t, LastDone') => allocated'[t]
  BY <1>1 DEF LifeInv
<1>7. LifeInv'
  BY <1>3, <1>4, <1>5, <1>6, ShapeKept DEF LifeInv
<1>8. \A s, t : Apart(offset, s, t)' <=> Apart(offset, s, t)
  BY ShapeKept DEF Apart
<1>9. PlaceInv'
  BY <1>8, ShapeKept DEF PlaceInv
<1> QED
  BY <1>7, <1>9

LEMMA LiveSame ==
  ASSUME graph' = graph, offset' = offset, allocated' = allocated
  PROVE  Live' = Live
<1>1. \A u : BlockOf(u)' = BlockOf(u)
  BY ShapeKept DEF BlockOf
<1> QED
  BY <1>1, ShapeKept DEF Live

LEMMA CountChildrenKept ==
  ASSUME WellFormed(graph), MeasureInv, LeafsUsed, CountChildren
  PROVE  /\ free' = free /\ maxSize' = maxSize /\ Live' = Live
         /\ WalkInv' /\ LifeInv' /\ PlaceInv' /\ CountInv'
<1>1. /\ pc = "leaf" /\ pc' = "node" /\ graph' = graph /\ node' = node
      /\ offset' = offset /\ allocated' = allocated /\ free' = free /\ maxSize' = maxSize
      /\ node = NLeafs + 1 /\ Measuring /\ Measuring' /\ NLeafs \in Nat /\ NNodes \in Nat
      /\ nChildren' = [t \in Tensors |-> Children(t)]
      /\ nViews' = [t \in Tensors |-> Views(t)]
  BY NodeFacts DEF CountChildren, Measuring, MeasureInv, WalkInv, tallocr
<1>2. LastDone' = LastDone /\ LastDone \in Int
  BY <1>1 DEF LastDone
<1>3. Live' = Live
  BY <1>1, LiveSame
<1>4. \A u \in Tensors : Placed(u)' <=> Placed(u)
  BY <1>1, <1>2, ShapeKept DEF Placed
<1>5. LifeInv' /\ PlaceInv'
  BY <1>1, <1>2, <1>4, PlacesFrame DEF MeasureInv
<1>6. WalkInv'
  <2>1. \A t \in Tensors : Children(t) \in Nat /\ Views(t) \in Nat
    BY FiniteUses, FS_CardinalityType DEF Children, Views
  <2>2. nChildren' \in [Tensors -> Nat] /\ nViews' \in [Tensors -> Nat]
    BY <1>1, <2>1
  <2> QED
    BY <1>1, <2>2, ShapeKept DEF MeasureInv, WalkInv
<1>7. CountInv'
  <2>1. ASSUME NEW t \in Tensors PROVE ReadsLeft(t)' = Uses(t)
    <3>1. ASSUME NEW r \in Uses(t) PROVE ToCome(r[1], r[2])'
      <4>1. r[1] \in 1..NNodes
        BY DEF Uses
      <4>2. NLeafs + r[1] > node \/ NLeafs + r[1] = node
        BY <1>1, <4>1
      <4> QED
        BY <1>1, <4>2, ShapeKept DEF ToCome
    <3> QED
      BY <1>1, <3>1, ShapeKept DEF ReadsLeft
  <2>2. ASSUME NEW v \in Tensors PROVE ~Dead(v)'
    <3>1. ASSUME Used(v) PROVE Children(v) # 0
      <4>0. PICK i \in 1..NNodes :
              \E k \in DOMAIN graph.nodes[i].src : graph.nodes[i].src[k] = v
        BY <3>1 DEF Used
      <4>1. PICK j \in DOMAIN graph.nodes[i].src : graph.nodes[i].src[j] = v
        BY <4>0
      <4>2. j \in 1..GGML_MAX_SRC
        BY SlotFacts
      <4>3. <<i, j>> \in Uses(v)
        BY <4>1, <4>2 DEF Uses
      <4> QED
        BY <4>3, FiniteUses, SmallSets DEF Children
    <3> QED
      BY <1>1, <3>1, ShapeKept DEF Dead
  <2>3. ASSUME NEW t \in Tensors PROVE ViewsLeft(t)' = ViewsOf(t)
    <3>1. \A i \in ViewsOf(t) : NLeafs + i \in Tensors
      BY NodeFacts DEF ViewsOf
    <3>2. \A i \in ViewsOf(t) : ~Dead(NLeafs + i)'
      <4>1. \A v \in Tensors : ~Dead(v)'
        BY <2>2
      <4> QED
        BY <1>1, <3>1, <4>1, ShapeKept
    <3> QED
      BY <1>1, <3>2, ShapeKept DEF ViewsLeft
  <2>4. \A t \in Tensors : /\ nChildren'[t] = Cardinality(ReadsLeft(t)')
                           /\ nViews'[t] = Cardinality(ViewsLeft(t)')
    BY <1>1, <2>1, <2>3 DEF Children, Views
  <2>5. CountInv' <=> (pc' \in {"node", "parents"} =>
          \A t \in Tensors : /\ nChildren'[t] = Cardinality(ReadsLeft(t)')
                             /\ nViews'[t] = Cardinality(ViewsLeft(t)'))
    BY <1>1, ShapeKept DEF CountInv
  <2> QED
    BY <2>4, <2>5
<1> QED
  BY <1>1, <1>3, <1>5, <1>6, <1>7

LEMMA AllocNodeKept ==
  ASSUME WellFormed(graph), MeasureInv, AllocNode
  PROVE  /\ P!Alloc(Size(node)) \/ (free' = free /\ maxSize' = maxSize /\ Live' = Live)
         /\ node \in Tensors /\ Measuring /\ Measuring'
         /\ WalkInv' /\ LifeInv' /\ PlaceInv' /\ CountInv'
<1>1. /\ pc = "node" /\ pc' = "parents" /\ graph' = graph /\ node' = node /\ parent' = 1
      /\ node \in Tensors /\ nChildren' = nChildren /\ nViews' = nViews
      /\ Measuring /\ Measuring' /\ AllocateNode(node)
  BY DEF AllocNode, Measuring
<1>2. /\ node \in Nat /\ NLeafs \in Nat /\ NNodes \in Nat /\ node > NLeafs /\ ~IsLeaf(node)
      /\ LastDone = node - 1 /\ LastDone' = node
  BY <1>1, NodeFacts, SourceFacts DEF MeasureInv, WalkInv, IsLeaf, LastDone
<1>3. CountInv'
  <2>1. ASSUME NEW t \in Tensors PROVE ReadsLeft(t)' = ReadsLeft(t)
    <3>1. ASSUME NEW r \in Uses(t) PROVE ToCome(r[1], r[2])' <=> ToCome(r[1], r[2])
      <4>1. r[2] >= 1
        BY DEF Uses, GGML_MAX_SRC
      <4> QED
        BY <1>1, <4>1, ShapeKept DEF ToCome
    <3> QED
      BY <1>1, <3>1, ShapeKept DEF ReadsLeft
  <2> QED
    BY <1>1, <2>1, CountFrame DEF MeasureInv
<1>4. offset' \in [Tensors -> Nat] /\ allocated' \in [Tensors -> BOOLEAN] => WalkInv'
  <2> DEFINE q == Src(node)
  <2>1. node' \in NLeafs + 1..NLeafs + NNodes
    BY <1>1, <1>2 DEF Tensors
  <2>2. Len(q) \in Nat
    BY <1>1, SourceFacts, ElementFacts
  <2> HIDE DEF q
  <2>3. parent' \in 1..Len(q) + 1
    BY <1>1, <2>2
  <2>4. Src(node)' = q
    BY <1>1, ShapeKept DEF q
  <2> QED
    BY <1>1, <2>1, <2>3, <2>4, ShapeKept DEF MeasureInv, WalkInv
<1>5. ~allocated[node]
  BY <1>1, <1>2 DEF MeasureInv, LifeInv, Placed
<1>6. CASE IsView(node)
  <2>1. offset' = offset /\ allocated' = allocated /\ free' = free /\ maxSize' = maxSize
    BY <1>1, <1>6 DEF AllocateNode, tallocr
  <2>2. \A u \in Tensors : u \in Nat /\ (Placed(u)' <=> Placed(u))
    <3> SUFFICES ASSUME NEW u \in Tensors PROVE u \in Nat /\ (Placed(u)' <=> Placed(u))
      OBVIOUS
    <3>1. u \in Nat /\ (Owns(u) => u # node) /\ Owns(u)' = Owns(u)
      BY <1>1, <1>6, SourceFacts, ShapeKept DEF Owns
    <3> QED
      BY <1>1, <1>2, <3>1 DEF Placed
  <2>3. LifeInv' /\ PlaceInv'
    <3>1. pc' # "leaf" /\ LastDone' \in Int /\ LastDone \in Int /\ LastDone <= LastDone'
      BY <1>1, <1>2
    <3> QED
      BY <1>1, <2>1, <2>2, <3>1, PlacesFrame DEF MeasureInv
  <2>4. WalkInv' /\ Live' = Live
    BY <1>1, <1>4, <2>1, LiveSame DEF MeasureInv, WalkInv
  <2> QED
    BY <1>1, <1>3, <2>1, <2>3, <2>4
<1>7. CASE ~IsView(node) /\ AllocateNew(node)
  <2>1. /\ P!Alloc(Size(node))
        /\ offset' \in [Tensors -> Nat] /\ allocated' \in [Tensors -> BOOLEAN]
        /\ \A u \in Tensors \ {node} : offset'[u] = offset[u] /\ allocated'[u] = allocated[u]
        /\ allocated'[node]
        /\ maxSize <= maxSize' /\ offset'[node] + Size(node) <= maxSize'
        /\ \A u \in Tensors : allocated[u] => Apart(offset', u, node)
    BY <1>1, <1>5, <1>7, NewRange DEF MeasureInv
  <2>2. maxSize' \in Nat
    <3>1. P!TallocrInv'
      BY <1>1, <2>1, TallocrConstants, P!AllocKept, SourceFacts DEF MeasureInv
    <3> QED
      BY <1>1, <3>1 DEF P!TallocrInv
  <2>3. LifeInv' /\ PlaceInv'
    <3> DEFINE gone == {}
    <3>1. /\ gone \in SUBSET Tensors /\ node \notin gone
          /\ \A u \in Tensors \ (gone \union {node}) : allocated'[u] = allocated[u]
          /\ \A u \in gone : ~allocated'[u] /\ ~Keeps(u, node)
          /\ \A u \in Tensors : allocated[u] /\ u \notin gone => Apart(offset', u, node)
      BY <2>1
    <3>2. pc = "leaf" => gone = {}
      OBVIOUS
    <3> HIDE DEF gone
    <3> QED
      BY <1>1, <1>2, <1>7, <2>1, <2>2, <3>1, <3>2, PlaceGiven DEF MeasureInv
  <2> QED
    BY <1>1, <1>3, <1>4, <2>1, <2>3
<1>8. CASE ~IsView(node) /\ Reuse(node)
  <2>1. /\ free' = free /\ maxSize' = maxSize /\ Live' = Live
        /\ offset' \in [Tensors -> Nat] /\ allocated' \in [Tensors -> BOOLEAN]
        /\ \A u \in Tensors \ {node} : offset'[u] = offset[u]
        /\ allocated'[node] /\ offset'[node] + Size(node) <= maxSize'
    BY <1>1, <1>5, <1>8, TakenOver DEF MeasureInv
  <2>2. PICK j \in Donors(node) :
          /\ Src(node)[j] \in Tensors /\ Src(node)[j] # node
          /\ \A u \in Tensors \ {node, Src(node)[j]} : allocated'[u] = allocated[u]
          /\ ~allocated'[Src(node)[j]]
          /\ \A u \in Tensors : allocated[u] /\ u # Src(node)[j] => Apart(offset', u, node)
    BY <1>1, <1>5, <1>8, TakenOver DEF MeasureInv
  <2>3. ~Keeps(Src(node)[j], node)
    BY <1>1, DonorDone DEF MeasureInv
  <2>4. maxSize' \in Nat /\ maxSize <= maxSize'
    BY <1>1, <2>1, LiveFacts DEF MeasureInv
  <2>5. LifeInv' /\ PlaceInv'
    <3> DEFINE gone == {Src(node)[j]}
    <3>1. /\ gone \in SUBSET Tensors /\ node \notin gone
          /\ \A u \in Tensors \ (gone \union {node}) : allocated'[u] = allocated[u]
          /\ \A u \in gone : ~allocated'[u] /\ ~Keeps(u, node)
          /\ \A u \in Tensors : allocated[u] /\ u \notin gone => Apart(offset', u, node)
      BY <2>2, <2>3
    <3> HIDE DEF gone
    <3> QED
      BY <1>1, <1>2, <1>8, <2>1, <2>4, <3>1, PlaceGiven DEF MeasureInv
  <2> QED
    BY <1>1, <1>3, <1>4, <2>1, <2>5
<1> QED
  BY <1>1, <1>6, <1>7, <1>8 DEF AllocateNode

(* A read is counted down, and a view when it was its last.                 *)
LEMMA UpdateCounts ==
  ASSUME WellFormed(graph), WalkInv, CountInv, UpdateParent
  PROVE  /\ CountInv'
         /\ nChildren' \in [Tensors -> Nat] /\ nViews' \in [Tensors -> Nat]
<1> DEFINE c == <<node - NLeafs, parent>>
<1>1. /\ pc = "parents" /\ pc' = "parents" /\ graph' = graph /\ node' = node
      /\ parent' = parent + 1 /\ parent <= Len(Src(node)) /\ parent \in Nat \ {0}
      /\ node \in Tensors /\ node \in Nat /\ NLeafs \in Nat /\ NNodes \in Nat
  <2> DEFINE k == Len(Src(node))
  <2>1. /\ pc = "parents" /\ pc' = "parents" /\ graph' = graph /\ node' = node
        /\ parent' = parent + 1 /\ parent <= Len(Src(node))
    BY DEF UpdateParent
  <2>2. node \in Tensors /\ node \in Nat /\ NLeafs \in Nat /\ NNodes \in Nat
    BY <2>1, NodeFacts DEF WalkInv, Tensors
  <2>3. k \in Nat /\ parent \in 1..k + 1
    BY <2>1, <2>2, SourceFacts, ElementFacts DEF WalkInv
  <2> HIDE DEF k
  <2>4. parent \in Nat \ {0}
    BY <2>3
  <2> QED
    BY <2>1, <2>2, <2>4
<1>2. parent \in DOMAIN Src(node)
  <2> DEFINE q == Src(node)
  <2>1. DOMAIN q = 1..Len(q) /\ Len(q) \in Nat /\ parent <= Len(q)
    BY <1>1, SourceFacts, ElementFacts
  <2> HIDE DEF q
  <2>2. parent \in DOMAIN q
    BY <1>1, <2>1
  <2> QED
    BY <2>2 DEF q
<1>3. PICK p \in Tensors : p = Src(node)[parent]
  BY <1>1, <1>2, SourceFacts
<1>4. /\ nChildren' = [nChildren EXCEPT ![p] = @ - 1]
      /\ nViews' = IF IsView(p) /\ nChildren[p] = 1 /\ nViews[p] = 0
                   THEN [nViews EXCEPT ![ViewSrc(p)] = @ - 1] ELSE nViews
  BY <1>3 DEF UpdateParent, DropChild
<1>5. /\ nChildren \in [Tensors -> Nat] /\ nViews \in [Tensors -> Nat]
  BY <1>1 DEF WalkInv, Measuring
<1>6. /\ c \in ReadsLeft(p) /\ nChildren[p] >= 1 /\ NLeafs + (node - NLeafs) = node
      /\ node - NLeafs \in 1..NNodes
  <2>1. parent >= parent
    BY <1>1
  <2> QED
    BY <1>1, <1>2, <1>3, <2>1, ReadCounted
<1>7. ASSUME NEW t \in Tensors PROVE ReadsLeft(t)' = ReadsLeft(t) \ {c}
  <2>1. ASSUME NEW r \in Uses(t) PROVE ToCome(r[1], r[2])' <=> ToCome(r[1], r[2]) /\ r # c
    <3>1. r[1] \in 1..NNodes /\ r[2] \in 1..GGML_MAX_SRC /\ r = <<r[1], r[2]>>
      BY DEF Uses
    <3>2. ToCome(r[1], r[2])' <=> \/ NLeafs + r[1] > node
                                  \/ NLeafs + r[1] = node /\ r[2] >= parent + 1
      BY <1>1, ShapeKept DEF ToCome
    <3>3. ToCome(r[1], r[2]) <=> \/ NLeafs + r[1] > node
                                 \/ NLeafs + r[1] = node /\ r[2] >= parent
      BY <1>1 DEF ToCome
    <3>4. r = c <=> NLeafs + r[1] = node /\ r[2] = parent
      BY <1>1, <3>1
    <3> DEFINE a == r[1]
               b == r[2]
    <3> HIDE DEF a, b
    <3>5. a \in Nat /\ b \in Nat
      BY <1>1, <3>1 DEF a, b, GGML_MAX_SRC
    <3>6. (\/ NLeafs + a > node
           \/ NLeafs + a = node /\ b >= parent + 1) <=>
          /\ \/ NLeafs + a > node
             \/ NLeafs + a = node /\ b >= parent
          /\ ~(NLeafs + a = node /\ b = parent)
      BY <1>1, <3>5
    <3> QED
      BY <3>2, <3>3, <3>4, <3>6 DEF a, b
  <2> HIDE DEF c
  <2> QED
    BY <1>1, <2>1, ShapeKept DEF ReadsLeft
<1> HIDE DEF c
<1>8. ASSUME NEW t \in Tensors
      PROVE  nChildren'[t] = Cardinality(ReadsLeft(t)') /\ nChildren'[t] \in Nat
  <2>1. nChildren[t] = Cardinality(ReadsLeft(t)) /\ IsFiniteSet(ReadsLeft(t))
    BY <1>1, FiniteUses DEF CountInv
  <2>2. CASE t = p
    <3>1. Cardinality(ReadsLeft(t) \ {c}) = Cardinality(ReadsLeft(t)) - 1
      BY <1>6, <2>1, <2>2, SmallSets
    <3>2. nChildren'[t] = nChildren[t] - 1
      BY <1>4, <1>5, <2>2
    <3> QED
      BY <1>5, <1>6, <1>7, <2>1, <2>2, <3>1, <3>2
  <2>3. CASE t # p
    <3>1. c \notin ReadsLeft(t)
      BY <1>6, <2>3 DEF ReadsLeft, Uses
    <3>2. ReadsLeft(t)' = ReadsLeft(t)
      BY <1>7, <3>1
    <3>3. nChildren'[t] = nChildren[t]
      BY <1>4, <1>5, <2>3
    <3> QED
      BY <1>5, <2>1, <3>2, <3>3
  <2> QED
    BY <2>2, <2>3
<1>9. \A v \in Tensors : v # p => (Dead(v)' <=> Dead(v))
  BY <1>1, <1>4, <1>5, ShapeKept DEF Dead
<1>10. Used(p)
  <2>1. Src(node) = graph.nodes[node - NLeafs].src
    BY <1>1, NodeFacts DEF Src, IsLeaf, WalkInv
  <2> QED
    BY <1>2, <1>3, <1>6, <2>1 DEF Used
<1>11. Dead(p)' <=> nChildren[p] = 1
  <2>1. nChildren'[p] = nChildren[p] - 1 /\ nChildren[p] \in Nat
    BY <1>4, <1>5
  <2> QED
    BY <1>1, <1>10, <2>1, ShapeKept DEF Dead
<1>12. ~Dead(p)
  BY <1>6 DEF Dead
<1>13. IsView(p) => nViews[p] = 0
  <2> HAVE IsView(p)
  <2>1. ASSUME NEW i \in ViewsOf(p) PROVE FALSE
    <3>1. PICK v \in Tensors : ~IsLeaf(v) /\ NodeOf(v) = graph.nodes[i] /\ i \in 1..NNodes
      BY NodeFacts DEF ViewsOf
    <3>2. IsView(v) /\ ViewSrc(v) = p
      BY <3>1 DEF IsView, ViewSrc, ViewsOf
    <3>3. ~IsView(p)
      BY <3>2, OwnerFacts
    <3> QED
      BY <3>3
  <2>2. ViewsLeft(p) = {}
    BY <2>1 DEF ViewsLeft
  <2>3. nViews[p] = Cardinality({})
    BY <1>1, <2>2 DEF CountInv
  <2> QED
    BY <2>3, FS_EmptySet
<1>14. ASSUME NEW t \in Tensors
       PROVE  nViews'[t] = Cardinality(ViewsLeft(t)') /\ nViews'[t] \in Nat
  <2>1. nViews[t] = Cardinality(ViewsLeft(t)) /\ IsFiniteSet(ViewsLeft(t))
    BY <1>1, FiniteUses DEF CountInv
  <2>2. ViewsLeft(t)' = {i \in ViewsOf(t) : ~Dead(NLeafs + i)'}
    BY <1>1, ShapeKept DEF ViewsLeft
  <2>3. \A i \in ViewsOf(t) : i \in 1..NNodes /\ NLeafs + i \in Tensors
    BY NodeFacts DEF ViewsOf
  <2>4. CASE IsView(p) /\ nChildren[p] = 1 /\ ViewSrc(p) = t
    <3>0. PICK k \in 1..NNodes : k = p - NLeafs /\ NLeafs + k = p /\ k \in ViewsLeft(t)
      BY <1>1, <2>4, ViewCounted
    <3>1. \A i \in ViewsOf(t) : NLeafs + i = p <=> i = k
      BY <1>1, <2>3, <3>0
    <3>2. \A i \in ViewsOf(t) : ~Dead(NLeafs + i)' <=> ~Dead(NLeafs + i) /\ i # k
      BY <1>1, <1>9, <1>11, <2>3, <2>4, <3>0, <3>1, ShapeKept
    <3>3. ViewsLeft(t)' = ViewsLeft(t) \ {k}
      BY <2>2, <3>2 DEF ViewsLeft
    <3>4. /\ Cardinality(ViewsLeft(t) \ {k}) = Cardinality(ViewsLeft(t)) - 1
          /\ Cardinality(ViewsLeft(t)) >= 1
      BY <2>1, <3>0, SmallSets
    <3>5. nViews'[t] = nViews[t] - 1
      BY <1>4, <1>5, <1>13, <2>4
    <3> QED
      BY <1>5, <2>1, <3>3, <3>4, <3>5
  <2>5. CASE ~(IsView(p) /\ nChildren[p] = 1 /\ ViewSrc(p) = t)
    <3>1. \A i \in ViewsOf(t) : Dead(NLeafs + i)' <=> Dead(NLeafs + i)
      <4> SUFFICES ASSUME NEW i \in ViewsOf(t) PROVE Dead(NLeafs + i)' <=> Dead(NLeafs + i)
        OBVIOUS
      <4>1. PICK v \in Tensors : v = NLeafs + i
        BY <2>3
      <4>2. CASE v # p
        <5>1. Dead(v)' <=> Dead(v)
          BY <1>9, <4>2
        <5> QED
          BY <1>1, <4>1, <5>1, ShapeKept
      <4>3. CASE v = p
        <5>1. IsView(p) /\ ViewSrc(p) = t
          <6>1. ~IsLeaf(v) /\ NodeOf(v) = graph.nodes[i]
            BY <2>3, <4>1, NodeFacts
          <6> QED
            BY <4>3, <6>1 DEF IsView, ViewSrc, ViewsOf
        <5>2. ~Dead(v) /\ ~Dead(v)'
          BY <1>11, <1>12, <2>5, <4>3, <5>1
        <5> QED
          BY <1>1, <4>1, <5>2, ShapeKept
      <4> QED
        BY <4>2, <4>3
    <3>2. ViewsLeft(t)' = ViewsLeft(t)
      BY <2>2, <3>1 DEF ViewsLeft
    <3>3. nViews'[t] = nViews[t]
      BY <1>4, <1>5, <2>5
    <3> QED
      BY <1>5, <2>1, <3>2, <3>3
  <2> QED
    BY <2>4, <2>5
<1>15. nChildren' \in [Tensors -> Nat] /\ nViews' \in [Tensors -> Nat]
  <2>1. nChildren' = [t \in Tensors |-> nChildren'[t]] /\ nViews' = [t \in Tensors |-> nViews'[t]]
    BY <1>4, <1>5
  <2> QED
    BY <1>8, <1>14, <2>1
<1>16. CountInv'
  <2>1. CountInv' <=> (pc' \in {"node", "parents"} =>
          \A t \in Tensors : /\ nChildren'[t] = Cardinality(ReadsLeft(t)')
                             /\ nViews'[t] = Cardinality(ViewsLeft(t)'))
    BY <1>1, ShapeKept DEF CountInv
  <2> QED
    BY <1>8, <1>14, <2>1
<1> QED
  BY <1>15, <1>16

-----------------------------------------------------------------------------
(* What an owner gives back nobody will read.                               *)
LEMMA GivesBack ==
  ASSUME WellFormed(graph), WalkInv, LifeInv, CountInv, pc = "parents", pc' = "parents",
         graph' = graph, offset' = offset, maxSize' = maxSize,
         NEW t \in Tensors, allocated[t], FreeNode(t), node \in Tensors,
         \A n \in Tensors : n > node => ~Reads(n, t)
  PROVE  /\ \/ P!FreeTensor(BlockOf(t)) /\ BlockOf(t) \in Live
            \/ free' = free /\ Live' = Live /\ allocated' = allocated
         /\ allocated' \in [Tensors -> BOOLEAN]
         /\ \A u \in Tensors : allocated'[u] => allocated[u]
         /\ \A u \in Tensors : allocated[u] => allocated'[u] \/ ~Keeps(u, node)
<1>1. Measuring /\ Measuring' /\ allocated \in [Tensors -> BOOLEAN]
  BY DEF Measuring, WalkInv
<1>2. CASE IsOutput(t)
  <2>1. free' = free /\ allocated' = allocated
    BY <1>2 DEF FreeNode
  <2>2. Live' = Live
    BY <2>1, LiveSame
  <2> QED
    BY <1>1, <2>1, <2>2
<1>3. CASE ~IsOutput(t)
  <2>1. free' = DT!Merge(free, BlockOf(t)) /\ allocated' = [allocated EXCEPT ![t] = FALSE]
    BY <1>3 DEF FreeNode
  <2>2. ~Keeps(t, node)
    BY <1>3 DEF Keeps
  <2>3. /\ allocated' \in [Tensors -> BOOLEAN]
        /\ \A u \in Tensors : u # t => allocated'[u] = allocated[u]
        /\ ~allocated'[t]
    BY <1>1, <2>1
  <2>4. \A u \in Tensors : allocated'[u] => allocated[u]
    BY <2>3
  <2>5. \A u \in Tensors : allocated[u] => allocated'[u] \/ ~Keeps(u, node)
    BY <2>2, <2>3
  <2>6. BlockOf(t) \in Live
    BY DEF Live
  <2>7. Live' = Live \ {BlockOf(t)}
    <3>1. Live' = {BlockOf(u) : u \in {v \in Tensors : allocated'[v]}}
      <4>1. \A u : BlockOf(u)' = BlockOf(u)
        BY ShapeKept DEF BlockOf
      <4> QED
        BY <4>1, ShapeKept DEF Live
    <3>2. \A u \in Tensors : allocated[u] /\ u # t => BlockOf(u) # BlockOf(t)
      BY <1>1 DEF LifeInv
    <3>3. ASSUME NEW x \in Live' PROVE x \in Live /\ x # BlockOf(t)
      <4>1. PICK u \in Tensors : allocated'[u] /\ x = BlockOf(u)
        BY <3>1
      <4>2. allocated[u] /\ u # t
        BY <2>3, <2>4, <4>1
      <4> QED
        BY <3>2, <4>1, <4>2 DEF Live
    <3>4. ASSUME NEW x \in Live, x # BlockOf(t) PROVE x \in Live'
      <4>1. PICK u \in Tensors : allocated[u] /\ x = BlockOf(u)
        BY DEF Live
      <4>2. allocated'[u]
        BY <2>3, <3>4, <4>1
      <4> QED
        BY <3>1, <4>1, <4>2
    <3> QED
      BY <3>3, <3>4
  <2>8. free' = P!Merge(free, BlockOf(t))
    BY <2>1 DEF P!Merge, DT!Merge, P!Before, DT!Before, P!After, DT!After, P!End, DT!End,
                P!Block, DT!Block
  <2>9. P!FreeTensor(BlockOf(t))
    BY <1>1, <2>6, <2>7, <2>8 DEF P!FreeTensor
  <2> QED
    BY <2>3, <2>4, <2>5, <2>6, <2>9
<1> QED
  BY <1>2, <1>3

LEMMA UpdateParentKept ==
  ASSUME WellFormed(graph), MeasureInv, UpdateParent
  PROVE  /\ \/ \E t \in Tensors : P!FreeTensor(BlockOf(t)) /\ BlockOf(t) \in Live
            \/ free' = free /\ Live' = Live
         /\ maxSize' = maxSize /\ Measuring /\ Measuring'
         /\ WalkInv' /\ LifeInv' /\ PlaceInv' /\ CountInv'
<1> DEFINE q == Src(node)
<1>1. /\ pc = "parents" /\ pc' = "parents" /\ graph' = graph /\ node' = node
      /\ parent' = parent + 1 /\ parent <= Len(q)
      /\ offset' = offset /\ maxSize' = maxSize /\ Measuring /\ Measuring'
      /\ DropChild(q[parent])
  BY DEF UpdateParent, Measuring
<1>2. node \in Tensors /\ node \in Nat /\ NLeafs \in Nat /\ NNodes \in Nat
  BY <1>1, NodeFacts DEF MeasureInv, WalkInv, Tensors
<1>3. q \in Seq(Nat) /\ Len(q) \in Nat /\ DOMAIN q = 1..Len(q) /\ parent \in 1..Len(q) + 1
  BY <1>1, <1>2, SourceFacts, ElementFacts DEF MeasureInv, WalkInv
<1>4. parent \in DOMAIN Src(node) /\ parent >= parent
  <2> HIDE DEF q
  <2>1. parent \in DOMAIN q /\ parent >= parent
    BY <1>1, <1>3
  <2> QED
    BY <2>1 DEF q
<1>5. PICK p \in Tensors : p = Src(node)[parent]
  BY <1>2, <1>4, SourceFacts
<1>6. DropChild(p)
  BY <1>1, <1>5
<1>7. nChildren[p] >= 1 /\ nChildren[p] \in Nat /\ nViews[p] \in Nat
  BY <1>1, <1>2, <1>4, <1>5, ReadCounted DEF MeasureInv, WalkInv
<1>8. LastDone = node /\ LastDone' = node
  BY <1>1 DEF LastDone
<1>9. \A u \in Tensors : Placed(u)' <=> Placed(u)
  BY <1>1, <1>8, ShapeKept DEF Placed
<1>10. CountInv' /\ nChildren' \in [Tensors -> Nat] /\ nViews' \in [Tensors -> Nat]
  BY UpdateCounts DEF MeasureInv
<1>11. allocated' \in [Tensors -> BOOLEAN] => WalkInv'
  <2>1. Src(node)' = Src(node)
    BY <1>1, ShapeKept
  <2> HIDE DEF q
  <2>2. parent' \in 1..Len(q) + 1
    BY <1>1, <1>3
  <2>3. parent' \in 1..Len(Src(node)') + 1
    BY <2>1, <2>2 DEF q
  <2>4. node \in NLeafs + 1..NLeafs + NNodes /\ offset \in [Tensors -> Nat]
    BY <1>1 DEF MeasureInv, WalkInv
  <2> QED
    BY <1>1, <1>10, <2>3, <2>4, ShapeKept DEF WalkInv
<1>12. CASE Freed(p) = {}
  <2>1. free' = free /\ allocated' = allocated
    BY <1>6, <1>12 DEF DropChild
  <2>2. Live' = Live
    BY <1>1, <2>1, LiveSame
  <2>3. LifeInv' /\ PlaceInv'
    BY <1>1, <1>2, <1>8, <1>9, <2>1, PlacesFrame DEF MeasureInv
  <2>4. WalkInv'
    BY <1>1, <1>11, <2>1 DEF MeasureInv, WalkInv
  <2> QED
    BY <1>1, <1>10, <2>1, <2>2, <2>3, <2>4
<1>13. ASSUME NEW t \in Tensors, allocated[t], FreeNode(t),
              \A n \in Tensors : n > node => ~Reads(n, t)
       PROVE  /\ \/ \E u \in Tensors : P!FreeTensor(BlockOf(u)) /\ BlockOf(u) \in Live
                 \/ free' = free /\ Live' = Live
              /\ WalkInv' /\ LifeInv' /\ PlaceInv'
  <2>1. /\ \/ P!FreeTensor(BlockOf(t)) /\ BlockOf(t) \in Live
           \/ free' = free /\ Live' = Live /\ allocated' = allocated
        /\ allocated' \in [Tensors -> BOOLEAN]
        /\ \A u \in Tensors : allocated'[u] => allocated[u]
        /\ \A u \in Tensors : allocated[u] => allocated'[u] \/ ~Keeps(u, node)
    BY <1>1, <1>2, <1>13, GivesBack DEF MeasureInv
  <2>2. LifeInv' /\ PlaceInv'
    BY <1>1, <1>2, <1>8, <1>9, <2>1, PlacesFrame DEF MeasureInv
  <2> QED
    BY <1>11, <2>1, <2>2
<1>14. CASE Freed(p) # {}
  <2>1. nChildren[p] = 1 /\ nViews[p] = 0
    <3>1. ~(nChildren[p] > 1) /\ ~(nViews[p] > 0)
      BY <1>14 DEF Freed
    <3> QED
      BY <1>7, <3>1
  <2>2. CASE ~IsView(p)
    <3>1. allocated[p] /\ Freed(p) = {p}
      BY <1>14, <2>2 DEF Freed
    <3>2. FreeNode(p)
      BY <1>6, <3>1 DEF DropChild
    <3>3. \A n \in Tensors : n > node => ~Reads(n, p)
      BY <1>1, <1>2, <1>4, <1>5, <2>1, LastReader DEF MeasureInv
    <3> QED
      BY <1>1, <1>10, <1>13, <3>1, <3>2, <3>3
  <2>3. CASE IsView(p)
    <3>1. PICK o \in Tensors : o = ViewSrc(p)
      BY <2>3, OwnerFacts
    <3>2. allocated[o] /\ Freed(p) = {o} /\ nViews[o] = 1 /\ nChildren[o] = 0
      BY <1>14, <2>3, <3>1 DEF Freed
    <3>3. FreeNode(o)
      BY <1>6, <3>2 DEF DropChild
    <3>4. \A n \in Tensors : n > node => ~Reads(n, o)
      BY <1>1, <1>2, <1>4, <1>5, <2>1, <2>3, <3>1, <3>2, LastViewer DEF MeasureInv
    <3> QED
      BY <1>1, <1>10, <1>13, <3>2, <3>3, <3>4
  <2> QED
    BY <2>2, <2>3
<1> QED
  BY <1>12, <1>14

LEMMA NextNodeKept ==
  ASSUME WellFormed(graph), MeasureInv, NextNode
  PROVE  /\ free' = free /\ maxSize' = maxSize /\ Live' = Live
         /\ Measuring /\ Measuring'
         /\ WalkInv' /\ LifeInv' /\ PlaceInv' /\ CountInv'
<1> DEFINE k == Len(Src(node))
<1>1. /\ pc = "parents" /\ pc' = "node" /\ graph' = graph /\ node' = node + 1
      /\ offset' = offset /\ allocated' = allocated /\ free' = free /\ maxSize' = maxSize
      /\ nChildren' = nChildren /\ nViews' = nViews /\ parent > k
      /\ Measuring /\ Measuring'
  BY DEF NextNode, Measuring, hash, tallocr
<1>2. node \in Tensors /\ node \in Nat /\ NLeafs \in Nat /\ NNodes \in Nat /\ node > NLeafs
      /\ node <= NLeafs + NNodes
  BY <1>1, NodeFacts DEF MeasureInv, WalkInv, Tensors
<1>3. LastDone = node /\ LastDone' = node
  BY <1>1, <1>2 DEF LastDone
<1>4. \A u \in Tensors : Placed(u)' <=> Placed(u)
  BY <1>1, <1>3, ShapeKept DEF Placed
<1>5. LifeInv' /\ PlaceInv'
  BY <1>1, <1>2, <1>3, <1>4, PlacesFrame DEF MeasureInv
<1>6. Live' = Live
  BY <1>1, LiveSame
<1>7. WalkInv'
  <2>1. node' \in NLeafs + 1..NLeafs + NNodes + 1
    BY <1>1, <1>2
  <2> QED
    BY <1>1, <2>1, ShapeKept DEF MeasureInv, WalkInv
<1>8. ASSUME NEW t \in Tensors PROVE ReadsLeft(t)' = ReadsLeft(t)
  <2>1. ASSUME NEW r \in Uses(t) PROVE ToCome(r[1], r[2])' <=> ToCome(r[1], r[2])
    <3>1. r[1] \in 1..NNodes /\ r[2] \in 1..GGML_MAX_SRC
          /\ r[2] \in DOMAIN graph.nodes[r[1]].src
      BY DEF Uses
    <3>2. ToCome(r[1], r[2])' <=> NLeafs + r[1] > node
      <4>1. ToCome(r[1], r[2])' <=> NLeafs + r[1] > node + 1 \/ NLeafs + r[1] = node + 1
        BY <1>1, ShapeKept DEF ToCome
      <4> QED
        BY <1>2, <3>1, <4>1
    <3>3. NLeafs + r[1] = node => ~(r[2] >= parent)
      <4> HAVE NLeafs + r[1] = node
      <4>1. Src(node) = graph.nodes[r[1]].src
        <5>1. r[1] = node - NLeafs
          BY <1>2, <3>1
        <5> QED
          BY <1>2, <5>1, NodeFacts DEF Src, IsLeaf
      <4>2. k \in Nat /\ r[2] \in 1..k /\ parent \in Nat
        <5>1. DOMAIN Src(node) = 1..k /\ k \in Nat
          BY <1>2, SourceFacts, ElementFacts
        <5> HIDE DEF k
        <5>2. parent \in 1..k + 1
          BY <1>1 DEF MeasureInv, WalkInv, k
        <5> QED
          BY <3>1, <4>1, <5>1, <5>2
      <4> HIDE DEF k
      <4> QED
        BY <1>1, <4>2
    <3> QED
      BY <1>1, <3>2, <3>3 DEF ToCome
  <2> QED
    BY <1>1, <2>1, ShapeKept DEF ReadsLeft
<1>9. CountInv'
  BY <1>1, <1>8, CountFrame DEF MeasureInv
<1> QED
  BY <1>1, <1>5, <1>6, <1>7, <1>9


-----------------------------------------------------------------------------
(* Every step is one of the tensor allocator's, or none.                    *)
LEMMA NoMeasureStep ==
  ASSUME ~Measuring, ~Measuring'
  PROVE  P!Init /\ UNCHANGED P!vars
BY DEF P!Init, P!vars, P!Empty, P!Block

LEMMA SameStep ==
  ASSUME Measuring, Measuring', free' = free, maxSize' = maxSize, Live' = Live
  PROVE  UNCHANGED P!vars
BY DEF P!vars

(* The walk begins with an empty allocator.                                 *)
LEMMA AllocGraphStarts ==
  ASSUME WellFormed(graph), AllocGraph, NeedsRealloc
  PROVE  ~Measuring /\ Measuring' /\ P!Reset /\ WalkInv' /\ LifeInv' /\ PlaceInv' /\ CountInv'
<1>1. /\ pc = "idle" /\ pc' = "leaf" /\ node' = 1 /\ graph' = graph
      /\ nChildren' = [t \in Tensors |-> 0] /\ nViews' = [t \in Tensors |-> 0]
      /\ offset' = [t \in Tensors |-> 0] /\ allocated' = [t \in Tensors |-> FALSE]
      /\ free' = DT!Empty /\ maxSize' = 0
  BY DEF AllocGraph
<1>2. ~Measuring /\ Measuring'
  BY <1>1 DEF Measuring
<1>3. \A t \in Tensors : ~allocated'[t]
  BY <1>1
<1>4. Live' = {}
  <2>1. Live' = {BlockOf(u)' : u \in {v \in Tensors : allocated'[v]}}
    BY <1>1, ShapeKept DEF Live
  <2> QED
    BY <1>3, <2>1
<1>5. P!Reset
  BY <1>1, <1>2, <1>4 DEF P!Reset, P!Empty, DT!Empty, P!Block, DT!Block
<1>6. WalkInv'
  <2>1. node' \in 1..NLeafs + 1 /\ pc' = "leaf"
    BY <1>1, NodeFacts
  <2>2. /\ offset' \in [Tensors -> Nat] /\ allocated' \in [Tensors -> BOOLEAN]
        /\ nChildren' \in [Tensors -> Nat] /\ nViews' \in [Tensors -> Nat]
    BY <1>1
  <2> QED
    BY <1>1, <2>1, <2>2, ShapeKept DEF WalkInv
<1>7. LastDone' = 0
  BY <1>1 DEF LastDone
<1>8. \A t \in Tensors : ~Placed(t)'
  <2> SUFFICES ASSUME NEW t \in Tensors PROVE ~Placed(t)'
    OBVIOUS
  <2>1. t \in Nat /\ t # 0
    BY SourceFacts, NodeFacts DEF Tensors
  <2>2. ~(t <= LastDone')
    BY <1>7, <2>1
  <2> QED
    BY <2>2 DEF Placed
<1>9. LifeInv'
  BY <1>1, <1>3, <1>8, ShapeKept DEF LifeInv
<1>10. PlaceInv'
  BY <1>1, <1>8, ShapeKept DEF PlaceInv
<1>11. CountInv'
  BY <1>1 DEF CountInv
<1> QED
  BY <1>2, <1>5, <1>6, <1>9, <1>10, <1>11

(* And ends with giving up the allocator.                                   *)
LEMMA ReserveEnds ==
  ASSUME Reserve
  PROVE  Measuring /\ ~Measuring' /\ P!Reset
<1>1. pc = "node" /\ pc' = "load"
  BY DEF Reserve
<1>2. Measuring /\ ~Measuring'
  BY <1>1 DEF Measuring
<1> QED
  BY <1>2 DEF P!Reset, P!Empty, P!Block

LEMMA OtherSteps ==
  ASSUME ~(AllocGraph /\ NeedsRealloc),
         \/ BuildNode \/ BuildDone \/ AllocGraph
         \/ SetInputs \/ ComputeNode \/ ReadOutputs
  PROVE  ~Measuring /\ ~Measuring' /\ WalkInv' /\ LifeInv' /\ PlaceInv' /\ CountInv'
<1>1. pc \notin {"leaf", "node", "parents"} /\ pc' \notin {"leaf", "node", "parents"}
  BY DEF BuildNode, BuildDone, AllocGraph, SetInputs, ComputeNode, ReadOutputs
<1> QED
  BY <1>1 DEF Measuring, WalkInv, LifeInv, PlaceInv, CountInv

LEMMA MeasureStep ==
  ASSUME WellFormed(graph), MeasureInv, LeafsUsed, Next
  PROVE  [P!Next]_(P!vars) /\ MeasureInv'
<1>1. ASSUME P!Alloc(Size(node)), node \in Tensors
      PROVE  [P!Next]_(P!vars)
  BY <1>1, SourceFacts DEF P!Next
<1>2. ASSUME NEW t \in Tensors, P!FreeTensor(BlockOf(t)), BlockOf(t) \in Live, Measuring
      PROVE  [P!Next]_(P!vars)
  BY <1>2 DEF P!Next
<1>3. ASSUME P!Reset
      PROVE  [P!Next]_(P!vars)
  BY <1>3 DEF P!Next
<1>4. [P!Next]_(P!vars) /\ WalkInv' /\ LifeInv' /\ PlaceInv' /\ CountInv'
  <2>1. CASE AllocGraph /\ NeedsRealloc
    BY <1>3, <2>1, AllocGraphStarts
  <2>2. CASE AllocLeaf
    BY <1>1, <2>2, AllocLeafKept
  <2>3. CASE CountChildren
    <3>1. Measuring /\ Measuring'
      BY <2>3 DEF CountChildren, Measuring
    <3> QED
      BY <2>3, <3>1, CountChildrenKept, SameStep
  <2>4. CASE AllocNode
    BY <1>1, <2>4, AllocNodeKept, SameStep
  <2>5. CASE UpdateParent
    BY <1>2, <2>5, UpdateParentKept, SameStep
  <2>6. CASE NextNode
    BY <2>6, NextNodeKept, SameStep
  <2>7. CASE Reserve
    <3>1. pc' = "load"
      BY <2>7 DEF Reserve
    <3>2. WalkInv' /\ LifeInv' /\ PlaceInv' /\ CountInv'
      BY <3>1 DEF Measuring, WalkInv, LifeInv, PlaceInv, CountInv
    <3> QED
      BY <1>3, <2>7, <3>2, ReserveEnds
  <2>8. CASE /\ ~(AllocGraph /\ NeedsRealloc)
             /\ \/ BuildNode \/ BuildDone \/ AllocGraph
                \/ SetInputs \/ ComputeNode \/ ReadOutputs
    BY <2>8, OtherSteps, NoMeasureStep
  <2> QED
    BY <2>1, <2>2, <2>3, <2>4, <2>5, <2>6, <2>7, <2>8 DEF Next
<1>5. P!TallocrInv'
  BY <1>4, TallocrConstants, P!TallocrInvKept DEF MeasureInv
<1> QED
  BY <1>4, <1>5 DEF MeasureInv

-----------------------------------------------------------------------------
(* The places stored, and the graphs they serve.                            *)
LEMMA StoredFacts ==
  ASSUME WellFormed(graph), NEW off \in [Tensors -> Nat], NEW size \in [Tensors -> Nat],
         NEW st, st = StoredOf(off, size)
  PROVE  /\ \A t \in Tensors : IsLeaf(t) => st.leafs[t] = off[t]
         /\ \A t \in Tensors : ~IsLeaf(t) => st.nodes[t - NLeafs].offset = off[t]
         /\ \A i \in 1..NNodes : st.nodes[i].size =
              IF IsView(NLeafs + i) THEN 0 ELSE size[NLeafs + i]
         /\ \A i \in 1..NNodes : st.nodes[i].src =
              [j \in DOMAIN graph.nodes[i].src |->
                 IF IsView(graph.nodes[i].src[j]) THEN 0 ELSE size[graph.nodes[i].src[j]]]
<1>1. /\ st.leafs = [i \in 1..NLeafs |-> off[i]]
      /\ st.nodes = [i \in 1..NNodes |->
           [offset |-> off[NLeafs + i],
            size |-> IF IsView(NLeafs + i) THEN 0 ELSE size[NLeafs + i],
            src |-> [j \in DOMAIN graph.nodes[i].src |->
                 IF IsView(graph.nodes[i].src[j]) THEN 0 ELSE size[graph.nodes[i].src[j]]]]]
  BY DEF StoredOf
<1>2. \A i \in 1..NNodes :
        /\ st.nodes[i].offset = off[NLeafs + i]
        /\ st.nodes[i].size = IF IsView(NLeafs + i) THEN 0 ELSE size[NLeafs + i]
        /\ st.nodes[i].src = [j \in DOMAIN graph.nodes[i].src |->
                 IF IsView(graph.nodes[i].src[j]) THEN 0 ELSE size[graph.nodes[i].src[j]]]
  BY <1>1, SMTT(60)
<1>3. ASSUME NEW t \in Tensors, ~IsLeaf(t)
      PROVE  t - NLeafs \in 1..NNodes /\ NLeafs + (t - NLeafs) = t
  BY <1>3, NodeFacts, SourceFacts
<1>4. ASSUME NEW t \in Tensors, IsLeaf(t)
      PROVE  st.leafs[t] = off[t]
  BY <1>1, <1>4, NodeFacts
<1> QED
  BY <1>2, <1>3, <1>4

(* A graph no tensor of which is larger may take over the places.           *)
LEMMA PlacesServe ==
  ASSUME WellFormed(graph), NEW off \in [Tensors -> Nat], NEW size \in [Tensors -> Nat],
         NEW limit \in Nat, Serve(off, size, limit),
         \A t \in Tensors : Owns(t) => Size(t) <= size[t],
         NEW d, d = Places(StoredOf(off, size))
  PROVE  /\ d \in [Tensors -> Nat]
         /\ \A t \in Tensors : d[t] = d[Owner(t)]
         /\ Serve(d, [t \in Tensors |-> Size(t)], limit)
<1> DEFINE st == StoredOf(off, size)
           sizes == [t \in Tensors |-> Size(t)]
<1>1. \A t \in Tensors : /\ IsLeaf(t) => st.leafs[t] = off[t]
                         /\ ~IsLeaf(t) => st.nodes[t - NLeafs].offset = off[t]
  BY StoredFacts
<1>2. d = Places(st)
  OBVIOUS
<1> HIDE DEF st
<1>3. \A t \in Tensors : d[t] = IF IsLeaf(Owner(t)) THEN st.leafs[Owner(t)]
                               ELSE st.nodes[Owner(t) - NLeafs].offset
  BY <1>2 DEF Places, Owner
<1>4. DOMAIN d = Tensors /\ d = [t \in DOMAIN d |-> d[t]]
  BY <1>2 DEF Places
<1>5. \A t \in Tensors : Owner(t) \in Tensors /\ Owner(Owner(t)) = Owner(t) /\ Owns(Owner(t))
  BY OwnerFacts
<1>6. \A t \in Tensors : d[t] = off[Owner(t)]
  BY <1>1, <1>3, <1>5
<1>7. d \in [Tensors -> Nat]
  BY <1>4, <1>5, <1>6
<1>8. \A t \in Tensors : Owns(t) => /\ d[t] = off[t] /\ off[t] \in Nat /\ size[t] \in Nat
                                   /\ Size(t) \in Nat /\ Size(t) <= size[t] /\ sizes[t] = Size(t)
  <2> SUFFICES ASSUME NEW t \in Tensors, Owns(t)
               PROVE  /\ d[t] = off[t] /\ off[t] \in Nat /\ size[t] \in Nat
                      /\ Size(t) \in Nat /\ Size(t) <= size[t] /\ sizes[t] = Size(t)
    OBVIOUS
  <2>1. Owner(t) = t
    BY DEF Owns, Owner
  <2>2. Size(t) \in Nat
    BY SourceFacts, AllocatorConstants
  <2> QED
    BY <1>6, <2>1, <2>2
<1> HIDE DEF sizes
<1>9. Serve(d, sizes, limit)
  BY <1>8 DEF Serve, Owns
<1> QED
  BY <1>5, <1>6, <1>7, <1>9 DEF sizes

(* What the places stored serve is as large as the graph.                   *)
LEMMA EnoughRoom ==
  ASSUME WellFormed(graph), \A t \in 1..NLeafs : Used(t), ~NeedsRealloc,
         NEW off \in [Tensors -> Nat], NEW size \in [Tensors -> Nat],
         allocs = StoredOf(off, size)
  PROVE  \A t \in Tensors : Owns(t) => Size(t) <= size[t]
<1> SUFFICES ASSUME NEW t \in Tensors, Owns(t) PROVE Size(t) <= size[t]
  OBVIOUS
<1>1. ~IsView(t)
  BY DEF Owns
<1>2. \A i \in 1..NNodes : Enough(allocs.nodes[i].size, NLeafs + i)
  BY DEF NeedsRealloc
<1>3. \A i \in 1..NNodes : \A j \in DOMAIN graph.nodes[i].src :
        Enough(IF j \in DOMAIN allocs.nodes[i].src
               THEN allocs.nodes[i].src[j] ELSE 0, graph.nodes[i].src[j])
  BY DEF NeedsRealloc
<1>4. CASE ~IsLeaf(t)
  <2> DEFINE i == t - NLeafs
  <2>1. i \in 1..NNodes /\ NLeafs + i = t
    BY <1>4, NodeFacts, SourceFacts
  <2> HIDE DEF i
  <2>2. allocs.nodes[i].size = size[t]
    BY <1>1, <2>1, StoredFacts
  <2> QED
    BY <1>1, <1>2, <2>1, <2>2 DEF Enough
<1>5. CASE IsLeaf(t)
  <2>1. t \in 1..NLeafs
    BY <1>5, NodeFacts
  <2>2. PICK i \in 1..NNodes : \E j \in DOMAIN graph.nodes[i].src : graph.nodes[i].src[j] = t
    BY <2>1 DEF Used
  <2>3. PICK j \in DOMAIN graph.nodes[i].src : graph.nodes[i].src[j] = t
    BY <2>2
  <2>4. allocs.nodes[i].src = [k \in DOMAIN graph.nodes[i].src |->
          IF IsView(graph.nodes[i].src[k]) THEN 0 ELSE size[graph.nodes[i].src[k]]]
    BY StoredFacts
  <2>5. j \in DOMAIN allocs.nodes[i].src /\ allocs.nodes[i].src[j] = size[t]
    BY <1>1, <2>3, <2>4
  <2> QED
    BY <1>1, <1>3, <2>3, <2>5 DEF Enough
<1> QED
  BY <1>4, <1>5

(* A graph of the same shape: the places serve it if its tensors fit.       *)
ShapeAgrees ==
  /\ NLeafs' = NLeafs /\ NNodes' = NNodes /\ Tensors' = Tensors
  /\ \A i \in 1..NNodes : /\ graph'.nodes[i].src = graph.nodes[i].src
                          /\ graph'.nodes[i].op = graph.nodes[i].op
                          /\ graph'.nodes[i].view = graph.nodes[i].view
                          /\ graph'.nodes[i].output = graph.nodes[i].output

LEMMA SameGraph ==
  ASSUME graph' = graph
  PROVE  ShapeAgrees
BY ShapeKept DEF ShapeAgrees

LEMMA ShapesAgree ==
  ASSUME WellFormed(graph), WellFormed(graph'), SameShape(graph, graph')
  PROVE  ShapeAgrees
<1>1. NLeafs' = NLeafs /\ NNodes' = NNodes
  BY DEF NLeafs, NNodes, SameShape
<1>2. Tensors' = Tensors
  BY <1>1 DEF Tensors
<1>3. DOMAIN graph.nodes = 1..NNodes
  BY DEF WellFormed, Graph, NNodes
<1>4. \A i \in 1..NNodes : graph.nodes[i] \in Node /\ graph'.nodes[i] \in Node
  BY <1>1 DEF WellFormed, Graph, NNodes
<1>5. ASSUME NEW i \in 1..NNodes
      PROVE  /\ graph'.nodes[i].src = graph.nodes[i].src
             /\ graph'.nodes[i].op = graph.nodes[i].op
             /\ graph'.nodes[i].view = graph.nodes[i].view
             /\ graph'.nodes[i].output = graph.nodes[i].output
  <2> DEFINE m == graph.nodes[i]
             n == graph'.nodes[i]
  <2>1. [m EXCEPT !.size = n.size] = n
    BY <1>3 DEF SameShape
  <2>2. m \in Node /\ n \in Node
    BY <1>4
  <2> HIDE DEF m, n
  <2>3. n.src = m.src /\ n.op = m.op /\ n.view = m.view /\ n.output = m.output
    BY <2>1, <2>2 DEF Node
  <2> QED
    BY <2>3 DEF m, n
<1> QED
  BY <1>1, <1>2, <1>5 DEF ShapeAgrees

LEMMA AgreeFacts ==
  ASSUME WellFormed(graph), ShapeAgrees
  PROVE  /\ \A t \in Tensors : /\ IsLeaf(t)' = IsLeaf(t) /\ IsView(t)' = IsView(t)
                               /\ IsOutput(t)' = IsOutput(t) /\ Src(t)' = Src(t)
                               /\ Owner(t)' = Owner(t) /\ Owns(t)' = Owns(t)
         /\ \A s \in Tensors : \A t : Keeps(s, t)' = Keeps(s, t)
         /\ \A t : Used(t)' = Used(t)
<1>1. ASSUME NEW t \in Tensors
      PROVE  /\ IsLeaf(t)' = IsLeaf(t) /\ IsView(t)' = IsView(t)
             /\ IsOutput(t)' = IsOutput(t) /\ Src(t)' = Src(t)
             /\ Owner(t)' = Owner(t) /\ Owns(t)' = Owns(t)
  <2>1. IsLeaf(t)' = IsLeaf(t)
    BY DEF IsLeaf, ShapeAgrees
  <2>2. CASE IsLeaf(t)
    BY <2>1, <2>2 DEF IsView, IsOutput, Src, Owner, Owns, ShapeAgrees
  <2>3. CASE ~IsLeaf(t)
    <3> DEFINE i == t - NLeafs
    <3>1. i \in 1..NNodes /\ NodeOf(t) = graph.nodes[i] /\ NodeOf(t)' = graph'.nodes[i]
      BY <2>3, NodeFacts DEF ShapeAgrees, NodeOf
    <3>2. /\ NodeOf(t)'.src = NodeOf(t).src /\ NodeOf(t)'.op = NodeOf(t).op
          /\ NodeOf(t)'.view = NodeOf(t).view /\ NodeOf(t)'.output = NodeOf(t).output
      BY <3>1 DEF ShapeAgrees
    <3>3. /\ IsView(t)' = IsView(t) /\ IsOutput(t)' = IsOutput(t) /\ Src(t)' = Src(t)
          /\ ViewSrc(t)' = ViewSrc(t)
      BY <2>1, <2>3, <3>2 DEF IsView, IsOutput, Src, ViewSrc
    <3> QED
      BY <2>1, <3>3 DEF Owner, Owns, ShapeAgrees
  <2> QED
    BY <2>2, <2>3
<1>2. ASSUME NEW s \in Tensors, NEW m
      PROVE  Keeps(s, m)' = Keeps(s, m)
  <2>1. ASSUME NEW n \in Tensors
        PROVE  Reads(n, s)' <=> Reads(n, s)
    <3>1. \A j \in DOMAIN Src(n) : Src(n)[j] \in Tensors
      BY SourceFacts
    <3>2. \A j \in DOMAIN Src(n) : Owner(Src(n)[j])' = Owner(Src(n)[j])
      <4> SUFFICES ASSUME NEW j \in DOMAIN Src(n) PROVE Owner(Src(n)[j])' = Owner(Src(n)[j])
        OBVIOUS
      <4>1. PICK p \in Tensors : p = Src(n)[j]
        BY <3>1
      <4>2. Src(n)'[j] = p /\ Owner(p)' = Owner(p)
        BY <1>1, <4>1
      <4> QED
        BY <4>1, <4>2 DEF Owner, IsView, IsLeaf, ViewSrc, NodeOf
    <3> QED
      BY <1>1, <3>2 DEF Reads
  <2> QED
    BY <1>1, <2>1 DEF Keeps, ShapeAgrees
<1>3. \A t : Used(t)' = Used(t)
  BY DEF Used, ShapeAgrees
<1> QED
  BY <1>1, <1>2, <1>3

LEMMA StoredAgrees ==
  ASSUME WellFormed(graph), ShapeAgrees,
         NEW off \in [Tensors -> Nat], NEW size \in [Tensors -> Nat]
  PROVE  /\ StoredOf(off, size)' = StoredOf(off, size)
         /\ \A limit : Serve(off, size, limit)' <=> Serve(off, size, limit)
<1>1. \A i \in 1..NNodes : IsView(NLeafs + i)' = IsView(NLeafs + i) /\ NLeafs + i \in Tensors
  <2> SUFFICES ASSUME NEW i \in 1..NNodes
               PROVE  IsView(NLeafs + i)' = IsView(NLeafs + i) /\ NLeafs + i \in Tensors
    OBVIOUS
  <2>1. PICK t \in Tensors : t = NLeafs + i
    BY NodeFacts
  <2>2. IsView(t)' = IsView(t)
    BY AgreeFacts
  <2> QED
    BY <2>1, <2>2 DEF ShapeAgrees, IsView, IsLeaf, NodeOf
<1>2. \A i \in 1..NNodes : \A j \in DOMAIN graph.nodes[i].src :
        IsView(graph.nodes[i].src[j])' = IsView(graph.nodes[i].src[j])
  <2> SUFFICES ASSUME NEW i \in 1..NNodes, NEW j \in DOMAIN graph.nodes[i].src
               PROVE  IsView(graph.nodes[i].src[j])' = IsView(graph.nodes[i].src[j])
    OBVIOUS
  <2>1. PICK n \in Tensors : ~IsLeaf(n) /\ NodeOf(n) = graph.nodes[i]
    BY NodeFacts
  <2>2. Src(n) = graph.nodes[i].src
    BY <2>1 DEF Src
  <2>3. PICK t \in Tensors : t = graph.nodes[i].src[j]
    BY <2>2, SourceFacts
  <2>4. graph'.nodes[i].src[j] = t /\ IsView(t)' = IsView(t)
    BY <2>3, AgreeFacts DEF ShapeAgrees
  <2> QED
    BY <2>3, <2>4 DEF IsView, IsLeaf, NodeOf
<1>3. StoredOf(off, size)' = StoredOf(off, size)
  BY <1>1, <1>2 DEF StoredOf, ShapeAgrees
<1>4. \A limit : Serve(off, size, limit)' <=> Serve(off, size, limit)
  BY AgreeFacts DEF Serve, ShapeAgrees
<1> QED
  BY <1>3, <1>4

(* The places of a graph that is computed next.                             *)
LEMMA PlacesRun ==
  ASSUME WellFormed(graph), graph' = graph, bufferSize' \in Nat,
         NEW off \in [Tensors -> Nat], NEW size \in [Tensors -> Nat],
         Serve(off, size, bufferSize'), \A t \in Tensors : Owns(t) => Size(t) <= size[t],
         data' = Places(StoredOf(off, size))
  PROVE  RunInv'
<1>1. /\ data' \in [Tensors -> Nat] /\ \A t \in Tensors : data'[t] = data'[Owner(t)]
      /\ Serve(data', [t \in Tensors |-> Size(t)], bufferSize')
  BY PlacesServe
<1>2. PICK sizes \in [Tensors -> Nat] : sizes = [t \in Tensors |-> Size(t)]
  <2>1. \A t \in Tensors : Size(t) \in Nat
    BY SourceFacts, AllocatorConstants
  <2> QED
    BY <2>1
<1>3. [t \in Tensors |-> Size(t)]' = sizes
  BY <1>2, ShapeKept
<1>4. Serve(data', sizes, bufferSize')
  BY <1>1, <1>2
<1>5. Serve(data, sizes, bufferSize)'
  BY <1>4, ShapeKept DEF Serve
<1>6. \A t \in Tensors : Owner(t)' = Owner(t)
  BY ShapeKept
<1> QED
  BY <1>1, <1>3, <1>5, <1>6, ShapeKept DEF RunInv

(* Reserve stores what it gave out.                                         *)
LEMMA ReserveStores ==
  ASSUME WellFormed(graph), MeasureInv, bufferSize \in Nat, Reserve
  PROVE  StoredInv' /\ RunInv' /\ bufferSize' \in Nat
<1> DEFINE sizes == [t \in Tensors |-> Size(t)]
<1>1. /\ pc = "node" /\ pc' = "load" /\ graph' = graph /\ node \notin Tensors
      /\ allocs' = Stored /\ bufferSize' = DT!Max2(bufferSize, maxSize)
      /\ data' = Places(Stored)
  BY DEF Reserve
<1>2. /\ Measuring /\ LastDone = NLeafs + NNodes /\ maxSize \in Nat /\ offset \in [Tensors -> Nat]
  <2>1. Measuring /\ maxSize \in Nat /\ offset \in [Tensors -> Nat]
    BY <1>1 DEF Measuring, MeasureInv, P!TallocrInv, WalkInv
  <2>2. node = NLeafs + NNodes + 1
    BY <1>1, NodeFacts DEF MeasureInv, WalkInv, Tensors
  <2> QED
    BY <1>1, <2>1, <2>2, NodeFacts DEF LastDone
<1>3. bufferSize' \in Nat /\ maxSize <= bufferSize'
  BY <1>1, <1>2 DEF DT!Max2
<1>4. \A t \in Tensors : /\ Owns(t) => Placed(t)
                         /\ Size(t) \in Nat /\ offset[t] \in Nat /\ sizes[t] = Size(t)
  <2> SUFFICES ASSUME NEW t \in Tensors
               PROVE /\ Owns(t) => Placed(t)
                     /\ Size(t) \in Nat /\ offset[t] \in Nat /\ sizes[t] = Size(t)
    OBVIOUS
  <2>1. t <= LastDone
    BY <1>2, NodeFacts DEF Tensors
  <2>2. Size(t) \in Nat
    BY SourceFacts, AllocatorConstants
  <2> QED
    BY <1>2, <2>1, <2>2 DEF Placed
<1>5. sizes \in [Tensors -> Nat]
  BY <1>4
<1>6. Stored = StoredOf(offset, sizes)
  <2>1. \A i \in 1..NNodes : NLeafs + i \in Tensors /\ sizes[NLeafs + i] = Size(NLeafs + i)
    BY NodeFacts
  <2>2. \A i \in 1..NNodes : \A j \in DOMAIN graph.nodes[i].src :
          graph.nodes[i].src[j] \in Tensors
    <3> SUFFICES ASSUME NEW i \in 1..NNodes, NEW j \in DOMAIN graph.nodes[i].src
                 PROVE  graph.nodes[i].src[j] \in Tensors
      OBVIOUS
    <3>1. PICK t \in Tensors : ~IsLeaf(t) /\ NodeOf(t) = graph.nodes[i]
      BY NodeFacts
    <3>2. Src(t) = graph.nodes[i].src
      BY <3>1 DEF Src
    <3> QED
      BY <3>2, SourceFacts
  <2>3. \A i \in 1..NNodes : SizeMax(NLeafs + i) =
          IF IsView(NLeafs + i) THEN 0 ELSE sizes[NLeafs + i]
    BY <2>1 DEF SizeMax
  <2>4. \A i \in 1..NNodes : \A j \in DOMAIN graph.nodes[i].src :
          SizeMax(graph.nodes[i].src[j]) =
          IF IsView(graph.nodes[i].src[j]) THEN 0 ELSE sizes[graph.nodes[i].src[j]]
    BY <1>4, <2>2 DEF SizeMax
  <2> HIDE DEF sizes
  <2>5. \A i \in 1..NNodes :
         [j \in DOMAIN graph.nodes[i].src |-> SizeMax(graph.nodes[i].src[j])] =
         [j \in DOMAIN graph.nodes[i].src |->
            IF IsView(graph.nodes[i].src[j]) THEN 0 ELSE sizes[graph.nodes[i].src[j]]]
    BY <2>4
  <2> QED
    BY <2>3, <2>5 DEF Stored, StoredOf
<1> HIDE DEF sizes
<1>7. Serve(offset, sizes, bufferSize')
  <2>1. \A t \in Tensors : Owns(t) => offset[t] + sizes[t] <= bufferSize'
    BY <1>2, <1>3, <1>4 DEF MeasureInv, PlaceInv
  <2>2. ASSUME NEW s \in Tensors, NEW t \in Tensors, Owns(s), Owns(t), s < t,
               IsLeaf(t) \/ Keeps(s, t)
        PROVE  offset[s] + sizes[s] <= offset[t] \/ offset[t] + sizes[t] <= offset[s]
    <3>1. Apart(offset, s, t)
      BY <1>2, <1>4, <2>2 DEF MeasureInv, PlaceInv
    <3> QED
      BY <1>4, <3>1 DEF Apart
  <2> QED
    BY <2>1, <2>2 DEF Serve
<1>8. PICK off \in [Tensors -> Nat] : off = offset
  BY <1>2
<1>9. PICK size \in [Tensors -> Nat] : size = sizes
  BY <1>5
<1>10. StoredInv'
  <2>1. allocs' = StoredOf(off, size) /\ Serve(off, size, bufferSize')
    BY <1>1, <1>6, <1>7, <1>8, <1>9
  <2>2. PICK limit \in Nat : limit = bufferSize'
    BY <1>3
  <2>3. StoredOf(off, size)' = StoredOf(off, size) /\ Serve(off, size, limit)'
    BY <1>1, <2>1, <2>2, SameGraph, StoredAgrees
  <2>4. Serve(off, size, bufferSize)'
    BY <2>2, <2>3 DEF Serve
  <2> QED
    BY <1>1, <2>1, <2>3, <2>4, ShapeKept DEF StoredInv
<1>11. RunInv'
  <2>1. data' = Places(StoredOf(off, size)) /\ Serve(off, size, bufferSize')
    BY <1>1, <1>6, <1>7, <1>8, <1>9
  <2>2. \A t \in Tensors : Owns(t) => Size(t) <= size[t]
    BY <1>4, <1>9
  <2> QED
    BY <1>1, <1>3, <2>1, <2>2, PlacesRun
<1> QED
  BY <1>3, <1>10, <1>11

(* A graph that fits takes over the last one's places.                      *)
LEMMA AllocGraphPlaces ==
  ASSUME WellFormed(graph), LeafsUsed, StoredInv, bufferSize \in Nat, AllocGraph, ~NeedsRealloc
  PROVE  RunInv'
<1>1. /\ pc = "idle" /\ graph' = graph /\ bufferSize' = bufferSize /\ data' = Places(allocs)
  BY DEF AllocGraph
<1>2. \A t \in 1..NLeafs : Used(t)
  BY <1>1 DEF LeafsUsed
<1>3. CASE allocs = [leafs |-> <<>>, nodes |-> <<>>]
  <2>1. NNodes = 0 /\ NLeafs = 0
    BY <1>3 DEF NeedsRealloc
  <2>2. Tensors = {}
    BY <2>1 DEF Tensors
  <2>3. data' \in [Tensors -> Nat]
    BY <1>1, <2>2 DEF Places
  <2> QED
    BY <1>1, <2>2, <2>3, ShapeKept DEF RunInv, Serve
<1>4. ASSUME NEW off \in [Tensors -> Nat], NEW size \in [Tensors -> Nat],
             allocs = StoredOf(off, size), Serve(off, size, bufferSize)
      PROVE  RunInv'
  <2>1. \A t \in Tensors : Owns(t) => Size(t) <= size[t]
    BY <1>2, <1>4, EnoughRoom
  <2> QED
    BY <1>1, <1>4, <2>1, PlacesRun
<1> QED
  BY <1>3, <1>4 DEF StoredInv

-----------------------------------------------------------------------------
(* The graph in memory.                                                     *)
LEMMA UnitFacts ==
  ASSUME WellFormed(graph), RunInv, pc \in {"load", "run"}, bufferSize \in Nat
  PROVE  /\ \A t \in Tensors : /\ data[t] \in Nat /\ Size(t) \in Nat \ {0}
                               /\ Units(t) = data[t]..data[t] + Size(t) - 1
                               /\ Units(t) \subseteq 0..bufferSize - 1
         /\ \A s, t \in Tensors :
              Owns(s) /\ Owns(t) /\ s < t /\ (IsLeaf(t) \/ Keeps(s, t)) =>
                Units(s) \intersect Units(t) = {}
<1>1. \A t \in Tensors : data[t] \in Nat /\ Size(t) \in Nat \ {0}
  <2>1. data \in [Tensors -> Nat]
    BY DEF RunInv
  <2>2. \A t \in Tensors : Size(t) \in Nat \ {0}
    BY SourceFacts, AllocatorConstants
  <2> QED
    BY <2>1, <2>2
<1>2. PICK sizes : sizes = [t \in Tensors |-> Size(t)]
  OBVIOUS
<1>3. Serve(data, sizes, bufferSize) /\ \A t \in Tensors : sizes[t] = Size(t)
  BY <1>2 DEF RunInv
<1>4. ASSUME NEW t \in Tensors
      PROVE  Units(t) \subseteq 0..bufferSize - 1
  <2>1. /\ Owner(t) \in Tensors /\ Owns(Owner(t)) /\ Size(t) <= Size(Owner(t))
        /\ data[t] = data[Owner(t)]
    BY OwnerFacts DEF RunInv
  <2>2. data[Owner(t)] + Size(Owner(t)) <= bufferSize
    BY <1>3, <2>1 DEF Serve
  <2>3. data[t] + Size(t) <= bufferSize
    BY <1>1, <2>1, <2>2
  <2> QED
    BY <1>1, <2>3 DEF Units
<1>5. ASSUME NEW s \in Tensors, NEW t \in Tensors,
             Owns(s), Owns(t), s < t, IsLeaf(t) \/ Keeps(s, t)
      PROVE  Units(s) \intersect Units(t) = {}
  <2>1. data[s] + Size(s) <= data[t] \/ data[t] + Size(t) <= data[s]
    BY <1>3, <1>5 DEF Serve
  <2> QED
    BY <1>1, <2>1 DEF Units
<1> QED
  BY <1>1, <1>4, <1>5 DEF Units

LEMMA RunKept ==
  ASSUME RunInv, pc \in {"load", "run"}, graph' = graph, data' = data, bufferSize' = bufferSize
  PROVE  RunInv'
<1>1. /\ data \in [Tensors -> Nat] /\ \A t \in Tensors : data[t] = data[Owner(t)]
      /\ Serve(data, [t \in Tensors |-> Size(t)], bufferSize)
  BY DEF RunInv
<1>2. [t \in Tensors |-> Size(t)]' = [t \in Tensors |-> Size(t)]
  BY ShapeKept
<1>3. Serve(data, [t \in Tensors |-> Size(t)], bufferSize)'
  BY <1>1, <1>2, ShapeKept DEF Serve
<1> QED
  BY <1>1, <1>3, ShapeKept DEF RunInv

LEMMA SetInputsKept ==
  ASSUME WellFormed(graph), RunInv, bufferSize \in Nat, SetInputs
  PROVE  RunInv' /\ MemoryInv'
<1>1. /\ pc = "load" /\ pc' = "run" /\ node' = NLeafs + 1 /\ graph' = graph
      /\ data' = data /\ bufferSize' = bufferSize
      /\ memory' = [u \in 0..bufferSize-1 |->
           LET here == {t \in 1..NLeafs : u \in Units(t)} IN
           IF here = {} THEN 0 ELSE CHOOSE t \in here : \A s \in here : s <= t]
  BY DEF SetInputs, buffer
<1>2. RunInv'
  BY <1>1, RunKept
<1>3. ASSUME NEW t \in Tensors, IsLeaf(t), NEW u \in Units(t)
      PROVE  memory'[u] = t
  <2> DEFINE here == {s \in 1..NLeafs : u \in Units(s)}
  <2>1. t \in 1..NLeafs /\ 1..NLeafs \subseteq Tensors /\ u \in 0..bufferSize - 1
    BY <1>1, <1>3, NodeFacts, UnitFacts DEF Tensors
  <2>2. ASSUME NEW s \in here
        PROVE  s = t
    <3>1. s \in Tensors /\ IsLeaf(s) /\ s \in Nat /\ t \in Nat /\ u \in Units(s)
      BY <2>1, NodeFacts DEF IsLeaf
    <3>2. Owns(s) /\ Owns(t)
      BY <1>3, <3>1 DEF Owns, IsView
    <3>3. s < t => Units(s) \intersect Units(t) = {}
      BY <1>1, <1>3, <3>1, <3>2, UnitFacts
    <3>4. t < s => Units(t) \intersect Units(s) = {}
      BY <1>1, <1>3, <3>1, <3>2, UnitFacts
    <3> QED
      BY <3>1, <3>3, <3>4
  <2>3. here = {t}
    BY <2>1, <2>2
  <2>4. memory'[u] = IF here = {} THEN 0 ELSE CHOOSE r \in here : \A s \in here : s <= r
    BY <1>1, <2>1
  <2> HIDE DEF here
  <2>5. t <= t
    BY SourceFacts
  <2> QED
    BY <2>3, <2>4, <2>5
<1>4. \A t \in Tensors : t < NLeafs + 1 => IsLeaf(t)
  BY NodeFacts, SourceFacts DEF IsLeaf
<1>5. ASSUME NEW t \in Tensors, Owns(t), t < NLeafs + 1
      PROVE  Intact(t)'
  <2>1. Units(t)' = Units(t) /\ Owner(t)' = t
    BY <1>1, <1>5, ShapeKept DEF Units, Owns, Owner
  <2>2. \A u \in Units(t) : memory'[u] = t
    BY <1>3, <1>4, <1>5
  <2>3. Units(Owner(t))' = Units(t)
    BY <1>1, <2>1, ShapeKept DEF Units
  <2> QED
    BY <2>1, <2>2, <2>3 DEF Intact
<1>6. node' \in NLeafs + 1..NLeafs + NNodes + 1
  BY <1>1, NodeFacts
<1>7. DOMAIN memory' = 0..bufferSize' - 1
  BY <1>1
<1> QED
  BY <1>1, <1>2, <1>5, <1>6, <1>7, ShapeKept DEF MemoryInv

LEMMA ComputeNodeKept ==
  ASSUME WellFormed(graph), RunInv, MemoryInv, bufferSize \in Nat, ComputeNode
  PROVE  RunInv' /\ MemoryInv'
<1>0. PICK n \in Tensors : n = node
  BY DEF ComputeNode
<1>1. /\ pc = "run" /\ pc' = "run" /\ node' = n + 1 /\ graph' = graph
      /\ data' = data /\ bufferSize' = bufferSize
      /\ memory' = IF IsView(n) THEN memory ELSE Write(n)
  BY <1>0 DEF ComputeNode, buffer
<1>2. RunInv'
  BY <1>1, RunKept
<1>3. /\ n \in NLeafs + 1..NLeafs + NNodes /\ ~IsLeaf(n) /\ n \in Nat /\ NLeafs \in Nat /\ NNodes \in Nat
      /\ DOMAIN memory = 0..bufferSize - 1
  BY <1>0, <1>1, NodeFacts, SourceFacts DEF MemoryInv, IsLeaf, Tensors
<1>4. \A t \in Tensors : Owner(t)' = Owner(t) /\ (Owns(t) => Owner(t) = t)
                         /\ Units(t)' = Units(t) /\ Units(t) \subseteq 0..bufferSize - 1
  BY <1>1, ShapeKept, UnitFacts DEF Owns, Owner, Units
<1>5. ASSUME NEW t \in Tensors, Owns(t), t < n + 1, Keeps(t, n)
      PROVE  \A u \in Units(t) : memory'[u] = t
  <2> SUFFICES ASSUME NEW u \in Units(t) PROVE memory'[u] = t
    OBVIOUS
  <2>1. u \in DOMAIN memory
    BY <1>3, <1>4
  <2>2. CASE t = n
    <3>1. memory' = Write(n)
      BY <1>1, <1>5, <2>2 DEF Owns
    <3> QED
      BY <2>1, <2>2, <3>1 DEF Write
  <2>3. CASE t # n
    <3>1. t < n
      BY <1>3, <1>5, <2>3, SourceFacts
    <3>2. Intact(t)
      <4>1. n - 1 <= n /\ n \in Int /\ n - 1 \in Int
        BY <1>3
      <4>2. Keeps(t, n - 1)
        BY <1>5, <4>1, KeepsBefore
      <4> QED
        BY <1>0, <1>1, <1>5, <3>1, <4>2 DEF MemoryInv
    <3>3. memory[u] = t
      BY <1>4, <1>5, <3>2 DEF Intact
    <3>4. CASE IsView(n)
      BY <1>1, <3>3, <3>4
    <3>5. CASE ~IsView(n)
      <4>1. Owns(n)
        BY <3>5 DEF Owns
      <4>2. Units(t) \intersect Units(n) = {}
        BY <1>1, <1>5, <3>1, <4>1, UnitFacts
      <4>3. u \notin Units(n)
        BY <4>2
      <4> QED
        BY <1>1, <2>1, <3>3, <3>5, <4>3 DEF Write
    <3> QED
      BY <3>4, <3>5
  <2> QED
    BY <2>2, <2>3
<1>6. ASSUME NEW t \in Tensors, Owns(t), t < n + 1, Keeps(t, n)
      PROVE  Intact(t)'
  <2>1. \A u \in Units(t) : memory'[u] = t
    BY <1>5, <1>6
  <2>2. Owner(t)' = t
    BY <1>4, <1>6
  <2>3. Units(Owner(t))' = Units(t)
    BY <1>1, <2>2, ShapeKept DEF Units
  <2> QED
    BY <2>1, <2>2, <2>3 DEF Intact
<1>7. node' \in NLeafs + 1..NLeafs + NNodes + 1 /\ node' - 1 = n
  BY <1>1, <1>3
<1>8. DOMAIN memory' = 0..bufferSize' - 1
  BY <1>1, <1>3 DEF Write
<1>9. ASSUME NEW t \in Tensors, Owns(t)', t < node', Keeps(t, node - 1)'
      PROVE  Intact(t)'
  <2>1. Owns(t)
    BY <1>1, <1>9, ShapeKept
  <2>2. Keeps(t, n)
    <3>1. Keeps(t, node - 1)' <=> Keeps(t, n)
      BY <1>1, <1>7, ShapeKept DEF Keeps
    <3> QED
      BY <1>9, <3>1
  <2> QED
    BY <1>1, <1>6, <1>9, <2>1, <2>2
<1>10. MemoryInv'
  BY <1>1, <1>7, <1>8, <1>9, ShapeKept DEF MemoryInv
<1> QED
  BY <1>2, <1>10

-----------------------------------------------------------------------------
(* The invariant, in whose parts the graph is well-formed throughout.       *)
TypeInv ==
  /\ call \in 0..Calls
  /\ pc \in {"build", "idle", "leaf", "node", "parents", "load", "run"}
  /\ \A t \in DOMAIN nChildren :
       /\ nChildren[t] \in Nat /\ nViews[t] \in Nat
       /\ offset[t] \in Nat /\ allocated[t] \in BOOLEAN
  /\ maxSize \in Nat /\ bufferSize \in Nat

AllocatorInv == /\ WellFormed(graph) /\ LeafsUsed /\ BuildInv /\ TypeInv
                /\ MeasureInv
                /\ StoredInv /\ RunInv /\ MemoryInv

LEMMA AllocatorInitHolds ==
  ASSUME Init
  PROVE  AllocatorInv
<1>1. /\ graph \in FirstGraphs /\ pc = "build" /\ call = 0
      /\ nChildren = <<>> /\ maxSize = 0 /\ bufferSize = 0
      /\ allocs = [leafs |-> <<>>, nodes |-> <<>>]
  BY DEF Init
<1>2. WellFormed(graph)
  BY <1>1, AllocatorConstants
<1>3. LeafsUsed /\ BuildInv /\ StoredInv /\ RunInv /\ MemoryInv
  BY <1>1 DEF LeafsUsed, BuildInv, StoredInv, RunInv, MemoryInv
<1>4. TypeInv
  BY <1>1, AllocatorConstants DEF TypeInv
<1>5. MeasureInv
  <2>1. ~Measuring
    BY <1>1 DEF Measuring
  <2>2. P!Init
    BY <2>1 DEF P!Init, P!Empty, P!Block
  <2>3. P!TallocrInv
    BY <2>2, TallocrConstants, P!TallocrInitHolds
  <2> QED
    BY <1>1, <2>3 DEF MeasureInv, WalkInv, LifeInv, PlaceInv, CountInv, Measuring
<1> QED
  BY <1>2, <1>3, <1>4, <1>5 DEF AllocatorInv

(* Each part of the invariant, over all steps.                              *)
LEMMA WellFormedKept ==
  ASSUME WellFormed(graph), Next
  PROVE  WellFormed(graph')
BY DEF Next, BuildNode, BuildDone, AllocGraph, AllocLeaf, CountChildren, AllocNode,
       UpdateParent, NextNode, Reserve, SetInputs, ComputeNode, ReadOutputs

LEMMA GraphKept ==
  ASSUME Next, ~BuildNode, ~ReadOutputs
  PROVE  graph' = graph
BY DEF Next, BuildDone, AllocGraph, AllocLeaf, CountChildren, AllocNode,
       UpdateParent, NextNode, Reserve, SetInputs, ComputeNode

LEMMA LeafsUsedKept ==
  ASSUME WellFormed(graph), LeafsUsed, Next
  PROVE  LeafsUsed'
<1>1. CASE BuildNode
  BY <1>1 DEF BuildNode, LeafsUsed
<1>2. CASE BuildDone
  <2>1. graph' = graph /\ \A t \in Tensors : IsLeaf(t) => Used(t)
    BY <1>2 DEF BuildDone
  <2>2. \A t \in 1..NLeafs : t \in Tensors /\ IsLeaf(t)
    BY NodeFacts DEF Tensors, IsLeaf
  <2>3. \A t \in 1..NLeafs : Used(t)
    BY <2>1, <2>2
  <2> QED
    BY <2>1, <2>3, ShapeKept DEF LeafsUsed
<1>3. CASE ReadOutputs
  <2>1. pc = "run" /\ WellFormed(graph') /\ SameShape(graph, graph')
    BY <1>3 DEF ReadOutputs
  <2>2. ShapeAgrees
    BY <2>1, ShapesAgree
  <2>3. \A t : Used(t)' = Used(t)
    BY <2>2, AgreeFacts
  <2>4. \A t \in 1..NLeafs : Used(t)
    BY <2>1 DEF LeafsUsed
  <2> QED
    BY <2>2, <2>3, <2>4 DEF LeafsUsed, ShapeAgrees
<1>4. CASE ~BuildNode /\ ~BuildDone /\ ~ReadOutputs
  <2>1. graph' = graph
    BY <1>4, GraphKept
  <2>2. pc # "build"
    BY <1>4 DEF Next, AllocGraph, AllocLeaf, CountChildren, AllocNode,
                UpdateParent, NextNode, Reserve, SetInputs, ComputeNode
  <2> QED
    BY <2>1, <2>2, ShapeKept DEF LeafsUsed
<1> QED
  BY <1>1, <1>2, <1>3, <1>4

LEMMA BuildInvKept ==
  ASSUME BuildInv, Next
  PROVE  BuildInv'
<1>1. CASE pc' = "build"
  <2>1. BuildNode
    BY <1>1 DEF Next, BuildDone, AllocGraph, AllocLeaf, CountChildren, AllocNode,
                UpdateParent, NextNode, Reserve, SetInputs, ComputeNode, ReadOutputs
  <2> QED
    BY <2>1 DEF BuildInv, BuildNode, buffer
<1> QED
  BY <1>1 DEF BuildInv

LEMMA StoredInvKept ==
  ASSUME WellFormed(graph), BuildInv, TypeInv, MeasureInv, StoredInv, Next
  PROVE  StoredInv'
<1>1. CASE BuildNode
  BY <1>1 DEF BuildNode, BuildInv, StoredInv, buffer
<1>2. CASE Reserve
  BY <1>2, ReserveStores DEF TypeInv
<1>3. CASE ~BuildNode /\ ~Reserve
  <2>1. allocs' = allocs /\ bufferSize' = bufferSize
    BY <1>3 DEF Next, BuildDone, AllocGraph, AllocLeaf, CountChildren, AllocNode,
                UpdateParent, NextNode, SetInputs, ComputeNode, ReadOutputs, buffer
  <2>2. ShapeAgrees
    <3>1. CASE ReadOutputs
      BY <3>1, ShapesAgree DEF ReadOutputs
    <3>2. CASE ~ReadOutputs
      BY <1>3, <3>2, GraphKept, SameGraph
    <3> QED
      BY <3>1, <3>2
  <2>3. CASE allocs = [leafs |-> <<>>, nodes |-> <<>>]
    BY <2>1, <2>3 DEF StoredInv
  <2>4. ASSUME NEW off \in [Tensors -> Nat], NEW size \in [Tensors -> Nat],
               allocs = StoredOf(off, size), Serve(off, size, bufferSize)
        PROVE  StoredInv'
    <3>1. PICK limit \in Nat : limit = bufferSize
      BY DEF TypeInv
    <3>2. StoredOf(off, size)' = StoredOf(off, size) /\ Serve(off, size, limit)'
      BY <2>2, <2>4, <3>1, StoredAgrees
    <3>3. Serve(off, size, bufferSize)'
      BY <2>1, <3>1, <3>2 DEF Serve
    <3>4. off \in [Tensors' -> Nat] /\ size \in [Tensors' -> Nat]
      BY <2>2 DEF ShapeAgrees
    <3> QED
      BY <2>1, <2>4, <3>2, <3>3, <3>4 DEF StoredInv
  <2> QED
    BY <2>3, <2>4 DEF StoredInv
<1> QED
  BY <1>1, <1>2, <1>3

LEMMA RunInvKept ==
  ASSUME AllocatorInv, Next
  PROVE  RunInv' /\ MemoryInv'
<1>1. CASE AllocGraph
  <2>1. pc' # "run"
    BY <1>1 DEF AllocGraph
  <2>2. MemoryInv'
    BY <2>1 DEF MemoryInv
  <2>3. CASE NeedsRealloc
    BY <1>1, <2>2, <2>3 DEF AllocGraph, RunInv
  <2>4. CASE ~NeedsRealloc
    BY <1>1, <2>2, <2>4, AllocGraphPlaces DEF AllocatorInv, TypeInv
  <2> QED
    BY <2>3, <2>4
<1>2. CASE Reserve
  <2>1. RunInv'
    BY <1>2, ReserveStores DEF AllocatorInv, TypeInv
  <2>2. MemoryInv'
    BY <1>2 DEF Reserve, MemoryInv
  <2> QED
    BY <2>1, <2>2
<1>3. CASE SetInputs
  BY <1>3, SetInputsKept DEF AllocatorInv, TypeInv
<1>4. CASE ComputeNode
  BY <1>4, ComputeNodeKept DEF AllocatorInv, TypeInv
<1>5. CASE \/ BuildNode \/ BuildDone \/ AllocLeaf \/ CountChildren \/ AllocNode
           \/ UpdateParent \/ NextNode \/ ReadOutputs
  <2>1. pc' \notin {"load", "run"}
    BY <1>5 DEF BuildNode, BuildDone, AllocLeaf, CountChildren, AllocNode,
                UpdateParent, NextNode, ReadOutputs
  <2> QED
    BY <2>1 DEF RunInv, MemoryInv
<1> QED
  BY <1>1, <1>2, <1>3, <1>4, <1>5 DEF Next

LEMMA TypeInvKept ==
  ASSUME AllocatorInv, MeasureInv', Next
  PROVE  TypeInv'
<1>1. call' \in 0..Calls
  <2>1. call \in 0..Calls /\ call' \in {call, call + 1} /\ (call' = call + 1 => call < Calls)
    BY DEF AllocatorInv, TypeInv, Next, BuildNode, BuildDone, AllocGraph, AllocLeaf,
           CountChildren, AllocNode, UpdateParent, NextNode, Reserve, SetInputs,
           ComputeNode, ReadOutputs
  <2> QED
    BY <2>1, AllocatorConstants
<1>2. pc' \in {"build", "idle", "leaf", "node", "parents", "load", "run"}
  BY DEF AllocatorInv, TypeInv, Next, BuildNode, BuildDone, AllocGraph, AllocLeaf,
         CountChildren, AllocNode, UpdateParent, NextNode, Reserve, SetInputs,
         ComputeNode, ReadOutputs
<1>3. bufferSize' \in Nat
  <2>1. CASE Reserve
    BY <2>1, ReserveStores DEF AllocatorInv, TypeInv
  <2>2. CASE ~Reserve
    BY <2>2 DEF AllocatorInv, TypeInv, Next, BuildNode, BuildDone, AllocGraph, AllocLeaf,
                CountChildren, AllocNode, UpdateParent, NextNode, SetInputs,
                ComputeNode, ReadOutputs, buffer
  <2> QED
    BY <2>1, <2>2
<1>4. /\ \A t \in DOMAIN nChildren' :
           /\ nChildren'[t] \in Nat /\ nViews'[t] \in Nat
           /\ offset'[t] \in Nat /\ allocated'[t] \in BOOLEAN
      /\ maxSize' \in Nat
  <2>1. CASE Measuring'
    <3>1. WalkInv' /\ P!TallocrInv'
      BY DEF MeasureInv
    <3>2. maxSize' \in Nat
      BY <2>1, <3>1 DEF P!TallocrInv
    <3> QED
      BY <2>1, <3>1, <3>2 DEF WalkInv
  <2>2. CASE ~Measuring'
    <3>1. \/ nChildren' = <<>> /\ maxSize' = maxSize
          \/ UNCHANGED <<hash, maxSize>>
      BY <2>2 DEF Next, BuildNode, BuildDone, AllocGraph, AllocLeaf, Measuring,
                  CountChildren, AllocNode, UpdateParent, NextNode, Reserve, SetInputs,
                  ComputeNode, ReadOutputs, tallocr
    <3> QED
      BY <3>1 DEF AllocatorInv, TypeInv, hash
  <2> QED
    BY <2>1, <2>2
<1> QED
  BY <1>1, <1>2, <1>3, <1>4 DEF TypeInv

LEMMA StutterKept ==
  ASSUME AllocatorInv, UNCHANGED vars
  PROVE  AllocatorInv' /\ UNCHANGED P!vars
<1>1. /\ UNCHANGED <<graph, call, pc, node, parent, nChildren, nViews, offset, allocated,
                     free, maxSize, allocs, bufferSize, data, memory>>
  BY DEF vars, hash, tallocr, buffer
<1>2. graph' = graph
  BY <1>1
<1>3. LastDone' = LastDone /\ Measuring' = Measuring
  BY <1>1 DEF LastDone, Measuring
<1>4. \A t : Placed(t)' = Placed(t) /\ BlockOf(t)' = BlockOf(t)
  BY <1>1, <1>3, ShapeKept DEF Placed, BlockOf
<1>5. Live' = Live
  BY <1>1, LiveSame
<1>6. UNCHANGED P!vars
  BY <1>1, <1>3, <1>5 DEF P!vars
<1>7. P!TallocrInv'
  BY <1>6, TallocrConstants, P!TallocrInvKept DEF AllocatorInv, MeasureInv
<1>8. WalkInv'
  <2>1. WalkInv /\ Src(node)' = Src(node)
    BY <1>1 DEF AllocatorInv, MeasureInv, Src, IsLeaf, NodeOf, NLeafs
  <2> QED
    BY <1>1, <1>3, <2>1, ShapeKept DEF WalkInv
<1>9. LifeInv' /\ PlaceInv'
  <2>1. \A t : Keeps(t, LastDone)' = Keeps(t, LastDone)
    BY <1>2, <1>3, ShapeKept DEF Keeps
  <2>2. \A s, t : Apart(offset, s, t)' = Apart(offset, s, t)
    BY <1>1, ShapeKept DEF Apart
  <2>3. LifeInv /\ PlaceInv
    BY DEF AllocatorInv, MeasureInv
  <2>4. LifeInv'
    BY <1>1, <1>3, <1>4, <2>1, <2>3, ShapeKept DEF LifeInv
  <2>5. PlaceInv'
    BY <1>1, <1>3, <1>4, <2>2, <2>3, ShapeKept DEF PlaceInv
  <2> QED
    BY <2>4, <2>5
<1>10. CountInv'
  <2>1. CASE pc \in {"node", "parents"}
    <3>1. ASSUME NEW t \in Tensors PROVE ReadsLeft(t)' = ReadsLeft(t)
      BY <1>1, ShapeKept DEF ReadsLeft, ToCome
    <3> QED
      BY <1>1, <2>1, <3>1, CountFrame DEF AllocatorInv, MeasureInv
  <2>2. CASE pc \notin {"node", "parents"}
    BY <1>1, <2>2 DEF CountInv
  <2> QED
    BY <2>1, <2>2
<1>11. LeafsUsed' /\ BuildInv' /\ TypeInv' /\ WellFormed(graph)'
  BY <1>1, ShapeKept DEF AllocatorInv, LeafsUsed, BuildInv, TypeInv
<1>12. StoredInv'
  <2>1. ASSUME NEW off \in [Tensors -> Nat], NEW size \in [Tensors -> Nat],
               allocs = StoredOf(off, size), Serve(off, size, bufferSize)
        PROVE  StoredInv'
    <3>1. StoredOf(off, size)' = StoredOf(off, size)
      BY <1>2, SameGraph, StoredAgrees DEF AllocatorInv
    <3>2. Serve(off, size, bufferSize)'
      BY <1>1, <2>1, ShapeKept DEF Serve
    <3> QED
      BY <1>1, <2>1, <3>1, <3>2, ShapeKept DEF StoredInv
  <2> QED
    BY <1>1, <2>1 DEF AllocatorInv, StoredInv
<1>13. RunInv' /\ MemoryInv'
  <2>1. CASE pc \in {"load", "run"}
    <3>1. RunInv'
      BY <1>1, <2>1, RunKept DEF AllocatorInv
    <3>2. \A t : Intact(t)' = Intact(t)
      <4>1. \A t : Owner(t)' = Owner(t) /\ Units(t)' = Units(t)
        BY <1>1, ShapeKept DEF Units
      <4>2. \A t : Units(Owner(t))' = Units(Owner(t))
        BY <1>1, <4>1, ShapeKept DEF Units
      <4> QED
        BY <1>1, <4>1, <4>2 DEF Intact
    <3>3. \A t : Keeps(t, node - 1)' = Keeps(t, node - 1)
      BY <1>1, ShapeKept DEF Keeps
    <3>4. MemoryInv'
      BY <1>1, <3>2, <3>3, ShapeKept DEF AllocatorInv, MemoryInv
    <3> QED
      BY <3>1, <3>4
  <2>2. CASE pc \notin {"load", "run"}
    BY <1>1, <2>2 DEF RunInv, MemoryInv
  <2> QED
    BY <2>1, <2>2
<1> QED
  BY <1>6, <1>7, <1>8, <1>9, <1>10, <1>11, <1>12, <1>13 DEF AllocatorInv, MeasureInv

LEMMA AllocatorInvKept ==
  ASSUME AllocatorInv, [Next]_vars
  PROVE  AllocatorInv' /\ [P!Next]_(P!vars)
<1>1. CASE Next
  <2>1. MeasureInv' /\ [P!Next]_(P!vars)
    BY <1>1, MeasureStep DEF AllocatorInv
  <2>2. LeafsUsed' /\ BuildInv' /\ StoredInv' /\ RunInv' /\ MemoryInv' /\ WellFormed(graph')
    BY <1>1, WellFormedKept, LeafsUsedKept, BuildInvKept, StoredInvKept, RunInvKept
       DEF AllocatorInv
  <2>3. TypeInv'
    BY <1>1, <2>1, TypeInvKept
  <2> QED
    BY <2>1, <2>2, <2>3 DEF AllocatorInv
<1>2. CASE UNCHANGED vars
  BY <1>2, StutterKept
<1> QED
  BY <1>1, <1>2

(* Every reachable state of ggml_gallocr has the inductive invariant.       *)
THEOREM AllocatorInvariant == Spec => []AllocatorInv
<1>1. Init => AllocatorInv
  BY AllocatorInitHolds
<1>2. AllocatorInv /\ [Next]_vars => AllocatorInv'
  BY AllocatorInvKept
<1> QED
  BY <1>1, <1>2, PTL DEF Spec

(* The graph allocator uses the tensor allocator by its rules: it gives     *)
(* back only ranges it holds, each once (ggml_gallocr_free_node).           *)
THEOREM UsesTallocr == Spec => ImplementsTallocr
<1>1. Init => DT!Init
  <2>1. Init => ~Measuring
    BY DEF Init, Measuring
  <2> QED
    BY <2>1 DEF DT!Init, DT!Empty, DT!Block
<1>2. AllocatorInv /\ [Next]_vars => [DT!Next]_(DT!vars)
  <2> SUFFICES ASSUME AllocatorInv, [Next]_vars PROVE [DT!Next]_(DT!vars)
    OBVIOUS
  <2>1. [P!Next]_(P!vars)
    BY AllocatorInvKept
  <2>2. P!vars = DT!vars /\ P!vars' = DT!vars'
    BY DEF P!vars, DT!vars
  <2>3. P!Next => DT!Next
    <3>1. \A size : P!Alloc(size) => DT!Alloc(size)
      BY DEF P!Alloc, DT!Alloc, P!BestFit, DT!BestFit, P!Fits, DT!Fits, P!IsLast, DT!IsLast,
             P!Cut, DT!Cut, P!Max2, DT!Max2, P!Block, DT!Block
    <3>2. \A b : P!FreeTensor(b) => DT!FreeTensor(b)
      BY DEF P!FreeTensor, DT!FreeTensor, P!Merge, DT!Merge, P!Before, DT!Before,
             P!After, DT!After, P!End, DT!End, P!Block, DT!Block
    <3>3. P!Reset => DT!Reset
      BY DEF P!Reset, DT!Reset, P!Empty, DT!Empty, P!Block, DT!Block
    <3> QED
      BY <3>1, <3>2, <3>3 DEF P!Next, DT!Next
  <2> QED
    BY <2>1, <2>2, <2>3
<1> QED
  BY <1>1, <1>2, AllocatorInvariant, PTL DEF Spec, ImplementsTallocr, DT!Spec

(* The counters of ggml_gallocr's hash table do not go below zero, and the  *)
(* graph that is computed lies within the buffer.                           *)
THEOREM TypeCorrect == Spec => []TypeOK
<1>1. AllocatorInv => TypeOK
  <2> SUFFICES ASSUME AllocatorInv PROVE TypeOK
    OBVIOUS
  <2>1. TypeInv /\ bufferSize \in Nat
    BY DEF AllocatorInv, TypeInv
  <2>2. ASSUME pc = "run", NEW t \in Tensors
        PROVE  Units(t) \subseteq DOMAIN memory
    <3>1. Units(t) \subseteq 0..bufferSize - 1
      BY <2>1, <2>2, UnitFacts DEF AllocatorInv
    <3> QED
      BY <2>2, <3>1 DEF AllocatorInv, MemoryInv
  <2> QED
    BY <2>1, <2>2 DEF TypeInv, TypeOK
<1> QED
  BY <1>1, AllocatorInvariant, PTL

(* What a node reads is what was computed, or set, for it: the places that  *)
(* ggml_gallocr_alloc_graph gives out, or takes over from the last graph,   *)
(* let nothing overwrite a tensor that will still be read.                  *)
THEOREM NodesReadIntact == Spec => []ReadsIntact
<1>1. AllocatorInv => ReadsIntact
  <2> SUFFICES ASSUME AllocatorInv, pc = "run", node \in Tensors, NEW j \in DOMAIN Src(node)
               PROVE  Intact(Src(node)[j])
    BY DEF ReadsIntact
  <2>1. PICK n \in Tensors : n = node
    OBVIOUS
  <2>2. PICK s \in Tensors : s = Src(n)[j] /\ s < n
    BY <2>1, SourceFacts DEF AllocatorInv
  <2>3. PICK o \in Tensors : o = Owner(s) /\ Owns(o) /\ o <= s
    <3>0. Owner(s) \in Tensors /\ Owns(Owner(s)) /\ s \in Nat /\ Owner(s) \in Nat
      BY OwnerFacts, SourceFacts DEF AllocatorInv
    <3>1. Owner(s) <= s
      <4>1. CASE IsView(s)
        BY <3>0, <4>1, OwnerFacts DEF AllocatorInv
      <4>2. CASE ~IsView(s)
        BY <3>0, <4>2 DEF Owner
      <4> QED
        BY <4>1, <4>2
    <3> QED
      BY <3>0, <3>1
  <2>4. o < node /\ Reads(n, o) /\ n > node - 1
    BY <2>1, <2>2, <2>3, SourceFacts DEF AllocatorInv, Reads
  <2>5. Keeps(o, node - 1)
    BY <2>4 DEF Keeps
  <2>6. Intact(o)
    BY <2>3, <2>4, <2>5 DEF AllocatorInv, MemoryInv
  <2>7. Owner(o) = o
    BY <2>3 DEF Owns, Owner
  <2> QED
    BY <2>1, <2>2, <2>3, <2>6, <2>7 DEF Intact
<1> QED
  BY <1>1, AllocatorInvariant, PTL

(* An output keeps what was computed for it until the caller has read it:   *)
(* GGML_TENSOR_FLAG_OUTPUT, ggml_gallocr_free_node and ggml_gallocr's reuse *)
(* of sources.                                                              *)
THEOREM OutputsStay == Spec => []OutputsKept
<1>1. AllocatorInv => OutputsKept
  <2> SUFFICES ASSUME AllocatorInv, pc = "run", NEW t \in Tensors, IsOutput(t), t < node
               PROVE  Intact(t)
    BY DEF OutputsKept
  <2>1. Owns(t)
    BY OwnerFacts DEF AllocatorInv, Owns
  <2>2. Keeps(t, node - 1)
    BY DEF Keeps
  <2> QED
    BY <2>1, <2>2 DEF AllocatorInv, MemoryInv
<1> QED
  BY <1>1, AllocatorInvariant, PTL

=============================================================================
