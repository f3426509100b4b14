---------------------------- MODULE BackendSched ----------------------------
(***************************************************************************)
(* ggml-backend: ggml_backend_sched as whisper uses it, one copy of the     *)
(* graph inputs (n_copies is 1) and no eval callback.  A graph is assigned  *)
(* to backends node by node and cut into splits of one backend each;        *)
(* tensors that a split's backend cannot reach are copied to it.  The copy  *)
(* of the graph with these copies in it is given memory, a buffer per       *)
(* buffer type, by the graph allocator (see GraphAllocator).  Backends may  *)
(* compute asynchronously.                                                  *)
(*                                                                          *)
(* Memory remembers which node wrote it, and a tensor whose last user has   *)
(* been computed may lose its place to any tensor that comes later.         *)
(***************************************************************************)
EXTENDS Integers, FiniteSets, SequencesExt

(* A graph is a sequence of nodes, tensors 1, 2, ..., in the order they     *)
(* are to be computed.  Leafs are tensors 0, -1, ...; those with a buffer   *)
(* are weights or caches, the others inputs (GGML_TENSOR_FLAG_INPUT).       *)
(*   op:     "view" for a view op, "write" for a copy into a view of a      *)
(*           cache, "op" for the rest                                       *)
(*   src:    the sources; a write has what it reads and where it writes     *)
(*   root:   view_src, or the tensor itself                                 *)
(*   runs:   the backends that support the operation                        *)
(*   offers: those that want it although its weights are the CPU's          *)
CONSTANTS
  Programs(_),     \* the graphs a caller may compute one after the other, on
                   \* a machine
  Platforms,       \* the backends of a machine, in order of priority:
                   \* buft[b] is the buffer type of b, uses[b] the types it
                   \* supports, host the types in the memory of the CPU,
                   \* async the backends that return before they are done
  Leaves, Inputs, Weights, \* Weights: in a buffer for weights
  Buffer,          \* the buffer types of the leafs with a buffer
  GGML_SCHED_MAX_SPLIT_INPUTS

ASSUME SchedConstants ==
  /\ Leaves \subseteq {t \in Int : t <= 0}
  /\ Inputs \subseteq Leaves /\ Weights \subseteq DOMAIN Buffer
  /\ DOMAIN Buffer = Leaves \ Inputs
  /\ GGML_SCHED_MAX_SPLIT_INPUTS \in Nat \ {0}

(* A backend supports its own buffer type, the last one is the CPU and      *)
(* returns when it is done, and the memory of a backend that does not is    *)
(* its own.                                                                 *)
ASSUME SchedPlatforms ==
  \A m \in Platforms :
    /\ m.buft \in Seq(Range(m.buft)) /\ Len(m.buft) > 0
    /\ m.uses \in Seq(Range(m.uses)) /\ Len(m.uses) = Len(m.buft)
    /\ \A i \in DOMAIN m.buft : m.buft[i] \in m.uses[i]
    /\ m.async \subseteq 0..Len(m.buft) - 2
    /\ \A a \in m.async : \A i \in DOMAIN m.uses \ {a + 1} :
         m.uses[a + 1] \intersect m.uses[i] = {}

(* A tensor is computed after its sources, by some backend, and the root of *)
(* a view is a tensor with memory of its own; only caches are written to.   *)
(* What is read twice is not written to in between.                         *)
RootIn(g, t)  == IF t <= 0 THEN t ELSE g[t].root
ReadsIn(g, n) == IF g[n].op = "write" THEN {g[n].src[1]} ELSE Range(g[n].src)
WellFormedNode(m, g, n) ==
  /\ g[n].src \in Seq(Leaves \union 1..n - 1)
  /\ \/ g[n].op = "op" /\ g[n].root = n
     \/ /\ g[n].op = "view" /\ Len(g[n].src) = 1
        /\ g[n].root = RootIn(g, g[n].src[1])
     \/ /\ g[n].op = "write" /\ Len(g[n].src) = 2
        /\ g[n].root = RootIn(g, g[n].src[2]) /\ g[n].root \in DOMAIN Buffer
  /\ g[n].root \in Leaves \union {r \in 1..n : g[r].op = "op"}
  /\ g[n].op # "view" => g[n].runs # {} /\ g[n].runs \subseteq 0..Len(m.buft) - 1
WellFormed(m, g) ==
  /\ g \in Seq(Range(g)) /\ \E n \in DOMAIN g : g[n].op # "view"
  /\ \A n \in DOMAIN g : WellFormedNode(m, g, n)
  /\ \A n, w, r \in DOMAIN g :
       n < w /\ w < r /\ g[n].op # "view" /\ g[w].op = "write" /\ g[r].op # "view" =>
         \A s \in ReadsIn(g, n) \intersect ReadsIn(g, r) : RootIn(g, s) # g[w].root

ASSUME SchedPrograms ==
  \A m \in Platforms : \A p \in Programs(m) :
    p \in Seq(Range(p)) /\ \A g \in Range(p) : WellFormed(m, g)

VARIABLES
  platform, program,
  graph,
  pc, status,
  ids, copies,      \* hv_tensor_backend_ids, hv_tensor_copies
  splits, places,   \* the splits, and where each node finds its sources
  order,            \* the copy of the graph, prev_node_backend_ids in it
  reserved,         \* the places of the last reserve, node_allocs
  split, input,     \* where compute_splits is
  queue,            \* what each backend has still to compute
  memory,           \* which node wrote what a place holds, 0 for the caller
  misread           \* nodes that have read something else than in order

machine == <<platform, program>>
hash    == <<ids, copies>>
cut     == <<splits, places, order, reserved>>
vars == <<machine, graph, pc, status, hash, cut, split, input, queue, memory, misread>>

Cpu       == Len(platform.buft) - 1
Backends  == 0..Cpu
Buft(b)   == platform.buft[b + 1]
Uses(b)   == platform.uses[b + 1]
Nodes     == DOMAIN graph
Tensors   == Leaves \union Nodes
IsLeaf(t) == t <= 0
IsView(t) == ~IsLeaf(t) /\ graph[t].op = "view"
Src(t)    == IF IsLeaf(t) THEN <<>> ELSE graph[t].src
Root(t)   == IF IsLeaf(t) THEN t ELSE graph[t].root
Runs(t)   == IF IsLeaf(t) \/ IsView(t) THEN Backends ELSE graph[t].runs
Stored(t) == Root(t) \in DOMAIN Buffer

-----------------------------------------------------------------------------
(* Pass 1: what lives in a buffer is computed where the buffer is, inputs   *)
(* belong to the CPU, and an operation goes to its weights.                 *)
BackendFromBuffer(buft, t) ==
  LET able == {b \in Runs(t) : buft \in Uses(b)} IN
  IF able = {} THEN -1 ELSE Min(able)

BackendOfWeight(w, t) ==
  LET home   == BackendFromBuffer(Buffer[w], t)
      offers == {b \in graph[t].offers \intersect graph[t].runs : b < home}
  IN IF home = Cpu /\ Buffer[w] \in platform.host /\ offers # {}
     THEN Min(offers) ELSE home

BackendFromCur(t) ==
  LET weights == {j \in DOMAIN Src(t) : Src(t)[j] \in Weights} IN
  IF Stored(t) THEN BackendFromBuffer(Buffer[Root(t)], t)
  ELSE IF t \in Inputs THEN Cpu
  ELSE IF weights = {} THEN -1
  ELSE BackendOfWeight(Src(t)[Min(weights)], t)

Pass1(f) == [t \in Tensors |-> IF f[t] = -1 THEN BackendFromCur(t) ELSE f[t]]

(* Pass 2: backends expand over the operations next to them, the CPU last.  *)
Spread(s, n, skipCpu) ==
  IF IsView(n) THEN s
  ELSE IF s.ids[n] # -1
  THEN [s EXCEPT !.cur = IF skipCpu /\ s.ids[n] = Cpu THEN -1 ELSE s.ids[n]]
  ELSE IF s.cur \in Runs(n) THEN [s EXCEPT !.ids[n] = s.cur] ELSE s

Expand(f, nodes, skipCpu) ==
  FoldLeft(LAMBDA s, n : Spread(s, n, skipCpu), [ids |-> f, cur |-> -1], nodes).ids

Down == [n \in Nodes |-> n]
Up   == Reverse(Down)
Pass2(f) ==
  Expand(Expand(Expand(Expand(f, Down, TRUE), Up, TRUE), Down, FALSE), Up, FALSE)

(* Pass 3: nodes move up to a backend with the same buffer type; those that *)
(* have none go where most of their sources are.                            *)

BufferSupported(f, t, b) ==
  LET id == IF f[t] = -1 THEN f[Root(t)] ELSE f[t] IN
  IF Stored(t) THEN Buffer[Root(t)] \in Uses(b) ELSE id # -1 /\ Buft(id) \in Uses(b)

Supported(f, n, b) ==
  Cardinality({j \in DOMAIN Src(n) :
                 /\ f[Src(n)[j]] # -1 \/ f[Root(Src(n)[j])] # -1
                 /\ BufferSupported(f, Src(n)[j], b)})

Best(g, n) ==
  {b \in Runs(n) : \A c \in Runs(n) : Supported(g, n, c) <= Supported(g, n, b)}
Upgrades(g, n) ==
  {b \in Runs(n) : /\ b < g[n] /\ Buft(b) = Buft(g[n])
                   /\ \A j \in DOMAIN Src(n) : BufferSupported(g, Src(n)[j], b)}
Upgrade(g, n) ==
  LET choice == IF g[n] = -1 THEN Best(g, n) ELSE Upgrades(g, n) IN
  IF IsView(n) \/ choice = {} THEN g ELSE [g EXCEPT ![n] = Min(choice)]

Pass3(f) == FoldLeft(Upgrade, f, Down)

(* Pass 4: views are where their tensor is, other sources where they are    *)
(* used first.                                                              *)
OwnBackend(g, n) ==
  IF Root(n) # n /\ g[n] = -1 THEN [g EXCEPT ![n] = g[Root(n)]] ELSE g
SourceBackend(g, n, s) ==
  IF g[s] # -1 THEN g
  ELSE [g EXCEPT ![s] = IF Root(s) # s THEN g[Root(s)] ELSE g[n]]
Settle(g, n) ==
  FoldLeft(LAMBDA h, s : SourceBackend(h, n, s), OwnBackend(g, n), Src(n))

Pass4(f) == FoldLeft(Settle, f, Down)

-----------------------------------------------------------------------------
(* Pass 5: the splits.  A place is a tensor and -1, or its copy on a        *)
(* backend.                                                                 *)
Original(t) == <<t, -1>>
InBuffer(q) == q[2] = -1 /\ q[1] \in DOMAIN Buffer
Foreign(f, s, b) == f[s] # b /\ ~BufferSupported(f, s, b)

(* Another weight that has to be copied begins a split, so that the memory  *)
(* of the last can be used again, and so does an input too many.            *)
NeedNewSplit(f, st, n) ==
  LET cur == Last(st.splits) IN
  /\ cur.inputs # <<>>
  /\ \E s \in Range(Src(n)) :
       /\ Foreign(f, s, cur.backend)
       /\ \/ s \in Weights
          \/ /\ Len(cur.inputs) = GGML_SCHED_MAX_SPLIT_INPUTS
             /\ <<s, cur.backend>> \notin st.copies


(* The sources of a node that have to be copied are inputs of its split,    *)
(* unless an earlier split of the backend had them copied.                  *)
AddSource(f, n, st, s) ==
  LET k == Len(st.splits)
      b == st.splits[k].backend
      needed == Foreign(f, s, b)
      new    == needed /\ <<s, b>> \notin st.copies
  IN [splits |-> IF new THEN [st.splits EXCEPT ![k].inputs = Append(@, s)] ELSE st.splits,
      copies |-> IF needed THEN st.copies \union {<<s, b>>} ELSE st.copies,
      places |-> [st.places EXCEPT ![n] =
                    Append(@, IF needed THEN <<s, b>> ELSE Original(s))]]

BeginSplit(f, st, n) ==
  IF f[n] # Last(st.splits).backend \/ NeedNewSplit(f, st, n)
  THEN [st EXCEPT !.splits =
          Append(@, [backend |-> f[n], first |-> n, inputs |-> <<>>])]
  ELSE st

AddNode(f, st, n) ==
  IF IsView(n) THEN st
  ELSE FoldLeft(LAMBDA r, s : AddSource(f, n, r, s), BeginSplit(f, st, n), Src(n))

FirstSplit(f) ==
  [backend |-> f[Min({n \in Nodes : ~IsView(n)})], first |-> 1, inputs |-> <<>>]
BeginCut(f, known) ==
  [splits |-> <<FirstSplit(f)>>,
   copies |-> known,
   places |-> [n \in Nodes |->
     IF IsView(n) THEN [j \in DOMAIN Src(n) |-> Original(Src(n)[j])] ELSE <<>>]]

Pass5(f, known) == FoldLeft(LAMBDA st, n : AddNode(f, st, n), BeginCut(f, known), Down)

(* Fault: i_end is taken to be a node of the split.                         *)
NodesToEnd(sp, k) ==
  LET last == IF k = Len(sp) THEN Len(graph) ELSE sp[k + 1].first IN
  [i \in 1..last - sp[k].first + 1 |-> sp[k].first + i - 1]

(* The nodes of split k.                                                    *)
NodesOf(sp, k) ==
  LET last == IF k = Len(sp) THEN Len(graph) ELSE sp[k + 1].first - 1 IN
  [i \in 1..last - sp[k].first + 1 |-> sp[k].first + i - 1]

(* The copy of the graph: before the nodes of a split come, for each input, *)
(* a user of the input and the copy.                                        *)
Entry(kind, t, b) == [kind |-> kind, tensor |-> t, backend |-> b]
InputEntries(f, sp, k) ==
  [i \in 1..2 * Len(sp[k].inputs) |->
     LET s == sp[k].inputs[(i + 1) \div 2] IN
     IF i % 2 = 1 THEN Entry("dep", s, f[s]) ELSE Entry("copy", s, sp[k].backend)]
NodeEntries(f, sp, k) ==
  [i \in DOMAIN NodesOf(sp, k) |->
     LET n == NodesOf(sp, k)[i] IN Entry("node", n, f[n])]

OrderOf(f, sp) ==
  FoldLeft(LAMBDA ord, k : ord \o InputEntries(f, sp, k) \o NodeEntries(f, sp, k),
           <<>>, [k \in DOMAIN sp |-> k])

-----------------------------------------------------------------------------
(* What the graph allocator does with an order: a tensor keeps its place    *)
(* until its last user, and views of it, have been computed; one that is    *)
(* never used keeps it to the end.                                          *)
PlaceAt(ord, p) ==
  IF ord[p].kind = "copy" THEN <<ord[p].tensor, ord[p].backend>>
  ELSE Original(ord[p].tensor)
Owns(ord, p) ==
  ord[p].kind = "copy" \/ (ord[p].kind = "node" /\ Root(ord[p].tensor) = ord[p].tensor)

Users(ord, pl, place) ==
  {p \in DOMAIN ord :
     \/ ord[p].kind = "dep" /\ Original(ord[p].tensor) = place
     \/ ord[p].kind = "node" /\ place \in Range(pl[ord[p].tensor])}
LastUse(ord, pl, place) ==
  LET kin == {place} \union
        IF place[2] = -1
        THEN {Original(v) : v \in {u \in Nodes : Root(u) = place[1] /\ u # place[1]}}
        ELSE {}
  IN IF \E k \in kin : Users(ord, pl, k) = {} THEN Len(ord) + 1
     ELSE Max(UNION {Users(ord, pl, k) : k \in kin})

Place(own, buft, last) == [own |-> own, buft |-> buft, last |-> last]

(* The sources of an entry that the allocator gives places to.              *)
SourcesOf(ord, pl, p) ==
  CASE ord[p].kind = "dep"  -> <<Original(ord[p].tensor)>>
    [] ord[p].kind = "copy" -> <<>>
    [] ord[p].kind = "node" -> pl[ord[p].tensor]
ToPlace(q) == q[2] # -1 \/ (Root(q[1]) = q[1] /\ ~InBuffer(q))
PlacedSources(ord, pl, p) ==
  {j \in DOMAIN SourcesOf(ord, pl, p) : ToPlace(SourcesOf(ord, pl, p)[j])}

Reserve(f, ord, pl) ==
  [sources |-> [p \in DOMAIN ord |-> PlacedSources(ord, pl, p)],
   nodes |-> [p \in DOMAIN ord |->
     Place(Owns(ord, p), Buft(ord[p].backend), LastUse(ord, pl, PlaceAt(ord, p)))],
   leafs |-> [t \in Inputs |->
     Place(TRUE, Buft(f[t]), LastUse(ord, pl, Original(t)))]]

(* Fault: the sources are not compared.                                     *)
NodesChanged(ord) ==
  \/ Len(reserved.nodes) # Len(ord)
  \/ \E p \in DOMAIN ord : Owns(ord, p) /\ ~reserved.nodes[p].own

(* ggml_gallocr_needs_realloc, but for the sizes: a tensor that had no      *)
(* place of its own then gets none now.                                     *)
NeedsRealloc(ord) ==
  \/ Len(reserved.nodes) # Len(ord)
  \/ \E p \in DOMAIN ord :
       \/ Owns(ord, p) /\ ~reserved.nodes[p].own
       \/ ~(PlacedSources(ord, places, p) \subseteq reserved.sources[p])

(* Fault: the places are taken over whatever the backends are now.          *)
NothingChanged(ord) == FALSE

(* The leafs are where their buffers are, and inputs with the CPU: only the *)
(* backends of nodes can change.                                            *)
BackendsChanged(ord) ==
  \E p \in DOMAIN ord \intersect DOMAIN order :
    Buft(ord[p].backend) # Buft(order[p].backend)

-----------------------------------------------------------------------------
Init ==
  /\ platform \in Platforms
  /\ program \in Programs(platform)
  /\ graph = <<>>
  /\ pc = "idle" /\ status = "success"
  /\ ids = <<>> /\ copies = {}
  /\ splits = <<>> /\ places = <<>> /\ order = <<>>
  /\ reserved = [nodes |-> <<>>, leafs |-> <<>>, sources |-> <<>>]
  /\ split = 0 /\ input = 0
  /\ queue = [b \in Backends |-> <<>>]
  /\ memory = <<>>
  /\ misread = {}

BuildGraph ==
  /\ pc = "idle" /\ program # <<>>
  /\ graph' = Head(program) /\ program' = Tail(program)
  /\ pc' = "split"
  /\ UNCHANGED <<platform, status, hash, cut, split, input, queue, memory, misread>>

(* ggml_backend_sched_split_graph.  GGML_ABORT stops the program when no     *)
(* backend can run an operation on what lives in a buffer, GGML_ASSERT when  *)
(* a split has more inputs than fit.                                        *)
Stuck(t) == Stored(t) /\ BackendFromBuffer(Buffer[Root(t)], t) = -1
Assigned ==
  Pass4(Pass3(Pass2(Pass1([t \in Tensors |-> IF t \in DOMAIN ids THEN ids[t] ELSE -1]))))

SplitGraph ==
  /\ pc = "split"
  /\ ids' = Assigned
  /\ LET st == Pass5(ids', copies) IN
     /\ copies' = st.copies /\ splits' = st.splits /\ places' = st.places
     /\ pc' = IF \/ \E t \in Tensors : Stuck(t)
                 \/ \E k \in DOMAIN st.splits :
                      Len(st.splits[k].inputs) > GGML_SCHED_MAX_SPLIT_INPUTS
              THEN "aborted" ELSE "alloc"
  /\ misread' = {}
  /\ UNCHANGED <<machine, graph, status, order, reserved, split, input, queue, memory>>

(* ggml_backend_sched_alloc_splits: the places of the last graph are taken  *)
(* over if they can be.  A caller gives up when there is no memory for new  *)
(* ones.  Memory holds nothing yet but what lives in buffers of its own.    *)
AllocSplits ==
  /\ pc = "alloc"
  /\ order' = OrderOf(ids, splits)
  /\ \/ /\ ~BackendsChanged(order') /\ ~NeedsRealloc(order')
        /\ pc' = "inputs"
        /\ UNCHANGED reserved
     \/ /\ pc' \in {"inputs", "failed"}
        /\ reserved' = Reserve(ids, order', places)
  /\ memory' = [q \in {Original(t) : t \in Leaves} \union
                      {PlaceAt(order', p) : p \in {r \in DOMAIN order' : Owns(order', r)}}
                  |-> IF InBuffer(q) THEN 0 ELSE -1]
  /\ UNCHANGED <<machine, graph, status, hash, splits, places, split, input, queue, misread>>

(* The caller gives the inputs, and computes.                               *)
SetInputs ==
  /\ pc = "inputs"
  /\ memory' = [q \in DOMAIN memory |-> IF q[1] \in Inputs /\ q[2] = -1 THEN 0 ELSE memory[q]]
  /\ pc' = "compute" /\ status' = "success"
  /\ split' = 1 /\ input' = 1
  /\ UNCHANGED <<machine, graph, hash, cut, queue, misread>>

-----------------------------------------------------------------------------
(* Two tensors may share memory when one had its last user no later than    *)
(* the other was computed, in the graph the places were reserved for.       *)
PositionOf(q) ==
  IF q[2] = -1 /\ q[1] \in Inputs THEN 0
  ELSE CHOOSE p \in DOMAIN order : Owns(order, p) /\ PlaceAt(order, p) = q
PlaceOf(q) == IF PositionOf(q) = 0 THEN reserved.leafs[q[1]]
              ELSE reserved.nodes[PositionOf(q)]
MayOverlap(q, r) ==
  /\ PlaceOf(q).buft = PlaceOf(r).buft
  /\ \/ PlaceOf(q).last <= PositionOf(r)
     \/ PlaceOf(r).last <= PositionOf(q)

Written(place, value) ==
  [q \in DOMAIN memory |->
     IF q = place THEN value
     ELSE IF ~InBuffer(place) /\ ~InBuffer(q) /\ MayOverlap(q, place) THEN -1
     ELSE memory[q]]

(* What a place holds; a view has no memory of its own.                     *)
Holds(place) ==
  LET q == IF place[2] = -1 THEN Original(Root(place[1])) ELSE place IN
  IF q \in DOMAIN memory THEN memory[q] ELSE -1

(* A backend that is not asynchronous returns when it has computed.         *)
Returned ==
  split > 1 => LET b == splits[split - 1].backend IN
               b \in platform.async \/ queue[b] = <<>>
Computing == pc = "compute" /\ status = "success" /\ Returned /\ split <= Len(splits)
SplitBackend == splits[split].backend
SplitInputs  == splits[split].inputs

(* The next input of the split is copied when its backend has finished,     *)
(* and the backend that computes the input too, unless it is the caller's.  *)

(* Fault: nobody waits for the backend that computes the input.             *)
CopyInputEarly ==
  /\ Computing /\ input <= Len(SplitInputs)
  /\ LET s == SplitInputs[input] IN
     /\ queue[SplitBackend] = <<>>
     /\ memory' = Written(<<s, SplitBackend>>, Holds(Original(s)))
  /\ input' = input + 1
  /\ UNCHANGED <<machine, graph, pc, status, hash, cut, split, queue, misread>>

CopyInput ==
  /\ Computing /\ input <= Len(SplitInputs)
  /\ LET s == SplitInputs[input] IN
     /\ queue[SplitBackend] = <<>>
     /\ s \notin Inputs => queue[ids[s]] = <<>>
     /\ memory' = Written(<<s, SplitBackend>>, Holds(Original(s)))
  /\ input' = input + 1
  /\ UNCHANGED <<machine, graph, pc, status, hash, cut, split, queue, misread>>

ComputeSplit ==
  /\ Computing /\ input > Len(SplitInputs)
  /\ queue' = [queue EXCEPT ![SplitBackend] = @ \o NodesOf(splits, split)]
  /\ split' = split + 1 /\ input' = 1
  /\ UNCHANGED <<machine, graph, pc, status, hash, cut, memory, misread>>

(* A backend fails, before or after some of its nodes.                      *)
SplitFails ==
  /\ pc = "compute" /\ status = "success"
  /\ \/ /\ Computing /\ input > Len(SplitInputs)
        /\ UNCHANGED queue
     \/ /\ ~Returned
        /\ queue' = [queue EXCEPT ![splits[split - 1].backend] = <<>>]
  /\ status' = "failed"
  /\ UNCHANGED <<machine, graph, pc, hash, cut, split, input, memory, misread>>

(* The node that a computation in order would have read last from t.        *)
Writer(n, t) ==
  LET writers == {m \in 1..n - 1 : graph[m].op # "view" /\ Root(m) = Root(t)} IN
  IF writers = {} THEN 0 ELSE Max(writers)
Read(n) == IF graph[n].op = "write" THEN {1} ELSE DOMAIN Src(n)

ComputeNode(b) ==
  /\ queue[b] # <<>>
  /\ LET n == Head(queue[b]) IN
     IF IsView(n) THEN UNCHANGED <<memory, misread>>
     ELSE /\ memory' = Written(Original(Root(n)), n)
          /\ misread' = misread \union
               IF \A j \in Read(n) : Holds(places[n][j]) = Writer(n, Src(n)[j])
               THEN {} ELSE {n}
  /\ queue' = [queue EXCEPT ![b] = Tail(@)]
  /\ UNCHANGED <<machine, graph, pc, status, hash, cut, split, input>>

(* ggml_backend_sched_graph_compute waits for all backends, and whisper     *)
(* resets the scheduler.                                                    *)
Finish ==
  /\ pc = "compute" /\ (split > Len(splits) \/ status = "failed")
  /\ \A b \in Backends : queue[b] = <<>>
  /\ ids' = <<>> /\ copies' = {}
  /\ pc' = "idle"
  /\ UNCHANGED <<machine, graph, status, cut, split, input, queue, memory, misread>>

Next ==
  \/ BuildGraph \/ SplitGraph \/ AllocSplits \/ SetInputs
  \/ CopyInput \/ ComputeSplit \/ SplitFails \/ Finish
  \/ \E b \in Backends : ComputeNode(b)

Spec == Init /\ [][Next]_vars

-----------------------------------------------------------------------------
(* What a graph takes over still lasts: a tensor has its place for as long  *)
(* as this graph uses it, though the places were made for another.          *)
PlacesServe ==
  pc \in {"inputs", "compute"} =>
    \A q \in DOMAIN memory : ~InBuffer(q) =>
      PlaceOf(q).last >= LastUse(order, places, q)

(* Every tensor has a backend once a graph is allocated, and splits are in  *)
(* the order of the nodes.                                                  *)
TypeOK ==
  /\ pc \in {"idle", "split", "alloc", "inputs", "compute", "failed", "aborted"}
  /\ pc \in {"alloc", "inputs", "compute"} =>
       /\ DOMAIN ids = Tensors /\ Range(ids) \subseteq Backends
       /\ \A k \in 1..Len(splits) - 1 : splits[k].first < splits[k + 1].first
  /\ \A b \in Backends : \A j \in 1..Len(queue[b]) - 1 : queue[b][j] < queue[b][j + 1]

(* However a graph is cut and whatever backends are still computing, every  *)
(* node reads what it would read if the graph were computed in order, and   *)
(* the caller finds the last node's result.                                 *)
ReadsAsInOrder ==
  /\ misread = {}
  /\ pc = "idle" /\ status = "success" /\ graph # <<>> =>
       Holds(Original(Len(graph))) = Writer(Len(graph) + 1, Len(graph))

(* An operation runs on a backend that supports it, and finds its sources   *)
(* and its result in buffers that the backend can use, where the allocator  *)
(* has really placed them.                                                  *)
BuftOf(place) ==
  LET q == IF place[2] = -1 THEN Original(Root(place[1])) ELSE place IN
  IF InBuffer(q) THEN Buffer[q[1]] ELSE PlaceOf(q).buft
RunsWhereItCan ==
  pc \in {"inputs", "compute"} =>
    \A n \in Nodes : ~IsView(n) =>
      /\ ids[n] \in Runs(n)
      /\ \A q \in Range(places[n]) \union {Original(n)} : BuftOf(q) \in Uses(ids[n])
=============================================================================
