--------------------------- MODULE MCBackendSched ---------------------------
(* Three machines: one like a Mac, where Metal, BLAS and the CPU share the  *)
(* memory and compute before they return, one with a GPU of its own memory  *)
(* that computes asynchronously, and the latter with BLAS.                  *)
EXTENDS BackendSched

Mac == [buft |-> <<"gpu", "host", "host">>,
        uses |-> <<{"gpu"}, {"gpu", "host"}, {"gpu", "host"}>>,
        host |-> {"gpu", "host"}, async |-> {}]
Gpu == [buft |-> <<"gpu", "host">>, uses |-> <<{"gpu"}, {"host"}>>,
        host |-> {"host"}, async |-> {0}]
Blas == [buft |-> <<"gpu", "host", "host">>, uses |-> <<{"gpu"}, {"host"}, {"host"}>>,
         host |-> {"host"}, async |-> {0}]
MCPlatforms == {Mac, Gpu, Blas}

(* Two inputs, one of them a mask, a cache, and weights on the GPU's and on *)
(* the CPU's side.                                                          *)
Inp == 0
Cache == -1
GpuWeight == -2
CpuWeight == -3
Mask == -4
MCLeaves  == {Inp, Mask, Cache, GpuWeight, CpuWeight}
MCInputs  == {Inp, Mask}
MCWeights == {GpuWeight, CpuWeight}
MCBuffer  == [t \in {Cache, GpuWeight, CpuWeight} |->
                IF t = CpuWeight THEN "host" ELSE "gpu"]

(* Where an operation may run.  Backends whose memory is not the host's     *)
(* support what their weights are for, and a cache is written where it is.  *)
RunsOn(m, op, src) ==
  CASE m = Mac /\ op = "write" -> {{2}, {0, 2}}
    [] m = Gpu /\ op = "write" -> {{0}, {1}}
    [] m = Blas /\ op = "write" -> {{0}, {2}}
    [] m # Mac /\ \E j \in DOMAIN src : src[j] = GpuWeight -> {{0}}
    [] m = Gpu /\ op = "op"   -> {{1}, {0, 1}}
    [] OTHER -> {{2}, {0, 2}, {1, 2}}
OffersOn(m, src) ==
  IF m = Gpu /\ \E j \in DOMAIN src : src[j] = CpuWeight THEN {{}, {0}} ELSE {{}}

(* The shape of a graph is independent of the machine.                      *)
Shape(op, src, root) == [op |-> op, src |-> src, root |-> root]

Operations(n) ==
  LET from == {Inp, GpuWeight, CpuWeight} \union 1..n - 1 IN
  {Shape("op", <<s>>, n) : s \in from} \union
  {Shape("op", p, n) : p \in {q \in from \X from : q[1] > q[2]}} \union
  {Shape("op", <<s, Mask>>, n) : s \in 1..n - 1}
Writes(n) == {Shape("write", <<s, Cache>>, Cache) : s \in {Inp} \union 1..n - 1}
Views(g) ==
  {Shape("view", <<s>>, IF s = Cache THEN Cache ELSE g[s].root) :
     s \in {Cache} \union DOMAIN g}

(* What is computed is used.                                                *)
Used(g, n) == \E m \in n + 1..Len(g) : n \in Range(g[m].src)
Fine(g) == \A n \in 1..Len(g) - 1 : g[n].op = "write" \/ Used(g, n)

Shapes ==
  LET one   == {<<n>> : n \in Operations(1) \union Writes(1) \union Views(<<>>)}
      two   == UNION {{Append(g, n) : n \in Operations(2) \union Writes(2) \union Views(g)} : g \in one}
      three == UNION {{Append(g, n) : n \in Operations(3) \union Writes(3)} : g \in two}
  IN {g \in three : Fine(g)}

(* A node of some shape on a machine.                                       *)
Node(shape, runs, offers) ==
  [op |-> shape.op, src |-> shape.src, root |-> shape.root, runs |-> runs, offers |-> offers]
NodesOn(m, shape) ==
  IF shape.op = "view" THEN {Node(shape, {}, {})}
  ELSE {Node(shape, runs, offers) :
          runs \in RunsOn(m, shape.op, shape.src), offers \in OffersOn(m, shape.src)}
Graphs(m) ==
  UNION {{<<x, y, z>> : x \in NodesOn(m, g[1]), y \in NodesOn(m, g[2]), z \in NodesOn(m, g[3])} :
           g \in Shapes}

(* The same graph for another batch: every backend supports everything now. *)
Wider(m, g) ==
  [n \in DOMAIN g |-> IF g[n].op = "view" THEN g[n]
     ELSE [g[n] EXCEPT !.runs = UNION RunsOn(m, g[n].op, g[n].src),
                       !.offers = UNION OffersOn(m, g[n].src)]]
MCPrograms(m) == {<<g, Wider(m, g)>> : g \in Graphs(m)}
=============================================================================
