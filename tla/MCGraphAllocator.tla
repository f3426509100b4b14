-------------------------- MODULE MCGraphAllocator --------------------------
(* Small graphs of every form and one of the size of a decoder block.       *)
EXTENDS GraphAllocator

Op(op, src, size, output) ==
  [op |-> op, src |-> src, size |-> size, view |-> 0, output |-> output]
View(src, root, size) ==
  [op |-> "view", src |-> <<src>>, size |-> size, view |-> root,
   output |-> FALSE]

(* The nodes that may come as tensor t after the leafs and nodes so far:    *)
(* one or two sources, sizes 1 and 2.                                       *)
Sources(t) ==
  {<<p>> : p \in 1..t-1} \union
  {<<pq[1], pq[2]>> : pq \in {r \in (1..t-1) \X (1..t-1) : r[1] >= r[2]}}
Ops(t, outputs) ==
  {Op(op, src, size, out) : op \in {"inplace", "other"}, src \in Sources(t),
                            size \in 1..2, out \in outputs}
RootOf(g, p) ==
  IF p > Len(g.leafs) /\ g.nodes[p - Len(g.leafs)].op = "view"
  THEN g.nodes[p - Len(g.leafs)].view ELSE p
SizeOf(g, p) ==
  IF p > Len(g.leafs) THEN g.nodes[p - Len(g.leafs)].size ELSE g.leafs[p]

(* Any graph of a leaf and three nodes, the last of which is no view.       *)
MCNodesAfter(g) ==
  LET t == Len(g.leafs) + Len(g.nodes) + 1 IN
  CASE t > 4 -> {}
    [] t = 4 -> Ops(t, {FALSE})
    [] t < 4 -> Ops(t, BOOLEAN) \union
                {View(p, RootOf(g, p), SizeOf(g, p)) : p \in 1..t-1}

(* A decoder block with its attention, as whisper builds it: normalised     *)
(* input, query, key, value, a view of the query, scores, soft max, values, *)
(* residual additions.                                                      *)
Decoder == [leafs |-> <<2, 1>>, nodes |-> <<
  Op("inplace", <<1>>, 2, FALSE),    \*  3 norm
  Op("other", <<3>>, 2, FALSE),      \*  4 query
  View(4, 4, 2),                     \*  5 query, per head
  Op("other", <<3>>, 1, FALSE),      \*  6 key
  Op("other", <<5, 6>>, 2, FALSE),   \*  7 scores
  Op("inplace", <<7, 2>>, 2, FALSE), \*  8 soft max with the mask
  Op("other", <<8, 3>>, 2, FALSE),   \*  9 values
  Op("inplace", <<9, 1>>, 2, FALSE), \* 10 residual
  Op("inplace", <<10>>, 2, TRUE),    \* 11 an output in the middle
  Op("inplace", <<11, 10>>, 2, FALSE)>>] \* 12

Scale(g, k) ==
  [leafs |-> [i \in DOMAIN g.leafs |-> k * g.leafs[i]],
   nodes |-> [i \in DOMAIN g.nodes |-> [g.nodes[i] EXCEPT !.size = k * @]]]

MCFirstGraphs == {Decoder} \union {[leafs |-> <<k>>, nodes |-> <<>>] : k \in 1..2}

(* The same graph is built again for a batch of twice the size, then for    *)
(* the first one.                                                           *)
MCGraphsAfter(n, g) ==
  {IF n = 1 THEN Scale(g, 2)
   ELSE [leafs |-> [i \in DOMAIN g.leafs |-> g.leafs[i] \div 2],
         nodes |-> [i \in DOMAIN g.nodes |->
                      [g.nodes[i] EXCEPT !.size = @ \div 2]]]}
=============================================================================
