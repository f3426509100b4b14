--------------------------- MODULE ParallelGraph ----------------------------
(***************************************************************************)
(* What ggml_graph_compute promises its caller, whatever the number of      *)
(* threads: the nodes of a graph are computed one after the other, every    *)
(* chunk of a node exactly once, and the call returns when the graph has    *)
(* been computed, or, aborted, after some of its nodes and none of the      *)
(* others.  ThreadPool implements it.                                       *)
(***************************************************************************)
EXTENDS Integers, Sequences

CONSTANT Jobs \* the work of each call: a sequence of sets of chunks, per node

VARIABLES
  status, \* "idle", "running" or "freed"
  times,  \* times[n][c]: how often chunk c of node n has been computed
  result  \* what the last call returned

vars == <<status, times, result>>

Untouched(job) == [n \in DOMAIN job |-> [c \in job[n] |-> 0]]

Complete(n) == \A c \in DOMAIN times[n] : times[n][c] = 1
Clean(n)    == \A c \in DOMAIN times[n] : times[n][c] = 0

Init ==
  /\ status = "idle"
  /\ times = <<>>
  /\ result = "success"

(* The caller hands over a graph.                                           *)
Start(job) ==
  /\ status = "idle"
  /\ status' = "running"
  /\ times' = Untouched(job)
  /\ UNCHANGED result

(* A thread computes a chunk of a node; the nodes before are complete.      *)
Compute(n, c) ==
  /\ status = "running"
  /\ times[n][c] = 0
  /\ \A k \in 1..n-1 : Complete(k)
  /\ times' = [times EXCEPT ![n][c] = 1]
  /\ UNCHANGED <<status, result>>

(* The call returns between two nodes, and before the last one only when    *)
(* the caller's callback asked for it.                                      *)
Return(ret) ==
  /\ status = "running"
  /\ \E done \in 0..Len(times) :
       /\ \A n \in 1..done : Complete(n)
       /\ \A n \in done+1..Len(times) : Clean(n)
       /\ ret = "success" => done = Len(times)
  /\ status' = "idle"
  /\ result' = ret
  /\ UNCHANGED times

Free ==
  /\ status = "idle"
  /\ status' = "freed"
  /\ UNCHANGED <<times, result>>

Work ==
  \/ \E n \in DOMAIN times : \E c \in DOMAIN times[n] : Compute(n, c)
  \/ \E ret \in {"success", "aborted"} : Return(ret)

Next ==
  \/ \E job \in Jobs : Start(job)
  \/ Work
  \/ Free

(* Every call returns.                                                      *)
Returns == status = "running" ~> status = "idle"

Spec == Init /\ [][Next]_vars /\ Returns

=============================================================================
