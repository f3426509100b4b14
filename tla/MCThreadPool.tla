---------------------------- MODULE MCThreadPool ----------------------------
(* A pool of three threads and the lists of graphs its callers compute.     *)
EXTENDS ThreadPool

G(threads, nodes) == [threads |-> threads, nodes |-> nodes]

(* Graphs that never need more threads than the one before: operations      *)
(* shared among the threads, matrix products with many chunks (12 for       *)
(* three threads, 8 for two) and with few, and a graph for the caller       *)
(* alone.                                                                   *)
MCPlans == {<<G(3, <<0, 12>>), G(3, <<12>>), G(2, <<8, 0>>)>>,
            <<G(3, <<0>>), G(2, <<3, 0>>), G(1, <<5, 0>>)>>}

(* What the proofs ask of the graphs of a pool.                             *)
ASSUME PlansNeverGrow == NeverGrows
=============================================================================
