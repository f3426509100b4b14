-------------------------- MODULE ThreadPoolProofs --------------------------
(***************************************************************************)
(* Proofs about ThreadPool: for any number of threads and any graphs that   *)
(* never ask for more threads than the one before, the barriers keep all    *)
(* threads of a graph in step, and the pool computes what ParallelGraph     *)
(* promises.                                                                *)
(***************************************************************************)
EXTENDS ThreadPool, FiniteSetTheorems, SequenceTheorems, TLAPS

Steps == CallerSteps \union WorkerSteps \union GraphSteps
ThreadState ==
  [pc : Steps, lastGraph : Nat, seen : Nat, graph : Nat, nth : Nat, node : Nat,
   chunk : Nat, passed : Nat, members : Nat,
   back : {"top", "loop", "chunk", "leave"}]

(* n_threads_cur for the graph g, and before the first                      *)
ThreadsOf(g) == IF g = 0 THEN NThreads ELSE Min2(plan[g].threads, NThreads)

Typed ==
  /\ plan \in Plans
  /\ cgraph \in 0..Len(plan) /\ nGraph \in Nat
  /\ mutex \in BOOLEAN /\ stop \in BOOLEAN /\ pause \in BOOLEAN
  /\ nThreadsCur \in 1..NThreads
  /\ nBarrier \in Nat /\ nBarrierPassed \in Nat /\ currentChunk \in Nat
  /\ abort \in Int /\ {ec, ret} \subseteq {"success", "aborted"}
  /\ state \in [Threads -> ThreadState]
  /\ state[0].pc \in CallerSteps \union GraphSteps
  /\ \A w \in Workers : state[w].pc \in WorkerSteps \union GraphSteps

-----------------------------------------------------------------------------
(* Where the threads are between and within the graphs.                     *)

(* The current graph has been handed over; "kickoff" has still to wake the  *)
(* sleeping threads.                                                        *)
Running == state[0].pc \in {"kickWake"} \union GraphSteps
Members == 0..nThreadsCur - 1
Nodes   == plan[cgraph].nodes

(* The thread computes the current graph.                                   *)
InGraph(t) ==
  state[t].pc \in GraphSteps \ {"graph"} /\ state[t].graph = cgraph

CallerInv ==
  /\ mutex <=> state[0].pc \in {"kickGraph", "kickWake", "freeWake"}
  /\ nThreadsCur = ThreadsOf(IF At(0, "kickThreads") THEN cgraph - 1 ELSE cgraph)
  /\ nGraph = IF state[0].pc \in {"kickThreads", "kickGraph"} THEN cgraph - 1
                                                             ELSE cgraph
  /\ state[0].pc \notin {"idle", "freeWake", "join", "freed"} => cgraph > 0
  /\ state[0].pc \in GraphSteps \ {"graph"} => state[0].graph = cgraph

(* A secondary thread looks for work, or is on its way out of its last      *)
(* graph, or computes the current one.  A thread of the current graph has   *)
(* missed none before.                                                      *)
Placed(w) ==
  /\ state[w].graph <= state[w].lastGraph /\ state[w].lastGraph <= nGraph
  /\ At(w, "pollActive") =>
       state[w].lastGraph < state[w].seen /\ state[w].seen <= nGraph
  /\ Active(w) => state[w].lastGraph \in
                    IF Running THEN {nGraph - 1, nGraph} ELSE {nGraph}
  /\ \/ state[w].pc \in WorkerSteps
     \/ Released(w)
     \/ /\ Running /\ Active(w) /\ state[w].lastGraph = nGraph
        /\ At(w, "graph") \/ InGraph(w)
WorkerInv == \A w \in Workers : Placed(w)

(* The local variables of a thread that computes the current graph.         *)
Locals(t) ==
  LET s == state[t] IN
  /\ s.nth = nThreadsCur /\ s.node <= Len(Nodes)
  /\ s.pc \in {"forward", "chunk", "fetch", "nodeDone"} => s.node < Len(Nodes)
  /\ s.pc \in {"chunk", "fetch"} => Nodes[s.node + 1] > 0
  /\ s.pc \in {"enter", "add", "reset", "pass", "spin"} =>
       /\ s.back \in {"loop", "chunk", "leave"}
       /\ s.back = "loop"  => s.node \in 1..Len(Nodes) - 1
       /\ s.back = "chunk" => /\ s.node < Len(Nodes) /\ Nodes[s.node + 1] > 0
                              /\ s.chunk = t
       /\ s.back = "leave" => s.node = Len(Nodes) \/ abort = s.node
  /\ s.pc = "leave" => s.node = Len(Nodes) \/ abort = s.node
GraphInv == \A t \in Threads : InGraph(t) /\ Running => Locals(t)

(* Thread 0 alone aborts a graph, after a node, and goes to the end.        *)
BarrierSteps == {"enter", "add", "reset", "pass", "spin"}
ReadyInv ==
  state[0].pc \in {"kickThreads", "kickGraph"} => abort = -1 /\ ec = "success"
AbortInv ==
  Running =>
    /\ abort = -1 <=> ec = "success"
    /\ abort # -1 => /\ abort \in 1..Len(Nodes) /\ state[0].node = abort
                     /\ state[0].pc \in {"loop", "leave"} \union BarrierSteps
                     /\ state[0].pc \in BarrierSteps => state[0].back # "chunk"

-----------------------------------------------------------------------------
(* The barrier.                                                             *)
Arrived == {t \in Threads : At(t, "spin") /\ state[t].passed = nBarrierPassed}
Last    == {t \in Threads : state[t].pc \in {"reset", "pass"}}

BarrierInv ==
  /\ \A t \in Threads :
       /\ At(t, "spin") => state[t].passed <= nBarrierPassed
       /\ At(t, "add") =>
            state[t].passed = nBarrierPassed /\ state[t].members = nThreadsCur
  /\ \A t \in Last :
       /\ Arrived \union {t} = Members
       /\ nBarrier = IF At(t, "reset") THEN nThreadsCur ELSE 0
  /\ Last = {} => nBarrier = Cardinality(Arrived)

-----------------------------------------------------------------------------
(* The barrier a thread comes to next: that of a node, where it goes on at  *)
(* "loop", "chunk" or "leave".  All threads of the graph come to the same.  *)
End == <<0, "top">>
AfterNodeBarrier(n) ==
  IF n + 1 < Len(Nodes) THEN <<n + 1, "loop">> ELSE <<n + 1, "leave">>
LoopBarrier(n) ==
  IF n = Len(Nodes) \/ abort = n THEN <<n, "leave">>
  ELSE IF Nodes[n + 1] > 0 THEN <<n, "chunk">>
  ELSE AfterNodeBarrier(n)

(* From the step pc with its node.                                          *)
BarrierFrom(pc, node) ==
  CASE pc = "loop" -> LoopBarrier(node)
    [] pc = "forward" -> IF Nodes[node + 1] > 0 THEN <<node, "chunk">>
                                                ELSE AfterNodeBarrier(node)
    [] pc \in {"chunk", "fetch", "nodeDone"} -> AfterNodeBarrier(node)
    [] OTHER -> End

(* A thread that has not begun the current graph.                           *)
NotBegun(t) ==
  IF t = 0 THEN state[0].pc \in {"kickWake", "graph"}
           ELSE state[t].lastGraph # nGraph \/ At(t, "graph")

InBarrier(t) ==
  \/ state[t].pc \in {"enter", "add", "reset", "pass"}
  \/ At(t, "spin") /\ state[t].passed = nBarrierPassed

NextBarrier(t) ==
  IF NotBegun(t) THEN LoopBarrier(0)
  ELSE IF InBarrier(t) THEN <<state[t].node, state[t].back>>
  ELSE IF At(t, "spin") THEN BarrierFrom(state[t].back, state[t].node)
  ELSE BarrierFrom(state[t].pc, state[t].node)

InStep == Running => \A t \in Members : NextBarrier(t) = NextBarrier(0)

PoolInv ==
  /\ Typed /\ CallerInv /\ WorkerInv /\ GraphInv /\ ReadyInv /\ AbortInv
  /\ BarrierInv /\ InStep

-----------------------------------------------------------------------------
(* What has been computed.                                                  *)
JobTyped ==
  cgraph > 0 =>
    LET job == JobOf(plan[cgraph], ThreadsOf(cgraph)) IN
    /\ DOMAIN times = DOMAIN job /\ DOMAIN converted = DOMAIN job
    /\ \A n \in DOMAIN job : times[n] \in [job[n] -> Nat]

Complete(n) == \A c \in DOMAIN times[n] : times[n][c] = 1
Clean(n)    == \A c \in DOMAIN times[n] : times[n][c] = 0

FreshInv ==
  state[0].pc \in {"kickThreads", "kickGraph"} =>
    \A n \in DOMAIN times : Clean(n) /\ converted[n] = {}

(* The next barrier is that of node k: nodes after k are untouched, those   *)
(* before are complete, and node k itself, unless it is being computed.     *)
Computing(k, back) ==
  back = "loop" \/ (back = "leave" /\ k = Len(Nodes) /\ k > 0)
InOrder(k, back) ==
  /\ \A n \in 1..k - 1 : Complete(n)
  /\ ~Computing(k, back) /\ k > 0 => Complete(k)
  /\ \A n \in k + 1..Len(Nodes) : Clean(n)
  /\ \A n \in k + 2..Len(Nodes) : converted[n] = {}
  /\ back # "chunk" /\ k < Len(Nodes) => converted[k + 1] = {}

(* The end of the graph, after its first n nodes.                           *)
Finished(n) ==
  /\ \A m \in 1..n : Complete(m)
  /\ \A m \in n + 1..Len(Nodes) : Clean(m)

(* The threads that have converted their share of node k + 1 are those that *)
(* have come to its barrier; thread 0 has reset the chunk counter.          *)
Waiting(t) == InGraph(t) /\ InBarrier(t)
Converting(k) ==
  /\ converted[k + 1] = {t \in Members : Waiting(t)}
  /\ Waiting(0) => currentChunk = nThreadsCur

(* The thread has done its part of node k, the one that is being computed.  *)
PartDone(t, k) ==
  InGraph(t) /\ (At(t, "nodeDone") \/ state[t].node = k)

Shared(k) ==
  \A t \in Members : times[k][t] = IF PartDone(t, k) THEN 1 ELSE 0

(* A thread holds the chunk that it will compute next; those below the      *)
(* counter that no thread holds have been computed.                         *)
Holding(t) ==
  /\ InGraph(t)
  /\ \/ At(t, "chunk")
     \/ At(t, "spin") /\ ~InBarrier(t) /\ state[t].back = "chunk"
NotHeld(c) == \A t \in Members : ~(Holding(t) /\ state[t].chunk = c)
Chunked(k) ==
  /\ converted[k] = Members
  /\ currentChunk >= nThreadsCur
  /\ \A t \in Members : Holding(t) => state[t].chunk < currentChunk
  /\ \A t, u \in Members :
       Holding(t) /\ Holding(u) /\ state[t].chunk = state[u].chunk => t = u
  /\ \A c \in DOMAIN times[k] :
       times[k][c] = IF c < currentChunk /\ NotHeld(c) THEN 1 ELSE 0
  /\ \A t \in Members :
       /\ PartDone(t, k) => currentChunk >= NChunks(Nodes[k], nThreadsCur)
       /\ At(t, "fetch") => nThreadsCur < NChunks(Nodes[k], nThreadsCur)

Progress(k, back) ==
  /\ back = "top" => Finished(state[0].node)
  /\ back # "top" => InOrder(k, back)
  /\ back = "chunk" => Converting(k)
  /\ Computing(k, back) /\ Nodes[k] = 0 => Shared(k)
  /\ Computing(k, back) /\ Nodes[k] > 0 => Chunked(k)

DataInv ==
  /\ JobTyped /\ FreshInv
  /\ Running => Progress(NextBarrier(0)[1], NextBarrier(0)[2])

-----------------------------------------------------------------------------
LEMMA StepSets ==
  /\ CallerSteps \intersect GraphSteps = {} /\ WorkerSteps \intersect GraphSteps = {}
  /\ CallerSteps \intersect WorkerSteps = {}
BY DEF CallerSteps, WorkerSteps, GraphSteps

LEMMA ZeroIsThread == 0 \in Threads /\ NThreads \in Nat \ {0}
BY PlansAssumption DEF Threads

LEMMA TypedInit == Init => Typed
<1> SUFFICES ASSUME Init PROVE Typed
  OBVIOUS
<1>1. 0 \in Threads /\ NThreads \in Nat \ {0} /\ Workers \subseteq Threads \ {0}
  BY ZeroIsThread DEF Threads, Workers
<1>2. /\ Fresh \in ThreadState /\ Fresh.pc = "top"
      /\ [Fresh EXCEPT !.pc = "idle"] \in ThreadState
      /\ [Fresh EXCEPT !.pc = "idle"].pc = "idle"
  BY DEF Fresh, ThreadState, Steps, WorkerSteps, CallerSteps
<1>3. state = [t \in Threads |-> IF t = 0 THEN [Fresh EXCEPT !.pc = "idle"] ELSE Fresh]
  BY DEF Init
<1> HIDE DEF Init
<1>4. state \in [Threads -> ThreadState]
  BY <1>2, <1>3
<1>5. state[0].pc = "idle" /\ \A w \in Workers : state[w].pc = "top"
  BY <1>1, <1>2, <1>3
<1>6. Len(plan) \in Nat
  BY PlansAssumption DEF Init
<1>7. mutex \in BOOLEAN /\ stop \in BOOLEAN /\ pause \in BOOLEAN
  BY DEF Init
<1>8. cgraph \in 0..Len(plan) /\ nThreadsCur \in 1..NThreads
  BY <1>1, <1>6 DEF Init
<1>9. /\ plan \in Plans /\ nGraph \in Nat /\ nBarrier \in Nat /\ nBarrierPassed \in Nat
      /\ currentChunk \in Nat /\ abort \in Int
      /\ {ec, ret} \subseteq {"success", "aborted"}
  BY DEF Init
<1>10. /\ state[0].pc \in CallerSteps \union GraphSteps
       /\ \A w \in Workers : state[w].pc \in WorkerSteps \union GraphSteps
  BY <1>5 DEF CallerSteps, WorkerSteps
<1> QED
  BY <1>4, <1>7, <1>8, <1>9, <1>10 DEF Typed

-----------------------------------------------------------------------------
(* What a step changes in the state of its thread.                          *)
Others(t) == \A u \in Threads \ {t} : state'[u] = state[u]
Alone(t) == state' \in [Threads -> ThreadState] /\ Others(t)
KeepsGraph(t) ==
  /\ state'[t].lastGraph = state[t].lastGraph /\ state'[t].seen = state[t].seen
  /\ state'[t].graph = state[t].graph /\ state'[t].nth = state[t].nth
KeepsNode(t) ==
  state'[t].node = state[t].node
KeepsPlace(t) ==
  /\ state'[t].node = state[t].node /\ state'[t].chunk = state[t].chunk
  /\ state'[t].back = state[t].back
KeepsBarrier(t) ==
  state'[t].passed = state[t].passed /\ state'[t].members = state[t].members

LEMMA AloneFacts ==
  ASSUME Typed, NEW t \in Threads, NEW s \in ThreadState,
         state' = [state EXCEPT ![t] = s]
  PROVE  Alone(t) /\ state'[t] = s
BY DEF Typed, Alone, Others

(* A thread goes to another step.                                           *)
LEMMA GotoFacts ==
  ASSUME Typed, NEW t \in Threads, NEW pc \in Steps, Goto(t, pc)
  PROVE  /\ Alone(t) /\ state'[t].pc = pc
         /\ KeepsGraph(t) /\ KeepsPlace(t) /\ KeepsBarrier(t)
<1> DEFINE s == [state[t] EXCEPT !.pc = pc]
<1>1. state[t] \in ThreadState
  BY DEF Typed
<1>2. /\ s \in ThreadState /\ s.pc = pc
      /\ s.lastGraph = state[t].lastGraph /\ s.seen = state[t].seen
      /\ s.graph = state[t].graph /\ s.nth = state[t].nth
      /\ s.node = state[t].node /\ s.chunk = state[t].chunk /\ s.back = state[t].back
      /\ s.passed = state[t].passed /\ s.members = state[t].members
  BY <1>1 DEF ThreadState
<1>3. state' = [state EXCEPT ![t] = s]
  BY DEF Goto, Typed
<1> HIDE DEF s
<1>4. Alone(t) /\ state'[t] = s
  BY <1>2, <1>3, AloneFacts
<1> QED
  BY <1>2, <1>4 DEF KeepsGraph, KeepsPlace, KeepsBarrier

(* A thread enters a barrier.                                               *)
LEMMA WaitFacts ==
  ASSUME Typed, NEW t \in Threads, NEW node \in Nat, NEW chunk \in Nat,
         NEW back \in {"loop", "chunk", "leave"},
         state' = [state EXCEPT ![t].node = node, ![t].chunk = chunk,
                                ![t].back = back, ![t].pc = "enter"]
  PROVE  /\ Alone(t) /\ state'[t].pc = "enter" /\ state'[t].node = node
         /\ state'[t].chunk = chunk /\ state'[t].back = back
         /\ KeepsGraph(t) /\ KeepsBarrier(t)
<1> DEFINE s == [state[t] EXCEPT !.node = node, !.chunk = chunk, !.back = back,
                                 !.pc = "enter"]
<1>1. state[t] \in ThreadState
  BY DEF Typed
<1>2. /\ s \in ThreadState /\ s.pc = "enter"
      /\ s.lastGraph = state[t].lastGraph /\ s.seen = state[t].seen
      /\ s.graph = state[t].graph /\ s.nth = state[t].nth
      /\ s.node = node /\ s.chunk = chunk /\ s.back = back
      /\ s.passed = state[t].passed /\ s.members = state[t].members
  BY <1>1 DEF ThreadState, Steps, GraphSteps
<1>3. state' = [state EXCEPT ![t] = s]
  BY DEF Typed
<1> HIDE DEF s
<1>4. Alone(t) /\ state'[t] = s
  BY <1>2, <1>3, AloneFacts
<1> QED
  BY <1>2, <1>4 DEF KeepsGraph, KeepsBarrier

LEMMA BeginGraphFacts ==
  ASSUME Typed, NEW t \in Threads, BeginGraph(t)
  PROVE  /\ Alone(t) /\ state'[t].pc = "loop" /\ state'[t].graph = cgraph
         /\ state'[t].nth = nThreadsCur /\ state'[t].node = 0
         /\ state'[t].lastGraph = state[t].lastGraph
<1> DEFINE s == [state[t] EXCEPT !.graph = cgraph, !.nth = nThreadsCur,
                                 !.node = 0, !.pc = "loop"]
<1>1. state[t] \in ThreadState /\ cgraph \in Nat /\ nThreadsCur \in Nat
  BY PlansAssumption DEF Typed
<1>2. /\ s \in ThreadState /\ s.pc = "loop" /\ s.graph = cgraph
      /\ s.nth = nThreadsCur /\ s.node = 0 /\ s.lastGraph = state[t].lastGraph
  BY <1>1 DEF ThreadState, Steps, GraphSteps
<1>3. state' = [state EXCEPT ![t] = s]
  BY DEF BeginGraph, Typed
<1> HIDE DEF s
<1> QED
  BY <1>2, <1>3, AloneFacts

LEMMA LoopTestFacts ==
  ASSUME Typed, NEW t \in Threads, LoopTest(t)
  PROVE  /\ Alone(t) /\ KeepsGraph(t) /\ KeepsNode(t)
         /\ \/ /\ state[t].node < Len(NodesOf(t)) /\ abort # state[t].node
               /\ state'[t].pc = "forward"
            \/ /\ state[t].node = Len(NodesOf(t)) \/ abort = state[t].node
               /\ state'[t].pc = "enter" /\ state'[t].back = "leave"
<1> DEFINE more == state[t].node < Len(NodesOf(t)) /\ abort # state[t].node
           done == state[t].node = Len(NodesOf(t)) \/ abort = state[t].node
<1>1. CASE more /\ Goto(t, "forward")
  <2>1. "forward" \in Steps
    BY DEF Steps, GraphSteps
  <2> QED
    BY <1>1, <2>1, GotoFacts DEF KeepsPlace, KeepsNode
<1>2. CASE done /\ state' = Wait(t, state[t].node, "leave")
  <2> DEFINE node == state[t].node
  <2>1. node \in Nat /\ 0 \in Nat
    BY DEF Typed, ThreadState
  <2>2. state' = [state EXCEPT ![t].node = node, ![t].chunk = 0,
                               ![t].back = "leave", ![t].pc = "enter"]
    BY <1>2 DEF Wait
  <2>3. /\ Alone(t) /\ state'[t].pc = "enter" /\ state'[t].node = node
        /\ state'[t].back = "leave" /\ KeepsGraph(t)
    <3> HIDE DEF node
    <3> QED
      BY <2>1, <2>2, WaitFacts
  <2> QED
    BY <1>2, <2>3 DEF KeepsNode
<1> QED
  BY <1>1, <1>2 DEF LoopTest

LEMMA ForwardShareFacts ==
  ASSUME Typed, NEW t \in Threads, ForwardShare(t)
  PROVE  /\ Alone(t) /\ KeepsGraph(t) /\ KeepsNode(t)
         /\ state'[t].pc = "nodeDone"
BY GotoFacts DEF ForwardShare, Steps, GraphSteps, KeepsPlace, KeepsNode

LEMMA ForwardConvertFacts ==
  ASSUME Typed, NEW t \in Threads, ForwardConvert(t)
  PROVE  /\ Alone(t) /\ KeepsGraph(t) /\ KeepsNode(t)
         /\ state'[t].pc = "enter" /\ state'[t].back = "chunk"
         /\ state'[t].chunk = t
<1>1. state[t].node \in Nat /\ t \in Nat
  BY DEF Typed, ThreadState, Threads
<1>2. state' = [state EXCEPT ![t].node = state[t].node, ![t].chunk = t,
                             ![t].back = "chunk", ![t].pc = "enter"]
  BY DEF ForwardConvert, Wait, Typed, ThreadState
<1> QED
  BY <1>1, <1>2, WaitFacts DEF KeepsNode

LEMMA ChunkFacts ==
  ASSUME Typed, NEW t \in Threads, Chunk(t)
  PROVE  /\ Alone(t) /\ KeepsGraph(t) /\ KeepsNode(t)
         /\ state'[t].chunk = state[t].chunk
         /\ \/ /\ state[t].chunk < ChunksOf(t) /\ Computed(t, state[t].chunk)
               /\ state'[t].pc = IF state[t].nth >= ChunksOf(t) THEN "nodeDone"
                                                                ELSE "fetch"
            \/ /\ state[t].chunk >= ChunksOf(t) /\ UNCHANGED times
               /\ state'[t].pc = "nodeDone"
<1>1. "nodeDone" \in Steps /\ "fetch" \in Steps
  BY DEF Steps, GraphSteps
<1>2. ASSUME NEW pc \in {"nodeDone", "fetch"}, Goto(t, pc)
      PROVE  /\ Alone(t) /\ KeepsGraph(t) /\ KeepsNode(t)
             /\ state'[t].chunk = state[t].chunk /\ state'[t].pc = pc
  BY <1>1, <1>2, GotoFacts DEF KeepsPlace, KeepsNode
<1> QED
  BY <1>2 DEF Chunk

LEMMA FetchChunkFacts ==
  ASSUME Typed, NEW t \in Threads, FetchChunk(t)
  PROVE  /\ Alone(t) /\ KeepsGraph(t) /\ KeepsNode(t)
         /\ state'[t].chunk = currentChunk /\ state'[t].pc = "chunk"
<1> DEFINE s == [state[t] EXCEPT !.chunk = currentChunk, !.pc = "chunk"]
<1>1. state[t] \in ThreadState /\ currentChunk \in Nat
  BY DEF Typed
<1>2. /\ s \in ThreadState /\ s.pc = "chunk" /\ s.chunk = currentChunk
      /\ s.lastGraph = state[t].lastGraph /\ s.seen = state[t].seen
      /\ s.graph = state[t].graph /\ s.nth = state[t].nth
      /\ s.node = state[t].node
  BY <1>1 DEF ThreadState, Steps, GraphSteps
<1>3. state' = [state EXCEPT ![t] = s]
  BY DEF FetchChunk, Typed
<1> HIDE DEF s
<1>4. Alone(t) /\ state'[t] = s
  BY <1>2, <1>3, AloneFacts
<1> QED
  BY <1>2, <1>4 DEF KeepsGraph, KeepsNode

LEMMA NodeDoneFacts ==
  ASSUME Typed, NEW t \in Threads, NodeDone(t)
  PROVE  /\ Alone(t) /\ KeepsGraph(t) /\ state'[t].node = state[t].node + 1
         /\ IF state[t].node + 1 < Len(NodesOf(t))
            THEN state'[t].pc = "enter" /\ state'[t].back = "loop"
            ELSE state'[t].pc = "loop"
<1> DEFINE next == state[t].node + 1
<1>1. state[t] \in ThreadState /\ next \in Nat
  BY SMTT(60) DEF Typed, ThreadState
<1> HIDE DEF next
<1>2. CASE next < Len(NodesOf(t))
  <2>1. state' = [state EXCEPT ![t].node = next, ![t].chunk = 0,
                               ![t].back = "loop", ![t].pc = "enter"]
    BY <1>2 DEF NodeDone, AfterNode, Wait, next
  <2> QED
    BY <1>1, <1>2, <2>1, WaitFacts DEF next
<1>3. CASE ~(next < Len(NodesOf(t)))
  <2> DEFINE s == [state[t] EXCEPT !.node = next, !.chunk = 0, !.pc = "loop"]
  <2>1. /\ s \in ThreadState /\ s.pc = "loop" /\ s.node = next
        /\ s.lastGraph = state[t].lastGraph /\ s.seen = state[t].seen
        /\ s.graph = state[t].graph /\ s.nth = state[t].nth
    BY <1>1 DEF ThreadState, Steps, GraphSteps
  <2>2. state' = [state EXCEPT ![t] = s]
    BY <1>3 DEF NodeDone, AfterNode, Typed, next
  <2> HIDE DEF s
  <2>3. Alone(t) /\ state'[t] = s
    BY <2>1, <2>2, AloneFacts
  <2> QED
    BY <1>3, <2>1, <2>3 DEF KeepsGraph, next
<1> QED
  BY <1>2, <1>3

LEMMA BarrierEnterFacts ==
  ASSUME Typed, NEW t \in Threads, BarrierEnter(t)
  PROVE  /\ Alone(t) /\ KeepsGraph(t) /\ KeepsPlace(t)
         /\ IF nThreadsCur = 1 THEN state'[t].pc = state[t].back
            ELSE /\ state'[t].pc = "add" /\ state'[t].passed = nBarrierPassed
                 /\ state'[t].members = nThreadsCur
<1>1. CASE nThreadsCur = 1
  <2>1. state[t].back \in Steps
    BY DEF Typed, ThreadState, Steps, GraphSteps, WorkerSteps
  <2>2. Goto(t, state[t].back)
    BY <1>1 DEF BarrierEnter, Goto
  <2> QED
    BY <1>1, <2>1, <2>2, GotoFacts
<1>2. CASE nThreadsCur # 1
  <2> DEFINE s == [state[t] EXCEPT !.passed = nBarrierPassed,
                                   !.members = nThreadsCur, !.pc = "add"]
  <2>1. /\ state[t] \in ThreadState /\ nThreadsCur \in Nat /\ nBarrierPassed \in Nat
    BY PlansAssumption DEF Typed
  <2>2. /\ s \in ThreadState /\ s.pc = "add" /\ s.passed = nBarrierPassed
        /\ s.members = nThreadsCur
        /\ s.lastGraph = state[t].lastGraph /\ s.seen = state[t].seen
        /\ s.graph = state[t].graph /\ s.nth = state[t].nth
        /\ s.node = state[t].node /\ s.chunk = state[t].chunk
        /\ s.back = state[t].back
    BY <2>1 DEF ThreadState, Steps, GraphSteps
  <2>3. state' = [state EXCEPT ![t] = s]
    BY <1>2 DEF BarrierEnter, Typed
  <2> HIDE DEF s
  <2>4. Alone(t) /\ state'[t] = s
    BY <2>2, <2>3, AloneFacts
  <2> QED
    BY <1>2, <2>2, <2>4 DEF KeepsGraph, KeepsPlace
<1> QED
  BY <1>1, <1>2

LEMMA BarrierAddFacts ==
  ASSUME Typed, NEW t \in Threads, BarrierAdd(t)
  PROVE  /\ Alone(t) /\ KeepsGraph(t) /\ KeepsPlace(t) /\ KeepsBarrier(t)
         /\ state'[t].pc = IF nBarrier = state[t].members - 1 THEN "reset" ELSE "spin"
<1> DEFINE pc == IF nBarrier = state[t].members - 1 THEN "reset" ELSE "spin"
<1>1. pc \in Steps /\ Goto(t, pc)
  BY DEF BarrierAdd, Steps, GraphSteps
<1> HIDE DEF pc
<1>2. /\ Alone(t) /\ KeepsGraph(t) /\ KeepsPlace(t) /\ KeepsBarrier(t)
      /\ state'[t].pc = pc
  BY <1>1, GotoFacts
<1> QED
  BY <1>2 DEF pc

LEMMA BarrierResetFacts ==
  ASSUME Typed, NEW t \in Threads, BarrierReset(t)
  PROVE  /\ Alone(t) /\ KeepsGraph(t) /\ KeepsPlace(t) /\ KeepsBarrier(t)
         /\ state'[t].pc = "pass"
<1>1. "pass" \in Steps /\ Goto(t, "pass")
  BY DEF BarrierReset, Steps, GraphSteps
<1> QED
  BY <1>1, GotoFacts

(* A thread leaves a barrier.                                               *)
LEMMA LeaveFacts ==
  ASSUME Typed, NEW t \in Threads, Leave(t)
  PROVE  /\ Alone(t) /\ KeepsGraph(t) /\ KeepsPlace(t)
         /\ state'[t].pc = state[t].back
<1> DEFINE s == [state[t] EXCEPT !.pc = state[t].back, !.passed = 0, !.members = 0]
<1>1. state[t] \in ThreadState /\ state[t].back \in Steps
  BY DEF Typed, ThreadState, Steps, GraphSteps, WorkerSteps
<1>2. /\ s \in ThreadState /\ s.pc = state[t].back
      /\ s.lastGraph = state[t].lastGraph /\ s.seen = state[t].seen
      /\ s.graph = state[t].graph /\ s.nth = state[t].nth
      /\ s.node = state[t].node /\ s.chunk = state[t].chunk
      /\ s.back = state[t].back
  BY <1>1 DEF ThreadState
<1>3. state' = [state EXCEPT ![t] = s]
  BY DEF Leave, Typed
<1> HIDE DEF s
<1>4. Alone(t) /\ state'[t] = s
  BY <1>2, <1>3, AloneFacts
<1> QED
  BY <1>2, <1>4 DEF KeepsGraph, KeepsPlace

LEMMA EndGraphFacts ==
  ASSUME Typed, NEW t \in Threads, EndGraph(t)
  PROVE  /\ Alone(t) /\ state'[t].pc = (IF t = 0 THEN "idle" ELSE "top")
         /\ state'[t].graph = 0 /\ state'[t].lastGraph = state[t].lastGraph
         /\ state'[t].nth = 0
<1> DEFINE pc == IF t = 0 THEN "idle" ELSE "top"
           s == [state[t] EXCEPT !.graph = 0, !.nth = 0, !.node = 0,
                                 !.back = "top", !.pc = pc]
<1>1. state[t] \in ThreadState /\ pc \in Steps
  BY DEF Typed, Steps, CallerSteps, WorkerSteps
<1>2. state' = [state EXCEPT ![t] = s]
  BY DEF EndGraph, Typed
<1> HIDE DEF pc
<1>3. /\ s \in ThreadState /\ s.pc = pc /\ s.graph = 0 /\ s.nth = 0
      /\ s.lastGraph = state[t].lastGraph
  BY <1>1 DEF ThreadState
<1> HIDE DEF s
<1> QED
  BY <1>2, <1>3, AloneFacts DEF pc

(* A secondary thread that looks for work.                                  *)
SeekStep(w) ==
  /\ Alone(w) /\ KeepsPlace(w) /\ KeepsBarrier(w) /\ ReadsOnly
  /\ state'[w].graph = state[w].graph /\ state'[w].nth = state[w].nth
  /\ state[w].pc \in WorkerSteps
  /\ \/ /\ state'[w].lastGraph = state[w].lastGraph
        /\ state'[w].pc \in WorkerSteps \ {"pollActive"}
     \/ /\ At(w, "pollGraph") /\ nGraph # state[w].lastGraph
        /\ state'[w].lastGraph = state[w].lastGraph
        /\ state'[w].pc = "pollActive" /\ state'[w].seen = nGraph
     \/ /\ At(w, "pollActive") /\ state'[w].lastGraph = state[w].seen
        /\ state'[w].pc \in IF Active(w) THEN {"graph"} ELSE {"poll", "lock"}
     \/ /\ At(w, "lock") /\ nGraph # state[w].lastGraph
        /\ state'[w].lastGraph = nGraph
        /\ state'[w].pc = IF Active(w) THEN "graph" ELSE "wait"

LEMMA SeekFacts ==
  ASSUME Typed, NEW w \in Workers, Seek(w) \/ SpuriousWake(w)
  PROVE  SeekStep(w)
<1>1. w \in Threads /\ WorkerSteps \subseteq Steps /\ "graph" \in Steps
  BY DEF Workers, Threads, Steps, GraphSteps
<1>2. ASSUME NEW pc \in WorkerSteps \ {"pollActive"}, Goto(w, pc), ReadsOnly,
             state[w].pc \in WorkerSteps
      PROVE  SeekStep(w)
  BY <1>1, <1>2, GotoFacts DEF SeekStep, KeepsGraph
<1>3. ASSUME NEW pc \in Steps, NEW last \in Nat, NEW seen \in Nat,
             state' = [state EXCEPT ![w].lastGraph = last, ![w].seen = seen,
                                    ![w].pc = pc]
      PROVE  /\ Alone(w) /\ KeepsPlace(w) /\ KeepsBarrier(w)
             /\ state'[w].graph = state[w].graph /\ state'[w].nth = state[w].nth
             /\ state'[w].lastGraph = last /\ state'[w].seen = seen
             /\ state'[w].pc = pc
  <2> DEFINE s == [state[w] EXCEPT !.lastGraph = last, !.seen = seen, !.pc = pc]
  <2>1. state[w] \in ThreadState
    BY <1>1 DEF Typed
  <2>2. /\ s \in ThreadState /\ s.pc = pc /\ s.lastGraph = last /\ s.seen = seen
        /\ s.graph = state[w].graph /\ s.nth = state[w].nth
        /\ s.node = state[w].node /\ s.chunk = state[w].chunk
        /\ s.back = state[w].back
        /\ s.passed = state[w].passed /\ s.members = state[w].members
    BY <2>1 DEF ThreadState
  <2>3. state' = [state EXCEPT ![w] = s]
    BY <1>1, <1>3 DEF Typed
  <2> HIDE DEF s
  <2>4. Alone(w) /\ state'[w] = s
    BY <1>1, <2>2, <2>3, AloneFacts
  <2> QED
    BY <2>2, <2>4 DEF KeepsPlace, KeepsBarrier
<1>4. state[w].seen \in Nat /\ state[w].lastGraph \in Nat /\ nGraph \in Nat
      /\ state \in [Threads -> ThreadState]
  BY <1>1 DEF Typed, ThreadState
<1>5. CASE Top(w)
  BY <1>2, <1>5 DEF Top, At, WorkerSteps
<1>6. CASE PauseLock(w)
  BY <1>2, <1>6 DEF PauseLock, At, WorkerSteps
<1>7. CASE StopTest(w)
  BY <1>2, <1>7 DEF StopTest, At, WorkerSteps
<1>8. CASE CheckForWork(w)
  BY <1>2, <1>8 DEF CheckForWork, At, WorkerSteps
<1>9. CASE Poll(w)
  BY <1>2, <1>9 DEF Poll, At, WorkerSteps
<1>10. CASE PollGraph(w)
  <2>1. CASE nGraph = state[w].lastGraph
    BY <1>2, <1>10, <2>1 DEF PollGraph, At, WorkerSteps
  <2>2. CASE nGraph # state[w].lastGraph
    <3>1. state' = [state EXCEPT ![w].lastGraph = state[w].lastGraph,
                                 ![w].seen = nGraph, ![w].pc = "pollActive"]
      BY <1>1, <1>4, <1>10, <2>2 DEF PollGraph, ThreadState
    <3>2. "pollActive" \in Steps
      BY <1>1 DEF WorkerSteps
    <3> DEFINE last == state[w].lastGraph
    <3>3. last \in Nat
      BY <1>4
    <3> HIDE DEF last
    <3>4. /\ Alone(w) /\ KeepsPlace(w) /\ KeepsBarrier(w)
          /\ state'[w].graph = state[w].graph /\ state'[w].nth = state[w].nth
          /\ state'[w].lastGraph = last /\ state'[w].seen = nGraph
          /\ state'[w].pc = "pollActive"
      BY <1>3, <1>4, <3>1, <3>2, <3>3 DEF last
    <3> QED
      BY <1>10, <2>2, <3>4 DEF PollGraph, SeekStep, WorkerSteps, At, last
  <2> QED
    BY <2>1, <2>2
<1>11. CASE PollActive(w)
  <2>1. PICK pc \in IF Active(w) THEN {"graph"} ELSE {"poll", "lock"} :
          state' = [state EXCEPT ![w].lastGraph = state[w].seen, ![w].seen = 0,
                                 ![w].pc = pc]
    BY <1>11 DEF PollActive
  <2>2. pc \in Steps
    BY <1>1, <2>1 DEF WorkerSteps
  <2> DEFINE last == state[w].seen
  <2>3. last \in Nat /\ 0 \in Nat
    BY <1>4
  <2>4. state' = [state EXCEPT ![w].lastGraph = last, ![w].seen = 0, ![w].pc = pc]
    BY <2>1
  <2> HIDE DEF last
  <2>5. /\ Alone(w) /\ KeepsPlace(w) /\ KeepsBarrier(w)
        /\ state'[w].graph = state[w].graph /\ state'[w].nth = state[w].nth
        /\ state'[w].lastGraph = last /\ state'[w].pc = pc
    BY <1>3, <2>2, <2>3, <2>4
  <2> QED
    BY <1>11, <2>1, <2>5 DEF PollActive, SeekStep, WorkerSteps, At, last
<1>12. CASE Lock(w)
  <2>1. CASE Goto(w, "top") \/ Goto(w, "wait")
    BY <1>2, <1>12, <2>1 DEF Lock, At, WorkerSteps
  <2>2. CASE ~(Goto(w, "top") \/ Goto(w, "wait"))
    <3> DEFINE pc == IF Active(w) THEN "graph" ELSE "wait"
               seen == state[w].seen
    <3>1. pc \in Steps /\ seen \in Nat
      BY <1>1, <1>4 DEF WorkerSteps
    <3>2. state' = [state EXCEPT ![w].lastGraph = nGraph, ![w].pc = pc]
      BY <1>12, <2>2 DEF Lock
    <3> HIDE DEF pc
    <3>3. state' = [state EXCEPT ![w].lastGraph = nGraph, ![w].seen = seen,
                                 ![w].pc = pc]
      BY <1>1, <1>4, <3>2 DEF ThreadState
    <3> HIDE DEF seen
    <3>4. /\ Alone(w) /\ KeepsPlace(w) /\ KeepsBarrier(w)
          /\ state'[w].graph = state[w].graph /\ state'[w].nth = state[w].nth
          /\ state'[w].lastGraph = nGraph /\ state'[w].pc = pc
      BY <1>3, <1>4, <3>1, <3>3
    <3> QED
      BY <1>12, <2>2, <3>4 DEF Lock, SeekStep, WorkerSteps, At, pc
  <2> QED
    BY <2>1, <2>2
<1>13. CASE SpuriousWake(w)
  <2>1. \/ state[w].pc = "wait" /\ Goto(w, "lock")
        \/ state[w].pc = "pauseWait" /\ Goto(w, "top")
    BY <1>4, <1>13 DEF SpuriousWake, Awake, Goto
  <2> QED
    BY <1>2, <1>13, <2>1 DEF SpuriousWake, WorkerSteps
<1> QED
  BY <1>5, <1>6, <1>7, <1>8, <1>9, <1>10, <1>11, <1>12, <1>13 DEF Seek

(* Broadcast moves the threads that sleep.                                  *)
Wakes(pc0) ==
  /\ state' \in [Threads -> ThreadState]
  /\ \A t \in Threads : /\ KeepsGraph(t) /\ KeepsPlace(t) /\ KeepsBarrier(t)
                        /\ t # 0 => state'[t].pc = Awake(state[t]).pc
  /\ state'[0].pc = pc0

LEMMA AwakeFacts ==
  ASSUME NEW s \in ThreadState
  PROVE  /\ Awake(s) \in ThreadState
         /\ Awake(s).pc = IF s.pc = "pauseWait" THEN "top"
                          ELSE IF s.pc = "wait" THEN "lock" ELSE s.pc
         /\ Awake(s).lastGraph = s.lastGraph /\ Awake(s).seen = s.seen
         /\ Awake(s).graph = s.graph /\ Awake(s).nth = s.nth
         /\ Awake(s).node = s.node /\ Awake(s).chunk = s.chunk
         /\ Awake(s).back = s.back
         /\ Awake(s).passed = s.passed /\ Awake(s).members = s.members
<1>1. ASSUME NEW pc \in Steps
      PROVE  LET r == [s EXCEPT !.pc = pc] IN
             /\ r \in ThreadState /\ r.pc = pc
             /\ r.lastGraph = s.lastGraph /\ r.seen = s.seen
             /\ r.graph = s.graph /\ r.nth = s.nth
             /\ r.node = s.node /\ r.chunk = s.chunk /\ r.back = s.back
             /\ r.passed = s.passed /\ r.members = s.members
  BY DEF ThreadState
<1>2. "top" \in Steps /\ "lock" \in Steps
  BY DEF Steps, WorkerSteps
<1>3. CASE s.pc = "pauseWait"
  <2>1. Awake(s) = [s EXCEPT !.pc = "top"]
    BY <1>3 DEF Awake
  <2> QED
    BY <1>1, <1>2, <1>3, <2>1
<1>4. CASE s.pc = "wait"
  <2>1. Awake(s) = [s EXCEPT !.pc = "lock"]
    BY <1>4 DEF Awake
  <2> QED
    BY <1>1, <1>2, <1>4, <2>1
<1>5. CASE s.pc \notin {"pauseWait", "wait"}
  BY <1>5 DEF Awake
<1> QED
  BY <1>3, <1>4, <1>5

LEMMA BroadcastFacts ==
  ASSUME Typed, NEW pc0 \in Steps, Broadcast(pc0), state[0].pc \notin WorkerSteps
  PROVE  Wakes(pc0)
<1> DEFINE f == [t \in Threads |-> Awake(state[t])]
<1>1. 0 \in Threads /\ \A t \in Threads : state[t] \in ThreadState
  BY ZeroIsThread DEF Typed
<1>2. f \in [Threads -> ThreadState] /\ \A t \in Threads : f[t] = Awake(state[t])
  BY <1>1, AwakeFacts
<1>3. state' = [f EXCEPT ![0].pc = pc0]
  BY DEF Broadcast
<1> HIDE DEF f
<1> DEFINE s == [f[0] EXCEPT !.pc = pc0]
<1>4. f[0] \in ThreadState
  BY <1>1, <1>2
<1>5. /\ s \in ThreadState /\ s.pc = pc0
      /\ s.lastGraph = f[0].lastGraph /\ s.seen = f[0].seen
      /\ s.graph = f[0].graph /\ s.nth = f[0].nth
      /\ s.node = f[0].node /\ s.chunk = f[0].chunk /\ s.back = f[0].back
      /\ s.passed = f[0].passed /\ s.members = f[0].members
  BY <1>4 DEF ThreadState
<1>6. state' = [f EXCEPT ![0] = s]
  BY <1>1, <1>2, <1>3
<1> HIDE DEF s
<1>7. /\ state' \in [Threads -> ThreadState] /\ state'[0] = s
      /\ \A t \in Threads \ {0} : state'[t] = f[t]
  BY <1>1, <1>2, <1>5, <1>6
<1>8. ASSUME NEW t \in Threads
      PROVE  KeepsGraph(t) /\ KeepsPlace(t) /\ KeepsBarrier(t)
  <2>1. /\ state[t] \in ThreadState /\ f[t] = Awake(state[t])
    BY <1>1, <1>2
  <2>2. /\ state'[t].lastGraph = f[t].lastGraph /\ state'[t].seen = f[t].seen
        /\ state'[t].graph = f[t].graph /\ state'[t].nth = f[t].nth
        /\ state'[t].node = f[t].node /\ state'[t].chunk = f[t].chunk
        /\ state'[t].back = f[t].back
        /\ state'[t].passed = f[t].passed /\ state'[t].members = f[t].members
    BY <1>5, <1>7
  <2> QED
    BY <2>1, <2>2, AwakeFacts DEF KeepsGraph, KeepsPlace, KeepsBarrier
<1> QED
  BY <1>2, <1>5, <1>7, <1>8 DEF Wakes

LEMMA CallerGoto ==
  ASSUME Typed, NEW pc \in CallerSteps, Goto(0, pc)
  PROVE  /\ Alone(0) /\ state'[0].pc = pc
         /\ KeepsGraph(0) /\ KeepsPlace(0) /\ KeepsBarrier(0)
BY ZeroIsThread, GotoFacts DEF Steps

(* The steps of the caller.                                                 *)
LEMMA CallerFacts ==
  ASSUME Typed
  PROVE  /\ GraphCompute => /\ Alone(0) /\ state'[0].pc = "kickThreads"
                            /\ KeepsGraph(0) /\ KeepsPlace(0) /\ KeepsBarrier(0)
         /\ KickThreads => /\ Alone(0) /\ state'[0].pc = "kickGraph"
                           /\ KeepsGraph(0) /\ KeepsPlace(0) /\ KeepsBarrier(0)
         /\ KickGraph => /\ Alone(0) /\ state'[0].pc = "kickWake"
                         /\ KeepsGraph(0) /\ KeepsPlace(0) /\ KeepsBarrier(0)
         /\ FreeStop => /\ Alone(0) /\ state'[0].pc = "freeWake"
                        /\ KeepsGraph(0) /\ KeepsPlace(0) /\ KeepsBarrier(0)
         /\ Join => /\ Alone(0) /\ state'[0].pc = "freed"
                    /\ KeepsGraph(0) /\ KeepsPlace(0) /\ KeepsBarrier(0)
         /\ KickWake => Wakes("graph")
         /\ PauseOrResume => Wakes("idle")
         /\ FreeWake => Wakes("join")
<1>1. \A pc \in {"kickThreads", "kickGraph", "kickWake", "freeWake", "freed", "idle", "join"} :
        pc \in CallerSteps
  BY DEF CallerSteps
<1>2. "graph" \in Steps /\ CallerSteps \subseteq Steps
  BY DEF Steps, GraphSteps
<1>3. GraphCompute => Goto(0, "kickThreads")
  BY DEF GraphCompute
<1>4. KickThreads => Goto(0, "kickGraph")
  BY DEF KickThreads
<1>5. KickGraph => Goto(0, "kickWake")
  BY DEF KickGraph
<1>6. FreeStop => Goto(0, "freeWake")
  BY DEF FreeStop
<1>7. Join => Goto(0, "freed")
  BY DEF Join
<1>8. KickWake => Broadcast("graph") /\ state[0].pc \notin WorkerSteps
  BY DEF KickWake, At, WorkerSteps
<1>9. PauseOrResume => Broadcast("idle") /\ state[0].pc \notin WorkerSteps
  BY DEF PauseOrResume, At, WorkerSteps
<1>10. FreeWake => Broadcast("join") /\ state[0].pc \notin WorkerSteps
  BY DEF FreeWake, At, WorkerSteps
<1>11. "idle" \in Steps /\ "join" \in Steps
  BY <1>1, <1>2
<1> QED
  BY <1>1, <1>2, <1>3, <1>4, <1>5, <1>6, <1>7, <1>8, <1>9, <1>10, <1>11,
     CallerGoto, BroadcastFacts

-----------------------------------------------------------------------------
LEMMA MemberFacts ==
  ASSUME Typed
  PROVE  /\ Members \subseteq Threads /\ 0 \in Members /\ 0 \in Threads
         /\ Workers = Threads \ {0} /\ nThreadsCur \in Nat \ {0}
         /\ \A w \in Threads : w \in Members <=> Active(w)
<1>1. nThreadsCur \in 1..NThreads /\ NThreads \in Nat \ {0}
  BY ZeroIsThread DEF Typed
<1> QED
  BY <1>1 DEF Members, Threads, Workers, Active

LEMMA GraphFacts ==
  ASSUME Typed, cgraph > 0
  PROVE  /\ cgraph \in 1..Len(plan) /\ plan[cgraph] \in Graph
         /\ plan[cgraph].threads \in Nat \ {0}
         /\ Nodes \in Seq(Nat) /\ Len(Nodes) \in Nat
<1>1. plan \in Seq(Graph) /\ cgraph \in 1..Len(plan)
  BY PlansAssumption DEF Typed
<1>2. plan[cgraph] \in Graph
  BY <1>1
<1> QED
  BY <1>1, <1>2 DEF Graph, Nodes

LEMMA RunningFacts ==
  ASSUME PoolInv, Running
  PROVE  /\ cgraph \in Nat \ {0} /\ nGraph = cgraph /\ nThreadsCur = ThreadsOf(cgraph)
         /\ Nodes \in Seq(Nat) /\ Len(Nodes) \in Nat
<1>1. state[0].pc \notin {"idle", "kickThreads", "kickGraph", "freeWake", "join", "freed"}
  BY DEF Running, GraphSteps
<1>2. cgraph > 0 /\ nGraph = cgraph /\ nThreadsCur = ThreadsOf(cgraph)
  BY <1>1 DEF PoolInv, CallerInv, At
<1>3. Typed
  BY DEF PoolInv
<1> QED
  BY <1>2, <1>3, GraphFacts

(* Where a thread is that is at a step of a graph.                          *)
LEMMA ThreadFacts ==
  ASSUME PoolInv, NEW t \in Threads
  PROVE  /\ At(t, "graph") => /\ Running /\ t \in Members
                              /\ t # 0 => state[t].lastGraph = nGraph
         /\ state[t].pc \in GraphSteps \ {"graph"} =>
              \/ Released(t)
              \/ /\ Running /\ t \in Members /\ InGraph(t)
                 /\ t # 0 => state[t].lastGraph = nGraph
         /\ state[t].pc \in GraphSteps \ {"graph", "spin", "leave"} => ~Released(t)
<1>1. CASE t = 0
  BY <1>1, MemberFacts
     DEF PoolInv, CallerInv, Running, InGraph, At, GraphSteps, Released
<1>2. CASE t # 0
  <2>1. t \in Workers
    BY <1>2, MemberFacts DEF PoolInv
  <2>2. \/ state[t].pc \in WorkerSteps
        \/ Released(t)
        \/ /\ Running /\ Active(t) /\ state[t].lastGraph = nGraph
           /\ At(t, "graph") \/ InGraph(t)
    BY <2>1 DEF PoolInv, WorkerInv, Placed
  <2>3. state[t].pc \notin GraphSteps \/ state[t].pc \notin WorkerSteps
    BY StepSets
  <2>4. state[t].pc \in GraphSteps \ {"graph", "spin", "leave"} => ~Released(t)
    BY DEF Released, At
  <2>5. At(t, "graph") => state[t].pc \in GraphSteps /\ ~Released(t)
    BY DEF At, Released, GraphSteps
  <2>6. Active(t) => t \in Members
    BY MemberFacts DEF PoolInv
  <2>7. InGraph(t) => ~At(t, "graph")
    BY DEF InGraph, At, GraphSteps
  <2>8. CASE state[t].pc \in WorkerSteps
    BY <2>3, <2>4, <2>5, <2>8
  <2>9. CASE Released(t)
    BY <2>4, <2>5, <2>9
  <2>10. CASE /\ Running /\ Active(t) /\ state[t].lastGraph = nGraph
              /\ At(t, "graph") \/ InGraph(t)
    BY <2>4, <2>6, <2>10 DEF At
  <2> QED
    BY <2>2, <2>8, <2>9, <2>10
<1> QED
  BY <1>1, <1>2

(* A thread in a barrier, or at a step of a node, computes the graph.       *)
LEMMA InGraphFacts ==
  ASSUME PoolInv, NEW t \in Threads, state[t].pc \in GraphSteps \ {"graph"}, ~Released(t)
  PROVE  /\ Running /\ t \in Members /\ InGraph(t) /\ ~NotBegun(t)
         /\ NodesOf(t) = Nodes /\ state[t].nth = nThreadsCur
         /\ state[t].node \in 0..Len(Nodes)
<1>1. /\ Running /\ t \in Members /\ InGraph(t)
      /\ t # 0 => state[t].lastGraph = nGraph
  BY ThreadFacts
<1>2. ~NotBegun(t)
  BY <1>1 DEF NotBegun, InGraph, At, GraphSteps
<1>3. NodesOf(t) = Nodes
  BY <1>1 DEF InGraph, NodesOf, Nodes
<1>4. state[t].nth = nThreadsCur /\ state[t].node <= Len(Nodes)
  BY <1>1 DEF PoolInv, GraphInv, Locals
<1>5. state[t].node \in Nat
  BY DEF PoolInv, Typed, ThreadState
<1>6. Len(Nodes) \in Nat
  BY <1>1, RunningFacts
<1> QED
  BY <1>1, <1>2, <1>3, <1>4, <1>5, <1>6

-----------------------------------------------------------------------------
(* Every variable keeps its type.                                           *)
LEMMA StateTyped ==
  ASSUME PoolInv, NEW t \in Threads, Alone(t),
         state'[t].pc \in GraphSteps \union IF t = 0 THEN CallerSteps ELSE WorkerSteps
  PROVE  /\ state' \in [Threads -> ThreadState]
         /\ state'[0].pc \in CallerSteps \union GraphSteps
         /\ \A w \in Workers : state'[w].pc \in WorkerSteps \union GraphSteps
BY MemberFacts DEF PoolInv, Typed, Alone, Others

(* A step of ggml_graph_compute_thread or ggml_barrier, neither the first   *)
(* nor the last of a graph.                                                 *)
Inner(t) ==
  /\ Alone(t) /\ KeepsGraph(t) /\ UNCHANGED <<pool, ret>>
  /\ state[t].pc \in GraphSteps \ {"graph", "leave"}
  /\ state'[t].pc \in GraphSteps \ {"graph"}
  /\ Released(t) => At(t, "spin") /\ state'[t].pc = "leave"
  /\ nBarrierPassed' \in {nBarrierPassed, nBarrierPassed + 1}

InnerSteps(t) ==
  \/ LoopTest(t) \/ ForwardShare(t) \/ ForwardConvert(t) \/ Chunk(t)
  \/ FetchChunk(t) \/ NodeDone(t) \/ BarrierEnter(t) \/ BarrierAdd(t)
  \/ BarrierReset(t) \/ BarrierPass(t) \/ BarrierSpin(t)

(* Where a barrier lets a thread go on.                                     *)
LEMMA BackFacts ==
  ASSUME PoolInv, NEW t \in Threads, InnerSteps(t),
         state[t].pc \in {"enter", "add", "reset", "pass", "spin"}
  PROVE  state[t].back \in {"loop", "chunk", "leave"}
<1>1. CASE Released(t)
  BY <1>1 DEF Released, At
<1>2. CASE ~Released(t)
  <2>1. state[t].pc \in GraphSteps \ {"graph"}
    BY DEF GraphSteps
  <2>2. Running /\ InGraph(t)
    BY <1>2, <2>1, InGraphFacts
  <2> QED
    BY <2>2 DEF PoolInv, GraphInv, Locals
<1> QED
  BY <1>1, <1>2

LEMMA InnerFacts ==
  ASSUME PoolInv, NEW t \in Threads, InnerSteps(t)
  PROVE  Inner(t)
<1>1. Typed
  BY DEF PoolInv
<1>2. \A pc \in {"loop", "forward", "chunk", "fetch", "nodeDone", "enter", "add",
                 "reset", "pass", "spin", "leave"} : pc \in GraphSteps \ {"graph"}
  BY DEF GraphSteps
<1>3. state[t].pc # "spin" /\ state[t].pc # "leave" => ~Released(t)
  BY DEF Released, At
<1>4. CASE LoopTest(t)
  BY <1>1, <1>2, <1>3, <1>4, LoopTestFacts DEF Inner, LoopTest, At, barrier, outcome
<1>5. CASE ForwardShare(t)
  BY <1>1, <1>2, <1>3, <1>5, ForwardShareFacts
     DEF Inner, ForwardShare, At, barrier, outcome
<1>6. CASE ForwardConvert(t)
  <2>1. state[t].pc = "forward" /\ UNCHANGED <<pool, barrier, outcome>>
    BY <1>6 DEF ForwardConvert, At
  <2>2. Alone(t) /\ KeepsGraph(t) /\ state'[t].pc = "enter"
    BY <1>1, <1>6, ForwardConvertFacts
  <2> QED
    BY <1>2, <1>3, <2>1, <2>2 DEF Inner, barrier, outcome
<1>7. CASE Chunk(t)
  BY <1>1, <1>2, <1>3, <1>7, ChunkFacts DEF Inner, Chunk, At, barrier, outcome
<1>8. CASE FetchChunk(t)
  BY <1>1, <1>2, <1>3, <1>8, FetchChunkFacts DEF Inner, FetchChunk, At, barrier, outcome
<1>9. CASE NodeDone(t)
  BY <1>1, <1>2, <1>3, <1>9, NodeDoneFacts DEF Inner, NodeDone, At, barrier
<1>10. CASE BarrierEnter(t)
  <2>1. state[t].pc = "enter" /\ state[t].back \in {"loop", "chunk", "leave"}
    BY <1>10, BackFacts DEF BarrierEnter, At, InnerSteps
  <2> QED
    BY <1>1, <1>2, <1>3, <1>10, <2>1, BarrierEnterFacts
       DEF Inner, BarrierEnter, barrier, outcome
<1>11. CASE BarrierAdd(t)
  BY <1>1, <1>2, <1>3, <1>11, BarrierAddFacts DEF Inner, BarrierAdd, At, outcome
<1>12. CASE BarrierReset(t)
  BY <1>1, <1>2, <1>3, <1>12, BarrierResetFacts DEF Inner, BarrierReset, At, outcome
<1>13. CASE BarrierPass(t)
  <2>1. state[t].pc = "pass" /\ state[t].back \in {"loop", "chunk", "leave"}
    BY <1>13, BackFacts DEF BarrierPass, At, InnerSteps
  <2> QED
    BY <1>1, <1>2, <1>3, <1>13, <2>1, LeaveFacts DEF Inner, BarrierPass, outcome
<1>14. CASE BarrierSpin(t)
  <2>1. state[t].pc = "spin" /\ state[t].back \in {"loop", "chunk", "leave"}
    BY <1>14, BackFacts DEF BarrierSpin, At, InnerSteps
  <2>2. Released(t) => state[t].back = "leave"
    BY <2>1 DEF Released, At
  <2> QED
    BY <1>1, <1>2, <1>14, <2>1, <2>2, LeaveFacts
       DEF Inner, BarrierSpin, At, barrier, outcome
<1> QED
  BY <1>4, <1>5, <1>6, <1>7, <1>8, <1>9, <1>10, <1>11, <1>12, <1>13, <1>14
     DEF InnerSteps

LEMMA InnerTyped ==
  ASSUME PoolInv, NEW t \in Threads, InnerSteps(t)
  PROVE  Typed'
<1>1. Typed /\ Inner(t)
  BY InnerFacts DEF PoolInv
<1>2. state[t] \in ThreadState /\ state[t].nth \in Nat /\ state[t].node \in Nat
  BY <1>1 DEF Typed, ThreadState
<1>3. nBarrier' \in Nat /\ nBarrierPassed' \in Nat
  <2>1. nBarrier' \in {nBarrier, 0, nBarrier + 1}
    BY DEF InnerSteps, LoopTest, ForwardShare, ForwardConvert, Chunk, FetchChunk,
           NodeDone, BarrierEnter, BarrierAdd, BarrierReset, BarrierPass,
           BarrierSpin, barrier
  <2> QED
    BY <1>1, <2>1 DEF Typed, Inner
<1>4. currentChunk' \in Nat
  <2>1. currentChunk' \in {currentChunk, currentChunk + 1, state[t].nth}
    BY DEF InnerSteps, LoopTest, ForwardShare, ForwardConvert, Chunk, FetchChunk,
           NodeDone, BarrierEnter, BarrierAdd, BarrierReset, BarrierPass,
           BarrierSpin, FirstFreeChunk
  <2> QED
    BY <1>1, <1>2, <2>1 DEF Typed
<1>5. abort' \in Int /\ {ec', ret'} \subseteq {"success", "aborted"}
  <2>1. /\ abort' \in {abort, state[t].node + 1}
        /\ ec' \in {ec, "aborted"} /\ ret' = ret
    BY DEF InnerSteps, LoopTest, ForwardShare, ForwardConvert, Chunk, FetchChunk,
           NodeDone, BarrierEnter, BarrierAdd, BarrierReset, BarrierPass,
           BarrierSpin, outcome
  <2> QED
    BY <1>1, <1>2, <2>1 DEF Typed
<1>6. /\ state' \in [Threads -> ThreadState]
      /\ state'[0].pc \in CallerSteps \union GraphSteps
      /\ \A w \in Workers : state'[w].pc \in WorkerSteps \union GraphSteps
  BY <1>1, StateTyped DEF Inner
<1> QED
  BY <1>1, <1>3, <1>4, <1>5, <1>6 DEF Typed, Inner, pool, switches

LEMMA TypedStep ==
  ASSUME PoolInv, Next
  PROVE  Typed'
<1>1. Typed
  BY DEF PoolInv
<1>2. 0 \in Threads /\ NThreads \in Nat \ {0} /\ Workers = Threads \ {0}
  BY <1>1, ZeroIsThread, MemberFacts
<1>3. Len(plan) \in Nat /\ plan \in Seq(Graph)
  BY <1>1, PlansAssumption DEF Typed
<1>4. \A pc \in {"kickThreads", "kickGraph", "kickWake", "freeWake", "freed", "idle", "join"} :
        pc \in CallerSteps
  BY DEF CallerSteps
<1>5. ASSUME NEW pc \in CallerSteps, Alone(0), state'[0].pc = pc
      PROVE  /\ state' \in [Threads -> ThreadState]
             /\ state'[0].pc \in CallerSteps \union GraphSteps
             /\ \A w \in Workers : state'[w].pc \in WorkerSteps \union GraphSteps
  BY <1>2, <1>5, StateTyped
<1>6. ASSUME NEW pc \in CallerSteps \union GraphSteps, Wakes(pc)
      PROVE  /\ state' \in [Threads -> ThreadState]
             /\ state'[0].pc \in CallerSteps \union GraphSteps
             /\ \A w \in Workers : state'[w].pc \in WorkerSteps \union GraphSteps
  <2>1. ASSUME NEW w \in Workers
        PROVE  state'[w].pc \in WorkerSteps \union GraphSteps
    <3>1. state[w] \in ThreadState /\ state[w].pc \in WorkerSteps \union GraphSteps
      BY <1>1, <1>2 DEF Typed
    <3>2. state'[w].pc = Awake(state[w]).pc
      BY <1>2, <1>6 DEF Wakes
    <3> QED
      BY <3>1, <3>2, AwakeFacts DEF WorkerSteps
  <2> QED
    BY <1>6, <2>1 DEF Wakes
<1>7. CASE GraphCompute
  BY <1>1, <1>3, <1>4, <1>5, <1>7, CallerFacts
     DEF GraphCompute, Typed, barrier, switches
<1>8. CASE KickThreads
  <2>1. nThreadsCur' \in 1..NThreads
    <3>1. cgraph \in 1..Len(plan)
      BY <1>1, <1>8 DEF KickThreads, PoolInv, CallerInv, Typed, At
    <3>2. plan[cgraph].threads \in Nat \ {0}
      BY <1>1, <3>1, GraphFacts
    <3> QED
      BY <1>2, <1>8, <3>2 DEF KickThreads, Min2
  <2>2. /\ UNCHANGED <<plan, cgraph, nGraph, barrier, currentChunk, switches, outcome>>
        /\ mutex' = TRUE
    BY <1>8 DEF KickThreads
  <2> QED
    BY <1>1, <1>4, <1>5, <1>8, <2>1, <2>2, CallerFacts
       DEF Typed, barrier, switches, outcome
<1>9. CASE KickGraph
  BY <1>1, <1>4, <1>5, <1>9, CallerFacts
     DEF KickGraph, Typed, barrier, switches, outcome
<1>10. CASE KickWake
  <2>1. "graph" \in GraphSteps
    BY DEF GraphSteps
  <2> QED
    BY <1>1, <1>6, <1>10, <2>1, CallerFacts DEF KickWake, Typed, barrier, outcome
<1>11. CASE PauseOrResume
  <2>1. pause' \in BOOLEAN /\ UNCHANGED <<mutex, stop>>
    BY <1>1, <1>11 DEF PauseOrResume, Typed
  <2> QED
    BY <1>1, <1>4, <1>6, <1>11, <2>1, CallerFacts
       DEF PauseOrResume, Typed, barrier, outcome
<1>12. CASE FreeStop
  BY <1>1, <1>4, <1>5, <1>12, CallerFacts DEF FreeStop, Typed, barrier, outcome
<1>13. CASE FreeWake
  BY <1>1, <1>4, <1>6, <1>13, CallerFacts DEF FreeWake, Typed, barrier, outcome
<1>14. CASE Join
  BY <1>1, <1>4, <1>5, <1>14, CallerFacts DEF Join, Typed, barrier, switches, outcome
<1>15. ASSUME NEW w \in Workers, Seek(w) \/ SpuriousWake(w)
       PROVE  Typed'
  <2>1. SeekStep(w)
    BY <1>1, <1>15, SeekFacts
  <2>2. state'[w].pc \in WorkerSteps \union GraphSteps
    BY <2>1 DEF SeekStep, WorkerSteps, GraphSteps
  <2>3. /\ state' \in [Threads -> ThreadState]
        /\ state'[0].pc \in CallerSteps \union GraphSteps
        /\ \A u \in Workers : state'[u].pc \in WorkerSteps \union GraphSteps
    BY <1>2, <2>1, <2>2, StateTyped DEF SeekStep
  <2> QED
    BY <1>1, <2>1, <2>3 DEF SeekStep, ReadsOnly, Typed, barrier, switches, outcome
<1>16. ASSUME NEW t \in Threads, BeginGraph(t)
       PROVE  Typed'
  <2>1. Alone(t) /\ state'[t].pc = "loop"
    BY <1>1, <1>16, BeginGraphFacts
  <2>2. /\ state' \in [Threads -> ThreadState]
        /\ state'[0].pc \in CallerSteps \union GraphSteps
        /\ \A u \in Workers : state'[u].pc \in WorkerSteps \union GraphSteps
    BY <2>1, StateTyped DEF GraphSteps
  <2> QED
    BY <1>1, <1>16, <2>2 DEF BeginGraph, Typed, pool, barrier, switches, outcome
<1>17. ASSUME NEW t \in Threads, EndGraph(t)
       PROVE  Typed'
  <2>1. Alone(t) /\ state'[t].pc = IF t = 0 THEN "idle" ELSE "top"
    BY <1>1, <1>17, EndGraphFacts
  <2>2. /\ state' \in [Threads -> ThreadState]
        /\ state'[0].pc \in CallerSteps \union GraphSteps
        /\ \A u \in Workers : state'[u].pc \in WorkerSteps \union GraphSteps
    BY <1>4, <2>1, StateTyped DEF WorkerSteps
  <2>3. {ec', ret'} \subseteq {"success", "aborted"}
    BY <1>1, <1>17 DEF EndGraph, Typed
  <2> QED
    BY <1>1, <1>17, <2>2, <2>3 DEF EndGraph, Typed, pool, barrier, switches
<1> QED
  BY <1>7, <1>8, <1>9, <1>10, <1>11, <1>12, <1>13, <1>14, <1>15, <1>16, <1>17,
     InnerTyped DEF Next, Kickoff, Free, GraphComputeThread, InnerSteps

-----------------------------------------------------------------------------
(* The steps of the pool, by what they change.                              *)
NextOfThreads == \E t \in Threads : BeginGraph(t) \/ InnerSteps(t) \/ EndGraph(t)
NextOfWorkers == \E w \in Workers : Seek(w) \/ SpuriousWake(w)
NextOfCaller ==
  \/ GraphCompute \/ KickThreads \/ KickGraph \/ KickWake
  \/ PauseOrResume \/ FreeStop \/ FreeWake \/ Join

LEMMA NextCases == Next <=> NextOfThreads \/ NextOfWorkers \/ NextOfCaller
BY DEF Next, NextOfThreads, NextOfWorkers, NextOfCaller, Kickoff, Free,
       GraphComputeThread, InnerSteps

LEMMA CallerKept ==
  ASSUME CallerInv, state'[0] = state[0], UNCHANGED pool
  PROVE  CallerInv'
BY DEF CallerInv, pool, ThreadsOf, At

LEMMA CallerStep ==
  ASSUME PoolInv, Next
  PROVE  CallerInv'
<1>1. Typed /\ CallerInv /\ 0 \in Threads /\ Workers = Threads \ {0}
  BY MemberFacts DEF PoolInv
<1>2. cgraph \in Nat /\ nGraph \in Nat
  BY <1>1, PlansAssumption DEF Typed
<1>3. CASE GraphCompute
  <2>1. /\ state[0].pc = "idle" /\ state'[0].pc = "kickThreads"
        /\ cgraph' = cgraph + 1
        /\ UNCHANGED <<plan, mutex, nGraph, nThreadsCur>>
    BY <1>1, <1>3, CallerFacts DEF GraphCompute, At
  <2>2. cgraph' - 1 = cgraph /\ cgraph' > 0
    BY <1>2, <2>1
  <2>3. ThreadsOf(cgraph)' = ThreadsOf(cgraph') /\ ThreadsOf(cgraph - 1)' = ThreadsOf(cgraph)
    BY <2>1, <2>2 DEF ThreadsOf
  <2>4. nThreadsCur' = ThreadsOf(cgraph - 1)' /\ nGraph' = cgraph' - 1 /\ ~mutex'
    BY <1>1, <2>1, <2>2, <2>3 DEF CallerInv, At, Typed
  <2> QED
    BY <2>1, <2>2, <2>4 DEF CallerInv, At, GraphSteps
<1>4. CASE KickThreads
  <2>1. /\ state[0].pc = "kickThreads" /\ state'[0].pc = "kickGraph" /\ mutex'
        /\ nThreadsCur' = Min2(plan[cgraph].threads, NThreads)
        /\ UNCHANGED <<plan, cgraph, nGraph>>
    BY <1>1, <1>4, CallerFacts DEF KickThreads, At
  <2>2. cgraph > 0
    BY <1>1, <2>1 DEF CallerInv
  <2>3. nThreadsCur' = ThreadsOf(cgraph)'
    BY <1>2, <2>1, <2>2 DEF ThreadsOf
  <2> QED
    BY <1>1, <2>1, <2>2, <2>3 DEF CallerInv, At, GraphSteps
<1>5. CASE KickGraph
  <2>1. /\ state[0].pc = "kickGraph" /\ state'[0].pc = "kickWake"
        /\ nGraph' = nGraph + 1
        /\ UNCHANGED <<plan, cgraph, mutex, nThreadsCur>>
    BY <1>1, <1>5, CallerFacts DEF KickGraph, At
  <2>2. ThreadsOf(cgraph)' = ThreadsOf(cgraph)
    BY <2>1 DEF ThreadsOf
  <2> QED
    BY <1>1, <1>2, <2>1, <2>2 DEF CallerInv, At, GraphSteps
<1>6. CASE KickWake \/ PauseOrResume \/ FreeStop \/ FreeWake \/ Join
  <2>1. /\ UNCHANGED <<plan, cgraph, nGraph, nThreadsCur>>
        /\ \/ state[0].pc = "kickWake" /\ state'[0].pc = "graph" /\ ~mutex'
           \/ state[0].pc = "idle" /\ state'[0].pc = "idle" /\ mutex' = mutex
           \/ state[0].pc = "idle" /\ state'[0].pc = "freeWake" /\ mutex'
           \/ state[0].pc = "freeWake" /\ state'[0].pc = "join" /\ ~mutex'
           \/ state[0].pc = "join" /\ state'[0].pc = "freed" /\ mutex' = mutex
    BY <1>1, <1>6, CallerFacts
       DEF KickWake, PauseOrResume, FreeStop, FreeWake, Join, At, Wakes
  <2>2. ThreadsOf(cgraph)' = ThreadsOf(cgraph)
    BY <2>1 DEF ThreadsOf
  <2> QED
    BY <1>1, <2>1, <2>2 DEF CallerInv, At, GraphSteps
<1>7. ASSUME NEW w \in Workers, Seek(w) \/ SpuriousWake(w)
      PROVE  CallerInv'
  <2>1. SeekStep(w)
    BY <1>1, <1>7, SeekFacts
  <2> QED
    BY <1>1, <2>1, CallerKept DEF SeekStep, Alone, Others, ReadsOnly, pool
<1>8. ASSUME NEW t \in Threads, BeginGraph(t) \/ InnerSteps(t) \/ EndGraph(t)
      PROVE  CallerInv'
  <2>1. UNCHANGED pool /\ Alone(t)
    BY <1>1, <1>8, BeginGraphFacts, EndGraphFacts, InnerFacts
       DEF BeginGraph, EndGraph, Inner
  <2>2. CASE t # 0
    BY <1>1, <2>1, <2>2, CallerKept DEF Alone, Others
  <2>3. CASE t = 0
    <3>1. \/ /\ state[0].pc \in GraphSteps /\ state'[0].pc \in GraphSteps \ {"graph"}
             /\ \/ state[0].pc = "graph" /\ state'[0].graph = cgraph
                \/ state[0].pc # "graph" /\ state'[0].graph = state[0].graph
          \/ state[0].pc = "leave" /\ state'[0].pc = "idle"
      <4>1. CASE BeginGraph(0)
        BY <1>1, <4>1, BeginGraphFacts DEF BeginGraph, At, GraphSteps
      <4>2. CASE InnerSteps(0)
        BY <1>1, <4>2, InnerFacts DEF Inner, KeepsGraph
      <4>3. CASE EndGraph(0)
        BY <1>1, <4>3, EndGraphFacts DEF EndGraph, At
      <4> QED
        BY <1>8, <2>3, <4>1, <4>2, <4>3
    <3>2. ThreadsOf(cgraph)' = ThreadsOf(cgraph)
      BY <2>1 DEF pool, ThreadsOf
    <3>3. state[0].pc \in GraphSteps => state[0].pc \notin CallerSteps
      BY StepSets
    <3>4. state'[0].pc \in GraphSteps => state'[0].pc \notin CallerSteps
      BY StepSets
    <3>5. state[0].pc \notin CallerSteps
      BY <3>1, <3>3 DEF GraphSteps
    <3>6. mutex = FALSE /\ mutex' = mutex /\ cgraph > 0
      BY <1>1, <2>1, <3>5 DEF CallerInv, Typed, CallerSteps, pool
    <3>7. nThreadsCur = ThreadsOf(cgraph) /\ nGraph = cgraph
      BY <1>1, <3>5 DEF CallerInv, CallerSteps, At
    <3>8. nThreadsCur' = nThreadsCur /\ nGraph' = nGraph /\ cgraph' = cgraph
      BY <2>1 DEF pool
    <3>9. CASE state[0].pc = "leave" /\ state'[0].pc = "idle"
      BY <3>2, <3>6, <3>7, <3>8, <3>9 DEF CallerInv, At, GraphSteps
    <3>10. CASE /\ state[0].pc \in GraphSteps /\ state'[0].pc \in GraphSteps \ {"graph"}
                /\ \/ state[0].pc = "graph" /\ state'[0].graph = cgraph
                   \/ state[0].pc # "graph" /\ state'[0].graph = state[0].graph
      <4>1. state'[0].graph = cgraph
        BY <1>1, <3>10 DEF CallerInv
      <4>2. state'[0].pc \notin CallerSteps
        BY <3>4, <3>10
      <4> QED
        BY <3>2, <3>6, <3>7, <3>8, <4>1, <4>2 DEF CallerInv, At, CallerSteps
    <3> QED
      BY <3>1, <3>9, <3>10
  <2> QED
    BY <2>2, <2>3
<1> QED
  BY <1>3, <1>4, <1>5, <1>6, <1>7, <1>8, NextCases
     DEF NextOfThreads, NextOfWorkers, NextOfCaller

-----------------------------------------------------------------------------
(* A barrier of a node is not the end.                                      *)
LEMMA NotEnd ==
  \A n : /\ LoopBarrier(n) # End /\ AfterNodeBarrier(n) # End
         /\ LoopBarrier(n)[2] \in {"loop", "chunk", "leave"}
         /\ AfterNodeBarrier(n)[2] \in {"loop", "leave"}
BY DEF LoopBarrier, AfterNodeBarrier, End

(* A thread that has no barrier before it is past the last one.             *)
LEMMA EndFacts ==
  ASSUME PoolInv, Running, NEW t \in Members, NextBarrier(t) = End
  PROVE  ~NotBegun(t) /\ (InGraph(t) => Released(t))
<1>1. ~NotBegun(t)
  BY NotEnd DEF NextBarrier
<1>2. ASSUME InGraph(t) PROVE Released(t)
  <2>1. t \in Threads
    BY MemberFacts DEF PoolInv
  <2>2. /\ state[t].pc \in GraphSteps \ {"graph"}
        /\ state[t].pc \in {"enter", "add", "reset", "pass", "spin"} =>
             state[t].back \in {"loop", "chunk", "leave"}
    BY <1>2, <2>1 DEF InGraph, PoolInv, GraphInv, Locals
  <2>3. ~InBarrier(t)
    <3>1. SUFFICES ASSUME InBarrier(t) PROVE FALSE
      OBVIOUS
    <3>2. <<state[t].node, state[t].back>> = End
      BY <1>1, <3>1 DEF NextBarrier
    <3>3. state[t].back = "top"
      BY <3>2 DEF End
    <3>4. state[t].pc \in {"enter", "add", "reset", "pass", "spin"}
      BY <3>1 DEF InBarrier, At
    <3> QED
      BY <2>2, <3>3, <3>4
  <2>4. CASE At(t, "spin")
    <3>1. BarrierFrom(state[t].back, state[t].node) = End
      BY <1>1, <2>3, <2>4 DEF NextBarrier
    <3>2. state[t].back \notin {"loop", "chunk"}
      BY <3>1, NotEnd DEF BarrierFrom
    <3>3. nBarrierPassed # state[t].passed
      BY <2>3, <2>4 DEF InBarrier
    <3> QED
      BY <2>2, <2>4, <3>2, <3>3 DEF Released, At
  <2>5. CASE ~At(t, "spin")
    <3>1. BarrierFrom(state[t].pc, state[t].node) = End
      BY <1>1, <2>3, <2>5 DEF NextBarrier
    <3>2. state[t].pc \notin {"loop", "chunk", "fetch", "nodeDone"}
      BY <3>1, NotEnd DEF BarrierFrom
    <3>3. state[t].pc # "forward"
      BY <3>1, NotEnd DEF BarrierFrom, End
    <3>4. state[t].pc = "leave"
      BY <2>2, <2>3, <2>5, <3>2, <3>3 DEF GraphSteps, InBarrier, At
    <3> QED
      BY <3>4 DEF Released, At
  <2> QED
    BY <2>4, <2>5
<1> QED
  BY <1>1, <1>2

-----------------------------------------------------------------------------
(* A thread that does not step stays where it is.                           *)
LEMMA ReleasedKept ==
  ASSUME PoolInv, NEW t \in Threads, state'[t] = state[t], Released(t),
         nBarrierPassed' \in {nBarrierPassed, nBarrierPassed + 1}
  PROVE  Released(t)'
<1>1. CASE At(t, "leave")
  BY <1>1 DEF Released, At
<1>2. CASE ~At(t, "leave")
  <2>1. At(t, "spin") /\ state[t].back = "leave" /\ nBarrierPassed # state[t].passed
    BY <1>2 DEF Released
  <2>2. /\ state[t].passed <= nBarrierPassed
        /\ state[t].passed \in Nat /\ nBarrierPassed \in Nat
    BY <2>1 DEF PoolInv, BarrierInv, Typed, ThreadState
  <2>3. nBarrierPassed' # state[t].passed
    BY <2>1, <2>2
  <2> QED
    BY <2>1, <2>3 DEF Released, At
<1> QED
  BY <1>1, <1>2

LEMMA PlacedKept ==
  ASSUME PoolInv, NEW w \in Workers, state'[w] = state[w],
         Running' <=> Running, UNCHANGED <<cgraph, nGraph, nThreadsCur>>,
         nBarrierPassed' \in {nBarrierPassed, nBarrierPassed + 1}
  PROVE  Placed(w)'
<1>1. w \in Threads
  BY MemberFacts DEF PoolInv
<1>2. Placed(w)
  BY DEF PoolInv, WorkerInv
<1>3. Released(w) => Released(w)'
  BY <1>1, ReleasedKept
<1>4. (Active(w)' <=> Active(w)) /\ (InGraph(w)' <=> InGraph(w))
      /\ \A pc : At(w, pc)' <=> At(w, pc)
  BY DEF Active, InGraph, At
<1> QED
  BY <1>2, <1>3, <1>4 DEF Placed

(* Only thread 0 starts and ends a graph.                                   *)
LEMMA RunningSteps ==
  ASSUME PoolInv, NEW t \in Threads, BeginGraph(t) \/ InnerSteps(t) \/ EndGraph(t)
  PROVE  /\ UNCHANGED pool /\ Alone(t) /\ state'[t].lastGraph = state[t].lastGraph
         /\ nBarrierPassed' \in {nBarrierPassed, nBarrierPassed + 1}
         /\ ~(t = 0 /\ EndGraph(t)) => (Running' <=> Running)
         /\ t = 0 => Running
         /\ t = 0 /\ EndGraph(t) => ~Running'
<1>1. Typed
  BY DEF PoolInv
<1>2. CASE BeginGraph(t)
  <2>1. Alone(t) /\ state'[t].pc = "loop" /\ state[t].pc = "graph"
        /\ UNCHANGED <<pool, barrier>> /\ state'[t].lastGraph = state[t].lastGraph
    BY <1>1, <1>2, BeginGraphFacts DEF BeginGraph, At
  <2>2. Running' <=> Running
    BY <2>1, ZeroIsThread DEF Running, Alone, Others, GraphSteps
  <2>3. t = 0 => Running
    BY <2>1 DEF Running, GraphSteps
  <2>4. ~EndGraph(t)
    BY <2>1 DEF EndGraph, At
  <2> QED
    BY <2>1, <2>2, <2>3, <2>4 DEF barrier
<1>3. CASE InnerSteps(t)
  <2>1. Inner(t)
    BY <1>3, InnerFacts
  <2>2. Running' <=> Running
    BY <2>1, ZeroIsThread DEF Inner, Running, Alone, Others
  <2>3. t = 0 => Running
    BY <2>1 DEF Inner, Running
  <2>4. ~EndGraph(t)
    BY <2>1 DEF Inner, EndGraph, At
  <2> QED
    BY <2>1, <2>2, <2>3, <2>4 DEF Inner, KeepsGraph
<1>4. CASE EndGraph(t)
  <2>1. Alone(t) /\ state'[t].pc = (IF t = 0 THEN "idle" ELSE "top") /\ state[t].pc = "leave"
        /\ UNCHANGED <<pool, barrier>> /\ state'[t].lastGraph = state[t].lastGraph
    BY <1>1, <1>4, EndGraphFacts DEF EndGraph, At
  <2>2. t # 0 => (Running' <=> Running)
    BY <2>1, ZeroIsThread DEF Running, Alone, Others
  <2>3. t = 0 => Running /\ ~Running'
    BY <2>1 DEF Running, GraphSteps
  <2> QED
    BY <2>1, <2>2, <2>3, <1>4 DEF barrier
<1> QED
  BY <1>2, <1>3, <1>4

(* While thread 0 is at the end of a graph, so are the others.              *)
LEMMA AllReleased ==
  ASSUME PoolInv, At(0, "leave"), NEW w \in Workers, Active(w)
  PROVE  /\ state[w].lastGraph = nGraph
         /\ state[w].pc \in WorkerSteps \/ Released(w)
<1>1. Typed /\ w \in Members /\ 0 \in Members /\ w # 0
  BY MemberFacts DEF PoolInv
<1>2. Running
  BY DEF Running, At, GraphSteps
<1>3. NextBarrier(0) = End
  BY DEF NextBarrier, NotBegun, InBarrier, At, BarrierFrom
<1>4. NextBarrier(w) = End
  BY <1>1, <1>2, <1>3 DEF PoolInv, InStep
<1>5. ~NotBegun(w) /\ (InGraph(w) => Released(w))
  BY <1>1, <1>2, <1>4, EndFacts
<1> QED
  BY <1>1, <1>5 DEF PoolInv, WorkerInv, Placed, NotBegun

LEMMA WorkerOfThreads ==
  ASSUME PoolInv, NEW t \in Threads, BeginGraph(t) \/ InnerSteps(t) \/ EndGraph(t),
         NEW w \in Workers
  PROVE  Placed(w)'
<1>1. Typed /\ w \in Threads /\ w # 0 /\ CallerInv /\ Placed(w)
  BY MemberFacts DEF PoolInv, WorkerInv
<1>2. UNCHANGED <<plan, cgraph, nGraph, nThreadsCur>> /\ Alone(t)
      /\ nBarrierPassed' \in {nBarrierPassed, nBarrierPassed + 1}
      /\ state'[t].lastGraph = state[t].lastGraph
  BY RunningSteps DEF pool
<1>3. CASE t = 0 /\ EndGraph(t)
  <2>1. At(0, "leave") /\ state'[w] = state[w] /\ UNCHANGED nBarrierPassed
    BY <1>1, <1>2, <1>3 DEF EndGraph, Alone, Others, barrier
  <2>2. /\ Active(w) => state[w].lastGraph = nGraph
        /\ state[w].pc \in WorkerSteps \/ Released(w)
    <3>1. CASE Active(w)
      BY <2>1, <3>1, AllReleased
    <3>2. CASE ~Active(w)
      BY <1>1, <3>2 DEF Placed
    <3> QED
      BY <3>1, <3>2
  <2>3. (Released(w)' <=> Released(w)) /\ (Active(w)' <=> Active(w)) /\ ~Running'
    BY <1>2, <1>3, <2>1, RunningSteps DEF Released, Active, At
  <2> QED
    BY <1>1, <1>2, <2>1, <2>2, <2>3 DEF Placed, At
<1>4. CASE t # w /\ ~(t = 0 /\ EndGraph(t))
  <2>1. state'[w] = state[w] /\ (Running' <=> Running)
    BY <1>1, <1>2, <1>4, RunningSteps DEF Alone, Others
  <2> QED
    BY <1>2, <2>1, PlacedKept
<1>5. CASE t = w
  <2>1. (Running' <=> Running) /\ (Active(w)' <=> Active(w)) /\ Typed
    BY <1>1, <1>2, <1>5, RunningSteps DEF Active
  <2>2. state[w].lastGraph \in Nat /\ nGraph \in Nat
    BY <1>1 DEF Typed, ThreadState
  <2>3. ASSUME state'[w].graph <= state'[w].lastGraph, ~At(w, "pollActive")',
               \/ state'[w].pc \in WorkerSteps
               \/ Released(w)'
               \/ /\ Running /\ Active(w) /\ state[w].lastGraph = nGraph
                  /\ At(w, "graph")' \/ InGraph(w)'
        PROVE  Placed(w)'
    BY <1>1, <1>2, <1>5, <2>1, <2>3 DEF Placed
  <2>4. CASE BeginGraph(w)
    <3>1. At(w, "graph") /\ state'[w].pc = "loop" /\ state'[w].graph = cgraph
      BY <1>1, <2>4, BeginGraphFacts DEF BeginGraph
    <3>2. Running /\ w \in Members /\ state[w].lastGraph = nGraph
      BY <1>1, <3>1, ThreadFacts
    <3>3. nGraph = cgraph /\ Active(w)
      BY <1>1, <3>2, RunningFacts, MemberFacts
    <3>4. InGraph(w)' /\ ~At(w, "pollActive")'
      BY <1>2, <3>1 DEF InGraph, At, GraphSteps
    <3>5. state'[w].graph <= state'[w].lastGraph
      BY <1>2, <1>5, <2>2, <3>1, <3>2, <3>3
    <3> QED
      BY <2>3, <3>2, <3>3, <3>4, <3>5
  <2>5. CASE InnerSteps(w)
    <3>1. Inner(w)
      BY <1>1, <2>5, InnerFacts
    <3>2. state'[w].graph <= state'[w].lastGraph /\ ~At(w, "pollActive")'
      BY <1>1, <3>1 DEF Inner, KeepsGraph, Placed, At, GraphSteps
    <3>3. CASE Released(w)
      BY <2>3, <3>1, <3>2, <3>3 DEF Inner, Released, At
    <3>4. CASE ~Released(w)
      <4>1. Running /\ w \in Members /\ InGraph(w) /\ state[w].lastGraph = nGraph
        BY <1>1, <3>1, <3>4, ThreadFacts DEF Inner
      <4>2. Active(w) /\ InGraph(w)'
        BY <1>1, <1>2, <3>1, <4>1, MemberFacts DEF Inner, InGraph, KeepsGraph
      <4> QED
        BY <2>3, <3>2, <4>1, <4>2
    <3> QED
      BY <3>3, <3>4
  <2>6. CASE EndGraph(w)
    <3>1. state'[w].pc = "top" /\ state'[w].graph = 0 /\ state'[w].lastGraph \in Nat
      BY <1>1, <1>2, <1>5, <2>2, <2>6, EndGraphFacts
    <3>2. state'[w].pc \in WorkerSteps /\ ~At(w, "pollActive")'
      BY <3>1 DEF WorkerSteps, At
    <3> QED
      BY <2>3, <3>1, <3>2
  <2> QED
    BY <1>5, <2>4, <2>5, <2>6
<1> QED
  BY <1>3, <1>4, <1>5

LEMMA WorkerOfWorkers ==
  ASSUME PoolInv, NEW u \in Workers, SeekStep(u), NEW w \in Workers
  PROVE  Placed(w)'
<1>1. Typed /\ w \in Threads /\ u \in Threads /\ w # 0 /\ u # 0 /\ Placed(w)
  BY MemberFacts DEF PoolInv, WorkerInv
<1>2. /\ UNCHANGED <<plan, cgraph, nGraph, nThreadsCur, nBarrierPassed>>
      /\ Alone(u) /\ state'[u].graph = state[u].graph
  BY DEF SeekStep, ReadsOnly, barrier
<1>3. Running' <=> Running
  BY <1>1, <1>2, ZeroIsThread DEF Running, Alone, Others
<1>4. CASE u # w
  <2>1. state'[w] = state[w]
    BY <1>1, <1>2, <1>4 DEF Alone, Others
  <2> QED
    BY <1>1, <1>2, <1>3, <2>1, PlacedKept, MemberFacts DEF Typed
<1>5. CASE u = w
  <2>1. /\ state[w].lastGraph \in Nat /\ nGraph \in Nat /\ state[w].seen \in Nat
        /\ state[w].graph \in Nat
    BY <1>1 DEF Typed, ThreadState
  <2>2. Active(w)' <=> Active(w)
    BY <1>2 DEF Active
  <2>3. ASSUME NEW pc \in WorkerSteps \ {"pollActive"}, state'[w].pc = pc,
               state'[w].lastGraph \in {state[w].lastGraph, nGraph}
        PROVE  Placed(w)'
    BY <1>1, <1>2, <1>3, <1>5, <2>1, <2>2, <2>3 DEF Placed, At
  <2>4. CASE /\ state'[w].lastGraph = state[w].lastGraph
             /\ state'[w].pc \in WorkerSteps \ {"pollActive"}
    BY <2>3, <2>4
  <2>5. CASE /\ At(w, "pollGraph") /\ nGraph # state[w].lastGraph
             /\ state'[w].lastGraph = state[w].lastGraph
             /\ state'[w].pc = "pollActive" /\ state'[w].seen = nGraph
    <3>1. state'[w].pc \in WorkerSteps
      BY <2>5 DEF WorkerSteps
    <3> QED
      BY <1>1, <1>2, <1>3, <1>5, <2>1, <2>2, <2>5, <3>1 DEF Placed, At
  <2>6. ASSUME state'[w].lastGraph = nGraph, state[w].lastGraph # nGraph, Active(w),
               state'[w].pc = "graph"
        PROVE  Placed(w)'
    <3>1. Running
      BY <1>1, <2>6 DEF Placed
    <3> QED
      BY <1>1, <1>2, <1>3, <1>5, <2>1, <2>2, <2>6, <3>1 DEF Placed, At
  <2>7. CASE /\ At(w, "pollActive") /\ state'[w].lastGraph = state[w].seen
             /\ state'[w].pc \in IF Active(w) THEN {"graph"} ELSE {"poll", "lock"}
    <3>1. state[w].lastGraph < state[w].seen /\ state[w].seen <= nGraph
      BY <1>1, <2>7 DEF Placed
    <3>2. CASE Active(w)
      <4>1. state[w].lastGraph \in {nGraph - 1, nGraph}
        BY <1>1, <3>2 DEF Placed
      <4>2. state[w].seen = nGraph /\ state[w].lastGraph # nGraph
        BY <2>1, <3>1, <4>1
      <4> QED
        BY <2>6, <2>7, <3>2, <4>2
    <3>3. CASE ~Active(w)
      <4>1. state'[w].pc \in WorkerSteps /\ ~At(w, "pollActive")'
        BY <2>7, <3>3 DEF WorkerSteps, At
      <4>2. state'[w].graph <= state'[w].lastGraph /\ state'[w].lastGraph <= nGraph
        BY <1>1, <1>2, <1>5, <2>1, <2>7, <3>1 DEF Placed
      <4> QED
        BY <1>2, <2>2, <3>3, <4>1, <4>2 DEF Placed
    <3> QED
      BY <3>2, <3>3
  <2>8. CASE /\ At(w, "lock") /\ nGraph # state[w].lastGraph
             /\ state'[w].lastGraph = nGraph
             /\ state'[w].pc = IF Active(w) THEN "graph" ELSE "wait"
    <3>1. CASE Active(w)
      BY <2>6, <2>8, <3>1
    <3>2. CASE ~Active(w)
      BY <2>3, <2>8, <3>2 DEF WorkerSteps
    <3> QED
      BY <3>1, <3>2
  <2> QED
    BY <1>5, <2>4, <2>5, <2>7, <2>8 DEF SeekStep
<1> QED
  BY <1>4, <1>5

LEMMA WorkerOfCaller ==
  ASSUME PoolInv, NeverGrows, NextOfCaller, NEW w \in Workers
  PROVE  Placed(w)'
<1>1. Typed /\ w \in Threads /\ w # 0 /\ Placed(w) /\ state[w] \in ThreadState
  BY MemberFacts DEF PoolInv, WorkerInv, Typed
<1>2. /\ state[w].lastGraph \in Nat /\ nGraph \in Nat /\ state[w].seen \in Nat
      /\ state[w].graph \in Nat /\ cgraph \in Nat /\ nThreadsCur \in Nat /\ w \in Nat
  BY <1>1, PlansAssumption DEF Typed, ThreadState, Workers
<1>3. CASE GraphCompute
  <2>1. /\ state'[w] = state[w] /\ ~Running /\ ~Running'
        /\ UNCHANGED <<nGraph, nThreadsCur, nBarrierPassed>>
    BY <1>1, <1>3, CallerFacts
       DEF GraphCompute, barrier, Alone, Others, Running, At, GraphSteps
  <2>2. (Released(w)' <=> Released(w)) /\ (Active(w)' <=> Active(w))
    BY <2>1 DEF Released, Active, At
  <2> QED
    BY <1>1, <2>1, <2>2 DEF Placed, At
<1>4. CASE KickThreads
  <2>1. /\ state'[w] = state[w] /\ ~Running /\ ~Running'
        /\ UNCHANGED <<plan, cgraph, nGraph, nBarrierPassed>>
        /\ At(0, "kickThreads") /\ nThreadsCur' = Min2(plan[cgraph].threads, NThreads)
    BY <1>1, <1>4, CallerFacts
       DEF KickThreads, barrier, Alone, Others, Running, At, GraphSteps
  <2>2. cgraph > 0 /\ nThreadsCur = ThreadsOf(cgraph - 1)
    BY <2>1 DEF PoolInv, CallerInv, At
  <2>3. nThreadsCur' <= nThreadsCur
    <3>1. /\ cgraph \in 1..Len(plan) /\ plan \in Plans /\ NThreads \in Nat
          /\ plan[cgraph].threads \in Nat
      BY <1>1, <2>2, GraphFacts, ZeroIsThread DEF Typed
    <3>2. CASE cgraph = 1
      BY <2>1, <2>2, <3>1, <3>2 DEF ThreadsOf, Min2
    <3>3. CASE cgraph # 1
      <4>1. cgraph \in 2..Len(plan) /\ cgraph - 1 \in 1..Len(plan)
        BY <3>1, <3>3
      <4>2. plan[cgraph].threads <= plan[cgraph - 1].threads
        BY <3>1, <4>1 DEF NeverGrows
      <4>3. plan[cgraph - 1].threads \in Nat
        <5>1. plan[cgraph - 1] \in Graph
          BY <3>1, <4>1, PlansAssumption
        <5> QED
          BY <5>1 DEF Graph
      <4>4. nThreadsCur = Min2(plan[cgraph - 1].threads, NThreads)
        BY <2>2, <4>1 DEF ThreadsOf
      <4> QED
        BY <2>1, <3>1, <4>2, <4>3, <4>4 DEF Min2
    <3> QED
      BY <3>2, <3>3
  <2>4. nThreadsCur' \in Nat
    BY <1>1, <2>1, <2>2, GraphFacts, ZeroIsThread DEF Min2
  <2>5. Active(w)' => Active(w)
    BY <1>2, <2>3, <2>4 DEF Active
  <2>6. Released(w)' <=> Released(w)
    BY <2>1 DEF Released, At
  <2> QED
    BY <1>1, <2>1, <2>5, <2>6 DEF Placed, At
<1>5. CASE KickGraph
  <2>1. /\ state'[w] = state[w] /\ ~Running /\ Running' /\ nGraph' = nGraph + 1
        /\ UNCHANGED <<nThreadsCur, nBarrierPassed>>
    BY <1>1, <1>5, CallerFacts
       DEF KickGraph, barrier, Alone, Others, Running, At, GraphSteps
  <2>2. (Released(w)' <=> Released(w)) /\ (Active(w)' <=> Active(w))
    BY <2>1 DEF Released, Active, At
  <2> QED
    BY <1>1, <1>2, <2>1, <2>2 DEF Placed, At
<1>6. ASSUME NEW pc0 \in Steps, Wakes(pc0), Running' <=> Running,
             UNCHANGED <<cgraph, nGraph, nThreadsCur, nBarrierPassed>>
      PROVE  Placed(w)'
  <2>1. KeepsGraph(w) /\ KeepsPlace(w) /\ KeepsBarrier(w)
        /\ state'[w].pc = IF state[w].pc = "pauseWait" THEN "top"
                          ELSE IF state[w].pc = "wait" THEN "lock" ELSE state[w].pc
    BY <1>1, <1>6, AwakeFacts DEF Wakes
  <2>2. /\ Active(w)' <=> Active(w)
        /\ Released(w)' <=> Released(w)
        /\ At(w, "graph")' <=> At(w, "graph")
        /\ At(w, "pollActive")' <=> At(w, "pollActive")
        /\ InGraph(w)' <=> InGraph(w)
    BY <1>6, <2>1
       DEF Active, Released, At, InGraph, KeepsGraph, KeepsPlace, KeepsBarrier, GraphSteps
  <2>3. state[w].pc \in WorkerSteps => state'[w].pc \in WorkerSteps
    BY <2>1 DEF WorkerSteps
  <2>4. state'[w].graph = state[w].graph /\ state'[w].lastGraph = state[w].lastGraph
        /\ state'[w].seen = state[w].seen
    BY <2>1 DEF KeepsGraph
  <2> QED
    BY <1>1, <1>6, <2>2, <2>3, <2>4 DEF Placed
<1>7. CASE KickWake
  <2>1. Wakes("graph") /\ Running /\ Running'
        /\ UNCHANGED <<cgraph, nGraph, nThreadsCur, nBarrierPassed>>
    BY <1>1, <1>7, CallerFacts
       DEF KickWake, Wakes, barrier, Running, At, GraphSteps
  <2> QED
    BY <1>6, <2>1 DEF Steps, GraphSteps
<1>8. CASE PauseOrResume
  <2>1. Wakes("idle") /\ ~Running /\ ~Running'
        /\ UNCHANGED <<cgraph, nGraph, nThreadsCur, nBarrierPassed>>
    BY <1>1, <1>8, CallerFacts
       DEF PauseOrResume, Wakes, barrier, Running, At, GraphSteps
  <2> QED
    BY <1>6, <2>1 DEF Steps, CallerSteps
<1>9. CASE FreeWake
  <2>1. Wakes("join") /\ ~Running /\ ~Running'
        /\ UNCHANGED <<cgraph, nGraph, nThreadsCur, nBarrierPassed>>
    BY <1>1, <1>9, CallerFacts
       DEF FreeWake, Wakes, barrier, Running, At, GraphSteps
  <2> QED
    BY <1>6, <2>1 DEF Steps, CallerSteps
<1>10. CASE FreeStop \/ Join
  <2>1. /\ state'[w] = state[w] /\ ~Running /\ ~Running'
        /\ UNCHANGED <<cgraph, nGraph, nThreadsCur, nBarrierPassed>>
    BY <1>1, <1>10, CallerFacts
       DEF FreeStop, Join, barrier, Alone, Others, Running, At, GraphSteps
  <2> QED
    BY <2>1, <1>1, PlacedKept DEF Typed
<1> QED
  BY <1>3, <1>4, <1>5, <1>7, <1>8, <1>9, <1>10 DEF NextOfCaller

LEMMA WorkerStep ==
  ASSUME PoolInv, NeverGrows, Next
  PROVE  WorkerInv'
<1>1. ASSUME NEW w \in Workers PROVE Placed(w)'
  <2>1. ASSUME NEW u \in Workers, Seek(u) \/ SpuriousWake(u) PROVE Placed(w)'
    BY <2>1, SeekFacts, WorkerOfWorkers DEF PoolInv
  <2> QED
    BY <2>1, NextCases, WorkerOfThreads, WorkerOfCaller DEF NextOfThreads, NextOfWorkers
<1> QED
  BY <1>1 DEF WorkerInv, Workers

-----------------------------------------------------------------------------
(* Only thread 0 aborts, and only after a node of a graph that is not yet   *)
(* aborted.                                                                 *)
LEMMA AbortFacts ==
  ASSUME PoolInv, NEW t \in Threads, BeginGraph(t) \/ InnerSteps(t) \/ EndGraph(t)
  PROVE  \/ UNCHANGED <<abort, ec>>
         \/ /\ t = 0 /\ NodeDone(0) /\ abort = -1 /\ ec = "success"
            /\ abort' = state[0].node + 1 /\ ec' = "aborted"
<1>1. \/ UNCHANGED <<abort, ec>>
      \/ t = 0 /\ NodeDone(0) /\ abort' = state[0].node + 1 /\ ec' = "aborted"
  BY DEF InnerSteps, LoopTest, ForwardShare, ForwardConvert, Chunk, FetchChunk,
         NodeDone, BarrierEnter, BarrierAdd, BarrierReset, BarrierPass,
         BarrierSpin, BeginGraph, EndGraph, outcome
<1>2. NodeDone(0) => abort = -1 /\ ec = "success"
  BY DEF NodeDone, At, PoolInv, AbortInv, Running, GraphSteps, BarrierSteps
<1> QED
  BY <1>1, <1>2

LEMMA LocalsKept ==
  ASSUME PoolInv, NEW u \in Threads, Running, InGraph(u), state'[u] = state[u],
         UNCHANGED <<plan, cgraph, nThreadsCur>>, abort' = abort \/ abort = -1
  PROVE  Locals(u)'
<1>1. Locals(u) /\ Nodes' = Nodes /\ state[u].node \in Nat
  BY DEF PoolInv, GraphInv, Nodes, Typed, ThreadState
<1>2. abort = state[u].node => abort' = state[u].node
  BY <1>1
<1> QED
  BY <1>1, <1>2 DEF Locals

(* What a thread does within a graph keeps its local variables right.       *)
LEMMA LocalsOfInner ==
  ASSUME PoolInv, NEW t \in Threads, InnerSteps(t), Running, InGraph(t)
  PROVE  Locals(t)'
<1>1. Typed /\ Locals(t) /\ Inner(t)
  BY InnerFacts DEF PoolInv, GraphInv
<1>2. Nodes' = Nodes /\ NodesOf(t) = Nodes /\ nThreadsCur' = nThreadsCur
      /\ state'[t].nth = state[t].nth
  BY <1>1 DEF Inner, pool, Nodes, NodesOf, InGraph, KeepsGraph
<1>3. Len(Nodes) \in Nat /\ state[t].node \in Nat
  BY <1>1, RunningFacts DEF Typed, ThreadState
<1>4. state[t].nth = nThreadsCur /\ state[t].node <= Len(Nodes)
  BY <1>1 DEF Locals
<1>5. CASE LoopTest(t)
  <2>1. /\ state'[t].node = state[t].node /\ abort' = abort
        /\ \/ state[t].node < Len(Nodes) /\ state'[t].pc = "forward"
           \/ /\ state[t].node = Len(Nodes) \/ abort = state[t].node
              /\ state'[t].pc = "enter" /\ state'[t].back = "leave"
    BY <1>1, <1>2, <1>5, LoopTestFacts DEF LoopTest, KeepsNode, outcome
  <2> QED
    BY <1>2, <1>3, <1>4, <2>1 DEF Locals
<1>6. CASE ForwardShare(t)
  <2>1. /\ state'[t].node = state[t].node /\ state'[t].pc = "nodeDone"
        /\ state[t].node < Len(Nodes)
    BY <1>1, <1>6, ForwardShareFacts DEF ForwardShare, KeepsNode, Locals, At
  <2> QED
    BY <1>2, <1>3, <1>4, <2>1 DEF Locals
<1>7. CASE ForwardConvert(t)
  <2>1. /\ state'[t].node = state[t].node /\ state'[t].pc = "enter"
        /\ state'[t].back = "chunk" /\ state'[t].chunk = t
        /\ state[t].node < Len(Nodes) /\ Nodes[state[t].node + 1] > 0
    BY <1>1, <1>2, <1>7, ForwardConvertFacts DEF ForwardConvert, KeepsNode, Locals, At
  <2> QED
    BY <1>2, <1>3, <1>4, <2>1 DEF Locals
<1>8. CASE Chunk(t) \/ FetchChunk(t)
  <2>1. /\ state'[t].node = state[t].node
        /\ state'[t].pc \in {"nodeDone", "fetch", "chunk"}
        /\ state[t].node < Len(Nodes) /\ Nodes[state[t].node + 1] > 0
    BY <1>1, <1>8, ChunkFacts, FetchChunkFacts DEF Chunk, FetchChunk, KeepsNode, Locals, At
  <2> QED
    BY <1>2, <1>3, <1>4, <2>1 DEF Locals
<1>9. CASE NodeDone(t)
  <2>1. /\ state'[t].node = state[t].node + 1 /\ state[t].node < Len(Nodes)
        /\ IF state[t].node + 1 < Len(Nodes)
           THEN state'[t].pc = "enter" /\ state'[t].back = "loop"
           ELSE state'[t].pc = "loop"
    BY <1>1, <1>2, <1>9, NodeDoneFacts DEF NodeDone, Locals, At
  <2> QED
    BY <1>2, <1>3, <1>4, <2>1 DEF Locals
<1>10. ASSUME state[t].pc \in {"enter", "add", "reset", "pass", "spin"},
              KeepsPlace(t), abort' = abort,
              \/ state'[t].pc \in {"add", "reset", "pass", "spin"}
              \/ state'[t].pc = state[t].back
       PROVE  Locals(t)'
  <2>1. /\ state'[t].node = state[t].node /\ state'[t].chunk = state[t].chunk
        /\ state'[t].back = state[t].back
    BY <1>10 DEF KeepsPlace
  <2>2. /\ state[t].back \in {"loop", "chunk", "leave"}
        /\ state[t].back = "loop"  => state[t].node \in 1..Len(Nodes) - 1
        /\ state[t].back = "chunk" =>
             /\ state[t].node < Len(Nodes) /\ Nodes[state[t].node + 1] > 0
             /\ state[t].chunk = t
        /\ state[t].back = "leave" => state[t].node = Len(Nodes) \/ abort = state[t].node
    BY <1>1, <1>10 DEF Locals
  <2>3. CASE state'[t].pc \in {"add", "reset", "pass", "spin"}
    BY <1>2, <1>4, <1>10, <2>1, <2>2, <2>3 DEF Locals
  <2>4. CASE state'[t].pc = state[t].back
    BY <1>2, <1>4, <1>10, <2>1, <2>2, <2>4 DEF Locals
  <2> QED
    BY <1>10, <2>3, <2>4
<1>11. CASE BarrierEnter(t) \/ BarrierAdd(t) \/ BarrierReset(t)
  <2>1. /\ state[t].pc \in {"enter", "add", "reset"} /\ KeepsPlace(t) /\ abort' = abort
        /\ \/ state'[t].pc \in {"add", "reset", "pass", "spin"}
           \/ state'[t].pc = state[t].back
    BY <1>1, <1>11, BarrierEnterFacts, BarrierAddFacts, BarrierResetFacts
       DEF BarrierEnter, BarrierAdd, BarrierReset, At, outcome
  <2> QED
    BY <1>10, <2>1
<1>12. CASE BarrierPass(t) \/ BarrierSpin(t)
  <2>1. /\ state[t].pc \in {"pass", "spin"} /\ KeepsPlace(t) /\ abort' = abort
        /\ state'[t].pc = state[t].back
    BY <1>1, <1>12, LeaveFacts DEF BarrierPass, BarrierSpin, At, outcome
  <2> QED
    BY <1>10, <2>1
<1> QED
  BY <1>5, <1>6, <1>7, <1>8, <1>9, <1>11, <1>12 DEF InnerSteps

LEMMA GraphStep ==
  ASSUME PoolInv, Next
  PROVE  GraphInv'
<1> SUFFICES ASSUME NEW u \in Threads, InGraph(u)', Running'
             PROVE  Locals(u)'
  BY DEF GraphInv
<1>1. Typed /\ 0 \in Threads /\ Workers = Threads \ {0} /\ state[u] \in ThreadState
  BY MemberFacts DEF PoolInv, Typed
<1>2. ASSUME NEW t \in Threads, BeginGraph(t) \/ InnerSteps(t) \/ EndGraph(t)
      PROVE  Locals(u)'
  <2>1. UNCHANGED <<plan, cgraph, nThreadsCur>> /\ Alone(t) /\ Running
    BY <1>2, RunningSteps DEF pool
  <2>2. CASE t # u
    <3>1. state'[u] = state[u]
      BY <2>1, <2>2 DEF Alone, Others
    <3>2. InGraph(u)
      BY <2>1, <3>1 DEF InGraph
    <3>3. abort' = abort \/ abort = -1
      BY <1>2, AbortFacts
    <3> QED
      BY <2>1, <3>1, <3>2, <3>3, LocalsKept
  <2>3. CASE BeginGraph(u)
    <3>1. /\ state'[u].pc = "loop" /\ state'[u].nth = nThreadsCur /\ state'[u].node = 0
      BY <1>1, <2>3, BeginGraphFacts
    <3>2. Nodes' = Nodes /\ Len(Nodes) \in Nat
      BY <2>1, RunningFacts DEF Nodes
    <3> QED
      BY <2>1, <3>1, <3>2 DEF Locals
  <2>4. CASE InnerSteps(u)
    <3>1. InGraph(u)
      BY <2>1, <2>4, InnerFacts DEF Inner, InGraph, KeepsGraph
    <3> QED
      BY <2>1, <2>4, <3>1, LocalsOfInner
  <2>5. CASE EndGraph(u)
    <3>1. state'[u].pc \in {"idle", "top"}
      BY <1>1, <2>5, EndGraphFacts
    <3> QED
      BY <3>1 DEF InGraph, GraphSteps
  <2> QED
    BY <1>2, <2>2, <2>3, <2>4, <2>5
<1>3. ASSUME NEW w \in Workers, SeekStep(w)
      PROVE  Locals(u)'
  <2>1. u # w
    <3>1. state'[w].pc \in WorkerSteps \union {"graph"}
      BY <1>3 DEF SeekStep, WorkerSteps
    <3>2. ~InGraph(w)'
      BY <3>1, StepSets DEF InGraph
    <3> QED
      BY <3>2
  <2>2. UNCHANGED <<plan, cgraph, nThreadsCur, abort>> /\ state'[u] = state[u]
        /\ state'[0] = state[0]
    BY <1>1, <1>3, <2>1 DEF SeekStep, ReadsOnly, Alone, Others, outcome
  <2>3. Running /\ InGraph(u)
    BY <2>2 DEF Running, InGraph
  <2> QED
    BY <2>2, <2>3, LocalsKept
<1>4. CASE KickWake
  <2>1. Wakes("graph") /\ Running /\ UNCHANGED <<plan, cgraph, nThreadsCur, abort>>
    BY <1>1, <1>4, CallerFacts DEF KickWake, Running, At, outcome
  <2>2. u # 0
    BY <2>1 DEF InGraph, Wakes, GraphSteps
  <2>3. KeepsGraph(u) /\ KeepsPlace(u) /\ KeepsBarrier(u)
        /\ state'[u].pc = IF state[u].pc = "pauseWait" THEN "top"
                          ELSE IF state[u].pc = "wait" THEN "lock" ELSE state[u].pc
    BY <1>1, <2>1, <2>2, AwakeFacts DEF Wakes
  <2>4. state'[u].pc = state[u].pc /\ InGraph(u)
    BY <2>1, <2>3 DEF InGraph, KeepsGraph, GraphSteps
  <2>5. Locals(u) /\ Nodes' = Nodes
    BY <2>1, <2>4 DEF PoolInv, GraphInv, Nodes
  <2> QED
    BY <2>1, <2>3, <2>4, <2>5 DEF Locals, KeepsGraph, KeepsPlace, KeepsBarrier
<1>5. CASE KickGraph
  <2>1. Alone(0) /\ state'[0].pc = "kickWake" /\ state[0].pc = "kickGraph"
        /\ cgraph' = cgraph
    BY <1>1, <1>5, CallerFacts DEF KickGraph, At
  <2>2. u # 0
    BY <2>1 DEF InGraph, GraphSteps
  <2>3. state'[u] = state[u] /\ u \in Workers
    BY <1>1, <2>1, <2>2 DEF Alone, Others
  <2>4. state[u].graph <= nGraph /\ nGraph = cgraph - 1
    <3>1. Placed(u)
      BY <2>3 DEF PoolInv, WorkerInv
    <3>2. /\ state[u].graph \in Nat /\ state[u].lastGraph \in Nat /\ nGraph \in Nat
      BY <1>1 DEF ThreadState, Typed
    <3> QED
      BY <2>1, <3>1, <3>2 DEF Placed, PoolInv, CallerInv
  <2>5. state[u].graph = cgraph
    BY <2>1, <2>3 DEF InGraph
  <2>6. state[u].graph \in Nat /\ cgraph \in Nat
    BY <1>1, PlansAssumption DEF ThreadState, Typed
  <2> QED
    BY <2>4, <2>5, <2>6
<1>6. CASE GraphCompute \/ KickThreads \/ PauseOrResume \/ FreeStop \/ FreeWake \/ Join
  <2>1. state'[0].pc \in {"kickThreads", "kickGraph", "idle", "freeWake", "join", "freed"}
    BY <1>1, <1>6, CallerFacts DEF Wakes
  <2> QED
    BY <2>1 DEF Running, GraphSteps
<1> QED
  BY <1>1, <1>2, <1>3, <1>4, <1>5, <1>6, NextCases, SeekFacts
     DEF NextOfThreads, NextOfWorkers, NextOfCaller

-----------------------------------------------------------------------------
LEMMA AbortKept ==
  ASSUME ReadyInv /\ AbortInv, state'[0] = state[0], UNCHANGED <<plan, cgraph, abort, ec>>
  PROVE  ReadyInv' /\ AbortInv'
<1>1. Nodes' = Nodes /\ (Running' <=> Running)
  BY DEF Nodes, Running
<1> QED
  BY <1>1 DEF ReadyInv, AbortInv

LEMMA AbortOfInner ==
  ASSUME PoolInv, InnerSteps(0)
  PROVE  AbortInv'
<1>1. Typed /\ 0 \in Threads /\ Inner(0) /\ AbortInv
  BY ZeroIsThread, InnerFacts DEF PoolInv
<1>2. Running /\ InGraph(0) /\ Locals(0)
  BY <1>1 DEF Inner, Running, InGraph, PoolInv, CallerInv, GraphInv
<1>3. Nodes' = Nodes /\ NodesOf(0) = Nodes /\ Len(Nodes) \in Nat /\ state[0].node \in Nat
  BY <1>1, <1>2, RunningFacts
     DEF Inner, pool, Nodes, NodesOf, InGraph, Typed, ThreadState
<1>4. CASE /\ NodeDone(0) /\ abort = -1 /\ abort' = state[0].node + 1 /\ ec' = "aborted"
  <2>1. /\ state'[0].node = state[0].node + 1 /\ state[0].node < Len(Nodes)
        /\ \/ state'[0].pc = "enter" /\ state'[0].back = "loop"
           \/ state'[0].pc = "loop"
    BY <1>1, <1>2, <1>3, <1>4, NodeDoneFacts DEF NodeDone, Locals, At
  <2>2. abort' \in 1..Len(Nodes) /\ abort' # -1
    BY <1>3, <1>4, <2>1
  <2> QED
    BY <1>3, <1>4, <2>1, <2>2 DEF AbortInv, BarrierSteps
<1>5. CASE UNCHANGED <<abort, ec>> /\ abort = -1
  BY <1>1, <1>2, <1>5 DEF AbortInv
<1>6. CASE UNCHANGED <<abort, ec>> /\ abort # -1
  <2>1. /\ abort \in 1..Len(Nodes) /\ state[0].node = abort /\ ec # "success"
        /\ state[0].pc \in {"loop", "leave"} \union BarrierSteps
        /\ state[0].pc \in BarrierSteps => state[0].back # "chunk"
    BY <1>1, <1>2, <1>6 DEF AbortInv
  <2>2. ASSUME state'[0].node = state[0].node,
               \/ state'[0].pc \in BarrierSteps /\ state'[0].back # "chunk"
               \/ state'[0].pc \in {"loop", "leave"}
        PROVE  AbortInv'
    <3>1. state'[0].pc \in BarrierSteps => state'[0].pc \notin {"loop", "leave"}
      BY DEF BarrierSteps
    <3> QED
      BY <1>3, <1>6, <2>1, <2>2, <3>1 DEF AbortInv
  <2>3. CASE LoopTest(0)
    BY <1>1, <1>6, <2>1, <2>2, <2>3, LoopTestFacts DEF KeepsNode, BarrierSteps
  <2>4. ASSUME state[0].pc \in BarrierSteps, KeepsPlace(0),
               state'[0].pc \in BarrierSteps \/ state'[0].pc = state[0].back
        PROVE  AbortInv'
    <3>1. state[0].back \in {"loop", "leave"}
      BY <1>2, <2>1, <2>4 DEF Locals, BarrierSteps
    <3> QED
      BY <2>1, <2>2, <2>4, <3>1 DEF KeepsPlace
  <2>5. CASE BarrierEnter(0) \/ BarrierAdd(0) \/ BarrierReset(0)
    BY <1>1, <2>4, <2>5, BarrierEnterFacts, BarrierAddFacts, BarrierResetFacts
       DEF BarrierEnter, BarrierAdd, BarrierReset, At, BarrierSteps
  <2>6. CASE BarrierPass(0) \/ BarrierSpin(0)
    BY <1>1, <2>4, <2>6, LeaveFacts DEF BarrierPass, BarrierSpin, At, BarrierSteps
  <2> QED
    BY <2>1, <2>3, <2>5, <2>6
       DEF InnerSteps, ForwardShare, ForwardConvert, Chunk, FetchChunk, NodeDone, At,
           BarrierSteps
<1> QED
  BY <1>1, <1>4, <1>5, <1>6, AbortFacts

LEMMA AbortStep ==
  ASSUME PoolInv, Next
  PROVE  ReadyInv' /\ AbortInv'
<1>1. Typed /\ 0 \in Threads /\ Workers = Threads \ {0} /\ ReadyInv /\ AbortInv
  BY MemberFacts DEF PoolInv
<1>2. ASSUME NEW t \in Threads, BeginGraph(t) \/ InnerSteps(t) \/ EndGraph(t)
      PROVE  ReadyInv' /\ AbortInv'
  <2>1. UNCHANGED <<plan, cgraph>> /\ Alone(t)
    BY <1>2, RunningSteps DEF pool
  <2>2. CASE t # 0
    BY <1>1, <1>2, <2>1, <2>2, AbortKept, AbortFacts DEF Alone, Others
  <2>3. CASE BeginGraph(0)
    <3>1. state[0].pc = "graph" /\ state'[0].pc = "loop" /\ UNCHANGED <<abort, ec>>
      BY <1>1, <2>3, BeginGraphFacts DEF BeginGraph, At, outcome
    <3>2. abort = -1 /\ ec = "success"
      BY <1>1, <3>1 DEF AbortInv, Running, GraphSteps, BarrierSteps
    <3> QED
      BY <3>1, <3>2 DEF ReadyInv, AbortInv
  <2>4. CASE InnerSteps(0)
    <3>1. state'[0].pc \in GraphSteps
      BY <1>1, <2>4, InnerFacts DEF Inner
    <3> QED
      BY <2>4, <3>1, AbortOfInner DEF ReadyInv, GraphSteps
  <2>5. CASE EndGraph(0)
    BY <1>1, <2>5, EndGraphFacts DEF ReadyInv, AbortInv, Running, GraphSteps
  <2> QED
    BY <1>2, <2>2, <2>3, <2>4, <2>5
<1>3. ASSUME NEW w \in Workers, SeekStep(w)
      PROVE  ReadyInv' /\ AbortInv'
  BY <1>1, <1>3, AbortKept DEF SeekStep, ReadsOnly, Alone, Others, outcome
<1>4. CASE GraphCompute
  BY <1>1, <1>4, CallerFacts DEF GraphCompute, ReadyInv, AbortInv, Running, GraphSteps
<1>5. CASE KickThreads
  BY <1>1, <1>5, CallerFacts
     DEF KickThreads, At, outcome, ReadyInv, AbortInv, Running, GraphSteps
<1>6. CASE KickGraph
  BY <1>1, <1>6, CallerFacts DEF KickGraph, At, outcome, ReadyInv, AbortInv
<1>7. CASE KickWake
  <2>1. state[0].pc = "kickWake" /\ state'[0].pc = "graph" /\ UNCHANGED <<abort, ec>>
    BY <1>1, <1>7, CallerFacts DEF KickWake, At, outcome, Wakes
  <2>2. abort = -1 /\ ec = "success"
    BY <1>1, <2>1 DEF AbortInv, Running, BarrierSteps
  <2> QED
    BY <2>1, <2>2 DEF ReadyInv, AbortInv
<1>8. CASE PauseOrResume \/ FreeStop \/ FreeWake \/ Join
  <2>1. state'[0].pc \in {"idle", "freeWake", "join", "freed"}
    BY <1>1, <1>8, CallerFacts DEF Wakes
  <2> QED
    BY <2>1 DEF ReadyInv, AbortInv, Running, GraphSteps
<1> QED
  BY <1>1, <1>2, <1>3, <1>4, <1>5, <1>6, <1>7, <1>8, NextCases, SeekFacts
     DEF NextOfThreads, NextOfWorkers, NextOfCaller

-----------------------------------------------------------------------------
(* The threads that have entered a barrier are those of the graph.          *)
LEMMA ArrivedFacts ==
  ASSUME PoolInv
  PROVE  /\ Arrived \subseteq Members /\ Last \subseteq Members /\ Arrived \intersect Last = {}
         /\ \A t \in Threads : state[t].pc \in {"enter", "add", "reset", "pass"} =>
              t \in Members /\ t \notin Arrived /\ Running /\ ~Released(t)
         /\ ~Running => Arrived = {} /\ Last = {}
         /\ \A t \in Last : Last = {t}
         /\ \A t \in Threads : state[t].pc \in {"enter", "add"} => Last = {}
         /\ IsFiniteSet(Members) /\ Cardinality(Members) = nThreadsCur
         /\ IsFiniteSet(Arrived) /\ Cardinality(Arrived) \in Nat
<1>1. Typed /\ Members \subseteq Threads /\ nThreadsCur \in Nat \ {0}
  BY MemberFacts DEF PoolInv
<1>2. ASSUME NEW t \in Arrived PROVE t \in Members /\ Running
  <2>1. t \in Threads /\ state[t].pc = "spin" /\ ~Released(t)
    BY <1>2 DEF Arrived, Released, At
  <2> QED
    BY <2>1, ThreadFacts DEF GraphSteps
<1>3. ASSUME NEW t \in Threads, state[t].pc \in {"enter", "add", "reset", "pass"}
      PROVE  t \in Members /\ t \notin Arrived /\ Running /\ ~Released(t)
  <2>1. ~Released(t) /\ t \notin Arrived
    BY <1>3 DEF Released, Arrived, At
  <2> QED
    BY <1>3, <2>1, ThreadFacts DEF GraphSteps
<1>4. \A t \in Last : t \in Members /\ t \notin Arrived /\ Running
  BY <1>3 DEF Last
<1>5. \A t \in Last : Arrived \union {t} = Members
  BY DEF PoolInv, BarrierInv
<1>6. \A t \in Threads : state[t].pc \in {"enter", "add"} => t \notin Last
  BY DEF Last
<1>7. \A t \in Last : Last = {t}
  BY <1>4, <1>5
<1>8. \A t \in Threads : state[t].pc \in {"enter", "add"} => Last = {}
  BY <1>3, <1>5, <1>6
<1>9. IsFiniteSet(Members) /\ Cardinality(Members) = nThreadsCur
  <2>1. 0 \in Int /\ nThreadsCur - 1 \in Int /\ ~(0 > nThreadsCur - 1)
    BY <1>1
  <2>2. IsFiniteSet(0..nThreadsCur - 1) /\ Cardinality(0..nThreadsCur - 1) = nThreadsCur - 1 - 0 + 1
    BY <2>1, FS_Interval
  <2> QED
    BY <1>1, <2>2 DEF Members
<1>10. Arrived \subseteq Members
  BY <1>2
<1>11. IsFiniteSet(Arrived) /\ Cardinality(Arrived) \in Nat
  BY <1>9, <1>10, FS_Subset, FS_CardinalityType
<1> QED
  BY <1>2, <1>3, <1>4, <1>7, <1>8, <1>9, <1>10, <1>11

BarrierKept(t) ==
  \/ state'[t].pc = state[t].pc /\ KeepsBarrier(t)
  \/ {state[t].pc, state'[t].pc} \intersect {"add", "reset", "pass", "spin"} = {}

LEMMA BarrierUnchanged ==
  ASSUME PoolInv, \A t \in Threads : BarrierKept(t),
         UNCHANGED <<barrier, nThreadsCur>>
  PROVE  BarrierInv'
<1>1. BarrierInv /\ Members' = Members
  BY DEF PoolInv, Members
<1>2. ASSUME NEW t \in Threads
      PROVE  /\ (At(t, "spin") /\ state[t].passed = nBarrierPassed)' <=>
                 At(t, "spin") /\ state[t].passed = nBarrierPassed
             /\ At(t, "spin")' => At(t, "spin") /\ state'[t].passed = state[t].passed
             /\ At(t, "reset")' <=> At(t, "reset")
             /\ At(t, "pass")' <=> At(t, "pass")
             /\ At(t, "add")' => /\ At(t, "add") /\ state'[t].passed = state[t].passed
                                 /\ state'[t].members = state[t].members
  <2>1. BarrierKept(t)
    BY <1>2
  <2>2. CASE state'[t].pc = state[t].pc /\ KeepsBarrier(t)
    BY <2>2 DEF KeepsBarrier, At, barrier
  <2>3. CASE {state[t].pc, state'[t].pc} \intersect {"add", "reset", "pass", "spin"} = {}
    <3>1. /\ state[t].pc \notin {"add", "reset", "pass", "spin"}
          /\ state'[t].pc \notin {"add", "reset", "pass", "spin"}
      BY <2>3
    <3> QED
      BY <3>1 DEF At
  <2> QED
    BY <2>1, <2>2, <2>3 DEF BarrierKept
<1>3. Arrived' = Arrived
  BY <1>2 DEF Arrived
<1>4. Last' = Last
  BY <1>2 DEF Last, At
<1>5. \A t \in Threads : /\ At(t, "spin")' => state'[t].passed <= nBarrierPassed'
                         /\ At(t, "add")' => /\ state'[t].passed = nBarrierPassed'
                                             /\ state'[t].members = nThreadsCur'
  BY <1>1, <1>2 DEF BarrierInv, barrier
<1>6. \A t \in Last' : /\ Arrived' \union {t} = Members'
                       /\ nBarrier' = IF At(t, "reset")' THEN nThreadsCur' ELSE 0
  <2>1. \A t \in Last : t \in Threads
    BY DEF Last
  <2> QED
    BY <1>1, <1>2, <1>3, <1>4, <2>1 DEF BarrierInv, barrier
<1>7. Last' = {} => nBarrier' = Cardinality(Arrived')
  BY <1>1, <1>3, <1>4 DEF BarrierInv, barrier
<1> QED
  BY <1>5, <1>6, <1>7 DEF BarrierInv

(* The last thread to enter finds all others in the barrier.                *)
LEMMA BarrierOfAdd ==
  ASSUME PoolInv, NEW t \in Threads, BarrierAdd(t)
  PROVE  BarrierInv'
<1>1. /\ Typed /\ BarrierInv /\ Alone(t) /\ KeepsBarrier(t) /\ state[t].pc = "add"
      /\ state'[t].pc = IF nBarrier = state[t].members - 1 THEN "reset" ELSE "spin"
      /\ nBarrier' = nBarrier + 1 /\ nBarrierPassed' = nBarrierPassed
      /\ nThreadsCur' = nThreadsCur
  BY BarrierAddFacts DEF PoolInv, BarrierAdd, At, pool
<1>2. /\ t \in Members /\ t \notin Arrived /\ Last = {} /\ IsFiniteSet(Arrived)
      /\ Arrived \subseteq Members /\ IsFiniteSet(Members)
      /\ Cardinality(Members) = nThreadsCur /\ Cardinality(Arrived) \in Nat
  BY <1>1, ArrivedFacts
<1>3. nBarrier = Cardinality(Arrived) /\ state[t].passed = nBarrierPassed
      /\ state[t].members = nThreadsCur /\ Members' = Members
      /\ nThreadsCur \in Nat /\ nBarrierPassed \in Nat
  BY <1>1, <1>2, MemberFacts DEF BarrierInv, At, Members, Typed
<1>4. ASSUME NEW u \in Threads
      PROVE  /\ At(u, "spin")' => state'[u].passed <= nBarrierPassed'
             /\ At(u, "add")' => state'[u].passed = nBarrierPassed'
                                 /\ state'[u].members = nThreadsCur'
  <2>1. CASE u # t
    BY <1>1, <2>1 DEF Alone, Others, BarrierInv, At
  <2>2. CASE u = t
    BY <1>1, <1>3, <2>2 DEF KeepsBarrier, At
  <2> QED
    BY <2>1, <2>2
<1>5. \A u \in Threads \ {t} :
        /\ u \in Arrived' <=> u \in Arrived
        /\ u \in Last' <=> u \in Last
  BY <1>1 DEF Alone, Others, Arrived, Last, At
<1>6. CASE nBarrier = nThreadsCur - 1
  <2>1. state'[t].pc = "reset"
    BY <1>1, <1>3, <1>6
  <2>2. Arrived' = Arrived
    BY <1>2, <1>5, <2>1 DEF Arrived, At
  <2>3. Last' = {t}
    BY <1>2, <1>5, <2>1 DEF Last
  <2>4. Arrived \union {t} = Members
    <3>1. Cardinality(Arrived \union {t}) = Cardinality(Members)
      <4>1. Cardinality(Arrived \union {t}) = Cardinality(Arrived) + 1
        BY <1>2, FS_AddElement
      <4> QED
        BY <1>2, <1>3, <1>6, <4>1
    <3>2. Arrived \union {t} \in SUBSET Members
      BY <1>2
    <3> QED
      BY <1>2, <3>1, <3>2, FS_Subset
  <2>5. At(t, "reset")' /\ nBarrier' = nThreadsCur'
    BY <1>1, <1>2, <1>3, <1>6, <2>1 DEF At
  <2> QED
    BY <1>3, <1>4, <2>2, <2>3, <2>4, <2>5 DEF BarrierInv
<1>7. CASE nBarrier # nThreadsCur - 1
  <2>1. state'[t].pc = "spin"
    BY <1>1, <1>3, <1>7
  <2>2. t \in Arrived'
    BY <1>1, <1>3, <2>1 DEF Arrived, At, KeepsBarrier
  <2>3. Arrived' = Arrived \union {t}
    <3>1. Arrived \subseteq Threads /\ Arrived' \subseteq Threads
      BY DEF Arrived
    <3> QED
      BY <1>5, <2>2, <3>1
  <2>4. Last' = {}
    <3>1. Last' \subseteq Threads /\ t \notin Last'
      BY <2>1 DEF Last
    <3> QED
      BY <1>2, <1>5, <3>1
  <2>5. nBarrier' = Cardinality(Arrived')
    BY <1>1, <1>2, <1>3, <2>3, FS_AddElement
  <2> QED
    BY <1>4, <2>4, <2>5 DEF BarrierInv
<1> QED
  BY <1>6, <1>7

LEMMA BarrierOfReset ==
  ASSUME PoolInv, NEW t \in Threads, BarrierReset(t)
  PROVE  BarrierInv'
<1>1. /\ Typed /\ BarrierInv /\ Alone(t) /\ KeepsBarrier(t) /\ state[t].pc = "reset"
      /\ state'[t].pc = "pass" /\ nBarrier' = 0 /\ nBarrierPassed' = nBarrierPassed
      /\ nThreadsCur' = nThreadsCur /\ Members' = Members
  BY BarrierResetFacts DEF PoolInv, BarrierReset, At, pool, Members
<1>2. t \in Last /\ Last = {t} /\ t \notin Arrived
  <2>1. t \in Last
    BY <1>1 DEF Last
  <2> QED
    BY <2>1, ArrivedFacts
<1>3. ASSUME NEW u \in Threads
      PROVE  /\ At(u, "spin")' => state'[u].passed <= nBarrierPassed'
             /\ At(u, "add")' => state'[u].passed = nBarrierPassed'
                                 /\ state'[u].members = nThreadsCur'
  <2>1. CASE u # t
    BY <1>1, <2>1 DEF Alone, Others, BarrierInv, At
  <2>2. CASE u = t
    BY <1>1, <2>2 DEF At
  <2> QED
    BY <2>1, <2>2
<1>4. \A u \in Threads \ {t} :
        /\ u \in Arrived' <=> u \in Arrived
        /\ u \in Last' <=> u \in Last
  BY <1>1 DEF Alone, Others, Arrived, Last, At
<1>5. Arrived' = Arrived
  BY <1>1, <1>2, <1>4 DEF Arrived, At
<1>6. Last' = {t}
  BY <1>1, <1>2, <1>4 DEF Last
<1>7. Arrived \union {t} = Members
  BY <1>1, <1>2 DEF BarrierInv
<1> QED
  BY <1>1, <1>3, <1>5, <1>6, <1>7 DEF BarrierInv, At

LEMMA BarrierOfPass ==
  ASSUME PoolInv, NEW t \in Threads, BarrierPass(t)
  PROVE  BarrierInv' /\ Arrived \union {t} = Members /\ Arrived' = {}
<1>1. /\ Typed /\ BarrierInv /\ Alone(t) /\ state[t].pc = "pass"
      /\ state'[t].pc = state[t].back /\ state[t].back \in {"loop", "chunk", "leave"}
      /\ nBarrier' = nBarrier /\ nBarrierPassed' = nBarrierPassed + 1
      /\ nThreadsCur' = nThreadsCur
  BY LeaveFacts, BackFacts DEF PoolInv, BarrierPass, At, pool, InnerSteps
<1>2. t \in Last /\ Last = {t} /\ t \notin Arrived
  <2>1. t \in Last
    BY <1>1 DEF Last
  <2> QED
    BY <2>1, ArrivedFacts
<1>3. Arrived \union {t} = Members /\ nBarrier = 0
  BY <1>1, <1>2 DEF BarrierInv, At
<1>4. \A u \in Threads : u # t => state[u].pc # "add"
  BY <1>2, ArrivedFacts
<1>5. ASSUME NEW u \in Threads
      PROVE  /\ At(u, "spin")' => state'[u].passed <= nBarrierPassed
             /\ ~At(u, "add")' /\ u \notin Last'
  <2>1. CASE u # t
    <3>1. state'[u] = state[u]
      BY <1>1, <2>1 DEF Alone, Others
    <3>2. u \notin Last
      BY <1>2, <2>1
    <3> QED
      BY <1>1, <1>4, <1>5, <2>1, <3>1, <3>2 DEF At, BarrierInv, Last
  <2>2. CASE u = t
    BY <1>1, <2>2 DEF At, Last
  <2> QED
    BY <2>1, <2>2
<1>6. \A u \in Threads : nBarrierPassed \in Nat /\ state'[u].passed \in Nat
  BY <1>1 DEF Typed, Alone, ThreadState
<1>7. Arrived' = {}
  BY <1>1, <1>5, <1>6 DEF Arrived
<1>8. Last' = {}
  BY <1>5 DEF Last
<1>9. \A u \in Threads : At(u, "spin")' => state'[u].passed <= nBarrierPassed'
  BY <1>1, <1>5, <1>6
<1>10. nBarrier' = Cardinality(Arrived')
  BY <1>1, <1>3, <1>7, FS_EmptySet
<1> QED
  BY <1>3, <1>5, <1>7, <1>8, <1>9, <1>10 DEF BarrierInv

LEMMA BarrierOfEnter ==
  ASSUME PoolInv, NEW t \in Threads, BarrierEnter(t)
  PROVE  BarrierInv'
<1>1. /\ Typed /\ BarrierInv /\ Alone(t) /\ state[t].pc = "enter"
      /\ UNCHANGED <<nBarrier, nBarrierPassed, nThreadsCur>>
  BY BarrierEnterFacts DEF PoolInv, BarrierEnter, At, pool, barrier
<1>2. CASE nThreadsCur = 1
  <2>1. state'[t].pc \in {"loop", "chunk", "leave"}
    BY <1>1, <1>2, BarrierEnterFacts, BackFacts DEF InnerSteps
  <2>2. BarrierKept(t)
    BY <1>1, <2>1 DEF BarrierKept
  <2>3. \A u \in Threads : BarrierKept(u)
    BY <1>1, <2>2 DEF BarrierKept, KeepsBarrier, Alone, Others
  <2> QED
    BY <1>1, <2>3, BarrierUnchanged DEF barrier
<1>3. CASE nThreadsCur # 1
  <2>1. /\ state'[t].pc = "add" /\ state'[t].passed = nBarrierPassed
        /\ state'[t].members = nThreadsCur
    BY <1>1, <1>3, BarrierEnterFacts
  <2>2. t \notin Arrived /\ Last = {} /\ Members' = Members
    BY <1>1, ArrivedFacts DEF Members
  <2>3. ASSUME NEW u \in Threads
        PROVE  /\ At(u, "spin")' => state'[u].passed <= nBarrierPassed'
               /\ At(u, "add")' => state'[u].passed = nBarrierPassed'
                                   /\ state'[u].members = nThreadsCur'
               /\ u \in Arrived' <=> u \in Arrived
               /\ u \notin Last'
    <3>1. CASE u # t
      BY <1>1, <2>2, <3>1 DEF Alone, Others, BarrierInv, At, Arrived, Last
    <3>2. CASE u = t
      BY <1>1, <2>1, <2>2, <3>2 DEF At, Arrived, Last
    <3> QED
      BY <3>1, <3>2
  <2>4. Arrived' = Arrived /\ Last' = {}
    <3>1. Arrived \subseteq Threads /\ Arrived' \subseteq Threads /\ Last' \subseteq Threads
      BY DEF Arrived, Last
    <3> QED
      BY <2>3, <3>1
  <2> QED
    BY <1>1, <2>2, <2>3, <2>4 DEF BarrierInv
<1> QED
  BY <1>2, <1>3

LEMMA BarrierOfSpin ==
  ASSUME PoolInv, NEW t \in Threads, BarrierSpin(t)
  PROVE  BarrierInv'
<1>1. /\ Typed /\ BarrierInv /\ Alone(t) /\ state[t].pc = "spin"
      /\ nBarrierPassed # state[t].passed
      /\ state'[t].pc = state[t].back /\ state[t].back \in {"loop", "chunk", "leave"}
      /\ UNCHANGED <<nBarrier, nBarrierPassed, nThreadsCur>>
  BY LeaveFacts, BackFacts DEF PoolInv, BarrierSpin, At, pool, barrier, InnerSteps
<1>2. Members' = Members
  BY <1>1 DEF Members
<1>3. ASSUME NEW u \in Threads
      PROVE  /\ At(u, "spin")' => state'[u].passed <= nBarrierPassed'
             /\ At(u, "add")' => state'[u].passed = nBarrierPassed'
                                 /\ state'[u].members = nThreadsCur'
             /\ u \in Arrived' <=> u \in Arrived
             /\ u \in Last' <=> u \in Last
             /\ At(u, "reset")' <=> At(u, "reset")
  <2>1. CASE u # t
    BY <1>1, <2>1 DEF Alone, Others, BarrierInv, At, Arrived, Last
  <2>2. CASE u = t
    BY <1>1, <2>2 DEF At, Arrived, Last
  <2> QED
    BY <2>1, <2>2
<1>4. /\ Arrived \subseteq Threads /\ Arrived' \subseteq Threads
      /\ Last \subseteq Threads /\ Last' \subseteq Threads
  BY DEF Arrived, Last
<1>5. Arrived' = Arrived /\ Last' = Last
  BY <1>3, <1>4
<1>6. \A u \in Last' : /\ Arrived' \union {u} = Members'
                       /\ nBarrier' = IF At(u, "reset")' THEN nThreadsCur' ELSE 0
  BY <1>1, <1>2, <1>3, <1>4, <1>5 DEF BarrierInv
<1>7. Last' = {} => nBarrier' = Cardinality(Arrived')
  BY <1>1, <1>5 DEF BarrierInv
<1> QED
  BY <1>3, <1>6, <1>7 DEF BarrierInv

LEMMA BarrierOfCaller ==
  ASSUME PoolInv, NextOfCaller
  PROVE  BarrierInv'
<1>1. Typed /\ 0 \in Threads /\ BarrierInv
  BY MemberFacts DEF PoolInv
<1>2. ASSUME Alone(0), KeepsBarrier(0),
             state[0].pc \in CallerSteps, state'[0].pc \in CallerSteps
      PROVE  \A t \in Threads : BarrierKept(t)
  <2>1. BarrierKept(0)
    BY <1>2 DEF BarrierKept, CallerSteps
  <2> QED
    BY <1>2, <2>1 DEF BarrierKept, Alone, Others, KeepsBarrier
<1>3. ASSUME NEW pc0 \in CallerSteps \union {"graph"}, Wakes(pc0),
             state[0].pc \in CallerSteps
      PROVE  \A t \in Threads : BarrierKept(t)
  <2> SUFFICES ASSUME NEW t \in Threads PROVE BarrierKept(t)
    OBVIOUS
  <2>1. CASE t = 0
    BY <1>3, <2>1 DEF BarrierKept, Wakes, CallerSteps
  <2>2. CASE t # 0
    <3>1. /\ KeepsBarrier(t)
          /\ state'[t].pc = IF state[t].pc = "pauseWait" THEN "top"
                            ELSE IF state[t].pc = "wait" THEN "lock" ELSE state[t].pc
      BY <1>1, <1>3, <2>2, AwakeFacts DEF Wakes, Typed
    <3> QED
      BY <3>1 DEF BarrierKept
  <2> QED
    BY <2>1, <2>2
<1>4. \A pc \in {"idle", "kickThreads", "kickGraph", "kickWake", "freeWake", "join", "freed"} :
        pc \in CallerSteps
  BY DEF CallerSteps
<1>5. CASE GraphCompute \/ KickGraph \/ FreeStop \/ Join
  BY <1>1, <1>2, <1>4, <1>5, CallerFacts, BarrierUnchanged
     DEF GraphCompute, KickGraph, FreeStop, Join, At
<1>6. CASE KickWake \/ PauseOrResume \/ FreeWake
  BY <1>1, <1>3, <1>4, <1>6, CallerFacts, BarrierUnchanged
     DEF KickWake, PauseOrResume, FreeWake, At
<1>7. CASE KickThreads
  <2>1. /\ Alone(0) /\ KeepsBarrier(0) /\ state[0].pc = "kickThreads"
        /\ state'[0].pc = "kickGraph"
        /\ UNCHANGED <<nBarrier, nBarrierPassed>>
    BY <1>1, <1>7, CallerFacts DEF KickThreads, At, barrier
  <2>2. ~Running
    BY <2>1 DEF Running, GraphSteps
  <2>3. Arrived = {} /\ Last = {} /\ \A u \in Threads : state[u].pc # "add"
    BY <2>2, ArrivedFacts
  <2>4. ASSUME NEW u \in Threads
        PROVE  /\ At(u, "spin")' => state'[u].passed <= nBarrierPassed'
               /\ ~At(u, "add")' /\ u \notin Arrived' /\ u \notin Last'
    <3>1. CASE u # 0
      <4>1. u \notin Arrived /\ u \notin Last /\ state'[u] = state[u]
        BY <2>1, <2>3, <3>1 DEF Alone, Others
      <4> QED
        BY <1>1, <2>1, <2>3, <2>4, <4>1 DEF BarrierInv, At, Arrived, Last
    <3>2. CASE u = 0
      BY <2>1, <3>2 DEF At, Arrived, Last
    <3> QED
      BY <3>1, <3>2
  <2>5. Arrived' = {} /\ Last' = {}
    BY <2>4 DEF Arrived, Last
  <2>6. nBarrier' = Cardinality(Arrived')
    BY <1>1, <2>1, <2>3, <2>5 DEF BarrierInv
  <2> QED
    BY <2>4, <2>5, <2>6 DEF BarrierInv
<1> QED
  BY <1>5, <1>6, <1>7 DEF NextOfCaller

LEMMA BarrierStep ==
  ASSUME PoolInv, Next
  PROVE  BarrierInv'
<1>1. Typed /\ 0 \in Threads /\ Workers = Threads \ {0}
  BY MemberFacts DEF PoolInv
<1>2. ASSUME NEW t \in Threads, BarrierKept(t), Alone(t), UNCHANGED <<barrier, nThreadsCur>>
      PROVE  BarrierInv'
  BY <1>2, BarrierUnchanged DEF BarrierKept, Alone, Others, KeepsBarrier
<1>3. ASSUME NEW w \in Workers, SeekStep(w)
      PROVE  BarrierInv'
  <2>1. BarrierKept(w)
    <3>1. state[w].pc \in WorkerSteps /\ state'[w].pc \in WorkerSteps \union {"graph"}
      BY <1>3 DEF SeekStep, WorkerSteps
    <3> QED
      BY <3>1 DEF BarrierKept, WorkerSteps
  <2> QED
    BY <1>1, <1>2, <1>3, <2>1 DEF SeekStep, ReadsOnly
<1>4. ASSUME NEW t \in Threads, BeginGraph(t) \/ EndGraph(t)
      PROVE  BarrierInv'
  <2>1. /\ state[t].pc \in {"graph", "leave"} /\ state'[t].pc \in {"loop", "idle", "top"}
        /\ Alone(t) /\ UNCHANGED <<barrier, nThreadsCur>>
    BY <1>1, <1>4, BeginGraphFacts, EndGraphFacts DEF BeginGraph, EndGraph, At, pool
  <2>2. BarrierKept(t)
    BY <2>1 DEF BarrierKept
  <2> QED
    BY <1>2, <2>1, <2>2
<1>5. ASSUME NEW t \in Threads,
             \/ LoopTest(t) \/ ForwardShare(t) \/ ForwardConvert(t) \/ Chunk(t)
             \/ FetchChunk(t) \/ NodeDone(t)
      PROVE  BarrierInv'
  <2>1. state[t].pc \in {"loop", "forward", "chunk", "fetch", "nodeDone"}
        /\ UNCHANGED <<barrier, nThreadsCur>>
    BY <1>5 DEF LoopTest, ForwardShare, ForwardConvert, Chunk, FetchChunk, NodeDone, At, pool
  <2>2. state'[t].pc \in {"loop", "forward", "chunk", "fetch", "nodeDone", "enter"}
        /\ Alone(t)
    BY <1>1, <1>5, LoopTestFacts, ForwardShareFacts, ForwardConvertFacts, ChunkFacts,
       FetchChunkFacts, NodeDoneFacts
  <2>3. BarrierKept(t)
    BY <2>1, <2>2 DEF BarrierKept
  <2> QED
    BY <1>2, <2>1, <2>2, <2>3
<1> QED
  BY <1>1, <1>3, <1>4, <1>5, NextCases, SeekFacts, BarrierOfCaller, BarrierOfEnter,
     BarrierOfAdd, BarrierOfReset, BarrierOfPass, BarrierOfSpin
     DEF NextOfThreads, NextOfWorkers, InnerSteps

-----------------------------------------------------------------------------
(* The next barrier of a thread changes only when its barrier is passed.    *)
LEMMA BarrierFromKept ==
  ASSUME UNCHANGED <<plan, cgraph, abort>>
  PROVE  /\ \A n : LoopBarrier(n)' = LoopBarrier(n)
         /\ \A n : AfterNodeBarrier(n)' = AfterNodeBarrier(n)
         /\ \A pc, n : BarrierFrom(pc, n)' = BarrierFrom(pc, n)
<1>1. Nodes' = Nodes
  BY DEF Nodes
<1>2. \A n : AfterNodeBarrier(n)' = AfterNodeBarrier(n)
  BY <1>1 DEF AfterNodeBarrier
<1>3. \A n : LoopBarrier(n)' = LoopBarrier(n)
  BY <1>1, <1>2 DEF LoopBarrier
<1>4. \A pc, n : BarrierFrom(pc, n)' = BarrierFrom(pc, n)
  BY <1>1, <1>2, <1>3 DEF BarrierFrom
<1> QED
  BY <1>2, <1>3, <1>4

LEMMA BarrierFromSame ==
  ASSUME UNCHANGED <<plan, cgraph, abort>>, NEW t, state'[t].node = state[t].node
  PROVE  /\ state'[t].back = state[t].back =>
              BarrierFrom(state[t].back, state[t].node)'
                = BarrierFrom(state[t].back, state[t].node)
         /\ state'[t].pc = state[t].back =>
              BarrierFrom(state[t].pc, state[t].node)'
                = BarrierFrom(state[t].back, state[t].node)
<1> SUFFICES ASSUME NEW b, NEW n, b = state[t].back, n = state[t].node
             PROVE  /\ state'[t].back = b =>
                         BarrierFrom(state[t].back, state[t].node)' = BarrierFrom(b, n)
                    /\ state'[t].pc = b =>
                         BarrierFrom(state[t].pc, state[t].node)' = BarrierFrom(b, n)
  OBVIOUS
<1>1. BarrierFrom(b, n)' = BarrierFrom(b, n)
  BY BarrierFromKept
<1> QED
  BY <1>1

LEMMA NextKept ==
  ASSUME NEW u \in Threads, state'[u] = state[u],
         UNCHANGED <<plan, cgraph, nGraph, abort, nBarrierPassed>>
  PROVE  NextBarrier(u)' = NextBarrier(u)
<1>1. /\ NotBegun(u)' <=> NotBegun(u)
      /\ InBarrier(u)' <=> InBarrier(u)
      /\ At(u, "spin")' <=> At(u, "spin")
  BY DEF NotBegun, InBarrier, At
<1> QED
  BY <1>1, BarrierFromKept DEF NextBarrier

(* What the next barrier of a thread is, from its step.                     *)
LEMMA NextOfInGraph ==
  ASSUME PoolInv, NEW t \in Threads, InGraph(t), Running, ~NotBegun(t)
  PROVE  /\ state[t].pc \in {"enter", "add", "reset", "pass"} =>
              InBarrier(t) /\ NextBarrier(t) = <<state[t].node, state[t].back>>
         /\ At(t, "spin") /\ state[t].passed = nBarrierPassed =>
              InBarrier(t) /\ NextBarrier(t) = <<state[t].node, state[t].back>>
         /\ At(t, "spin") /\ state[t].passed # nBarrierPassed =>
              ~InBarrier(t) /\ NextBarrier(t) = BarrierFrom(state[t].back, state[t].node)
         /\ At(t, "loop") => ~InBarrier(t) /\ NextBarrier(t) = LoopBarrier(state[t].node)
         /\ At(t, "forward") =>
              /\ ~InBarrier(t)
              /\ NextBarrier(t) = IF Nodes[state[t].node + 1] > 0
                                  THEN <<state[t].node, "chunk">>
                                  ELSE AfterNodeBarrier(state[t].node)
         /\ state[t].pc \in {"chunk", "fetch", "nodeDone"} =>
              ~InBarrier(t) /\ NextBarrier(t) = AfterNodeBarrier(state[t].node)
         /\ At(t, "leave") => ~InBarrier(t) /\ NextBarrier(t) = End
BY DEF NextBarrier, InBarrier, At, BarrierFrom

(* No step of a thread changes its own next barrier, but for the pass.      *)
Passing(t) == BarrierPass(t) \/ (BarrierEnter(t) /\ nThreadsCur = 1)

LEMMA InnerKeepsGraph ==
  ASSUME PoolInv, NEW t \in Threads, InnerSteps(t)
  PROVE  /\ Inner(t) /\ Typed /\ UNCHANGED <<plan, cgraph, nGraph, nThreadsCur>>
         /\ InGraph(t)' <=> InGraph(t)
         /\ NotBegun(t)' <=> NotBegun(t)
         /\ Running' <=> Running
         /\ Nodes' = Nodes /\ Members' = Members
<1>1. Inner(t) /\ Typed
  BY InnerFacts DEF PoolInv
<1>2. UNCHANGED <<plan, cgraph, nGraph, nThreadsCur>>
  BY <1>1 DEF Inner, pool
<1>3. InGraph(t)' <=> InGraph(t)
  BY <1>1, <1>2 DEF Inner, InGraph, KeepsGraph
<1>4. NotBegun(t)' <=> NotBegun(t)
  BY <1>1, <1>2 DEF Inner, NotBegun, KeepsGraph, At, GraphSteps
<1>5. Running' <=> Running
  BY RunningSteps, <1>1 DEF Inner, EndGraph, At
<1> QED
  BY <1>1, <1>2, <1>3, <1>4, <1>5 DEF Nodes, Members

LEMMA OwnBarrierKept ==
  ASSUME PoolInv, NEW t \in Threads, InnerSteps(t), ~Passing(t), Running
  PROVE  NextBarrier(t)' = NextBarrier(t)
<1>1. /\ Inner(t) /\ Typed /\ UNCHANGED <<plan, cgraph, nGraph, nThreadsCur>>
      /\ InGraph(t)' <=> InGraph(t)
      /\ NotBegun(t)' <=> NotBegun(t)
      /\ Nodes' = Nodes /\ 0 \in Threads /\ Running'
  BY InnerKeepsGraph, ZeroIsThread
<1>2. \A n : AfterNodeBarrier(n)' = AfterNodeBarrier(n)
  BY <1>1 DEF AfterNodeBarrier
<1>3. CASE Released(t)
  <2>1. BarrierSpin(t) /\ state[t].pc = "spin" /\ state[t].back = "leave"
    BY <1>1, <1>3
       DEF Inner, InnerSteps, Released, LoopTest, ForwardShare, ForwardConvert, Chunk,
           FetchChunk, NodeDone, BarrierEnter, BarrierAdd, BarrierReset, BarrierPass, At
  <2>2. nBarrierPassed # state[t].passed /\ state'[t].pc = "leave"
        /\ UNCHANGED <<abort, nBarrierPassed>>
    BY <1>1, <1>3, <2>1 DEF Inner, BarrierSpin, outcome, barrier
  <2>3. CASE NotBegun(t)
    BY <1>1, <2>2, <2>3, BarrierFromKept DEF NextBarrier
  <2>4. CASE ~NotBegun(t)
    <3>1. NextBarrier(t) = End
      BY <2>1, <2>2, <2>4 DEF NextBarrier, InBarrier, At, BarrierFrom
    <3>2. NextBarrier(t)' = End
      BY <1>1, <2>2, <2>4 DEF NextBarrier, InBarrier, At, BarrierFrom, End
    <3> QED
      BY <3>1, <3>2
  <2> QED
    BY <2>3, <2>4
<1>4. CASE ~Released(t)
  <2>1. /\ InGraph(t) /\ ~NotBegun(t) /\ Running /\ NodesOf(t) = Nodes
        /\ state[t].node \in 0..Len(Nodes) /\ Locals(t) /\ Len(Nodes) \in Nat
    BY <1>1, <1>4, InGraphFacts, RunningFacts DEF Inner, PoolInv, GraphInv
  <2> SUFFICES ASSUME NEW n, n = state[t].node
               PROVE  NextBarrier(t)' = NextBarrier(t)
    OBVIOUS
  <2>2. ~NotBegun(t)'
    BY <1>1, <2>1
  <2>3. CASE LoopTest(t)
    <3>1. NextBarrier(t) = LoopBarrier(n) /\ UNCHANGED <<abort, nBarrierPassed>>
      BY <2>1, <2>3, NextOfInGraph DEF LoopTest, outcome, barrier
    <3>2. CASE n < Len(Nodes) /\ abort # n /\ state'[t].pc = "forward" /\ state'[t].node = n
      <4>1. LoopBarrier(n) = IF Nodes[n + 1] > 0 THEN <<n, "chunk">> ELSE AfterNodeBarrier(n)
        BY <2>1, <3>2 DEF LoopBarrier
      <4>2. NextBarrier(t)' = BarrierFrom("forward", n)'
        BY <2>2, <3>2 DEF NextBarrier, InBarrier, At
      <4>3. BarrierFrom("forward", n)' = BarrierFrom("forward", n)
        BY <1>1, <3>1, BarrierFromKept
      <4>4. BarrierFrom("forward", n) = IF Nodes[n + 1] > 0 THEN <<n, "chunk">>
                                                           ELSE AfterNodeBarrier(n)
        BY DEF BarrierFrom
      <4> QED
        BY <3>1, <4>1, <4>2, <4>3, <4>4
    <3>3. CASE /\ n = Len(Nodes) \/ abort = n
               /\ state'[t].pc = "enter" /\ state'[t].back = "leave" /\ state'[t].node = n
      BY <2>2, <3>1, <3>3 DEF NextBarrier, InBarrier, At, LoopBarrier
    <3> QED
      BY <1>1, <2>1, <2>3, <3>2, <3>3, LoopTestFacts DEF KeepsNode
  <2>4. CASE ForwardShare(t)
    <3>1. At(t, "forward") /\ ~(Nodes[n + 1] > 0)
      BY <2>1, <2>4 DEF ForwardShare
    <3>2. NextBarrier(t) = AfterNodeBarrier(n)
      BY <2>1, <3>1, NextOfInGraph
    <3>3. state'[t].pc = "nodeDone" /\ state'[t].node = n
      BY <1>1, <2>4, ForwardShareFacts DEF KeepsNode
    <3> QED
      BY <1>2, <2>2, <3>2, <3>3 DEF NextBarrier, InBarrier, At, BarrierFrom
  <2>5. CASE ForwardConvert(t)
    <3>1. At(t, "forward") /\ Nodes[n + 1] > 0
      BY <2>1, <2>5 DEF ForwardConvert
    <3>2. NextBarrier(t) = <<n, "chunk">>
      BY <2>1, <3>1, NextOfInGraph
    <3>3. state'[t].pc = "enter" /\ state'[t].node = n /\ state'[t].back = "chunk"
      BY <1>1, <2>5, ForwardConvertFacts DEF KeepsNode
    <3> QED
      BY <2>2, <3>2, <3>3 DEF NextBarrier, InBarrier, At
  <2>6. CASE Chunk(t) \/ FetchChunk(t)
    <3>1. state[t].pc \in {"chunk", "fetch"}
      BY <2>6 DEF Chunk, FetchChunk, At
    <3>2. NextBarrier(t) = AfterNodeBarrier(n)
      BY <2>1, <3>1, NextOfInGraph
    <3>3. state'[t].pc \in {"nodeDone", "chunk", "fetch"} /\ state'[t].node = n
      BY <1>1, <2>6, ChunkFacts, FetchChunkFacts DEF KeepsNode
    <3> QED
      BY <1>2, <2>2, <3>2, <3>3 DEF NextBarrier, InBarrier, At, BarrierFrom
  <2>7. CASE NodeDone(t)
    <3>1. state[t].pc = "nodeDone"
      BY <2>7 DEF NodeDone, At
    <3>2. NextBarrier(t) = AfterNodeBarrier(n) /\ n < Len(Nodes)
      BY <2>1, <3>1, NextOfInGraph DEF Locals
    <3>3. /\ state'[t].node = n + 1
          /\ IF n + 1 < Len(Nodes)
             THEN state'[t].pc = "enter" /\ state'[t].back = "loop"
             ELSE state'[t].pc = "loop"
      BY <1>1, <2>1, <2>7, NodeDoneFacts
    <3>4. CASE n + 1 < Len(Nodes)
      BY <2>2, <3>2, <3>3, <3>4 DEF NextBarrier, InBarrier, At, AfterNodeBarrier
    <3>5. CASE ~(n + 1 < Len(Nodes))
      <4>1. n + 1 = Len(Nodes)
        BY <2>1, <3>2, <3>5
      <4>2. NextBarrier(t)' = LoopBarrier(n + 1)'
        BY <2>2, <3>3, <3>5 DEF NextBarrier, InBarrier, At, BarrierFrom
      <4>3. LoopBarrier(n + 1)' = <<n + 1, "leave">>
        BY <1>1, <4>1 DEF LoopBarrier
      <4> QED
        BY <3>2, <3>5, <4>2, <4>3 DEF AfterNodeBarrier
    <3> QED
      BY <3>4, <3>5
  <2>8. ASSUME state[t].pc \in {"enter", "add", "reset"}, KeepsPlace(t),
               \/ state'[t].pc \in {"add", "reset", "pass"}
               \/ state'[t].pc = "spin" /\ state'[t].passed = nBarrierPassed'
        PROVE  NextBarrier(t)' = NextBarrier(t)
    <3>1. NextBarrier(t) = <<state[t].node, state[t].back>>
      BY <2>1, <2>8, NextOfInGraph
    <3> QED
      BY <2>2, <2>8, <3>1 DEF NextBarrier, InBarrier, At, KeepsPlace
  <2>9. CASE BarrierEnter(t)
    <3>1. nThreadsCur # 1
      BY <2>9 DEF Passing
    <3> QED
      BY <1>1, <2>8, <2>9, <3>1, BarrierEnterFacts DEF BarrierEnter, At
  <2>10. CASE BarrierAdd(t)
    <3>1. state[t].pc = "add" /\ state[t].passed = nBarrierPassed
          /\ nBarrierPassed' = nBarrierPassed
      BY <2>10 DEF BarrierAdd, At, PoolInv, BarrierInv
    <3> QED
      BY <1>1, <2>8, <2>10, <3>1, BarrierAddFacts DEF KeepsBarrier
  <2>11. CASE BarrierReset(t)
    BY <1>1, <2>8, <2>11, BarrierResetFacts DEF BarrierReset, At
  <2>12. CASE BarrierSpin(t)
    <3>1. /\ state[t].pc = "spin" /\ state[t].passed # nBarrierPassed
          /\ KeepsPlace(t) /\ state'[t].pc = state[t].back
          /\ UNCHANGED <<abort, nBarrierPassed>>
      BY <1>1, <2>12, LeaveFacts DEF BarrierSpin, At, outcome, barrier
    <3>2. state[t].back \in {"loop", "chunk", "leave"}
      BY <2>1, <3>1 DEF Locals
    <3>3. NextBarrier(t) = BarrierFrom(state[t].back, n)
      BY <2>1, <3>1, NextOfInGraph DEF At
    <3>4. NextBarrier(t)' = BarrierFrom(state[t].pc, state[t].node)'
      BY <2>2, <3>1, <3>2 DEF NextBarrier, InBarrier, At
    <3> QED
      BY <1>1, <3>1, <3>3, <3>4, BarrierFromSame DEF KeepsPlace
  <2>13. ~BarrierPass(t)
    BY DEF Passing
  <2> QED
    BY <2>3, <2>4, <2>5, <2>6, <2>7, <2>9, <2>10, <2>11, <2>12, <2>13 DEF InnerSteps
<1> QED
  BY <1>3, <1>4

(* An abort does not change where the others are going.                     *)
LEMMA OtherBarrierKept ==
  ASSUME PoolInv, NEW t \in Threads, InnerSteps(t), ~BarrierPass(t), Running,
         NEW u \in Members, u # t
  PROVE  NextBarrier(u)' = NextBarrier(u)
<1>1. /\ Inner(t) /\ Typed /\ UNCHANGED <<plan, cgraph, nGraph, nThreadsCur>>
      /\ Nodes' = Nodes /\ 0 \in Threads /\ u \in Threads /\ state'[u] = state[u]
  BY InnerKeepsGraph, MemberFacts DEF Inner, Alone, Others
<1>2. nBarrierPassed' = nBarrierPassed
  BY DEF InnerSteps, LoopTest, ForwardShare, ForwardConvert, Chunk, FetchChunk, NodeDone,
         BarrierEnter, BarrierAdd, BarrierReset, BarrierSpin, barrier
<1>3. CASE UNCHANGED abort
  BY <1>1, <1>2, <1>3, NextKept
<1>4. CASE t = 0 /\ NodeDone(0) /\ abort = -1 /\ abort' = state[0].node + 1
  <2> SUFFICES ASSUME NEW n, n = state[0].node
               PROVE  NextBarrier(u)' = NextBarrier(u)
    OBVIOUS
  <2>1. state[0].pc = "nodeDone" /\ InGraph(0) /\ n \in Nat /\ n < Len(Nodes)
        /\ Len(Nodes) \in Nat /\ 0 \in Members
    BY <1>1, <1>4, RunningFacts, MemberFacts
       DEF NodeDone, At, InGraph, GraphSteps, PoolInv, CallerInv, GraphInv, Locals, Typed, ThreadState
  <2>2. NextBarrier(0) = AfterNodeBarrier(n)
    BY <2>1, <1>1, NextOfInGraph DEF NotBegun
  <2>3. NextBarrier(u) = AfterNodeBarrier(n)
    BY <2>2, <2>1 DEF PoolInv, InStep
  <2>4. \A m : AfterNodeBarrier(m)' = AfterNodeBarrier(m)
    BY <1>1 DEF AfterNodeBarrier
  <2>5. ASSUME NEW m \in Nat, LoopBarrier(m) = AfterNodeBarrier(n)
        PROVE  LoopBarrier(m)' = LoopBarrier(m)
    <3>1. AfterNodeBarrier(n)[1] = n + 1 /\ AfterNodeBarrier(n)[2] # "chunk"
      BY DEF AfterNodeBarrier
    <3>2. CASE m = Len(Nodes)
      BY <1>1, <3>2 DEF LoopBarrier
    <3>3. CASE m # Len(Nodes)
      <4>1. m # abort
        BY <1>4, <2>5
      <4>2. LoopBarrier(m) = AfterNodeBarrier(m) /\ ~(Nodes[m + 1] > 0)
        BY <2>5, <3>1, <3>3, <4>1 DEF LoopBarrier
      <4>3. AfterNodeBarrier(m)[1] = m + 1
        BY DEF AfterNodeBarrier
      <4>4. m + 1 = n + 1
        BY <2>5, <3>1, <4>2, <4>3
      <4>5. m # abort'
        BY <1>4, <2>1, <2>5, <4>4
      <4>6. LoopBarrier(m)' = AfterNodeBarrier(m)'
        BY <1>1, <3>3, <4>2, <4>5 DEF LoopBarrier
      <4> QED
        BY <2>4, <4>2, <4>6
    <3> QED
      BY <3>2, <3>3
  <2>6. /\ NotBegun(u)' <=> NotBegun(u)
        /\ InBarrier(u)' <=> InBarrier(u)
        /\ At(u, "spin")' <=> At(u, "spin")
    BY <1>1, <1>2, <1>4 DEF NotBegun, InBarrier, At
  <2>7. state[u].node \in Nat
    BY <1>1 DEF Typed, ThreadState
  <2>8. CASE NotBegun(u)
    BY <2>3, <2>5, <2>6, <2>8 DEF NextBarrier
  <2>9. CASE ~NotBegun(u) /\ InBarrier(u)
    BY <1>1, <2>6, <2>9 DEF NextBarrier
  <2>10. ASSUME NEW pc, NEW m \in Nat, BarrierFrom(pc, m) = AfterNodeBarrier(n)
         PROVE  BarrierFrom(pc, m)' = BarrierFrom(pc, m)
    <3>1. CASE pc = "loop"
      BY <2>5, <2>10, <3>1 DEF BarrierFrom
    <3>2. CASE pc # "loop"
      BY <1>1, <2>4, <3>2 DEF BarrierFrom, End
    <3> QED
      BY <3>1, <3>2
  <2>11. CASE ~NotBegun(u) /\ ~InBarrier(u)
    <3> SUFFICES ASSUME NEW pc, NEW m \in Nat, m = state[u].node,
                        pc = IF At(u, "spin") THEN state[u].back ELSE state[u].pc
                 PROVE  NextBarrier(u)' = NextBarrier(u)
      BY <2>7
    <3>1. NextBarrier(u) = BarrierFrom(pc, m)
      BY <2>11 DEF NextBarrier
    <3>2. NextBarrier(u)' = BarrierFrom(pc, m)'
      BY <1>1, <2>6, <2>11 DEF NextBarrier
    <3> QED
      BY <2>3, <2>10, <3>1, <3>2
  <2> QED
    BY <2>8, <2>9, <2>11
<1> QED
  BY <1>3, <1>4, AbortFacts

(* A thread that passes the barrier lets all others pass.                   *)
LEMMA PassBarrier ==
  ASSUME PoolInv, NEW t \in Threads, InnerSteps(t), Passing(t)
  PROVE  /\ Running /\ Running' /\ t \in Members /\ Members' = Members
         /\ UNCHANGED <<plan, cgraph, abort>>
         /\ \A u \in Members :
              /\ InGraph(u) /\ InBarrier(u) /\ ~NotBegun(u)
              /\ InGraph(u)' /\ ~InBarrier(u)' /\ ~NotBegun(u)'
              /\ state[u].node = state[0].node /\ state[u].back = state[0].back
              /\ state'[u].node = state[u].node /\ state'[u].chunk = state[u].chunk
              /\ state'[u].back = state[u].back
              /\ state'[u].pc \in {state[0].back, "spin"}
              /\ state[0].back \in {"loop", "chunk", "leave"}
              /\ NextBarrier(u) = <<state[0].node, state[0].back>>
              /\ NextBarrier(u)' = BarrierFrom(state[0].back, state[0].node)
<1>1. /\ Inner(t) /\ Typed /\ UNCHANGED <<plan, cgraph, nGraph, nThreadsCur>>
      /\ InGraph(t)' <=> InGraph(t)
      /\ NotBegun(t)' <=> NotBegun(t)
      /\ Running' <=> Running
      /\ Nodes' = Nodes /\ Members' = Members
  BY InnerKeepsGraph
<1>2. /\ state[t].pc \in {"enter", "pass"} /\ state'[t].pc = state[t].back
      /\ KeepsPlace(t) /\ UNCHANGED abort /\ state[t].back \in {"loop", "chunk", "leave"}
  BY <1>1, LeaveFacts, BarrierEnterFacts, BackFacts
     DEF Passing, BarrierPass, BarrierEnter, At, outcome
<1>3. ~Released(t) /\ state[t].pc \in GraphSteps \ {"graph"}
  BY <1>2 DEF Released, At, GraphSteps
<1>4. Running /\ t \in Members /\ InGraph(t) /\ ~NotBegun(t)
  BY <1>3, InGraphFacts
<1>5. NextBarrier(t) = <<state[t].node, state[t].back>> /\ InBarrier(t)
  BY <1>2, <1>4, NextOfInGraph
<1>6. \A u \in Members : NextBarrier(u) = NextBarrier(0) /\ u \in Threads
  BY <1>1, <1>4, MemberFacts DEF PoolInv, InStep
<1>7. ASSUME NEW u \in Members, u # t
      PROVE  /\ InGraph(u) /\ InBarrier(u) /\ ~NotBegun(u) /\ state[u].pc = "spin"
             /\ NextBarrier(u) = <<state[u].node, state[u].back>>
             /\ ~InBarrier(u)' /\ InGraph(u)' /\ ~NotBegun(u)'
             /\ state'[u] = state[u]
             /\ NextBarrier(u)' = BarrierFrom(state[u].back, state[u].node)
  <2>1. BarrierPass(t)
    <3>1. CASE nThreadsCur = 1
      BY <1>4, <1>7, <3>1 DEF Members
    <3> QED
      BY <3>1 DEF Passing
  <2>2. u \in Arrived /\ nBarrierPassed' = nBarrierPassed + 1 /\ nBarrierPassed \in Nat
    BY <1>1, <1>7, <2>1, BarrierOfPass DEF BarrierPass, Typed
  <2>3. state[u].pc = "spin" /\ state[u].passed = nBarrierPassed
    BY <2>2 DEF Arrived, At
  <2>4. ~Released(u) /\ state[u].pc \in GraphSteps \ {"graph"} /\ u \in Threads
    BY <1>6, <2>3 DEF Released, At, GraphSteps
  <2>5. InGraph(u) /\ ~NotBegun(u)
    BY <2>4, InGraphFacts
  <2>6. InBarrier(u) /\ NextBarrier(u) = <<state[u].node, state[u].back>>
    BY <1>4, <1>6, <2>3, <2>5, NextOfInGraph DEF At
  <2>7. state'[u] = state[u]
    BY <1>1, <1>6, <1>7 DEF Inner, Alone, Others
  <2>8. state'[u].passed # nBarrierPassed'
    BY <2>2, <2>3, <2>7
  <2>9. ~InBarrier(u)' /\ InGraph(u)' /\ ~NotBegun(u)' /\ At(u, "spin")'
    BY <1>1, <2>3, <2>5, <2>7, <2>8 DEF InBarrier, InGraph, NotBegun, At
  <2>10. NextBarrier(u)' = BarrierFrom(state[u].back, state[u].node)'
    BY <2>9 DEF NextBarrier
  <2>11. NextBarrier(u)' = BarrierFrom(state[u].back, state[u].node)
    BY <1>1, <1>2, <2>7, <2>10, BarrierFromSame
  <2> QED
    BY <2>3, <2>5, <2>6, <2>7, <2>9, <2>11
<1>8. /\ ~InBarrier(t)' /\ InGraph(t)' /\ ~NotBegun(t)'
      /\ NextBarrier(t)' = BarrierFrom(state[t].back, state[t].node)
      /\ state'[t].node = state[t].node /\ state'[t].chunk = state[t].chunk
      /\ state'[t].back = state[t].back
  <2>1. ~InBarrier(t)' /\ ~At(t, "spin")' /\ ~NotBegun(t)'
    BY <1>1, <1>2, <1>4 DEF InBarrier, At
  <2>2. NextBarrier(t)' = BarrierFrom(state[t].pc, state[t].node)'
    BY <2>1 DEF NextBarrier
  <2>3. NextBarrier(t)' = BarrierFrom(state[t].back, state[t].node)
    BY <1>1, <1>2, <2>2, BarrierFromSame DEF KeepsPlace
  <2> QED
    BY <1>1, <1>2, <1>4, <2>1, <2>3 DEF KeepsPlace
<1>9. \A u \in Members : <<state[u].node, state[u].back>> = NextBarrier(0)
  BY <1>5, <1>6, <1>7
<1>10. 0 \in Members
  BY <1>1, MemberFacts
<1>11. \A u \in Members : state[u].node = state[0].node /\ state[u].back = state[0].back
  BY <1>9, <1>10
<1>12. /\ state[0].back \in {"loop", "chunk", "leave"}
       /\ \A u \in Members : state'[u].pc \in {state[0].back, "spin"}
  BY <1>2, <1>4, <1>7, <1>11
<1> QED
  BY <1>1, <1>2, <1>4, <1>5, <1>6, <1>7, <1>8, <1>9, <1>10, <1>11, <1>12

LEMMA NextOfWaiting ==
  ASSUME NEW t, state[t].pc \in WorkerSteps, ~NotBegun(t)
  PROVE  NextBarrier(t) = End
BY DEF NextBarrier, InBarrier, At, BarrierFrom, WorkerSteps

(* Every step keeps the next barrier of all threads of the graph, or passes *)
(* their barrier.                                                           *)
LEMMA BarriersOfThreads ==
  ASSUME PoolInv, Running, NEW t \in Threads,
         BeginGraph(t) \/ (InnerSteps(t) /\ ~Passing(t)) \/ (EndGraph(t) /\ t # 0),
         NEW u \in Members
  PROVE  NextBarrier(u)' = NextBarrier(u)
<1>1. Typed /\ u \in Threads /\ 0 \in Threads
  BY MemberFacts DEF PoolInv
<1>2. UNCHANGED <<plan, cgraph, nGraph, nThreadsCur>> /\ Alone(t)
      /\ state'[t].lastGraph = state[t].lastGraph
  BY RunningSteps DEF pool
<1>3. CASE InnerSteps(t) /\ ~Passing(t)
  BY <1>3, OwnBarrierKept, OtherBarrierKept DEF Passing
<1>4. CASE (BeginGraph(t) \/ EndGraph(t)) /\ u # t
  <2>1. state'[u] = state[u] /\ UNCHANGED <<abort, nBarrierPassed>>
    BY <1>1, <1>2, <1>4 DEF Alone, Others, BeginGraph, EndGraph, outcome, barrier
  <2> QED
    BY <1>1, <1>2, <2>1, NextKept
<1>5. CASE BeginGraph(u) /\ u = t
  <2>1. At(u, "graph") /\ state'[u].pc = "loop" /\ state'[u].node = 0 /\ UNCHANGED abort
    BY <1>1, <1>5, BeginGraphFacts DEF BeginGraph, outcome
  <2>2. NotBegun(u)
    BY <2>1 DEF NotBegun, At
  <2>3. u # 0 => state[u].lastGraph = nGraph
    BY <1>1, <2>1, ThreadFacts
  <2>4. ~NotBegun(u)' /\ ~InBarrier(u)' /\ ~At(u, "spin")'
    BY <1>2, <1>5, <2>1, <2>3 DEF NotBegun, InBarrier, At
  <2>5. BarrierFrom("loop", 0)' = LoopBarrier(0)
    BY <1>2, <2>1, BarrierFromKept DEF BarrierFrom
  <2>6. NextBarrier(u)' = BarrierFrom("loop", 0)'
    BY <2>1, <2>4 DEF NextBarrier
  <2> QED
    BY <2>2, <2>5, <2>6 DEF NextBarrier
<1>6. CASE EndGraph(u) /\ u = t /\ t # 0
  <2>1. state[u].pc = "leave" /\ state'[u].pc = "top" /\ UNCHANGED abort
    BY <1>1, <1>6, EndGraphFacts DEF EndGraph, At
  <2>2. NotBegun(u)' <=> NotBegun(u)
    BY <1>2, <1>6, <2>1 DEF NotBegun, At
  <2>3. CASE NotBegun(u)
    BY <1>2, <2>1, <2>2, <2>3, BarrierFromKept DEF NextBarrier
  <2>4. CASE ~NotBegun(u)
    <3>1. NextBarrier(u) = End
      BY <2>1, <2>4 DEF NextBarrier, InBarrier, At, BarrierFrom
    <3>2. NextBarrier(u)' = End
      BY <2>1, <2>2, <2>4 DEF NextBarrier, InBarrier, At, BarrierFrom, End
    <3> QED
      BY <3>1, <3>2
  <2> QED
    BY <2>3, <2>4
<1> QED
  BY <1>3, <1>4, <1>5, <1>6

LEMMA BarriersOfWorkers ==
  ASSUME PoolInv, Running, NEW w \in Workers, SeekStep(w), NEW u \in Members
  PROVE  NextBarrier(u)' = NextBarrier(u)
<1>1. Typed /\ u \in Threads /\ Workers = Threads \ {0} /\ (u # 0 => Active(u))
  BY MemberFacts DEF PoolInv
<1>2. UNCHANGED <<plan, cgraph, nGraph, nThreadsCur, abort, nBarrierPassed>> /\ Alone(w)
  BY <1>1 DEF SeekStep, ReadsOnly, outcome, barrier
<1>3. CASE u # w
  BY <1>1, <1>2, <1>3, NextKept DEF Alone, Others
<1>4. CASE u = w
  <2>1. u # 0 /\ Active(u) /\ state[u].pc \in WorkerSteps /\ ~At(u, "graph")
    BY <1>1, <1>4 DEF SeekStep, At, WorkerSteps
  <2>2. ASSUME NotBegun(u), NotBegun(u)'
        PROVE  NextBarrier(u)' = NextBarrier(u)
    BY <1>2, <2>2, BarrierFromKept DEF NextBarrier
  <2>3. CASE state'[u].lastGraph = state[u].lastGraph /\ state'[u].pc \in WorkerSteps
    <3>1. ~At(u, "graph")'
      BY <2>3 DEF At, WorkerSteps
    <3>2. NotBegun(u)' <=> NotBegun(u)
      BY <1>2, <2>1, <2>3, <3>1 DEF NotBegun
    <3>3. CASE ~NotBegun(u)
      <4>1. NextBarrier(u) = End
        BY <2>1, <3>3, NextOfWaiting
      <4>2. NextBarrier(u)' = End
        BY <2>3, <3>2, <3>3 DEF NextBarrier, InBarrier, At, BarrierFrom, WorkerSteps, End
      <4> QED
        BY <4>1, <4>2
    <3> QED
      BY <2>2, <3>2, <3>3
  <2>4. ASSUME nGraph # state[u].lastGraph, state'[u].pc = "graph"
        PROVE  NextBarrier(u)' = NextBarrier(u)
    BY <2>1, <2>2, <2>4 DEF NotBegun, At
  <2>5. CASE /\ At(u, "pollActive") /\ state'[u].lastGraph = state[u].seen
             /\ state'[u].pc = "graph"
    <3>1. state[u].lastGraph < state[u].seen /\ state[u].seen <= nGraph
      BY <1>1, <2>1, <2>5 DEF PoolInv, WorkerInv, Placed
    <3>2. state[u].lastGraph \in Nat /\ state[u].seen \in Nat /\ nGraph \in Nat
      BY <1>1 DEF Typed, ThreadState
    <3>3. nGraph # state[u].lastGraph
      BY <3>1, <3>2
    <3> QED
      BY <2>4, <2>5, <3>3
  <2> QED
    BY <1>4, <2>1, <2>3, <2>4, <2>5 DEF SeekStep, WorkerSteps
<1> QED
  BY <1>3, <1>4

LEMMA BarriersOfWake ==
  ASSUME PoolInv, KickWake, NEW u \in Members
  PROVE  NextBarrier(u)' = NextBarrier(u)
<1>1. Typed /\ u \in Threads /\ 0 \in Threads
  BY MemberFacts DEF PoolInv
<1>2. /\ Wakes("graph") /\ state[0].pc = "kickWake"
      /\ UNCHANGED <<plan, cgraph, nGraph, abort, nBarrierPassed>>
  BY <1>1, CallerFacts DEF KickWake, At, outcome, barrier
<1>3. CASE u = 0
  <2>1. NotBegun(0) /\ NotBegun(0)'
    BY <1>2 DEF NotBegun, Wakes
  <2> QED
    BY <1>2, <1>3, <2>1, BarrierFromKept DEF NextBarrier
<1>4. CASE u # 0
  <2>1. KeepsGraph(u) /\ KeepsPlace(u) /\ KeepsBarrier(u)
        /\ state'[u].pc = IF state[u].pc = "pauseWait" THEN "top"
                          ELSE IF state[u].pc = "wait" THEN "lock" ELSE state[u].pc
    BY <1>1, <1>2, <1>4, AwakeFacts DEF Wakes, Typed
  <2>2. /\ NotBegun(u)' <=> NotBegun(u)
        /\ InBarrier(u)' <=> InBarrier(u)
        /\ At(u, "spin")' <=> At(u, "spin")
    BY <1>2, <1>4, <2>1 DEF NotBegun, InBarrier, At, KeepsGraph, KeepsBarrier
  <2>3. CASE state[u].pc \in {"pauseWait", "wait"}
    <3>1. state[u].pc \in WorkerSteps /\ state'[u].pc \in {"top", "lock"}
      BY <2>1, <2>3 DEF WorkerSteps
    <3>2. CASE NotBegun(u)
      BY <1>2, <2>2, <3>2, BarrierFromKept DEF NextBarrier
    <3>3. CASE ~NotBegun(u)
      <4>1. NextBarrier(u) = End
        BY <3>1, <3>3, NextOfWaiting
      <4>2. NextBarrier(u)' = End
        BY <2>2, <3>1, <3>3 DEF NextBarrier, InBarrier, At, BarrierFrom, End
      <4> QED
        BY <4>1, <4>2
    <3> QED
      BY <3>2, <3>3
  <2>4. CASE state[u].pc \notin {"pauseWait", "wait"}
    <3>1. /\ state'[u].pc = state[u].pc /\ state'[u].node = state[u].node
          /\ state'[u].back = state[u].back
      BY <2>1, <2>4 DEF KeepsPlace
    <3> SUFFICES ASSUME NEW pc, NEW b, NEW n, pc = state[u].pc, b = state[u].back,
                        n = state[u].node
                 PROVE  NextBarrier(u)' = NextBarrier(u)
      OBVIOUS
    <3>2. /\ BarrierFrom(pc, n)' = BarrierFrom(pc, n) /\ BarrierFrom(b, n)' = BarrierFrom(b, n)
          /\ LoopBarrier(0)' = LoopBarrier(0)
      BY <1>2, BarrierFromKept
    <3> QED
      BY <2>2, <3>1, <3>2 DEF NextBarrier
  <2> QED
    BY <2>3, <2>4
<1> QED
  BY <1>3, <1>4

LEMMA NextBarriers ==
  ASSUME PoolInv, Next, Running, Running'
  PROVE  /\ Members' = Members
         /\ \/ \A u \in Members : NextBarrier(u)' = NextBarrier(u)
            \/ \E t \in Threads : InnerSteps(t) /\ Passing(t)
<1>1. Typed /\ state[0].pc \in {"kickWake"} \union GraphSteps /\ 0 \in Threads
  BY ZeroIsThread DEF PoolInv, Running
<1>2. CASE NextOfCaller
  <2>1. KickWake
    BY <1>1, <1>2 DEF NextOfCaller, GraphCompute, KickThreads, KickGraph, PauseOrResume,
                      FreeStop, FreeWake, Join, At, GraphSteps
  <2> QED
    BY <2>1, BarriersOfWake DEF KickWake, Members
<1>3. ASSUME NEW w \in Workers, SeekStep(w)
      PROVE  Members' = Members /\ \A u \in Members : NextBarrier(u)' = NextBarrier(u)
  BY <1>3, BarriersOfWorkers DEF SeekStep, ReadsOnly, Members
<1>4. ASSUME NEW t \in Threads, BeginGraph(t) \/ InnerSteps(t) \/ EndGraph(t),
             ~(InnerSteps(t) /\ Passing(t))
      PROVE  Members' = Members /\ \A u \in Members : NextBarrier(u)' = NextBarrier(u)
  <2>1. ~(t = 0 /\ EndGraph(t)) /\ UNCHANGED pool
    BY <1>4, RunningSteps
  <2> QED
    BY <1>4, <2>1, BarriersOfThreads DEF pool, Members
<1>5. ASSUME NEW t \in Threads, InnerSteps(t), Passing(t)
      PROVE  Members' = Members
  BY <1>5, PassBarrier
<1> QED
  BY <1>1, <1>2, <1>3, <1>4, <1>5, NextCases, SeekFacts DEF NextOfThreads, NextOfWorkers

LEMMA InStepStep ==
  ASSUME PoolInv, Next
  PROVE  InStep'
<1> SUFFICES ASSUME Running', NEW u \in Members' PROVE NextBarrier(u)' = NextBarrier(0)'
  BY DEF InStep
<1>1. Typed /\ 0 \in Members /\ Workers = Threads \ {0} /\ Members \subseteq Threads
      /\ \A w \in Threads : w \in Members <=> Active(w)
  BY MemberFacts DEF PoolInv
<1>2. CASE Running
  <2>1. u \in Members
    BY <1>2, NextBarriers
  <2>2. CASE \A v \in Members : NextBarrier(v)' = NextBarrier(v)
    BY <1>1, <1>2, <2>1, <2>2 DEF PoolInv, InStep
  <2>3. CASE \E t \in Threads : InnerSteps(t) /\ Passing(t)
    BY <1>1, <2>1, <2>3, PassBarrier
  <2> QED
    BY <1>2, <2>2, <2>3, NextBarriers
<1>3. CASE ~Running
  <2>1. KickGraph
    <3>1. ~NextOfThreads
      BY <1>3, RunningSteps DEF NextOfThreads, EndGraph
    <3>2. ~NextOfWorkers
      BY <1>1, <1>3, SeekFacts DEF NextOfWorkers, SeekStep, Running, Alone, Others
    <3>3. NextOfCaller
      BY <3>1, <3>2, NextCases
    <3>4. ~KickWake
      BY <1>3 DEF KickWake, Running, At
    <3>5. GraphCompute \/ KickThreads \/ PauseOrResume \/ FreeStop \/ FreeWake \/ Join =>
            state'[0].pc \in {"kickThreads", "kickGraph", "idle", "freeWake", "join", "freed"}
      BY <1>1, CallerFacts DEF Wakes
    <3>6. state'[0].pc \notin {"kickThreads", "kickGraph", "idle", "freeWake", "join", "freed"}
      BY DEF Running, GraphSteps
    <3> QED
      BY <3>3, <3>4, <3>5, <3>6 DEF NextOfCaller
  <2>2. /\ Alone(0) /\ state'[0].pc = "kickWake" /\ state[0].pc = "kickGraph"
        /\ nGraph' = nGraph + 1 /\ nGraph \in Nat /\ Members' = Members
    BY <1>1, <2>1, CallerFacts DEF KickGraph, At, Members, Typed
  <2>3. NotBegun(0)'
    BY <2>2 DEF NotBegun
  <2>4. u # 0 => NotBegun(u)'
    <3>1. SUFFICES ASSUME u # 0 PROVE NotBegun(u)'
      OBVIOUS
    <3>2. state[u].lastGraph = nGraph /\ state'[u] = state[u]
      BY <1>1, <1>3, <2>2, <3>1 DEF PoolInv, WorkerInv, Placed, Alone, Others
    <3> QED
      BY <2>2, <3>1, <3>2 DEF NotBegun
  <2> QED
    BY <2>3, <2>4 DEF NextBarrier
<1> QED
  BY <1>2, <1>3

-----------------------------------------------------------------------------
LEMMA PoolInit == Init => PoolInv
<1> SUFFICES ASSUME Init PROVE PoolInv
  OBVIOUS
<1>1. Typed /\ 0 \in Threads /\ Workers = Threads \ {0}
  BY TypedInit, MemberFacts
<1>2. /\ state[0].pc = "idle" /\ cgraph = 0 /\ nGraph = 0 /\ mutex = FALSE
      /\ nBarrier = 0 /\ nThreadsCur = NThreads
      /\ \A w \in Workers : state[w] = Fresh
  <2>1. state = [t \in Threads |-> IF t = 0 THEN [Fresh EXCEPT !.pc = "idle"] ELSE Fresh]
    BY DEF Init
  <2>2. [Fresh EXCEPT !.pc = "idle"].pc = "idle"
    BY DEF Fresh
  <2> QED
    BY <1>1, <2>1, <2>2 DEF Init
<1>3. /\ Fresh.pc = "top" /\ Fresh.graph = 0 /\ Fresh.lastGraph = 0
  BY DEF Fresh
<1>4. ~Running
  BY <1>2 DEF Running, GraphSteps
<1>5. CallerInv
  BY <1>2 DEF CallerInv, ThreadsOf, At, GraphSteps
<1>6. WorkerInv
  BY <1>2, <1>3, <1>4 DEF WorkerInv, Placed, At, WorkerSteps
<1>7. GraphInv /\ ReadyInv /\ AbortInv /\ InStep
  BY <1>2, <1>4 DEF GraphInv, ReadyInv, AbortInv, InStep
<1>8. BarrierInv
  <2>1. \A t \in Threads : state[t].pc \in {"idle", "top"}
    BY <1>1, <1>2, <1>3
  <2>2. Arrived = {} /\ Last = {}
    BY <2>1 DEF Arrived, Last, At
  <2>3. Cardinality({}) = 0
    BY FS_EmptySet
  <2> QED
    BY <1>2, <2>1, <2>2, <2>3 DEF BarrierInv, At
<1> QED
  BY <1>1, <1>5, <1>6, <1>7, <1>8 DEF PoolInv

LEMMA PoolStutter ==
  ASSUME PoolInv, UNCHANGED vars
  PROVE  PoolInv'
<1>1. /\ UNCHANGED <<plan, cgraph, mutex, nGraph, nThreadsCur, nBarrier, nBarrierPassed,
                     currentChunk, stop, pause, abort, ec, ret, state>>
  BY DEF vars, barrier, switches, outcome
<1>2. /\ Members' = Members /\ Nodes' = Nodes /\ (Running' <=> Running)
      /\ Arrived' = Arrived /\ Last' = Last
      /\ \A t, pc : At(t, pc)' <=> At(t, pc)
      /\ \A t : (InGraph(t)' <=> InGraph(t)) /\ (Released(t)' <=> Released(t))
                /\ (Active(t)' <=> Active(t))
  BY <1>1 DEF Members, Nodes, Running, Arrived, Last, At, InGraph, Released, Active
<1>3. Typed'
  BY <1>1 DEF PoolInv, Typed
<1>4. CallerInv'
  BY <1>1 DEF PoolInv, CallerInv, ThreadsOf, At
<1>5. WorkerInv'
  BY <1>1, <1>2 DEF PoolInv, WorkerInv, Placed
<1>6. GraphInv'
  BY <1>1, <1>2 DEF PoolInv, GraphInv, Locals
<1>7. ReadyInv' /\ AbortInv'
  BY <1>1, <1>2 DEF PoolInv, ReadyInv, AbortInv
<1>8. BarrierInv'
  BY <1>1, <1>2 DEF PoolInv, BarrierInv
<1>9. InStep'
  <2>1. \A u \in Threads : NextBarrier(u)' = NextBarrier(u)
    BY <1>1, NextKept
  <2>2. Members \subseteq Threads /\ 0 \in Threads
    BY MemberFacts DEF PoolInv
  <2> QED
    BY <1>2, <2>1, <2>2 DEF PoolInv, InStep
<1> QED
  BY <1>3, <1>4, <1>5, <1>6, <1>7, <1>8, <1>9 DEF PoolInv

LEMMA PoolStep ==
  ASSUME PoolInv, NeverGrows, [Next]_vars
  PROVE  PoolInv'
<1>1. CASE Next
  BY <1>1, TypedStep, CallerStep, WorkerStep, GraphStep, AbortStep, BarrierStep, InStepStep
     DEF PoolInv
<1>2. CASE UNCHANGED vars
  BY <1>2, PoolStutter
<1> QED
  BY <1>1, <1>2

(* The threads of a pool stay in step, whatever the order in which they run. *)
THEOREM PoolInvariant ==
  ASSUME NeverGrows
  PROVE  Spec => []PoolInv
<1>1. Init => PoolInv
  BY PoolInit
<1>2. PoolInv /\ [Next]_vars => PoolInv'
  BY PoolStep
<1> QED
  BY <1>1, <1>2, PTL DEF Spec

-----------------------------------------------------------------------------
(* The ranges of the local variables that no step of the pool depends on.   *)
RangeInv ==
  /\ state[0].lastGraph = 0 /\ state[0].graph <= cgraph
  /\ \A t \in Threads : state[t].nth <= NThreads

LEMMA RangeStep ==
  ASSUME PoolInv, RangeInv, [Next]_vars
  PROVE  RangeInv'
<1>1. /\ Typed /\ 0 \in Threads /\ Workers = Threads \ {0}
      /\ NThreads \in Nat /\ nThreadsCur \in 0..NThreads /\ cgraph \in Nat
  BY MemberFacts, ZeroIsThread, PlansAssumption DEF PoolInv, Typed
<1>2. ASSUME NEW t \in Threads, Alone(t), cgraph' = cgraph,
             state'[t].nth \in {state[t].nth, nThreadsCur, 0},
             state'[t].lastGraph = state[t].lastGraph \/ t # 0,
             state'[t].graph \in {state[t].graph, cgraph, 0}
      PROVE  RangeInv'
  <2>1. \A u \in Threads : state'[u].nth <= NThreads
    BY <1>1, <1>2 DEF Alone, Others, RangeInv
  <2>2. state'[0].lastGraph = 0 /\ state'[0].graph <= cgraph'
    BY <1>1, <1>2 DEF Alone, Others, RangeInv
  <2> QED
    BY <2>1, <2>2 DEF RangeInv
<1>3. ASSUME NEW pc0, Wakes(pc0), cgraph' = cgraph
      PROVE  RangeInv'
  BY <1>1, <1>3 DEF Wakes, KeepsGraph, RangeInv
<1>4. CASE NextOfCaller
  <2>1. CASE GraphCompute
    <3>1. Alone(0) /\ KeepsGraph(0) /\ cgraph' = cgraph + 1
      BY <1>1, <2>1, CallerFacts DEF GraphCompute
    <3>2. \A u \in Threads : state'[u].nth <= NThreads
      BY <3>1 DEF Alone, Others, KeepsGraph, RangeInv
    <3>3. state[0].graph \in Nat
      BY <1>1 DEF Typed, ThreadState
    <3> QED
      BY <1>1, <3>1, <3>2, <3>3 DEF KeepsGraph, RangeInv
  <2>2. CASE KickThreads \/ KickGraph \/ FreeStop \/ Join
    BY <1>1, <1>2, <2>2, CallerFacts
       DEF KickThreads, KickGraph, FreeStop, Join, KeepsGraph
  <2>3. CASE KickWake \/ PauseOrResume \/ FreeWake
    BY <1>1, <1>3, <2>3, CallerFacts DEF KickWake, PauseOrResume, FreeWake
  <2> QED
    BY <1>4, <2>1, <2>2, <2>3 DEF NextOfCaller
<1>5. ASSUME NEW w \in Workers, SeekStep(w) PROVE RangeInv'
  BY <1>1, <1>2, <1>5 DEF SeekStep, ReadsOnly
<1>6. ASSUME NEW t \in Threads, BeginGraph(t) PROVE RangeInv'
  BY <1>1, <1>2, <1>6, BeginGraphFacts DEF BeginGraph, pool
<1>7. ASSUME NEW t \in Threads, InnerSteps(t) PROVE RangeInv'
  BY <1>1, <1>2, <1>7, InnerFacts DEF Inner, KeepsGraph, pool
<1>8. ASSUME NEW t \in Threads, EndGraph(t) PROVE RangeInv'
  BY <1>1, <1>2, <1>8, EndGraphFacts DEF EndGraph, pool
<1>9. CASE UNCHANGED vars
  BY <1>9 DEF vars, RangeInv
<1> QED
  BY <1>1, <1>4, <1>5, <1>6, <1>7, <1>8, <1>9, NextCases, SeekFacts
     DEF NextOfThreads, NextOfWorkers

LEMMA RangeInit == Init => RangeInv
<1> SUFFICES ASSUME Init PROVE RangeInv
  OBVIOUS
<1>1. 0 \in Threads /\ NThreads \in Nat \ {0}
  BY ZeroIsThread
<1>2. state = [t \in Threads |-> IF t = 0 THEN [Fresh EXCEPT !.pc = "idle"] ELSE Fresh]
  BY DEF Init
<1>3. /\ [Fresh EXCEPT !.pc = "idle"].nth = 0 /\ Fresh.nth = 0
      /\ [Fresh EXCEPT !.pc = "idle"].graph = 0
      /\ [Fresh EXCEPT !.pc = "idle"].lastGraph = 0
  BY DEF Fresh
<1>4. state[0].lastGraph = 0 /\ state[0].graph = 0 /\ \A t \in Threads : state[t].nth = 0
  BY <1>1, <1>2, <1>3
<1> QED
  BY <1>1, <1>4 DEF Init, RangeInv

LEMMA PoolIsTyped ==
  ASSUME PoolInv, RangeInv
  PROVE  TypeOK
<1>1. /\ Typed /\ CallerInv /\ WorkerInv /\ BarrierInv
      /\ NThreads \in Nat /\ 0 \in Threads /\ Workers = Threads \ {0}
      /\ nThreadsCur \in 1..NThreads
  BY MemberFacts, ZeroIsThread DEF PoolInv, Typed
<1>2. Len(plan) \in Nat /\ cgraph \in 0..Len(plan) /\ nGraph \in Nat
  BY <1>1, PlansAssumption DEF Typed
<1>3. nGraph \in 0..Len(plan) /\ nGraph <= cgraph
  BY <1>1, <1>2 DEF CallerInv
<1>4. nBarrier \in 0..NThreads
  <2>1. CASE Last = {}
    <3>1. Cardinality(Arrived) \in Nat /\ Cardinality(Arrived) <= nThreadsCur
      BY ArrivedFacts, FS_Subset
    <3> QED
      BY <1>1, <2>1, <3>1 DEF BarrierInv
  <2>2. CASE Last # {}
    BY <1>1, <2>2 DEF BarrierInv
  <2> QED
    BY <2>1, <2>2
<1>5. ASSUME NEW t \in Threads
      PROVE  /\ state[t].pc \in GraphSteps \union
                               IF t = 0 THEN CallerSteps ELSE WorkerSteps
             /\ state[t].lastGraph \in 0..nGraph
             /\ state[t].nth \in 0..NThreads
             /\ state[t].graph \in 0..cgraph
  <2>1. /\ state[t].lastGraph \in Nat /\ state[t].nth \in Nat /\ state[t].graph \in Nat
    BY <1>1 DEF Typed, ThreadState
  <2>2. state[t].nth \in 0..NThreads
    BY <1>1, <2>1 DEF RangeInv
  <2>3. CASE t = 0
    BY <1>1, <1>2, <2>1, <2>2, <2>3 DEF RangeInv, Typed
  <2>4. CASE t # 0
    <3>1. Placed(t) /\ state[t].pc \in WorkerSteps \union GraphSteps
      BY <1>1, <2>4 DEF WorkerInv, Typed
    <3>2. state[t].lastGraph <= nGraph /\ state[t].graph <= state[t].lastGraph
      BY <3>1 DEF Placed
    <3> QED
      BY <1>2, <1>3, <2>1, <2>2, <2>4, <3>1, <3>2
  <2> QED
    BY <2>3, <2>4
<1> QED
  BY <1>1, <1>2, <1>3, <1>4, <1>5 DEF Typed, TypeOK

(* Every variable keeps its type; the barrier never counts more threads     *)
(* than the pool has.                                                       *)
THEOREM TypeCorrect ==
  ASSUME NeverGrows
  PROVE  Spec => []TypeOK
<1>1. Init => PoolInv /\ RangeInv
  BY PoolInit, RangeInit
<1>2. PoolInv /\ RangeInv /\ [Next]_vars => PoolInv' /\ RangeInv'
  BY PoolStep, RangeStep
<1>3. PoolInv /\ RangeInv => TypeOK
  BY PoolIsTyped
<1> QED
  BY <1>1, <1>2, <1>3, PTL DEF Spec

(* "No worker threads should be accessing the parameters below at this      *)
(* stage" (ggml-cpu.c:3066): between two graphs all secondary threads are   *)
(* out of the last one, or have passed its last barrier.                    *)
THEOREM WorkersStayOutside ==
  ASSUME NeverGrows
  PROVE  Spec => []WorkersOutsideBetweenGraphs
<1>1. Init => PoolInv
  BY PoolInit
<1>2. PoolInv /\ [Next]_vars => PoolInv'
  BY PoolStep
<1>3. PoolInv => WorkersOutsideBetweenGraphs
  <2> SUFFICES ASSUME PoolInv, At(0, "idle"), NEW w \in Workers
               PROVE  state[w].pc \in WorkerSteps \/ Released(w)
    BY DEF WorkersOutsideBetweenGraphs
  <2>1. ~Running
    BY DEF Running, At, GraphSteps
  <2> QED
    BY <2>1 DEF PoolInv, WorkerInv, Placed
<1> QED
  BY <1>1, <1>2, <1>3, PTL DEF Spec

-----------------------------------------------------------------------------
(* The work of a graph.                                                     *)
LEMMA NChunksFacts ==
  ASSUME NEW size \in Nat, NEW nth \in Nat \ {0}
  PROVE  /\ NChunks(size, nth) \in Nat \ {0} /\ NChunks(size, nth) >= nth
         /\ NChunks(0, nth) = nth
BY DEF NChunks

LEMMA JobFacts ==
  ASSUME PoolInv, Running, JobTyped
  PROVE  /\ DOMAIN times = 1..Len(Nodes) /\ DOMAIN converted = 1..Len(Nodes)
         /\ \A n \in 1..Len(Nodes) :
              /\ Nodes[n] \in Nat
              /\ NChunks(Nodes[n], nThreadsCur) \in Nat \ {0}
              /\ NChunks(Nodes[n], nThreadsCur) >= nThreadsCur
              /\ DOMAIN times[n] = 0..NChunks(Nodes[n], nThreadsCur) - 1
              /\ times[n] \in [0..NChunks(Nodes[n], nThreadsCur) - 1 -> Nat]
         /\ NChunks(0, nThreadsCur) = nThreadsCur
<1>1. /\ cgraph > 0 /\ nThreadsCur = ThreadsOf(cgraph) /\ nThreadsCur \in Nat \ {0}
      /\ Nodes \in Seq(Nat) /\ Len(Nodes) \in Nat
  BY RunningFacts, MemberFacts DEF PoolInv
<1> DEFINE job == JobOf(plan[cgraph], ThreadsOf(cgraph))
<1>2. /\ DOMAIN times = DOMAIN job /\ DOMAIN converted = DOMAIN job
      /\ \A n \in DOMAIN job : times[n] \in [job[n] -> Nat]
  BY <1>1 DEF JobTyped
<1>3. DOMAIN Nodes = 1..Len(Nodes)
  BY <1>1
<1>4. job = [n \in 1..Len(Nodes) |-> 0..NChunks(Nodes[n], nThreadsCur) - 1]
  BY <1>1, <1>3 DEF JobOf, Nodes
<1> HIDE DEF job
<1>5. \A n \in 1..Len(Nodes) : Nodes[n] \in Nat
  BY <1>1
<1>6. DOMAIN times = 1..Len(Nodes) /\ DOMAIN converted = 1..Len(Nodes)
  BY <1>2, <1>4
<1>7. ASSUME NEW n \in 1..Len(Nodes)
      PROVE  times[n] \in [0..NChunks(Nodes[n], nThreadsCur) - 1 -> Nat]
  BY <1>2, <1>4
<1>8. \A n \in 1..Len(Nodes) : DOMAIN times[n] = 0..NChunks(Nodes[n], nThreadsCur) - 1
  BY <1>7
<1> QED
  BY <1>1, <1>5, <1>6, <1>7, <1>8, NChunksFacts

(* A chunk is computed: nothing else changes.                               *)
LEMMA ComputedFacts ==
  ASSUME PoolInv, Running, JobTyped, NEW n \in 1..Len(Nodes), NEW c \in DOMAIN times[n],
         times' = [times EXCEPT ![n][c] = @ + 1]
  PROVE  /\ DOMAIN times' = DOMAIN times
         /\ \A m \in DOMAIN times \ {n} : times'[m] = times[m]
         /\ DOMAIN times'[n] = DOMAIN times[n]
         /\ times'[n][c] = times[n][c] + 1
         /\ \A d \in DOMAIN times[n] \ {c} : times'[n][d] = times[n][d]
         /\ times'[n] \in [DOMAIN times[n] -> Nat]
<1>1. DOMAIN times = 1..Len(Nodes) /\ times[n] \in [DOMAIN times[n] -> Nat]
  BY JobFacts
<1> DEFINE row == [times[n] EXCEPT ![c] = times[n][c] + 1]
<1>2. times' = [times EXCEPT ![n] = row]
  OBVIOUS
<1>3. /\ DOMAIN row = DOMAIN times[n] /\ row[c] = times[n][c] + 1
      /\ \A d \in DOMAIN times[n] \ {c} : row[d] = times[n][d]
      /\ row \in [DOMAIN times[n] -> Nat]
  BY <1>1
<1> HIDE DEF row
<1>4. times'[n] = row /\ DOMAIN times' = DOMAIN times
      /\ \A m \in DOMAIN times \ {n} : times'[m] = times[m]
  BY <1>1, <1>2
<1> QED
  BY <1>3, <1>4

LEMMA JobKept ==
  ASSUME PoolInv, Running, JobTyped, UNCHANGED <<plan, cgraph>>,
         DOMAIN times' = DOMAIN times, DOMAIN converted' = DOMAIN converted,
         \A n \in DOMAIN times : times'[n] \in [DOMAIN times[n] -> Nat]
  PROVE  JobTyped'
<1> DEFINE job == JobOf(plan[cgraph], ThreadsOf(cgraph))
<1>1. /\ DOMAIN times = DOMAIN job /\ DOMAIN converted = DOMAIN job
      /\ \A n \in DOMAIN job : times[n] \in [job[n] -> Nat]
  BY RunningFacts DEF JobTyped
<1>2. job' = job
  BY DEF ThreadsOf, JobOf
<1> HIDE DEF job
<1>3. \A n \in DOMAIN job : times'[n] \in [job[n] -> Nat]
  BY <1>1
<1>4. /\ DOMAIN times' = DOMAIN job' /\ DOMAIN converted' = DOMAIN job'
      /\ \A n \in DOMAIN job' : times'[n] \in [job'[n] -> Nat]
  BY <1>1, <1>2, <1>3
<1> QED
  BY <1>4 DEF JobTyped, job

LEMMA JobSame ==
  ASSUME JobTyped, UNCHANGED <<plan, cgraph, times, converted>>
  PROVE  JobTyped'
BY DEF JobTyped, JobOf, ThreadsOf

-----------------------------------------------------------------------------
(* The barrier that all threads of the graph come to next.                  *)
Proper(k, back) ==
  /\ k \in 0..Len(Nodes) /\ back \in {"loop", "chunk", "leave", "top"}
  /\ back = "loop"  => k \in 1..Len(Nodes) - 1
  /\ back = "chunk" => k < Len(Nodes) /\ Nodes[k + 1] > 0
  /\ back = "leave" => k = Len(Nodes) \/ (abort = k /\ k > 0)
  /\ back = "top"   => k = 0
Goal(k, back) == NextBarrier(0) = <<k, back>> /\ Proper(k, back)

LEMMA LoopGoalOf ==
  ASSUME Nodes \in Seq(Nat), NEW n \in 0..Len(Nodes), abort = n => n > 0
  PROVE  \E k \in 0..Len(Nodes), back \in {"loop", "chunk", "leave"} :
           /\ LoopBarrier(n) = <<k, back>>
           /\ back = "loop"  => k \in 1..Len(Nodes) - 1 /\ k = n + 1 /\ Nodes[k] = 0
           /\ back = "chunk" => k < Len(Nodes) /\ Nodes[k + 1] > 0 /\ k = n
           /\ back = "leave" => \/ k = n /\ (n = Len(Nodes) \/ (abort = n /\ n > 0))
                                \/ k = n + 1 /\ k = Len(Nodes) /\ Nodes[k] = 0
<1>1. Len(Nodes) \in Nat /\ n \in Nat
  OBVIOUS
<1>2. abort = n => n > 0
  OBVIOUS
<1>3. CASE n = Len(Nodes) \/ abort = n
  BY <1>1, <1>2, <1>3 DEF LoopBarrier
<1>4. CASE ~(n = Len(Nodes) \/ abort = n)
  <2>1. n + 1 \in 1..Len(Nodes) /\ Nodes[n + 1] \in Nat
    BY <1>1, <1>4
  <2>2. CASE Nodes[n + 1] > 0
    BY <1>1, <1>4, <2>1, <2>2 DEF LoopBarrier
  <2>3. CASE ~(Nodes[n + 1] > 0)
    <3>1. LoopBarrier(n) = AfterNodeBarrier(n) /\ Nodes[n + 1] = 0
      BY <1>4, <2>1, <2>3 DEF LoopBarrier
    <3>2. CASE n + 1 < Len(Nodes)
      BY <1>1, <2>1, <3>1, <3>2 DEF AfterNodeBarrier
    <3>3. CASE ~(n + 1 < Len(Nodes))
      BY <1>1, <2>1, <3>1, <3>3 DEF AfterNodeBarrier
    <3> QED
      BY <3>2, <3>3
  <2> QED
    BY <2>2, <2>3
<1> QED
  BY <1>3, <1>4

LEMMA LoopGoal ==
  ASSUME PoolInv, Running, NEW n \in 0..Len(Nodes)
  PROVE  \E k \in 0..Len(Nodes), back \in {"loop", "chunk", "leave"} :
           /\ LoopBarrier(n) = <<k, back>>
           /\ back = "loop"  => k \in 1..Len(Nodes) - 1 /\ k = n + 1 /\ Nodes[k] = 0
           /\ back = "chunk" => k < Len(Nodes) /\ Nodes[k + 1] > 0 /\ k = n
           /\ back = "leave" => \/ k = n /\ (n = Len(Nodes) \/ (abort = n /\ n > 0))
                                \/ k = n + 1 /\ k = Len(Nodes) /\ Nodes[k] = 0
<1>1. Len(Nodes) \in Nat /\ Nodes \in Seq(Nat)
  BY RunningFacts
<1>2. abort = n => n > 0
  BY <1>1 DEF PoolInv, AbortInv
<1> QED
  BY <1>1, <1>2, LoopGoalOf

LEMMA AfterNodeGoal ==
  ASSUME PoolInv, Running, NEW n \in 0..Len(Nodes) - 1
  PROVE  \E back \in {"loop", "leave"} :
           /\ AfterNodeBarrier(n) = <<n + 1, back>>
           /\ Proper(n + 1, back) /\ Computing(n + 1, back)
<1>1. Len(Nodes) \in Nat /\ n + 1 \in 1..Len(Nodes)
  BY RunningFacts
<1>2. CASE n + 1 < Len(Nodes)
  BY <1>1, <1>2 DEF AfterNodeBarrier, Proper, Computing
<1>3. CASE ~(n + 1 < Len(Nodes))
  BY <1>1, <1>3 DEF AfterNodeBarrier, Proper, Computing
<1> QED
  BY <1>2, <1>3

LEMMA BarrierGoal ==
  ASSUME PoolInv, Running, NEW n \in 0..Len(Nodes), NEW pc \in {"loop", "chunk", "leave"},
         pc = "chunk" => n < Len(Nodes)
  PROVE  \E k, back : BarrierFrom(pc, n) = <<k, back>> /\ Proper(k, back)
<1>1. Len(Nodes) \in Nat
  BY RunningFacts
<1>2. CASE pc = "loop"
  <2>1. BarrierFrom(pc, n) = LoopBarrier(n)
    BY <1>2 DEF BarrierFrom
  <2>2. PICK k \in 0..Len(Nodes), back \in {"loop", "chunk", "leave"} :
           /\ LoopBarrier(n) = <<k, back>>
           /\ back = "loop"  => k \in 1..Len(Nodes) - 1
           /\ back = "chunk" => k < Len(Nodes) /\ Nodes[k + 1] > 0
           /\ back = "leave" => \/ k = n /\ (n = Len(Nodes) \/ (abort = n /\ n > 0))
                                \/ k = Len(Nodes)
    BY LoopGoal
  <2>3. Proper(k, back)
    BY <2>2 DEF Proper
  <2> QED
    BY <2>1, <2>2, <2>3
<1>3. CASE pc = "chunk"
  <2>1. BarrierFrom(pc, n) = AfterNodeBarrier(n) /\ n \in 0..Len(Nodes) - 1
    BY <1>1, <1>3 DEF BarrierFrom
  <2> QED
    BY <2>1, AfterNodeGoal
<1>4. CASE pc = "leave"
  <2>1. BarrierFrom(pc, n) = <<0, "top">>
    BY <1>4 DEF BarrierFrom, End
  <2>2. Proper(0, "top")
    BY <1>1 DEF Proper
  <2> QED
    BY <2>1, <2>2
<1> QED
  BY <1>2, <1>3, <1>4

LEMMA GoalExists ==
  ASSUME PoolInv, Running
  PROVE  \E k, back : Goal(k, back)
<1>1. Len(Nodes) \in Nat /\ 0 \in Threads /\ 0 \in Members /\ Typed /\ Nodes \in Seq(Nat)
  BY RunningFacts, MemberFacts DEF PoolInv
<1>2. SUFFICES \E k, back : NextBarrier(0) = <<k, back>> /\ Proper(k, back)
  BY DEF Goal
<1>3. CASE NotBegun(0)
  <2>1. NextBarrier(0) = BarrierFrom("loop", 0)
    BY <1>3 DEF NextBarrier, BarrierFrom
  <2> QED
    BY <1>1, <2>1, BarrierGoal
<1>4. CASE ~NotBegun(0)
  <2>1. state[0].pc \in GraphSteps \ {"graph"} /\ InGraph(0)
    BY <1>4 DEF NotBegun, Running, InGraph, PoolInv, CallerInv
  <2>2. Locals(0) /\ state[0].node \in 0..Len(Nodes)
    BY <1>1, <2>1 DEF PoolInv, GraphInv, Locals, Typed, ThreadState
  <2> SUFFICES ASSUME NEW n \in 0..Len(Nodes), n = state[0].node
               PROVE  \E k, back : NextBarrier(0) = <<k, back>> /\ Proper(k, back)
    BY <2>2
  <2>3. CASE \/ state[0].pc \in {"enter", "add", "reset", "pass"}
             \/ At(0, "spin") /\ state[0].passed = nBarrierPassed
    <3>1. NextBarrier(0) = <<n, state[0].back>>
      BY <1>1, <1>4, <2>1, <2>3, NextOfInGraph
    <3>2. abort = n => n > 0
      BY <1>1 DEF PoolInv, AbortInv
    <3>3. state[0].pc \in {"enter", "add", "reset", "pass", "spin"}
      BY <2>3 DEF At
    <3>4. Proper(n, state[0].back)
      BY <1>1, <2>2, <3>2, <3>3 DEF Proper, Locals
    <3> QED
      BY <3>1, <3>4
  <2>4. CASE At(0, "spin") /\ state[0].passed # nBarrierPassed
    <3>1. NextBarrier(0) = BarrierFrom(state[0].back, n)
      BY <1>1, <1>4, <2>1, <2>4, NextOfInGraph
    <3>2. state[0].back \in {"loop", "chunk", "leave"} /\ (state[0].back = "chunk" => n < Len(Nodes))
      BY <2>2, <2>4 DEF Locals, At
    <3> QED
      BY <3>1, <3>2, BarrierGoal
  <2>5. CASE At(0, "loop")
    <3>1. NextBarrier(0) = BarrierFrom("loop", n)
      BY <1>1, <1>4, <2>1, <2>5, NextOfInGraph DEF BarrierFrom
    <3> QED
      BY <3>1, BarrierGoal
  <2>6. CASE At(0, "forward") /\ Nodes[n + 1] > 0
    <3>1. NextBarrier(0) = <<n, "chunk">> /\ n < Len(Nodes)
      BY <1>1, <1>4, <2>1, <2>2, <2>6, NextOfInGraph DEF Locals, At
    <3> QED
      BY <2>6, <3>1 DEF Proper
  <2>7. CASE \/ At(0, "forward") /\ ~(Nodes[n + 1] > 0)
             \/ state[0].pc \in {"chunk", "fetch", "nodeDone"}
    <3>1. NextBarrier(0) = AfterNodeBarrier(n) /\ n < Len(Nodes)
      BY <1>1, <1>4, <2>1, <2>2, <2>7, NextOfInGraph DEF Locals, At
    <3> QED
      BY <1>1, <3>1, AfterNodeGoal
  <2>8. CASE At(0, "leave")
    <3>1. NextBarrier(0) = BarrierFrom("leave", n)
      BY <1>1, <1>4, <2>1, <2>8, NextOfInGraph DEF BarrierFrom
    <3> QED
      BY <3>1, BarrierGoal
  <2> QED
    BY <2>1, <2>3, <2>4, <2>5, <2>6, <2>7, <2>8 DEF GraphSteps, At
<1> QED
  BY <1>3, <1>4

(* The progress of a graph is that of the barrier its threads come to.      *)
LEMMA ProgressOf ==
  ASSUME NEW k, NEW back, NextBarrier(0) = <<k, back>>
  PROVE  Progress(NextBarrier(0)[1], NextBarrier(0)[2]) <=> Progress(k, back)
OBVIOUS

LEMMA ProgressNext ==
  ASSUME NEW k, NEW back, NextBarrier(0)' = <<k, back>>
  PROVE  Progress(NextBarrier(0)[1], NextBarrier(0)[2])' <=> Progress(k, back)'
<1>1. NextBarrier(0)'[1] = k /\ NextBarrier(0)'[2] = back
  OBVIOUS
<1> QED
  BY <1>1

-----------------------------------------------------------------------------
(* What the progress of a graph depends on in the state of a thread.        *)
SameStanding(t, k, back) ==
  /\ back = "chunk" => (Waiting(t)' <=> Waiting(t))
  /\ Computing(k, back) =>
       /\ PartDone(t, k)' <=> PartDone(t, k)
       /\ Holding(t)' <=> Holding(t)
       /\ Holding(t) => state'[t].chunk = state[t].chunk
       /\ At(t, "fetch")' => At(t, "fetch")

LEMMA ProgressKept ==
  ASSUME NEW k, NEW back, Progress(k, back), 0 \in Members,
         UNCHANGED <<times, converted, currentChunk, nThreadsCur>>,
         Nodes' = Nodes, Members' = Members,
         \A t \in Members : SameStanding(t, k, back),
         back = "top" => state'[0].node = state[0].node
  PROVE  Progress(k, back)'
<1>1. (Computing(k, back)' <=> Computing(k, back))
      /\ \A n : (Complete(n)' <=> Complete(n)) /\ (Clean(n)' <=> Clean(n))
  BY DEF Computing, Complete, Clean
<1>2. back = "top" => Finished(state[0].node)'
  <2> SUFFICES ASSUME back = "top", NEW n, n = state[0].node PROVE Finished(state[0].node)'
    OBVIOUS
  <2>1. Finished(n)
    BY DEF Progress
  <2>2. Finished(n)'
    BY <1>1, <2>1 DEF Finished
  <2> QED
    BY <2>2
<1>3. back # "top" => InOrder(k, back)'
  BY <1>1 DEF Progress, InOrder
<1>4. back = "chunk" => Converting(k)'
  <2> SUFFICES ASSUME back = "chunk" PROVE Converting(k)'
    OBVIOUS
  <2>1. Converting(k) /\ \A t \in Members : Waiting(t)' <=> Waiting(t)
    BY DEF Progress, SameStanding
  <2> QED
    BY <2>1 DEF Converting
<1>5. Computing(k, back)' /\ Nodes'[k] = 0 => Shared(k)'
  <2> SUFFICES ASSUME Computing(k, back)', Nodes'[k] = 0 PROVE Shared(k)'
    OBVIOUS
  <2>1. Shared(k) /\ \A t \in Members : PartDone(t, k)' <=> PartDone(t, k)
    BY <1>1 DEF Progress, SameStanding
  <2> QED
    BY <2>1 DEF Shared
<1>6. Computing(k, back)' /\ Nodes'[k] > 0 => Chunked(k)'
  <2> SUFFICES ASSUME Computing(k, back)', Nodes'[k] > 0 PROVE Chunked(k)'
    OBVIOUS
  <2>1. /\ Chunked(k)
        /\ \A t \in Members : /\ PartDone(t, k)' <=> PartDone(t, k)
                              /\ Holding(t)' <=> Holding(t)
                              /\ Holding(t) => state'[t].chunk = state[t].chunk
                              /\ At(t, "fetch")' => At(t, "fetch")
    BY <1>1 DEF Progress, SameStanding
  <2>2. \A c : NotHeld(c)' <=> NotHeld(c)
    BY <2>1 DEF NotHeld
  <2>3. converted'[k] = Members' /\ currentChunk' >= nThreadsCur'
    BY <2>1 DEF Chunked
  <2>4. \A t \in Members' : Holding(t)' => state'[t].chunk < currentChunk'
    BY <2>1 DEF Chunked
  <2>5. \A t, u \in Members' :
          Holding(t)' /\ Holding(u)' /\ state'[t].chunk = state'[u].chunk => t = u
    BY <2>1 DEF Chunked
  <2>6. \A c \in DOMAIN times'[k] :
          times'[k][c] = IF c < currentChunk' /\ NotHeld(c)' THEN 1 ELSE 0
    BY <2>1, <2>2 DEF Chunked
  <2>7. \A t \in Members' :
          /\ PartDone(t, k)' => currentChunk' >= NChunks(Nodes[k], nThreadsCur)'
          /\ At(t, "fetch")' => nThreadsCur' < NChunks(Nodes[k], nThreadsCur)'
    BY <2>1 DEF Chunked
  <2> QED
    BY <2>3, <2>4, <2>5, <2>6, <2>7 DEF Chunked
<1> QED
  BY <1>2, <1>3, <1>4, <1>5, <1>6 DEF Progress

(* A thread that does not step.                                             *)
LEMMA StandingKept ==
  ASSUME NEW u, NEW k, NEW back, state'[u] = state[u],
         UNCHANGED <<cgraph, nBarrierPassed>>
  PROVE  SameStanding(u, k, back)
BY DEF SameStanding, Waiting, PartDone, Holding, InBarrier, InGraph, At

(* A thread that has not begun the graph, or has left it.                   *)
LEMMA StandingOutside ==
  ASSUME NEW u, NEW k, NEW back, ~InGraph(u), ~InGraph(u)', state'[u].pc # "fetch"
  PROVE  SameStanding(u, k, back)
BY DEF SameStanding, Waiting, PartDone, Holding, At

(* A thread of the graph has begun it.                                      *)
LEMMA BegunFacts ==
  ASSUME PoolInv, Running, NEW t \in Threads, InGraph(t)
  PROVE  ~NotBegun(t)
<1>1. Typed /\ Workers = Threads \ {0} /\ nGraph = cgraph
  BY MemberFacts, RunningFacts DEF PoolInv
<1>2. CASE t = 0
  BY <1>2 DEF InGraph, NotBegun, GraphSteps
<1>3. CASE t # 0
  <2>1. state[t].graph <= state[t].lastGraph /\ state[t].lastGraph <= nGraph
    BY <1>1, <1>3 DEF PoolInv, WorkerInv, Placed
  <2>2. state[t].lastGraph \in Nat /\ state[t].graph = cgraph /\ cgraph \in Nat
    BY <1>1 DEF Typed, ThreadState, InGraph
  <2>3. state[t].lastGraph = nGraph
    BY <1>1, <2>1, <2>2
  <2> QED
    BY <1>3, <2>3 DEF NotBegun, InGraph, At, GraphSteps
<1> QED
  BY <1>2, <1>3

(* The steps between two pieces of work.                                    *)
QuietSteps(t) ==
  \/ LoopTest(t) \/ NodeDone(t)
  \/ BarrierEnter(t) /\ nThreadsCur # 1
  \/ BarrierAdd(t) \/ BarrierReset(t) \/ BarrierSpin(t)

(* What a step keeps that does no work, as seen from the node's barrier.    *)
LEMMA StandingFrom ==
  ASSUME NEW t, NEW k \in Nat, NEW back,
         InGraph(t)' <=> InGraph(t),
         back = "chunk" => (InBarrier(t)' <=> InBarrier(t)),
         Computing(k, back) =>
           (At(t, "nodeDone")' \/ state'[t].node = k)
             <=> (At(t, "nodeDone") \/ state[t].node = k),
         Computing(k, back) =>
           /\ (At(t, "chunk")' \/ (At(t, "spin")' /\ ~InBarrier(t)' /\ state'[t].back = "chunk"))
                <=> (At(t, "chunk") \/ (At(t, "spin") /\ ~InBarrier(t) /\ state[t].back = "chunk"))
           /\ At(t, "chunk") \/ (At(t, "spin") /\ ~InBarrier(t) /\ state[t].back = "chunk")
                => state'[t].chunk = state[t].chunk
           /\ ~At(t, "fetch")'
  PROVE  SameStanding(t, k, back)
BY DEF SameStanding, Waiting, PartDone, Holding

LEMMA StandingOfQuiet ==
  ASSUME PoolInv, Running, NEW k, NEW back, Goal(k, back), NEW t \in Members, QuietSteps(t)
  PROVE  /\ SameStanding(t, k, back) /\ UNCHANGED <<times, converted, currentChunk>>
         /\ back = "top" => state'[t].node = state[t].node
<1>1. InnerSteps(t) /\ t \in Threads /\ 0 \in Members
  BY MemberFacts DEF PoolInv, QuietSteps, InnerSteps
<1>2. /\ Inner(t) /\ Typed /\ UNCHANGED <<plan, cgraph, nGraph, nThreadsCur>>
      /\ InGraph(t)' <=> InGraph(t)
  BY <1>1, InnerKeepsGraph
<1>3. UNCHANGED <<times, converted, currentChunk>>
  BY DEF QuietSteps, LoopTest, NodeDone, BarrierEnter, BarrierAdd, BarrierReset,
         BarrierSpin, history
<1>4. k \in Nat /\ Len(Nodes) \in Nat
  BY RunningFacts DEF Goal, Proper
<1>5. CASE Released(t)
  <2>1. BarrierSpin(t) /\ state[t].pc = "spin" /\ state[t].back = "leave"
    BY <1>2, <1>5
       DEF Inner, QuietSteps, Released, LoopTest, NodeDone, BarrierEnter, BarrierAdd,
           BarrierReset, At
  <2>2. state[t].passed # nBarrierPassed /\ state'[t].pc = "leave" /\ KeepsPlace(t)
    BY <1>1, <1>2, <1>5, <2>1, LeaveFacts DEF Inner, BarrierSpin
  <2>3. SameStanding(t, k, back)
    BY <1>2, <1>4, <2>1, <2>2, StandingFrom DEF InBarrier, At, KeepsPlace
  <2> QED
    BY <1>3, <2>2, <2>3 DEF KeepsPlace
<1>6. CASE ~Released(t)
  <2>1. /\ InGraph(t) /\ ~NotBegun(t) /\ NodesOf(t) = Nodes /\ Locals(t)
        /\ state[t].node \in 0..Len(Nodes)
    BY <1>1, <1>2, <1>6, InGraphFacts DEF Inner, PoolInv, GraphInv
  <2>2. NextBarrier(t) = <<k, back>>
    BY <1>1 DEF Goal, PoolInv, InStep
  <2>3. CASE LoopTest(t)
    <3>1. state[t].pc = "loop" /\ NextBarrier(t) = LoopBarrier(state[t].node)
          /\ KeepsNode(t) /\ abort' = abort
      BY <1>1, <1>2, <2>1, <2>3, LoopTestFacts, NextOfInGraph DEF LoopTest, At, outcome
    <3>2. CASE state'[t].pc = "forward"
      <4>1. ~InBarrier(t) /\ ~InBarrier(t)'
        BY <3>1, <3>2 DEF InBarrier, At
      <4>2. SameStanding(t, k, back)
        BY <1>2, <1>4, <3>1, <3>2, <4>1, StandingFrom DEF At, KeepsNode
      <4> QED
        BY <1>3, <3>1, <4>2 DEF KeepsNode
    <3>3. CASE /\ state[t].node = Len(Nodes) \/ abort = state[t].node
               /\ state'[t].pc = "enter" /\ state'[t].back = "leave"
      <4>1. back = "leave"
        BY <2>2, <3>1, <3>3 DEF LoopBarrier
      <4>2. SameStanding(t, k, back)
        BY <1>2, <1>4, <3>1, <3>3, <4>1, StandingFrom DEF At, KeepsNode
      <4> QED
        BY <1>3, <3>1, <4>2 DEF KeepsNode
    <3> QED
      BY <1>1, <1>2, <2>1, <2>3, <3>2, <3>3, LoopTestFacts
  <2>4. CASE NodeDone(t)
    <3>1. state[t].pc = "nodeDone" /\ NextBarrier(t) = AfterNodeBarrier(state[t].node)
      BY <1>1, <2>1, <2>4, NextOfInGraph DEF NodeDone, At
    <3>2. k = state[t].node + 1 /\ back \in {"loop", "leave"}
      BY <2>2, <3>1 DEF AfterNodeBarrier
    <3>3. state'[t].node = k /\ state'[t].pc \in {"enter", "loop"}
      BY <1>1, <1>2, <2>4, <3>2, NodeDoneFacts
    <3>4. SameStanding(t, k, back)
      BY <1>2, <1>4, <3>1, <3>2, <3>3, StandingFrom DEF At
    <3> QED
      BY <1>3, <3>2, <3>4
  <2>5. ASSUME state[t].pc \in {"enter", "add", "reset"}, KeepsPlace(t),
               \/ state'[t].pc \in {"add", "reset", "pass"}
               \/ state'[t].pc = "spin" /\ state'[t].passed = nBarrierPassed'
        PROVE  SameStanding(t, k, back) /\ state'[t].node = state[t].node
    <3>1. InBarrier(t) /\ InBarrier(t)'
      BY <2>5 DEF InBarrier, At
    <3>2. /\ state[t].pc \notin {"nodeDone", "chunk", "fetch"}
          /\ state'[t].pc \notin {"nodeDone", "chunk", "fetch"}
      BY <2>5
    <3>3. state'[t].node = state[t].node
      BY <2>5 DEF KeepsPlace
    <3>4. SameStanding(t, k, back)
      BY <1>2, <1>4, <3>1, <3>2, <3>3, StandingFrom DEF At
    <3> QED
      BY <3>3, <3>4
  <2>6. CASE BarrierEnter(t) /\ nThreadsCur # 1
    BY <1>1, <1>2, <1>3, <2>5, <2>6, BarrierEnterFacts DEF BarrierEnter, At
  <2>7. CASE BarrierAdd(t)
    <3>1. state[t].pc = "add" /\ state[t].passed = nBarrierPassed
          /\ nBarrierPassed' = nBarrierPassed
      BY <1>1, <2>7 DEF BarrierAdd, At, PoolInv, BarrierInv
    <3> QED
      BY <1>1, <1>2, <1>3, <2>5, <2>7, <3>1, BarrierAddFacts DEF KeepsBarrier
  <2>8. CASE BarrierReset(t)
    BY <1>1, <1>2, <1>3, <2>5, <2>8, BarrierResetFacts DEF BarrierReset, At
  <2>9. CASE BarrierSpin(t)
    <3>1. /\ state[t].pc = "spin" /\ state[t].passed # nBarrierPassed
          /\ KeepsPlace(t) /\ state'[t].pc = state[t].back
          /\ state[t].back \in {"loop", "chunk", "leave"}
      BY <1>1, <1>2, <2>9, LeaveFacts, BackFacts DEF BarrierSpin, At
    <3>2. ~InBarrier(t) /\ ~InBarrier(t)'
      BY <3>1 DEF InBarrier, At
    <3>3. SameStanding(t, k, back)
      BY <1>2, <1>4, <3>1, <3>2, StandingFrom DEF At, KeepsPlace
    <3> QED
      BY <1>3, <3>1, <3>3 DEF KeepsPlace
  <2> QED
    BY <2>3, <2>4, <2>6, <2>7, <2>8, <2>9 DEF QuietSteps
<1> QED
  BY <1>5, <1>6

LEMMA StandingOfBegin ==
  ASSUME PoolInv, Running, NEW k, NEW back, Goal(k, back), NEW t \in Members, BeginGraph(t)
  PROVE  SameStanding(t, k, back) /\ back # "top"
<1>1. t \in Threads /\ Typed /\ 0 \in Threads
  BY MemberFacts DEF PoolInv
<1>2. /\ state[t].pc = "graph" /\ state'[t].pc = "loop" /\ state'[t].node = 0
  BY <1>1, BeginGraphFacts DEF BeginGraph, At
<1>3. ~InGraph(t) /\ NotBegun(t)
  BY <1>2 DEF InGraph, NotBegun, At
<1>4. NextBarrier(t) = <<k, back>>
  BY DEF Goal, PoolInv, InStep
<1>5. LoopBarrier(0) = <<k, back>>
  BY <1>3, <1>4 DEF NextBarrier
<1>6. back # "top" /\ (Computing(k, back) => k # 0)
  BY <1>5, NotEnd DEF Goal, Proper, Computing
<1>7. ~Waiting(t) /\ ~Waiting(t)' /\ ~Holding(t) /\ ~Holding(t)' /\ ~At(t, "fetch")'
  BY <1>2, <1>3 DEF Waiting, Holding, InBarrier, At
<1>8. Computing(k, back) => ~PartDone(t, k) /\ ~PartDone(t, k)'
  BY <1>2, <1>3, <1>6 DEF PartDone, At
<1> QED
  BY <1>6, <1>7, <1>8 DEF SameStanding

LEMMA StandingOfEnd ==
  ASSUME PoolInv, Running, NEW k, NEW back, Goal(k, back), NEW t \in Members, EndGraph(t), t # 0
  PROVE  SameStanding(t, k, back)
<1>1. t \in Threads /\ Typed /\ 0 \in Threads
  BY MemberFacts DEF PoolInv
<1>2. state[t].pc = "leave" /\ state'[t].pc = "top"
  BY <1>1, EndGraphFacts DEF EndGraph, At
<1>3. ~InGraph(t)' /\ ~Waiting(t) /\ ~Holding(t)
  BY <1>2 DEF InGraph, Waiting, Holding, InBarrier, At, GraphSteps
<1>4. Computing(k, back) => ~PartDone(t, k)
  <2> SUFFICES ASSUME InGraph(t) PROVE ~Computing(k, back)
    BY DEF PartDone
  <2>1. NextBarrier(t) = End
    BY <1>1, <1>2, BegunFacts, NextOfInGraph DEF At
  <2>2. NextBarrier(t) = <<k, back>>
    BY DEF Goal, PoolInv, InStep
  <2> QED
    BY <2>1, <2>2 DEF End, Computing
<1>5. ~Waiting(t)' /\ ~Holding(t)' /\ ~PartDone(t, k)' /\ ~At(t, "fetch")'
  BY <1>2, <1>3 DEF Waiting, Holding, PartDone, At
<1> QED
  BY <1>3, <1>4, <1>5 DEF SameStanding

LEMMA StandingOfSeek ==
  ASSUME NEW k, NEW back, NEW w \in Workers, SeekStep(w)
  PROVE  SameStanding(w, k, back)
<1>1. state[w].pc \in WorkerSteps /\ state'[w].pc \in WorkerSteps \union {"graph"}
  BY DEF SeekStep, WorkerSteps
<1>2. ~InGraph(w) /\ ~InGraph(w)' /\ state'[w].pc # "fetch"
  BY <1>1 DEF InGraph, WorkerSteps, GraphSteps
<1> QED
  BY <1>2, StandingOutside

LEMMA StandingOfWake ==
  ASSUME PoolInv, KickWake, NEW k, NEW back, NEW u \in Members
  PROVE  SameStanding(u, k, back)
<1>1. Typed /\ u \in Threads
  BY MemberFacts DEF PoolInv
<1>2. /\ Wakes("graph") /\ state[0].pc = "kickWake" /\ UNCHANGED <<cgraph, nBarrierPassed>>
  BY <1>1, CallerFacts DEF KickWake, At, barrier
<1>3. CASE u = 0
  <2>1. ~InGraph(0) /\ ~InGraph(0)' /\ state'[0].pc # "fetch"
    BY <1>2 DEF InGraph, Wakes, GraphSteps
  <2> QED
    BY <1>3, <2>1, StandingOutside
<1>4. CASE u # 0
  <2>1. KeepsGraph(u) /\ KeepsPlace(u) /\ KeepsBarrier(u)
        /\ state'[u].pc = IF state[u].pc = "pauseWait" THEN "top"
                          ELSE IF state[u].pc = "wait" THEN "lock" ELSE state[u].pc
    BY <1>1, <1>2, <1>4, AwakeFacts DEF Wakes, Typed
  <2>2. CASE state[u].pc \in {"pauseWait", "wait"}
    <3>1. ~InGraph(u) /\ ~InGraph(u)' /\ state'[u].pc # "fetch"
      BY <2>1, <2>2 DEF InGraph, GraphSteps
    <3> QED
      BY <3>1, StandingOutside
  <2>3. CASE state[u].pc \notin {"pauseWait", "wait"}
    <3>1. /\ state'[u].pc = state[u].pc /\ state'[u].node = state[u].node
          /\ state'[u].back = state[u].back /\ state'[u].chunk = state[u].chunk
          /\ state'[u].graph = state[u].graph /\ state'[u].passed = state[u].passed
      BY <2>1, <2>3 DEF KeepsPlace, KeepsGraph, KeepsBarrier
    <3>2. /\ InGraph(u)' <=> InGraph(u)
          /\ InBarrier(u)' <=> InBarrier(u)
          /\ \A pc : At(u, pc)' <=> At(u, pc)
      BY <1>2, <3>1 DEF InGraph, InBarrier, At
    <3> QED
      BY <3>1, <3>2 DEF SameStanding, Waiting, PartDone, Holding
  <2> QED
    BY <2>2, <2>3
<1> QED
  BY <1>3, <1>4

(* The steps that do no work keep the progress of the graph.                *)
Quiet ==
  \/ KickWake
  \/ \E w \in Workers : SeekStep(w)
  \/ \E t \in Threads : BeginGraph(t) \/ QuietSteps(t) \/ (EndGraph(t) /\ t # 0)

LEMMA QuietProgress ==
  ASSUME PoolInv, Running, Quiet, NEW k, NEW back, Goal(k, back), Progress(k, back)
  PROVE  Progress(k, back)' /\ UNCHANGED <<plan, cgraph, times, converted>>
<1>1. Typed /\ 0 \in Members /\ Members \subseteq Threads /\ Workers = Threads \ {0}
      /\ 0 \in Threads
  BY MemberFacts DEF PoolInv
<1>2. CASE KickWake
  <2>1. /\ UNCHANGED <<plan, cgraph, times, converted, currentChunk, nThreadsCur>>
        /\ Nodes' = Nodes /\ Members' = Members
    BY <1>2 DEF KickWake, history, Nodes, Members
  <2>2. state'[0].node = state[0].node
    BY <1>1, <1>2, CallerFacts DEF Wakes, KeepsPlace
  <2>3. \A t \in Members : SameStanding(t, k, back)
    BY <1>2, StandingOfWake
  <2> QED
    BY <1>1, <2>1, <2>2, <2>3, ProgressKept
<1>3. ASSUME NEW t \in Threads, Alone(t), t \in Members => SameStanding(t, k, back),
             UNCHANGED <<plan, cgraph, times, converted, currentChunk, nThreadsCur>>,
             t = 0 /\ back = "top" => state'[0].node = state[0].node,
             UNCHANGED nBarrierPassed
      PROVE  Progress(k, back)' /\ UNCHANGED <<plan, cgraph, times, converted>>
  <2>1. Nodes' = Nodes /\ Members' = Members
    BY <1>3 DEF Nodes, Members
  <2>2. \A u \in Members : SameStanding(u, k, back)
    BY <1>1, <1>3, StandingKept DEF Alone, Others
  <2>3. back = "top" => state'[0].node = state[0].node
    BY <1>1, <1>3 DEF Alone, Others
  <2> QED
    BY <1>1, <1>3, <2>1, <2>2, <2>3, ProgressKept
<1>4. ASSUME NEW w \in Workers, SeekStep(w)
      PROVE  Progress(k, back)' /\ UNCHANGED <<plan, cgraph, times, converted>>
  <2>1. SameStanding(w, k, back) /\ w \in Threads /\ w # 0
    BY <1>1, <1>4, StandingOfSeek
  <2>2. Alone(w) /\ UNCHANGED <<plan, cgraph, times, converted, currentChunk, nThreadsCur,
                                nBarrierPassed>>
    BY <1>4 DEF SeekStep, ReadsOnly, history, barrier
  <2> QED
    BY <1>3, <2>1, <2>2
<1>5. ASSUME NEW t \in Threads, BeginGraph(t)
      PROVE  Progress(k, back)' /\ UNCHANGED <<plan, cgraph, times, converted>>
  <2>1. Alone(t) /\ UNCHANGED <<plan, cgraph, times, converted, currentChunk, nThreadsCur,
                                nBarrierPassed>>
    BY <1>1, <1>5, BeginGraphFacts DEF BeginGraph, pool, history, barrier
  <2>2. t \in Members => SameStanding(t, k, back) /\ back # "top"
    BY <1>5, StandingOfBegin
  <2> QED
    BY <1>1, <1>3, <2>1, <2>2
<1>6. ASSUME NEW t \in Threads, QuietSteps(t)
      PROVE  Progress(k, back)' /\ UNCHANGED <<plan, cgraph, times, converted>>
  <2>1. InnerSteps(t) /\ nBarrierPassed' = nBarrierPassed
        /\ UNCHANGED <<times, converted, currentChunk>>
    BY <1>6 DEF QuietSteps, InnerSteps, LoopTest, NodeDone, BarrierEnter, BarrierAdd,
                BarrierReset, BarrierSpin, barrier, history
  <2>2. Alone(t) /\ UNCHANGED <<plan, cgraph, nThreadsCur>>
    BY <2>1, InnerFacts DEF Inner, pool
  <2>3. t \in Members => /\ SameStanding(t, k, back)
                         /\ back = "top" => state'[t].node = state[t].node
    BY <1>6, StandingOfQuiet
  <2> QED
    BY <1>1, <1>3, <2>1, <2>2, <2>3
<1>7. ASSUME NEW t \in Threads, EndGraph(t), t # 0
      PROVE  Progress(k, back)' /\ UNCHANGED <<plan, cgraph, times, converted>>
  <2>1. Alone(t) /\ UNCHANGED <<plan, cgraph, times, converted, currentChunk, nThreadsCur,
                                nBarrierPassed>>
    BY <1>1, <1>7, EndGraphFacts DEF EndGraph, pool, history, barrier
  <2>2. t \in Members => SameStanding(t, k, back)
    BY <1>7, StandingOfEnd
  <2> QED
    BY <1>3, <1>7, <2>1, <2>2
<1> QED
  BY <1>2, <1>4, <1>5, <1>6, <1>7 DEF Quiet

-----------------------------------------------------------------------------
(* The steps that do the work of a node.                                    *)
LEMMA NodeFacts ==
  ASSUME PoolInv, Running, NEW k, NEW back, Goal(k, back), NEW t \in Members, InnerSteps(t),
         \/ At(t, "forward") /\ NodesOf(t)[state[t].node + 1] = 0
         \/ state[t].pc \in {"chunk", "fetch"}
  PROVE  /\ t \in Threads /\ InGraph(t) /\ InGraph(t)' /\ NodesOf(t) = Nodes
         /\ state[t].node + 1 = k /\ state[t].node # k /\ state[t].nth = nThreadsCur
         /\ k \in 1..Len(Nodes) /\ Computing(k, back) /\ back \in {"loop", "leave"}
         /\ state[t].pc \in {"chunk", "fetch"} => Nodes[k] > 0
<1>1. Typed /\ t \in Threads /\ ~Released(t) /\ state[t].pc \in GraphSteps \ {"graph"}
  BY MemberFacts DEF PoolInv, Released, At, GraphSteps
<1>2. /\ InGraph(t) /\ ~NotBegun(t) /\ NodesOf(t) = Nodes /\ Locals(t)
      /\ state[t].node \in 0..Len(Nodes) /\ InGraph(t)' /\ Len(Nodes) \in Nat
      /\ state[t].nth = nThreadsCur
  BY <1>1, InGraphFacts, InnerKeepsGraph, RunningFacts DEF PoolInv, GraphInv
<1>3. /\ state[t].node < Len(Nodes)
      /\ state[t].pc \in {"chunk", "fetch"} => Nodes[state[t].node + 1] > 0
  BY <1>2 DEF Locals, At
<1>4. NextBarrier(t) = AfterNodeBarrier(state[t].node)
  BY <1>1, <1>2, NextOfInGraph
<1>5. NextBarrier(t) = <<k, back>>
  BY MemberFacts DEF Goal, PoolInv, InStep
<1>6. PICK b \in {"loop", "leave"} :
        /\ AfterNodeBarrier(state[t].node) = <<state[t].node + 1, b>>
        /\ Computing(state[t].node + 1, b)
  BY <1>2, <1>3, AfterNodeGoal
<1>7. k = state[t].node + 1 /\ back = b
  <2>1. <<k, back>> = <<state[t].node + 1, b>>
    BY <1>4, <1>5, <1>6
  <2> QED
    BY <2>1
<1> QED
  BY <1>1, <1>2, <1>3, <1>6, <1>7

LEMMA InOrderKept ==
  ASSUME PoolInv, Running, JobTyped, NEW k \in 1..Len(Nodes), NEW back, InOrder(k, back),
         Computing(k, back), Nodes' = Nodes, UNCHANGED converted,
         \A m \in 1..Len(Nodes) \ {k} : times'[m] = times[m]
  PROVE  InOrder(k, back)'
<1>1. Len(Nodes) \in Nat
  BY RunningFacts
<1>2. \A m \in 1..Len(Nodes) \ {k} : (Complete(m)' <=> Complete(m)) /\ (Clean(m)' <=> Clean(m))
  BY DEF Complete, Clean
<1>3. Computing(k, back)'
  BY DEF Computing
<1>4. (\A n \in 1..k - 1 : Complete(n)') /\ (\A n \in k + 1..Len(Nodes) : Clean(n)')
  BY <1>1, <1>2 DEF InOrder
<1> QED
  BY <1>3, <1>4 DEF InOrder

(* A share of a node.                                                       *)
LEMMA ShareProgress ==
  ASSUME PoolInv, Running, JobTyped, NEW k, NEW back, Goal(k, back), Progress(k, back),
         NEW t \in Members, ForwardShare(t)
  PROVE  Progress(k, back)' /\ JobTyped'
<1>1. InnerSteps(t) /\ t \in Threads /\ At(t, "forward") /\ NodesOf(t)[state[t].node + 1] = 0
  BY MemberFacts DEF InnerSteps, ForwardShare, PoolInv
<1>2. /\ InGraph(t) /\ InGraph(t)' /\ NodesOf(t) = Nodes
      /\ state[t].node + 1 = k /\ state[t].node # k
      /\ k \in 1..Len(Nodes) /\ Computing(k, back) /\ back \in {"loop", "leave"}
  BY <1>1, NodeFacts
<1>3. /\ Inner(t) /\ Typed /\ UNCHANGED <<plan, cgraph, nGraph, nThreadsCur>>
      /\ Nodes' = Nodes /\ Members' = Members
  BY <1>1, InnerKeepsGraph
<1>4. Nodes[k] = 0 /\ times' = [times EXCEPT ![k][t] = @ + 1] /\ UNCHANGED converted
      /\ nBarrierPassed' = nBarrierPassed
  BY <1>1, <1>2 DEF ForwardShare, Computed, barrier
<1>5. DOMAIN times[k] = Members /\ DOMAIN converted = 1..Len(Nodes)
      /\ DOMAIN times = 1..Len(Nodes)
      /\ \A n \in 1..Len(Nodes) : times[n] \in [DOMAIN times[n] -> Nat]
  <2>1. DOMAIN times[k] = 0..NChunks(Nodes[k], nThreadsCur) - 1
        /\ NChunks(0, nThreadsCur) = nThreadsCur
    BY <1>2, JobFacts
  <2>2. DOMAIN times[k] = Members
    BY <1>4, <2>1 DEF Members
  <2> QED
    BY <2>2, JobFacts
<1>6. /\ DOMAIN times' = DOMAIN times
      /\ \A m \in DOMAIN times \ {k} : times'[m] = times[m]
      /\ times'[k][t] = times[k][t] + 1
      /\ \A d \in DOMAIN times[k] \ {t} : times'[k][d] = times[k][d]
      /\ times'[k] \in [DOMAIN times[k] -> Nat]
  BY <1>2, <1>4, <1>5, ComputedFacts
<1>7. JobTyped'
  <2>1. \A n \in DOMAIN times : times'[n] \in [DOMAIN times[n] -> Nat]
    BY <1>5, <1>6
  <2> QED
    BY <1>3, <1>4, <1>6, <2>1, JobKept
<1>8. InOrder(k, back) /\ Shared(k)
  BY <1>2, <1>4 DEF Progress
<1>9. InOrder(k, back)'
  BY <1>2, <1>3, <1>4, <1>5, <1>6, <1>8, InOrderKept
<1>10. ~PartDone(t, k) /\ PartDone(t, k)'
  <2>1. state'[t].pc = "nodeDone"
    BY <1>1, <1>3, ForwardShareFacts
  <2> QED
    BY <1>1, <1>2, <2>1 DEF PartDone, At
<1>11. \A u \in Members \ {t} : PartDone(u, k)' <=> PartDone(u, k)
  <2>1. \A u \in Members \ {t} : state'[u] = state[u]
    BY <1>3, MemberFacts DEF Inner, Alone, Others
  <2> QED
    BY <1>3, <2>1 DEF PartDone, InGraph, At
<1>12. Shared(k)'
  <2>1. times[k][t] = 0
    BY <1>8, <1>10 DEF Shared
  <2>2. times'[k][t] = 1
    BY <1>6, <2>1
  <2>3. \A u \in Members \ {t} : times'[k][u] = IF PartDone(u, k)' THEN 1 ELSE 0
    BY <1>5, <1>6, <1>8, <1>11 DEF Shared
  <2>4. \A u \in Members : times'[k][u] = IF PartDone(u, k)' THEN 1 ELSE 0
    BY <1>10, <2>2, <2>3
  <2> QED
    BY <1>3, <2>4 DEF Shared
<1> QED
  BY <1>2, <1>3, <1>4, <1>7, <1>9, <1>12 DEF Progress

(* A share of the conversion, before the barrier of a matrix product.       *)
LEMMA ConvertProgress ==
  ASSUME PoolInv, Running, JobTyped, NEW k, NEW back, Goal(k, back), Progress(k, back),
         NEW t \in Members, ForwardConvert(t)
  PROVE  Progress(k, back)' /\ JobTyped'
<1>0. converted' = [converted EXCEPT ![state[t].node + 1] = @ \union {t}]
  BY DEF ForwardConvert
<1>1. InnerSteps(t) /\ t \in Threads /\ state[t].pc = "forward" /\ UNCHANGED times
      /\ nBarrierPassed' = nBarrierPassed
  <2>1. InnerSteps(t) /\ t \in Threads
    BY MemberFacts DEF InnerSteps, PoolInv
  <2> QED
    BY <2>1 DEF ForwardConvert, At, barrier
<1>16. NodesOf(t)[state[t].node + 1] > 0
  BY DEF ForwardConvert
<1>15. /\ t = 0 => currentChunk' = state[t].nth
       /\ t # 0 => currentChunk' = currentChunk
  BY DEF ForwardConvert, FirstFreeChunk
<1>2. /\ Inner(t) /\ Typed /\ UNCHANGED <<plan, cgraph, nGraph, nThreadsCur>>
      /\ InGraph(t)' <=> InGraph(t)
      /\ Nodes' = Nodes /\ Members' = Members
  BY <1>1, InnerKeepsGraph
<1>3. /\ InGraph(t) /\ ~NotBegun(t) /\ NodesOf(t) = Nodes /\ Locals(t)
      /\ state[t].nth = nThreadsCur
  <2>1. ~Released(t) /\ state[t].pc \in GraphSteps \ {"graph"}
    BY <1>1 DEF Released, At, GraphSteps
  <2> QED
    BY <1>1, <2>1, InGraphFacts DEF PoolInv, GraphInv
<1>4. k = state[t].node /\ back = "chunk"
  <2>1. NextBarrier(t) = <<state[t].node, "chunk">>
    BY <1>1, <1>3, <1>16, NextOfInGraph DEF At
  <2>2. NextBarrier(t) = <<k, back>>
    BY DEF Goal, PoolInv, InStep
  <2> QED
    BY <2>1, <2>2
<1>5. k \in Nat /\ k + 1 \in 1..Len(Nodes) /\ Len(Nodes) \in Nat
  BY <1>4, RunningFacts DEF Goal, Proper
<1>6. DOMAIN times = 1..Len(Nodes) /\ DOMAIN converted = 1..Len(Nodes)
      /\ \A n \in 1..Len(Nodes) : times[n] \in [DOMAIN times[n] -> Nat]
  BY JobFacts
<1>7. /\ DOMAIN converted' = DOMAIN converted
      /\ converted'[k + 1] = converted[k + 1] \union {t}
      /\ \A n \in 1..Len(Nodes) \ {k + 1} : converted'[n] = converted[n]
  BY <1>0, <1>4, <1>5, <1>6
<1>8. JobTyped'
  BY <1>1, <1>2, <1>6, <1>7, JobKept
<1>9. InOrder(k, back) /\ Converting(k) /\ ~Computing(k, back) /\ ~Computing(k, back)'
  BY <1>4 DEF Progress, Computing
<1>10. InOrder(k, back)'
  <2>1. \A n : (Complete(n)' <=> Complete(n)) /\ (Clean(n)' <=> Clean(n))
    BY <1>1 DEF Complete, Clean
  <2>2. \A n \in k + 2..Len(Nodes) : converted'[n] = {}
    BY <1>5, <1>7, <1>9 DEF InOrder
  <2> QED
    BY <1>2, <1>4, <1>9, <2>1, <2>2 DEF InOrder
<1>11. state'[t].pc = "enter"
  BY <1>1, <1>2, ForwardConvertFacts
<1>12. ~Waiting(t) /\ Waiting(t)'
  BY <1>1, <1>2, <1>3, <1>11 DEF Waiting, InBarrier, At
<1>13. \A u \in Members \ {t} : Waiting(u)' <=> Waiting(u)
  <2> SUFFICES ASSUME NEW u \in Members \ {t} PROVE Waiting(u)' <=> Waiting(u)
    OBVIOUS
  <2>1. state'[u] = state[u]
    BY <1>2, MemberFacts DEF Inner, Alone, Others
  <2>2. SameStanding(u, k, back)
    BY <1>1, <1>2, <2>1, StandingKept
  <2> QED
    BY <1>4, <2>2 DEF SameStanding
<1>14. Converting(k)'
  <2>1. converted[k + 1] = {u \in Members : Waiting(u)} /\ (Waiting(0) => currentChunk = nThreadsCur)
    BY <1>9 DEF Converting
  <2>2. converted'[k + 1] = {u \in Members : Waiting(u)'}
    BY <1>7, <1>12, <1>13, <2>1
  <2>3. Waiting(0)' => currentChunk' = nThreadsCur
    <3>1. 0 \in Members
      BY <1>2, MemberFacts
    <3>2. CASE t = 0
      BY <1>3, <1>15, <3>2
    <3>3. CASE t # 0
      BY <1>13, <1>15, <2>1, <3>1, <3>3
    <3> QED
      BY <3>2, <3>3
  <2> QED
    BY <1>2, <2>2, <2>3 DEF Converting
<1> QED
  BY <1>4, <1>8, <1>9, <1>10, <1>14 DEF Progress

(* What a step leaves to the other threads of the graph.                    *)
LEMMA OthersStand ==
  ASSUME PoolInv, NEW t \in Threads, Inner(t), UNCHANGED nBarrierPassed,
         NEW k, NEW u \in Members, u # t
  PROVE  /\ PartDone(u, k)' <=> PartDone(u, k)
         /\ Holding(u)' <=> Holding(u)
         /\ state'[u].chunk = state[u].chunk
         /\ At(u, "fetch")' <=> At(u, "fetch")
<1>1. state'[u] = state[u] /\ UNCHANGED cgraph
  BY MemberFacts DEF Inner, Alone, Others, PoolInv, pool
<1> QED
  BY <1>1 DEF PartDone, Holding, InBarrier, InGraph, At

(* A thread takes the next chunk from the counter.                          *)
LEMMA FetchProgress ==
  ASSUME PoolInv, Running, JobTyped, NEW k, NEW back, Goal(k, back), Progress(k, back),
         NEW t \in Members, FetchChunk(t)
  PROVE  Progress(k, back)' /\ JobTyped'
<1>1. InnerSteps(t) /\ t \in Threads /\ state[t].pc = "fetch"
      /\ UNCHANGED <<times, converted, nBarrierPassed>> /\ currentChunk' = currentChunk + 1
  BY MemberFacts DEF InnerSteps, FetchChunk, PoolInv, At, history, barrier
<1>2. /\ InGraph(t) /\ InGraph(t)' /\ state[t].node # k
      /\ k \in 1..Len(Nodes) /\ Computing(k, back) /\ Nodes[k] > 0
      /\ back \in {"loop", "leave"}
  BY <1>1, NodeFacts
<1>3. /\ Inner(t) /\ Typed /\ UNCHANGED <<plan, cgraph, nGraph, nThreadsCur>>
      /\ Nodes' = Nodes /\ Members' = Members
  BY <1>1, InnerKeepsGraph
<1>4. currentChunk \in Nat /\ nThreadsCur \in Nat /\ NChunks(Nodes[k], nThreadsCur) \in Nat
      /\ \A u \in Members : state[u].chunk \in Nat
      /\ DOMAIN times[k] \subseteq Nat
  <2>1. currentChunk \in Nat /\ nThreadsCur \in Nat /\ \A u \in Members : state[u].chunk \in Nat
    BY <1>3, MemberFacts DEF Typed, ThreadState
  <2>2. NChunks(Nodes[k], nThreadsCur) \in Nat
        /\ DOMAIN times[k] = 0..NChunks(Nodes[k], nThreadsCur) - 1
    BY <1>2, JobFacts
  <2> QED
    BY <2>1, <2>2
<1>5. state'[t].chunk = currentChunk /\ state'[t].pc = "chunk" /\ state'[t].node = state[t].node
  BY <1>1, <1>3, FetchChunkFacts DEF KeepsNode
<1>6. ~Holding(t) /\ Holding(t)' /\ ~PartDone(t, k)' /\ ~At(t, "fetch")'
  BY <1>1, <1>2, <1>5 DEF Holding, PartDone, At
<1>7. \A u \in Members \ {t} : /\ PartDone(u, k)' <=> PartDone(u, k)
                               /\ Holding(u)' <=> Holding(u)
                               /\ state'[u].chunk = state[u].chunk
                               /\ At(u, "fetch")' <=> At(u, "fetch")
  BY <1>1, <1>3, OthersStand
<1>8. InOrder(k, back)'
  BY <1>1, <1>2, <1>3, InOrderKept DEF Progress
<1>9. Chunked(k)
  BY <1>2 DEF Progress
<1>10. converted'[k] = Members' /\ currentChunk' >= nThreadsCur'
  BY <1>1, <1>3, <1>4, <1>9 DEF Chunked
<1>11. \A u \in Members : Holding(u)' => state'[u].chunk < currentChunk'
  <2>1. \A u \in Members \ {t} : Holding(u)' => state'[u].chunk < currentChunk'
    BY <1>1, <1>4, <1>7, <1>9 DEF Chunked
  <2> QED
    BY <1>1, <1>4, <1>5, <2>1
<1>12. \A u, v \in Members :
         Holding(u)' /\ Holding(v)' /\ state'[u].chunk = state'[v].chunk => u = v
  <2>1. \A u \in Members \ {t} : Holding(u)' => state'[u].chunk # currentChunk
    BY <1>4, <1>7, <1>9 DEF Chunked
  <2>2. \A u, v \in Members \ {t} :
          Holding(u)' /\ Holding(v)' /\ state'[u].chunk = state'[v].chunk => u = v
    BY <1>7, <1>9 DEF Chunked
  <2> QED
    BY <1>5, <2>1, <2>2
<1>13. ASSUME NEW c \in DOMAIN times[k]
       PROVE  times[k][c] = IF c < currentChunk' /\ NotHeld(c)' THEN 1 ELSE 0
  <2>1. times[k][c] = (IF c < currentChunk /\ NotHeld(c) THEN 1 ELSE 0) /\ c \in Nat
    BY <1>4, <1>9 DEF Chunked
  <2>2. CASE c = currentChunk
    <3>1. ~NotHeld(c)'
      BY <1>3, <1>5, <1>6, <2>2 DEF NotHeld
    <3> QED
      BY <1>4, <2>1, <2>2, <3>1
  <2>3. CASE c # currentChunk
    <3>1. NotHeld(c)' <=> NotHeld(c)
      <4>1. \A u \in Members :
              (Holding(u)' /\ state'[u].chunk = c) <=> (Holding(u) /\ state[u].chunk = c)
        BY <1>5, <1>6, <1>7, <2>3
      <4> QED
        BY <1>3, <4>1 DEF NotHeld
    <3>2. c < currentChunk' <=> c < currentChunk
      BY <1>1, <1>4, <2>1, <2>3
    <3> QED
      BY <2>1, <3>1, <3>2
  <2> QED
    BY <2>2, <2>3
<1>14. ASSUME NEW u \in Members
       PROVE  /\ PartDone(u, k)' => currentChunk' >= NChunks(Nodes[k], nThreadsCur)
              /\ At(u, "fetch")' => nThreadsCur < NChunks(Nodes[k], nThreadsCur)
  <2>1. u # t => /\ PartDone(u, k)' => currentChunk >= NChunks(Nodes[k], nThreadsCur)
                 /\ At(u, "fetch")' => nThreadsCur < NChunks(Nodes[k], nThreadsCur)
    BY <1>7, <1>9 DEF Chunked
  <2> QED
    BY <1>1, <1>4, <1>6, <2>1
<1>15. Chunked(k)'
  <2>1. NChunks(Nodes[k], nThreadsCur)' = NChunks(Nodes[k], nThreadsCur)
    BY <1>3
  <2> QED
    BY <1>1, <1>3, <1>10, <1>11, <1>12, <1>13, <1>14, <2>1 DEF Chunked
<1>16. JobTyped'
  BY <1>1, <1>3, JobSame
<1> QED
  BY <1>2, <1>3, <1>8, <1>15, <1>16 DEF Progress

(* A thread computes the chunk that it holds, if the node has that chunk.   *)
LEMMA ChunkProgress ==
  ASSUME PoolInv, Running, JobTyped, NEW k, NEW back, Goal(k, back), Progress(k, back),
         NEW t \in Members, Chunk(t)
  PROVE  Progress(k, back)' /\ JobTyped'
<1>1. InnerSteps(t) /\ t \in Threads /\ state[t].pc = "chunk"
      /\ UNCHANGED <<converted, nBarrierPassed, currentChunk>>
  <2>1. InnerSteps(t) /\ t \in Threads
    BY MemberFacts DEF InnerSteps, PoolInv
  <2> QED
    BY <2>1 DEF Chunk, At, barrier
<1>2. /\ InGraph(t) /\ InGraph(t)' /\ state[t].node # k /\ state[t].node + 1 = k
      /\ state[t].nth = nThreadsCur /\ NodesOf(t) = Nodes
      /\ k \in 1..Len(Nodes) /\ Computing(k, back) /\ Nodes[k] > 0
      /\ back \in {"loop", "leave"}
  BY <1>1, NodeFacts
<1>3. /\ Inner(t) /\ Typed /\ UNCHANGED <<plan, cgraph, nGraph, nThreadsCur>>
      /\ Nodes' = Nodes /\ Members' = Members
  BY <1>1, InnerKeepsGraph
<1> DEFINE N == NChunks(Nodes[k], nThreadsCur)
           c == state[t].chunk
<1>4. currentChunk \in Nat /\ nThreadsCur \in Nat /\ N \in Nat
      /\ (\A u \in Members : state[u].chunk \in Nat)
      /\ DOMAIN times[k] = 0..N - 1
  <2>1. currentChunk \in Nat /\ nThreadsCur \in Nat /\ \A u \in Members : state[u].chunk \in Nat
    BY <1>3, MemberFacts DEF Typed, ThreadState
  <2>2. N \in Nat /\ DOMAIN times[k] = 0..N - 1
    BY <1>2, JobFacts
  <2> QED
    BY <2>1, <2>2
<1>5. ChunksOf(t) = N /\ N' = N
  BY <1>2, <1>3 DEF ChunksOf
<1>6. /\ DOMAIN times = 1..Len(Nodes) /\ DOMAIN converted = 1..Len(Nodes)
      /\ \A n \in 1..Len(Nodes) : times[n] \in [DOMAIN times[n] -> Nat]
  BY JobFacts
<1>7. Chunked(k) /\ InOrder(k, back)
  BY <1>2 DEF Progress
<1>8. Holding(t) /\ c < currentChunk /\ c \in Nat
  BY <1>1, <1>2, <1>4, <1>7 DEF Holding, At, Chunked
<1>9. \A u \in Members \ {t} : Holding(u) => state[u].chunk # c
  BY <1>7, <1>8 DEF Chunked
<1> HIDE DEF N
<1>10. \/ /\ c < N /\ times' = [times EXCEPT ![k][c] = @ + 1]
          /\ state'[t].pc = IF nThreadsCur >= N THEN "nodeDone" ELSE "fetch"
       \/ /\ c >= N /\ UNCHANGED times /\ state'[t].pc = "nodeDone"
  BY <1>1, <1>2, <1>3, <1>5, ChunkFacts DEF Computed
<1>11. ~Holding(t)'
  BY <1>10 DEF Holding, At
<1>12. \A u \in Members \ {t} : /\ PartDone(u, k)' <=> PartDone(u, k)
                                /\ Holding(u)' <=> Holding(u)
                                /\ state'[u].chunk = state[u].chunk
                                /\ At(u, "fetch")' <=> At(u, "fetch")
  BY <1>1, <1>3, OthersStand
<1>13. /\ DOMAIN times' = DOMAIN times
       /\ \A m \in DOMAIN times \ {k} : times'[m] = times[m]
       /\ DOMAIN times'[k] = DOMAIN times[k]
       /\ c \in DOMAIN times[k] => times'[k][c] = times[k][c] + 1
       /\ \A d \in DOMAIN times[k] \ {c} : times'[k][d] = times[k][d]
       /\ times'[k] \in [DOMAIN times[k] -> Nat]
  <2>1. CASE c < N /\ times' = [times EXCEPT ![k][c] = @ + 1]
    <3>1. c \in DOMAIN times[k]
      BY <1>4, <1>8, <2>1
    <3> HIDE DEF c
    <3> QED
      BY <1>2, <2>1, <3>1, ComputedFacts, ZenonT(30)
  <2>2. CASE c >= N /\ UNCHANGED times
    <3>1. c \notin DOMAIN times[k]
      BY <1>4, <1>8, <2>2
    <3> QED
      BY <1>2, <1>6, <2>2, <3>1
  <2> QED
    BY <1>10, <2>1, <2>2
<1>14. JobTyped'
  <2>1. \A n \in DOMAIN times : times'[n] \in [DOMAIN times[n] -> Nat]
    BY <1>6, <1>13
  <2> QED
    BY <1>1, <1>3, <1>13, <2>1, JobKept
<1>15. InOrder(k, back)'
  BY <1>1, <1>2, <1>3, <1>6, <1>7, <1>13, InOrderKept
<1>16. converted'[k] = Members' /\ currentChunk' >= nThreadsCur'
  BY <1>1, <1>3, <1>7 DEF Chunked
<1>17. \A u \in Members : Holding(u)' => state'[u].chunk < currentChunk'
  BY <1>1, <1>7, <1>11, <1>12 DEF Chunked
<1>18. \A u, v \in Members :
         Holding(u)' /\ Holding(v)' /\ state'[u].chunk = state'[v].chunk => u = v
  BY <1>7, <1>11, <1>12 DEF Chunked
<1>19. ASSUME NEW d \in DOMAIN times[k]
       PROVE  times'[k][d] = IF d < currentChunk /\ NotHeld(d)' THEN 1 ELSE 0
  <2>1. times[k][d] = (IF d < currentChunk /\ NotHeld(d) THEN 1 ELSE 0)
    BY <1>7 DEF Chunked
  <2>2. CASE d = c
    <3>1. ~NotHeld(d)
      BY <1>8, <2>2 DEF NotHeld
    <3>2. \A u \in Members : ~(Holding(u)' /\ state'[u].chunk = d)
      BY <1>9, <1>11, <1>12, <2>2
    <3>3. NotHeld(d)'
      BY <1>3, <3>2 DEF NotHeld
    <3>4. times[k][d] = 0 /\ d < currentChunk
      BY <1>8, <2>1, <2>2, <3>1
    <3>5. times'[k][d] = times[k][d] + 1
      BY <1>13, <2>2
    <3> QED
      BY <3>3, <3>4, <3>5
  <2>3. CASE d # c
    <3>1. \A u \in Members :
            (Holding(u)' /\ state'[u].chunk = d) <=> (Holding(u) /\ state[u].chunk = d)
      BY <1>11, <1>12, <2>3
    <3>2. NotHeld(d)' <=> NotHeld(d)
      BY <1>3, <3>1 DEF NotHeld
    <3> QED
      BY <1>13, <2>1, <2>3, <3>2
  <2> QED
    BY <2>2, <2>3
<1>20. ASSUME NEW u \in Members
       PROVE  /\ PartDone(u, k)' => currentChunk >= N
              /\ At(u, "fetch")' => nThreadsCur < N
  <2>1. CASE u # t
    BY <1>7, <1>12, <2>1 DEF Chunked, N
  <2>2. CASE u = t
    <3>1. currentChunk >= nThreadsCur
      BY <1>7 DEF Chunked
    <3>2. state'[t].pc = "nodeDone" => currentChunk >= N
      BY <1>4, <1>8, <1>10, <3>1
    <3>3. state'[t].pc = "fetch" => nThreadsCur < N
      BY <1>4, <1>10
    <3>4. PartDone(t, k)' => state'[t].pc = "nodeDone"
      <4>1. state'[t].node = state[t].node
        BY <1>1, <1>3, ChunkFacts DEF KeepsNode
      <4> QED
        BY <1>2, <4>1 DEF PartDone, At
    <3> QED
      BY <2>2, <3>2, <3>3, <3>4 DEF At
  <2> QED
    BY <2>1, <2>2
<1>21. Chunked(k)'
  BY <1>1, <1>3, <1>5, <1>13, <1>16, <1>17, <1>18, <1>19, <1>20 DEF Chunked, N
<1> QED
  BY <1>2, <1>3, <1>14, <1>15, <1>21 DEF Progress

-----------------------------------------------------------------------------
(* The threads of the graph go on to the next barrier.                      *)

(* The first n nodes are complete and nobody has begun the next.            *)
LEMMA LoopProgress ==
  ASSUME Nodes \in Seq(Nat), NEW n \in 0..Len(Nodes), abort = n => n > 0,
         n < Len(Nodes) \/ n = 0, Finished(n), \A m \in n + 1..Len(Nodes) : converted[m] = {},
         DOMAIN times = 1..Len(Nodes),
         \A m \in 1..Len(Nodes) : Nodes[m] = 0 => DOMAIN times[m] = Members,
         UNCHANGED <<times, converted, nThreadsCur>>, Nodes' = Nodes, Members' = Members,
         0 \in Members,
         \A u \in Members : ~Waiting(u)' /\ ~PartDone(u, n + 1)',
         NEW k, NEW back, LoopBarrier(n) = <<k, back>>
  PROVE  Progress(k, back)'
<1>1. Len(Nodes) \in Nat /\ n \in Nat
  OBVIOUS
<1>2. /\ \A m : (Complete(m)' <=> Complete(m)) /\ (Clean(m)' <=> Clean(m))
      /\ \A j, b : Computing(j, b)' <=> Computing(j, b)
  BY DEF Complete, Clean, Computing
<1>3. /\ k \in 0..Len(Nodes) /\ back \in {"loop", "chunk", "leave"}
      /\ back = "loop"  => k \in 1..Len(Nodes) - 1 /\ k = n + 1 /\ Nodes[k] = 0
      /\ back = "chunk" => k < Len(Nodes) /\ Nodes[k + 1] > 0 /\ k = n
      /\ back = "leave" => \/ k = n /\ (n = Len(Nodes) \/ (abort = n /\ n > 0))
                           \/ k = n + 1 /\ k = Len(Nodes) /\ Nodes[k] = 0
  <2>1. PICK j \in 0..Len(Nodes), b \in {"loop", "chunk", "leave"} :
           /\ LoopBarrier(n) = <<j, b>>
           /\ b = "loop"  => j \in 1..Len(Nodes) - 1 /\ j = n + 1 /\ Nodes[j] = 0
           /\ b = "chunk" => j < Len(Nodes) /\ Nodes[j + 1] > 0 /\ j = n
           /\ b = "leave" => \/ j = n /\ (n = Len(Nodes) \/ (abort = n /\ n > 0))
                             \/ j = n + 1 /\ j = Len(Nodes) /\ Nodes[j] = 0
    BY LoopGoalOf
  <2>2. <<k, back>> = <<j, b>>
    BY <2>1
  <2>3. k = j /\ back = b
    BY <2>2
  <2> QED
    BY <2>1, <2>3
<1>4. /\ \A m \in 1..n : Complete(m)
      /\ \A m \in n + 1..Len(Nodes) : Clean(m) /\ converted[m] = {}
  BY DEF Finished
<1>5. CASE k = n /\ back \in {"chunk", "leave"}
  <2>1. InOrder(k, back)
    <3>1. /\ \A m \in 1..k - 1 : Complete(m)
          /\ k > 0 => Complete(k)
          /\ \A m \in k + 1..Len(Nodes) : Clean(m)
      BY <1>1, <1>4, <1>5
    <3>2. /\ \A m \in k + 2..Len(Nodes) : converted[m] = {}
          /\ k < Len(Nodes) => converted[k + 1] = {}
      BY <1>1, <1>4, <1>5
    <3> QED
      BY <3>1, <3>2 DEF InOrder
  <2>2. InOrder(k, back)'
    BY <1>2, <2>1 DEF InOrder
  <2>3. ~Computing(k, back)
    BY <1>1, <1>5 DEF Computing
  <2>4. back = "chunk" => Converting(k)'
    <3> SUFFICES ASSUME back = "chunk" PROVE Converting(k)'
      OBVIOUS
    <3>1. converted'[k + 1] = {}
      BY <1>1, <1>3, <1>4, <1>5
    <3>2. {u \in Members' : Waiting(u)'} = {} /\ ~Waiting(0)'
      OBVIOUS
    <3> QED
      BY <3>1, <3>2 DEF Converting
  <2> QED
    BY <1>2, <1>5, <2>2, <2>3, <2>4 DEF Progress
<1>6. CASE k = n + 1 /\ back \in {"loop", "leave"} /\ Nodes[k] = 0
  <2>1. k \in n + 1..Len(Nodes) /\ Computing(k, back)
    BY <1>1, <1>3, <1>6 DEF Computing
  <2>2. InOrder(k, back)
    <3>1. /\ \A m \in 1..k - 1 : Complete(m)
          /\ \A m \in k + 1..Len(Nodes) : Clean(m)
      BY <1>1, <1>4, <1>6
    <3>2. /\ \A m \in k + 2..Len(Nodes) : converted[m] = {}
          /\ k < Len(Nodes) => converted[k + 1] = {}
      <4>1. k < Len(Nodes) => k + 1 \in n + 1..Len(Nodes)
        BY <1>1, <1>6
      <4>2. \A m \in k + 2..Len(Nodes) : m \in n + 1..Len(Nodes)
        BY <1>1, <1>6
      <4> QED
        BY <1>4, <4>1, <4>2
    <3> QED
      BY <2>1, <3>1, <3>2 DEF InOrder
  <2>3. InOrder(k, back)'
    BY <1>2, <2>2 DEF InOrder
  <2>4. Shared(k)'
    <3>1. Clean(k) /\ DOMAIN times[k] = Members
      BY <1>1, <1>4, <1>6, <2>1
    <3>2. \A u \in Members : times[k][u] = 0 /\ ~PartDone(u, k)'
      BY <1>6, <3>1 DEF Clean
    <3> QED
      BY <3>2 DEF Shared
  <2> QED
    BY <1>6, <2>3, <2>4 DEF Progress
<1> QED
  BY <1>1, <1>3, <1>5, <1>6

(* All threads of the graph have come to the barrier that ends a node.      *)
LEMMA NodeComplete ==
  ASSUME PoolInv, Running, JobTyped, NEW k, NEW back, Goal(k, back), Progress(k, back),
         back # "chunk", back # "top",
         \A u \in Members : InGraph(u) /\ InBarrier(u) /\ state[u].node = k
  PROVE  Finished(k) /\ \A m \in k + 1..Len(Nodes) : converted[m] = {}
<1>1. k \in 0..Len(Nodes) /\ k \in Nat /\ Len(Nodes) \in Nat /\ Nodes \in Seq(Nat)
  BY RunningFacts DEF Goal, Proper
<1>2. InOrder(k, back)
  BY DEF Progress
<1>3. \A u \in Members : PartDone(u, k) /\ ~Holding(u)
  BY DEF PartDone, Holding, InBarrier, At
<1>4. Computing(k, back) => Complete(k)
  <2> SUFFICES ASSUME Computing(k, back) PROVE Complete(k)
    OBVIOUS
  <2> DEFINE N == NChunks(Nodes[k], nThreadsCur)
  <2>1. k \in 1..Len(Nodes)
    BY <1>1 DEF Computing, Goal, Proper
  <2>2. DOMAIN times[k] = 0..N - 1 /\ N \in Nat /\ Nodes[k] \in Nat
        /\ NChunks(0, nThreadsCur) = nThreadsCur
    BY <2>1, JobFacts
  <2>3. CASE Nodes[k] = 0
    <3>1. \A u \in Members : times[k][u] = 1
      BY <1>3, <2>3 DEF Progress, Shared
    <3>2. DOMAIN times[k] = Members
      BY <2>2, <2>3 DEF Members
    <3> QED
      BY <3>1, <3>2 DEF Complete
  <2>4. CASE Nodes[k] > 0
    <3>1. Chunked(k)
      BY <2>4 DEF Progress
    <3>2. 0 \in Members /\ currentChunk \in Nat
      BY MemberFacts DEF PoolInv, Typed
    <3>3. currentChunk >= N
      BY <1>3, <3>1, <3>2 DEF Chunked
    <3>4. \A c : NotHeld(c)
      BY <1>3 DEF NotHeld
    <3> HIDE DEF N
    <3>5. \A c \in DOMAIN times[k] : c < currentChunk
      BY <2>2, <3>2, <3>3
    <3> QED
      BY <3>1, <3>4, <3>5 DEF Chunked, Complete
  <2> QED
    BY <2>2, <2>3, <2>4
<1>5. k > 0 => Complete(k)
  BY <1>2, <1>4 DEF InOrder
<1>6. \A m \in 1..k : Complete(m)
  BY <1>1, <1>2, <1>5 DEF InOrder
<1>7. Finished(k)
  BY <1>2, <1>6 DEF Finished, InOrder
<1>8. \A m \in k + 1..Len(Nodes) : converted[m] = {}
  <2>1. \A m \in k + 2..Len(Nodes) : converted[m] = {}
    BY <1>2 DEF InOrder
  <2>2. k < Len(Nodes) => converted[k + 1] = {}
    BY <1>2 DEF InOrder
  <2> QED
    BY <1>1, <2>1, <2>2
<1> QED
  BY <1>7, <1>8

(* Where no thread has more than its share, the node has one per thread.    *)
LEMMA ShareDomain ==
  ASSUME PoolInv, Running, JobTyped, NEW m \in 1..Len(Nodes), Nodes[m] = 0
  PROVE  DOMAIN times[m] = Members
<1>1. DOMAIN times[m] = 0..NChunks(Nodes[m], nThreadsCur) - 1
      /\ NChunks(0, nThreadsCur) = nThreadsCur
  BY JobFacts
<1> QED
  BY <1>1 DEF Members

(* All threads have converted their share: the product begins.              *)
LEMMA ProductProgress ==
  ASSUME PoolInv, Running, JobTyped, NEW k, Goal(k, "chunk"), Progress(k, "chunk"),
         NEW back, AfterNodeBarrier(k) = <<k + 1, back>>,
         UNCHANGED <<times, converted, currentChunk, nThreadsCur>>,
         Nodes' = Nodes, Members' = Members,
         \A u \in Members : /\ InGraph(u) /\ InBarrier(u) /\ InGraph(u)' /\ ~InBarrier(u)'
                            /\ state'[u].node = k /\ state'[u].chunk = u
                            /\ state'[u].back = "chunk" /\ state'[u].pc \in {"chunk", "spin"}
  PROVE  Progress(k + 1, back)'
<1>1. k \in Nat /\ Len(Nodes) \in Nat /\ k + 1 \in 1..Len(Nodes) /\ Nodes[k + 1] > 0
      /\ k \in 0..Len(Nodes) - 1 /\ k # k + 1
  BY RunningFacts DEF Goal, Proper
<1>2. back \in {"loop", "leave"} /\ Computing(k + 1, back)
  <2>1. PICK b \in {"loop", "leave"} :
          AfterNodeBarrier(k) = <<k + 1, b>> /\ Computing(k + 1, b)
    BY <1>1, AfterNodeGoal
  <2>2. <<k + 1, back>> = <<k + 1, b>>
    BY <2>1
  <2> QED
    BY <2>1, <2>2
<1>3. InOrder(k, "chunk") /\ Converting(k) /\ ~Computing(k, "chunk")
  BY DEF Progress, Computing
<1>4. InOrder(k + 1, back)
  <2>1. \A m \in 1..k : Complete(m)
    BY <1>1, <1>3 DEF InOrder
  <2>2. \A m \in k + 2..Len(Nodes) : Clean(m) /\ converted[m] = {}
    BY <1>1, <1>3 DEF InOrder
  <2>3. /\ \A m \in 1..(k + 1) - 1 : Complete(m)
        /\ \A m \in (k + 1) + 1..Len(Nodes) : Clean(m)
        /\ \A m \in (k + 1) + 2..Len(Nodes) : converted[m] = {}
    <3>1. (k + 1) - 1 = k
      BY <1>1
    <3>2. \A m \in (k + 1) + 1..Len(Nodes) : m \in k + 2..Len(Nodes)
      BY <1>1
    <3>3. \A m \in (k + 1) + 2..Len(Nodes) : m \in k + 2..Len(Nodes)
      BY <1>1
    <3> QED
      BY <2>1, <2>2, <3>1, <3>2, <3>3
  <2>4. k + 1 < Len(Nodes) => converted[(k + 1) + 1] = {}
    <3>1. k + 1 < Len(Nodes) => (k + 1) + 1 \in k + 2..Len(Nodes)
      BY <1>1
    <3> QED
      BY <2>2, <3>1
  <2> QED
    BY <1>2, <2>3, <2>4 DEF InOrder
<1>5. InOrder(k + 1, back)'
  BY <1>4 DEF InOrder, Complete, Clean, Computing
<1>6. nThreadsCur \in Nat \ {0} /\ Members = 0..nThreadsCur - 1 /\ 0 \in Members
  BY MemberFacts DEF PoolInv, Members
<1>7. converted[k + 1] = Members /\ currentChunk = nThreadsCur
  BY <1>3, <1>6 DEF Converting, Waiting
<1>8. \A u \in Members : Holding(u)'
  BY DEF Holding, At
<1>9. ASSUME NEW c \in DOMAIN times[k + 1]
      PROVE  times[k + 1][c] = IF c < currentChunk /\ NotHeld(c)' THEN 1 ELSE 0
  <2>1. times[k + 1][c] = 0
    <3>1. Clean(k + 1)
      BY <1>1, <1>3 DEF InOrder
    <3> QED
      BY <3>1 DEF Clean
  <2>2. DOMAIN times[k + 1] = 0..NChunks(Nodes[k + 1], nThreadsCur) - 1
        /\ NChunks(Nodes[k + 1], nThreadsCur) \in Nat
    BY <1>1, JobFacts
  <2>3. c \in Nat
    BY <2>2
  <2>4. c < currentChunk => ~NotHeld(c)'
    <3>1. c < currentChunk => c \in Members
      BY <1>6, <1>7, <2>3
    <3> QED
      BY <1>8, <3>1 DEF NotHeld
  <2> QED
    BY <2>1, <2>4
<1>10. \A u \in Members : ~PartDone(u, k + 1)' /\ ~At(u, "fetch")'
  BY <1>1 DEF PartDone, At
<1>11. \A u \in Members : state'[u].chunk < currentChunk
  BY <1>6, <1>7
<1>12. Chunked(k + 1)'
  BY <1>6, <1>7, <1>9, <1>10, <1>11 DEF Chunked
<1>13. Nodes'[k + 1] # 0
  BY <1>1
<1> QED
  BY <1>2, <1>5, <1>12, <1>13 DEF Progress

(* The threads of the graph pass their barrier.                             *)
LEMMA PassProgress ==
  ASSUME PoolInv, Running, JobTyped, NEW k, NEW back, Goal(k, back), Progress(k, back),
         NEW t \in Threads, InnerSteps(t), Passing(t)
  PROVE  /\ \E k2, back2 : NextBarrier(0)' = <<k2, back2>> /\ Progress(k2, back2)'
         /\ JobTyped'
<1>1. /\ UNCHANGED <<plan, cgraph, abort>> /\ Members' = Members
      /\ \A u \in Members :
           /\ InGraph(u) /\ InBarrier(u) /\ InGraph(u)' /\ ~InBarrier(u)'
           /\ state[u].node = state[0].node /\ state[u].back = state[0].back
           /\ state'[u].node = state[u].node /\ state'[u].chunk = state[u].chunk
           /\ state'[u].back = state[u].back
           /\ state'[u].pc \in {state[0].back, "spin"}
           /\ state[0].back \in {"loop", "chunk", "leave"}
           /\ NextBarrier(u) = <<state[0].node, state[0].back>>
           /\ NextBarrier(u)' = BarrierFrom(state[0].back, state[0].node)
  BY PassBarrier
<1>2. 0 \in Members /\ Members \subseteq Threads
  BY MemberFacts DEF PoolInv
<1>3. k = state[0].node /\ back = state[0].back
  <2>1. <<k, back>> = <<state[0].node, state[0].back>>
    BY <1>1, <1>2 DEF Goal
  <2> QED
    BY <2>1
<1>4. UNCHANGED <<times, converted, currentChunk, nThreadsCur>> /\ Nodes' = Nodes
  <2>1. UNCHANGED <<times, converted, currentChunk>>
    BY DEF Passing, BarrierPass, BarrierEnter, history
  <2>2. UNCHANGED nThreadsCur /\ Nodes' = Nodes
    BY InnerKeepsGraph
  <2> QED
    BY <2>1, <2>2
<1>5. /\ back \in {"loop", "chunk", "leave"}
      /\ \A u \in Members :
           /\ InGraph(u) /\ InBarrier(u) /\ InGraph(u)' /\ ~InBarrier(u)'
           /\ state[u].node = k /\ state'[u].node = k /\ state'[u].chunk = state[u].chunk
           /\ state'[u].back = back /\ state'[u].pc \in {back, "spin"}
      /\ NextBarrier(0)' = BarrierFrom(back, k)
  BY <1>1, <1>2, <1>3
<1>6. k \in Nat /\ k \in 0..Len(Nodes) /\ Len(Nodes) \in Nat /\ Nodes \in Seq(Nat)
  BY RunningFacts DEF Goal, Proper
<1>7. JobTyped'
  BY <1>1, <1>4, JobSame
<1>8. DOMAIN times = 1..Len(Nodes)
      /\ \A m \in 1..Len(Nodes) : Nodes[m] = 0 => DOMAIN times[m] = Members
  BY JobFacts, ShareDomain
<1>9. CASE back = "loop"
  <2>1. k < Len(Nodes) /\ k > 0
    BY <1>6, <1>9 DEF Goal, Proper
  <2>2. Finished(k) /\ \A m \in k + 1..Len(Nodes) : converted[m] = {}
    BY <1>5, <1>9, NodeComplete
  <2>3. NextBarrier(0)' = LoopBarrier(k)
    BY <1>5, <1>9 DEF BarrierFrom
  <2>4. PICK k2 \in 0..Len(Nodes), back2 \in {"loop", "chunk", "leave"} :
          LoopBarrier(k) = <<k2, back2>>
    BY <1>6, <2>1, LoopGoalOf
  <2>5. \A u \in Members : ~Waiting(u)' /\ ~PartDone(u, k + 1)'
    BY <1>5, <1>6, <1>9 DEF Waiting, PartDone, At
  <2>6. Progress(k2, back2)'
    BY <1>1, <1>2, <1>4, <1>6, <1>8, <2>1, <2>2, <2>4, <2>5, LoopProgress
  <2> QED
    BY <1>7, <2>3, <2>4, <2>6
<1>10. CASE back = "leave"
  <2>1. Finished(k)
    BY <1>5, <1>10, NodeComplete
  <2>2. NextBarrier(0)' = <<0, "top">>
    BY <1>5, <1>10 DEF BarrierFrom, End
  <2>3. Finished(state[0].node)'
    <3>1. Finished(k)'
      BY <1>4, <2>1 DEF Finished, Complete, Clean
    <3>2. state'[0].node = k
      BY <1>2, <1>5
    <3> QED
      BY <3>1, <3>2
  <2>4. Progress(0, "top")'
    BY <2>3 DEF Progress, Computing
  <2> QED
    BY <1>7, <2>2, <2>4
<1>11. CASE back = "chunk"
  <2>1. NextBarrier(0)' = AfterNodeBarrier(k) /\ k \in 0..Len(Nodes) - 1
    BY <1>5, <1>6, <1>11 DEF BarrierFrom, Goal, Proper
  <2>2. PICK back2 \in {"loop", "leave"} : AfterNodeBarrier(k) = <<k + 1, back2>>
    BY <2>1, AfterNodeGoal
  <2>3. \A u \in Members : state'[u].chunk = u
    <3> SUFFICES ASSUME NEW u \in Members PROVE state'[u].chunk = u
      OBVIOUS
    <3>1. Locals(u) /\ u \in Threads
      BY <1>2, <1>5 DEF PoolInv, GraphInv
    <3>2. state[u].back = "chunk"
      BY <1>1, <1>3, <1>11
    <3>3. state[u].pc \in {"enter", "add", "reset", "pass", "spin"}
      BY <1>5 DEF InBarrier, At
    <3> QED
      BY <1>5, <3>1, <3>2, <3>3 DEF Locals
  <2>4. Progress(k + 1, back2)'
    BY <1>1, <1>4, <1>5, <1>11, <2>2, <2>3, ProductProgress
  <2> QED
    BY <1>7, <2>1, <2>2, <2>4
<1> QED
  BY <1>5, <1>9, <1>10, <1>11

-----------------------------------------------------------------------------
(* The caller gives the pool a graph of which nothing is computed.          *)
LEMMA FreshJob ==
  ASSUME PoolInv, GraphCompute
  PROVE  JobTyped' /\ FreshInv'
<1>1. Typed /\ cgraph \in Nat
  BY PlansAssumption DEF PoolInv, Typed
<1> DEFINE g == plan[cgraph + 1]
           job == JobOf(g, Min2(g.threads, NThreads))
<1>2. /\ times' = [n \in DOMAIN job |-> [c \in job[n] |-> 0]]
      /\ converted' = [n \in DOMAIN job |-> {}]
      /\ plan' = plan /\ cgraph' = cgraph + 1
  BY DEF GraphCompute
<1>3. ThreadsOf(cgraph)' = Min2(g.threads, NThreads)
  BY <1>1, <1>2 DEF ThreadsOf
<1>4. JobOf(plan[cgraph], ThreadsOf(cgraph))' = job
  BY <1>2, <1>3 DEF JobOf
<1> HIDE DEF job
<1>5. DOMAIN times' = DOMAIN job /\ DOMAIN converted' = DOMAIN job
  BY <1>2
<1>6. ASSUME NEW n \in DOMAIN job
      PROVE  /\ times'[n] \in [job[n] -> Nat]
             /\ \A c \in DOMAIN times'[n] : times'[n][c] = 0
             /\ converted'[n] = {}
  <2>1. times'[n] = [c \in job[n] |-> 0]
    BY <1>2
  <2> QED
    BY <1>2, <2>1
<1>7. JobTyped'
  BY <1>4, <1>5, <1>6 DEF JobTyped
<1>8. FreshInv'
  BY <1>5, <1>6 DEF FreshInv, Clean
<1> QED
  BY <1>7, <1>8

(* The graph is handed over before any thread works on it.                  *)
LEMMA KickProgress ==
  ASSUME PoolInv, JobTyped, FreshInv, KickGraph
  PROVE  \E k, back : NextBarrier(0)' = <<k, back>> /\ Progress(k, back)'
<1>1. Typed /\ 0 \in Threads /\ Workers = Threads \ {0} /\ 0 \in Members
      /\ Members \subseteq Threads /\ nThreadsCur \in Nat \ {0}
      /\ \A w \in Threads : w \in Members <=> Active(w)
  BY MemberFacts DEF PoolInv
<1>2. /\ state[0].pc = "kickGraph" /\ state'[0].pc = "kickWake" /\ Alone(0)
      /\ UNCHANGED <<plan, cgraph, abort, nThreadsCur, currentChunk, times, converted>>
  BY <1>1, CallerFacts DEF KickGraph, At, outcome, history
<1>3. /\ cgraph > 0 /\ abort = -1 /\ nThreadsCur = ThreadsOf(cgraph) /\ nGraph = cgraph - 1
      /\ ~Running
  BY <1>2 DEF PoolInv, CallerInv, ReadyInv, At, Running, GraphSteps
<1>4. Nodes \in Seq(Nat) /\ Len(Nodes) \in Nat /\ cgraph \in Nat
  BY <1>1, <1>3, GraphFacts, PlansAssumption DEF Typed
<1>5. Nodes' = Nodes /\ Members' = Members
  BY <1>2 DEF Nodes, Members
<1>6. /\ DOMAIN times = 1..Len(Nodes)
      /\ \A m \in 1..Len(Nodes) : Nodes[m] = 0 => DOMAIN times[m] = Members
  <2> DEFINE job == JobOf(plan[cgraph], ThreadsOf(cgraph))
  <2>1. DOMAIN times = DOMAIN job /\ \A n \in DOMAIN job : times[n] \in [job[n] -> Nat]
    BY <1>3 DEF JobTyped
  <2>2. job = [n \in 1..Len(Nodes) |-> 0..NChunks(Nodes[n], nThreadsCur) - 1]
    <3>1. DOMAIN Nodes = 1..Len(Nodes)
      BY <1>4
    <3> QED
      BY <1>3, <3>1 DEF JobOf, Nodes
  <2> HIDE DEF job
  <2>3. DOMAIN times = 1..Len(Nodes)
    BY <2>1, <2>2
  <2>4. \A n \in 1..Len(Nodes) : times[n] \in [0..NChunks(Nodes[n], nThreadsCur) - 1 -> Nat]
    BY <2>1, <2>2
  <2>5. NChunks(0, nThreadsCur) = nThreadsCur
    BY <1>1, NChunksFacts
  <2> QED
    BY <2>3, <2>4, <2>5 DEF Members
<1>7. Finished(0) /\ \A m \in 0 + 1..Len(Nodes) : converted[m] = {}
  BY <1>2, <1>4, <1>6 DEF FreshInv, Finished
<1>8. ASSUME NEW u \in Members
      PROVE  ~InGraph(u)'
  <2>1. CASE u = 0
    BY <1>2, <2>1 DEF InGraph, GraphSteps
  <2>2. CASE u # 0
    <3>1. state'[u] = state[u] /\ state[u].graph <= state[u].lastGraph
          /\ state[u].lastGraph <= nGraph
      BY <1>1, <1>2, <2>2 DEF Alone, Others, PoolInv, WorkerInv, Placed
    <3>2. state[u].graph \in Nat /\ state[u].lastGraph \in Nat /\ nGraph \in Nat
      BY <1>1 DEF Typed, ThreadState
    <3>3. state[u].graph # cgraph
      BY <1>3, <1>4, <3>1, <3>2
    <3> QED
      BY <1>2, <3>1, <3>3 DEF InGraph
  <2> QED
    BY <2>1, <2>2
<1>9. \A u \in Members : ~Waiting(u)' /\ ~PartDone(u, 0 + 1)'
  BY <1>8 DEF Waiting, PartDone
<1>10. PICK k \in 0..Len(Nodes), back \in {"loop", "chunk", "leave"} : LoopBarrier(0) = <<k, back>>
  <2>1. 0 \in 0..Len(Nodes) /\ (abort = 0 => 0 > 0)
    BY <1>3, <1>4
  <2> QED
    BY <1>4, <2>1, LoopGoalOf
<1>11. Progress(k, back)'
  <2>1. 0 \in 0..Len(Nodes) /\ (0 < Len(Nodes) \/ 0 = 0) /\ (abort = 0 => 0 > 0)
    BY <1>3, <1>4
  <2> QED
    BY <1>1, <1>2, <1>4, <1>5, <1>6, <1>7, <1>9, <1>10, <2>1, LoopProgress
<1>12. NextBarrier(0)' = LoopBarrier(0)
  <2>1. NotBegun(0)'
    BY <1>2 DEF NotBegun
  <2>2. LoopBarrier(0)' = LoopBarrier(0)
    BY <1>2, BarrierFromKept
  <2> QED
    BY <2>1, <2>2 DEF NextBarrier
<1> QED
  BY <1>10, <1>11, <1>12

-----------------------------------------------------------------------------
(* Every step keeps the data right.                                         *)
LEMMA WorkStep ==
  ASSUME PoolInv, DataInv, Running, NEW t \in Threads, InnerSteps(t)
  PROVE  JobTyped' /\ \E k, back : NextBarrier(0)' = <<k, back>> /\ Progress(k, back)'
<1>1. Typed /\ 0 \in Members /\ JobTyped
  BY MemberFacts DEF PoolInv, DataInv
<1>2. PICK k, back : Goal(k, back)
  BY GoalExists
<1>3. Progress(k, back)
  BY <1>2, ProgressOf DEF Goal, DataInv
<1>4. CASE Passing(t)
  BY <1>1, <1>2, <1>3, <1>4, PassProgress
<1>5. CASE ~Passing(t)
  <2>1. NextBarrier(0)' = <<k, back>>
    BY <1>1, <1>2, <1>5, BarriersOfThreads DEF Goal
  <2>2. ForwardShare(t) \/ ForwardConvert(t) \/ Chunk(t) \/ FetchChunk(t) => t \in Members
    <3> SUFFICES ASSUME ForwardShare(t) \/ ForwardConvert(t) \/ Chunk(t) \/ FetchChunk(t)
                 PROVE  t \in Members
      OBVIOUS
    <3>1. state[t].pc \in {"forward", "chunk", "fetch"}
      BY DEF ForwardShare, ForwardConvert, Chunk, FetchChunk, At
    <3>2. ~Released(t) /\ state[t].pc \in GraphSteps \ {"graph"}
      BY <3>1 DEF Released, At, GraphSteps
    <3> QED
      BY <3>2, InGraphFacts
  <2>3. CASE ForwardShare(t)
    BY <1>1, <1>2, <1>3, <2>1, <2>2, <2>3, ShareProgress
  <2>4. CASE ForwardConvert(t)
    BY <1>1, <1>2, <1>3, <2>1, <2>2, <2>4, ConvertProgress
  <2>5. CASE Chunk(t)
    BY <1>1, <1>2, <1>3, <2>1, <2>2, <2>5, ChunkProgress
  <2>6. CASE FetchChunk(t)
    BY <1>1, <1>2, <1>3, <2>1, <2>2, <2>6, FetchProgress
  <2>7. CASE QuietSteps(t)
    <3>1. Quiet
      BY <2>7 DEF Quiet
    <3> QED
      BY <1>1, <1>2, <1>3, <2>1, <3>1, QuietProgress, JobSame
  <2>8. ForwardShare(t) \/ ForwardConvert(t) \/ Chunk(t) \/ FetchChunk(t) \/ QuietSteps(t)
    BY <1>5 DEF InnerSteps, QuietSteps, Passing
  <2> QED
    BY <2>3, <2>4, <2>5, <2>6, <2>7, <2>8
<1> QED
  BY <1>4, <1>5

LEMMA QuietStep ==
  ASSUME PoolInv, DataInv, Running, Quiet
  PROVE  JobTyped' /\ \E k, back : NextBarrier(0)' = <<k, back>> /\ Progress(k, back)'
<1>1. Typed /\ 0 \in Members /\ JobTyped
  BY MemberFacts DEF PoolInv, DataInv
<1>2. PICK k, back : Goal(k, back)
  BY GoalExists
<1>3. Progress(k, back)
  BY <1>2, ProgressOf DEF Goal, DataInv
<1>4. NextBarrier(0)' = NextBarrier(0) \/ \E t \in Threads : InnerSteps(t) /\ QuietSteps(t) /\ Passing(t)
  BY <1>1, BarriersOfWake, BarriersOfWorkers, BarriersOfThreads DEF Quiet, QuietSteps, InnerSteps
<1>5. ASSUME NEW t \in Threads, QuietSteps(t) PROVE ~Passing(t)
  BY <1>5 DEF Passing, QuietSteps, LoopTest, NodeDone, BarrierEnter, BarrierAdd,
              BarrierReset, BarrierSpin, BarrierPass, At
<1>6. NextBarrier(0)' = <<k, back>>
  BY <1>2, <1>4, <1>5 DEF Goal
<1> QED
  BY <1>1, <1>2, <1>3, <1>6, QuietProgress, JobSame

(* A step that starts while the caller is between two graphs.               *)
LEMMA OutsideStep ==
  ASSUME PoolInv, DataInv, ~Running,
         NextOfWorkers \/ NextOfThreads
  PROVE  JobTyped' /\ FreshInv' /\ ~Running'
<1>1. Typed /\ 0 \in Threads /\ Workers = Threads \ {0}
  BY MemberFacts DEF PoolInv
<1>2. ASSUME state'[0] = state[0], UNCHANGED <<plan, cgraph, times, converted>>
      PROVE  JobTyped' /\ FreshInv' /\ ~Running'
  BY <1>2, JobSame DEF DataInv, FreshInv, Clean, Running
<1>3. ASSUME NEW w \in Workers, SeekStep(w)
      PROVE  JobTyped' /\ FreshInv' /\ ~Running'
  BY <1>1, <1>2, <1>3 DEF SeekStep, ReadsOnly, Alone, Others, history
<1>4. ASSUME NEW t \in Threads, BeginGraph(t) \/ InnerSteps(t) \/ EndGraph(t)
      PROVE  JobTyped' /\ FreshInv' /\ ~Running'
  <2>1. UNCHANGED <<plan, cgraph>> /\ Alone(t) /\ t # 0
    BY <1>4, RunningSteps DEF pool
  <2>2. CASE InnerSteps(t)
    <3>1. Released(t)
      BY <2>2, InnerFacts, InGraphFacts DEF Inner
    <3>2. BarrierSpin(t)
      BY <2>2, <3>1 DEF Released, At, InnerSteps, LoopTest, ForwardShare, ForwardConvert,
         Chunk, FetchChunk, NodeDone, BarrierEnter, BarrierAdd, BarrierReset, BarrierPass
    <3> QED
      BY <1>1, <1>2, <2>1, <3>2 DEF BarrierSpin, history, Alone, Others
  <2>3. CASE BeginGraph(t) \/ EndGraph(t)
    BY <1>1, <1>2, <2>1, <2>3 DEF BeginGraph, EndGraph, history, Alone, Others
  <2> QED
    BY <1>4, <2>2, <2>3
<1> QED
  BY <1>1, <1>3, <1>4, SeekFacts DEF NextOfWorkers, NextOfThreads

LEMMA DataStep ==
  ASSUME PoolInv, DataInv, [Next]_vars
  PROVE  DataInv'
<1>1. Typed /\ 0 \in Threads /\ Workers = Threads \ {0} /\ JobTyped /\ FreshInv
  BY MemberFacts DEF PoolInv, DataInv
<1>2. ASSUME NEW k, NEW back, NextBarrier(0)' = <<k, back>>, Progress(k, back)', JobTyped', Running'
      PROVE  DataInv'
  <2>1. Progress(NextBarrier(0)[1], NextBarrier(0)[2])'
    BY <1>2, ProgressNext
  <2>2. FreshInv'
    BY <1>2 DEF FreshInv, Running, GraphSteps
  <2> QED
    BY <1>2, <2>1, <2>2 DEF DataInv
<1>3. ASSUME JobTyped', FreshInv', ~Running' PROVE DataInv'
  BY <1>3 DEF DataInv
<1>4. ASSUME Running, Quiet, Running' PROVE DataInv'
  BY <1>2, <1>4, QuietStep
<1>5. ASSUME NextOfThreads PROVE DataInv'
  <2>1. CASE ~Running
    BY <1>3, <1>5, <2>1, OutsideStep
  <2>2. CASE Running
    <3>1. ASSUME NEW t \in Threads, InnerSteps(t) PROVE DataInv'
      <4>1. Running'
        BY <2>2, <3>1, InnerKeepsGraph
      <4> QED
        BY <1>2, <2>2, <3>1, <4>1, WorkStep
    <3>2. ASSUME NEW t \in Threads, BeginGraph(t) \/ (EndGraph(t) /\ t # 0) PROVE DataInv'
      <4>1. Running'
        BY <2>2, <3>2, RunningSteps DEF BeginGraph, EndGraph, At
      <4>2. Quiet
        BY <3>2 DEF Quiet
      <4> QED
        BY <1>4, <2>2, <4>1, <4>2
    <3>3. ASSUME EndGraph(0) PROVE DataInv'
      <4>1. state'[0].pc = "idle" /\ UNCHANGED <<plan, cgraph, times, converted>>
        BY <1>1, <3>3, EndGraphFacts DEF EndGraph, pool, history
      <4>2. JobTyped' /\ FreshInv' /\ ~Running'
        BY <1>1, <4>1, JobSame DEF FreshInv, Running, GraphSteps
      <4> QED
        BY <1>3, <4>2
    <3> QED
      BY <1>5, <3>1, <3>2, <3>3 DEF NextOfThreads
  <2> QED
    BY <2>1, <2>2
<1>6. ASSUME NextOfWorkers PROVE DataInv'
  <2>1. CASE ~Running
    BY <1>3, <1>6, <2>1, OutsideStep
  <2>2. CASE Running
    <3>1. PICK w \in Workers : SeekStep(w)
      BY <1>1, <1>6, SeekFacts DEF NextOfWorkers
    <3>2. Running' /\ Quiet
      BY <1>1, <2>2, <3>1 DEF Quiet, SeekStep, Running, Alone, Others
    <3> QED
      BY <1>4, <2>2, <3>2
  <2> QED
    BY <2>1, <2>2
<1>7. ASSUME NextOfCaller PROVE DataInv'
  <2>1. CASE GraphCompute
    <3>1. state'[0].pc = "kickThreads"
      BY <1>1, <2>1, CallerFacts
    <3>2. ~Running'
      BY <3>1 DEF Running, GraphSteps
    <3> QED
      BY <1>3, <2>1, <3>2, FreshJob
  <2>2. CASE KickThreads
    <3>1. /\ state[0].pc = "kickThreads" /\ state'[0].pc = "kickGraph"
          /\ UNCHANGED <<plan, cgraph, times, converted>>
      BY <1>1, <2>2, CallerFacts DEF KickThreads, At, history
    <3>2. JobTyped' /\ FreshInv' /\ ~Running'
      BY <1>1, <3>1, JobSame DEF FreshInv, Clean, Running, GraphSteps
    <3> QED
      BY <1>3, <3>2
  <2>3. CASE KickGraph
    <3>1. state'[0].pc = "kickWake" /\ UNCHANGED <<plan, cgraph, times, converted>>
      BY <1>1, <2>3, CallerFacts DEF KickGraph, history
    <3>2. JobTyped' /\ Running'
      BY <1>1, <3>1, JobSame DEF Running
    <3> QED
      BY <1>1, <1>2, <2>3, <3>2, KickProgress
  <2>4. CASE KickWake
    <3>1. Running /\ Quiet
      BY <2>4 DEF KickWake, At, Running, Quiet
    <3>2. Running'
      BY <1>1, <2>4, CallerFacts DEF Wakes, Running, GraphSteps
    <3> QED
      BY <1>4, <3>1, <3>2
  <2>5. CASE PauseOrResume \/ FreeStop \/ FreeWake \/ Join
    <3>1. /\ state'[0].pc \in {"idle", "freeWake", "join", "freed"}
          /\ UNCHANGED <<plan, cgraph, times, converted>>
      BY <1>1, <2>5, CallerFacts
         DEF Wakes, PauseOrResume, FreeStop, FreeWake, Join, history
    <3>2. JobTyped' /\ FreshInv' /\ ~Running'
      BY <1>1, <3>1, JobSame DEF FreshInv, Running, GraphSteps
    <3> QED
      BY <1>3, <3>2
  <2> QED
    BY <1>7, <2>1, <2>2, <2>3, <2>4, <2>5 DEF NextOfCaller
<1>8. ASSUME UNCHANGED vars PROVE DataInv'
  <2>1. /\ UNCHANGED <<plan, cgraph, nGraph, nThreadsCur, currentChunk, abort, state,
                       nBarrierPassed, times, converted>>
    BY <1>8 DEF vars, barrier, outcome, history
  <2>2. JobTyped' /\ FreshInv' /\ (Running' <=> Running)
    BY <1>1, <2>1, JobSame DEF FreshInv, Clean, Running
  <2>3. CASE ~Running
    BY <1>3, <2>2, <2>3
  <2>4. CASE Running
    <3>1. PICK k, back : Goal(k, back)
      BY <2>4, GoalExists
    <3>2. Progress(k, back) /\ 0 \in Members /\ Members \subseteq Threads
      BY <1>1, <2>4, <3>1, ProgressOf, MemberFacts DEF Goal, DataInv
    <3>3. NextBarrier(0)' = <<k, back>>
      BY <1>1, <2>1, <3>1, NextKept DEF Goal
    <3>4. Nodes' = Nodes /\ Members' = Members
      BY <2>1 DEF Nodes, Members
    <3>5. \A u \in Members : SameStanding(u, k, back)
      BY <2>1, StandingKept
    <3>6. Progress(k, back)'
      BY <2>1, <3>2, <3>4, <3>5, ProgressKept
    <3> QED
      BY <1>2, <2>2, <2>4, <3>3, <3>6
  <2> QED
    BY <2>3, <2>4
<1> QED
  BY <1>5, <1>6, <1>7, <1>8, NextCases

LEMMA DataInit == Init => DataInv
<1> SUFFICES ASSUME Init PROVE DataInv
  OBVIOUS
<1>1. cgraph = 0 /\ state[0].pc = "idle"
  BY ZeroIsThread DEF Init, Fresh
<1> QED
  BY <1>1 DEF DataInv, JobTyped, FreshInv, Running, GraphSteps

(* A matrix product reads the whole of wdata: no thread computes a chunk    *)
(* before every thread of the graph has converted its share.                *)
THEOREM WdataFilled ==
  ASSUME NeverGrows
  PROVE  Spec => []WdataFilledBeforeUse
<1>1. Init => PoolInv /\ DataInv
  BY PoolInit, DataInit
<1>2. PoolInv /\ DataInv /\ [Next]_vars => PoolInv' /\ DataInv'
  BY PoolStep, DataStep
<1>3. PoolInv /\ DataInv => WdataFilledBeforeUse
  <2> SUFFICES ASSUME PoolInv, DataInv, NEW t \in Threads, At(t, "chunk")
               PROVE  converted[state[t].node + 1] = 0..state[t].nth-1
    BY DEF WdataFilledBeforeUse
  <2>1. ~Released(t) /\ state[t].pc \in GraphSteps \ {"graph"}
    BY DEF Released, At, GraphSteps
  <2>2. /\ Running /\ t \in Members /\ InGraph(t) /\ ~NotBegun(t)
        /\ state[t].nth = nThreadsCur /\ state[t].node \in 0..Len(Nodes)
    BY <2>1, InGraphFacts
  <2>3. Locals(t)
    BY <2>2 DEF PoolInv, GraphInv
  <2> DEFINE n == state[t].node
  <2>4. n < Len(Nodes) /\ Nodes[n + 1] > 0 /\ Len(Nodes) \in Nat
    BY <2>2, <2>3, RunningFacts DEF Locals, At
  <2>5. NextBarrier(0) = AfterNodeBarrier(n)
    BY <2>2, NextOfInGraph DEF PoolInv, InStep, At
  <2>6. PICK back \in {"loop", "leave"} :
          AfterNodeBarrier(n) = <<n + 1, back>> /\ Computing(n + 1, back)
    BY <2>2, <2>4, AfterNodeGoal
  <2>7. Progress(n + 1, back)
    BY <2>2, <2>5, <2>6, ProgressOf DEF DataInv
  <2>8. converted[n + 1] = Members
    BY <2>4, <2>6, <2>7 DEF Progress, Chunked
  <2> QED
    BY <2>2, <2>8 DEF Members
<1> QED
  BY <1>1, <1>2, <1>3, PTL DEF Spec

-----------------------------------------------------------------------------
(* The pool implements ParallelGraph.                                       *)
RowsInv == times = [n \in DOMAIN times |-> times[n]]

LEMMA RowsStep ==
  ASSUME RowsInv, [Next]_vars
  PROVE  RowsInv'
<1>1. CASE UNCHANGED times
  BY <1>1 DEF RowsInv
<1>2. CASE GraphCompute
  <2>1. PICK job : times' = [n \in DOMAIN job |-> [c \in job[n] |-> 0]]
    BY <1>2 DEF GraphCompute
  <2> QED
    BY <2>1 DEF RowsInv
<1>3. ASSUME NEW n, NEW c, times' = [times EXCEPT ![n][c] = @ + 1]
      PROVE  RowsInv'
  BY <1>3 DEF RowsInv
<1>4. ASSUME NEW t \in Threads, ForwardShare(t) \/ Chunk(t) PROVE RowsInv'
  BY <1>1, <1>3, <1>4 DEF ForwardShare, Chunk, Computed
<1>5. Next => \/ GraphCompute
              \/ \E t \in Threads : ForwardShare(t) \/ Chunk(t)
              \/ UNCHANGED times
  BY DEF Next, Kickoff, Free, Seek, GraphComputeThread, PauseOrResume, FreeStop,
         KickThreads, KickGraph, KickWake, FreeWake, Join, Top, PauseLock, StopTest,
         CheckForWork, Poll, PollGraph, PollActive, Lock, SpuriousWake, ReadsOnly,
         BeginGraph, LoopTest, ForwardConvert, FetchChunk, NodeDone, BarrierEnter,
         BarrierAdd, BarrierReset, BarrierPass, BarrierSpin, EndGraph, history
<1> QED
  BY <1>1, <1>2, <1>4, <1>5 DEF vars, history

LEMMA LenOfTimes ==
  ASSUME PoolInv, Running, JobTyped, RowsInv
  PROVE  Len(times) = Len(Nodes)
<1> DEFINE R == {times[n] : n \in 1..Len(Nodes)}
<1>1. DOMAIN times = 1..Len(Nodes) /\ Len(Nodes) \in Nat
  BY JobFacts, RunningFacts
<1>2. times \in [1..Len(Nodes) -> R]
  BY <1>1 DEF RowsInv
<1>3. times \in Seq(R)
  BY <1>1, <1>2, SeqDef
<1>4. DOMAIN times = 1..Len(times) /\ Len(times) \in Nat
  BY <1>3, LenProperties
<1> QED
  BY <1>1, <1>4

(* A chunk is computed once, after the nodes before.                        *)
LEMMA ComputeOnce ==
  ASSUME PoolInv, DataInv, Running, NEW t \in Threads, ForwardShare(t) \/ Chunk(t)
  PROVE  \/ UNCHANGED times
         \/ \E n \in DOMAIN times : \E c \in DOMAIN times[n] :
              /\ times[n][c] = 0 /\ \A m \in 1..n - 1 : Complete(m)
              /\ times' = [times EXCEPT ![n][c] = 1]
<1>1. Typed /\ 0 \in Members /\ JobTyped /\ InnerSteps(t)
  BY MemberFacts DEF PoolInv, DataInv, InnerSteps
<1>2. PICK k, back : Goal(k, back)
  BY GoalExists
<1>3. Progress(k, back)
  BY <1>2, ProgressOf DEF Goal, DataInv
<1>4. /\ state[t].pc \in {"forward", "chunk"} /\ state[t].pc \in GraphSteps \ {"graph"}
      /\ ~Released(t)
      /\ state[t].pc = "forward" => NodesOf(t)[state[t].node + 1] = 0
  BY DEF ForwardShare, Chunk, At, GraphSteps, Released
<1>5. t \in Members
  BY <1>4, InGraphFacts
<1>6. /\ InGraph(t) /\ NodesOf(t) = Nodes
      /\ state[t].node + 1 = k /\ state[t].node # k /\ state[t].nth = nThreadsCur
      /\ k \in 1..Len(Nodes) /\ Computing(k, back) /\ back \in {"loop", "leave"}
      /\ state[t].pc = "chunk" => Nodes[k] > 0
  BY <1>1, <1>2, <1>4, <1>5, NodeFacts DEF At
<1>7. \A m \in 1..k - 1 : Complete(m)
  BY <1>3, <1>6 DEF Progress, InOrder
<1>8. k \in DOMAIN times
  BY <1>1, <1>6, JobFacts
<1>9. ASSUME NEW c \in DOMAIN times[k], times[k][c] = 0, times' = [times EXCEPT ![k][c] = @ + 1]
      PROVE  \E n \in DOMAIN times : \E d \in DOMAIN times[n] :
               /\ times[n][d] = 0 /\ \A m \in 1..n - 1 : Complete(m)
               /\ times' = [times EXCEPT ![n][d] = 1]
  <2>1. times' = [times EXCEPT ![k][c] = 1]
    BY <1>8, <1>9
  <2> QED
    BY <1>7, <1>8, <1>9, <2>1
<1>10. CASE ForwardShare(t)
  <2>1. state[t].pc = "forward" /\ Nodes[k] = 0 /\ times' = [times EXCEPT ![k][t] = @ + 1]
    BY <1>6, <1>10 DEF ForwardShare, Computed, At
  <2>2. DOMAIN times[k] = Members
    BY <1>1, <1>6, <2>1, ShareDomain
  <2>3. ~PartDone(t, k)
    BY <1>6, <2>1 DEF PartDone, At
  <2>4. times[k][t] = 0
    BY <1>3, <1>5, <1>6, <2>1, <2>3 DEF Progress, Shared
  <2> QED
    BY <1>5, <1>9, <2>1, <2>2, <2>4
<1>11. CASE Chunk(t)
  <2> DEFINE c == state[t].chunk
  <2>1. CASE c < ChunksOf(t) /\ times' = [times EXCEPT ![k][c] = @ + 1]
    <3>1. Holding(t) /\ Nodes[k] > 0 /\ Chunked(k)
      BY <1>3, <1>6, <1>11 DEF Chunk, At, Holding, Progress
    <3>2. ChunksOf(t) = NChunks(Nodes[k], nThreadsCur)
      BY <1>6 DEF ChunksOf
    <3>3. c \in Nat /\ ChunksOf(t) \in Nat /\ DOMAIN times[k] = 0..ChunksOf(t) - 1
      BY <1>1, <1>6, <3>2, JobFacts DEF Typed, ThreadState
    <3>4. c \in DOMAIN times[k]
      BY <2>1, <3>3
    <3>5. ~NotHeld(c)
      BY <1>5, <3>1 DEF NotHeld
    <3>6. times[k][c] = 0
      BY <3>1, <3>4, <3>5 DEF Chunked
    <3> HIDE DEF c
    <3> QED
      BY <1>9, <2>1, <3>4, <3>6
  <2> QED
    BY <1>1, <1>6, <1>11, <2>1, ChunkFacts DEF Computed
<1> QED
  BY <1>10, <1>11

(* Thread 0 returns from a graph of which some first nodes are complete.    *)
LEMMA ReturnFacts ==
  ASSUME PoolInv, DataInv, RowsInv, EndGraph(0)
  PROVE  \E done \in 0..Len(times) :
           /\ \A n \in 1..done : Complete(n)
           /\ \A n \in done + 1..Len(times) : Clean(n)
           /\ ec = "success" => done = Len(times)
<1>1. state[0].pc = "leave" /\ Typed /\ 0 \in Members /\ 0 \in Threads /\ JobTyped
  BY MemberFacts DEF EndGraph, At, PoolInv, DataInv
<1>2. Running /\ InGraph(0) /\ ~NotBegun(0)
  BY <1>1 DEF Running, InGraph, NotBegun, PoolInv, CallerInv, GraphSteps, At
<1>3. NextBarrier(0) = <<0, "top">>
  BY <1>1, <1>2, NextOfInGraph DEF At, End
<1>4. Finished(state[0].node)
  <2>1. Progress(0, "top")
    BY <1>2, <1>3, ProgressOf DEF DataInv
  <2> QED
    BY <2>1 DEF Progress
<1>5. /\ state[0].node <= Len(Nodes)
      /\ state[0].node = Len(Nodes) \/ abort = state[0].node
      /\ state[0].node \in Nat /\ Len(Nodes) \in Nat
  BY <1>1, <1>2, RunningFacts DEF PoolInv, GraphInv, Locals, Typed, ThreadState
<1>6. ec = "success" => state[0].node = Len(Nodes)
  <2>1. ec = "success" => abort = -1
    BY <1>2 DEF PoolInv, AbortInv
  <2> QED
    BY <1>5, <2>1
<1>7. Len(times) = Len(Nodes)
  BY <1>1, <1>2, LenOfTimes
<1>8. state[0].node \in 0..Len(times)
  BY <1>5, <1>7
<1> QED
  BY <1>4, <1>6, <1>7, <1>8 DEF Finished

LEMMA StatusFacts ==
  ASSUME PoolInv
  PROVE  /\ Running => Status = "running"
         /\ At(0, "idle") => Status = "idle"
         /\ state[0].pc \in {"kickThreads", "kickGraph"} => Status = "running"
         /\ state[0].pc \in {"freeWake", "join", "freed"} => Status = "freed"
BY DEF Status, Running, GraphSteps, At

LEMMA RefinementInit == Init => PG!Init
<1> SUFFICES ASSUME Init PROVE PG!Init
  OBVIOUS
<1>1. state[0].pc = "idle" /\ times = <<>> /\ ret = "success"
  BY ZeroIsThread DEF Init, Fresh
<1> QED
  BY <1>1 DEF PG!Init, Status

LEMMA RefinementStep ==
  ASSUME PoolInv, DataInv, RowsInv, [Next]_vars
  PROVE  [PG!Next]_(PG!vars)
<1>1. Typed /\ 0 \in Threads /\ Workers = Threads \ {0}
  BY MemberFacts DEF PoolInv
<1>2. ASSUME UNCHANGED <<times, ret>>, Status' = Status
      PROVE  [PG!Next]_(PG!vars)
  BY <1>2 DEF PG!vars
<1>3. ASSUME state'[0] = state[0] PROVE Status' = Status
  BY <1>3 DEF Status
<1>4. ASSUME NextOfThreads PROVE [PG!Next]_(PG!vars)
  <2>1. PICK t \in Threads : BeginGraph(t) \/ InnerSteps(t) \/ EndGraph(t)
    BY <1>4 DEF NextOfThreads
  <2>2. Alone(t)
    BY <2>1, RunningSteps
  <2>3. ASSUME ~(t = 0 /\ EndGraph(t)) PROVE Status' = Status
    <3>1. CASE t # 0
      BY <1>1, <1>3, <2>2, <3>1 DEF Alone, Others
    <3>2. CASE t = 0
      <4>1. Running /\ Running'
        BY <2>1, <2>3, <3>2, RunningSteps
      <4> QED
        BY <4>1 DEF Status, Running, GraphSteps
    <3> QED
      BY <3>1, <3>2
  <2>4. CASE t = 0 /\ EndGraph(t)
    <3>1. PICK done \in 0..Len(times) :
            /\ \A n \in 1..done : Complete(n)
            /\ \A n \in done + 1..Len(times) : Clean(n)
            /\ ec = "success" => done = Len(times)
      BY <2>4, ReturnFacts
    <3>2. state[0].pc = "leave" /\ state'[0].pc = "idle" /\ ret' = ec /\ UNCHANGED times
      BY <1>1, <2>4, EndGraphFacts DEF EndGraph, At, history
    <3>3. Status = "running" /\ Status' = "idle"
      BY <3>2 DEF Status
    <3>4. /\ \A n : PG!Complete(n) <=> Complete(n)
          /\ \A n : PG!Clean(n) <=> Clean(n)
      BY DEF PG!Complete, PG!Clean, Complete, Clean
    <3>5. ec \in {"success", "aborted"}
      BY <1>1 DEF Typed
    <3>6. PG!Return(ec)
      BY <3>1, <3>2, <3>3, <3>4 DEF PG!Return
    <3> QED
      BY <3>5, <3>6 DEF PG!Next, PG!Work
  <2>5. CASE (ForwardShare(t) \/ Chunk(t)) /\ ~(t = 0 /\ EndGraph(t))
    <3>1. InnerSteps(t)
      BY <2>5 DEF InnerSteps
    <3>2. Inner(t) /\ UNCHANGED ret
      BY <3>1, InnerFacts DEF Inner
    <3>3. Running
      <4>1. state[t].pc \in GraphSteps \ {"graph"} /\ ~Released(t)
        BY <2>5 DEF ForwardShare, Chunk, At, GraphSteps, Released
      <4> QED
        BY <4>1, InGraphFacts
    <3>4. CASE UNCHANGED times
      BY <1>2, <2>3, <2>5, <3>2, <3>4
    <3>5. CASE \E n \in DOMAIN times : \E c \in DOMAIN times[n] :
                 /\ times[n][c] = 0 /\ \A m \in 1..n - 1 : Complete(m)
                 /\ times' = [times EXCEPT ![n][c] = 1]
      <4>0. PICK n \in DOMAIN times : \E c \in DOMAIN times[n] :
              /\ times[n][c] = 0 /\ \A m \in 1..n - 1 : Complete(m)
              /\ times' = [times EXCEPT ![n][c] = 1]
        BY <3>5
      <4>1. PICK c \in DOMAIN times[n] :
              /\ times[n][c] = 0 /\ \A m \in 1..n - 1 : Complete(m)
              /\ times' = [times EXCEPT ![n][c] = 1]
        BY <4>0
      <4>2. Status = "running" /\ Status' = Status
        BY <2>3, <2>5, <3>3, StatusFacts
      <4>3. \A m : PG!Complete(m) <=> Complete(m)
        BY DEF PG!Complete, Complete
      <4>4. PG!Compute(n, c)
        BY <3>2, <4>1, <4>2, <4>3 DEF PG!Compute
      <4> QED
        BY <4>4 DEF PG!Next, PG!Work
    <3> QED
      BY <2>5, <3>3, <3>4, <3>5, ComputeOnce
  <2>6. CASE ~(ForwardShare(t) \/ Chunk(t)) /\ ~(t = 0 /\ EndGraph(t))
    <3>1. UNCHANGED times
      BY <2>1, <2>6 DEF BeginGraph, InnerSteps, LoopTest, ForwardConvert, FetchChunk, NodeDone,
         BarrierEnter, BarrierAdd, BarrierReset, BarrierPass, BarrierSpin, EndGraph, history
    <3>2. UNCHANGED ret
      <4>1. BeginGraph(t) \/ EndGraph(t) => UNCHANGED ret
        BY <2>6 DEF BeginGraph, EndGraph, outcome
      <4> QED
        BY <2>1, <4>1, InnerFacts DEF Inner
    <3> QED
      BY <1>2, <2>3, <2>6, <3>1, <3>2
  <2> QED
    BY <2>4, <2>5, <2>6
<1>5. ASSUME NextOfWorkers PROVE [PG!Next]_(PG!vars)
  <2>1. PICK w \in Workers : SeekStep(w)
    BY <1>1, <1>5, SeekFacts DEF NextOfWorkers
  <2>2. UNCHANGED <<times, ret>> /\ state'[0] = state[0]
    BY <1>1, <2>1 DEF SeekStep, ReadsOnly, Alone, Others, outcome, history
  <2> QED
    BY <1>2, <1>3, <2>2
<1>6. ASSUME NextOfCaller PROVE [PG!Next]_(PG!vars)
  <2>1. CASE GraphCompute
    <3> DEFINE g == plan[cgraph + 1]
               job == JobOf(g, Min2(g.threads, NThreads))
    <3>1. job \in AllJobs
      <4>1. plan \in Plans /\ cgraph + 1 \in DOMAIN plan
        BY <1>1, <2>1, PlansAssumption DEF Typed, GraphCompute
      <4> QED
        BY <4>1 DEF AllJobs
    <3>2. times' = [n \in DOMAIN job |-> [c \in job[n] |-> 0]] /\ ret' = ret
      BY <2>1 DEF GraphCompute
    <3>3. Status = "idle" /\ Status' = "running"
      <4>1. state[0].pc = "idle" /\ state'[0].pc = "kickThreads"
        BY <1>1, <2>1, CallerFacts DEF GraphCompute, At
      <4> QED
        BY <4>1 DEF Status
    <3> HIDE DEF job
    <3>4. PG!Start(job)
      BY <3>2, <3>3 DEF PG!Start, PG!Untouched
    <3> QED
      BY <3>1, <3>4 DEF PG!Next
  <2>2. CASE FreeStop
    <3>1. state[0].pc = "idle" /\ state'[0].pc = "freeWake" /\ UNCHANGED <<times, ret>>
      BY <1>1, <2>2, CallerFacts DEF FreeStop, At, outcome, history
    <3>2. PG!Free
      BY <3>1 DEF PG!Free, Status
    <3> QED
      BY <3>2 DEF PG!Next
  <2>3. CASE KickThreads \/ KickGraph \/ KickWake \/ PauseOrResume \/ FreeWake \/ Join
    <3>1. UNCHANGED <<times, ret>>
      BY <2>3 DEF KickThreads, KickGraph, KickWake, PauseOrResume, FreeWake, Join,
                  outcome, history
    <3>2. \/ state[0].pc = "kickThreads" /\ state'[0].pc = "kickGraph"
          \/ state[0].pc = "kickGraph" /\ state'[0].pc = "kickWake"
          \/ state[0].pc = "kickWake" /\ state'[0].pc = "graph"
          \/ state[0].pc = "idle" /\ state'[0].pc = "idle"
          \/ state[0].pc = "freeWake" /\ state'[0].pc = "join"
          \/ state[0].pc = "join" /\ state'[0].pc = "freed"
      BY <1>1, <2>3, CallerFacts
         DEF Wakes, KickThreads, KickGraph, KickWake, PauseOrResume, FreeWake, Join, At
    <3>3. Status' = Status
      BY <3>2 DEF Status
    <3> QED
      BY <1>2, <3>1, <3>3
  <2> QED
    BY <1>6, <2>1, <2>2, <2>3 DEF NextOfCaller
<1>7. ASSUME UNCHANGED vars PROVE [PG!Next]_(PG!vars)
  <2>1. UNCHANGED <<times, ret, state>>
    BY <1>7 DEF vars, outcome, history
  <2> QED
    BY <1>2, <1>3, <2>1
<1> QED
  BY <1>4, <1>5, <1>6, <1>7, NextCases

(* The pool computes its graphs as ParallelGraph promises: node by node,    *)
(* each chunk once, and a call that returns success has computed its graph. *)
THEOREM ComputesAsPromised ==
  ASSUME NeverGrows
  PROVE  Spec => PG!Init /\ [][PG!Next]_(PG!vars)
<1>1. Init => PoolInv /\ DataInv /\ RowsInv
  <2>1. Init => RowsInv
    BY DEF Init, RowsInv
  <2> QED
    BY <2>1, PoolInit, DataInit
<1>2. PoolInv /\ DataInv /\ RowsInv /\ [Next]_vars => PoolInv' /\ DataInv' /\ RowsInv'
  BY PoolStep, DataStep, RowsStep
<1>3. Init => PG!Init
  BY RefinementInit
<1>4. PoolInv /\ DataInv /\ RowsInv /\ [Next]_vars => [PG!Next]_(PG!vars)
  BY RefinementStep
<1> QED
  BY <1>1, <1>2, <1>3, <1>4, PTL DEF Spec

=============================================================================
