----------------------------- MODULE ThreadPool -----------------------------
(***************************************************************************)
(* ggml-cpu: the thread pool that computes every graph of the transcription *)
(* engine on the CPU.  Thread 0 is the caller of ggml_graph_compute, the    *)
(* others are the secondary threads, which poll for a graph, then sleep on  *)
(* the condition variable.  The program is built without OpenMP, so that    *)
(* ggml_barrier is the counter of ggml-cpu.c.                               *)
(*                                                                          *)
(* One action is one access to a shared atomic, or one section under the    *)
(* mutex; atomics are taken as sequentially consistent.  A section of a     *)
(* secondary thread is one action, since all it reads is written only       *)
(* under the mutex; the sections of kickoff and free are several, since     *)
(* polling threads see their stores one by one.                             *)
(***************************************************************************)
EXTENDS Integers, Sequences

CONSTANTS NThreads, \* ggml_threadpool.n_threads_max
          Plans     \* the sequences of graphs a caller may compute on a pool

(* A graph is its cplan's n_threads and, per node, 0 for an operation that  *)
(* gives each thread one share, or the number of chunks that a matrix       *)
(* product would divide into.                                               *)
Graph == [threads : Nat \ {0}, nodes : Seq(Nat)]
ASSUME PlansAssumption ==
  /\ NThreads \in Nat \ {0}
  /\ Plans \subseteq Seq(Graph)

(* No graph asks for more threads than the one before.  Whisper gives each  *)
(* graph a pool of its own (ggml-cpu.c:3063), with a single graph to run.   *)
NeverGrows ==
  \A p \in Plans : \A i \in 2..Len(p) : p[i].threads <= p[i - 1].threads

VARIABLES
  plan,           \* the calls the caller will make
  cgraph,         \* ggml_threadpool.cgraph, an index of plan (0: NULL)
  mutex,          \* ggml_threadpool.mutex is held by the caller
  nGraph,         \* ggml_threadpool.n_graph
  nThreadsCur,    \* ggml_threadpool.n_threads_cur
  nBarrier,       \* ggml_threadpool.n_barrier
  nBarrierPassed, \* ggml_threadpool.n_barrier_passed
  currentChunk,   \* ggml_threadpool.current_chunk
  stop, pause,    \* ggml_threadpool.stop, ggml_threadpool.pause
  abort,          \* ggml_threadpool.abort
  ec,             \* ggml_threadpool.ec
  ret,            \* what the last ggml_graph_compute returned
  state,          \* per thread: ggml_compute_state and its local variables
  times,          \* times[n][c]: runs of chunk c of node n (history)
  converted       \* converted[n]: threads that filled their share of wdata

switches == <<stop, pause>>
barrier  == <<nBarrier, nBarrierPassed>>
history  == <<times, converted>>
outcome  == <<abort, ec, ret>>
vars == <<plan, cgraph, mutex, nGraph, nThreadsCur, barrier, currentChunk,
          switches, outcome, state, history>>

Threads == 0..NThreads-1
Workers == 1..NThreads-1

(* "kick..." is ggml_graph_compute_kickoff, "free..." ggml_threadpool_free, *)
(* "top" to "lock" the loop of a secondary thread, "graph" to "leave"       *)
(* ggml_graph_compute_thread and the barrier it calls.                      *)
CallerSteps == {"idle", "kickThreads", "kickGraph", "kickWake", "freeWake",
                "join", "freed"}
WorkerSteps == {"top", "pauseLock", "pauseWait", "stopTest", "check", "poll",
                "pollGraph", "pollActive", "lock", "wait", "exited"}
GraphSteps  == {"graph", "loop", "forward", "chunk", "fetch", "nodeDone",
                "enter", "add", "reset", "pass", "spin", "leave"}

-----------------------------------------------------------------------------
(* ggml_compute_forward_mul_mat divides again by thread when there are too  *)
(* few chunks; any other operation gives each thread its share.             *)
NChunks(size, nth) == IF size < 4 * nth THEN nth ELSE size

Min2(a, b) == IF a < b THEN a ELSE b

(* The chunks of each node of graph g when nth threads compute it.          *)
JobOf(g, nth) == [n \in DOMAIN g.nodes |-> 0..NChunks(g.nodes[n], nth)-1]

NodesOf(t) == plan[state[t].graph].nodes
ChunksOf(t) == NChunks(NodesOf(t)[state[t].node + 1], state[t].nth)

Active(w) == w < nThreadsCur

(* "graph", "nth", "node" and "chunk" are the locals of the graph, "passed" *)
(* and "members" those of the barrier, "back" where it returns to, "seen"   *)
(* the new_graph of a poll.  "pending" is true exactly at "graph".          *)
Fresh == [pc |-> "top", lastGraph |-> 0, seen |-> 0, graph |-> 0, nth |-> 0,
          node |-> 0, chunk |-> 0, passed |-> 0, members |-> 0,
          back |-> "top"]

(* ggml_threadpool_new_impl with paused or running threads.                 *)
Init ==
  /\ plan \in Plans
  /\ cgraph = 0
  /\ mutex = FALSE
  /\ nGraph = 0
  /\ nThreadsCur = NThreads
  /\ nBarrier = 0 /\ nBarrierPassed = 0
  /\ currentChunk = 0
  /\ stop = FALSE
  /\ pause \in BOOLEAN
  /\ abort = -1 /\ ec = "success" /\ ret = "success"
  /\ state = [t \in Threads |->
                IF t = 0 THEN [Fresh EXCEPT !.pc = "idle"] ELSE Fresh]
  /\ times = <<>>
  /\ converted = <<>>

At(t, pc) == state[t].pc = pc
Goto(t, pc) == state' = [state EXCEPT ![t].pc = pc]

(* ggml_cond_broadcast: a thread that wakes up takes the mutex again.       *)
Awake(s) == CASE s.pc = "pauseWait" -> [s EXCEPT !.pc = "top"]
              [] s.pc = "wait"      -> [s EXCEPT !.pc = "lock"]
              [] OTHER              -> s
Broadcast(pc0) ==
  state' = [[t \in Threads |-> Awake(state[t])] EXCEPT ![0].pc = pc0]

-----------------------------------------------------------------------------
(* The caller.                                                              *)

(* ggml_graph_compute: reset the pool for the next graph.                   *)
GraphCompute ==
  /\ At(0, "idle") /\ cgraph < Len(plan)
  /\ cgraph' = cgraph + 1
  /\ currentChunk' = 0
  /\ abort' = -1
  /\ ec' = "success"
  /\ LET g == plan[cgraph + 1]
         job == JobOf(g, Min2(g.threads, NThreads)) IN
     /\ times' = [n \in DOMAIN job |-> [c \in job[n] |-> 0]]
     /\ converted' = [n \in DOMAIN job |-> {}]
  /\ Goto(0, "kickThreads")
  /\ UNCHANGED <<plan, mutex, nGraph, nThreadsCur, barrier, switches, ret>>

(* ggml_graph_compute_kickoff, under the mutex.                             *)
KickThreads ==
  /\ At(0, "kickThreads") /\ ~mutex
  /\ mutex' = TRUE
  /\ nThreadsCur' = Min2(plan[cgraph].threads, NThreads)
  /\ Goto(0, "kickGraph")
  /\ UNCHANGED <<plan, cgraph, nGraph, barrier, currentChunk, switches,
                 outcome, history>>

KickGraph ==
  /\ At(0, "kickGraph")
  /\ nGraph' = nGraph + 1
  /\ Goto(0, "kickWake")
  /\ UNCHANGED <<plan, cgraph, mutex, nThreadsCur, barrier, currentChunk,
                 switches, outcome, history>>

KickWake ==
  /\ At(0, "kickWake")
  /\ pause' = FALSE
  /\ Broadcast("graph")
  /\ mutex' = FALSE
  /\ UNCHANGED <<plan, cgraph, nGraph, nThreadsCur, barrier, currentChunk,
                 stop, outcome, history>>

(* ggml_threadpool_pause and ggml_threadpool_resume, between two graphs.    *)
PauseOrResume ==
  /\ At(0, "idle") /\ ~mutex
  /\ pause' = ~pause
  /\ Broadcast("idle")
  /\ UNCHANGED <<plan, cgraph, mutex, nGraph, nThreadsCur, barrier,
                 currentChunk, stop, outcome, history>>

(* ggml_threadpool_free: tell the threads, then join them.                  *)
FreeStop ==
  /\ At(0, "idle") /\ ~mutex
  /\ mutex' = TRUE
  /\ stop' = TRUE
  /\ Goto(0, "freeWake")
  /\ UNCHANGED <<plan, cgraph, nGraph, nThreadsCur, barrier, currentChunk,
                 pause, outcome, history>>

(* Fault: free leaves the threads paused.                                   *)
FreeWakeKeepsPause ==
  /\ At(0, "freeWake")
  /\ Broadcast("join")
  /\ mutex' = FALSE
  /\ UNCHANGED <<plan, cgraph, nGraph, nThreadsCur, barrier, currentChunk,
                 switches, outcome, history>>

FreeWake ==
  /\ At(0, "freeWake")
  /\ pause' = FALSE
  /\ Broadcast("join")
  /\ mutex' = FALSE
  /\ UNCHANGED <<plan, cgraph, nGraph, nThreadsCur, barrier, currentChunk,
                 stop, outcome, history>>

Join ==
  /\ At(0, "join") /\ \A w \in Workers : At(w, "exited")
  /\ Goto(0, "freed")
  /\ UNCHANGED <<plan, cgraph, mutex, nGraph, nThreadsCur, barrier,
                 currentChunk, switches, outcome, history>>

-----------------------------------------------------------------------------
(* The loop of a secondary thread, which changes nothing but its own state. *)

ReadsOnly == UNCHANGED <<plan, cgraph, mutex, nGraph, nThreadsCur, barrier,
                         currentChunk, switches, outcome, history>>

(* while (threadpool->pause): the flag is read again under the mutex.       *)
Top(w) ==
  /\ At(w, "top")
  /\ Goto(w, IF pause THEN "pauseLock" ELSE "stopTest")
  /\ ReadsOnly

PauseLock(w) ==
  /\ At(w, "pauseLock") /\ ~mutex
  /\ Goto(w, IF pause THEN "pauseWait" ELSE "top")
  /\ ReadsOnly

StopTest(w) ==
  /\ At(w, "stopTest")
  /\ Goto(w, IF stop THEN "exited" ELSE "check")
  /\ ReadsOnly

(* ggml_graph_compute_check_for_work: threads the last graph did not use    *)
(* do not poll.                                                             *)
CheckForWork(w) ==
  /\ At(w, "check")
  /\ Goto(w, IF Active(w) THEN "poll" ELSE "lock")
  /\ ReadsOnly

(* ggml_graph_compute_thread_ready in the polling loop.                     *)
Poll(w) ==
  /\ At(w, "poll")
  /\ Goto(w, IF stop \/ pause THEN "lock" ELSE "pollGraph")
  /\ ReadsOnly

PollGraph(w) ==
  /\ At(w, "pollGraph")
  /\ \/ /\ nGraph # state[w].lastGraph
        /\ state' = [state EXCEPT ![w].seen = nGraph, ![w].pc = "pollActive"]
     \/ /\ nGraph = state[w].lastGraph
        /\ \E pc \in {"poll", "lock"} : Goto(w, pc)
  /\ ReadsOnly

PollActive(w) ==
  /\ At(w, "pollActive")
  /\ \E pc \in IF Active(w) THEN {"graph"} ELSE {"poll", "lock"} :
       state' = [state EXCEPT ![w].lastGraph = state[w].seen, ![w].seen = 0,
                              ![w].pc = pc]
  /\ ReadsOnly

(* ggml_graph_compute_thread_ready under the mutex, or sleep.               *)
Lock(w) ==
  /\ At(w, "lock") /\ ~mutex
  /\ \/ /\ stop \/ pause
        /\ Goto(w, "top")
     \/ /\ ~stop /\ ~pause
        /\ nGraph # state[w].lastGraph
        /\ state' = [state EXCEPT ![w].lastGraph = nGraph,
                                  ![w].pc = IF Active(w) THEN "graph"
                                                         ELSE "wait"]
     \/ /\ ~stop /\ ~pause
        /\ nGraph = state[w].lastGraph
        /\ Goto(w, "wait")
  /\ ReadsOnly

(* A condition variable may wake a thread up without a broadcast.           *)
SpuriousWake(w) ==
  /\ state[w].pc \in {"wait", "pauseWait"}
  /\ state' = [state EXCEPT ![w] = Awake(@)]
  /\ ReadsOnly

-----------------------------------------------------------------------------
(* ggml_graph_compute_thread, on every thread of the graph.                 *)

pool == <<plan, cgraph, mutex, nGraph, nThreadsCur, switches>>

BeginGraph(t) ==
  /\ At(t, "graph")
  /\ state' = [state EXCEPT ![t].graph = cgraph,
                            ![t].nth = nThreadsCur, ![t].node = 0,
                            ![t].pc = "loop"]
  /\ UNCHANGED <<pool, barrier, currentChunk, outcome, history>>

(* Enter ggml_barrier, to go on at "back" after it.                         *)
Wait(t, node, back) ==
  [state EXCEPT ![t].node = node, ![t].chunk = 0, ![t].back = back,
                ![t].pc = "enter"]

(* Fault: the last barrier of a graph is missing.                           *)
LoopTestNoBarrier(t) ==
  /\ At(t, "loop")
  /\ Goto(t, IF state[t].node < Len(NodesOf(t)) /\ abort # state[t].node
             THEN "forward" ELSE "leave")
  /\ UNCHANGED <<pool, barrier, currentChunk, outcome, history>>

LoopTest(t) ==
  /\ At(t, "loop")
  /\ \/ /\ state[t].node < Len(NodesOf(t)) /\ abort # state[t].node
        /\ Goto(t, "forward")
     \/ /\ state[t].node = Len(NodesOf(t)) \/ abort = state[t].node
        /\ state' = Wait(t, state[t].node, "leave")
  /\ UNCHANGED <<pool, barrier, currentChunk, outcome, history>>

Computed(t, c) == times' = [times EXCEPT ![state[t].node + 1][c] = @ + 1]

(* Any operation but a matrix product: the share of this thread.            *)
ForwardShare(t) ==
  /\ At(t, "forward") /\ NodesOf(t)[state[t].node + 1] = 0
  /\ Computed(t, t)
  /\ Goto(t, "nodeDone")
  /\ UNCHANGED <<pool, barrier, currentChunk, outcome, converted>>

(* Fault: the counter starts with the chunks the threads start with.        *)
ChunkZero(nth) == 0

(* The first of the chunks that no thread starts with.                      *)
FirstFreeChunk(nth) == nth

(* Fault: no barrier between the conversion and the product.                *)
ConvertNoBarrier(t) ==
  /\ At(t, "forward") /\ NodesOf(t)[state[t].node + 1] > 0
  /\ converted' = [converted EXCEPT ![state[t].node + 1] = @ \union {t}]
  /\ currentChunk' = IF t = 0 THEN FirstFreeChunk(state[t].nth)
                              ELSE currentChunk
  /\ state' = [state EXCEPT ![t].chunk = t, ![t].pc = "chunk"]
  /\ UNCHANGED <<pool, barrier, outcome, times>>

(* A matrix product: convert a share of src1 into wdata, which all threads  *)
(* read after the barrier; thread 0 resets the chunk counter.               *)
ForwardConvert(t) ==
  /\ At(t, "forward") /\ NodesOf(t)[state[t].node + 1] > 0
  /\ converted' = [converted EXCEPT ![state[t].node + 1] = @ \union {t}]
  /\ currentChunk' = IF t = 0 THEN FirstFreeChunk(state[t].nth)
                              ELSE currentChunk
  /\ state' = [Wait(t, state[t].node, "chunk") EXCEPT ![t].chunk = t]
  /\ UNCHANGED <<pool, barrier, outcome, times>>

Chunk(t) ==
  /\ At(t, "chunk")
  /\ \/ /\ state[t].chunk < ChunksOf(t)
        /\ Computed(t, state[t].chunk)
        /\ Goto(t, IF state[t].nth >= ChunksOf(t) THEN "nodeDone" ELSE "fetch")
     \/ /\ state[t].chunk >= ChunksOf(t)
        /\ Goto(t, "nodeDone")
        /\ UNCHANGED times
  /\ UNCHANGED <<pool, barrier, currentChunk, outcome, converted>>

FetchChunk(t) ==
  /\ At(t, "fetch")
  /\ state' = [state EXCEPT ![t].chunk = currentChunk, ![t].pc = "chunk"]
  /\ currentChunk' = currentChunk + 1
  /\ UNCHANGED <<pool, barrier, outcome, history>>

(* The barrier that ends node n, unless it is the last of the graph.        *)
AfterNode(t, next) ==
  IF next < Len(NodesOf(t))
  THEN Wait(t, next, "loop")
  ELSE [state EXCEPT ![t].node = next, ![t].chunk = 0, ![t].pc = "loop"]

(* The end of a node: thread 0 asks the caller whether to abort.            *)
NodeDone(t) ==
  /\ At(t, "nodeDone")
  /\ \/ /\ t = 0
        /\ abort' = state[t].node + 1
        /\ ec' = "aborted"
     \/ UNCHANGED <<abort, ec>>
  /\ state' = AfterNode(t, state[t].node + 1)
  /\ UNCHANGED <<pool, barrier, currentChunk, ret, history>>

-----------------------------------------------------------------------------
(* ggml_barrier.                                                            *)

BarrierEnter(t) ==
  /\ At(t, "enter")
  /\ state' = IF nThreadsCur = 1
              THEN [state EXCEPT ![t].pc = state[t].back]
              ELSE [state EXCEPT ![t].passed = nBarrierPassed,
                                 ![t].members = nThreadsCur, ![t].pc = "add"]
  /\ UNCHANGED <<pool, barrier, currentChunk, outcome, history>>

BarrierAdd(t) ==
  /\ At(t, "add")
  /\ nBarrier' = nBarrier + 1
  /\ Goto(t, IF nBarrier = state[t].members - 1 THEN "reset" ELSE "spin")
  /\ UNCHANGED <<pool, nBarrierPassed, currentChunk, outcome, history>>

(* Fault: the counter of the barrier is not reset.                          *)
BarrierNotReset(t) ==
  /\ At(t, "reset")
  /\ Goto(t, "pass")
  /\ UNCHANGED <<pool, barrier, currentChunk, outcome, history>>

BarrierReset(t) ==
  /\ At(t, "reset")
  /\ nBarrier' = 0
  /\ Goto(t, "pass")
  /\ UNCHANGED <<pool, nBarrierPassed, currentChunk, outcome, history>>

Leave(t) == state' = [state EXCEPT ![t].pc = state[t].back, ![t].passed = 0,
                                   ![t].members = 0]

BarrierPass(t) ==
  /\ At(t, "pass")
  /\ nBarrierPassed' = nBarrierPassed + 1
  /\ Leave(t)
  /\ UNCHANGED <<pool, nBarrier, currentChunk, outcome, history>>

BarrierSpin(t) ==
  /\ At(t, "spin") /\ nBarrierPassed # state[t].passed
  /\ Leave(t)
  /\ UNCHANGED <<pool, barrier, currentChunk, outcome, history>>

(* The end of the graph for this thread; thread 0 returns to its caller.    *)
EndGraph(t) ==
  /\ At(t, "leave")
  /\ state' = [state EXCEPT ![t].graph = 0, ![t].nth = 0,
                            ![t].node = 0, ![t].back = "top",
                            ![t].pc = IF t = 0 THEN "idle" ELSE "top"]
  /\ ret' = IF t = 0 THEN ec ELSE ret
  /\ UNCHANGED <<pool, barrier, currentChunk, abort, ec, history>>

-----------------------------------------------------------------------------
Kickoff == KickThreads \/ KickGraph \/ KickWake
Free    == FreeWake \/ Join
Seek(w) ==
  \/ Top(w) \/ PauseLock(w) \/ StopTest(w) \/ CheckForWork(w)
  \/ Poll(w) \/ PollGraph(w) \/ PollActive(w) \/ Lock(w)
GraphComputeThread(t) ==
  \/ BeginGraph(t) \/ LoopTest(t)
  \/ ForwardShare(t) \/ ForwardConvert(t) \/ Chunk(t) \/ FetchChunk(t)
  \/ NodeDone(t)
  \/ BarrierEnter(t) \/ BarrierAdd(t) \/ BarrierReset(t) \/ BarrierPass(t)
  \/ BarrierSpin(t) \/ EndGraph(t)

Next ==
  \/ GraphCompute \/ PauseOrResume \/ FreeStop
  \/ Kickoff \/ Free
  \/ \E w \in Workers : Seek(w) \/ SpuriousWake(w)
  \/ \E t \in Threads : GraphComputeThread(t)

(* The scheduler runs every thread; what the caller does next is its own    *)
(* choice.                                                                  *)
Fairness ==
  /\ WF_vars(Kickoff \/ Free)
  /\ \A w \in Workers : WF_vars(Seek(w))
  /\ \A t \in Threads : WF_vars(GraphComputeThread(t))

Spec == Init /\ [][Next]_vars /\ Fairness

-----------------------------------------------------------------------------
(* Every variable has its type; the barrier counts fewer threads than there *)
(* are, since the last one to enter resets it.                              *)
TypeOK ==
  /\ plan \in Plans /\ cgraph \in 0..Len(plan)
  /\ mutex \in BOOLEAN /\ stop \in BOOLEAN /\ pause \in BOOLEAN
  /\ nGraph \in 0..Len(plan) /\ nThreadsCur \in 1..NThreads
  /\ nBarrier \in 0..NThreads /\ nBarrierPassed \in Nat
  /\ currentChunk \in Nat /\ abort \in Int
  /\ {ec, ret} \subseteq {"success", "aborted"}
  /\ \A t \in Threads :
       /\ state[t].pc \in GraphSteps \union
                        IF t = 0 THEN CallerSteps ELSE WorkerSteps
       /\ state[t].lastGraph \in 0..nGraph
       /\ state[t].nth \in 0..NThreads
       /\ state[t].graph \in 0..cgraph

(* "No worker threads should be accessing the parameters below at this      *)
(* stage" (ggml-cpu.c:3066): while the caller is between two graphs, no     *)
(* secondary thread is computing one, nor can it be about to: the only      *)
(* threads still in the graph have passed, or are released from, its last   *)
(* barrier.                                                                 *)
Released(w) ==
  \/ At(w, "leave")
  \/ At(w, "spin") /\ state[w].back = "leave"
                   /\ nBarrierPassed # state[w].passed
WorkersOutsideBetweenGraphs ==
  At(0, "idle") => \A w \in Workers : state[w].pc \in WorkerSteps \/ Released(w)

(* A matrix product reads the whole of wdata: no thread computes a chunk    *)
(* before every thread of the graph has converted its share.                *)
WdataFilledBeforeUse ==
  \A t \in Threads :
    At(t, "chunk") => converted[state[t].node + 1] = 0..state[t].nth-1

(* A pool that is freed ends: every secondary thread notices, asleep,       *)
(* polling or paused.                                                       *)
FreeEnds == At(0, "freeWake") ~> At(0, "freed")

(* The pool computes graphs as promised: node by node, each chunk once, and *)
(* every call returns.                                                      *)
Status == CASE state[0].pc = "idle" -> "idle"
            [] state[0].pc \in {"freeWake", "join", "freed"} -> "freed"
            [] OTHER -> "running"
AllJobs == UNION {{JobOf(p[i], Min2(p[i].threads, NThreads)) : i \in DOMAIN p}
                  : p \in Plans}
PG == INSTANCE ParallelGraph WITH Jobs <- AllJobs, status <- Status,
                                  result <- ret
ImplementsParallelGraph == PG!Spec

=============================================================================
