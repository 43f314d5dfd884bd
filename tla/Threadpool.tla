----------------------------- MODULE Threadpool -----------------------------
(***************************************************************************)
(* The thread pool of ggml (ggml-cpu.c) that computes the graphs of the    *)
(* language model: the calling thread, number 0, publishes a graph, wakes  *)
(* the workers and computes with them.  They meet at a counting barrier    *)
(* inside a matrix product, between two nodes and at the end of the graph. *)
(* Every access to a field of the pool another thread may see is a step of *)
(* its own; a critical section is one step unless a thread that does not   *)
(* take the mutex can see inside it.                                       *)
(***************************************************************************)
EXTENDS Integers, Sequences, FiniteSets

CONSTANTS
  MaxThreads,  \* n_threads_max is at most this
  Estimate,    \* per node, the chunks of 16 rows or columns it has
  PerThread,   \* fewer than this many chunks per thread: one chunk per thread
  Varying,     \* may a plan ask for fewer threads than its pool has
  Poll,        \* are workers polling for a while before they sleep (poll > 0)
  MaxGraphs    \* bound: graphs a pool of n threads computes, for each n

Thread == 0 .. MaxThreads - 1
Worker == Thread \ {0}
Nodes  == Len(Estimate)

ASSUME SizesAssumption ==
  /\ MaxThreads \in Nat \ {0}
  /\ PerThread \in Nat \ {0}
  /\ Estimate \in Seq(Nat \ {0})
  /\ Nodes > 0
  /\ Varying \in BOOLEAN /\ Poll \in BOOLEAN
  /\ MaxGraphs \in [1 .. MaxThreads -> Nat]

VARIABLES
  tp,        \* struct ggml_threadpool
  own,       \* the pool was made for this call (disposable_threadpool)
  locked,    \* thread 0 holds the mutex over several steps
  waiting,   \* the workers asleep in ggml_cond_wait
  pc,        \* per thread, its next step
  worker,    \* per thread, its last_graph and the n_graph it has just read
  task,      \* per thread, the locals of ggml_graph_compute_thread
  barrier,   \* per thread, the locals of ggml_barrier and where it was called
  n_threads, \* local of ggml_graph_compute
  ret,       \* local of ggml_graph_compute: what the last call returned
  done       \* history: the chunks of this graph computed, <<node, chunk>>

vars == <<tp, own, locked, waiting, pc, worker, task, barrier, n_threads, ret,
          done>>

Min2(a, b) == IF a < b THEN a ELSE b

\* A node is cut into one chunk per thread, unless that leaves each thread
\* at least PerThread chunks of the usual size.
ChunksOf(i, n) == IF Estimate[i + 1] < n * PerThread THEN n ELSE Estimate[i + 1]

NewPool(n, paused) ==
  [n_threads_max |-> n, n_threads_cur |-> n, n_graph |-> 0,
   n_barrier |-> 0, n_barrier_passed |-> 0, current_chunk |-> 0,
   stop |-> FALSE, pause |-> paused, abort |-> -1, ec |-> "success"]

NoPool == NewPool(0, FALSE)

Computing == {"begin", "node", "set", "join", "reset", "release", "spin",
              "chunk", "fetch", "callback"}

Init ==
  /\ tp = NoPool
  /\ own = FALSE
  /\ locked = FALSE
  /\ waiting = {}
  /\ pc = [t \in Thread |-> IF t = 0 THEN "idle" ELSE "exited"]
  /\ worker = [t \in Thread |-> [last_graph |-> 0, new_graph |-> 0]]
  /\ task = [t \in Thread |-> [nth |-> 1, node_n |-> 0, chunk |-> 0]]
  /\ barrier = [t \in Thread |-> [n_threads |-> 1, n_passed |-> 0, from |-> "end"]]
  /\ n_threads = 1
  /\ ret = "none"
  /\ done = {}

-----------------------------------------------------------------------------
(* The calling thread outside of a graph.                                  *)

GoTo(t, step) == pc' = [pc EXCEPT ![t] = step]

\* The workers a new pool creates, and the main thread's next step.
Create(n, step) ==
  /\ pc' = [t \in Thread |-> IF t = 0 THEN step
                             ELSE IF t < n THEN "top" ELSE "exited"]
  /\ worker' = [t \in Thread |-> [last_graph |-> 0, new_graph |-> 0]]

ThreadpoolNew ==
  /\ pc[0] = "idle"
  /\ tp.n_threads_max = 0
  /\ \E n \in 1 .. MaxThreads, paused \in BOOLEAN :
       /\ tp' = NewPool(n, paused)
       /\ Create(n, "idle")
  /\ UNCHANGED <<own, locked, waiting, task, barrier, n_threads, ret, done>>

\* ggml_graph_compute without a pool: one is made for this call.
ComputeAlone(n) ==
  /\ tp.n_threads_max = 0
  /\ tp' = NewPool(n, FALSE)
  /\ own' = TRUE
  /\ n_threads' = n
  /\ Create(n, "kick")

\* Faulty variant: the abort of an earlier graph is left in the pool.
KeepAbort(n) ==
  /\ tp.n_threads_max > 0
  /\ tp.n_graph < MaxGraphs[tp.n_threads_max]
  /\ tp' = [tp EXCEPT !.current_chunk = 0, !.ec = "success"]
  /\ n_threads' = Min2(n, tp.n_threads_max)
  /\ GoTo(0, "kick")
  /\ UNCHANGED <<own, worker>>

\* ggml_graph_compute with the caller's pool: its parameters are reset.
ComputeInPool(n) ==
  /\ tp.n_threads_max > 0
  /\ tp.n_graph < MaxGraphs[tp.n_threads_max]
  /\ tp' = [tp EXCEPT !.current_chunk = 0, !.abort = -1, !.ec = "success"]
  /\ n_threads' = Min2(n, tp.n_threads_max)
  /\ GoTo(0, "kick")
  /\ UNCHANGED <<own, worker>>

\* ggml_graph_plan asks for MIN(max_tasks, n_threads) threads.
GraphCompute ==
  /\ pc[0] = "idle"
  /\ \E n \in 1 .. MaxThreads :
       /\ Varying \/ n >= tp.n_threads_max
       /\ ComputeAlone(n) \/ ComputeInPool(n)
  /\ done' = {}
  /\ UNCHANGED <<locked, waiting, task, barrier, ret>>

\* ggml_graph_compute_kickoff: polling workers see each of its steps.
KickThreads ==
  /\ pc[0] = "kick"
  /\ locked' = TRUE
  /\ tp' = [tp EXCEPT !.n_threads_cur = n_threads]
  /\ GoTo(0, "graph")
  /\ UNCHANGED <<own, waiting, worker, task, barrier, n_threads, ret, done>>

KickGraph ==
  /\ pc[0] = "graph"
  /\ tp' = [tp EXCEPT !.n_graph = @ + 1]
  /\ GoTo(0, "wake")
  /\ UNCHANGED <<own, locked, waiting, worker, task, barrier, n_threads, ret, done>>

\* Faulty variant: the workers are woken only when the pool was paused.
KickPaused ==
  /\ pc[0] = "wake"
  /\ tp' = [tp EXCEPT !.pause = FALSE]
  /\ waiting' = IF tp.pause THEN {} ELSE waiting
  /\ locked' = FALSE
  /\ GoTo(0, "begin")
  /\ UNCHANGED <<own, worker, task, barrier, n_threads, ret, done>>

KickWake ==
  /\ pc[0] = "wake"
  /\ tp' = [tp EXCEPT !.pause = FALSE]
  /\ waiting' = {}
  /\ locked' = FALSE
  /\ GoTo(0, "begin")
  /\ UNCHANGED <<own, worker, task, barrier, n_threads, ret, done>>

Pause ==
  /\ pc[0] = "idle"
  /\ tp.n_threads_max > 0
  /\ ~tp.pause
  /\ tp' = [tp EXCEPT !.pause = TRUE]
  /\ waiting' = {}
  /\ UNCHANGED <<own, locked, pc, worker, task, barrier, n_threads, ret, done>>

Resume ==
  /\ pc[0] = "idle"
  /\ tp.pause
  /\ tp' = [tp EXCEPT !.pause = FALSE]
  /\ waiting' = {}
  /\ UNCHANGED <<own, locked, pc, worker, task, barrier, n_threads, ret, done>>

\* ggml_threadpool_free, by the caller or at the end of a disposable pool.
Stopped == [tp EXCEPT !.stop = TRUE, !.pause = FALSE]

ThreadpoolFree ==
  /\ \/ pc[0] = "idle" /\ tp.n_threads_max > 0
     \/ pc[0] = "return" /\ own
  /\ tp' = Stopped
  /\ waiting' = {}
  /\ ret' = IF pc[0] = "return" THEN tp.ec ELSE ret
  /\ GoTo(0, "joining")
  /\ UNCHANGED <<own, locked, worker, task, barrier, n_threads, done>>

Join ==
  /\ pc[0] = "joining"
  /\ \A w \in Worker : pc[w] = "exited"
  /\ tp' = NoPool
  /\ own' = FALSE
  /\ GoTo(0, "idle")
  /\ UNCHANGED <<locked, waiting, worker, task, barrier, n_threads, ret, done>>

\* A pool that is not disposable stays when the graph is computed.
Return ==
  /\ pc[0] = "return"
  /\ ~own
  /\ ret' = tp.ec
  /\ GoTo(0, "idle")
  /\ UNCHANGED <<tp, own, locked, waiting, worker, task, barrier, n_threads, done>>

Main ==
  \/ KickThreads \/ KickGraph \/ KickWake
  \/ ThreadpoolFree /\ pc[0] = "return"
  \/ Join \/ Return

Caller ==
  \/ ThreadpoolNew \/ GraphCompute \/ Pause \/ Resume
  \/ ThreadpoolFree /\ pc[0] = "idle"
-----------------------------------------------------------------------------
(* ggml_graph_compute_secondary_thread: waiting for work.                  *)

Outside == <<tp, own, locked, task, barrier, n_threads, ret, done>>

\* The head of the pause loop, read without the mutex.
TestPause(w) ==
  /\ pc[w] = "top"
  /\ GoTo(w, IF tp.pause THEN "pausing" ELSE "running")
  /\ UNCHANGED <<Outside, waiting, worker>>

\* The body of the pause loop up to ggml_cond_wait.
EnterPause(w) ==
  /\ pc[w] = "pausing"
  /\ ~locked
  /\ \/ tp.pause /\ waiting' = waiting \union {w} /\ GoTo(w, "paused")
     \/ ~tp.pause /\ waiting' = waiting /\ GoTo(w, "top")
  /\ UNCHANGED <<Outside, worker>>

LeavePause(w) ==
  /\ pc[w] = "paused"
  /\ w \notin waiting
  /\ ~locked
  /\ GoTo(w, "top")
  /\ UNCHANGED <<Outside, waiting, worker>>

\* Then stop is read, and n_threads_cur: an idle worker does not poll.
TestStop(w) ==
  /\ pc[w] = "running"
  /\ GoTo(w, IF tp.stop THEN "exited" ELSE "choosing")
  /\ UNCHANGED <<Outside, waiting, worker>>

Active(w) == w < tp.n_threads_cur

PollOrSleep(w) ==
  /\ pc[w] = "choosing"
  /\ GoTo(w, IF Active(w) /\ Poll THEN "polling" ELSE "checking")
  /\ UNCHANGED <<Outside, waiting, worker>>

\* A polling worker meets a new graph; n_threads_cur is read after n_graph.
SeeGraph(w) ==
  /\ pc[w] = "polling"
  /\ tp.n_graph # worker[w].last_graph
  /\ worker' = [worker EXCEPT ![w].new_graph = tp.n_graph]
  /\ GoTo(w, "seen")
  /\ UNCHANGED <<Outside, waiting>>

TakeGraph(w) ==
  /\ pc[w] = "seen"
  /\ worker' = [worker EXCEPT ![w].last_graph = worker[w].new_graph]
  /\ GoTo(w, IF Active(w) THEN "begin" ELSE "polling")
  /\ UNCHANGED <<Outside, waiting>>

\* The rounds are over, or stop or pause was seen.
EndPolling(w) ==
  /\ pc[w] = "polling"
  /\ GoTo(w, "checking")
  /\ UNCHANGED <<Outside, waiting, worker>>

\* ggml_graph_compute_check_for_work under the mutex, first or after a
\* wake-up: back to the top, into the graph, or asleep.
Interrupted == tp.stop \/ tp.pause

CheckForWork(w) ==
  /\ pc[w] = "checking"
  /\ w \notin waiting
  /\ ~locked
  /\ \/ /\ Interrupted
        /\ GoTo(w, "top")
        /\ UNCHANGED <<waiting, worker>>
     \/ /\ ~Interrupted
        /\ worker' = [worker EXCEPT ![w].last_graph = tp.n_graph]
        /\ IF tp.n_graph # worker[w].last_graph /\ Active(w)
           THEN GoTo(w, "begin") /\ UNCHANGED waiting
           ELSE waiting' = waiting \union {w} /\ UNCHANGED pc
  /\ UNCHANGED Outside

\* ggml_cond_wait may return without a signal.
SpuriousWakeup(w) ==
  /\ w \in waiting
  /\ waiting' = waiting \ {w}
  /\ UNCHANGED <<Outside, pc, worker>>

Wait(w) ==
  \/ TestPause(w) \/ EnterPause(w) \/ LeavePause(w) \/ TestStop(w)
  \/ PollOrSleep(w) \/ SeeGraph(w) \/ TakeGraph(w) \/ EndPolling(w)
  \/ CheckForWork(w)
-----------------------------------------------------------------------------
(* ggml_graph_compute_thread, by every thread of the graph.                *)

Idle == <<own, locked, waiting, worker, n_threads, ret>>

Begin(t) ==
  /\ pc[t] = "begin"
  /\ task' = [task EXCEPT ![t] = [nth |-> tp.n_threads_cur, node_n |-> 0, chunk |-> 0]]
  /\ GoTo(t, "node")
  /\ UNCHANGED <<Idle, tp, barrier, done>>

\* ggml_barrier: n_threads_cur and n_barrier_passed are read before entering.
EnterBarrier(t, from) ==
  /\ GoTo(t, "join")
  /\ barrier' = [barrier EXCEPT ![t] = [n_threads |-> tp.n_threads_cur,
                                        n_passed |-> tp.n_barrier_passed,
                                        from |-> from]]

\* Faulty variant: no barrier at the end of the graph.
LeaveGraph(t) ==
  /\ pc[t] = "node"
  /\ IF task[t].node_n < Nodes /\ tp.abort # task[t].node_n
     THEN GoTo(t, "set")
     ELSE GoTo(t, IF t = 0 THEN "return" ELSE "top")
  /\ UNCHANGED <<Idle, tp, barrier, task, done>>

\* The loop over the nodes: the next node, or the last barrier.
Node(t) ==
  /\ pc[t] = "node"
  /\ IF task[t].node_n < Nodes /\ tp.abort # task[t].node_n
     THEN GoTo(t, "set") /\ UNCHANGED barrier
     ELSE EnterBarrier(t, "end")
  /\ UNCHANGED <<Idle, tp, task, done>>

\* Faulty variant: the chunks of the threads themselves are given out again.
SetFirstChunk(t) ==
  /\ pc[t] = "set"
  /\ tp' = IF t = 0 THEN [tp EXCEPT !.current_chunk = 0] ELSE tp
  /\ EnterBarrier(t, "chunks")
  /\ UNCHANGED <<Idle, task, done>>

\* ggml_compute_forward_mul_mat: thread 0 sets the first chunk nobody has.
SetChunk(t) ==
  /\ pc[t] = "set"
  /\ tp' = IF t = 0 THEN [tp EXCEPT !.current_chunk = task[t].nth] ELSE tp
  /\ EnterBarrier(t, "chunks")
  /\ UNCHANGED <<Idle, task, done>>

After(from) ==
  CASE from = "chunks" -> "chunk"
    [] from = "node"   -> "node"
    [] from = "end"    -> "return"

\* The barrier is left: into the chunks, to the next node, out of the graph.
LeaveBarrier(t) ==
  LET from == barrier[t].from
  IN  /\ GoTo(t, IF from = "end" /\ t # 0 THEN "top" ELSE After(from))
      /\ task' = IF from = "chunks" THEN [task EXCEPT ![t].chunk = t]
                 ELSE IF from = "node" THEN [task EXCEPT ![t].node_n = @ + 1]
                 ELSE task

Last(t) == tp.n_barrier = barrier[t].n_threads - 1

JoinBarrier(t) ==
  /\ pc[t] = "join"
  /\ IF barrier[t].n_threads = 1
     THEN LeaveBarrier(t) /\ UNCHANGED tp
     ELSE /\ tp' = [tp EXCEPT !.n_barrier = @ + 1]
          /\ GoTo(t, IF Last(t) THEN "reset" ELSE "spin")
          /\ UNCHANGED task
  /\ UNCHANGED <<Idle, barrier, done>>

\* Faulty variant: the last thread leaves the count as it is.
KeepCount(t) ==
  /\ pc[t] = "reset"
  /\ GoTo(t, "release")
  /\ UNCHANGED <<Idle, tp, task, barrier, done>>

ResetBarrier(t) ==
  /\ pc[t] = "reset"
  /\ tp' = [tp EXCEPT !.n_barrier = 0]
  /\ GoTo(t, "release")
  /\ UNCHANGED <<Idle, task, barrier, done>>

ReleaseBarrier(t) ==
  /\ pc[t] = "release"
  /\ tp' = [tp EXCEPT !.n_barrier_passed = @ + 1]
  /\ LeaveBarrier(t)
  /\ UNCHANGED <<Idle, barrier, done>>

SpinBarrier(t) ==
  /\ pc[t] = "spin"
  /\ tp.n_barrier_passed # barrier[t].n_passed
  /\ LeaveBarrier(t)
  /\ UNCHANGED <<Idle, tp, barrier, done>>

Chunks(t) == ChunksOf(task[t].node_n, task[t].nth)

\* One chunk is computed; with no more chunks than threads it is the only one.
Chunk(t) ==
  /\ pc[t] = "chunk"
  /\ IF task[t].chunk < Chunks(t)
     THEN /\ done' = done \union {<<task[t].node_n, task[t].chunk>>}
          /\ GoTo(t, IF task[t].nth >= Chunks(t) THEN "callback" ELSE "fetch")
     ELSE GoTo(t, "callback") /\ UNCHANGED done
  /\ UNCHANGED <<Idle, tp, task, barrier>>

FetchChunk(t) ==
  /\ pc[t] = "fetch"
  /\ task' = [task EXCEPT ![t].chunk = tp.current_chunk]
  /\ tp' = [tp EXCEPT !.current_chunk = @ + 1]
  /\ GoTo(t, "chunk")
  /\ UNCHANGED <<Idle, barrier, done>>

\* The node is done: thread 0 may be told to abort, all wait for each other.
AbortAt(t) == [tp EXCEPT !.abort = task[t].node_n + 1, !.ec = "aborted"]

\* Faulty variant: a thread goes on to the next node without waiting.
EndNodeAlone(t) ==
  /\ pc[t] = "callback"
  /\ tp' \in {tp} \union (IF t = 0 THEN {AbortAt(t)} ELSE {})
  /\ task' = [task EXCEPT ![t].node_n = @ + 1]
  /\ GoTo(t, "node")
  /\ UNCHANGED <<Idle, barrier, done>>

EndNode(t) ==
  /\ pc[t] = "callback"
  /\ tp' \in {tp} \union (IF t = 0 THEN {AbortAt(t)} ELSE {})
  /\ IF task[t].node_n + 1 < Nodes
     THEN EnterBarrier(t, "node") /\ UNCHANGED task
     ELSE /\ task' = [task EXCEPT ![t].node_n = @ + 1]
          /\ GoTo(t, "node")
          /\ UNCHANGED barrier
  /\ UNCHANGED <<Idle, done>>

Compute(t) ==
  \/ Begin(t) \/ Node(t) \/ SetChunk(t)
  \/ JoinBarrier(t) \/ ResetBarrier(t) \/ ReleaseBarrier(t) \/ SpinBarrier(t)
  \/ Chunk(t) \/ FetchChunk(t) \/ EndNode(t)

Next ==
  \/ Main \/ Caller
  \/ \E w \in Worker : Wait(w) \/ SpuriousWakeup(w)
  \/ \E t \in Thread : Compute(t)

Spec == Init /\ [][Next]_vars

\* Every thread runs; the mutex is given to whoever goes on asking for it.
Fairness ==
  /\ WF_vars(Main)
  /\ \A w \in Worker : WF_vars(Wait(w))
  /\ \A t \in Thread : WF_vars(Compute(t))

FairSpec == Spec /\ Fairness
-----------------------------------------------------------------------------
(* Properties.                                                             *)

MainSteps == {"idle", "kick", "graph", "wake", "return", "joining"} \union Computing
WorkerSteps == {"top", "pausing", "paused", "running", "choosing", "polling",
                "seen", "checking", "exited"} \union Computing

TypeOK ==
  /\ tp \in [n_threads_max : 0 .. MaxThreads, n_threads_cur : 0 .. MaxThreads,
             n_graph : Nat, n_barrier : 0 .. MaxThreads,
             n_barrier_passed : Nat, current_chunk : Nat,
             stop : BOOLEAN, pause : BOOLEAN, abort : Int,
             ec : {"success", "aborted"}]
  /\ own \in BOOLEAN /\ locked \in BOOLEAN
  /\ waiting \subseteq Worker
  /\ pc \in [Thread -> MainSteps \union WorkerSteps]
  /\ pc[0] \in MainSteps /\ \A w \in Worker : pc[w] \in WorkerSteps
  /\ worker \in [Thread -> [last_graph : Nat, new_graph : Nat]]
  /\ task \in [Thread -> [nth : 1 .. MaxThreads, node_n : 0 .. Nodes, chunk : Nat]]
  /\ barrier \in [Thread -> [n_threads : 1 .. MaxThreads, n_passed : Nat,
                           from : {"chunks", "node", "end"}]]
  /\ n_threads \in 1 .. MaxThreads
  /\ ret \in {"none", "success", "aborted"}
  /\ done \subseteq (0 .. Nodes - 1) \X Nat

InBarrier == {"join", "reset", "release", "spin"}

\* The thread uses the graph and the parameters of this call.
Accessing(t) ==
  /\ pc[t] \in Computing
  /\ ~(pc[t] \in InBarrier /\ barrier[t].from = "end")

\* The chunk a thread computes now.
Holds(t) == pc[t] = "chunk" /\ task[t].chunk < Chunks(t)
Held(t) == <<task[t].node_n, task[t].chunk>>

\* No chunk of a matrix product is computed twice or by two threads at once:
\* the first chunks go by thread number, the others by current_chunk, which
\* thread 0 sets before the barrier of each product (ggml-cpu.c:1295-1388).
ChunksOnce ==
  \A t \in Thread : Holds(t) =>
    /\ Held(t) \notin done
    /\ \A u \in Thread \ {t} : Holds(u) => Held(u) # Held(t)

\* A thread computes a node only when every chunk of the nodes before it is
\* done, whose results it reads: the barrier between two nodes, which counts
\* with two relaxed loads and a reset by the last thread, lets nobody pass
\* early (ggml-cpu.c:523-559, 2852-2854).
NodesInOrder ==
  \A t \in Thread : Holds(t) =>
    \A i \in 0 .. task[t].node_n - 1 :
      \A c \in 0 .. ChunksOf(i, task[t].nth) - 1 : <<i, c>> \in done

\* When the caller resets the parameters of the pool and when the call has
\* returned, no worker is still using them (ggml-cpu.c:3100-3101: "No worker
\* threads should be accessing the parameters below at this stage").
QuietBetweenGraphs ==
  pc[0] \in {"idle", "kick", "joining"} => \A w \in Worker : ~Accessing(w)

\* Every call of ggml_graph_compute and ggml_threadpool_free returns: no
\* worker sleeps through a new graph, a resume or the stop, and no thread
\* waits at a barrier for one that has left the graph.
CallsReturn == (pc[0] # "idle") ~> (pc[0] = "idle")

\* Seen from its caller, the pool computes each node of the graph in order
\* and each chunk once, and returns when all or, aborted, the first are done.
Call == IF pc[0] \in {"idle", "joining"} THEN ret ELSE "running"

Abstract == INSTANCE GraphComputation WITH
  Nodes <- Nodes, ChunksOf <- ChunksOf,
  call <- Call, threads <- n_threads, done <- done

ImplementsComputation == Abstract!Spec
=============================================================================
