-------------------------- MODULE Threadpool_proofs --------------------------
(***************************************************************************)
(* The safety of the thread pool for any number of threads, nodes, chunks  *)
(* and graphs, when every graph uses all threads of its pool.              *)
(***************************************************************************)
EXTENDS Threadpool, FiniteSetTheorems, TLAPS

(* The inductive invariant.                                                *)

\* The types of the variables; the bounds of TypeOK follow from the rest.
PoolType ==
  [n_threads_max : 0 .. MaxThreads, n_threads_cur : 0 .. MaxThreads,
   n_graph : Nat, n_barrier : Nat, n_barrier_passed : Nat, current_chunk : Nat,
   stop : BOOLEAN, pause : BOOLEAN, abort : Int, ec : {"success", "aborted"}]
Froms == {"chunks", "node", "end"}
Task == [nth : Nat, node_n : Nat, chunk : Nat]
TaskType == [Thread -> Task]
BarrierType == [Thread -> [n_threads : Nat, n_passed : Nat, from : Froms]]
WorkerType == [Thread -> [last_graph : Nat, new_graph : Nat]]
StepsOK ==
  /\ pc \in [Thread -> MainSteps \union WorkerSteps]
  /\ pc[0] \in MainSteps /\ \A w \in Worker : pc[w] \in WorkerSteps

Types ==
  /\ tp \in PoolType
  /\ own \in BOOLEAN /\ locked \in BOOLEAN
  /\ waiting \subseteq Worker
  /\ StepsOK
  /\ worker \in WorkerType
  /\ task \in TaskType
  /\ barrier \in BarrierType
  /\ n_threads \in 1 .. MaxThreads
  /\ ret \in {"none", "success", "aborted"}
  /\ done \subseteq Nat \X Nat

\* The threads of the pool.
Team == {t \in Thread : t < tp.n_threads_max}

\* A thread that spins at a barrier: it has been released since, or not.
Late(t) == pc[t] = "spin" /\ barrier[t].n_passed # tp.n_barrier_passed
Joined(t) == pc[t] = "spin" /\ barrier[t].n_passed = tp.n_barrier_passed
Inside(t) == pc[t] \in InBarrier /\ ~Late(t)

WaitSteps == {"top", "pausing", "paused", "running", "choosing", "polling", "seen",
              "checking", "exited"}
RestSteps == {"idle", "kick", "graph", "return", "joining"}

\* A thread that has nothing to do with the present graph, but for leaving the
\* last barrier of the one before.
Resting(t) ==
  \/ pc[t] \in IF t = 0 THEN RestSteps ELSE WaitSteps
  \/ Late(t) /\ barrier[t].from = "end"

\* The barriers cut a graph into segments: node i has segment 2 * i, up to the
\* barrier before its chunks, and 2 * i + 1, with its chunks.  A thread that is late
\* counts as having left its barrier.
Out == 2 * Nodes
AtNode(i) == IF i < Nodes THEN 2 * i ELSE 2 * Nodes - 1

Segment(t) ==
  LET i == task[t].node_n
      from == barrier[t].from
  IN  IF Resting(t) THEN (IF t = 0 \/ worker[t].last_graph = tp.n_graph THEN Out ELSE 0)
      ELSE IF pc[t] \in {"wake", "begin"} THEN 0
      ELSE IF pc[t] \in {"chunk", "fetch", "callback"} THEN 2 * i + 1
      ELSE IF pc[t] = "node" THEN AtNode(i)
      ELSE IF pc[t] = "set" THEN 2 * i
      ELSE IF from = "chunks" THEN (IF Late(t) THEN 2 * i + 1 ELSE 2 * i)
      ELSE IF from = "node" THEN (IF Late(t) THEN 2 * i + 2 ELSE 2 * i + 1)
      ELSE AtNode(i)

\* All threads are in one segment.
SegmentInv == \A t \in Team : Segment(t) = Segment(0)

\* The pool has its threads and no others, and every graph uses all of them.
PoolInv ==
  /\ tp.n_threads_cur = tp.n_threads_max
  /\ tp.n_threads_max = 0 => pc[0] = "idle"
  /\ pc[0] \notin {"idle", "joining"} => n_threads = tp.n_threads_max
  /\ \A w \in Worker : w \notin Team => pc[w] = "exited"

\* A thread in a graph has the number of its threads; a worker is at most one
\* graph behind, and computes the present one only.
GraphOf(t) ==
  /\ pc[t] \in Computing \ {"begin"} => task[t].nth = tp.n_threads_max
  /\ pc[t] \in InBarrier => barrier[t].n_threads = tp.n_threads_max
  /\ t # 0 =>
       /\ worker[t].last_graph = tp.n_graph \/ worker[t].last_graph + 1 = tp.n_graph
       /\ pc[t] = "seen" => /\ worker[t].new_graph = tp.n_graph
                            /\ worker[t].last_graph + 1 = tp.n_graph
       /\ ~Resting(t) => worker[t].last_graph = tp.n_graph
GraphInv == \A t \in Team : GraphOf(t)

\* What the place of a thread says of its node.
NodeOf(t) ==
  LET i == task[t].node_n
      from == barrier[t].from
  IN  /\ i <= Nodes
      /\ pc[t] \in {"set", "chunk", "fetch", "callback"} => i < Nodes
      /\ pc[t] \in InBarrier /\ from = "chunks" => i < Nodes
      /\ pc[t] \in InBarrier /\ from = "node" => i + 1 < Nodes
NodeInv == \A t \in Thread : NodeOf(t)

\* All threads of a segment see an abort alike.
AbortOf(t) ==
  LET i == task[t].node_n
      from == barrier[t].from
  IN  /\ pc[t] = "set" => tp.abort # i
      /\ Inside(t) /\ from = "chunks" => tp.abort # i
      /\ Inside(t) /\ from = "end" /\ i < Nodes => tp.abort = i
AbortInv == \A t \in Team : AbortOf(t)

\* A thread has entered the barrier that is open, or the one before it; who is to
\* reset and release it is the last thread.
PassedOf(t) ==
  /\ pc[t] = "join" => barrier[t].n_passed = tp.n_barrier_passed
  /\ Late(t) => barrier[t].n_passed + 1 = tp.n_barrier_passed
  /\ pc[t] \in {"reset", "release"} => \A u \in Team \ {t} : Joined(u)
PassedInv == \A t \in Team : PassedOf(t)

\* The threads that the barrier has counted.
Arrived == {t \in Team : Joined(t) \/ pc[t] = "reset"}
CountInv ==
  tp.n_barrier = IF \E t \in Team : pc[t] = "release" THEN 0 ELSE Cardinality(Arrived)

BarrierInv ==
  /\ Types /\ PoolInv /\ GraphInv /\ NodeInv /\ AbortInv /\ PassedInv
  /\ CountInv /\ SegmentInv

-----------------------------------------------------------------------------
(* Types.                                                                  *)

\* The sizes of the pool and of the graph.
LEMMA Sizes ==
  /\ MaxThreads \in Nat \ {0} /\ Nodes \in Nat \ {0} /\ 0 \in Thread
  /\ Thread \subseteq Nat /\ Worker \subseteq Nat \ {0} /\ Worker \subseteq Thread
  /\ \A t \in Thread : t \in Worker \/ t = 0
  /\ \A t \in Thread : t < MaxThreads
BY SizesAssumption DEF Nodes, Thread, Worker

\* The names of the steps.
LEMMA Names ==
  /\ Computing \subseteq MainSteps /\ Computing \subseteq WorkerSteps
  /\ WaitSteps \subseteq WorkerSteps /\ RestSteps \subseteq MainSteps
  /\ WorkerSteps = WaitSteps \union Computing
  /\ MainSteps = RestSteps \union {"wake"} \union Computing
BY DEF Computing, MainSteps, WorkerSteps, WaitSteps, RestSteps

\* A thread goes on to a step of its own.
LEMMA GoToStep ==
  ASSUME StepsOK, NEW t \in Thread, NEW step, GoTo(t, step),
         t = 0 => step \in MainSteps, t # 0 => step \in WorkerSteps
  PROVE  StepsOK' /\ pc'[t] = step /\ \A u \in Thread \ {t} : pc'[u] = pc[u]
BY Sizes DEF StepsOK, GoTo

\* A thread at a step of ggml_graph_compute_thread goes on to another one.
LEMMA GoToComputing ==
  ASSUME StepsOK, NEW t \in Thread, NEW step \in Computing, GoTo(t, step)
  PROVE  StepsOK' /\ pc'[t] = step /\ \A u \in Thread \ {t} : pc'[u] = pc[u]
BY Names, GoToStep

\* The calling thread goes on to a step outside of the graph.
LEMMA GoToMain ==
  ASSUME StepsOK, NEW step \in MainSteps, GoTo(0, step)
  PROVE  StepsOK' /\ pc'[0] = step /\ \A w \in Worker : pc'[w] = pc[w]
BY Sizes, GoToStep

\* A worker goes on to a step of its own.
LEMMA GoToWorker ==
  ASSUME StepsOK, NEW w \in Worker, NEW step \in WorkerSteps, GoTo(w, step)
  PROVE  StepsOK' /\ pc'[w] = step /\ \A u \in Thread \ {w} : pc'[u] = pc[u]
BY Sizes, GoToStep

\* A thread that leaves a barrier goes to a step that is its own.
LEMMA LeaveTypes ==
  ASSUME StepsOK, task \in TaskType, barrier \in BarrierType,
         NEW t \in Thread, LeaveBarrier(t)
  PROVE  StepsOK' /\ task' \in TaskType
<1>1. barrier[t].from \in {"chunks", "node", "end"}
  BY DEF BarrierType, Froms
<1>2. PICK step : /\ step = IF barrier[t].from = "end" /\ t # 0 THEN "top"
                            ELSE After(barrier[t].from)
                  /\ GoTo(t, step)
  BY DEF LeaveBarrier
<1>3. IF t = 0 THEN step \in MainSteps ELSE step \in WorkerSteps
  BY <1>1, <1>2 DEF After, MainSteps, WorkerSteps, Computing
<1>4. StepsOK'
  BY <1>2, <1>3, GoToStep
<1>5. task' \in TaskType
  BY Sizes DEF LeaveBarrier, TaskType, Task
<1> QED
  BY <1>4, <1>5

\* A pool that was just made, and the threads created for it.
LEMMA NewTypes ==
  ASSUME NEW n \in 1 .. MaxThreads, NEW paused \in BOOLEAN,
         NEW step \in {"idle", "kick"}, tp' = NewPool(n, paused), Create(n, step)
  PROVE  tp' \in PoolType /\ StepsOK' /\ worker' \in WorkerType
BY Sizes DEF NewPool, Create, MainSteps, WorkerSteps, Computing, StepsOK, PoolType,
  WorkerType

\* The caller's steps keep the types.
LEMMA TypesMain ==
  ASSUME Types, Main \/ Caller
  PROVE  Types'
<1> USE Sizes DEF Types
<1>0. {"idle", "kick", "graph", "wake", "begin", "return", "joining"} \subseteq MainSteps
  BY DEF MainSteps, Computing
<1>1. CASE ThreadpoolNew
  BY <1>1, NewTypes DEF ThreadpoolNew
<1>2. CASE GraphCompute
  <2>1. PICK n \in 1 .. MaxThreads : ComputeAlone(n) \/ ComputeInPool(n)
    BY <1>2 DEF GraphCompute
  <2>2. CASE ComputeAlone(n)
    BY <1>2, <2>2, NewTypes DEF GraphCompute, ComputeAlone
  <2>3. CASE ComputeInPool(n)
    <3>1. tp.n_threads_max \in 1 .. MaxThreads
      BY <2>3 DEF ComputeInPool, PoolType
    <3>2. n_threads' \in 1 .. MaxThreads
      BY <2>3, <3>1 DEF ComputeInPool, Min2
    <3>3. tp' = [tp EXCEPT !.current_chunk = 0, !.abort = -1, !.ec = "success"]
      BY <2>3 DEF ComputeInPool
    <3>4. PICK a \in Int : a = -1
      OBVIOUS
    <3>5. tp' = [tp EXCEPT !.current_chunk = 0, !.abort = a, !.ec = "success"]
      BY <3>3, <3>4
    <3>6. tp' \in PoolType
      BY <3>5 DEF PoolType
    <3> QED
      BY <1>0, <1>2, <2>3, <3>2, <3>6, GoToMain DEF GraphCompute, ComputeInPool
  <2> QED
    BY <2>1, <2>2, <2>3
<1>3. CASE KickThreads
  <2>1. tp' \in PoolType
    BY <1>3 DEF KickThreads, PoolType
  <2> QED
    BY <1>0, <1>3, <2>1, GoToMain DEF KickThreads
<1>4. CASE KickGraph
  <2>1. tp' \in PoolType
    BY <1>4 DEF KickGraph, PoolType
  <2> QED
    BY <1>0, <1>4, <2>1, GoToMain DEF KickGraph
<1>5. CASE KickWake
  <2>1. tp' \in PoolType
    BY <1>5 DEF KickWake, PoolType
  <2> QED
    BY <1>0, <1>5, <2>1, GoToMain DEF KickWake
<1>6. CASE Pause
  <2>1. tp' \in PoolType
    BY <1>6 DEF Pause, PoolType
  <2> QED
    BY <1>6, <2>1 DEF Pause, StepsOK
<1>7. CASE Resume
  <2>1. tp' \in PoolType
    BY <1>7 DEF Resume, PoolType
  <2> QED
    BY <1>7, <2>1 DEF Resume, StepsOK
<1>8. CASE ThreadpoolFree
  <2>1. tp' \in PoolType /\ tp.ec \in {"success", "aborted"}
    BY <1>8 DEF ThreadpoolFree, Stopped, PoolType
  <2> QED
    BY <1>0, <1>8, <2>1, GoToMain DEF ThreadpoolFree
<1>9. CASE Join
  <2>1. tp' \in PoolType
    BY <1>9 DEF Join, NoPool, NewPool, PoolType
  <2> QED
    BY <1>0, <1>9, <2>1, GoToMain DEF Join
<1>10. CASE Return
  <2>1. tp.ec \in {"success", "aborted"}
    BY DEF PoolType
  <2> QED
    BY <1>0, <1>10, <2>1, GoToMain DEF Return
<1> QED
  BY <1>1, <1>2, <1>3, <1>4, <1>5, <1>6, <1>7, <1>8, <1>9, <1>10 DEF Main, Caller

\* The steps of a worker outside of the graphs keep the types.
LEMMA TypesWait ==
  ASSUME Types, NEW w \in Worker, Wait(w) \/ SpuriousWakeup(w)
  PROVE  Types'
<1> USE Sizes, GoToWorker DEF Types, Outside
<1>1. {"top", "pausing", "paused", "running", "choosing", "polling", "seen", "checking",
       "exited", "begin"} \subseteq WorkerSteps
  BY DEF WorkerSteps, Computing
<1>0. pc' = pc => StepsOK'
  BY DEF StepsOK
<1>2. CASE TestPause(w)
  BY <1>1, <1>2 DEF TestPause
<1>3. CASE EnterPause(w)
  BY <1>1, <1>3 DEF EnterPause
<1>4. CASE LeavePause(w)
  BY <1>1, <1>4 DEF LeavePause
<1>5. CASE TestStop(w)
  BY <1>1, <1>5 DEF TestStop
<1>6. CASE PollOrSleep(w)
  BY <1>1, <1>6 DEF PollOrSleep
<1>7. CASE SeeGraph(w)
  <2>1. worker' \in WorkerType
    BY <1>7 DEF SeeGraph, WorkerType, PoolType
  <2> QED
    BY <1>1, <1>7, <2>1 DEF SeeGraph
<1>8. CASE TakeGraph(w)
  <2>1. worker' \in WorkerType
    BY <1>8 DEF TakeGraph, WorkerType
  <2> QED
    BY <1>1, <1>8, <2>1 DEF TakeGraph
<1>9. CASE EndPolling(w)
  BY <1>1, <1>9 DEF EndPolling
<1>10. CASE CheckForWork(w)
  <2>1. CASE Interrupted
    BY <1>1, <1>10, <2>1 DEF CheckForWork
  <2>2. CASE ~Interrupted
    <3>1. worker' \in WorkerType
      BY <1>10, <2>2 DEF CheckForWork, WorkerType, PoolType
    <3> QED
      BY <1>0, <1>1, <1>10, <2>2, <3>1 DEF CheckForWork
  <2> QED
    BY <2>1, <2>2
<1>11. CASE SpuriousWakeup(w)
  BY <1>0, <1>11 DEF SpuriousWakeup
<1> QED
  BY <1>2, <1>3, <1>4, <1>5, <1>6, <1>7, <1>8, <1>9, <1>10, <1>11 DEF Wait

\* The steps of a thread in a graph keep the types.
LEMMA TypesCompute ==
  ASSUME Types, NEW t \in Thread, Compute(t)
  PROVE  Types'
<1> USE Sizes, GoToComputing DEF Types, Idle
<1>1. \A from \in Froms : EnterBarrier(t, from) =>
        barrier' \in BarrierType /\ GoTo(t, "join")
  BY DEF EnterBarrier, BarrierType, PoolType
<1>2. /\ {"begin", "node", "set", "join", "reset", "release", "spin",
          "chunk", "fetch", "callback"} \subseteq Computing
      /\ {"chunks", "node", "end"} \subseteq Froms
  BY DEF Computing, Froms
<1>3. task[t] \in [nth : Nat, node_n : Nat, chunk : Nat]
  BY DEF TaskType, Task
<1>4. CASE Begin(t)
  <2>1. task' \in TaskType
    BY <1>4 DEF Begin, TaskType, Task, PoolType
  <2> QED
    BY <1>2, <1>4, <2>1 DEF Begin
<1>5. CASE Node(t)
  BY <1>1, <1>2, <1>5 DEF Node
<1>6. CASE SetChunk(t)
  <2>1. tp' \in PoolType
    BY <1>3, <1>6 DEF SetChunk, PoolType
  <2> QED
    BY <1>1, <1>2, <1>6, <2>1 DEF SetChunk
<1>7. CASE JoinBarrier(t)
  <2>1. CASE barrier[t].n_threads = 1
    BY <1>7, <2>1, LeaveTypes DEF JoinBarrier
  <2>2. CASE barrier[t].n_threads # 1
    <3>1. tp' \in PoolType
      BY <1>7, <2>2 DEF JoinBarrier, PoolType
    <3> QED
      BY <1>2, <1>7, <2>2, <3>1 DEF JoinBarrier
  <2> QED
    BY <2>1, <2>2
<1>8. CASE ResetBarrier(t)
  <2>1. tp' \in PoolType
    BY <1>8 DEF ResetBarrier, PoolType
  <2> QED
    BY <1>2, <1>8, <2>1 DEF ResetBarrier
<1>9. CASE ReleaseBarrier(t)
  <2>1. tp' \in PoolType
    BY <1>9 DEF ReleaseBarrier, PoolType
  <2> QED
    BY LeaveTypes, <1>9, <2>1 DEF ReleaseBarrier
<1>10. CASE SpinBarrier(t)
  BY LeaveTypes, <1>10 DEF SpinBarrier
<1>11. CASE Chunk(t)
  <2>1. <<task[t].node_n, task[t].chunk>> \in Nat \X Nat
    BY <1>3
  <2>2. done' \subseteq Nat \X Nat
    BY <1>11, <2>1 DEF Chunk
  <2> QED
    BY <1>2, <1>11, <2>2 DEF Chunk
<1>12. CASE FetchChunk(t)
  <2>1. tp' \in PoolType
    BY <1>12 DEF FetchChunk, PoolType
  <2>2. task' \in TaskType
    BY <1>12 DEF FetchChunk, TaskType, Task, PoolType
  <2> QED
    BY <1>2, <1>12, <2>1, <2>2 DEF FetchChunk
<1>13. CASE EndNode(t)
  <2>1. AbortAt(t) \in PoolType
    <3>1. task[t].node_n + 1 \in Int
      BY <1>3
    <3> QED
      BY <3>1 DEF AbortAt, PoolType
  <2>2. tp' \in PoolType
    BY <1>13, <2>1 DEF EndNode
  <2>3. CASE task[t].node_n + 1 < Nodes
    BY <1>1, <1>2, <1>13, <2>2, <2>3 DEF EndNode
  <2>4. CASE ~(task[t].node_n + 1 < Nodes)
    <3>1. task' \in TaskType
      BY <1>3, <1>13, <2>4 DEF EndNode, TaskType, Task
    <3> QED
      BY <1>2, <1>13, <2>2, <2>4, <3>1 DEF EndNode
  <2> QED
    BY <2>3, <2>4
<1> QED
  BY <1>4, <1>5, <1>6, <1>7, <1>8, <1>9, <1>10, <1>11, <1>12, <1>13 DEF Compute

\* The types hold at the start.
LEMMA TypesInit == Init => Types
<1> SUFFICES ASSUME Init PROVE Types
  OBVIOUS
<1>1. tp \in PoolType
  BY Sizes DEF Init, NoPool, NewPool, PoolType
<1>2. StepsOK
  BY Sizes DEF Init, StepsOK, MainSteps, WorkerSteps
<1>3. worker \in WorkerType /\ task \in TaskType /\ barrier \in BarrierType
  BY Sizes DEF Init, WorkerType, TaskType, Task, BarrierType, Froms
<1>4. n_threads \in 1 .. MaxThreads
  BY Sizes DEF Init
<1> QED
  BY <1>1, <1>2, <1>3, <1>4 DEF Init, Types

\* The types hold, whatever the plans ask for.
LEMMA TypesInvariant == Spec => []Types
<1>1. Init => Types
  BY TypesInit
<1>2. Types /\ [Next]_vars => Types'
  <2> SUFFICES ASSUME Types, [Next]_vars PROVE Types'
    OBVIOUS
  <2>1. CASE UNCHANGED vars
    BY <2>1 DEF vars, Types, StepsOK
  <2> QED
    BY <2>1, TypesMain, TypesWait, TypesCompute DEF Next
<1> QED
  BY <1>1, <1>2, PTL DEF Spec

-----------------------------------------------------------------------------
(* The barrier.                                                            *)

\* Only thread t takes a step.
OnlyThread(t) ==
  \A u \in Thread \ {t} : /\ pc'[u] = pc[u] /\ task'[u] = task[u]
                          /\ barrier'[u] = barrier[u] /\ worker'[u] = worker[u]

\* The step leaves the size of the pool and its counters alone.
SamePool ==
  /\ tp'.n_threads_max = tp.n_threads_max /\ tp'.n_threads_cur = tp.n_threads_cur
  /\ tp'.n_graph = tp.n_graph
  /\ tp'.n_barrier = tp.n_barrier /\ tp'.n_barrier_passed = tp.n_barrier_passed

\* What is said of a thread stays true while it does nothing and no barrier or
\* graph begins or ends.
LEMMA Stays ==
  ASSUME NEW u, pc'[u] = pc[u], task'[u] = task[u], barrier'[u] = barrier[u],
         worker'[u] = worker[u], tp'.n_threads_max = tp.n_threads_max,
         tp'.n_graph = tp.n_graph, tp'.n_barrier_passed = tp.n_barrier_passed
  PROVE  /\ Late(u)' = Late(u) /\ Joined(u)' = Joined(u) /\ Inside(u)' = Inside(u)
         /\ Resting(u)' = Resting(u) /\ Segment(u)' = Segment(u)
         /\ GraphOf(u)' = GraphOf(u) /\ NodeOf(u)' = NodeOf(u)
         /\ tp'.abort = tp.abort => AbortOf(u)' = AbortOf(u)
<1>1. Late(u)' = Late(u) /\ Joined(u)' = Joined(u)
  BY DEF Late, Joined
<1>2. Inside(u)' = Inside(u) /\ Resting(u)' = Resting(u)
  BY <1>1 DEF Inside, Resting
<1>3. Segment(u)' = Segment(u)
  BY <1>1, <1>2 DEF Segment
<1>4. GraphOf(u)' = GraphOf(u) /\ NodeOf(u)' = NodeOf(u)
  BY <1>2 DEF GraphOf, NodeOf
<1>5. tp'.abort = tp.abort => AbortOf(u)' = AbortOf(u)
  BY <1>2 DEF AbortOf
<1> QED
  BY <1>1, <1>2, <1>3, <1>4, <1>5

\* A thread that takes no part in a barrier before and after its step, and stays in
\* its segment, keeps the invariant if it keeps its own part of it.
LEMMA OwnStep ==
  ASSUME BarrierInv, Types', PoolInv', NEW t \in Team, OnlyThread(t), SamePool,
         pc[t] \notin {"spin", "reset", "release"} \/ Late(t),
         pc'[t] \notin {"spin", "reset", "release"} \/ Late(t)',
         Segment(t)' = Segment(t) \/ Team = {t},
         GraphOf(t)', NodeOf(t)', AbortOf(t)',
         pc'[t] = "join" => barrier'[t].n_passed = tp.n_barrier_passed,
         Late(t)' => Late(t) /\ barrier'[t] = barrier[t],
         tp'.abort = tp.abort \/ \A u \in Team \ {t} : AbortOf(u)'
  PROVE  BarrierInv'
<1>1. Team' = Team /\ t \in Thread
  BY DEF Team, SamePool
<1>2. \A u \in Thread \ {t} :
        /\ Late(u)' = Late(u) /\ Joined(u)' = Joined(u)
        /\ Segment(u)' = Segment(u) /\ GraphOf(u)' = GraphOf(u) /\ NodeOf(u)' = NodeOf(u)
        /\ tp'.abort = tp.abort => AbortOf(u)' = AbortOf(u)
  BY Stays DEF OnlyThread, SamePool
<1>3. ~Joined(t) /\ ~Joined(t)'
  BY DEF Joined, Late
<1>4. GraphInv'
  BY <1>1, <1>2 DEF BarrierInv, GraphInv, Team
<1>5. NodeInv'
  BY <1>2 DEF BarrierInv, NodeInv
<1>6. AbortInv'
  BY <1>1, <1>2 DEF BarrierInv, AbortInv, Team
<1>7. \A u \in Team : pc[u] \notin {"reset", "release"}
  <2> SUFFICES ASSUME NEW u \in Team, pc[u] \in {"reset", "release"} PROVE FALSE
    OBVIOUS
  <2>1. u # t
    BY DEF Late
  <2> QED
    BY <1>3, <2>1 DEF BarrierInv, PassedInv, PassedOf
<1>8. \A u \in Team : pc'[u] \notin {"reset", "release"}
  BY <1>7 DEF OnlyThread, Team, Late
<1>9. PassedInv'
  <2> SUFFICES ASSUME NEW u \in Team PROVE PassedOf(u)'
    BY <1>1 DEF PassedInv
  <2>1. CASE u = t
    BY <2>1, <1>8 DEF PassedOf, BarrierInv, PassedInv, SamePool
  <2>2. CASE u # t
    BY <2>2, <1>2, <1>8 DEF PassedOf, BarrierInv, PassedInv, SamePool, OnlyThread, Team
  <2> QED
    BY <2>1, <2>2
<1>10. CountInv'
  <2>1. Arrived' = Arrived
    BY <1>1, <1>2, <1>3, <1>7, <1>8 DEF Arrived, Team
  <2> QED
    BY <1>1, <1>7, <1>8, <2>1 DEF CountInv, BarrierInv, SamePool
<1>11. SegmentInv'
  <2>1. 0 \in Thread /\ 0 \in Team
    BY Sizes DEF Team, Thread, BarrierInv, Types, PoolType
  <2>2. CASE Segment(t)' = Segment(t)
    <3>1. \A u \in Thread : Segment(u)' = Segment(u)
      BY <1>2, <2>2
    <3> QED
      BY <1>1, <2>1, <3>1 DEF SegmentInv, BarrierInv, Team
  <2>3. CASE Team = {t}
    BY <1>1, <2>1, <2>3 DEF SegmentInv
  <2> QED
    BY <2>2, <2>3
<1> QED
  BY <1>4, <1>5, <1>6, <1>9, <1>10, <1>11 DEF BarrierInv

\* A step of one thread leaves the pool with its threads.
LEMMA PoolStays ==
  ASSUME Types, PoolInv, NEW t \in Team, OnlyThread(t), SamePool,
         n_threads' = n_threads,
         t = 0 => pc[0] \notin {"idle", "joining"} \/ pc'[0] \in {"idle", "joining"}
  PROVE  PoolInv'
<1>1. Team' = Team /\ t \in Thread /\ tp.n_threads_max > 0
  BY Sizes DEF Team, SamePool, Types, PoolType
<1>2. \A w \in Worker : w \notin Team => pc'[w] = pc[w]
  BY Sizes DEF OnlyThread
<1>3. t # 0 => pc'[0] = pc[0]
  BY Sizes DEF OnlyThread
<1> QED
  BY <1>1, <1>2, <1>3 DEF PoolInv, SamePool

\* A thread that is out of the graph has nothing to do with it.
LEMMA OutRests ==
  ASSUME Types, NEW t \in Thread, NodeOf(t), Segment(t) = Out
  PROVE  Resting(t) /\ (t = 0 \/ worker[t].last_graph = tp.n_graph)
<1>1. task[t].node_n \in Nat /\ Nodes \in Nat \ {0} /\ barrier[t].from \in Froms
  BY Sizes DEF Types, TaskType, Task, BarrierType
<1>2. IF t = 0 THEN pc[t] \in MainSteps ELSE pc[t] \in WorkerSteps
  BY Sizes DEF Types, StepsOK
<1>3. Resting(t)
  <2> SUFFICES ASSUME ~Resting(t) PROVE FALSE
    OBVIOUS
  <2>1. CASE pc[t] \in {"wake", "begin"}
    BY <1>1, <2>1 DEF Segment, Out
  <2>2. CASE pc[t] \in {"chunk", "fetch", "callback"}
    BY <1>1, <2>2 DEF Segment, Out
  <2>3. CASE pc[t] = "node"
    BY <1>1, <2>3 DEF Segment, Out, AtNode, NodeOf
  <2>4. CASE pc[t] = "set"
    BY <1>1, <2>4 DEF Segment, Out, NodeOf
  <2>5. CASE pc[t] \in InBarrier
    BY <1>1, <2>5 DEF Segment, Out, NodeOf, InBarrier, AtNode, Froms
  <2> QED
    BY <1>2, <2>1, <2>2, <2>3, <2>4, <2>5
      DEF MainSteps, WorkerSteps, Computing, InBarrier, Resting, RestSteps, WaitSteps
<1> QED
  BY <1>1, <1>3 DEF Segment, Out

\* The invariant is not about the mutex, the sleeping workers and the results.
LEMMA Untouched ==
  ASSUME BarrierInv, Types', UNCHANGED <<tp, pc, worker, task, barrier, n_threads>>
  PROVE  BarrierInv'
<1>1. Team' = Team /\ \A u : Late(u)' = Late(u) /\ Joined(u)' = Joined(u)
  BY DEF Team, Late, Joined
<1>2. \A u : Inside(u)' = Inside(u) /\ Resting(u)' = Resting(u)
  BY <1>1 DEF Inside, Resting
<1>3. \A u : Segment(u)' = Segment(u)
  BY <1>1, <1>2 DEF Segment
<1>4. \A u : GraphOf(u)' = GraphOf(u) /\ NodeOf(u)' = NodeOf(u) /\ AbortOf(u)' = AbortOf(u)
  BY <1>2 DEF GraphOf, NodeOf, AbortOf
<1>5. PassedInv' /\ Arrived' = Arrived
  BY <1>1 DEF BarrierInv, PassedInv, PassedOf, Arrived
<1>6. CountInv' /\ PoolInv'
  BY <1>1, <1>5 DEF BarrierInv, CountInv, PoolInv
<1> QED
  BY <1>1, <1>3, <1>4, <1>5, <1>6
    DEF BarrierInv, GraphInv, NodeInv, AbortInv, SegmentInv

\* A worker that waits for work goes on to wait or begins the graph.
LEMMA WaitStep ==
  ASSUME BarrierInv, Types', NEW w \in Worker, pc[w] \in WaitSteps \ {"exited"},
         NEW step \in WaitSteps \union {"begin"}, GoTo(w, step),
         \A u \in Thread \ {w} : worker'[u] = worker[u],
         UNCHANGED <<tp, task, barrier, n_threads>>,
         Segment(w)' = Segment(w), GraphOf(w)'
  PROVE  BarrierInv'
<1>1. w \in Thread /\ w \in Team /\ w # 0
  BY Sizes DEF BarrierInv, PoolInv
<1>2. pc' = [pc EXCEPT ![w] = step] /\ pc \in [Thread -> MainSteps \union WorkerSteps]
  BY DEF GoTo, BarrierInv, Types, StepsOK
<1>3. OnlyThread(w) /\ SamePool /\ pc'[w] = step
  BY <1>1, <1>2 DEF OnlyThread, SamePool
<1>4. PoolInv'
  BY <1>1, <1>3, PoolStays DEF BarrierInv
<1>5. /\ pc[w] \notin InBarrier /\ step \notin InBarrier /\ step # "set"
      /\ step \notin {"chunk", "fetch", "callback"}
  BY DEF WaitSteps, InBarrier
<1>6. NodeOf(w)' /\ AbortOf(w)'
  BY <1>1, <1>3, <1>5 DEF NodeOf, AbortOf, Inside, BarrierInv, NodeInv
<1> QED
  BY <1>1, <1>3, <1>4, <1>5, <1>6, OwnStep DEF Late, InBarrier

\* The steps of a worker outside of the graphs.
LEMMA BarrierWait ==
  ASSUME BarrierInv, NEW w \in Worker, Wait(w) \/ SpuriousWakeup(w)
  PROVE  BarrierInv'
<1>1. Types /\ Types'
  BY TypesWait DEF BarrierInv
<1>2. w # 0 /\ w \in Thread
  BY Sizes
<1>3. {"top", "pausing", "paused", "running", "choosing", "polling", "seen", "checking"}
        \subseteq WaitSteps \ {"exited"}
  BY DEF WaitSteps
<1>4. /\ "exited" \in WaitSteps /\ "begin" \notin WaitSteps
      /\ \A step \in WaitSteps : step = "begin" \/ step \notin InBarrier
  BY DEF WaitSteps, InBarrier
<1>5. pc[w] \in WaitSteps => Resting(w)
  BY <1>2 DEF Resting
<1>6. pc \in [Thread -> MainSteps \union WorkerSteps]
  BY <1>1 DEF Types, StepsOK
<1>7. worker[w].last_graph \in Nat /\ tp.n_graph \in Nat /\ tp.n_threads_cur \in Nat
  BY <1>1, <1>2 DEF Types, WorkerType, PoolType
<1>8. pc[w] \in WaitSteps \ {"exited"} => w \in Team /\ GraphOf(w) /\ Active(w)
  BY <1>2 DEF BarrierInv, PoolInv, GraphInv, Active, Team
<1>9. \A step \in WaitSteps : GoTo(w, step) =>
        pc'[w] = step /\ Resting(w)' /\ \A u \in Thread \ {w} : pc'[u] = pc[u]
  BY <1>2, <1>6 DEF GoTo, Resting
\* The worker goes on waiting, with the graphs it has met.
<1>10. ASSUME NEW step \in WaitSteps \ {"seen"}, pc[w] \in WaitSteps \ {"exited"},
              GoTo(w, step), UNCHANGED <<Outside, worker>>
       PROVE  BarrierInv'
  <2>1. Segment(w)' = Segment(w)
    BY <1>2, <1>5, <1>9, <1>10 DEF Segment, Outside
  <2>2. GraphOf(w)'
    BY <1>4, <1>8, <1>9, <1>10 DEF GraphOf, Outside, WaitSteps, Computing, InBarrier
  <2> QED
    BY <1>1, <1>10, <2>1, <2>2, WaitStep DEF Outside
<1>11. CASE TestPause(w)
  BY <1>3, <1>10, <1>11 DEF TestPause
<1>12. CASE EnterPause(w)
  BY <1>3, <1>10, <1>12 DEF EnterPause
<1>13. CASE LeavePause(w)
  BY <1>3, <1>10, <1>13 DEF LeavePause
<1>14. CASE TestStop(w)
  BY <1>3, <1>4, <1>10, <1>14 DEF TestStop
<1>15. CASE PollOrSleep(w)
  BY <1>3, <1>10, <1>15 DEF PollOrSleep
<1>16. CASE SeeGraph(w)
  <2>1. /\ pc[w] \in WaitSteps \ {"exited"} /\ GoTo(w, "seen") /\ "seen" \in WaitSteps
        /\ UNCHANGED Outside
    BY <1>3, <1>16 DEF SeeGraph
  <2>2. /\ worker'[w] = [worker[w] EXCEPT !.new_graph = tp.n_graph]
        /\ \A u \in Thread \ {w} : worker'[u] = worker[u]
    BY <1>1, <1>2, <1>16 DEF SeeGraph, Types, WorkerType
  <2>3. worker'[w].last_graph = worker[w].last_graph /\ worker'[w].new_graph = tp.n_graph
    BY <1>1, <1>2, <2>2 DEF Types, WorkerType
  <2>4. Segment(w)' = Segment(w)
    BY <1>2, <1>5, <1>9, <2>1, <2>3 DEF Segment, Outside
  <2>5. GraphOf(w)'
    <3>1. worker[w].last_graph + 1 = tp.n_graph
      BY <1>2, <1>8, <1>16, <2>1 DEF SeeGraph, GraphOf
    <3> QED
      BY <1>4, <1>9, <2>1, <2>3, <3>1 DEF GraphOf, Outside, WaitSteps, Computing, InBarrier
  <2> QED
    BY <1>1, <2>1, <2>2, <2>4, <2>5, WaitStep DEF Outside
<1>17. CASE TakeGraph(w)
  <2>1. pc[w] \in WaitSteps \ {"exited"} /\ GoTo(w, "begin") /\ UNCHANGED Outside
    BY <1>3, <1>8, <1>17 DEF TakeGraph
  <2>2. /\ worker[w].last_graph + 1 = tp.n_graph /\ worker[w].new_graph = tp.n_graph
    BY <1>2, <1>8, <1>17, <2>1 DEF TakeGraph, GraphOf
  <2>3. /\ worker'[w].last_graph = tp.n_graph
        /\ \A u \in Thread \ {w} : worker'[u] = worker[u]
    BY <1>1, <1>2, <1>17, <2>2 DEF TakeGraph, Types, WorkerType
  <2>4. pc'[w] = "begin"
    BY <1>2, <1>6, <2>1 DEF GoTo
  <2>5. Segment(w)' = 0 /\ Segment(w) = 0
    BY <1>2, <1>4, <1>5, <1>7, <2>1, <2>2, <2>4 DEF Segment, Resting, Late
  <2>6. GraphOf(w)'
    BY <1>2, <2>1, <2>3, <2>4 DEF GraphOf, Outside, InBarrier
  <2> QED
    BY <1>1, <2>1, <2>3, <2>5, <2>6, WaitStep DEF Outside
<1>18. CASE EndPolling(w)
  BY <1>3, <1>10, <1>18 DEF EndPolling
<1>19. CASE CheckForWork(w)
  <2>1. CASE Interrupted
    BY <1>3, <1>10, <1>19, <2>1 DEF CheckForWork
  <2>2. CASE ~Interrupted
    <3>1. /\ pc[w] = "checking" /\ pc[w] \in WaitSteps \ {"exited"} /\ UNCHANGED Outside
          /\ worker' = [worker EXCEPT ![w].last_graph = tp.n_graph]
      BY <1>3, <1>19, <2>2 DEF CheckForWork
    <3>2. /\ worker'[w].last_graph = tp.n_graph
          /\ \A u \in Thread \ {w} : worker'[u] = worker[u]
      BY <1>1, <1>2, <3>1 DEF Types, WorkerType
    <3>3. CASE tp.n_graph # worker[w].last_graph
      <4>1. GoTo(w, "begin")
        BY <1>8, <1>19, <2>2, <3>1, <3>3 DEF CheckForWork
      <4>2. pc'[w] = "begin"
        BY <1>2, <1>6, <4>1 DEF GoTo
      <4>3. Segment(w)' = 0 /\ Segment(w) = 0
        BY <1>2, <1>4, <1>5, <1>7, <3>1, <3>3, <4>2 DEF Segment, Resting, Late
      <4>4. GraphOf(w)'
        BY <1>2, <3>1, <3>2, <4>2 DEF GraphOf, Outside, InBarrier
      <4> QED
        BY <1>1, <3>1, <3>2, <4>1, <4>3, <4>4, WaitStep DEF Outside
    <3>4. CASE tp.n_graph = worker[w].last_graph
      <4>1. GoTo(w, "checking")
        BY <1>2, <1>6, <1>19, <2>2, <3>1, <3>4 DEF CheckForWork, GoTo
      <4>2. Segment(w)' = Segment(w)
        BY <1>2, <1>3, <1>5, <1>9, <3>1, <3>2, <3>4, <4>1 DEF Segment, Outside
      <4>3. GraphOf(w)'
        BY <1>3, <1>9, <3>1, <3>2, <4>1 DEF GraphOf, Outside, InBarrier, Computing
      <4> QED
        BY <1>1, <1>3, <3>1, <3>2, <4>1, <4>2, <4>3, WaitStep DEF Outside
    <3> QED
      BY <3>3, <3>4
  <2> QED
    BY <2>1, <2>2
<1>20. CASE SpuriousWakeup(w)
  BY <1>1, <1>20, Untouched DEF SpuriousWakeup, Outside
<1> QED
  BY <1>11, <1>12, <1>13, <1>14, <1>15, <1>16, <1>17, <1>18, <1>19, <1>20 DEF Wait

\* No thread of a pool that is about to be used, or is to be left, is in a graph.
LEMMA MainRests ==
  ASSUME BarrierInv, pc[0] \in RestSteps
  PROVE  /\ Segment(0) = Out
         /\ \A u \in Team : /\ Resting(u) /\ Segment(u) = Out
                            /\ u = 0 \/ worker[u].last_graph = tp.n_graph
         /\ \A u \in Team : pc[u] # "set" /\ ~Inside(u)
<1>1. Resting(0) /\ Segment(0) = Out
  BY DEF Resting, Segment
<1>2. \A u \in Team : /\ Resting(u) /\ Segment(u) = Out
                      /\ u = 0 \/ worker[u].last_graph = tp.n_graph
  BY <1>1, OutRests DEF BarrierInv, SegmentInv, NodeInv, Team
<1>3. \A u \in Team : pc[u] # "set" /\ ~Inside(u)
  BY <1>2 DEF Resting, Late, Inside, InBarrier, RestSteps, WaitSteps
<1> QED
  BY <1>1, <1>2, <1>3

\* The calling thread goes on outside of the graph.
LEMMA MainStep ==
  ASSUME BarrierInv, Types', PoolInv', 0 \in Team, SamePool,
         pc[0] \in RestSteps \union {"wake"},
         NEW step \in RestSteps \union {"wake", "begin"}, GoTo(0, step),
         UNCHANGED <<worker, task, barrier>>,
         Segment(0)' = Segment(0), tp'.abort = tp.abort \/ pc[0] \in RestSteps
  PROVE  BarrierInv'
<1>1. 0 \in Thread
  BY Sizes
<1>2. pc' = [pc EXCEPT ![0] = step] /\ pc \in [Thread -> MainSteps \union WorkerSteps]
  BY DEF GoTo, BarrierInv, Types, StepsOK
<1>3. OnlyThread(0) /\ pc'[0] = step
  BY <1>1, <1>2 DEF OnlyThread
<1>4. /\ pc[0] \notin InBarrier /\ step \notin InBarrier /\ step # "set"
      /\ step \notin Computing \ {"begin"}
  BY DEF RestSteps, InBarrier, Computing
<1>5. NodeOf(0)' /\ AbortOf(0)' /\ GraphOf(0)'
  BY <1>1, <1>3, <1>4 DEF NodeOf, AbortOf, GraphOf, Inside, BarrierInv, NodeInv,
    InBarrier, Computing
<1>6. tp'.abort = tp.abort \/ \A u \in Team \ {0} : AbortOf(u)'
  <2> SUFFICES ASSUME pc[0] \in RestSteps, NEW u \in Team \ {0} PROVE AbortOf(u)'
    OBVIOUS
  <2>1. pc[u] # "set" /\ ~Inside(u)
    BY MainRests
  <2>2. pc'[u] = pc[u] /\ Inside(u)' = Inside(u)
    BY <1>3, Stays DEF OnlyThread, SamePool, Team
  <2> QED
    BY <2>1, <2>2 DEF AbortOf
<1> QED
  BY <1>3, <1>4, <1>5, <1>6, OwnStep DEF Late, InBarrier

\* A pool that was just made is ready.
LEMMA NewPoolReady ==
  ASSUME NodeInv, Types', NEW n \in 1 .. MaxThreads, NEW paused \in BOOLEAN,
         NEW step \in {"idle", "kick"}, tp' = NewPool(n, paused), Create(n, step),
         UNCHANGED <<task, barrier>>, step = "kick" => n_threads' = n
  PROVE  BarrierInv'
<1>1. /\ tp'.n_threads_max = n /\ tp'.n_threads_cur = n /\ tp'.n_graph = 0
      /\ tp'.n_barrier = 0 /\ tp'.n_barrier_passed = 0
  BY DEF NewPool
<1>2. /\ pc'[0] = step
      /\ \A w \in Worker : pc'[w] = IF w < n THEN "top" ELSE "exited"
      /\ \A t \in Thread : worker'[t] = [last_graph |-> 0, new_graph |-> 0]
  BY Sizes DEF Create
<1>3. \A t \in Thread : /\ pc'[t] \notin Computing /\ pc'[t] \notin InBarrier
                        /\ pc'[t] # "set" /\ pc'[t] # "seen" /\ pc'[t] # "wake"
                        /\ pc'[t] \in IF t = 0 THEN RestSteps ELSE WaitSteps
  BY <1>2, Sizes DEF Computing, InBarrier, RestSteps, WaitSteps
<1>4. \A t \in Thread : ~Late(t)' /\ ~Joined(t)' /\ ~Inside(t)' /\ Resting(t)'
  BY <1>3 DEF Late, Joined, Inside, Resting, InBarrier
<1>5. PoolInv'
  BY <1>1, <1>2, Sizes DEF PoolInv, Team
<1>6. GraphInv'
  BY <1>1, <1>2, <1>3, <1>4 DEF GraphInv, GraphOf, Team
<1>7. NodeInv'
  BY <1>3, <1>4 DEF NodeInv, NodeOf, Computing
<1>8. AbortInv' /\ PassedInv'
  BY <1>3, <1>4 DEF AbortInv, AbortOf, PassedInv, PassedOf, Team, InBarrier
<1>9. CountInv'
  <2>1. Arrived' = {}
    BY <1>3, <1>4 DEF Arrived, Team, InBarrier
  <2>2. ~\E t \in Team' : pc'[t] = "release"
    BY <1>3 DEF Team, InBarrier
  <2> QED
    BY <1>1, <2>1, <2>2, FS_EmptySet DEF CountInv
<1>10. SegmentInv'
  <2>1. \A t \in Thread : Segment(t)' = Out
    BY <1>1, <1>2, <1>4 DEF Segment
  <2> QED
    BY <2>1, Sizes DEF SegmentInv, Team
<1> QED
  BY <1>5, <1>6, <1>7, <1>8, <1>9, <1>10 DEF BarrierInv

\* A graph begins: the threads that have left the one before are at its start.
LEMMA BarrierKick ==
  ASSUME BarrierInv, Types', KickGraph
  PROVE  BarrierInv'
<1>1. /\ pc[0] = "graph" /\ pc[0] \in RestSteps /\ UNCHANGED <<worker, task, barrier>>
      /\ n_threads' = n_threads
  BY DEF KickGraph, RestSteps
<1>2. /\ tp'.n_graph = tp.n_graph + 1 /\ tp.n_graph \in Nat
      /\ tp'.n_threads_max = tp.n_threads_max /\ tp'.n_threads_cur = tp.n_threads_cur
      /\ tp'.n_barrier = tp.n_barrier /\ tp'.n_barrier_passed = tp.n_barrier_passed
      /\ tp'.abort = tp.abort
  BY DEF KickGraph, BarrierInv, Types, PoolType
<1>3. pc'[0] = "wake" /\ \A u \in Thread \ {0} : pc'[u] = pc[u]
  BY Sizes DEF KickGraph, GoTo, BarrierInv, Types, StepsOK
<1>4. Team' = Team /\ Team \subseteq Thread
  BY <1>2 DEF Team
<1>5. /\ \A u \in Team : /\ Resting(u)
                         /\ u = 0 \/ worker[u].last_graph = tp.n_graph
      /\ \A u \in Team : pc[u] # "set" /\ ~Inside(u)
  BY <1>1, MainRests
<1>6. /\ ~Late(0) /\ ~Late(0)' /\ ~Joined(0) /\ ~Joined(0)' /\ ~Inside(0)' /\ ~Resting(0)'
  BY <1>1, <1>3 DEF Late, Joined, Inside, InBarrier, Resting, RestSteps
<1>7. \A u \in Thread \ {0} :
        Late(u)' = Late(u) /\ Joined(u)' = Joined(u) /\ Inside(u)' = Inside(u)
  BY <1>1, <1>2, <1>3 DEF Late, Joined, Inside
<1>8. \A u \in Thread \ {0} : Resting(u)' = Resting(u)
  BY <1>1, <1>3, <1>7 DEF Resting
<1>9. \A u \in Team \ {0} : worker[u].last_graph \in Nat
  BY <1>4 DEF BarrierInv, Types, WorkerType
<1>10. PoolInv'
  BY <1>1, <1>2, <1>3, <1>4 DEF PoolInv, BarrierInv, Worker
<1>11. GraphInv'
  <2> SUFFICES ASSUME NEW u \in Team PROVE GraphOf(u)'
    BY <1>4 DEF GraphInv
  <2>1. CASE u = 0
    BY <1>3, <2>1 DEF GraphOf, Computing, InBarrier
  <2>2. CASE u # 0
    <3>1. GraphOf(u) /\ pc'[u] = pc[u] /\ u \in Thread \ {0}
      BY <1>3, <1>4, <2>2 DEF BarrierInv, GraphInv
    <3>2. pc[u] # "seen"
      BY <1>2, <1>5, <2>2, <3>1 DEF GraphOf
    <3> QED
      BY <1>1, <1>2, <1>5, <1>8, <2>2, <3>1, <3>2 DEF GraphOf
  <2> QED
    BY <2>1, <2>2
<1>12. NodeInv'
  <2> SUFFICES ASSUME NEW u \in Thread PROVE NodeOf(u)'
    BY DEF NodeInv
  <2>1. NodeOf(u)
    BY DEF BarrierInv, NodeInv
  <2>2. pc'[u] = pc[u] \/ pc'[u] = "wake"
    BY <1>3
  <2> QED
    BY <1>1, <2>1, <2>2 DEF NodeOf, InBarrier
<1>13. AbortInv'
  BY <1>3, <1>4, <1>5, <1>6, <1>7 DEF AbortInv, AbortOf
<1>14. PassedInv'
  <2> SUFFICES ASSUME NEW u \in Team PROVE PassedOf(u)'
    BY <1>4 DEF PassedInv
  <2>1. PassedOf(u)
    BY DEF BarrierInv, PassedInv
  <2>2. pc[u] \in {"reset", "release"} => u # 0 /\ Joined(0)
    BY <1>1, <2>1, Sizes DEF PassedOf, Team, BarrierInv, Types, PoolType, PoolInv
  <2> QED
    BY <1>1, <1>2, <1>3, <1>4, <1>6, <1>7, <2>1, <2>2 DEF PassedOf
<1>15. CountInv'
  <2>1. Arrived' = Arrived
    BY <1>1, <1>3, <1>4, <1>6, <1>7 DEF Arrived
  <2>2. (\E u \in Team : pc[u] = "release")' = (\E u \in Team : pc[u] = "release")
    BY <1>1, <1>3, <1>4
  <2> QED
    BY <1>2, <2>1, <2>2 DEF CountInv, BarrierInv
<1>16. SegmentInv'
  <2>1. Segment(0)' = 0
    BY <1>3, <1>6 DEF Segment
  <2>2. \A u \in Team \ {0} : Segment(u)' = 0
    BY <1>1, <1>2, <1>4, <1>5, <1>8, <1>9 DEF Segment
  <2> QED
    BY <1>4, <2>1, <2>2 DEF SegmentInv
<1> QED
  BY <1>10, <1>11, <1>12, <1>13, <1>14, <1>15, <1>16 DEF BarrierInv

\* The pool is left when all of its workers have exited.
LEMMA BarrierJoin ==
  ASSUME BarrierInv, Types', Join
  PROVE  BarrierInv'
<1>1. tp'.n_threads_max = 0 /\ tp'.n_threads_cur = 0 /\ tp'.n_barrier = 0
  BY DEF Join, NoPool, NewPool
<1>2. pc'[0] = "idle" /\ \A w \in Worker : pc'[w] = "exited"
  BY Sizes DEF Join, GoTo, BarrierInv, Types, StepsOK
<1>3. Team' = {}
  <2>1. \A u \in Thread : ~(u < 0)
    BY Sizes
  <2> QED
    BY <1>1, <2>1 DEF Team
<1>4. PoolInv'
  BY <1>1, <1>2 DEF PoolInv
<1>5. NodeInv'
  <2> SUFFICES ASSUME NEW u \in Thread PROVE NodeOf(u)'
    BY DEF NodeInv
  <2>1. NodeOf(u) /\ UNCHANGED <<task, barrier>>
    BY DEF BarrierInv, NodeInv, Join
  <2>2. pc'[u] = "idle" \/ pc'[u] = "exited"
    BY <1>2, Sizes
  <2> QED
    BY <2>1, <2>2 DEF NodeOf, InBarrier
<1>6. CountInv'
  <2>1. Arrived' = {}
    BY <1>3 DEF Arrived
  <2> QED
    BY <1>1, <1>3, <2>1, FS_EmptySet DEF CountInv
<1> QED
  BY <1>3, <1>4, <1>5, <1>6
    DEF BarrierInv, GraphInv, AbortInv, PassedInv, SegmentInv

\* The steps of the calling thread outside of the graph.
LEMMA BarrierMain ==
  ASSUME ~Varying, BarrierInv, Main \/ Caller
  PROVE  BarrierInv'
<1>1. Types /\ Types' /\ PoolInv /\ NodeInv
  BY TypesMain DEF BarrierInv
<1>2. tp.n_threads_max \in 0 .. MaxThreads /\ 0 \in Thread
  BY <1>1, Sizes DEF Types, PoolType
<1>3. tp.n_threads_max > 0 => 0 \in Team
  BY <1>2 DEF Team
<1>4. pc \in [Thread -> MainSteps \union WorkerSteps]
  BY <1>1 DEF Types, StepsOK
<1>5. \A step : GoTo(0, step) => pc'[0] = step /\ \A w \in Worker : pc'[w] = pc[w]
  BY <1>2, <1>4, Sizes DEF GoTo
<1>6. {"idle", "kick", "graph", "return", "joining"} \subseteq RestSteps
  BY DEF RestSteps
\* From one place outside of the graph to another.
<1>7. ASSUME 0 \in Team, pc[0] \in RestSteps, NEW step \in RestSteps, GoTo(0, step),
             SamePool, UNCHANGED <<worker, task, barrier>>,
             step \in {"idle", "joining"} \/ n_threads' = tp.n_threads_max
      PROVE  BarrierInv'
  <2>1. PoolInv'
    BY <1>1, <1>2, <1>5, <1>7 DEF PoolInv, SamePool, Team
  <2>2. Segment(0)' = Segment(0)
    BY <1>5, <1>7 DEF Segment, Resting
  <2> QED
    BY <1>1, <1>7, <2>1, <2>2, MainStep
<1>8. CASE ThreadpoolNew
  BY <1>1, <1>8, NewPoolReady DEF ThreadpoolNew
<1>9. CASE GraphCompute
  <2>1. PICK n \in 1 .. MaxThreads : /\ n >= tp.n_threads_max
                                     /\ ComputeAlone(n) \/ ComputeInPool(n)
    BY <1>9 DEF GraphCompute
  <2>2. CASE ComputeAlone(n)
    BY <1>1, <1>9, <2>2, NewPoolReady DEF GraphCompute, ComputeAlone
  <2>3. CASE ComputeInPool(n)
    <3>1. n_threads' = tp.n_threads_max /\ tp.n_threads_max > 0
      BY <1>2, <2>1, <2>3 DEF ComputeInPool, Min2
    <3>2. SamePool
      BY <1>1, <2>3 DEF ComputeInPool, SamePool, Types, PoolType
    <3> QED
      BY <1>3, <1>6, <1>7, <1>9, <2>3, <3>1, <3>2 DEF GraphCompute, ComputeInPool
  <2> QED
    BY <2>1, <2>2, <2>3
<1>10. CASE KickThreads
  <2>1. n_threads = tp.n_threads_max /\ tp.n_threads_max > 0
    BY <1>1, <1>2, <1>10 DEF KickThreads, PoolInv
  <2>2. SamePool
    BY <1>1, <1>10, <2>1 DEF KickThreads, SamePool, Types, PoolType, PoolInv
  <2> QED
    BY <1>3, <1>6, <1>7, <1>10, <2>1, <2>2 DEF KickThreads
<1>11. CASE KickGraph
  BY <1>1, <1>11, BarrierKick
<1>12. CASE KickWake
  <2>1. /\ pc[0] = "wake" /\ GoTo(0, "begin") /\ UNCHANGED <<worker, task, barrier, n_threads>>
        /\ tp'.abort = tp.abort /\ SamePool
    BY <1>1, <1>12 DEF KickWake, SamePool, Types, PoolType
  <2>2. pc'[0] = "begin" /\ 0 \in Team
    BY <1>1, <1>2, <1>3, <1>5, <2>1 DEF PoolInv
  <2>3. PoolInv'
    BY <1>1, <1>2, <1>5, <2>1, <2>2 DEF PoolInv, SamePool, Team
  <2>4. Segment(0)' = Segment(0)
    BY <2>1, <2>2 DEF Segment, Resting, RestSteps, Late
  <2> QED
    BY <1>1, <2>1, <2>2, <2>3, <2>4, MainStep
<1>13. CASE Pause \/ Resume
  <2>1. /\ pc[0] = "idle" /\ UNCHANGED <<pc, worker, task, barrier>> /\ SamePool
        /\ tp.n_threads_max > 0 \/ tp.pause
    BY <1>1, <1>13 DEF Pause, Resume, SamePool, Types, PoolType
  <2>2. GoTo(0, "idle")
    BY <1>4, <2>1 DEF GoTo
  <2>3. CASE tp.n_threads_max > 0
    BY <1>3, <1>6, <1>7, <2>1, <2>2, <2>3
  <2>4. CASE tp.n_threads_max = 0
    <3>1. Team = {} /\ Team' = {} /\ tp'.n_threads_max = 0
      <4>1. \A u \in Thread : ~(u < 0)
        BY Sizes
      <4> QED
        BY <2>1, <2>4, <4>1 DEF Team, SamePool
    <3>2. PoolInv'
      BY <1>1, <2>1, <3>1 DEF PoolInv, SamePool
    <3>3. NodeInv'
      <4> SUFFICES ASSUME NEW u \in Thread PROVE NodeOf(u)'
        BY DEF NodeInv
      <4> QED
        BY <1>1, <2>1 DEF NodeInv, NodeOf
    <3>4. CountInv'
      BY <2>1, <3>1 DEF CountInv, BarrierInv, Arrived, SamePool
    <3> QED
      BY <1>1, <3>1, <3>2, <3>3, <3>4
        DEF BarrierInv, GraphInv, AbortInv, PassedInv, SegmentInv
  <2> QED
    BY <1>2, <2>3, <2>4
<1>14. CASE ThreadpoolFree
  <2>1. /\ (pc[0] = "idle" /\ tp.n_threads_max > 0) \/ pc[0] = "return"
        /\ GoTo(0, "joining") /\ UNCHANGED <<worker, task, barrier>> /\ SamePool
    BY <1>1, <1>14 DEF ThreadpoolFree, Stopped, SamePool, Types, PoolType
  <2>2. 0 \in Team
    BY <1>1, <1>2, <1>3, <2>1 DEF PoolInv
  <2> QED
    BY <1>6, <1>7, <2>1, <2>2
<1>15. CASE Join
  BY <1>1, <1>15, BarrierJoin
<1>16. CASE Return
  <2>1. /\ pc[0] = "return" /\ GoTo(0, "idle") /\ UNCHANGED <<worker, task, barrier>>
        /\ SamePool
    BY <1>16 DEF Return, SamePool
  <2>2. 0 \in Team
    BY <1>1, <1>2, <1>3, <2>1 DEF PoolInv
  <2> QED
    BY <1>6, <1>7, <2>1, <2>2
<1> QED
  BY <1>8, <1>9, <1>10, <1>11, <1>12, <1>13, <1>14, <1>15, <1>16 DEF Main, Caller

\* A thread that computes is of the pool, and what is known of it.
LEMMA ComputeKnown ==
  ASSUME BarrierInv, NEW t \in Thread, pc[t] \in Computing
  PROVE  /\ t \in Team /\ tp.n_threads_max \in Nat \ {0} /\ 0 \in Team
         /\ GraphOf(t) /\ NodeOf(t) /\ AbortOf(t) /\ PassedOf(t)
         /\ Segment(t) = Segment(0)
         /\ Nodes \in Nat \ {0}
         /\ task[t].node_n \in Nat /\ barrier[t].from \in Froms
         /\ pc[t] \notin RestSteps /\ pc[t] \notin WaitSteps /\ pc[t] # "wake"
         /\ Resting(t) => Late(t)
         /\ tp.n_threads_cur = tp.n_threads_max
<1>1. pc[t] \notin RestSteps /\ pc[t] \notin WaitSteps /\ pc[t] # "wake"
  BY DEF Computing, RestSteps, WaitSteps
<1>2. tp.n_threads_max \in 0 .. MaxThreads
  BY DEF BarrierInv, Types, PoolType
<1>3. t \in Team
  <2>1. CASE t = 0
    BY <1>1, <1>2, <2>1 DEF BarrierInv, PoolInv, Team, RestSteps
  <2>2. CASE t # 0
    BY <1>1, <2>2, Sizes DEF BarrierInv, PoolInv, WaitSteps
  <2> QED
    BY <2>1, <2>2
<1>4. tp.n_threads_max \in Nat \ {0} /\ 0 \in Team
  BY <1>2, <1>3, Sizes DEF Team
<1>5. task[t].node_n \in Nat /\ barrier[t].from \in Froms
  BY DEF BarrierInv, Types, TaskType, Task, BarrierType
<1> QED
  BY <1>1, <1>3, <1>4, <1>5, Sizes DEF BarrierInv, GraphInv, NodeInv, AbortInv, PassedInv,
    SegmentInv, Resting, PoolInv

\* A thread of a graph takes a step that is none of the barrier.
LEMMA ComputeStep ==
  ASSUME BarrierInv, Types', NEW t \in Thread, pc[t] \in Computing, NEW step, GoTo(t, step),
         \A u \in Thread \ {t} : task'[u] = task[u] /\ barrier'[u] = barrier[u],
         UNCHANGED <<worker, n_threads>>, SamePool,
         pc[t] \notin {"spin", "reset", "release"} \/ Late(t),
         step \notin {"spin", "reset", "release"},
         Segment(t)' = Segment(t) \/ Team = {t}, GraphOf(t)', NodeOf(t)', AbortOf(t)',
         step = "join" => barrier'[t].n_passed = tp.n_barrier_passed,
         tp'.abort = tp.abort \/ \A u \in Team \ {t} : AbortOf(u)'
  PROVE  BarrierInv'
<1>1. t \in Team /\ pc[t] \notin {"idle", "joining"}
  BY ComputeKnown DEF RestSteps
<1>2. pc'[t] = step /\ OnlyThread(t)
  BY DEF GoTo, OnlyThread, BarrierInv, Types, StepsOK
<1>3. PoolInv'
  BY <1>1, <1>2, PoolStays DEF BarrierInv
<1>4. ~Late(t)'
  BY <1>2 DEF Late
<1> QED
  BY <1>1, <1>2, <1>3, <1>4, OwnStep

\* Entering a barrier.
LEMMA Entered ==
  ASSUME Types, NEW t \in Thread, NEW from \in Froms, EnterBarrier(t, from)
  PROVE  /\ GoTo(t, "join") /\ pc'[t] = "join"
         /\ barrier'[t].n_threads = tp.n_threads_cur
         /\ barrier'[t].n_passed = tp.n_barrier_passed /\ barrier'[t].from = from
         /\ \A u \in Thread \ {t} : barrier'[u] = barrier[u]
         /\ ~Late(t)' /\ Inside(t)' /\ ~Resting(t)'
<1>1. /\ GoTo(t, "join") /\ pc'[t] = "join"
      /\ barrier'[t] = [n_threads |-> tp.n_threads_cur,
                        n_passed |-> tp.n_barrier_passed, from |-> from]
      /\ \A u \in Thread \ {t} : barrier'[u] = barrier[u]
  BY DEF EnterBarrier, GoTo, Types, StepsOK, BarrierType
<1> QED
  BY <1>1 DEF Late, Inside, InBarrier, Resting, RestSteps, WaitSteps

\* The graph and the way through its nodes.
LEMMA BarrierNodes ==
  ASSUME BarrierInv, NEW t \in Thread, Begin(t) \/ Node(t) \/ SetChunk(t)
  PROVE  BarrierInv' /\ Segment(t)' = Segment(t)
<1>1. Types /\ Types'
  BY TypesCompute DEF BarrierInv, Compute
<1>2. pc[t] \in {"begin", "node", "set"} /\ pc[t] \in Computing
  BY DEF Begin, Node, SetChunk, Computing
<1>3. /\ t \in Team /\ GraphOf(t) /\ NodeOf(t) /\ Nodes \in Nat \ {0}
      /\ task[t].node_n \in Nat /\ ~Late(t) /\ ~Resting(t)
      /\ tp.n_threads_cur = tp.n_threads_max
  BY <1>2, ComputeKnown DEF Late
<1>4. t # 0 => worker[t].last_graph = tp.n_graph
  BY <1>3 DEF GraphOf
<1>5. \A step : GoTo(t, step) => pc'[t] = step
  BY <1>1 DEF GoTo, Types, StepsOK
<1>6. CASE Begin(t)
  <2>1. /\ GoTo(t, "node") /\ pc'[t] = "node" /\ pc[t] = "begin"
        /\ UNCHANGED <<worker, n_threads, tp, barrier>> /\ SamePool
    BY <1>5, <1>6 DEF Begin, Idle, SamePool
  <2>2. /\ task'[t] = [nth |-> tp.n_threads_cur, node_n |-> 0, chunk |-> 0]
        /\ \A u \in Thread \ {t} : task'[u] = task[u]
    BY <1>1, <1>6 DEF Begin, Types, TaskType
  <2>3. ~Late(t)' /\ ~Resting(t)'
    BY <2>1 DEF Late, Resting, RestSteps, WaitSteps
  <2>4. Segment(t)' = Segment(t)
    BY <1>3, <2>1, <2>2, <2>3 DEF Segment, AtNode
  <2>5. GraphOf(t)' /\ NodeOf(t)' /\ AbortOf(t)'
    BY <1>3, <1>4, <2>1, <2>2 DEF GraphOf, NodeOf, AbortOf, Inside, InBarrier
  <2> QED
    BY <1>1, <1>2, <2>1, <2>2, <2>4, <2>5, ComputeStep
<1>7. CASE Node(t)
  <2>1. /\ pc[t] = "node" /\ UNCHANGED <<worker, n_threads, tp, task>> /\ SamePool
    BY <1>7 DEF Node, Idle, SamePool
  <2>2. CASE task[t].node_n < Nodes /\ tp.abort # task[t].node_n
    <3>1. GoTo(t, "set") /\ pc'[t] = "set" /\ UNCHANGED barrier
      BY <1>5, <1>7, <2>2 DEF Node
    <3>2. ~Late(t)' /\ ~Resting(t)'
      BY <3>1 DEF Late, Resting, RestSteps, WaitSteps
    <3>3. Segment(t)' = Segment(t)
      BY <1>3, <2>1, <2>2, <3>1, <3>2 DEF Segment, AtNode
    <3>4. GraphOf(t)' /\ NodeOf(t)' /\ AbortOf(t)'
      BY <1>3, <1>4, <2>1, <2>2, <3>1, Names
        DEF GraphOf, NodeOf, AbortOf, Inside, InBarrier, Computing
    <3> QED
      BY <1>1, <1>2, <2>1, <3>1, <3>3, <3>4, ComputeStep
  <2>3. CASE ~(task[t].node_n < Nodes /\ tp.abort # task[t].node_n)
    <3>1. EnterBarrier(t, "end") /\ "end" \in Froms
      BY <1>7, <2>3 DEF Node, Froms
    <3>2. /\ GoTo(t, "join") /\ pc'[t] = "join" /\ barrier'[t].n_threads = tp.n_threads_cur
          /\ barrier'[t].n_passed = tp.n_barrier_passed /\ barrier'[t].from = "end"
          /\ \A u \in Thread \ {t} : barrier'[u] = barrier[u]
          /\ ~Late(t)' /\ Inside(t)' /\ ~Resting(t)'
      BY <1>1, <3>1, Entered
    <3>3. Segment(t)' = Segment(t)
      BY <1>3, <2>1, <3>2 DEF Segment, AtNode
    <3>4. GraphOf(t)' /\ NodeOf(t)' /\ AbortOf(t)'
      BY <1>3, <1>4, <2>1, <2>3, <3>2
        DEF GraphOf, NodeOf, AbortOf, InBarrier, Computing
    <3> QED
      BY <1>1, <1>2, <2>1, <3>2, <3>3, <3>4, ComputeStep
  <2> QED
    BY <2>2, <2>3
<1>8. CASE SetChunk(t)
  <2>1. /\ pc[t] = "set" /\ UNCHANGED <<worker, n_threads, task>> /\ SamePool
        /\ tp'.abort = tp.abort
    BY <1>1, <1>8 DEF SetChunk, Idle, SamePool, Types, PoolType
  <2>2. EnterBarrier(t, "chunks") /\ "chunks" \in Froms
    BY <1>8 DEF SetChunk, Froms
  <2>3. /\ GoTo(t, "join") /\ pc'[t] = "join" /\ barrier'[t].n_threads = tp.n_threads_cur
        /\ barrier'[t].n_passed = tp.n_barrier_passed /\ barrier'[t].from = "chunks"
        /\ \A u \in Thread \ {t} : barrier'[u] = barrier[u]
        /\ ~Late(t)' /\ Inside(t)' /\ ~Resting(t)'
    BY <1>1, <2>2, Entered
  <2>4. Segment(t)' = Segment(t)
    BY <1>3, <2>1, <2>3 DEF Segment
  <2>5. AbortOf(t)
    BY <1>3 DEF BarrierInv, AbortInv
  <2>6. GraphOf(t)' /\ NodeOf(t)' /\ AbortOf(t)'
    BY <1>3, <1>4, <2>1, <2>3, <2>5
      DEF GraphOf, NodeOf, AbortOf, InBarrier, Computing, SamePool
  <2> QED
    BY <1>1, <1>2, <2>1, <2>3, <2>4, <2>6, ComputeStep
<1> QED
  BY <1>6, <1>7, <1>8

\* The step that follows a barrier.
AfterBarrier(t, from) == IF from = "chunks" THEN "chunk" ELSE IF from = "node" THEN "node"
                  ELSE IF t = 0 THEN "return" ELSE "top"

\* Leaving a barrier.
LEMMA Left ==
  ASSUME Types, NEW t \in Thread, LeaveBarrier(t)
  PROVE  LET from == barrier[t].from
         IN  /\ from \in Froms /\ GoTo(t, AfterBarrier(t, from)) /\ pc'[t] = AfterBarrier(t, from)
             /\ \A u \in Thread \ {t} : pc'[u] = pc[u] /\ task'[u] = task[u]
             /\ task'[t].nth = task[t].nth
             /\ task'[t].node_n = IF from = "node" THEN task[t].node_n + 1
                                  ELSE task[t].node_n
             /\ task'[t].chunk = IF from = "chunks" THEN t ELSE task[t].chunk
             /\ AfterBarrier(t, from) \notin InBarrier /\ ~Late(t)'
<1>1. barrier[t].from \in Froms
  BY DEF Types, BarrierType
<1>2. PICK from \in Froms : from = barrier[t].from
  BY <1>1
<1>3. GoTo(t, AfterBarrier(t, from))
  BY <1>2 DEF LeaveBarrier, AfterBarrier, After, Froms
<1>4. pc'[t] = AfterBarrier(t, from) /\ \A u \in Thread \ {t} : pc'[u] = pc[u]
  BY <1>3 DEF GoTo, Types, StepsOK
<1>5. task' = IF from = "chunks" THEN [task EXCEPT ![t].chunk = t]
              ELSE IF from = "node" THEN [task EXCEPT ![t].node_n = @ + 1]
              ELSE task
  BY <1>2 DEF LeaveBarrier
<1>6. task \in [Thread -> Task] /\ task[t] \in Task
  BY DEF Types, TaskType
<1>7. /\ \A u \in Thread \ {t} : task'[u] = task[u]
      /\ task'[t].nth = task[t].nth
      /\ task'[t].node_n = IF from = "node" THEN task[t].node_n + 1 ELSE task[t].node_n
      /\ task'[t].chunk = IF from = "chunks" THEN t ELSE task[t].chunk
  BY <1>5, <1>6 DEF Task, Froms
<1>8. AfterBarrier(t, from) \notin InBarrier /\ ~Late(t)'
  BY <1>4 DEF AfterBarrier, InBarrier, Late
<1> QED
  BY <1>2, <1>3, <1>4, <1>7, <1>8

\* A thread that was late at a barrier, or is alone, leaves it.
LEMMA BarrierLeft ==
  ASSUME BarrierInv, NEW t \in Thread, LeaveBarrier(t), SpinBarrier(t) \/ JoinBarrier(t),
         UNCHANGED tp
  PROVE  /\ BarrierInv'
         /\ pc[t] = "spin" => Segment(t)' = Segment(t)
         /\ pc[t] = "join" => Team = {t}
<1>1. Types /\ Types'
  BY TypesCompute DEF BarrierInv, Compute
<1>2. /\ pc[t] \in {"spin", "join"} /\ pc[t] \in Computing /\ pc[t] \in InBarrier
      /\ pc[t] = "spin" => Late(t)
      /\ UNCHANGED <<worker, n_threads, barrier>> /\ SamePool
  BY DEF SpinBarrier, JoinBarrier, Computing, Late, SamePool, Idle, InBarrier
<1>3. PICK from \in Froms : from = barrier[t].from
  BY <1>1 DEF Types, BarrierType
<1>4. PICK step : step = AfterBarrier(t, from)
  OBVIOUS
<1>5. /\ GoTo(t, step) /\ pc'[t] = step /\ task'[t].nth = task[t].nth
      /\ \A u \in Thread \ {t} : pc'[u] = pc[u] /\ task'[u] = task[u]
      /\ task'[t].node_n = IF from = "node" THEN task[t].node_n + 1 ELSE task[t].node_n
      /\ step \notin InBarrier /\ ~Late(t)'
  BY <1>1, <1>3, <1>4, Left
<1>6. /\ t \in Team /\ GraphOf(t) /\ NodeOf(t) /\ Nodes \in Nat \ {0}
      /\ task[t].node_n \in Nat
      /\ tp.n_threads_max \in Nat \ {0} /\ 0 \in Team
      /\ pc[t] \notin RestSteps /\ pc[t] \notin WaitSteps
  BY <1>2, ComputeKnown
<1>7. ~Inside(t)' /\ (Resting(t)' <=> from = "end")
  BY <1>4, <1>5 DEF Inside, Resting, AfterBarrier, Froms, RestSteps, WaitSteps
<1>8. Resting(t) <=> Late(t) /\ from = "end"
  BY <1>3, <1>6 DEF Resting
<1>9. /\ pc[t] = "spin" => Segment(t)' = Segment(t)
      /\ pc[t] = "join" => Team = {t}
  <2>1. CASE pc[t] = "join"
    <3>1. tp.n_threads_max = 1
      <4>1. barrier[t].n_threads = tp.n_threads_max
        BY <1>2, <1>6 DEF GraphOf
      <4>2. JoinBarrier(t)
        BY <2>1 DEF SpinBarrier
      <4>3. CASE barrier[t].n_threads # 1
        <5>1. tp' = [tp EXCEPT !.n_barrier = @ + 1] /\ tp' = tp
          BY <4>2, <4>3 DEF JoinBarrier
        <5>2. tp'.n_barrier = tp.n_barrier + 1 /\ tp.n_barrier \in Nat
          BY <1>1, <5>1 DEF Types, PoolType
        <5> QED
          BY <5>1, <5>2
      <4> QED
        BY <4>1, <4>3
    <3>2. \A u \in Team : u = 0
      BY <3>1, Sizes DEF Team
    <3> QED
      BY <1>6, <2>1, <3>2
  <2>2. CASE pc[t] = "spin"
    <3>1. Late(t) /\ barrier' = barrier /\ worker' = worker /\ tp' = tp
      BY <1>2, <2>2
    <3>2. CASE from = "chunks"
      BY <1>3, <1>4, <1>5, <1>7, <1>8, <2>2, <3>1, <3>2 DEF Segment, AfterBarrier
    <3>3. CASE from = "node"
      <4>1. task[t].node_n + 1 < Nodes
        BY <1>2, <1>3, <1>6, <3>3 DEF NodeOf
      <4> QED
        BY <1>3, <1>4, <1>5, <1>6, <1>7, <1>8, <2>2, <3>1, <3>3, <4>1
          DEF Segment, AfterBarrier, AtNode
    <3>4. CASE from = "end"
      BY <1>7, <1>8, <2>2, <3>1, <3>4 DEF Segment
    <3> QED
      BY <3>2, <3>3, <3>4 DEF Froms
  <2> QED
    BY <1>2, <2>1, <2>2
<1>10. GraphOf(t)'
  <2>1. task[t].nth = tp.n_threads_max
    BY <1>2, <1>6 DEF GraphOf, InBarrier
  <2>2. ~Resting(t)' => ~Resting(t)
    BY <1>7, <1>8
  <2>3. step # "seen"
    BY <1>4 DEF AfterBarrier
  <2> QED
    BY <1>2, <1>5, <1>6, <2>1, <2>2, <2>3 DEF GraphOf
<1>11. NodeOf(t)'
  <2>1. /\ from = "chunks" => task[t].node_n < Nodes
        /\ from = "node" => task[t].node_n + 1 < Nodes
        /\ task[t].node_n <= Nodes
    BY <1>2, <1>3, <1>6 DEF NodeOf
  <2> QED
    BY <1>2, <1>3, <1>4, <1>5, <1>6, <2>1 DEF NodeOf, AfterBarrier
<1>12. AbortOf(t)'
  BY <1>4, <1>5, <1>7 DEF AbortOf, AfterBarrier
<1> QED
  BY <1>1, <1>2, <1>5, <1>9, <1>10, <1>11, <1>12, ComputeStep DEF InBarrier

\* The chunks of a node.
LEMMA BarrierChunks ==
  ASSUME BarrierInv, NEW t \in Thread, Chunk(t) \/ FetchChunk(t)
  PROVE  BarrierInv' /\ Segment(t)' = Segment(t)
<1>1. Types /\ Types'
  BY TypesCompute DEF BarrierInv, Compute
<1>2. /\ pc[t] \in {"chunk", "fetch"} /\ pc[t] \in Computing
      /\ UNCHANGED <<worker, n_threads, barrier>> /\ SamePool /\ tp'.abort = tp.abort
  BY <1>1 DEF Chunk, FetchChunk, Computing, Idle, SamePool, Types, PoolType
<1>3. /\ t \in Team /\ GraphOf(t) /\ NodeOf(t) /\ ~Late(t) /\ ~Resting(t)
  BY <1>2, ComputeKnown DEF Late
<1>4. PICK step \in {"chunk", "fetch", "callback"} : GoTo(t, step)
  BY DEF Chunk, FetchChunk
<1>5. pc'[t] = step
  BY <1>1, <1>4 DEF GoTo, Types, StepsOK
<1>6. /\ task'[t].node_n = task[t].node_n /\ task'[t].nth = task[t].nth
      /\ \A u \in Thread \ {t} : task'[u] = task[u]
  BY <1>1 DEF Chunk, FetchChunk, Types, TaskType, Task
<1>7. ~Late(t)' /\ ~Resting(t)' /\ ~Inside(t)'
  BY <1>5 DEF Late, Resting, RestSteps, WaitSteps, Inside, InBarrier
<1>8. Segment(t)' = Segment(t)
  BY <1>2, <1>3, <1>5, <1>6, <1>7 DEF Segment
<1>9. GraphOf(t)' /\ NodeOf(t)' /\ AbortOf(t)'
  BY <1>2, <1>3, <1>5, <1>6, <1>7
    DEF GraphOf, NodeOf, AbortOf, InBarrier, Computing, SamePool
<1> QED
  BY <1>1, <1>2, <1>4, <1>5, <1>6, <1>8, <1>9, ComputeStep

\* The end of a node, where thread 0 may abort the graph.
LEMMA BarrierEndNode ==
  ASSUME BarrierInv, NEW t \in Thread, EndNode(t)
  PROVE  BarrierInv' /\ Segment(t)' = Segment(t)
<1>1. Types /\ Types'
  BY TypesCompute DEF BarrierInv, Compute
<1>2. /\ pc[t] = "callback" /\ pc[t] \in Computing /\ pc[t] \notin InBarrier
      /\ UNCHANGED <<worker, n_threads>>
  BY DEF EndNode, Computing, Idle, InBarrier
<1>3. SamePool
  BY <1>1 DEF EndNode, AbortAt, SamePool, Types, PoolType
<1>4. /\ t \in Team /\ GraphOf(t) /\ NodeOf(t) /\ ~Late(t) /\ ~Resting(t)
      /\ tp.n_threads_cur = tp.n_threads_max /\ Nodes \in Nat \ {0}
      /\ task[t].node_n \in Nat /\ Segment(t) = Segment(0) /\ 0 \in Team
  BY <1>2, ComputeKnown DEF Late, InBarrier
<1>5. Segment(t) = 2 * task[t].node_n + 1 /\ task[t].node_n < Nodes
  BY <1>2, <1>4 DEF Segment, NodeOf
<1>6. \A u \in Team \ {t} : AbortOf(u)'
  <2> SUFFICES ASSUME NEW u \in Team \ {t} PROVE AbortOf(u)'
    OBVIOUS
  <2>1. /\ u \in Thread /\ Segment(u) = 2 * task[t].node_n + 1
        /\ task[u].node_n \in Nat /\ NodeOf(u)
    BY <1>1, <1>4, <1>5 DEF Team, BarrierInv, SegmentInv, NodeInv, Types, TaskType, Task
  <2>2. pc[u] # "set"
    BY <1>4, <1>5, <2>1 DEF Segment, Resting, RestSteps, WaitSteps, Late
  <2>3. ~(Inside(u) /\ barrier[u].from = "chunks")
    BY <1>4, <1>5, <2>1 DEF Segment, Inside, Resting, RestSteps, WaitSteps, InBarrier
  <2>4. ~(Inside(u) /\ barrier[u].from = "end" /\ task[u].node_n < Nodes)
    BY <1>4, <1>5, <2>1
      DEF Segment, Inside, Resting, RestSteps, WaitSteps, InBarrier, AtNode
  <2>5. /\ pc'[u] = pc[u] /\ task'[u] = task[u] /\ barrier'[u] = barrier[u]
        /\ worker'[u] = worker[u]
    BY <1>1, <1>2, <2>1 DEF EndNode, EnterBarrier, GoTo, Types, StepsOK, TaskType, BarrierType
  <2>6. Inside(u)' = Inside(u)
    BY <1>3, <2>5, Stays DEF SamePool
  <2> QED
    BY <2>2, <2>3, <2>4, <2>5, <2>6 DEF AbortOf
<1>7. CASE task[t].node_n + 1 < Nodes
  <2>1. EnterBarrier(t, "node") /\ UNCHANGED task /\ "node" \in Froms
    BY <1>7 DEF EndNode, Froms
  <2>2. /\ GoTo(t, "join") /\ pc'[t] = "join" /\ barrier'[t].n_threads = tp.n_threads_cur
        /\ barrier'[t].n_passed = tp.n_barrier_passed /\ barrier'[t].from = "node"
        /\ \A u \in Thread \ {t} : barrier'[u] = barrier[u]
        /\ ~Late(t)' /\ Inside(t)' /\ ~Resting(t)'
    BY <1>1, <2>1, Entered
  <2>3. Segment(t)' = Segment(t)
    BY <1>5, <2>1, <2>2 DEF Segment
  <2>4. GraphOf(t)' /\ NodeOf(t)' /\ AbortOf(t)'
    BY <1>2, <1>3, <1>4, <1>7, <2>1, <2>2
      DEF GraphOf, NodeOf, AbortOf, SamePool, Computing, InBarrier
  <2> QED
    BY <1>1, <1>2, <1>3, <1>6, <2>1, <2>2, <2>3, <2>4, ComputeStep
<1>8. CASE ~(task[t].node_n + 1 < Nodes)
  <2>1. GoTo(t, "node") /\ UNCHANGED barrier /\ task' = [task EXCEPT ![t].node_n = @ + 1]
    BY <1>8 DEF EndNode
  <2>2. /\ pc'[t] = "node" /\ task'[t].node_n = task[t].node_n + 1
        /\ task'[t].nth = task[t].nth
        /\ \A u \in Thread \ {t} : task'[u] = task[u]
    BY <1>1, <2>1 DEF GoTo, Types, StepsOK, TaskType, Task
  <2>3. ~Late(t)' /\ ~Resting(t)' /\ ~Inside(t)'
    BY <2>2 DEF Late, Resting, RestSteps, WaitSteps, Inside, InBarrier
  <2>4. Segment(t)' = Segment(t)
    BY <1>4, <1>5, <1>8, <2>2, <2>3 DEF Segment, AtNode
  <2>5. GraphOf(t)' /\ NodeOf(t)' /\ AbortOf(t)'
    BY <1>2, <1>3, <1>4, <1>5, <1>8, <2>2, <2>3
      DEF GraphOf, NodeOf, AbortOf, SamePool, Computing, InBarrier
  <2> QED
    BY <1>1, <1>2, <1>3, <1>6, <2>1, <2>2, <2>4, <2>5, ComputeStep
<1> QED
  BY <1>7, <1>8

\* The threads of the pool are as many as it has.
LEMMA TeamSize ==
  ASSUME Types
  PROVE  /\ IsFiniteSet(Team) /\ Cardinality(Team) = tp.n_threads_max
         /\ Team = 0 .. tp.n_threads_max - 1
<1>1. tp.n_threads_max \in 0 .. MaxThreads
  BY DEF Types, PoolType
<1>2. Team = 0 .. tp.n_threads_max - 1
  BY <1>1, Sizes DEF Team, Thread
<1> QED
  BY <1>1, <1>2, FS_Interval

\* A thread that is not the last one joins a barrier, or the last one does: then the
\* count was one less than the threads, hence all others had joined.
LEMMA BarrierJoined ==
  ASSUME BarrierInv, NEW t \in Thread, JoinBarrier(t), barrier[t].n_threads # 1
  PROVE  BarrierInv' /\ Segment(t)' = Segment(t)
<1>1. Types /\ Types'
  BY TypesCompute DEF BarrierInv, Compute
<1>2. /\ pc[t] = "join" /\ pc[t] \in Computing /\ pc[t] \in InBarrier
      /\ UNCHANGED <<worker, n_threads, barrier, task>>
      /\ tp' = [tp EXCEPT !.n_barrier = @ + 1]
  BY DEF JoinBarrier, Computing, Idle, InBarrier
<1>3. /\ t \in Team /\ GraphOf(t) /\ NodeOf(t) /\ AbortOf(t) /\ PassedOf(t)
      /\ pc[t] \notin {"idle", "joining"} /\ 0 \in Team
      /\ tp.n_threads_max \in Nat \ {0}
  BY <1>2, ComputeKnown DEF RestSteps
<1>4. /\ tp'.n_threads_max = tp.n_threads_max /\ tp'.n_threads_cur = tp.n_threads_cur
      /\ tp'.n_graph = tp.n_graph /\ tp'.n_barrier_passed = tp.n_barrier_passed
      /\ tp'.abort = tp.abort /\ tp'.n_barrier = tp.n_barrier + 1
  BY <1>1, <1>2 DEF Types, PoolType
<1>5. PICK step \in {"reset", "spin"} : step = IF Last(t) THEN "reset" ELSE "spin"
  OBVIOUS
<1>6. /\ pc'[t] = step /\ \A u \in Thread \ {t} : pc'[u] = pc[u]
      /\ GoTo(t, step)
  BY <1>1, <1>2, <1>5 DEF JoinBarrier, GoTo, Types, StepsOK
<1>7. Team' = Team /\ Team \subseteq Thread
  BY <1>4 DEF Team
<1>8. /\ barrier[t].n_threads = tp.n_threads_max
      /\ barrier[t].n_passed = tp.n_barrier_passed
  BY <1>2, <1>3 DEF GraphOf, PassedOf
<1>9. \A u \in Thread \ {t} :
        /\ Late(u)' = Late(u) /\ Joined(u)' = Joined(u)
        /\ Segment(u)' = Segment(u) /\ GraphOf(u)' = GraphOf(u) /\ NodeOf(u)' = NodeOf(u)
        /\ AbortOf(u)' = AbortOf(u)
  BY <1>2, <1>4, <1>6, Stays
<1>10. /\ ~Late(t) /\ ~Late(t)' /\ Inside(t) /\ Inside(t)' /\ ~Resting(t) /\ ~Resting(t)'
       /\ ~Joined(t) /\ (step = "spin" => Joined(t)')
  BY <1>2, <1>4, <1>6, <1>8
    DEF Late, Inside, Joined, InBarrier, Resting, RestSteps, WaitSteps
\* Nobody is about to reset or to release the barrier.
<1>11. \A u \in Team : pc[u] \notin {"reset", "release"}
  <2> SUFFICES ASSUME NEW u \in Team, pc[u] \in {"reset", "release"} PROVE FALSE
    OBVIOUS
  <2> QED
    BY <1>2, <1>3, <1>10 DEF BarrierInv, PassedInv, PassedOf
<1>12. /\ tp.n_barrier = Cardinality(Arrived) /\ t \notin Arrived /\ Arrived \subseteq Team
       /\ IsFiniteSet(Arrived) /\ IsFiniteSet(Team)
       /\ Cardinality(Team) = tp.n_threads_max
  <2>1. Arrived \subseteq Team
    BY DEF Arrived
  <2> QED
    BY <1>1, <1>2, <1>10, <1>11, <2>1, TeamSize, FS_Subset
      DEF BarrierInv, CountInv, Arrived
<1>13. Arrived' = Arrived \union {t}
  BY <1>3, <1>5, <1>6, <1>7, <1>9, <1>10 DEF Arrived
<1>14. Cardinality(Arrived') = tp'.n_barrier
  <2>1. Cardinality(Arrived \union {t}) = Cardinality(Arrived) + 1
    BY <1>12, FS_AddElement
  <2> QED
    BY <1>4, <1>12, <1>13, <2>1
<1>15. CountInv'
  <2>1. \A u \in Team : pc'[u] # "release"
    BY <1>5, <1>6, <1>7, <1>11
  <2> QED
    BY <1>7, <1>14, <2>1 DEF CountInv
<1>16. step = "reset" => \A u \in Team \ {t} : Joined(u)
  <2> SUFFICES ASSUME step = "reset" PROVE Arrived = Team \ {t}
    BY <1>11 DEF Arrived
  <2>1. tp.n_barrier = tp.n_threads_max - 1
    BY <1>5, <1>8 DEF Last
  <2>2. /\ IsFiniteSet(Team \ {t}) /\ Cardinality(Team \ {t}) = tp.n_threads_max - 1
        /\ Arrived \subseteq Team \ {t}
    BY <1>3, <1>12, FS_RemoveElement
  <2> QED
    BY <1>12, <2>1, <2>2, FS_Subset
<1>17. PassedInv'
  <2> SUFFICES ASSUME NEW u \in Team PROVE PassedOf(u)'
    BY <1>7 DEF PassedInv
  <2>1. CASE u = t
    BY <1>5, <1>6, <1>7, <1>9, <1>10, <1>16, <2>1 DEF PassedOf
  <2>2. CASE u # t
    BY <1>2, <1>4, <1>6, <1>7, <1>9, <1>11, <2>2 DEF PassedOf, BarrierInv, PassedInv
  <2> QED
    BY <2>1, <2>2
<1>18. Segment(t)' = Segment(t)
  BY <1>2, <1>5, <1>6, <1>10 DEF Segment
<1>19. SegmentInv'
  <2>1. \A u \in Thread : Segment(u)' = Segment(u)
    BY <1>9, <1>18
  <2> QED
    BY <1>7, <2>1, Sizes DEF SegmentInv, BarrierInv
<1>20. GraphOf(t)' /\ NodeOf(t)' /\ AbortOf(t)'
  BY <1>2, <1>3, <1>4, <1>5, <1>6, <1>10 DEF GraphOf, NodeOf, AbortOf, InBarrier, Computing
<1>21. GraphInv' /\ NodeInv' /\ AbortInv'
  BY <1>7, <1>9, <1>20 DEF BarrierInv, GraphInv, NodeInv, AbortInv
<1>22. PoolInv'
  BY <1>2, <1>3, <1>4, <1>5, <1>6, <1>7, Sizes DEF PoolInv, BarrierInv
<1> QED
  BY <1>1, <1>15, <1>17, <1>18, <1>19, <1>21, <1>22 DEF BarrierInv

\* The last thread resets the count of the barrier.
LEMMA BarrierReset ==
  ASSUME BarrierInv, NEW t \in Thread, ResetBarrier(t)
  PROVE  BarrierInv' /\ Segment(t)' = Segment(t)
<1>1. Types /\ Types'
  BY TypesCompute DEF BarrierInv, Compute
<1>2. /\ pc[t] = "reset" /\ pc[t] \in Computing /\ pc[t] \in InBarrier
      /\ UNCHANGED <<worker, n_threads, barrier, task>>
  BY DEF ResetBarrier, Computing, Idle, InBarrier
<1>3. /\ t \in Team /\ GraphOf(t) /\ NodeOf(t) /\ AbortOf(t) /\ PassedOf(t)
      /\ pc[t] \notin {"idle", "joining"} /\ 0 \in Team
  BY <1>2, ComputeKnown DEF RestSteps
<1>4. /\ tp'.n_threads_max = tp.n_threads_max /\ tp'.n_threads_cur = tp.n_threads_cur
      /\ tp'.n_graph = tp.n_graph /\ tp'.n_barrier_passed = tp.n_barrier_passed
      /\ tp'.abort = tp.abort /\ tp'.n_barrier = 0
  BY <1>1 DEF ResetBarrier, Types, PoolType
<1>5. pc'[t] = "release" /\ \A u \in Thread \ {t} : pc'[u] = pc[u]
  BY <1>1 DEF ResetBarrier, GoTo, Types, StepsOK
<1>6. Team' = Team /\ Team \subseteq Thread
  BY <1>4 DEF Team
<1>7. \A u \in Thread \ {t} :
        /\ Late(u)' = Late(u) /\ Joined(u)' = Joined(u)
        /\ Segment(u)' = Segment(u) /\ GraphOf(u)' = GraphOf(u) /\ NodeOf(u)' = NodeOf(u)
        /\ AbortOf(u)' = AbortOf(u)
  BY <1>2, <1>4, <1>5, Stays
<1>8. ~Late(t) /\ ~Late(t)' /\ Inside(t) /\ Inside(t)' /\ ~Resting(t) /\ ~Resting(t)'
  BY <1>2, <1>5 DEF Late, Inside, InBarrier, Resting, RestSteps, WaitSteps
<1>9. \A u \in Team \ {t} : Joined(u)
  BY <1>2, <1>3 DEF PassedOf
<1>10. PassedInv'
  <2> SUFFICES ASSUME NEW u \in Team PROVE PassedOf(u)'
    BY <1>6 DEF PassedInv
  <2>1. CASE u = t
    BY <1>5, <1>6, <1>7, <1>8, <1>9, <2>1 DEF PassedOf
  <2>2. CASE u # t
    BY <1>5, <1>6, <1>7, <1>9, <2>2 DEF PassedOf, Joined, Late
  <2> QED
    BY <2>1, <2>2
<1>11. CountInv'
  BY <1>3, <1>4, <1>5, <1>6 DEF CountInv
<1>16. Segment(t)' = Segment(t)
  BY <1>2, <1>5, <1>8 DEF Segment
<1>12. SegmentInv'
  <2>1. \A u \in Thread : Segment(u)' = Segment(u)
    BY <1>7, <1>16
  <2> QED
    BY <1>6, <2>1, Sizes DEF SegmentInv, BarrierInv
<1>13. GraphOf(t)' /\ NodeOf(t)' /\ AbortOf(t)'
  BY <1>2, <1>3, <1>4, <1>5, <1>8 DEF GraphOf, NodeOf, AbortOf, InBarrier, Computing
<1>14. GraphInv' /\ NodeInv' /\ AbortInv'
  BY <1>6, <1>7, <1>13 DEF BarrierInv, GraphInv, NodeInv, AbortInv
<1>15. PoolInv'
  BY <1>2, <1>3, <1>4, <1>5, <1>6, Sizes DEF PoolInv, BarrierInv
<1> QED
  BY <1>1, <1>10, <1>11, <1>12, <1>14, <1>15, <1>16 DEF BarrierInv

\* The last thread releases the barrier: all threads were at the same one, and go on
\* to the same segment.
LEMMA BarrierRelease ==
  ASSUME BarrierInv, NEW t \in Thread, ReleaseBarrier(t)
  PROVE  LET from == barrier[t].from
             i == task[t].node_n
         IN  /\ BarrierInv'
             /\ \A u \in Team : Inside(u) /\ barrier[u].from = from /\ task[u].node_n = i
             /\ \A u \in Team \ {t} : pc'[u] = "spin" /\ Late(u)'
             /\ \A u \in Team : ~Inside(u)'
             /\ Segment(0)' = IF from = "chunks" THEN 2 * i + 1
                              ELSE IF from = "node" THEN 2 * i + 2 ELSE Out
<1>1. Types /\ Types'
  BY TypesCompute DEF BarrierInv, Compute
<1>2. /\ pc[t] = "release" /\ pc[t] \in Computing /\ pc[t] \in InBarrier
      /\ UNCHANGED <<worker, n_threads, barrier>> /\ LeaveBarrier(t)
  BY DEF ReleaseBarrier, Computing, Idle, InBarrier
<1>3. /\ t \in Team /\ GraphOf(t) /\ NodeOf(t) /\ AbortOf(t) /\ PassedOf(t)
      /\ pc[t] \notin {"idle", "joining"} /\ 0 \in Team /\ 0 \in Thread
      /\ Nodes \in Nat \ {0} /\ task[t].node_n \in Nat /\ Segment(t) = Segment(0)
  BY <1>2, ComputeKnown, Sizes DEF RestSteps
<1>4. /\ tp'.n_threads_max = tp.n_threads_max /\ tp'.n_threads_cur = tp.n_threads_cur
      /\ tp'.n_graph = tp.n_graph /\ tp'.n_barrier_passed = tp.n_barrier_passed + 1
      /\ tp'.abort = tp.abort /\ tp'.n_barrier = tp.n_barrier
      /\ tp.n_barrier_passed \in Nat
  BY <1>1 DEF ReleaseBarrier, Types, PoolType
<1>5. PICK from \in Froms : from = barrier[t].from
  BY <1>1 DEF Types, BarrierType
<1>6. PICK i \in Nat : i = task[t].node_n
  BY <1>3
<1>7. PICK step : step = AfterBarrier(t, from)
  OBVIOUS
<1>8. /\ pc'[t] = step /\ step \notin InBarrier /\ ~Late(t)'
      /\ \A u \in Thread \ {t} : pc'[u] = pc[u] /\ task'[u] = task[u]
      /\ task'[t].node_n = IF from = "node" THEN i + 1 ELSE i
      /\ task'[t].nth = task[t].nth
  BY <1>1, <1>2, <1>5, <1>6, <1>7, Left
<1>9. Team' = Team /\ Team \subseteq Thread
  BY <1>4 DEF Team
<1>10. \A u \in Team \ {t} : Joined(u)
  BY <1>2, <1>3 DEF PassedOf
\* All threads are at the same barrier.
<1>11. Inside(t) /\ ~Late(t) /\ ~Resting(t)
  BY <1>2, <1>3 DEF Inside, Late, Resting, RestSteps, WaitSteps
<1>12. \A u \in Team \ {t} :
         /\ pc[u] = "spin" /\ pc[u] \in InBarrier /\ Inside(u) /\ ~Late(u) /\ ~Resting(u)
         /\ barrier[u].n_passed = tp.n_barrier_passed
  BY <1>10 DEF Joined, Inside, Late, InBarrier, Resting, RestSteps, WaitSteps
<1>13. /\ from = "chunks" => i < Nodes /\ tp.abort # i
       /\ from = "node" => i + 1 < Nodes
       /\ from = "end" => i <= Nodes /\ (i < Nodes => tp.abort = i)
  BY <1>2, <1>3, <1>5, <1>6, <1>11 DEF NodeOf, AbortOf
<1>14. Segment(t) = IF from = "chunks" THEN 2 * i ELSE IF from = "node" THEN 2 * i + 1
                    ELSE AtNode(i)
  BY <1>2, <1>5, <1>6, <1>11 DEF Segment
<1>15. \A u \in Team \ {t} : barrier[u].from = from /\ task[u].node_n = i
  <2> SUFFICES ASSUME NEW u \in Team \ {t}
               PROVE  barrier[u].from = from /\ task[u].node_n = i
    OBVIOUS
  <2>1. PICK g \in Froms, j \in Nat : g = barrier[u].from /\ j = task[u].node_n
    BY <1>1, <1>9 DEF Types, BarrierType, TaskType, Task
  <2>2. NodeOf(u) /\ AbortOf(u) /\ Segment(u) = Segment(t)
    BY <1>3, <1>9 DEF BarrierInv, NodeInv, AbortInv, SegmentInv
  <2>3. /\ g = "chunks" => j < Nodes /\ tp.abort # j
        /\ g = "node" => j + 1 < Nodes
        /\ g = "end" => j <= Nodes /\ (j < Nodes => tp.abort = j)
    BY <1>12, <2>1, <2>2 DEF NodeOf, AbortOf
  <2>4. Segment(u) = IF g = "chunks" THEN 2 * j ELSE IF g = "node" THEN 2 * j + 1
                     ELSE AtNode(j)
    BY <1>12, <2>1 DEF Segment
  <2>5. g \in {"chunks", "node", "end"} /\ from \in {"chunks", "node", "end"}
    BY DEF Froms
  <2>6. g = from /\ j = i
    BY <1>3, <1>13, <1>14, <2>2, <2>3, <2>4, <2>5 DEF AtNode
  <2> QED
    BY <2>1, <2>6
\* After the release they have all left it.
<1>16. \A u \in Team \ {t} : /\ pc'[u] = "spin" /\ Late(u)' /\ ~Joined(u)' /\ ~Inside(u)'
                             /\ (Resting(u)' <=> from = "end")
  <2> SUFFICES ASSUME NEW u \in Team \ {t}
               PROVE  /\ pc'[u] = "spin" /\ Late(u)' /\ ~Joined(u)' /\ ~Inside(u)'
                      /\ (Resting(u)' <=> from = "end")
    OBVIOUS
  <2>1. pc'[u] = "spin" /\ barrier'[u] = barrier[u]
    BY <1>2, <1>8, <1>9, <1>12
  <2>2. barrier[u].n_passed = tp.n_barrier_passed /\ barrier[u].from = from
    BY <1>12, <1>15
  <2>3. Late(u)' /\ ~Joined(u)'
    BY <1>4, <2>1, <2>2 DEF Late, Joined
  <2>4. Resting(u)' <=> from = "end"
    BY <2>1, <2>2, <2>3 DEF Resting, RestSteps, WaitSteps
  <2> QED
    BY <2>1, <2>3, <2>4 DEF Inside
<1>17. ~Joined(t)' /\ ~Inside(t)' /\ (Resting(t)' <=> from = "end")
  <2>1. step \in RestSteps \union WaitSteps => from = "end"
    BY <1>7 DEF AfterBarrier, RestSteps, WaitSteps, Froms
  <2>2. from = "end" => step \in IF t = 0 THEN RestSteps ELSE WaitSteps
    BY <1>7 DEF AfterBarrier, RestSteps, WaitSteps
  <2> QED
    BY <1>8, <2>1, <2>2 DEF Joined, Inside, InBarrier, Resting
<1>18. \A u \in Team : u # 0 => worker'[u].last_graph = tp'.n_graph
  BY <1>2, <1>3, <1>4, <1>9, <1>11, <1>12 DEF BarrierInv, GraphInv, GraphOf
<1>19. \A u \in Team : Segment(u)' = IF from = "chunks" THEN 2 * i + 1
                                    ELSE IF from = "node" THEN 2 * i + 2 ELSE Out
  <2> SUFFICES ASSUME NEW u \in Team
               PROVE  Segment(u)' = IF from = "chunks" THEN 2 * i + 1
                                    ELSE IF from = "node" THEN 2 * i + 2 ELSE Out
    OBVIOUS
  <2>1. CASE from = "end"
    BY <1>16, <1>17, <1>18, <2>1 DEF Segment
  <2>2. CASE u = t /\ from # "end"
    BY <1>3, <1>7, <1>8, <1>13, <1>17, <2>2 DEF Segment, AfterBarrier, AtNode, Froms
  <2>3. CASE u # t /\ from # "end"
    <3>1. /\ pc'[u] = "spin" /\ Late(u)' /\ ~Resting(u)' /\ barrier'[u].from = from
          /\ task'[u].node_n = i
      BY <1>2, <1>8, <1>9, <1>15, <1>16, <2>3
    <3> QED
      BY <2>3, <3>1 DEF Segment, Froms
  <2> QED
    BY <2>1, <2>2, <2>3
<1>20. SegmentInv'
  BY <1>3, <1>9, <1>19 DEF SegmentInv
<1>21. PassedInv'
  <2> SUFFICES ASSUME NEW u \in Team PROVE PassedOf(u)'
    BY <1>9 DEF PassedInv
  <2>1. CASE u = t
    BY <1>8, <2>1 DEF PassedOf, InBarrier
  <2>2. CASE u # t
    BY <1>2, <1>4, <1>12, <1>16, <2>2 DEF PassedOf
  <2> QED
    BY <2>1, <2>2
<1>22. CountInv'
  <2>1. tp.n_barrier = 0
    BY <1>2, <1>3 DEF BarrierInv, CountInv
  <2>2. \A u \in Team : pc'[u] # "release" /\ pc'[u] # "reset" /\ ~Joined(u)'
    BY <1>8, <1>16, <1>17 DEF InBarrier
  <2>3. Arrived' = {}
    BY <1>9, <2>2 DEF Arrived
  <2> QED
    BY <1>4, <1>9, <2>1, <2>2, <2>3, FS_EmptySet DEF CountInv
<1>23. AbortInv'
  <2>1. \A u \in Team : ~Inside(u)' /\ pc'[u] # "set"
    BY <1>7, <1>8, <1>16, <1>17 DEF AfterBarrier
  <2> QED
    BY <1>9, <2>1 DEF AbortInv, AbortOf
<1>24. GraphInv'
  <2> SUFFICES ASSUME NEW u \in Team PROVE GraphOf(u)'
    BY <1>9 DEF GraphInv
  <2>1. pc'[u] # "seen"
    BY <1>7, <1>8, <1>16 DEF AfterBarrier
  <2>2. /\ task'[u].nth = tp'.n_threads_max /\ barrier'[u].n_threads = tp'.n_threads_max
    <3>1. task[u].nth = tp.n_threads_max /\ barrier[u].n_threads = tp.n_threads_max
      BY <1>2, <1>12 DEF BarrierInv, GraphInv, GraphOf, InBarrier, Computing
    <3> QED
      BY <1>2, <1>4, <1>8, <1>9, <3>1
  <2> QED
    BY <1>18, <2>1, <2>2 DEF GraphOf
<1>25. NodeInv'
  <2> SUFFICES ASSUME NEW u \in Thread PROVE NodeOf(u)'
    BY DEF NodeInv
  <2>1. CASE u = t
    BY <1>3, <1>7, <1>8, <1>13, <2>1 DEF NodeOf, AfterBarrier, Froms
  <2>2. CASE u # t
    BY <1>2, <1>8, <2>2 DEF NodeOf, BarrierInv, NodeInv
  <2> QED
    BY <2>1, <2>2
<1>26. PoolInv'
  <2>1. t = 0 => step \notin {"idle", "joining"}
    BY <1>7 DEF AfterBarrier
  <2> QED
    BY <1>2, <1>3, <1>4, <1>8, <1>9, <2>1, Sizes DEF PoolInv, BarrierInv
<1>27. BarrierInv'
  BY <1>1, <1>20, <1>21, <1>22, <1>23, <1>24, <1>25, <1>26 DEF BarrierInv
<1> QED
  BY <1>3, <1>5, <1>6, <1>11, <1>12, <1>15, <1>16, <1>17, <1>19, <1>27

\* The steps of a thread in a graph.
LEMMA BarrierCompute ==
  ASSUME BarrierInv, NEW t \in Thread, Compute(t)
  PROVE  BarrierInv'
<1>1. CASE JoinBarrier(t)
  <2>1. CASE barrier[t].n_threads = 1
    BY <1>1, <2>1, BarrierLeft DEF JoinBarrier
  <2> QED
    BY <1>1, <2>1, BarrierJoined
<1>2. CASE SpinBarrier(t)
  BY <1>2, BarrierLeft DEF SpinBarrier
<1> QED
  BY <1>1, <1>2, BarrierNodes, BarrierChunks, BarrierEndNode, BarrierReset, BarrierRelease
    DEF Compute

\* The invariant of the barrier holds when every plan uses all threads of its pool.
THEOREM BarrierInvariant == ~Varying => (Spec => []BarrierInv)
<1>1. Init => BarrierInv
  <2> SUFFICES ASSUME Init PROVE BarrierInv
    OBVIOUS
  <2>1. Types
    BY TypesInit
  <2>2. /\ tp.n_threads_max = 0 /\ tp.n_threads_cur = 0 /\ tp.n_barrier = 0
        /\ pc[0] = "idle" /\ \A w \in Worker : pc[w] = "exited"
    BY Sizes DEF Init, NoPool, NewPool
  <2>3. Team = {}
    <3>1. \A u \in Thread : ~(u < 0)
      BY Sizes
    <3> QED
      BY <2>2, <3>1 DEF Team
  <2>4. PoolInv
    BY <2>2 DEF PoolInv
  <2>5. NodeInv
    <3> SUFFICES ASSUME NEW u \in Thread PROVE NodeOf(u)
      BY DEF NodeInv
    <3>1. task[u].node_n = 0 /\ pc[u] \in {"idle", "exited"}
      BY <2>2, Sizes DEF Init
    <3> QED
      BY <3>1, Sizes DEF NodeOf, InBarrier
  <2>6. CountInv
    <3>1. Arrived = {}
      BY <2>3 DEF Arrived
    <3> QED
      BY <2>2, <2>3, <3>1, FS_EmptySet DEF CountInv
  <2> QED
    BY <2>1, <2>3, <2>4, <2>5, <2>6
      DEF BarrierInv, GraphInv, AbortInv, PassedInv, SegmentInv
<1>2. ~Varying /\ BarrierInv /\ [Next]_vars => BarrierInv'
  <2> SUFFICES ASSUME ~Varying, BarrierInv, [Next]_vars PROVE BarrierInv'
    OBVIOUS
  <2>1. CASE UNCHANGED vars
    <3>1. Types'
      BY <2>1 DEF vars, Types, StepsOK, BarrierInv
    <3> QED
      BY <2>1, <3>1, Untouched DEF vars
  <2> QED
    BY <2>1, BarrierMain, BarrierWait, BarrierCompute DEF Next
<1> SUFFICES ASSUME ~Varying PROVE Spec => []BarrierInv
  OBVIOUS
<1>3. BarrierInv /\ [Next]_vars => BarrierInv'
  BY <1>2
<1> QED
  BY <1>1, <1>3, PTL DEF Spec


-----------------------------------------------------------------------------
(* The bounds of the types, and the end of a graph.                        *)

\* The sizes that TypeOK bounds.
BoundsInv ==
  /\ \A t \in Thread : /\ task[t].nth \in 1 .. MaxThreads
                       /\ barrier[t].n_threads \in 1 .. MaxThreads
  /\ done \subseteq (0 .. Nodes - 1) \X Nat

\* The steps of a thread in a graph keep the bounds.
LEMMA BoundsCompute ==
  ASSUME BarrierInv, BoundsInv, NEW t \in Thread, Compute(t)
  PROVE  BoundsInv'
<1>1. Types
  BY DEF BarrierInv
<1>2. /\ pc[t] \in Computing /\ t \in Team /\ NodeOf(t)
      /\ tp.n_threads_cur \in 1 .. MaxThreads
  <2>1. pc[t] \in Computing
    BY DEF Compute, Begin, Node, SetChunk, JoinBarrier, ResetBarrier, ReleaseBarrier,
      SpinBarrier, Chunk, FetchChunk, EndNode, Computing
  <2>2. tp.n_threads_max \in 0 .. MaxThreads
    BY <1>1 DEF Types, PoolType
  <2> QED
    BY <2>1, <2>2, ComputeKnown
<1>3. \A from : EnterBarrier(t, from) =>
        \A u \in Thread : barrier'[u].n_threads \in 1 .. MaxThreads
  BY <1>1, <1>2 DEF EnterBarrier, BoundsInv, Types, BarrierType
<1>4. LeaveBarrier(t) => \A u \in Thread : task'[u].nth \in 1 .. MaxThreads
  <2> SUFFICES ASSUME LeaveBarrier(t) PROVE \A u \in Thread : task'[u].nth = task[u].nth
    BY DEF BoundsInv
  <2> QED
    BY <1>1, Left
<1>5. CASE Begin(t)
  <2>1. \A u \in Thread : task'[u].nth \in 1 .. MaxThreads
    BY <1>1, <1>2, <1>5 DEF Begin, BoundsInv, Types, TaskType
  <2> QED
    BY <1>5, <2>1 DEF Begin, BoundsInv
<1>6. CASE Node(t)
  BY <1>3, <1>6 DEF Node, BoundsInv
<1>7. CASE SetChunk(t)
  BY <1>3, <1>7 DEF SetChunk, BoundsInv
<1>8. CASE JoinBarrier(t)
  BY <1>4, <1>8 DEF JoinBarrier, BoundsInv
<1>9. CASE ResetBarrier(t) \/ ReleaseBarrier(t) \/ SpinBarrier(t)
  BY <1>4, <1>9 DEF ResetBarrier, ReleaseBarrier, SpinBarrier, BoundsInv
<1>10. CASE Chunk(t)
  <2>1. task[t].node_n \in Nat /\ task[t].chunk \in Nat /\ task[t].node_n < Nodes
    BY <1>1, <1>2, <1>10 DEF Types, TaskType, Task, Chunk, NodeOf
  <2>2. <<task[t].node_n, task[t].chunk>> \in (0 .. Nodes - 1) \X Nat
    BY <2>1, Sizes
  <2>3. done' \subseteq (0 .. Nodes - 1) \X Nat
    BY <1>10, <2>2 DEF Chunk, BoundsInv
  <2> QED
    BY <1>10, <2>3 DEF Chunk, BoundsInv
<1>11. CASE FetchChunk(t) \/ EndNode(t)
  <2>1. \A u \in Thread : task'[u].nth = task[u].nth
    BY <1>1, <1>11 DEF FetchChunk, EndNode, Types, TaskType, Task
  <2>2. \A u \in Thread : barrier'[u].n_threads \in 1 .. MaxThreads
    BY <1>3, <1>11 DEF FetchChunk, EndNode, BoundsInv
  <2> QED
    BY <1>11, <2>1, <2>2 DEF FetchChunk, EndNode, BoundsInv
<1> QED
  BY <1>5, <1>6, <1>7, <1>8, <1>9, <1>10, <1>11 DEF Compute

\* The other steps keep them.
LEMMA BoundsOthers ==
  ASSUME BoundsInv, Main \/ Caller \/ \E w \in Worker : Wait(w) \/ SpuriousWakeup(w)
  PROVE  BoundsInv'
<1>1. CASE Main \/ Caller
  <2>1. UNCHANGED <<task, barrier>> /\ (done' = done \/ done' = {})
    BY <1>1 DEF Main, Caller, ThreadpoolNew, GraphCompute, KickThreads, KickGraph, KickWake,
      Pause, Resume, ThreadpoolFree, Join, Return
  <2> QED
    BY <2>1 DEF BoundsInv
<1>2. CASE \E w \in Worker : Wait(w) \/ SpuriousWakeup(w)
  <2>1. UNCHANGED Outside
    BY <1>2 DEF Wait, TestPause, EnterPause, LeavePause, TestStop, PollOrSleep, SeeGraph,
      TakeGraph, EndPolling, CheckForWork, SpuriousWakeup
  <2> QED
    BY <2>1 DEF BoundsInv, Outside
<1> QED
  BY <1>1, <1>2

\* Pools, threads and nodes stay in their bounds.
LEMMA BoundsInvariant == ~Varying => (Spec => [](BarrierInv /\ BoundsInv))
<1>1. Init => BoundsInv
  BY Sizes DEF Init, BoundsInv
<1>2. BarrierInv /\ BoundsInv /\ [Next]_vars => BoundsInv'
  <2> SUFFICES ASSUME BarrierInv, BoundsInv, [Next]_vars PROVE BoundsInv'
    OBVIOUS
  <2>1. CASE UNCHANGED vars
    BY <2>1 DEF vars, BoundsInv
  <2> QED
    BY <2>1, BoundsCompute, BoundsOthers DEF Next
<1> SUFFICES ASSUME ~Varying PROVE Spec => [](BarrierInv /\ BoundsInv)
  OBVIOUS
<1>3. Spec => []BarrierInv
  BY BarrierInvariant
<1> QED
  BY <1>1, <1>2, <1>3, PTL DEF Spec

\* When every plan uses all threads of its pool, the variables of the pool and of its
\* threads stay in their types, and the barrier never counts more threads than there are.
THEOREM TypeCorrect == ~Varying => (Spec => []TypeOK)
<1>1. BarrierInv /\ BoundsInv => TypeOK
  <2> SUFFICES ASSUME BarrierInv, BoundsInv PROVE TypeOK
    OBVIOUS
  <2>1. Types
    BY DEF BarrierInv
  <2>2. tp.n_barrier \in 0 .. MaxThreads
    <3>1. Arrived \subseteq Team
      BY DEF Arrived
    <3>2. IsFiniteSet(Team) /\ Cardinality(Team) <= MaxThreads
      BY <2>1, TeamSize DEF Types, PoolType
    <3>3. IsFiniteSet(Arrived) /\ Cardinality(Arrived) <= Cardinality(Team)
      BY <3>1, <3>2, FS_Subset
    <3>4. Cardinality(Arrived) \in Nat /\ Cardinality(Team) \in Nat
      BY <3>2, <3>3, FS_CardinalityType
    <3>5. Cardinality(Arrived) \in 0 .. MaxThreads /\ 0 \in 0 .. MaxThreads
      BY <3>2, <3>3, <3>4, Sizes
    <3> QED
      BY <3>5 DEF BarrierInv, CountInv
  <2>3. tp \in [n_threads_max : 0 .. MaxThreads, n_threads_cur : 0 .. MaxThreads,
                n_graph : Nat, n_barrier : 0 .. MaxThreads,
                n_barrier_passed : Nat, current_chunk : Nat,
                stop : BOOLEAN, pause : BOOLEAN, abort : Int,
                ec : {"success", "aborted"}]
    BY <2>1, <2>2 DEF Types, PoolType
  <2>4. task \in [Thread -> [nth : 1 .. MaxThreads, node_n : 0 .. Nodes, chunk : Nat]]
    <3>1. \A t \in Thread : task[t].node_n \in 0 .. Nodes
      BY <2>1, Sizes DEF BarrierInv, NodeInv, NodeOf, Types, TaskType, Task
    <3> QED
      BY <2>1, <3>1 DEF Types, TaskType, Task, BoundsInv
  <2>5. barrier \in [Thread -> [n_threads : 1 .. MaxThreads, n_passed : Nat,
                                from : {"chunks", "node", "end"}]]
    BY <2>1 DEF Types, BarrierType, Froms, BoundsInv
  <2> QED
    BY <2>1, <2>3, <2>4, <2>5 DEF TypeOK, Types, StepsOK, WorkerType, BoundsInv
<1> SUFFICES ASSUME ~Varying PROVE Spec => []TypeOK
  OBVIOUS
<1> QED
  BY <1>1, BoundsInvariant, PTL

\* When every plan uses all threads of its pool, no worker uses the parameters of the
\* graph while the caller resets them or has returned, however late it leaves the last
\* barrier (ggml-cpu.c:3100-3101).
THEOREM Quiet == ~Varying => (Spec => []QuietBetweenGraphs)
<1>1. BarrierInv => QuietBetweenGraphs
  <2> SUFFICES ASSUME BarrierInv, pc[0] \in {"idle", "kick", "joining"}, NEW w \in Worker
               PROVE  ~Accessing(w)
    BY DEF QuietBetweenGraphs
  <2>1. CASE w \notin Team
    BY <2>1 DEF BarrierInv, PoolInv, Accessing, Computing
  <2>2. CASE w \in Team
    <3>1. Resting(w) /\ w # 0
      BY <2>2, MainRests, Sizes DEF RestSteps
    <3> QED
      BY <3>1 DEF Resting, Late, Accessing, Computing, WaitSteps, InBarrier
  <2> QED
    BY <2>1, <2>2
<1> SUFFICES ASSUME ~Varying PROVE Spec => []QuietBetweenGraphs
  OBVIOUS
<1> QED
  BY <1>1, BarrierInvariant, PTL
-----------------------------------------------------------------------------
(* The chunks.                                                             *)

\* A thread that has the number of a chunk it has not computed; a thread that is
\* late at the barrier before the chunks will begin with its own.
Pending(t) == pc[t] = "chunk" \/ (Late(t) /\ barrier[t].from = "chunks")
ChunkOf(t) == IF Late(t) THEN t ELSE task[t].chunk
Past(t) == ~Pending(t) /\ pc[t] # "fetch"

ChunksAt(i) == ChunksOf(i, tp.n_threads_max)
AllDone(i)  == \A c \in Nat : c < ChunksAt(i) => <<i, c>> \in done
NoneDone(i) == \A c \in Nat : <<i, c>> \notin done
OnlyReal(i) == \A c \in Nat : <<i, c>> \in done => c < ChunksAt(i)

\* In a graph the nodes before the present one are done, those after it are not begun.
DoneInv ==
  Segment(0) # Out => \A i \in 0 .. Nodes - 1 :
    /\ OnlyReal(i)
    /\ 2 * i + 2 <= Segment(0) => AllDone(i)
    /\ Segment(0) <= 2 * i => NoneDone(i)

\* In the chunks of node i: each chunk given out is done or pending with one thread,
\* and whoever is past the chunks knows that all have been given out.
Product(i) ==
  /\ tp.n_threads_max <= tp.current_chunk
  /\ \A t \in Team : Pending(t) =>
       ChunkOf(t) < tp.current_chunk /\ <<i, ChunkOf(t)>> \notin done
  /\ \A t, u \in Team : Pending(t) /\ Pending(u) /\ ChunkOf(t) = ChunkOf(u) => t = u
  /\ \A c \in Nat : <<i, c>> \in done => c < tp.current_chunk
  /\ \A c \in Nat : c < tp.current_chunk /\ c < ChunksAt(i) =>
       <<i, c>> \in done \/ \E t \in Team : Pending(t) /\ ChunkOf(t) = c
  /\ \A t \in Team : Past(t) => ChunksAt(i) <= tp.current_chunk

ProductInv == \A i \in 0 .. Nodes - 1 : Segment(0) = 2 * i + 1 => Product(i)

\* Thread 0 sets current_chunk before it joins the barrier.
ChunkInv ==
  Inside(0) /\ barrier[0].from = "chunks" => tp.current_chunk = tp.n_threads_max

\* An abort is at a node other than the first, and is told to the caller.
AbortKept == tp.abort = -1 \/ (tp.abort \in 1 .. Nodes /\ tp.ec = "aborted")

\* Nothing is done when the graph begins.
FreshInv == pc[0] \in {"kick", "graph"} => done = {}

\* When thread 0 returns, the nodes before its own are done and no others begun.
Leaving == pc[0] = "return" \/ (Late(0) /\ barrier[0].from = "end")
ReturnInv ==
  Leaving =>
    /\ task[0].node_n \in 1 .. Nodes
    /\ \A i \in 0 .. Nodes - 1 : /\ OnlyReal(i)
                                 /\ i < task[0].node_n => AllDone(i)
                                 /\ i >= task[0].node_n => NoneDone(i)
    /\ task[0].node_n < Nodes => tp.ec = "aborted"

DataInv == DoneInv /\ ProductInv /\ ChunkInv /\ AbortKept /\ FreshInv /\ ReturnInv

\* A node has a number of chunks.
LEMMA ChunksNat ==
  ASSUME NEW i \in 0 .. Nodes - 1, NEW n \in Nat
  PROVE  ChunksOf(i, n) \in Nat
<1>1. i + 1 \in 1 .. Len(Estimate)
  BY Sizes DEF Nodes
<1>2. Estimate[i + 1] \in Nat
  BY <1>1, SizesAssumption
<1> QED
  BY <1>2 DEF ChunksOf

\* What the invariant says of the sizes it uses.
LEMMA DataTypes ==
  ASSUME BarrierInv
  PROVE  /\ Team \subseteq Thread /\ tp.n_threads_max \in Nat /\ tp.current_chunk \in Nat
         /\ Nodes \in Nat \ {0} /\ tp.abort \in Int
         /\ \A i \in 0 .. Nodes - 1 : ChunksAt(i) \in Nat
         /\ \A t \in Thread : t \in Nat /\ task[t].node_n \in Nat /\ ChunkOf(t) \in Nat
                              /\ task[t].chunk \in Nat /\ barrier[t].from \in Froms
<1>1. tp.n_threads_max \in Nat /\ tp.current_chunk \in Nat /\ tp.abort \in Int
  BY DEF BarrierInv, Types, PoolType
<1>2. \A t \in Thread : t \in Nat /\ task[t].node_n \in Nat
                        /\ task[t].chunk \in Nat /\ barrier[t].from \in Froms
  BY Sizes DEF BarrierInv, Types, TaskType, Task, BarrierType
<1>3. \A t \in Thread : ChunkOf(t) \in Nat
  BY <1>2 DEF ChunkOf
<1>4. \A i \in 0 .. Nodes - 1 : ChunksAt(i) \in Nat
  BY <1>1, ChunksNat DEF ChunksAt
<1> QED
  BY <1>1, <1>2, <1>3, <1>4, Sizes DEF Team

\* A step that computes no chunk, gives none out and passes no barrier.
LEMMA DataStays ==
  ASSUME BarrierInv, BarrierInv', DataInv, tp'.n_threads_max = tp.n_threads_max,
         done' = done, Segment(0)' = Segment(0),
         \/ tp'.current_chunk = tp.current_chunk
         \/ \A i \in 0 .. Nodes - 1 : Segment(0) # 2 * i + 1,
         \A u \in Team : /\ (Pending(u)' <=> Pending(u)) /\ (Past(u)' => Past(u))
                         /\ Pending(u) => ChunkOf(u)' = ChunkOf(u),
         \/ tp'.abort = tp.abort /\ tp'.ec = tp.ec
         \/ AbortKept' /\ ~Leaving',
         ChunkInv', Leaving' => Leaving /\ task'[0] = task[0],
         pc'[0] \in {"kick", "graph"} => pc[0] \in {"kick", "graph"}
  PROVE  DataInv'
<1>1. Team' = Team
  BY DEF Team
<1>2. \A i : /\ ChunksAt(i)' = ChunksAt(i) /\ AllDone(i)' = AllDone(i)
             /\ NoneDone(i)' = NoneDone(i) /\ OnlyReal(i)' = OnlyReal(i)
  BY DEF ChunksAt, AllDone, NoneDone, OnlyReal
<1>3. DoneInv'
  BY <1>2 DEF DoneInv, DataInv
<1>4. ProductInv'
  <2> SUFFICES ASSUME NEW i \in 0 .. Nodes - 1, Segment(0)' = 2 * i + 1 PROVE Product(i)'
    BY DEF ProductInv
  <2>1. Product(i) /\ tp'.current_chunk = tp.current_chunk
    BY DEF DataInv, ProductInv
  <2> QED
    BY <1>1, <1>2, <2>1 DEF Product
<1>5. AbortKept'
  BY DEF AbortKept, DataInv
<1>6. FreshInv'
  BY DEF FreshInv, DataInv
<1>7. ReturnInv'
  BY <1>2 DEF ReturnInv, DataInv
<1> QED
  BY <1>3, <1>4, <1>5, <1>6, <1>7 DEF DataInv

\* Such a step by one thread.
LEMMA DataStep ==
  ASSUME BarrierInv, BarrierInv', DataInv, NEW t \in Team, OnlyThread(t),
         tp'.n_threads_max = tp.n_threads_max, tp'.n_graph = tp.n_graph,
         tp'.n_barrier_passed = tp.n_barrier_passed, done' = done,
         Segment(t)' = Segment(t),
         \/ tp'.current_chunk = tp.current_chunk
         \/ t = 0 /\ \A i \in 0 .. Nodes - 1 : Segment(t) # 2 * i + 1,
         (Pending(t)' <=> Pending(t)), Past(t)' => Past(t),
         Pending(t) => ChunkOf(t)' = ChunkOf(t),
         \/ tp'.abort = tp.abort /\ tp'.ec = tp.ec
         \/ t = 0 /\ AbortKept',
         t = 0 => /\ ChunkInv' /\ pc'[0] \notin {"kick", "graph"}
                  /\ Leaving' => Leaving /\ task'[0] = task[0]
                                 /\ tp'.abort = tp.abort /\ tp'.ec = tp.ec
  PROVE  DataInv'
<1>1. \A u \in Thread \ {t} :
        /\ Late(u)' = Late(u) /\ Segment(u)' = Segment(u) /\ Inside(u)' = Inside(u)
        /\ pc'[u] = pc[u] /\ task'[u] = task[u] /\ barrier'[u] = barrier[u]
  BY Stays DEF OnlyThread
<1>2. Team' = Team /\ t \in Thread /\ 0 \in Thread /\ Team \subseteq Thread
  BY Sizes DEF Team
<1>3. Segment(0)' = Segment(0)
  BY <1>1, <1>2
<1>4. \A u \in Team : /\ (Pending(u)' <=> Pending(u)) /\ (Past(u)' => Past(u))
                      /\ Pending(u) => ChunkOf(u)' = ChunkOf(u)
  <2> SUFFICES ASSUME NEW u \in Team \ {t}
               PROVE  /\ (Pending(u)' <=> Pending(u)) /\ (Past(u)' => Past(u))
                      /\ ChunkOf(u)' = ChunkOf(u)
    OBVIOUS
  <2>1. (Pending(u)' <=> Pending(u)) /\ ChunkOf(u)' = ChunkOf(u)
    BY <1>1, <1>2 DEF Pending, ChunkOf
  <2> QED
    BY <1>1, <1>2, <2>1 DEF Past
<1>5. t # 0 => /\ ChunkInv' /\ (pc'[0] \in {"kick", "graph"} => pc[0] \in {"kick", "graph"})
               /\ Leaving' => Leaving /\ task'[0] = task[0]
  BY <1>1, <1>2 DEF DataInv, ChunkInv, Leaving
<1>6. \/ tp'.abort = tp.abort /\ tp'.ec = tp.ec
      \/ AbortKept' /\ ~Leaving'
  OBVIOUS
<1> QED
  BY <1>3, <1>4, <1>5, <1>6, DataStays

\* All threads pass a barrier: what they were to do before it is done.
LEMMA DataPass ==
  ASSUME BarrierInv, BarrierInv', DataInv, 0 \in Team, NEW from \in Froms, NEW i \in Nat,
         \A u \in Team : Inside(u) /\ barrier[u].from = from /\ task[u].node_n = i,
         Segment(0)' = IF from = "chunks" THEN 2 * i + 1
                       ELSE IF from = "node" THEN 2 * i + 2 ELSE Out,
         \A u \in Team : ~Inside(u)',
         from = "chunks" => \A u \in Team : Pending(u)' /\ ChunkOf(u)' = u,
         Leaving' => from = "end" /\ task'[0].node_n = i,
         pc'[0] \notin {"kick", "graph"}, done' = done,
         tp'.n_threads_max = tp.n_threads_max, tp'.current_chunk = tp.current_chunk,
         tp'.abort = tp.abort, tp'.ec = tp.ec
  PROVE  DataInv'
<1>1. Team' = Team /\ Team \subseteq Thread /\ 0 \in Thread
  BY DEF Team
<1>2. /\ Nodes \in Nat \ {0} /\ tp.n_threads_max \in Nat /\ tp.current_chunk \in Nat
      /\ \A j \in 0 .. Nodes - 1 : ChunksAt(j) \in Nat
      /\ \A t \in Thread : t \in Nat
  BY DataTypes
<1>3. \A j : /\ ChunksAt(j)' = ChunksAt(j) /\ AllDone(j)' = AllDone(j)
             /\ NoneDone(j)' = NoneDone(j) /\ OnlyReal(j)' = OnlyReal(j)
  BY DEF ChunksAt, AllDone, NoneDone, OnlyReal
<1>4. from \in {"chunks", "node", "end"}
  BY DEF Froms
<1>5. \A u \in Team : pc[u] \in InBarrier /\ ~Late(u) /\ ~Resting(u)
  BY DEF Inside, Resting, InBarrier, RestSteps, WaitSteps
<1>6. /\ from = "chunks" => i < Nodes
      /\ from = "node" => i + 1 < Nodes
      /\ from = "end" => i <= Nodes /\ (i < Nodes => tp.abort = i)
  <2>1. NodeOf(0) /\ AbortOf(0)
    BY <1>1 DEF BarrierInv, NodeInv, AbortInv
  <2> QED
    BY <1>5, <2>1 DEF NodeOf, AbortOf
<1>7. Segment(0) = IF from = "chunks" THEN 2 * i ELSE IF from = "node" THEN 2 * i + 1
                   ELSE AtNode(i)
  <2>1. /\ pc[0] \in InBarrier /\ ~Late(0) /\ ~Resting(0) /\ barrier[0].from = from
        /\ task[0].node_n = i
    BY <1>5
  <2> QED
    BY <2>1 DEF Segment, InBarrier
\* The chunks of a node are all done when all threads are past them.
<1>8. \A j \in 0 .. Nodes - 1 : Segment(0) = 2 * j + 1 => AllDone(j)
  <2> SUFFICES ASSUME NEW j \in 0 .. Nodes - 1, Segment(0) = 2 * j + 1, NEW c \in Nat,
                      c < ChunksAt(j)
               PROVE  <<j, c>> \in done
    BY DEF AllDone
  <2>1. Product(j)
    BY DEF DataInv, ProductInv
  <2>2. from # "chunks"
    BY <1>7
  <2>3. \A u \in Team : ~Pending(u) /\ Past(u)
    BY <1>5, <2>2 DEF Pending, Past, InBarrier
  <2>4. ChunksAt(j) <= tp.current_chunk
    BY <2>1, <2>3 DEF Product
  <2>5. c < tp.current_chunk
    BY <1>2, <2>4
  <2> QED
    BY <2>1, <2>3, <2>5 DEF Product
<1>9. Segment(0) # Out
  BY <1>2, <1>4, <1>6, <1>7 DEF Out, AtNode
<1>10. \A j \in 0 .. Nodes - 1 : /\ OnlyReal(j)
                                 /\ 2 * j + 2 <= Segment(0) => AllDone(j)
                                 /\ Segment(0) <= 2 * j => NoneDone(j)
  BY <1>9 DEF DataInv, DoneInv
<1>11. DoneInv'
  <2> SUFFICES ASSUME Segment(0)' # Out, NEW j \in 0 .. Nodes - 1
               PROVE  /\ OnlyReal(j)
                      /\ 2 * j + 2 <= Segment(0)' => AllDone(j)
                      /\ Segment(0)' <= 2 * j => NoneDone(j)
    BY <1>3 DEF DoneInv
  <2>1. CASE from = "chunks"
    BY <1>7, <1>10, <2>1
  <2>2. CASE from = "node"
    <3>1. Segment(0) = 2 * i + 1 /\ Segment(0)' = 2 * i + 2
      BY <1>7, <2>2
    <3>2. 2 * j + 2 <= 2 * i + 2 => 2 * j + 2 <= 2 * i + 1 \/ j = i
      OBVIOUS
    <3> QED
      BY <1>8, <1>10, <3>1, <3>2
  <2> QED
    BY <1>4, <2>1, <2>2
<1>12. ProductInv'
  <2> SUFFICES ASSUME NEW j \in 0 .. Nodes - 1, Segment(0)' = 2 * j + 1
               PROVE  Product(j)'
    BY DEF ProductInv
  <2>1. from = "chunks" /\ j = i
    BY <1>2, <1>4 DEF Out
  <2>2. tp.current_chunk = tp.n_threads_max
    BY <2>1 DEF DataInv, ChunkInv
  <2>3. NoneDone(i)
    BY <1>7, <1>10, <2>1
  <2>4. \A u \in Team : Pending(u)' /\ ChunkOf(u)' = u /\ ~Past(u)' /\ u \in Nat
                        /\ u < tp.n_threads_max
    BY <1>1, <1>2, <2>1 DEF Past, Team
  <2>5. \A c \in Nat : c < tp.n_threads_max => c \in Team
    BY TeamSize, <1>2 DEF BarrierInv
  <2> QED
    <3>1. \A u \in Team : ChunkOf(u)' < tp'.current_chunk /\ <<i, ChunkOf(u)'>> \notin done'
      BY <2>2, <2>3, <2>4 DEF NoneDone
    <3>2. \A u, v \in Team : ChunkOf(u)' = ChunkOf(v)' => u = v
      BY <2>4
    <3>3. \A c \in Nat : <<i, c>> \notin done'
      BY <2>3 DEF NoneDone
    <3>4. \A c \in Nat : c < tp'.current_chunk =>
            \E u \in Team : Pending(u)' /\ ChunkOf(u)' = c
      BY <2>2, <2>4, <2>5
    <3>5. tp'.n_threads_max <= tp'.current_chunk
      BY <1>2, <2>2
    <3> QED
      BY <1>1, <2>1, <2>4, <3>1, <3>2, <3>3, <3>4, <3>5 DEF Product
<1>13. ChunkInv' /\ AbortKept' /\ FreshInv'
  BY DEF ChunkInv, AbortKept, FreshInv, DataInv
<1>14. ReturnInv'
  <2> SUFFICES ASSUME from = "end", task'[0].node_n = i PROVE ReturnInv'
    BY DEF ReturnInv
  <2>1. Segment(0) = AtNode(i) /\ i <= Nodes /\ (i < Nodes => tp.abort = i)
    BY <1>6, <1>7
  <2>2. i \in 1 .. Nodes /\ (i < Nodes => tp.ec = "aborted")
    BY <1>2, <2>1 DEF DataInv, AbortKept
  <2>3. \A j \in 0 .. Nodes - 1 : j < i => AllDone(j)
    <3> SUFFICES ASSUME NEW j \in 0 .. Nodes - 1, j < i PROVE AllDone(j)
      OBVIOUS
    <3>1. 2 * j + 2 <= Segment(0) \/ Segment(0) = 2 * j + 1
      BY <1>2, <2>1 DEF AtNode
    <3> QED
      BY <1>8, <1>10, <3>1
  <2>4. \A j \in 0 .. Nodes - 1 : j >= i => NoneDone(j)
    <3> SUFFICES ASSUME NEW j \in 0 .. Nodes - 1, j >= i PROVE NoneDone(j)
      OBVIOUS
    <3>1. Segment(0) <= 2 * j
      BY <1>2, <2>1 DEF AtNode
    <3> QED
      BY <1>10, <3>1
  <2> QED
    BY <1>3, <1>10, <2>2, <2>3, <2>4 DEF ReturnInv
<1> QED
  BY <1>11, <1>12, <1>13, <1>14 DEF DataInv

\* The last thread releases all others.
LEMMA DataRelease ==
  ASSUME BarrierInv, DataInv, NEW t \in Thread, ReleaseBarrier(t)
  PROVE  DataInv'
<1>1. Types /\ pc[t] \in Computing /\ LeaveBarrier(t) /\ UNCHANGED <<barrier, done>>
  BY DEF ReleaseBarrier, Computing, BarrierInv, Idle
<1>2. t \in Team /\ 0 \in Team
  BY <1>1, ComputeKnown
<1>3. PICK from \in Froms, i \in Nat : from = barrier[t].from /\ i = task[t].node_n
  BY <1>1 DEF Types, BarrierType, TaskType, Task
<1>4. /\ BarrierInv'
      /\ \A u \in Team : Inside(u) /\ barrier[u].from = from /\ task[u].node_n = i
      /\ \A u \in Team \ {t} : pc'[u] = "spin" /\ Late(u)'
      /\ \A u \in Team : ~Inside(u)'
      /\ Segment(0)' = IF from = "chunks" THEN 2 * i + 1
                       ELSE IF from = "node" THEN 2 * i + 2 ELSE Out
  BY <1>3, BarrierRelease
<1>5. /\ pc'[t] = AfterBarrier(t, from) /\ ~Late(t)'
      /\ \A u \in Thread \ {t} : task'[u] = task[u]
      /\ task'[t].node_n = IF from = "node" THEN i + 1 ELSE i
      /\ task'[t].chunk = IF from = "chunks" THEN t ELSE task[t].chunk
  BY <1>1, <1>3, Left
<1>6. /\ tp'.n_threads_max = tp.n_threads_max /\ tp'.current_chunk = tp.current_chunk
      /\ tp'.abort = tp.abort /\ tp'.ec = tp.ec
  BY <1>1 DEF ReleaseBarrier, Types, PoolType
<1>7. from = "chunks" => \A u \in Team : Pending(u)' /\ ChunkOf(u)' = u
  <2> SUFFICES ASSUME from = "chunks", NEW u \in Team PROVE Pending(u)' /\ ChunkOf(u)' = u
    OBVIOUS
  <2>1. CASE u = t
    BY <1>5, <2>1 DEF Pending, ChunkOf, AfterBarrier
  <2>2. CASE u # t
    BY <1>1, <1>4, <2>2 DEF Pending, ChunkOf
  <2> QED
    BY <2>1, <2>2
<1>8. Leaving' => from = "end" /\ task'[0].node_n = i
  <2> SUFFICES ASSUME Leaving' PROVE from = "end"
    BY <1>2, <1>4, <1>5 DEF Team
  <2>1. CASE t = 0
    BY <1>5, <2>1 DEF Leaving, AfterBarrier, Froms
  <2>2. CASE t # 0
    BY <1>1, <1>2, <1>4, <2>2 DEF Leaving
  <2> QED
    BY <2>1, <2>2
<1>9. pc'[0] \notin {"kick", "graph"}
  BY <1>2, <1>4, <1>5 DEF AfterBarrier
<1> QED
  BY <1>1, <1>2, <1>4, <1>6, <1>7, <1>8, <1>9, DataPass

\* The only thread of a pool passes its barriers.
LEMMA DataAlone ==
  ASSUME BarrierInv, DataInv, NEW t \in Thread, JoinBarrier(t), barrier[t].n_threads = 1
  PROVE  DataInv'
<1>1. /\ Types /\ pc[t] = "join" /\ pc[t] \in Computing /\ LeaveBarrier(t)
      /\ UNCHANGED <<tp, worker, barrier, done>>
  BY DEF JoinBarrier, Computing, BarrierInv, Idle
<1>2. BarrierInv' /\ Team = {t}
  BY <1>1, BarrierLeft
<1>3. /\ t \in Team /\ 0 \in Team /\ NodeOf(t) /\ Nodes \in Nat \ {0}
  BY <1>1, ComputeKnown
<1>4. t = 0
  BY <1>2, <1>3
<1>5. PICK from \in Froms, i \in Nat : from = barrier[t].from /\ i = task[t].node_n
  BY <1>1 DEF Types, BarrierType, TaskType, Task
<1>6. /\ pc'[0] = AfterBarrier(0, from) /\ ~Late(0)' /\ pc'[0] \notin InBarrier
      /\ task'[0].node_n = IF from = "node" THEN i + 1 ELSE i
      /\ task'[0].chunk = IF from = "chunks" THEN 0 ELSE task[0].chunk
  BY <1>1, <1>4, <1>5, Left
<1>7. Inside(0) /\ ~Inside(0)'
  BY <1>1, <1>4, <1>6 DEF Inside, Late, InBarrier
<1>8. /\ from = "chunks" => i < Nodes
      /\ from = "node" => i + 1 < Nodes
  BY <1>1, <1>3, <1>5 DEF NodeOf, InBarrier
<1>9. Resting(0)' <=> from = "end"
  BY <1>6 DEF Resting, AfterBarrier, RestSteps, Froms
<1>10. Segment(0)' = IF from = "chunks" THEN 2 * i + 1
                     ELSE IF from = "node" THEN 2 * i + 2 ELSE Out
  BY <1>3, <1>6, <1>8, <1>9 DEF Segment, AfterBarrier, AtNode, Froms
<1>11. from = "chunks" => Pending(0)' /\ ChunkOf(0)' = 0
  BY <1>6 DEF Pending, ChunkOf, AfterBarrier
<1>12. Leaving' => from = "end" /\ task'[0].node_n = i
  BY <1>6 DEF Leaving, AfterBarrier, Froms
<1>13. pc'[0] \notin {"kick", "graph"}
  BY <1>6 DEF AfterBarrier
<1> QED
  BY <1>1, <1>2, <1>4, <1>5, <1>7, <1>10, <1>11, <1>12, <1>13, DataPass

\* A thread among the chunks: where it is, and what the others may be.
LEMMA InChunks ==
  ASSUME BarrierInv, DataInv, NEW t \in Thread, pc[t] \in {"chunk", "fetch"}
  PROVE  LET i == task[t].node_n
         IN  /\ i \in 0 .. Nodes - 1 /\ Segment(0) = 2 * i + 1 /\ Segment(0) # Out
             /\ Product(i) /\ t \in Team /\ ~Late(t) /\ task[t].nth = tp.n_threads_max
             /\ ~(Inside(0) /\ barrier[0].from = "chunks") /\ ~Leaving
             /\ pc[0] \notin {"kick", "graph"} /\ 0 \in Team
<1>1. pc[t] \in Computing
  BY DEF Computing
<1>2. /\ t \in Team /\ GraphOf(t) /\ NodeOf(t) /\ Segment(t) = Segment(0)
      /\ ~Late(t) /\ ~Resting(t) /\ Nodes \in Nat \ {0} /\ 0 \in Team
  BY <1>1, ComputeKnown DEF Late
<1>3. PICK i \in Nat : i = task[t].node_n
  BY <1>1, ComputeKnown
<1>4. Segment(0) = 2 * i + 1 /\ i \in 0 .. Nodes - 1
  BY <1>2, <1>3 DEF Segment, NodeOf
<1>5. Segment(0) # Out
  BY <1>2, <1>4 DEF Out
<1>6. Product(i)
  BY <1>4 DEF DataInv, ProductInv
<1>7. ~Resting(0)
  BY <1>5 DEF Segment
<1>8. ~Leaving /\ pc[0] \notin {"kick", "graph"}
  BY <1>7 DEF Leaving, Resting, RestSteps
<1>9. ~(Inside(0) /\ barrier[0].from = "chunks")
  <2> SUFFICES ASSUME Inside(0), barrier[0].from = "chunks" PROVE FALSE
    OBVIOUS
  <2>1. task[0].node_n \in Nat
    BY DataTypes, Sizes
  <2>2. Segment(0) = 2 * task[0].node_n
    BY <1>7 DEF Segment, Inside, InBarrier
  <2> QED
    BY <1>4, <2>1, <2>2
<1> QED
  BY <1>1, <1>2, <1>3, <1>4, <1>5, <1>6, <1>8, <1>9 DEF GraphOf

\* A chunk is computed, or there is none left.
LEMMA DataChunk ==
  ASSUME BarrierInv, DataInv, NEW t \in Thread, Chunk(t)
  PROVE  DataInv'
<1>1. BarrierInv' /\ Segment(t)' = Segment(t)
  BY BarrierChunks
<1>2. /\ Types /\ pc[t] = "chunk"
      /\ UNCHANGED <<worker, tp, task, barrier>>
  BY DEF Chunk, BarrierInv, Idle
<1>3. PICK i \in 0 .. Nodes - 1, c \in Nat : i = task[t].node_n /\ c = task[t].chunk
  BY <1>2, InChunks, DataTypes
<1>4. /\ Segment(0) = 2 * i + 1 /\ Segment(0) # Out /\ Product(i)
      /\ t \in Team /\ ~Late(t) /\ task[t].nth = tp.n_threads_max
      /\ ~(Inside(0) /\ barrier[0].from = "chunks") /\ ~Leaving
      /\ pc[0] \notin {"kick", "graph"} /\ 0 \in Team
  BY <1>2, <1>3, InChunks
<1>5. Chunks(t) = ChunksAt(i)
  BY <1>3, <1>4 DEF Chunks, ChunksAt
<1>6. /\ ChunksAt(i) \in Nat /\ tp.n_threads_max \in Nat /\ tp.current_chunk \in Nat
      /\ \A u \in Thread : ChunkOf(u) \in Nat
  BY DataTypes
<1>7. PICK step \in {"callback", "fetch"} :
        /\ GoTo(t, step)
        /\ IF c < ChunksAt(i)
           THEN /\ done' = done \union {<<i, c>>}
                /\ step = "callback" => tp.n_threads_max >= ChunksAt(i)
           ELSE step = "callback" /\ done' = done
  <2>1. CASE c < ChunksAt(i)
    BY <1>3, <1>4, <1>5, <2>1 DEF Chunk
  <2>2. CASE ~(c < ChunksAt(i))
    BY <1>3, <1>4, <1>5, <2>2 DEF Chunk
  <2> QED
    BY <2>1, <2>2
<1>8. pc'[t] = step /\ \A u \in Thread \ {t} : pc'[u] = pc[u]
  BY <1>2, <1>7 DEF GoTo, Types, StepsOK
<1>9. Team' = Team /\ Team \subseteq Thread /\ 0 \in Thread
  BY <1>2, Sizes DEF Team
<1>10. \A u \in Thread \ {t} :
         /\ Late(u)' = Late(u) /\ Segment(u)' = Segment(u) /\ Inside(u)' = Inside(u)
  BY <1>2, <1>8, Stays
<1>11. Pending(t) /\ ChunkOf(t) = c /\ ~Past(t) /\ ~Pending(t)' /\ ~Late(t)' /\ ~Inside(t)'
  BY <1>2, <1>3, <1>4, <1>8 DEF Pending, ChunkOf, Late, Past, Inside, InBarrier
<1>12. \A u \in Thread \ {t} :
         (Pending(u)' <=> Pending(u)) /\ Past(u)' = Past(u) /\ ChunkOf(u)' = ChunkOf(u)
  BY <1>2, <1>8, <1>10 DEF Pending, Past, ChunkOf
<1>13. c < tp.current_chunk /\ <<i, c>> \notin done
  BY <1>4, <1>11 DEF Product
<1>14. Segment(0)' = 2 * i + 1
  BY <1>1, <1>4, <1>9, <1>10
<1>15. done' = done \/ (c < ChunksAt(i) /\ done' = done \union {<<i, c>>})
  BY <1>7
<1>16. DoneInv'
  <2> SUFFICES ASSUME NEW j \in 0 .. Nodes - 1
               PROVE  /\ OnlyReal(j)'
                      /\ 2 * j + 2 <= Segment(0)' => AllDone(j)'
                      /\ Segment(0)' <= 2 * j => NoneDone(j)'
    BY DEF DoneInv
  <2>1. /\ OnlyReal(j)
        /\ 2 * j + 2 <= Segment(0) => AllDone(j)
        /\ Segment(0) <= 2 * j => NoneDone(j)
    BY <1>4 DEF DataInv, DoneInv
  <2>2. ChunksAt(j)' = ChunksAt(j)
    BY <1>2 DEF ChunksAt
  <2>3. OnlyReal(j)' /\ (2 * j + 2 <= Segment(0)' => AllDone(j)')
    BY <1>4, <1>14, <1>15, <2>1, <2>2 DEF OnlyReal, AllDone
  <2>4. ASSUME Segment(0)' <= 2 * j PROVE NoneDone(j)'
    <3>1. NoneDone(j) /\ i # j
      BY <1>4, <1>14, <2>1, <2>4
    <3> QED
      BY <1>15, <3>1 DEF NoneDone
  <2> QED
    BY <2>3, <2>4
<1>17. Product(i)'
  <2>1. ChunksAt(i)' = ChunksAt(i) /\ tp'.current_chunk = tp.current_chunk
        /\ tp'.n_threads_max = tp.n_threads_max
    BY <1>2 DEF ChunksAt
  <2>2. \A u \in Team : Pending(u)' =>
          /\ u # t /\ Pending(u) /\ ChunkOf(u)' = ChunkOf(u)
          /\ ChunkOf(u) < tp.current_chunk /\ <<i, ChunkOf(u)>> \notin done
          /\ ChunkOf(u) # c
    BY <1>4, <1>9, <1>11, <1>12 DEF Product
  <2>3. \A u \in Team : Pending(u)' =>
          ChunkOf(u)' < tp.current_chunk /\ <<i, ChunkOf(u)'>> \notin done'
    <3> SUFFICES ASSUME NEW u \in Team, Pending(u)'
                 PROVE  ChunkOf(u)' < tp.current_chunk /\ <<i, ChunkOf(u)'>> \notin done'
      OBVIOUS
    <3>1. PICK e : e = ChunkOf(u)
      OBVIOUS
    <3>2. ChunkOf(u)' = e /\ e < tp.current_chunk /\ <<i, e>> \notin done /\ e # c
      BY <2>2, <3>1
    <3>3. <<i, e>> \notin done'
      BY <1>15, <3>2
    <3> QED
      BY <3>2, <3>3
  <2>4. \A u, v \in Team : Pending(u)' /\ Pending(v)' /\ ChunkOf(u)' = ChunkOf(v)' => u = v
    BY <1>4, <2>2 DEF Product
  <2>5. \A e \in Nat : <<i, e>> \in done' => e < tp.current_chunk
    BY <1>4, <1>13, <1>15 DEF Product
  <2>6. ASSUME NEW e \in Nat, e < tp.current_chunk, e < ChunksAt(i), <<i, e>> \notin done'
        PROVE  \E u \in Team : Pending(u)' /\ ChunkOf(u)' = e
    <3>1. PICK u \in Team : Pending(u) /\ ChunkOf(u) = e
      BY <1>4, <1>15, <2>6 DEF Product
    <3>2. u # t
      BY <1>7, <1>11, <2>6, <3>1
    <3> QED
      BY <1>9, <1>12, <3>1, <3>2
  <2>7. ASSUME NEW u \in Team, Past(u)' PROVE ChunksAt(i) <= tp.current_chunk
    <3>1. CASE u = t
      <4>1. step = "callback"
        BY <1>8, <2>7, <3>1 DEF Past
      <4>2. CASE c < ChunksAt(i)
        <5>1. ChunksAt(i) <= tp.n_threads_max /\ tp.n_threads_max <= tp.current_chunk
          BY <1>4, <1>6, <1>7, <4>1, <4>2 DEF Product
        <5> QED
          BY <1>6, <5>1
      <4>3. CASE ~(c < ChunksAt(i))
        BY <1>6, <1>13, <4>3
      <4> QED
        BY <4>2, <4>3
    <3>2. CASE u # t
      BY <1>4, <1>9, <1>12, <2>7, <3>2 DEF Product
    <3> QED
      BY <3>1, <3>2
  <2>8. tp.n_threads_max <= tp.current_chunk
    BY <1>4 DEF Product
  <2> QED
    BY <1>9, <2>1, <2>3, <2>4, <2>5, <2>6, <2>7, <2>8 DEF Product
<1>18. ProductInv'
  <2> SUFFICES ASSUME NEW j \in 0 .. Nodes - 1, Segment(0)' = 2 * j + 1
               PROVE  Product(j)'
    BY DEF ProductInv
  <2>1. j = i
    BY <1>14
  <2> QED
    BY <1>17, <2>1
<1>19. ChunkInv' /\ AbortKept'
  BY <1>2, <1>4, <1>9, <1>10, <1>11 DEF ChunkInv, AbortKept, DataInv
<1>20. FreshInv' /\ ReturnInv'
  <2>1. ~Leaving' /\ pc'[0] \notin {"kick", "graph"}
    BY <1>2, <1>4, <1>8, <1>9, <1>10, <1>11 DEF Leaving
  <2> QED
    BY <2>1 DEF FreshInv, ReturnInv
<1> QED
  BY <1>16, <1>18, <1>19, <1>20 DEF DataInv

\* The next chunk is given out.
LEMMA DataFetch ==
  ASSUME BarrierInv, DataInv, NEW t \in Thread, FetchChunk(t)
  PROVE  DataInv'
<1>1. BarrierInv' /\ Segment(t)' = Segment(t)
  BY BarrierChunks
<1>2. /\ Types /\ pc[t] = "fetch"
      /\ UNCHANGED <<worker, barrier, done>>
  BY DEF FetchChunk, BarrierInv, Idle
<1>3. PICK i \in 0 .. Nodes - 1 : i = task[t].node_n
  BY <1>2, InChunks
<1>4. /\ Segment(0) = 2 * i + 1 /\ Segment(0) # Out /\ Product(i)
      /\ t \in Team /\ ~Late(t)
      /\ ~(Inside(0) /\ barrier[0].from = "chunks") /\ ~Leaving
      /\ pc[0] \notin {"kick", "graph"} /\ 0 \in Team
  BY <1>2, <1>3, InChunks
<1>5. PICK c \in Nat : c = tp.current_chunk
  BY DataTypes
<1>6. /\ ChunksAt(i) \in Nat /\ tp.n_threads_max \in Nat
      /\ \A u \in Thread : ChunkOf(u) \in Nat
  BY DataTypes
<1>7. /\ tp'.current_chunk = c + 1 /\ tp'.n_threads_max = tp.n_threads_max
      /\ tp'.n_graph = tp.n_graph /\ tp'.n_barrier_passed = tp.n_barrier_passed
      /\ tp'.abort = tp.abort /\ tp'.ec = tp.ec
  BY <1>2, <1>5 DEF FetchChunk, Types, PoolType
<1>8. /\ pc'[t] = "chunk" /\ \A u \in Thread \ {t} : pc'[u] = pc[u] /\ task'[u] = task[u]
      /\ task'[t].chunk = c
  BY <1>2, <1>5 DEF FetchChunk, GoTo, Types, StepsOK, TaskType, Task
<1>9. Team' = Team /\ Team \subseteq Thread /\ 0 \in Thread
  BY <1>7, Sizes DEF Team
<1>10. \A u \in Thread \ {t} :
         /\ Late(u)' = Late(u) /\ Segment(u)' = Segment(u) /\ Inside(u)' = Inside(u)
  BY <1>2, <1>7, <1>8, Stays
<1>11. /\ ~Pending(t) /\ Pending(t)' /\ ChunkOf(t)' = c /\ ~Past(t)' /\ ~Late(t)'
       /\ ~Inside(t)'
  BY <1>2, <1>4, <1>8 DEF Pending, ChunkOf, Late, Past, Inside, InBarrier
<1>12. \A u \in Thread \ {t} :
         (Pending(u)' <=> Pending(u)) /\ Past(u)' = Past(u) /\ ChunkOf(u)' = ChunkOf(u)
  BY <1>2, <1>8, <1>10 DEF Pending, Past, ChunkOf
<1>13. Segment(0)' = 2 * i + 1
  BY <1>1, <1>4, <1>9, <1>10
<1>14. \A j : ChunksAt(j)' = ChunksAt(j)
  BY <1>7 DEF ChunksAt
<1>15. DoneInv'
  <2> SUFFICES ASSUME NEW j \in 0 .. Nodes - 1
               PROVE  /\ OnlyReal(j)'
                      /\ 2 * j + 2 <= Segment(0)' => AllDone(j)'
                      /\ Segment(0)' <= 2 * j => NoneDone(j)'
    BY DEF DoneInv
  <2> QED
    BY <1>2, <1>4, <1>13, <1>14 DEF DataInv, DoneInv, OnlyReal, AllDone, NoneDone
<1>16. Product(i)'
  <2>1. \A u \in Team \ {t} : Pending(u)' =>
          /\ Pending(u) /\ ChunkOf(u)' = ChunkOf(u)
          /\ ChunkOf(u) < c /\ <<i, ChunkOf(u)>> \notin done
    BY <1>4, <1>5, <1>9, <1>12 DEF Product
  <2>2. \A e \in Nat : <<i, e>> \in done => e < c
    BY <1>4, <1>5 DEF Product
  <2>3. <<i, c>> \notin done
    BY <2>2
  <2>4. \A u \in Team : Pending(u)' =>
          ChunkOf(u)' < c + 1 /\ <<i, ChunkOf(u)'>> \notin done'
    <3> SUFFICES ASSUME NEW u \in Team, Pending(u)'
                 PROVE  ChunkOf(u)' < c + 1 /\ <<i, ChunkOf(u)'>> \notin done'
      OBVIOUS
    <3>1. CASE u = t
      BY <1>2, <1>11, <2>3, <3>1
    <3>2. CASE u # t
      <4>1. PICK e \in Nat : e = ChunkOf(u)
        BY <1>6, <1>9
      <4>2. ChunkOf(u)' = e /\ e < c /\ <<i, e>> \notin done
        BY <2>1, <3>2, <4>1
      <4> QED
        BY <1>2, <4>2
    <3> QED
      BY <3>1, <3>2
  <2>5. ASSUME NEW u \in Team, NEW v \in Team, Pending(u)', Pending(v)',
               ChunkOf(u)' = ChunkOf(v)'
        PROVE  u = v
    <3>0. \A x \in Team \ {t} : Pending(x)' => ChunkOf(x)' # c
      <4> SUFFICES ASSUME NEW x \in Team \ {t}, Pending(x)' PROVE ChunkOf(x)' # c
        OBVIOUS
      <4>1. PICK e \in Nat : e = ChunkOf(x)
        BY <1>6, <1>9
      <4>2. ChunkOf(x)' = e /\ e < c
        BY <2>1, <4>1
      <4> QED
        BY <4>2
    <3>1. CASE u = t \/ v = t
      BY <1>11, <2>5, <3>0, <3>1
    <3>2. CASE u # t /\ v # t
      BY <1>4, <2>1, <2>5, <3>2 DEF Product
    <3> QED
      BY <3>1, <3>2
  <2>6. ASSUME NEW e \in Nat, e < c + 1, e < ChunksAt(i), <<i, e>> \notin done
        PROVE  \E u \in Team : Pending(u)' /\ ChunkOf(u)' = e
    <3>1. CASE e = c
      BY <1>4, <1>11, <3>1
    <3>2. CASE e # c
      <4>1. PICK u \in Team : Pending(u) /\ ChunkOf(u) = e
        BY <1>4, <1>5, <2>6, <3>2 DEF Product
      <4>2. u # t
        BY <1>11, <4>1
      <4> QED
        BY <1>9, <1>12, <4>1, <4>2
    <3> QED
      BY <3>1, <3>2
  <2>7. ASSUME NEW u \in Team, Past(u)' PROVE ChunksAt(i) <= c + 1
    <3>1. ChunksAt(i) <= c
      BY <1>4, <1>5, <1>9, <1>11, <1>12, <2>7 DEF Product
    <3> QED
      BY <1>6, <3>1
  <2>8. tp.n_threads_max <= c + 1
    BY <1>4, <1>5, <1>6 DEF Product
  <2>9. \A e \in Nat : <<i, e>> \in done => e < c + 1
    BY <2>2
  <2> QED
    BY <1>2, <1>7, <1>9, <1>14, <2>4, <2>5, <2>6, <2>7, <2>8, <2>9 DEF Product
<1>17. ProductInv'
  <2> SUFFICES ASSUME NEW j \in 0 .. Nodes - 1, Segment(0)' = 2 * j + 1
               PROVE  Product(j)'
    BY DEF ProductInv
  <2>1. j = i
    BY <1>13
  <2> QED
    BY <1>16, <2>1
<1>18. ChunkInv' /\ AbortKept'
  BY <1>2, <1>4, <1>7, <1>9, <1>10, <1>11 DEF ChunkInv, AbortKept, DataInv
<1>19. FreshInv' /\ ReturnInv'
  <2>1. ~Leaving' /\ pc'[0] \notin {"kick", "graph"}
    BY <1>2, <1>4, <1>8, <1>9, <1>10, <1>11 DEF Leaving
  <2> QED
    BY <2>1 DEF FreshInv, ReturnInv
<1> QED
  BY <1>15, <1>17, <1>18, <1>19 DEF DataInv

\* The way to the chunks and from them to the barrier.
LEMMA DataNodes ==
  ASSUME BarrierInv, DataInv, NEW t \in Thread, Begin(t) \/ Node(t) \/ SetChunk(t)
  PROVE  DataInv'
<1>1. BarrierInv' /\ Segment(t)' = Segment(t)
  BY BarrierNodes
<1>2. /\ Types /\ pc[t] \in {"begin", "node", "set"} /\ pc[t] \in Computing
      /\ UNCHANGED <<worker, done>>
  BY DEF Begin, Node, SetChunk, Computing, BarrierInv, Idle
<1>3. /\ t \in Team /\ NodeOf(t) /\ GraphOf(t) /\ Nodes \in Nat \ {0} /\ 0 \in Team
      /\ task[t].node_n \in Nat /\ ~Late(t) /\ ~Resting(t) /\ Segment(t) = Segment(0)
  BY <1>2, ComputeKnown DEF Late
<1>4. /\ tp'.n_threads_max = tp.n_threads_max /\ tp'.n_graph = tp.n_graph
      /\ tp'.n_barrier_passed = tp.n_barrier_passed
      /\ tp'.abort = tp.abort /\ tp'.ec = tp.ec
  BY <1>2 DEF Begin, Node, SetChunk, Types, PoolType
<1>5. OnlyThread(t)
  BY <1>2 DEF Begin, Node, SetChunk, EnterBarrier, GoTo, OnlyThread, Types, StepsOK,
    TaskType, BarrierType
<1>6. pc'[t] \in {"node", "set", "join"}
  BY <1>2 DEF Begin, Node, SetChunk, EnterBarrier, GoTo, Types, StepsOK
<1>7. ~Pending(t) /\ ~Pending(t)' /\ Past(t)
  BY <1>2, <1>3, <1>6 DEF Pending, Past, Late
<1>8. \/ tp'.current_chunk = tp.current_chunk
      \/ t = 0 /\ \A i \in 0 .. Nodes - 1 : Segment(t) # 2 * i + 1
  <2>1. CASE SetChunk(t) /\ t = 0
    <3>1. Segment(t) = 2 * task[t].node_n
      BY <1>3, <2>1 DEF SetChunk, Segment
    <3> QED
      BY <1>3, <2>1, <3>1
  <2>2. CASE ~(SetChunk(t) /\ t = 0)
    BY <2>2 DEF Begin, Node, SetChunk
  <2> QED
    BY <2>1, <2>2
<1>9. ASSUME t = 0
      PROVE  /\ ChunkInv' /\ pc'[0] \notin {"kick", "graph"}
             /\ Leaving' => Leaving /\ task'[0] = task[0]
                            /\ tp'.abort = tp.abort /\ tp'.ec = tp.ec
  <2>1. ~Leaving' /\ pc'[0] \notin {"kick", "graph"}
    BY <1>6, <1>9 DEF Leaving, Late
  <2>2. CASE SetChunk(t)
    <3>1. tp'.current_chunk = tp.n_threads_max
      BY <1>2, <1>3, <1>9, <2>2 DEF SetChunk, GraphOf, Computing, Types, PoolType
    <3> QED
      BY <1>4, <2>1, <3>1 DEF ChunkInv
  <2>3. CASE Begin(t)
    <3>1. pc'[0] = "node"
      BY <1>2, <1>9, <2>3 DEF Begin, GoTo, Types, StepsOK
    <3> QED
      BY <2>1, <3>1 DEF ChunkInv, Inside, InBarrier
  <2>4. CASE Node(t)
    <3>1. pc'[0] = "set" \/ barrier'[0].from = "end"
      BY <1>2, <1>3, <1>9, <2>4
        DEF Node, GoTo, EnterBarrier, Types, StepsOK, BarrierType
    <3> QED
      BY <2>1, <3>1 DEF ChunkInv, Inside, InBarrier
  <2> QED
    BY <2>2, <2>3, <2>4
<1> QED
  BY <1>1, <1>2, <1>3, <1>4, <1>5, <1>7, <1>8, <1>9, DataStep

\* The end of a node; only thread 0 may abort.
LEMMA DataEndNode ==
  ASSUME BarrierInv, DataInv, NEW t \in Thread, EndNode(t)
  PROVE  DataInv'
<1>1. BarrierInv' /\ Segment(t)' = Segment(t)
  BY BarrierEndNode
<1>2. /\ Types /\ pc[t] = "callback" /\ pc[t] \in Computing /\ UNCHANGED <<worker, done>>
  BY DEF EndNode, Computing, BarrierInv, Idle
<1>3. /\ t \in Team /\ NodeOf(t) /\ Nodes \in Nat \ {0} /\ task[t].node_n \in Nat
      /\ ~Late(t)
  BY <1>2, ComputeKnown DEF Late
<1>4. /\ tp'.n_threads_max = tp.n_threads_max /\ tp'.n_graph = tp.n_graph
      /\ tp'.n_barrier_passed = tp.n_barrier_passed
      /\ tp'.current_chunk = tp.current_chunk
  BY <1>2 DEF EndNode, AbortAt, Types, PoolType
<1>5. OnlyThread(t)
  BY <1>2 DEF EndNode, EnterBarrier, GoTo, OnlyThread, Types, StepsOK, TaskType, BarrierType
<1>6. pc'[t] = "node" \/ (pc'[t] = "join" /\ barrier'[t].from = "node")
  BY <1>2 DEF EndNode, EnterBarrier, GoTo, Types, StepsOK, BarrierType
<1>7. ~Pending(t) /\ ~Pending(t)' /\ Past(t)
  BY <1>2, <1>3, <1>6 DEF Pending, Past, Late
<1>8. \/ tp'.abort = tp.abort /\ tp'.ec = tp.ec
      \/ t = 0 /\ AbortKept'
  <2>1. CASE tp' = tp
    BY <2>1
  <2>2. CASE t = 0 /\ tp' = AbortAt(t)
    <3>1. task[t].node_n + 1 \in 1 .. Nodes
      BY <1>2, <1>3 DEF NodeOf
    <3>2. tp'.abort = task[t].node_n + 1 /\ tp'.ec = "aborted"
      BY <1>2, <2>2 DEF AbortAt, Types, PoolType
    <3> QED
      BY <2>2, <3>1, <3>2 DEF AbortKept
  <2> QED
    BY <2>1, <2>2 DEF EndNode
<1>9. t = 0 => ChunkInv' /\ pc'[0] \notin {"kick", "graph"} /\ ~Leaving'
  BY <1>6 DEF ChunkInv, Inside, InBarrier, Leaving, Late
<1> QED
  BY <1>1, <1>2, <1>3, <1>4, <1>5, <1>7, <1>8, <1>9, DataStep

\* Joining and resetting the barrier, and leaving it late.
LEMMA DataBarrier ==
  ASSUME BarrierInv, DataInv, NEW t \in Thread,
         \/ JoinBarrier(t) /\ barrier[t].n_threads # 1
         \/ ResetBarrier(t) \/ SpinBarrier(t)
  PROVE  DataInv'
<1>1. BarrierInv' /\ Segment(t)' = Segment(t)
  BY BarrierJoined, BarrierReset, BarrierLeft DEF SpinBarrier
<1>2. /\ Types /\ pc[t] \in InBarrier /\ pc[t] \in Computing
      /\ UNCHANGED <<worker, done, barrier>>
  BY DEF JoinBarrier, ResetBarrier, SpinBarrier, InBarrier, Computing, BarrierInv, Idle
<1>3. /\ t \in Team /\ 0 \in Team /\ PassedOf(t)
  BY <1>2, ComputeKnown
<1>4. /\ tp'.n_threads_max = tp.n_threads_max /\ tp'.n_graph = tp.n_graph
      /\ tp'.n_barrier_passed = tp.n_barrier_passed
      /\ tp'.current_chunk = tp.current_chunk
      /\ tp'.abort = tp.abort /\ tp'.ec = tp.ec
  BY <1>2 DEF JoinBarrier, ResetBarrier, SpinBarrier, Types, PoolType
<1>5. CASE (JoinBarrier(t) /\ barrier[t].n_threads # 1) \/ ResetBarrier(t)
  <2>1. /\ UNCHANGED task /\ pc[t] \in {"join", "reset"}
        /\ pc'[t] \in {"reset", "spin", "release"}
        /\ \A u \in Thread \ {t} : pc'[u] = pc[u]
    BY <1>2, <1>5 DEF JoinBarrier, ResetBarrier, GoTo, Types, StepsOK
  <2>2. OnlyThread(t)
    BY <1>2, <2>1 DEF OnlyThread
  <2>3. ~Late(t) /\ ~Late(t)'
    <3>1. CASE JoinBarrier(t)
      <4>1. barrier'[t].n_passed = tp'.n_barrier_passed
        BY <1>2, <1>3, <1>4, <3>1 DEF JoinBarrier, PassedOf
      <4> QED
        BY <2>1, <4>1 DEF Late
    <3>2. CASE ResetBarrier(t)
      <4>1. pc'[t] = "release"
        BY <1>2, <3>2 DEF ResetBarrier, GoTo, Types, StepsOK
      <4> QED
        BY <2>1, <4>1 DEF Late
    <3> QED
      BY <1>5, <3>1, <3>2
  <2>4. ~Pending(t) /\ ~Pending(t)' /\ Past(t)
    BY <2>1, <2>3 DEF Pending, Past
  <2>5. ASSUME t = 0 PROVE ChunkInv' /\ pc'[0] \notin {"kick", "graph"} /\ ~Leaving'
    <3>1. Inside(0)
      BY <1>2, <2>3, <2>5 DEF Inside
    <3> QED
      BY <1>2, <1>4, <2>1, <2>3, <2>5, <3>1 DEF ChunkInv, DataInv, Leaving
  <2> QED
    BY <1>1, <1>2, <1>3, <1>4, <2>2, <2>4, <2>5, DataStep
<1>6. CASE SpinBarrier(t)
  <2>1. PICK from \in Froms : from = barrier[t].from
    BY <1>2 DEF Types, BarrierType
  <2>2. Late(t) /\ LeaveBarrier(t)
    BY <1>6 DEF SpinBarrier, Late
  <2>3. /\ pc'[t] = AfterBarrier(t, from) /\ ~Late(t)' /\ pc'[t] \notin InBarrier
        /\ \A u \in Thread \ {t} : pc'[u] = pc[u] /\ task'[u] = task[u]
        /\ task'[t].chunk = IF from = "chunks" THEN t ELSE task[t].chunk
    BY <1>2, <2>1, <2>2, Left
  <2>4. OnlyThread(t)
    BY <1>2, <2>3 DEF OnlyThread
  <2>5. (Pending(t)' <=> Pending(t))
    BY <2>1, <2>2, <2>3 DEF Pending, AfterBarrier, Late
  <2>6. Past(t)' => Past(t)
    BY <2>2, <2>5 DEF Past, Late
  <2>7. Pending(t) => ChunkOf(t)' = ChunkOf(t)
    BY <2>1, <2>2, <2>3 DEF Pending, ChunkOf, Late
  <2>8. ASSUME t = 0
        PROVE  /\ ChunkInv' /\ pc'[0] \notin {"kick", "graph"}
               /\ Leaving' => Leaving /\ task'[0] = task[0]
    <3>1. ChunkInv' /\ pc'[0] \notin {"kick", "graph"}
      BY <2>3, <2>8 DEF ChunkInv, Inside, AfterBarrier
    <3>2. Leaving' => from = "end"
      BY <2>3, <2>8 DEF Leaving, AfterBarrier, Froms
    <3>3. from = "end" => Leaving /\ task' = task
      BY <2>1, <2>2, <2>8 DEF Leaving, LeaveBarrier
    <3> QED
      BY <3>1, <3>2, <3>3
  <2> QED
    BY <1>1, <1>2, <1>3, <1>4, <2>4, <2>5, <2>6, <2>7, <2>8, DataStep
<1> QED
  BY <1>5, <1>6

\* The steps of a thread in a graph.
LEMMA DataCompute ==
  ASSUME BarrierInv, DataInv, NEW t \in Thread, Compute(t)
  PROVE  DataInv'
<1>1. CASE JoinBarrier(t)
  BY <1>1, DataAlone, DataBarrier
<1> QED
  BY <1>1, DataNodes, DataEndNode, DataBarrier, DataRelease, DataChunk, DataFetch
    DEF Compute

\* The steps of a worker outside of the graphs.
LEMMA DataWait ==
  ASSUME BarrierInv, DataInv, NEW w \in Worker, Wait(w) \/ SpuriousWakeup(w)
  PROVE  DataInv'
<1>1. BarrierInv' /\ Types /\ w # 0 /\ w \in Thread /\ 0 \in Thread
  BY BarrierWait, Sizes DEF BarrierInv
<1>2. UNCHANGED Outside
  BY DEF Wait, TestPause, EnterPause, LeavePause, TestStop, PollOrSleep, SeeGraph,
    TakeGraph, EndPolling, CheckForWork, SpuriousWakeup
<1>3. /\ \A u \in Thread \ {w} : pc'[u] = pc[u] /\ worker'[u] = worker[u]
      /\ pc'[w] = pc[w] \/ (/\ pc[w] \in WaitSteps
                            /\ pc'[w] \notin {"chunk", "fetch", "spin"})
  BY <1>1 DEF Wait, TestPause, EnterPause, LeavePause, TestStop, PollOrSleep, SeeGraph,
    TakeGraph, EndPolling, CheckForWork, SpuriousWakeup, GoTo, Types, StepsOK, WorkerType,
    WaitSteps
<1>4. \A u \in Thread \ {w} :
        /\ Late(u)' = Late(u) /\ Segment(u)' = Segment(u) /\ Inside(u)' = Inside(u)
  BY <1>2, <1>3, Stays DEF Outside
<1>5. Late(w)' = Late(w)
  BY <1>2, <1>3 DEF Late, Outside, WaitSteps
<1>6. \A u \in Thread : (Pending(u)' <=> Pending(u)) /\ (Past(u)' <=> Past(u))
                        /\ ChunkOf(u)' = ChunkOf(u)
  <2> SUFFICES ASSUME NEW u \in Thread
               PROVE  /\ (Pending(u)' <=> Pending(u)) /\ (Past(u)' <=> Past(u))
                      /\ ChunkOf(u)' = ChunkOf(u)
    OBVIOUS
  <2>1. Late(u)' = Late(u)
    BY <1>4, <1>5
  <2>2. pc'[u] = "chunk" <=> pc[u] = "chunk"
    BY <1>3 DEF WaitSteps
  <2>3. pc'[u] = "fetch" <=> pc[u] = "fetch"
    BY <1>3 DEF WaitSteps
  <2> QED
    BY <1>2, <2>1, <2>2, <2>3 DEF Pending, Past, ChunkOf, Outside
<1>7. ChunkInv'
  BY <1>1, <1>2, <1>4 DEF ChunkInv, DataInv, Outside
<1>8. Leaving' <=> Leaving
  BY <1>1, <1>2, <1>3, <1>4 DEF Leaving, Outside
<1> QED
  BY <1>1, <1>2, <1>3, <1>4, <1>6, <1>7, <1>8, DataStays DEF Outside, Team

\* The steps of the calling thread outside of the graph.
LEMMA DataMain ==
  ASSUME ~Varying, BarrierInv, DataInv, Main \/ Caller
  PROVE  DataInv'
<1>1. BarrierInv' /\ Types /\ Nodes \in Nat \ {0} /\ 0 \in Thread
  BY BarrierMain, DataTypes, Sizes DEF BarrierInv
<1>2. pc \in [Thread -> MainSteps \union WorkerSteps]
  BY <1>1 DEF Types, StepsOK
<1>3. \A step : GoTo(0, step) => pc'[0] = step
  BY <1>1, <1>2 DEF GoTo
\* Out of the graph nothing is said of the nodes and chunks.
<1>4. ASSUME pc'[0] \in {"idle", "kick", "graph", "joining"}, AbortKept', FreshInv'
      PROVE  DataInv'
  <2>1. /\ Segment(0)' = Out /\ ~Inside(0)' /\ ~Leaving'
    BY <1>4 DEF Segment, Resting, RestSteps, Inside, InBarrier, Leaving, Late
  <2>2. DoneInv' /\ ProductInv' /\ ChunkInv' /\ ReturnInv'
    BY <1>1, <2>1 DEF DoneInv, ProductInv, ChunkInv, ReturnInv, Out
  <2> QED
    BY <1>4, <2>2 DEF DataInv
<1>5. tp'.abort = tp.abort /\ tp'.ec = tp.ec => AbortKept'
  BY DEF DataInv, AbortKept
<1>6. tp'.abort = -1 => AbortKept'
  BY DEF AbortKept
<1>7. CASE ThreadpoolNew
  <2>1. pc'[0] = "idle" /\ tp'.abort = -1
    BY <1>1, <1>7 DEF ThreadpoolNew, Create, NewPool
  <2> QED
    BY <1>4, <1>6, <2>1 DEF FreshInv
<1>8. CASE GraphCompute
  <2>1. PICK n \in 1 .. MaxThreads : ComputeAlone(n) \/ ComputeInPool(n)
    BY <1>8 DEF GraphCompute
  <2>2. pc'[0] = "kick" /\ tp'.abort = -1
    <3>1. CASE ComputeAlone(n)
      BY <1>1, <3>1 DEF ComputeAlone, Create, NewPool
    <3>2. CASE ComputeInPool(n)
      BY <1>1, <1>3, <3>2 DEF ComputeInPool, Types, PoolType
    <3> QED
      BY <2>1, <3>1, <3>2
  <2>3. done' = {}
    BY <1>8 DEF GraphCompute
  <2> QED
    BY <1>4, <1>6, <2>2, <2>3 DEF FreshInv
<1>9. CASE KickThreads
  <2>1. /\ pc[0] = "kick" /\ pc'[0] = "graph" /\ done' = done
        /\ tp'.abort = tp.abort /\ tp'.ec = tp.ec
    BY <1>1, <1>3, <1>9 DEF KickThreads, Types, PoolType
  <2> QED
    BY <1>4, <1>5, <2>1 DEF FreshInv, DataInv
<1>10. CASE KickGraph
  <2>1. /\ pc[0] = "graph" /\ pc'[0] = "wake" /\ done' = done
        /\ tp'.abort = tp.abort /\ tp'.ec = tp.ec
    BY <1>1, <1>3, <1>10 DEF KickGraph, Types, PoolType
  <2>2. done' = {}
    BY <2>1 DEF DataInv, FreshInv
  <2>3. Segment(0)' = 0 /\ ~Inside(0)' /\ ~Leaving'
    BY <2>1 DEF Segment, Resting, RestSteps, Inside, InBarrier, Leaving, Late
  <2>4. DoneInv'
    <3>1. \A i \in 0 .. Nodes - 1 : OnlyReal(i)' /\ NoneDone(i)' /\ ~(2 * i + 2 <= 0)
      BY <2>2 DEF OnlyReal, NoneDone
    <3> QED
      BY <2>3, <3>1 DEF DoneInv
  <2>5. ProductInv' /\ ChunkInv' /\ FreshInv' /\ ReturnInv'
    BY <1>1, <2>2, <2>3 DEF ProductInv, ChunkInv, FreshInv, ReturnInv
  <2> QED
    BY <1>5, <2>1, <2>4, <2>5 DEF DataInv
<1>11. CASE KickWake
  <2>1. /\ pc[0] = "wake" /\ pc'[0] = "begin" /\ UNCHANGED <<worker, task, barrier, done>>
        /\ tp'.n_threads_max = tp.n_threads_max /\ tp'.n_graph = tp.n_graph
        /\ tp'.n_barrier_passed = tp.n_barrier_passed
        /\ tp'.current_chunk = tp.current_chunk
        /\ tp'.abort = tp.abort /\ tp'.ec = tp.ec
    BY <1>1, <1>3, <1>11 DEF KickWake, Types, PoolType
  <2>2. 0 \in Team
    BY <1>1, <2>1 DEF BarrierInv, PoolInv, Types, PoolType, Team
  <2>3. OnlyThread(0)
    BY <1>2, <1>11, <2>1 DEF KickWake, GoTo, OnlyThread
  <2>4. Segment(0)' = Segment(0)
    BY <2>1 DEF Segment, Resting, RestSteps, Late
  <2>5. ~Late(0) /\ ~Late(0)' /\ ~Inside(0)' /\ ~Leaving'
    BY <2>1 DEF Late, Inside, InBarrier, Leaving
  <2>6. ~Pending(0) /\ ~Pending(0)' /\ Past(0) /\ ChunkInv'
    BY <2>1, <2>5 DEF Pending, Past, ChunkInv
  <2> QED
    BY <1>1, <2>1, <2>2, <2>3, <2>4, <2>5, <2>6, DataStep
<1>12. CASE Pause \/ Resume
  <2>1. /\ pc'[0] = "idle" /\ tp'.abort = tp.abort /\ tp'.ec = tp.ec
    BY <1>1, <1>12 DEF Pause, Resume, Types, PoolType
  <2> QED
    BY <1>4, <1>5, <2>1 DEF FreshInv
<1>13. CASE ThreadpoolFree
  <2>1. /\ pc'[0] = "joining" /\ tp'.abort = tp.abort /\ tp'.ec = tp.ec
    BY <1>1, <1>3, <1>13 DEF ThreadpoolFree, Stopped, Types, PoolType
  <2> QED
    BY <1>4, <1>5, <2>1 DEF FreshInv
<1>14. CASE Join
  <2>1. pc'[0] = "idle" /\ tp'.abort = -1
    BY <1>1, <1>3, <1>14 DEF Join, NoPool, NewPool
  <2> QED
    BY <1>4, <1>6, <2>1 DEF FreshInv
<1>15. CASE Return
  <2>1. /\ pc'[0] = "idle" /\ tp'.abort = tp.abort /\ tp'.ec = tp.ec
    BY <1>3, <1>15 DEF Return
  <2> QED
    BY <1>4, <1>5, <2>1 DEF FreshInv
<1> QED
  BY <1>7, <1>8, <1>9, <1>10, <1>11, <1>12, <1>13, <1>14, <1>15 DEF Main, Caller

\* The invariant of the chunks holds when every plan uses all threads of its pool.
LEMMA DataInvariant == ~Varying => (Spec => [](BarrierInv /\ DataInv))
<1>1. Init => DataInv
  <2> SUFFICES ASSUME Init PROVE DataInv
    OBVIOUS
  <2>1. /\ pc[0] = "idle" /\ tp.abort = -1 /\ done = {} /\ Nodes \in Nat \ {0}
    BY Sizes DEF Init, NoPool, NewPool
  <2>2. /\ Segment(0) = Out /\ ~Inside(0) /\ ~Leaving
    BY <2>1 DEF Segment, Resting, RestSteps, Inside, InBarrier, Leaving, Late
  <2> QED
    BY <2>1, <2>2
      DEF DataInv, DoneInv, ProductInv, ChunkInv, AbortKept, FreshInv, ReturnInv, Out
<1> SUFFICES ASSUME ~Varying PROVE Spec => [](BarrierInv /\ DataInv)
  OBVIOUS
<1>2. BarrierInv /\ DataInv /\ [Next]_vars /\ BarrierInv' => DataInv'
  <2> SUFFICES ASSUME BarrierInv, DataInv, [Next]_vars, BarrierInv' PROVE DataInv'
    OBVIOUS
  <2>1. CASE UNCHANGED vars
    <3>1. \A u : Late(u)' = Late(u)
      BY <2>1 DEF vars, Late
    <3>2. \A u : Inside(u)' = Inside(u) /\ Resting(u)' = Resting(u)
      BY <2>1, <3>1 DEF vars, Inside, Resting
    <3>3. \A u : Segment(u)' = Segment(u)
      BY <2>1, <3>1, <3>2 DEF vars, Segment
    <3>4. \A u : /\ (Pending(u)' <=> Pending(u)) /\ (Past(u)' <=> Past(u))
                 /\ ChunkOf(u)' = ChunkOf(u)
      BY <2>1, <3>1 DEF vars, Pending, Past, ChunkOf
    <3>5. ChunkInv' /\ (Leaving' <=> Leaving)
      BY <2>1, <3>1, <3>2 DEF vars, ChunkInv, Leaving, DataInv
    <3> QED
      BY <2>1, <3>3, <3>4, <3>5, DataStays DEF vars
  <2> QED
    BY <2>1, DataMain, DataWait, DataCompute DEF Next
<1>3. Spec => []BarrierInv
  BY BarrierInvariant
<1> QED
  BY <1>1, <1>2, <1>3, PTL DEF Spec

\* When every plan uses all threads of its pool, no chunk of a matrix product is
\* computed twice or by two threads at once (ggml-cpu.c:1295-1388).
THEOREM EachChunkOnce == ~Varying => (Spec => []ChunksOnce)
<1>1. BarrierInv /\ DataInv => ChunksOnce
  <2> SUFFICES ASSUME BarrierInv, DataInv, NEW t \in Thread, Holds(t)
               PROVE  /\ Held(t) \notin done
                      /\ \A u \in Thread \ {t} : Holds(u) => Held(u) # Held(t)
    BY DEF ChunksOnce
  <2>1. \A u \in Thread : Holds(u) =>
          /\ Pending(u) /\ ChunkOf(u) = task[u].chunk /\ u \in Team
          /\ task[u].node_n \in 0 .. Nodes - 1
          /\ Segment(0) = 2 * task[u].node_n + 1 /\ Product(task[u].node_n)
    <3> SUFFICES ASSUME NEW u \in Thread, Holds(u)
                 PROVE  /\ Pending(u) /\ ChunkOf(u) = task[u].chunk /\ u \in Team
                        /\ task[u].node_n \in 0 .. Nodes - 1
                        /\ Segment(0) = 2 * task[u].node_n + 1 /\ Product(task[u].node_n)
      OBVIOUS
    <3>1. pc[u] = "chunk"
      BY DEF Holds
    <3> QED
      BY <3>1, InChunks DEF Pending, ChunkOf
  <2>2. Held(t) \notin done
    BY <2>1 DEF Product, Held
  <2>3. ASSUME NEW u \in Thread \ {t}, Holds(u) PROVE Held(u) # Held(t)
    <3>1. task[u].node_n \in 0 .. Nodes - 1 /\ task[t].node_n \in 0 .. Nodes - 1
      BY <2>1, <2>3
    <3>2. task[u].node_n = task[t].node_n
      BY <2>1, <2>3, <3>1
    <3>3. task[u].chunk # task[t].chunk
      BY <2>1, <2>3, <3>2 DEF Product
    <3> QED
      BY <3>3 DEF Held
  <2> QED
    BY <2>2, <2>3
<1> SUFFICES ASSUME ~Varying PROVE Spec => []ChunksOnce
  OBVIOUS
<1> QED
  BY <1>1, DataInvariant, PTL

\* When every plan uses all threads of its pool, a thread computes a node only when
\* every chunk of the nodes before it is done: the barrier between two nodes lets
\* nobody pass early (ggml-cpu.c:523-559, 2852-2854).
THEOREM InOrder == ~Varying => (Spec => []NodesInOrder)
<1>1. BarrierInv /\ DataInv => NodesInOrder
  <2> SUFFICES ASSUME BarrierInv, DataInv, NEW t \in Thread, Holds(t),
                      NEW i \in 0 .. task[t].node_n - 1,
                      NEW c \in 0 .. ChunksOf(i, task[t].nth) - 1
               PROVE  <<i, c>> \in done
    BY DEF NodesInOrder
  <2>1. pc[t] = "chunk"
    BY DEF Holds
  <2>2. PICK k \in 0 .. Nodes - 1 :
          /\ k = task[t].node_n /\ Segment(0) = 2 * k + 1 /\ Segment(0) # Out
          /\ task[t].nth = tp.n_threads_max
    BY <2>1, InChunks
  <2>3. i \in 0 .. Nodes - 1 /\ 2 * i + 2 <= Segment(0)
    BY <2>2, Sizes
  <2>4. AllDone(i) /\ ChunksAt(i) \in Nat
    BY <2>2, <2>3, DataTypes DEF DataInv, DoneInv
  <2>5. c \in Nat /\ c < ChunksAt(i)
    BY <2>2, <2>4 DEF ChunksAt
  <2> QED
    BY <2>4, <2>5 DEF AllDone
<1> SUFFICES ASSUME ~Varying PROVE Spec => []NodesInOrder
  OBVIOUS
<1> QED
  BY <1>1, DataInvariant, PTL

-----------------------------------------------------------------------------
(* The pool implements GraphComputation.                                   *)

\* What the refinement needs of a state.
RefineInv == BarrierInv /\ BoundsInv /\ DataInv

\* The call is under way at all steps of thread 0 but these.
LEMMA CallRunning ==
  ASSUME pc[0] \notin {"idle", "joining"}
  PROVE  Call = "running"
BY DEF Call

\* What has been computed when thread 0 returns is what the call promises.
LEMMA ReturnComplete ==
  ASSUME RefineInv, pc[0] = "return"
  PROVE  \/ Abstract!Complete(Nodes)
         \/ tp.ec = "aborted" /\ \E k \in 1 .. Nodes - 1 : Abstract!Complete(k)
<1>1. n_threads = tp.n_threads_max /\ Nodes \in Nat \ {0} /\ tp.n_threads_max \in Nat
  BY DataTypes DEF RefineInv, BarrierInv, PoolInv
<1>2. PICK k \in 1 .. Nodes :
        /\ k = task[0].node_n
        /\ \A i \in 0 .. Nodes - 1 : /\ OnlyReal(i)
                                     /\ i < k => AllDone(i)
                                     /\ i >= k => NoneDone(i)
        /\ k < Nodes => tp.ec = "aborted"
  BY DEF RefineInv, DataInv, ReturnInv, Leaving
<1>3. \A i \in 0 .. Nodes - 1 : ChunksAt(i) \in Nat /\ ChunksOf(i, n_threads) = ChunksAt(i)
  BY <1>1, DataTypes DEF RefineInv, ChunksAt
<1>4. Abstract!Complete(k)
  <2>1. ASSUME NEW x \in done
        PROVE  x \in UNION {Abstract!AllOf(i, n_threads) : i \in 0 .. k - 1}
    <3>1. PICK i \in 0 .. Nodes - 1, c \in Nat : x = <<i, c>>
      BY <2>1 DEF RefineInv, BoundsInv
    <3>2. i < k /\ c < ChunksAt(i)
      BY <1>1, <1>2, <2>1, <3>1 DEF NoneDone, OnlyReal
    <3>3. i \in 0 .. k - 1 /\ c \in 0 .. ChunksOf(i, n_threads) - 1
      BY <1>1, <1>3, <3>1, <3>2
    <3>4. x \in Abstract!AllOf(i, n_threads)
      BY <3>1, <3>3 DEF Abstract!AllOf
    <3> QED
      BY <3>3, <3>4
  <2>2. ASSUME NEW x \in UNION {Abstract!AllOf(i, n_threads) : i \in 0 .. k - 1}
        PROVE  x \in done
    <3>1. PICK i \in 0 .. k - 1 : x \in Abstract!AllOf(i, n_threads)
      BY <2>2
    <3>2. PICK c \in 0 .. ChunksOf(i, n_threads) - 1 : x = <<i, c>>
      BY <3>1 DEF Abstract!AllOf
    <3>3. i \in 0 .. Nodes - 1 /\ i < k
      BY <1>1, <3>1
    <3>4. AllDone(i) /\ ChunksAt(i) \in Nat /\ c \in Nat /\ c < ChunksAt(i)
      BY <1>2, <1>3, <3>2, <3>3
    <3> QED
      BY <3>2, <3>4 DEF AllDone
  <2>3. done = UNION {Abstract!AllOf(i, n_threads) : i \in 0 .. k - 1}
    BY <2>1, <2>2
  <2> QED
    BY <2>3 DEF Abstract!Complete
<1>5. CASE k = Nodes
  BY <1>4, <1>5
<1>6. CASE k # Nodes
  <2>1. k \in 1 .. Nodes - 1 /\ tp.ec = "aborted"
    BY <1>1, <1>2, <1>6
  <2> QED
    BY <1>4, <2>1
<1> QED
  BY <1>5, <1>6

\* The calling thread returns as the call promises.
LEMMA RefineReturn ==
  ASSUME RefineInv, pc[0] = "return", pc'[0] \in {"idle", "joining"}, ret' = tp.ec,
         UNCHANGED <<n_threads, done>>
  PROVE  Abstract!Return
<1>1. Call = "running" /\ Call' = tp.ec
  BY DEF Call
<1>2. tp.ec \in {"success", "aborted"}
  BY DEF RefineInv, BarrierInv, Types, PoolType
<1>3. CASE Abstract!Complete(Nodes)
  BY <1>1, <1>2, <1>3 DEF Abstract!Return
<1>4. CASE tp.ec = "aborted" /\ \E k \in 1 .. Nodes - 1 : Abstract!Complete(k)
  BY <1>1, <1>4 DEF Abstract!Return
<1> QED
  BY <1>3, <1>4, ReturnComplete

\* A chunk is computed as the call promises.
LEMMA RefineChunk ==
  ASSUME RefineInv, NEW t \in Thread, Chunk(t)
  PROVE  Abstract!Compute \/ UNCHANGED <<Call, n_threads, done>>
<1>1. /\ Types /\ pc[t] = "chunk" /\ pc[t] \in Computing /\ UNCHANGED <<n_threads, ret>>
  BY DEF Chunk, RefineInv, BarrierInv, Idle, Computing
<1>2. PICK i \in 0 .. Nodes - 1, c \in Nat : i = task[t].node_n /\ c = task[t].chunk
  BY <1>1, InChunks, DataTypes DEF RefineInv
<1>3. /\ Segment(0) = 2 * i + 1 /\ Segment(0) # Out /\ Product(i) /\ t \in Team
      /\ ~Late(t) /\ task[t].nth = tp.n_threads_max /\ ~Leaving /\ 0 \in Team
  BY <1>1, <1>2, InChunks DEF RefineInv
<1>4. pc[0] \notin {"idle", "joining"} /\ pc'[0] \notin {"idle", "joining"}
  <2>1. pc[0] \notin {"idle", "joining"}
    BY <1>3 DEF Segment, Resting, RestSteps
  <2>2. pc'[0] = pc[0] \/ pc'[0] \in {"callback", "fetch"}
    BY <1>1, Sizes DEF Chunk, GoTo, Types, StepsOK
  <2> QED
    BY <2>1, <2>2
<1>5. Call = "running" /\ Call' = "running"
  BY <1>4 DEF Call
<1>6. n_threads = tp.n_threads_max
  BY <1>4 DEF RefineInv, BarrierInv, PoolInv
<1>7. CASE done' = done
  BY <1>1, <1>5, <1>7
<1>8. CASE done' # done
  <2>1. c < ChunksOf(i, n_threads) /\ done' = done \union {<<i, c>>}
    BY <1>2, <1>3, <1>6, <1>8 DEF Chunk, Chunks
  <2>2. <<i, c>> \notin done
    BY <1>8, <2>1
  <2>3. \A j \in 0 .. Nodes - 1 : ChunksOf(j, n_threads) \in Nat
    BY <1>6, DataTypes DEF RefineInv, ChunksAt
  <2>4. <<i, c>> \in Abstract!AllOf(i, n_threads) \ done
    <3>1. c \in 0 .. ChunksOf(i, n_threads) - 1
      BY <2>1, <2>3
    <3> QED
      BY <2>2, <3>1 DEF Abstract!AllOf
  <2>5. \A j \in 0 .. i - 1 : Abstract!AllOf(j, n_threads) \subseteq done
    <3> SUFFICES ASSUME NEW j \in 0 .. i - 1, NEW x \in Abstract!AllOf(j, n_threads)
                 PROVE  x \in done
      OBVIOUS
    <3>1. PICK e \in 0 .. ChunksOf(j, n_threads) - 1 : x = <<j, e>>
      BY DEF Abstract!AllOf
    <3>2. j \in 0 .. Nodes - 1 /\ 2 * j + 2 <= Segment(0)
      BY <1>2, <1>3, Sizes
    <3>3. AllDone(j)
      BY <1>3, <3>2 DEF RefineInv, DataInv, DoneInv
    <3>4. e \in Nat /\ e < ChunksAt(j)
      BY <1>6, <2>3, <3>1, <3>2 DEF ChunksAt
    <3> QED
      BY <3>1, <3>3, <3>4 DEF AllDone
  <2> QED
    BY <1>1, <1>5, <2>1, <2>4, <2>5 DEF Abstract!Compute
<1> QED
  BY <1>7, <1>8

\* Seen from its caller, every step of the pool is one of the call or none.
LEMMA RefineStep ==
  ASSUME RefineInv, [Next]_vars
  PROVE  Abstract!Next \/ UNCHANGED <<Call, n_threads, done>>
<1>1. Types /\ 0 \in Thread /\ pc \in [Thread -> MainSteps \union WorkerSteps]
  BY Sizes DEF RefineInv, BarrierInv, Types, StepsOK
<1>2. \A step : GoTo(0, step) => pc'[0] = step
  BY <1>1 DEF GoTo
<1>3. CASE UNCHANGED vars
  BY <1>3 DEF vars, Call
<1>4. CASE ThreadpoolNew
  <2>1. pc[0] = "idle" /\ pc'[0] = "idle" /\ UNCHANGED <<n_threads, done, ret>>
    BY <1>1, <1>4 DEF ThreadpoolNew, Create
  <2> QED
    BY <2>1 DEF Call
<1>5. CASE GraphCompute
  <2>1. PICK n \in 1 .. MaxThreads : ComputeAlone(n) \/ ComputeInPool(n)
    BY <1>5 DEF GraphCompute
  <2>2. pc[0] = "idle" /\ pc'[0] = "kick" /\ done' = {}
    BY <1>1, <1>2, <1>5, <2>1 DEF GraphCompute, ComputeAlone, ComputeInPool, Create
  <2>3. n_threads' \in Nat \ {0}
    <3>1. CASE ComputeAlone(n)
      BY <3>1 DEF ComputeAlone
    <3>2. CASE ComputeInPool(n)
      <4>1. tp.n_threads_max \in Nat \ {0}
        BY <1>1, <3>2 DEF ComputeInPool, Types, PoolType
      <4> QED
        BY <3>2, <4>1 DEF ComputeInPool, Min2
    <3> QED
      BY <2>1, <3>1, <3>2
  <2>4. Call # "running" /\ Call' = "running"
    BY <1>1, <2>2 DEF Call, Types
  <2> QED
    BY <2>2, <2>3, <2>4 DEF Abstract!Next, Abstract!Begin
<1>6. CASE KickThreads \/ KickGraph \/ KickWake
  <2>1. /\ pc[0] \notin {"idle", "joining"} /\ pc'[0] \notin {"idle", "joining"}
        /\ UNCHANGED <<n_threads, done>>
    BY <1>2, <1>6 DEF KickThreads, KickGraph, KickWake
  <2> QED
    BY <2>1 DEF Call
<1>7. CASE Pause \/ Resume
  BY <1>7 DEF Pause, Resume, Call
<1>8. CASE ThreadpoolFree
  <2>1. pc'[0] = "joining" /\ UNCHANGED <<n_threads, done>>
    BY <1>2, <1>8 DEF ThreadpoolFree
  <2>2. CASE pc[0] = "return"
    BY <1>8, <2>1, <2>2, RefineReturn DEF ThreadpoolFree, Abstract!Next
  <2>3. CASE pc[0] = "idle"
    BY <1>8, <2>1, <2>3 DEF ThreadpoolFree, Call
  <2> QED
    BY <1>8, <2>2, <2>3 DEF ThreadpoolFree
<1>9. CASE Join
  <2>1. pc[0] = "joining" /\ pc'[0] = "idle" /\ UNCHANGED <<n_threads, done, ret>>
    BY <1>2, <1>9 DEF Join
  <2> QED
    BY <2>1 DEF Call
<1>10. CASE Return
  BY <1>2, <1>10, RefineReturn DEF Return, Abstract!Next
<1>11. ASSUME NEW w \in Worker, Wait(w) \/ SpuriousWakeup(w)
       PROVE  UNCHANGED <<Call, n_threads, done>>
  <2>1. UNCHANGED Outside /\ pc'[0] = pc[0]
    BY <1>1, <1>11, Sizes DEF Wait, TestPause, EnterPause, LeavePause, TestStop, PollOrSleep,
      SeeGraph, TakeGraph, EndPolling, CheckForWork, SpuriousWakeup, GoTo
  <2> QED
    BY <2>1 DEF Outside, Call
<1>12. ASSUME NEW t \in Thread, Compute(t), ~Chunk(t)
       PROVE  UNCHANGED <<Call, n_threads, done>>
  <2>1. UNCHANGED <<n_threads, done, ret>>
    BY <1>12 DEF Compute, Begin, Node, SetChunk, JoinBarrier, ResetBarrier, ReleaseBarrier,
      SpinBarrier, FetchChunk, EndNode, Idle
  <2>2. pc'[0] = pc[0] \/ (/\ pc[0] \notin {"idle", "joining"}
                           /\ pc'[0] \notin {"idle", "joining"})
    <3>1. ASSUME LeaveBarrier(t), pc[t] \in InBarrier
          PROVE  pc'[0] = pc[0] \/ (/\ pc[0] \notin {"idle", "joining"}
                                    /\ pc'[0] \notin {"idle", "joining"})
      BY <1>1, <3>1, Left DEF AfterBarrier, InBarrier
    <3>2. CASE JoinBarrier(t)
      BY <1>1, <3>1, <3>2 DEF JoinBarrier, InBarrier, GoTo
    <3>3. CASE ReleaseBarrier(t) \/ SpinBarrier(t)
      BY <3>1, <3>3 DEF ReleaseBarrier, SpinBarrier, InBarrier
    <3> QED
      BY <1>1, <1>12, <3>2, <3>3
        DEF Compute, Begin, Node, SetChunk, EnterBarrier, ResetBarrier, FetchChunk, EndNode, GoTo
  <2> QED
    BY <2>1, <2>2 DEF Call
<1>13. ASSUME NEW t \in Thread, Chunk(t)
       PROVE  Abstract!Next \/ UNCHANGED <<Call, n_threads, done>>
  BY <1>13, RefineChunk DEF Abstract!Next
<1> QED
  BY <1>3, <1>4, <1>5, <1>6, <1>7, <1>8, <1>9, <1>10, <1>11, <1>12, <1>13
    DEF Next, Main, Caller

\* When every plan uses all threads of its pool, the pool computes each node of a graph
\* in order and each chunk once, and the call returns when all or, aborted, the first
\* nodes are done, whatever the order in which its threads run.
THEOREM PoolImplements == ~Varying => (Spec => ImplementsComputation)
<1> SUFFICES ASSUME ~Varying PROVE Spec => ImplementsComputation
  OBVIOUS
<1>1. ASSUME Init PROVE Abstract!Init
  <2>1. pc[0] = "idle"
    BY <1>1, Sizes DEF Init
  <2> QED
    BY <1>1, <2>1 DEF Init, Abstract!Init, Call
<1>2. RefineInv /\ [Next]_vars => [Abstract!Next]_(Abstract!abstractVars)
  BY RefineStep DEF Abstract!abstractVars
<1>3. Spec => []RefineInv
  BY BoundsInvariant, DataInvariant, PTL DEF RefineInv
<1> QED
  BY <1>1, <1>2, <1>3, PTL DEF Spec, ImplementsComputation, Abstract!Spec
=============================================================================
