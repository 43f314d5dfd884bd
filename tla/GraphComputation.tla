--------------------------- MODULE GraphComputation ---------------------------
(***************************************************************************)
(* What ggml_graph_compute promises its caller, without threads: the nodes *)
(* of a graph are computed in order, a node is begun only when the one     *)
(* before it is complete, each chunk of a node is computed once, and the   *)
(* call returns "success" when all nodes are complete, or "aborted" when   *)
(* some first nodes are complete and nothing else was begun.               *)
(***************************************************************************)
EXTENDS Naturals, FiniteSets

CONSTANTS
  Nodes,          \* the number of nodes of a graph (cgraph->n_nodes)
  ChunksOf(_, _)  \* the number of chunks of a node when n threads compute it

VARIABLES
  call,     \* "none", "running", "success" or "aborted"
  threads,  \* the number of threads of this call
  done      \* the chunks computed, <<node, chunk>>

abstractVars == <<call, threads, done>>

AllOf(i, n) == {i} \X (0 .. ChunksOf(i, n) - 1)

Complete(k) == done = UNION {AllOf(i, threads) : i \in 0 .. k - 1}

Init ==
  /\ call = "none"
  /\ threads = 1
  /\ done = {}

Begin ==
  /\ call # "running"
  /\ call' = "running"
  /\ threads' \in Nat \ {0}
  /\ done' = {}

Compute ==
  /\ call = "running"
  /\ \E i \in 0 .. Nodes - 1 :
       /\ \A j \in 0 .. i - 1 : AllOf(j, threads) \subseteq done
       /\ \E chunk \in AllOf(i, threads) \ done : done' = done \union {chunk}
  /\ UNCHANGED <<call, threads>>

Return ==
  /\ call = "running"
  /\ \/ Complete(Nodes) /\ call' \in {"success", "aborted"}
     \/ \E k \in 1 .. Nodes - 1 : Complete(k) /\ call' = "aborted"
  /\ UNCHANGED <<threads, done>>

Next == Begin \/ Compute \/ Return

Spec == Init /\ [][Next]_abstractVars
=============================================================================
