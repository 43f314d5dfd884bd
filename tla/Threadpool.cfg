SPECIFICATION FairSpec
CONSTANTS
  MaxThreads = 3
  Estimate <- TwoNodes
  PerThread = 1
  Varying = FALSE
  Poll = TRUE
  MaxGraphs <- Graphs
INVARIANTS TypeOK ChunksOnce NodesInOrder QuietBetweenGraphs
PROPERTIES CallsReturn ImplementsComputation
