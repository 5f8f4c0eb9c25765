SPECIFICATION FairSpec
CONSTANTS
  HeaderLen = 1
  PieceLen = 2
  Trees <- MCTrees
  ExcludePath <- MCExcludePath
  NOutputs = 2
  NWorkers = 2
  CapPaths = 1
  CapData = 1
  ChunkLen = 2
  NoPath = NoPath
  NoWorker = NoWorker
PROPERTIES StopEnds
\* The counterexample ends in a state without successors.
CHECK_DEADLOCK FALSE
