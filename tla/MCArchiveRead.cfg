SPECIFICATION FairSpec
CONSTANTS
  HeaderLen = 1
  PieceLen = 2
  Trees <- MCTrees
  ExcludePath <- MCExcludePath
  NOutputs = 2
  NWorkers = 2
  CapPaths = 1
  CapData = 1
  ChunkLen = 2
  NoPath = NoPath
  NoWorker = NoWorker
INVARIANTS Unmixed OkIsWhole ChunkSizes LinkIsSameFile DataIsAsHeaderSays ExcludedIsOutput
PROPERTIES Completes
\* Main may wait for ever in join_threads after Stop (StopEnds).
CHECK_DEADLOCK FALSE
