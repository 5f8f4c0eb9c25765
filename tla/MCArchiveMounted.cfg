SPECIFICATION Spec
CONSTANTS
  HeaderLen = 1
  PieceLen = 2
  Trees <- MCMounted
  ExcludePath <- MCMountedPath
  NOutputs = 2
  NWorkers = 2
  CapPaths = 1
  CapData = 1
  ChunkLen = 2
  NoPath = NoPath
  NoWorker = NoWorker
INVARIANTS LinkIsSameFile
CHECK_DEADLOCK FALSE
