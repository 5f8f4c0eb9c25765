SPECIFICATION FairSpec
CONSTANTS
  HeaderLen = 2
  PieceLen = 2
  Archives <- MCArchives
  Befores <- MCBefores
  Lists <- MCLists
  MaxCut = 3
  NoTimes <- MCNoTimes
  NoPath = NoPath
INVARIANTS Restored ErrHasCause ListIsArchive
PROPERTIES NoOverwrite Ends
