SPECIFICATION Spec
CONSTANTS
  Sources <- MCSources
  CapIn = 1
  CapOut = 1
  CapC = 1
  CapE = 1
  NCompress = 2
  NEncrypt = 2
  NHandles = 5
  InSide <- MCInSide
  OutSide <- MCOutSide
  SegSize = 2
  LenSize = 1
  NoChunk = NoChunk
INVARIANTS FinalIsEnd
