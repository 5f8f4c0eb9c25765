SPECIFICATION FairSpec
CONSTANTS
  Sources <- MCSources
  Ciphertexts <- MCCiphertexts
  CapIn = 2
  CapOut = 1
  NHandles = 3
  InSide <- MCThreads
  OutSide <- MCThreads
  NoChunk = NoChunk
INVARIANTS IInv InOrder OkIsComplete OneChunkOnePlace VerdictIsTrue
PROPERTIES Termination ImplementsStream
