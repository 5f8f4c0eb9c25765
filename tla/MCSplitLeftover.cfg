SPECIFICATION Spec
CONSTANTS
  MaxFiles = 5
  HeaderSize = 2
  ChunkSize = 3
  Overhead = 1
  Payloads <- MCPayloads
  Splits <- MCSplits
  Earlier <- MCEarlier
  NoFile = NoFile
INVARIANTS SeriesIsTheFile
