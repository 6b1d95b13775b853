CONSTANTS
  Threshold <- MCThreshold
  ChunkSize <- MCChunkSize
  LineWords <- MCLineWords
  MaxBase <- MCMaxBase
  MaxLen <- MCMaxLen
SPECIFICATION Spec
INVARIANT TypeOK
INVARIANT ScanSafe
INVARIANT Partition
PROPERTY Termination
