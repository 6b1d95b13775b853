CONSTANTS
  Threshold <- MCShortThreshold
  ChunkSize <- MCChunkSize
  LineWords <- MCLineWords
  MaxBase <- MCMaxBase
  MaxLen <- MCMaxLen
SPECIFICATION Spec
INVARIANT ScanSafe
