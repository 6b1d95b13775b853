CONSTANTS
  Threshold <- MCThreshold
  ChunkSize <- MCChunkSize
  LineWords <- MCLineWords
  MaxBase <- MCShortMaxBase
  MaxLen <- MCShortMaxLen
SPECIFICATION Spec
PROPERTY ShortArraysArePlain
