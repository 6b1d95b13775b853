CONSTANTS
  Addr <- MCPlainAddr
  MaxBase <- MCPlainMaxBase
  MaxLen <- MCPlainMaxLen
SPECIFICATION Spec
INVARIANT TypeOK
INVARIANT PlainScanSafe
PROPERTY ImplementsArrayScan
