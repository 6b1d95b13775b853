CONSTANTS
  MaxPoolLen <- MCMaxPoolLen
SPECIFICATION Spec
INVARIANT TypeOK
INVARIANT PoolVisitsExact
