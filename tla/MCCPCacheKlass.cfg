CONSTANTS
  MaxEntries <- MCMaxEntries
SPECIFICATION Spec
INVARIANT TypeOK
INVARIANT CacheVisitsExact
