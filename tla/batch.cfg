SPECIFICATION FairSpec
CONSTANTS
  MaxItems = 4
  MaxBatch = 3
  BatchConcurrency = 2
CHECK_DEADLOCK FALSE
INVARIANTS
  TypeOK
  BoundedConcurrency
  AlignedResults
  TotalsMatchResults
PROPERTIES
  ImplementsBatch
