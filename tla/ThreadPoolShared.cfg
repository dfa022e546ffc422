CONSTANTS
  Size = 3
  Kind = "sq"
  ClearMode = "AT_NEXT_WORKLOAD"
  ErrorHandling = "IGNORE"
  Throws <- FirstThrows
  MaxTask = 4
  MaxBatch = 0
SPECIFICATION FairSpec
INVARIANT TypeOK
INVARIANT JobDone
INVARIANT ExecutesOwed
PROPERTY ImplementsJob
