CONSTANTS
  Size = 2
  Kind = "mq"
  ClearMode = "UPPON_COMPLETION"
  ErrorHandling = "LOG"
  Throws <- TwoThrow
  MaxTask = 4
  MaxBatch = 4
SPECIFICATION FairSpec
INVARIANT ExecutesOwed
PROPERTY WorkloadStable
PROPERTY ShutdownEnds
