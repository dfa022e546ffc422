CONSTANTS
  Length = 3
  Prepared = {2}
  MaxTransaction = 3
  MaxLoss = 2
  Rejections <- AllRejections
SPECIFICATION FairSpec
INVARIANT TypeOK
INVARIANT AtomicIfUndisturbed
INVARIANT EndsItsTransaction
PROPERTY Recovers
