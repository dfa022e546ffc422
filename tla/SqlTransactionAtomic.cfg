CONSTANTS
  Length = 2
  Prepared = {}
  MaxTransaction = 1
  MaxLoss = 1
  Rejections = {}
SPECIFICATION Spec
INVARIANT Atomic
