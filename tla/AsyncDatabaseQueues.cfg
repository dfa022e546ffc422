CONSTANTS
  Workers = 2
  world = world
  mapThread = mapThread
  Producer = {world}
  World = world
  Serial = {1}
  Kind = {"write", "notify", "unsafe"}
  Timeout = TRUE
  MaxOp = 2
SPECIFICATION FairSpec
PROPERTY EveryOperationRuns
PROPERTY EveryCallbackRuns
PROPERTY ImplementsExecutor
PROPERTY HaltDrains
