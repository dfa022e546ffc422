CONSTANTS
  Workers = 1
  world = world
  mapThread = mapThread
  Producer = {world, mapThread}
  World = world
  Serial = {1}
  Kind = {"safe", "unsafe"}
  Timeout = TRUE
  MaxOp = 3
SPECIFICATION Spec
INVARIANT CallbackOnce
INVARIANT CallbackOrder
