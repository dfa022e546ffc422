CONSTANTS
  alice = alice
  north = north
  south = south
  crypt = crypt
  None = None
  Player = {alice}
  Continent = {north, south}
  Instance = {crypt}
  Id <- Ids
  Home = north
  InstanceThreads = 1
  Searcher = {alice}
  Buyer = {alice}
SPECIFICATION Spec
INVARIANT PacketsOutsideUpdate
