CONSTANTS
  alice = alice
  bob = bob
  carol = carol
  dave = dave
  Account = {alice, bob, carol}
  None = None
  Region <- TwoRegions
  Trusted = {}
  Priority <- Unequal
  MaxPriority = 2
  PriorityMode = TRUE
  PerTick = 1
  IpPenalty = 1
  Address <- OneAddress
  HardLimit = 1
  MaxPop <- NoQuota
  PlayerLimit = 0
  LoginPerTick = 1
  Grace = FALSE
  IdleKick = FALSE
  MayStop = FALSE
  MaxSession = 1
  MaxIp = 2
SPECIFICATION FairSpec
INVARIANT LimitKept
INVARIANT PriorityOrder
PROPERTY PassInOrder
 
PROPERTY ClosedEnds
