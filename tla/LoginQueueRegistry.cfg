CONSTANTS
  alice = alice
  bob = bob
  carol = carol
  dave = dave
  Account = {alice, bob}
  None = None
  Region <- OneRegion
  Trusted = {}
  Priority <- Equal
  MaxPriority = 0
  PriorityMode = FALSE
  PerTick = 0
  IpPenalty = 0
  Address <- OneAddress
  HardLimit = 2
  MaxPop <- NoQuota
  PlayerLimit = 0
  LoginPerTick = 2
  Grace = TRUE
  IdleKick = TRUE
  MayStop = TRUE
  MaxSession = 2
  MaxIp = 3
SYMMETRY AccountSymmetry
SPECIFICATION Spec
INVARIANT OnePlace
INVARIANT QueueSound
INVARIANT LoggedCount
INVARIANT LoadingAnswered
PROPERTY ShutdownSavesRegistered
