CONSTANTS
  alice = alice
  bob = bob
  carol = carol
  sword = sword
  None = None
  Player = {alice, bob}
  Item = {sword}
  Hardcore = {}
  Postage = 1
  Writer = {alice}
  Leaver = {bob}
  Amount <- Amounts
  MaxMail = 2
  MaxQueue = 2
  Trader = {alice, bob}
  Coin = {1}
  Price = {}
  Deposit = 1
  CutPercent = 50
  StartGold = 2
SPECIFICATION Spec
CONSTRAINT Followed
INVARIANTS
  
  
  AcceptedIsCurrent
