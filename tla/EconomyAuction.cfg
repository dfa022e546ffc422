CONSTANTS
  alice = alice
  bob = bob
  carol = carol
  sword = sword
  None = None
  Player = {alice, bob, carol}
  Item = {sword}
  Hardcore = {carol}
  Postage = 1
  Writer = {}
  Leaver = {bob}
  Amount = {}
  MaxMail = 2
  MaxQueue = 2
  Trader = {}
  Coin = {1}
  Price = {1, 2}
  Deposit = 1
  CutPercent = 50
  StartGold = 2
SPECIFICATION Spec
CONSTRAINT Followed
INVARIANTS
  ItemOnce
  MoneyConserved
PROPERTY AuctionServes
