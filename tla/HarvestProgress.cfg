\* Progress through an outage, which may take the loader down with it, a kill
\* of the loader after its commit, and a reducer state discarded between two
\* runs; auctions are scanned while the loader runs.
SPECIFICATION FairSpec
CONSTANTS
  OneShot = TRUE
  Auction = {a1, a2}
  Player = {p}
  NoPlayer = NoPlayer
  NoPrice = NoPrice
  Garbage = Garbage
  NoSale = NoSale
  Clean = Clean
  NoState = NoState
  Follow = Follow
  Window = 2
  CrashPoints = {"committed"}
  StartPrice = 1
  MaxPrice = 2
  MaxWrites = 3
  MaxKills = 1
  MaxOutages = 1
  MaxCollectorFaults = 0
  MaxUpgrades = 1
  MaxSeedFailures = 0
INVARIANTS
  NothingSkipped
  CarriedLinesHaveEvents
  PositionsAgree
  CaughtUpIsExact
PROPERTIES
  OneShotCarriesBacklog
  EveryLineCarried
CHECK_DEADLOCK FALSE
