\* Replay: the loader may be killed at every point, including between its two
\* checkpoint writes, and then reads again lines its reducer state has folded.
SPECIFICATION Spec
SYMMETRY Symmetry
CONSTANTS
  OneShot = FALSE
  Auction = {a1}
  Player = {p, q}
  NoPlayer = NoPlayer
  NoPrice = NoPrice
  Garbage = Garbage
  NoSale = NoSale
  Clean = Clean
  NoState = NoState
  Follow = Follow
  Window = 3
  CrashPoints = {"idle", "read", "seeded", "committed", "stated"}
  StartPrice = 1
  MaxPrice = 3
  MaxWrites = 5
  MaxKills = 1
  MaxOutages = 0
  MaxCollectorFaults = 0
  MaxUpgrades = 0
  MaxSeedFailures = 0
PROPERTIES
  ReplayAbsorbed
CHECK_DEADLOCK FALSE
