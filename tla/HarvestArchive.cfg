\* Exactness of the archive: outages, collector faults, and kills of the
\* loader anywhere but between its two checkpoint writes.
SPECIFICATION Spec
SYMMETRY Symmetry
CONSTANTS
  OneShot = FALSE
  Auction = {a1}
  Player = {p, q}
  NoPlayer = NoPlayer
  NoPrice = NoPrice
  Garbage = Garbage
  NoSale = NoSale
  Clean = Clean
  NoState = NoState
  Follow = Follow
  Window = 3
  CrashPoints = {"idle", "read", "seeded", "committed"}
  StartPrice = 1
  MaxPrice = 3
  MaxWrites = 5
  MaxKills = 1
  MaxOutages = 1
  MaxCollectorFaults = 1
  MaxUpgrades = 0
  MaxSeedFailures = 0
INVARIANTS
  TypeOK
  LaddersAscend
  PassedOnIsLanded
PROPERTIES
  ArchiveIsReconstruction
CHECK_DEADLOCK FALSE
