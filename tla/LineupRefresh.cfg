SPECIFICATION FairSpec
CONSTANTS
  MaxDay = 2
  Other = {o}
  MaxDisturbances = 1
CHECK_DEADLOCK FALSE
INVARIANTS
  TypeOK
  EarnedIsKept
PROPERTIES
  KeepsLedger
  VotiRecorded
