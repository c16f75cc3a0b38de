SPECIFICATION FairSpec
CONSTANTS
  MaxDay = 2
  Other = {}
  MaxDisturbances = 0
CHECK_DEADLOCK FALSE
PROPERTIES
  VotiOwed
