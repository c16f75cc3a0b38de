\* Three matchdays; the rows and the marker change as the ledger allows.
SPECIFICATION Spec
CONSTANTS
  MaxDay = 3
CHECK_DEADLOCK FALSE
INVARIANTS
  TypeOK
  ProjectsOnFinalRows
  RecordIsHonest
PROPERTIES
  PostsBeforeKickoff
