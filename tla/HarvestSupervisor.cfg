\* Three auctions for two permits, two attempts each.
SPECIFICATION FairSpec
CONSTANTS
  Auction = {a1, a2, a3}
  Pool = 2
  MaxRestarts = 2
INVARIANTS
  TypeOK
  ReportAddsUp
  SinkFailureRaised
  NobodyStreamsOn
PROPERTIES
  EndedIsFinal
  SinkFailureSurfaces
  StopEnds
  NobodyPassedOver
CHECK_DEADLOCK FALSE
