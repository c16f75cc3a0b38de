\* Two bidders, two clicks, a restart of the app; signals sent or not.
SPECIFICATION Spec
CONSTANTS
  j1 = j1
  j2 = j2
  r1 = r1
  r2 = r2
  Job = {j1, j2}
  Request = {r1, r2}
  Delivers = {TRUE, FALSE}
  Races = {}
  MaxRestarts = 1
INVARIANTS
  TypeOK
  OneBidder
PROPERTIES
  HeldAfterStop
  FreshStart
  ImplementsGesture
  StopsHonoured
CHECK_DEADLOCK FALSE
