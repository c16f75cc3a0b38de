\* One bidder, and a click between its registration and its process.
SPECIFICATION Spec
CONSTANTS
  j1 = j1
  j2 = j2
  r1 = r1
  r2 = r2
  Job = {j1}
  Request = {r1, r2}
  Delivers = {TRUE, FALSE}
  Races = {}
  MaxRestarts = 0
INVARIANTS
  EveryClickSeen
CHECK_DEADLOCK FALSE
