\* The same evening as asta bid plays it: no seats known, one player the bridge
\* cannot translate, two disturbances.
SPECIFICATION FairSpec
CONSTANTS
  p1 = p1
  p2 = p2
  Player = {p1, p2}
  Us = Us
  Rival = Rival
  Nobody = Nobody
  Admin = Admin
  NoLot = NoLot
  NoSale = NoSale
  NoRaise = NoRaise
  Size = 2
  Budget = 5
  Mapped = {p1}
  Kinds <- MCKinds
  Passing <- MCPassing
  PreGate <- MCPreGate
  Purse = 4
  Book <- MCBook
  KnowsSeats = FALSE
  MaxPrice = 4
  MaxTurns = 2
  MaxDisturbances = 2
  Disturbances = {"annul", "reopen", "undo", "pass", "hand", "kill", "error", "timeout", "loss"}
PROPERTIES
  TargetChased
CHECK_DEADLOCK FALSE
