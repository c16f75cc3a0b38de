\* Two bargains, undisturbed: the purse for them is two credits.
SPECIFICATION Spec
CONSTANTS
  p1 = p1
  p2 = p2
  Player = {p1, p2}
  Us = Us
  Rival = Rival
  Nobody = Nobody
  Admin = Admin
  NoLot = NoLot
  NoSale = NoSale
  NoRaise = NoRaise
  Size = 2
  Budget = 5
  Mapped = {p1, p2}
  Kinds <- MCBargains
  Passing <- MCPassing
  PreGate <- MCPreGate
  Purse = 2
  Book <- MCBook
  KnowsSeats = TRUE
  MaxPrice = 3
  MaxTurns = 2
  MaxDisturbances = 0
  Disturbances = {}
INVARIANTS
  BargainPurse
CHECK_DEADLOCK FALSE
