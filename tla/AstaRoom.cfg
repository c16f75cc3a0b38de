\* An evening of two players for a rosa of two.
SPECIFICATION Spec
CONSTANTS
  p1 = p1
  p2 = p2
  Player = {p1, p2}
  Us = Us
  Rival = Rival
  Nobody = Nobody
  Admin = Admin
  NoLot = NoLot
  NoSale = NoSale
  NoRaise = NoRaise
  Size = 2
  Budget = 5
  Mapped = {p1, p2}
  Kinds <- MCKinds
  Passing <- MCPassing
  PreGate <- MCPreGate
  Purse = 4
  Book <- MCBook
  KnowsSeats = TRUE
  MaxPrice = 4
  MaxTurns = 2
  MaxDisturbances = 3
  Disturbances = {"annul", "reopen", "undo", "pass", "hand", "kill", "error", "timeout", "loss"}
INVARIANTS
  TypeOK
  RosaCompletable
  CriterionRespected
PROPERTIES
  RaiseIsCompareAndSwap
CHECK_DEADLOCK FALSE
