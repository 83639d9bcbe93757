\* Two operators revoke tickets, or two processes execute under one run id.
CONSTANTS
  op1 = op1  op2 = op2  k1 = k1  k2 = k2  k3 = k3
  Operators = {op1, op2}
  TicketIds = {k1, k2, k3}
  NoFile = NoFile
  Garbage = Garbage
  MaxCommands = 4
  p1 = p1  p2 = p2
  Runners = {p1, p2}
  Recordings <- MCRecordings
  Size <- MCSize
  Chunk = 3
  Hole = Hole
  NoPack = NoPack
  CutPack = CutPack
  MixedPack = MixedPack
SPECIFICATION UnlockedSpec
INVARIANTS RevocationsFailClosed ListInvariant AcceptedEventsAreOfOneRun AcceptedPackIsOfItsLedger
SYMMETRY MCSymmetry
CHECK_DEADLOCK FALSE
