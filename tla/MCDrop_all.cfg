SPECIFICATION Spec
CONSTANTS
  Mints = {m1, m2, m3}
  Clients = {c1, c2}
  Supplies <- SmallSupplies
  MaxTime = 2
  Ops <- EveryOp
  NoSupply = NoSupply
  NoTime = NoTime
  NoMint = NoMint
SYMMETRY MCSymmetry
INVARIANTS StatusAgrees UniqueInTurn NotOversold
PROPERTIES ShutdownIsFinal SoldOutIsFinal
CHECK_DEADLOCK FALSE
