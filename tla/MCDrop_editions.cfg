SPECIFICATION Spec
CONSTANTS
  Mints = {m1, m2}
  Clients = {c1, c2}
  Supplies <- SmallSupplies
  MaxTime = 0
  Ops <- EditionOps
  NoSupply = NoSupply
  NoTime = NoTime
  NoMint = NoMint
SYMMETRY MCSymmetry
INVARIANTS EditionsUnique
CHECK_DEADLOCK FALSE
