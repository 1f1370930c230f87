SPECIFICATION Spec
CONSTANTS
  edition = edition
  open = open
  Collections <- AllCollections
  Kind <- MCKind
  Supply = 2
  Mints = {m1, m2}
  Clients = {c1, c2}
  Ops <- AllOps
  NoValue = NoValue
  Missing = Missing
  NoCollection = NoCollection
SYMMETRY MCSymmetry
VIEW MCView
INVARIANTS NeverAhead Current
CHECK_DEADLOCK FALSE
