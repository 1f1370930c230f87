CONSTANTS
  k1 = k1
  k2 = k2
  c1 = c1
  c2 = c2
  ours = ours
  other = other
  upper = upper
  lower = lower
  NoValue = NoValue
  Largest = 2
  Rows <- MCRows
  Clients <- MCClients
  Addresses <- MCAddresses
  WellFormed <- MCWellFormed
  Normal <- MCNormal
  Treasury <- MCTreasury
  Inputs <- MCInputs
SYMMETRY MCSymmetry
SPECIFICATION Spec
INVARIANTS
  ChargedIsStored
  VerifiedIsOurs
  CreatorsAreOneRequests
CHECK_DEADLOCK FALSE
