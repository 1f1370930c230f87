SPECIFICATION FairSpec
CONSTANTS
  p1 = p1
  p2 = p2
  a1 = a1
  k1 = k1
  k2 = k2
  x1 = x1
  Certificate = Certificate
  NoId = NoId
  NoPair = NoPair
  c1 = c1
  c2 = c2
  Projects = {p1, p2}
  Addresses = {a1}
  Assets = {x1}
  Sparse = {x1}
  Own = {k1, k2}
  Home <- MCHome
  Imported <- MCImported
  MaxImports = 2
  Clients = {c1}
INVARIANTS HalfImportedIsOpen ImportedOnce NoLeftovers
PROPERTIES OtherProjectsStay ImportCompletes
CHECK_DEADLOCK FALSE
