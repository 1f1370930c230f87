SPECIFICATION Spec
CONSTANTS
  Mints = {m1}
  Clients = {c1, c2}
  Deductions = {d1, d2}
  Submissions = {s1, s2}
  Ops <- QueueOps
  MaxBatch = 1
  NoMint = NoMint
  NoDeduction = NoDeduction
  NoSubmission = NoSubmission
INVARIANTS OneHistoryPerMint
CHECK_DEADLOCK FALSE
