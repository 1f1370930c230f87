SPECIFICATION Spec
CONSTANTS
  Mints = {m1, m2}
  Clients = {c1, c2}
  Deductions = {d1, d2}
  Submissions = {s1, s2}
  Ops <- RacingOps
  MaxBatch = 2
  NoMint = NoMint
  NoDeduction = NoDeduction
  NoSubmission = NoSubmission
SYMMETRY MCSymmetry
INVARIANTS
  CreatedIsOnChain
  HistoryIsOnChain
  CreatedIsConfirmed
  SubmissionsPaid
  ConfirmedIsOnChain
  AcknowledgedIsRecorded
PROPERTIES KeepsPromise
CHECK_DEADLOCK FALSE
