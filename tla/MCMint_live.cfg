SPECIFICATION FairSpec
CONSTANTS
  Mints = {m1}
  Clients = {c1}
  Deductions = {d1, d2}
  Submissions = {s1, s2}
  Ops <- AllOps
  MaxBatch = 1
  NoMint = NoMint
  NoDeduction = NoDeduction
  NoSubmission = NoSubmission
PROPERTIES
  SubmissionAnswered
  SuccessIsReported
CHECK_DEADLOCK FALSE
