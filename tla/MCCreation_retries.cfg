SPECIFICATION FairSpec
CONSTANTS
  Collections = {k1}
  DropCollections = {k1}
  Clients = {c1, c2}
  Submissions = {s1, s2}
  Ops <- AllOps
  NoCollection = NoCollection
  NoSubmission = NoSubmission
INVARIANTS ShownIsBacked PaidIfShown ToldIsOnChain AcknowledgedIsRecorded
PROPERTIES ToldIsShown KeepsPromise
CHECK_DEADLOCK FALSE
