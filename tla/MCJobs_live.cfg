SPECIFICATION FairSpec
CONSTANTS
  Tasks = {t1, t2}
  Jobs = {j1, j2, j3}
  Faults <- UpdateFault
  NoTask = NoTask
  NoJob = NoJob
INVARIANTS AcceptedIsCarried
PROPERTIES AcceptedIsProcessed
CHECK_DEADLOCK FALSE
