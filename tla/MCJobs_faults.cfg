SPECIFICATION Spec
CONSTANTS
  Tasks = {t1, t2}
  Jobs = {j1, j2, j3, j4}
  Faults <- EveryFault
  NoTask = NoTask
  NoJob = NoJob
SYMMETRY MCSymmetry
PROPERTIES RunsOnce KeepsPromise
CHECK_DEADLOCK FALSE
