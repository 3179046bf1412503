CONSTANTS
  Threads = {t1}
  PoolJobs = {a, b}
  DonateJobs = {d}
  NoJob = NoJob
  MaxSequence = 3
  MaxQueue = 1
SYMMETRY Symmetry
SPECIFICATION Spec
CHECK_DEADLOCK FALSE
INVARIANT HashesBlobOfJob
