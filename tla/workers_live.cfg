CONSTANTS
  Threads = {t1}
  PoolJobs = {a}
  DonateJobs = {d}
  NoJob = NoJob
  MaxSequence = 3
  MaxQueue = 1
SPECIFICATION LiveSpec
PROPERTIES StopJoins JobReachesThreads SharesDelivered
CHECK_DEADLOCK FALSE
