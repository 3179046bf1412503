CONSTANTS
  Threads = {t1}
  PoolJobs = {a, b}
  DonateJobs = {d}
  NoJob = NoJob
  MaxSequence = 4
  MaxQueue = 2
SYMMETRY Symmetry
SPECIFICATION Spec
INVARIANTS TypeOK PausedIffIdle MinesCurrentJob PauseStopsHashing StopReachesThreads NoShareForgotten HashesOwnBlob
CHECK_DEADLOCK FALSE
