CONSTANTS
  N = 3
  Urls <- MixedUrls
  Retries = 1
  MaxFailures = 1
  MaxFound = 1
  Jobs = {j1, j2}
  NoJob = NoJob
  NoPool = NoPool
SYMMETRY JobSymmetry
SPECIFICATION Spec
CHECK_DEADLOCK FALSE
INVARIANTS TypeOK ActiveIsIndex KeepsTrying MinesForActive ActiveHasSocket PrimaryOneAttempt SilenceNoticed
PROPERTIES PrimaryStopsBackups SelectsPools
