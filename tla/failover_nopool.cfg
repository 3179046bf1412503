CONSTANTS
  N = 2
  Urls <- KeepAliveUrls
  Retries = 2
  MaxFailures = 2
  MaxFound = 1
  Jobs = {j1, j2}
  NoJob = NoJob
  NoPool = NoPool
SYMMETRY JobSymmetry
SPECIFICATION Spec
CHECK_DEADLOCK FALSE
INVARIANT SubmitsToPool
