CONSTANTS
  N = 2
  Urls <- PlainUrls
  Retries = 2
  MaxFailures = 2
  MaxFound = 1
  Jobs = {j1, j2}
  NoJob = NoJob
  NoPool = NoPool
  Healthy = {0, 1}
SPECIFICATION LiveSpec
PROPERTIES FailsOver ReturnsToPrimary
CHECK_DEADLOCK FALSE
