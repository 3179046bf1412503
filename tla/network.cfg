CONSTANTS
  Urls <- MCUrls
  MaxFailures = 1
  MaxFound = 1
  Jobs = {j1, j2}
  NoJob = NoJob
  NoOwner = NoOwner
SPECIFICATION LiveSpec
CHECK_DEADLOCK FALSE
INVARIANTS TypeOK MinesInTurn DonationEnds KeepsTrying
PROPERTIES PoolWorks
