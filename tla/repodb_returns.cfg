CONSTANTS
  w1 = w1  w2 = w2  w3 = w3
  Names <- MCNames
  Versions <- MCVersions
  Writers = {w1, w2, w3}
  Calls <- OneAdd
  Process <- TwoServers
  InitDBs <- Absent
  Signed = FALSE
  MaxAttempts = 2
  MaxFailures = 0
SPECIFICATION FairSpec
PROPERTY EveryCallReturns
CHECK_DEADLOCK FALSE
