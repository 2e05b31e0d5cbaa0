CONSTANTS
  w1 = w1  w2 = w2  w3 = w3
  Names <- MCNames
  Versions <- MCVersions
  Writers = {w1, w2, w3}
  Calls <- ServerCalls
  Process <- OneProcess
  InitDBs <- AbsentOrPresent
  Signed = TRUE
  MaxAttempts = 2
  MaxFailures = 2
SYMMETRY Interchangeable
SPECIFICATION Spec
INVARIANT FilesFollowDatabase
CHECK_DEADLOCK FALSE
