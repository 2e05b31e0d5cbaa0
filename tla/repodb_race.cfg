CONSTANTS
  w1 = w1  w2 = w2  w3 = w3
  Names <- MCNames
  Versions <- MCVersions
  Writers = {w1, w2}
  Calls <- RaceCalls
  Process <- OwnProcess
  InitDBs <- Started
  Signed = FALSE
  MaxAttempts = 2
  MaxFailures = 2
SYMMETRY Interchangeable
SPECIFICATION Spec
INVARIANT AnswersAreTrue
PROPERTY AppearsAtomic
CHECK_DEADLOCK FALSE
