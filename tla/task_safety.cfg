CONSTANTS
  N = 2
  Checked = TRUE
  ReviewWanted = TRUE
  ContinueOnFailure = TRUE
  Gap = TRUE
  MaxIterations = 2
  MaxFormatRetries = 0
  MaxEarlyBlocks = 0
  MaxCheckRounds = 1
  MaxReviewRounds = 1
  MaxReviewIterations = 1
  UploadRetries = 1
  RetryBlocked = 1
  AutoContinue = 1
  MaxSteps = 1
  MaxFaults = 1
  MaxPauses = 1
  MaxNotes = 0
SPECIFICATION Spec
INVARIANTS
  AtMostOneAfterStop
  ActiveIsAtWork
  AttemptsBounded
  DoneIsEarned
CHECK_DEADLOCK FALSE
