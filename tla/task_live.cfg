CONSTANTS
  N = 1
  Checked = FALSE
  ReviewWanted = TRUE
  ContinueOnFailure = FALSE
  Gap = TRUE
  MaxIterations = 1
  MaxFormatRetries = 1
  MaxEarlyBlocks = 1
  MaxCheckRounds = 1
  MaxReviewRounds = 1
  MaxReviewIterations = 1
  UploadRetries = 1
  RetryBlocked = 1
  AutoContinue = 1
  MaxSteps = 1
  MaxFaults = 1
  MaxPauses = 1
  MaxNotes = 1
SPECIFICATION FairSpec
PROPERTIES
  StopEnds
  RunEnds
CHECK_DEADLOCK FALSE
