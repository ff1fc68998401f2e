SPECIFICATION FairSpec
CONSTANTS
  maxIterations = 2
  maxFormatRetries = 1
  maxSubtasks = 1
  maxAttempts = 2
  Modes = {"ask", "again", "lead"}
  CanAsk = {TRUE, FALSE}
  MaxRuns = 2
  MaxPauses = 1
CHECK_DEADLOCK FALSE
INVARIANTS
  NoAttemptLeftRunning
  NotRetriedUnasked
  FolderIsAsTold
  AtMostTwoAfterStop
PROPERTIES
  StopEnds
  MessageEnds
