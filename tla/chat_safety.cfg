SPECIFICATION Spec
CONSTANTS
  Texts = {"round one", "round two"}
  HeadOf <- Heads
  Hour = 5
  Gap = {2}
  maxMessagesPerHour = 2
  maxAttempts = 3
  ClicksLandInTime = TRUE
  MaxMessages = 3
  MaxBlockers = 1
  MaxTime = 7
CHECK_DEADLOCK FALSE
INVARIANTS
  SentOnce
  ReplyIsToTheMessage
  GapIsKept
  EachPacerKeepsTheCap
