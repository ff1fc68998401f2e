SPECIFICATION FairSpec
CONSTANTS
  N = 2
  Press = {p1}
  Start <- AllListed
  Parks = TRUE
  EditKinds <- AnyEdit
  AgainFrom <- AnyEnd
  MaxEdits = 1
  MaxAsks = 1
  MaxCrashes = 0
  Free = Free
  Other = Other
  NoPress = NoPress
  NoChat = NoChat
INVARIANTS
  ParkedCanBeAnswered
PROPERTIES
  StopEndsTheLoop
  NoCardHoldsTheQueue
  QueueRunsDry
