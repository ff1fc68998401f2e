SPECIFICATION Spec
CONSTANTS
  N = 2
  Press = {p1}
  Start <- AllButTheLast
  Parks = TRUE
  EditKinds <- ListEdits
  AgainFrom <- NotDone
  MaxEdits = 2
  MaxAsks = 1
  MaxCrashes = 2
  Free = Free
  Other = Other
  NoPress = NoPress
  NoChat = NoChat
INVARIANTS
  NeedsDone
  OneTaskAtATime
  RunningHasItsLoop
  CardAndAnswerKept
  RunHoldsTheBrowser
PROPERTIES
  ImplementsQueueLife
