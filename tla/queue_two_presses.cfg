SPECIFICATION Spec
CONSTANTS
  N = 2
  Press = {p1, p2}
  Start <- AllListed
  Parks = TRUE
  EditKinds <- SafeEdits
  AgainFrom <- NotDone
  MaxEdits = 0
  MaxAsks = 0
  MaxCrashes = 0
  Free = Free
  Other = Other
  NoPress = NoPress
  NoChat = NoChat
INVARIANTS
  OneTaskAtATime
