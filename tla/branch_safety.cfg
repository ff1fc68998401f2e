SPECIFICATION Spec
CONSTRAINT AnyThree
SYMMETRY TaskSymmetry
CONSTANTS
  Tasks = {t1, t2}
  NoTask = NoTask
  Files = {"old", "extra"}
  OnRecord = {"old"}
  MaxChanges = 2
  MaxMoves = 1
  MaxCrashes = 1
  HandsOff = {"head", "edits", "copy"}
CHECK_DEADLOCK FALSE
INVARIANTS
  CommitsAreItsOwn
PROPERTIES
  DoneIsCommitted
  NothingIsDropped
