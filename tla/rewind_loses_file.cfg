SPECIFICATION Spec
CONSTANTS
  Paths = {p1, p2}
  DirOf <- OneDirectory
  Contents = {c1}
  NoFile = NoFile
  Branches = {main, other}
  NoBranch = NoBranch
  Main = main
  MaxMessages = 1
  MaxChanges = 4
  OperatorWaits = TRUE
CHECK_DEADLOCK FALSE
INVARIANTS
  NothingIsLost
