SPECIFICATION Spec
CONSTANTS
  Paths = {p1, p2}
  DirOf <- OwnDirectories
  Contents = {c1}
  NoFile = NoFile
  Branches = {main, other}
  NoBranch = NoBranch
  Main = main
  MaxMessages = 2
  MaxChanges = 4
  OperatorWaits = TRUE
CHECK_DEADLOCK FALSE
INVARIANTS
  WorkIsKept
  BackMeansBack
PROPERTIES
  TakenOutOnlyOnceBack
SYMMETRY Alike
