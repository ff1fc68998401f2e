\* Two processes below the shell; every clock at the least that lets the others go first.
SPECIFICATION FairSpec
CONSTANTS
  Shell = Shell
  Kids = {k1, k2}
  IdleLimit = 2
  HardLimit = 3
  Ceiling = 1
  QuietBefore = 1
  LookIsAtOnce = TRUE
  WindowsAreSeen = TRUE
CHECK_DEADLOCK FALSE
INVARIANTS
  ResultIsTrue
  LeftIsStopped
PROPERTIES
  HungIsSilent
  StepEnds
