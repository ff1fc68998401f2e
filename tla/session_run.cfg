SPECIFICATION FairSpec
INVARIANTS
  NobodyLeftAsked
  LockIsKept
PROPERTIES
  GoesByItsRules
  StopEnds
