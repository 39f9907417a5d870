SPECIFICATION FairSpec
CONSTANTS
  p1 = p1
  p2 = p2
  Nobody = nobody
  Callers <- MCCallers
  MaxStarts = 2
INVARIANTS
  NoPanic
  NoOrphan
  ExitNoticed
PROPERTIES
  StopStops
  CallsReturn
  ChildrenEnd
CHECK_DEADLOCK FALSE
