SPECIFICATION Spec
CONSTANTS
  r1 = r1
  r2 = r2
  c1 = c1
  c2 = c2
  Requests <- MCRequests
  Refreshers = {}
  TokenLen <- MCTokenLen
PROPERTY ShutdownDrains
CHECK_DEADLOCK FALSE
