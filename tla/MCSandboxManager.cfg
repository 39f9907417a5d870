SPECIFICATION FairSpec
CONSTANTS
  p1 = p1
  p2 = p2
  a = a
  b = b
  Healer = healer
  Nobody = nobody
  Callers <- MCCallers
  Ids <- OneId
  MaxSandboxes = 2
INVARIANTS
  ContainerExists
  NoLeak
PROPERTIES
  DestroyedForGood
  CallsReturn
