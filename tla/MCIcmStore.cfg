SPECIFICATION Spec
CONSTANTS
  k1 = k1
  k2 = k2
  v1 = v1
  v2 = v2
  r1 = r1
  r2 = r2
  c1 = c1
  Absent = absent
  Keys <- MCKeys
  Values <- MCValues
  Requests <- MCRequests
  Commands = {c1}
  MaxCalls = 4
SYMMETRY MCSymmetry
INVARIANTS
  RestartFindsAll
  FileParses
