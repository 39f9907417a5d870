SPECIFICATION FairSpec
CONSTANTS
  Users = {u1, u2}
  p1 = p1
  p2 = p2
  p3 = p3
  Pids = {p1, p2, p3}
  Residents = {p3}
  Over <- ShortOverLong
  Ports = {n1}
  NoPid = NoPid
  NoPort = NoPort
  Absent = Absent
  Empty = Empty
INVARIANTS Findable
PROPERTIES SparesOthers StopEnds StartServes
