SPECIFICATION FairSpec
CONSTANTS
  c1 = c1
  c2 = c2
  Containers <- MCContainers
  Labels <- MCLabels
  Ports = {8080, 8081}
  Mapping <- MCMapping
  Unmapped = Unmapped
  Posts = {post}
  Loop = loop
INVARIANTS
  FoundStays
PROPERTIES
  Regular
  Reflects
