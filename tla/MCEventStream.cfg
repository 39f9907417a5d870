SPECIFICATION ResponseSpec
CONSTANTS
  t1 = t1
  t2 = t2
  ToolIds <- MCToolIds
  NoTool = NoTool
  Frames <- MCFrames
  MaxFrames = 4
INVARIANTS
  TypeOK
  InOrder
  BlocksNamed
  SameMessage
  StreamedAgain
PROPERTIES
  WellFormedStream
  ToolUseAfterTool
CHECK_DEADLOCK FALSE
