SPECIFICATION FairSpec
CONSTANTS
  r1 = r1
  r2 = r2
  c1 = c1
  c2 = c2
  Requests <- MCOneRequest
  Refreshers <- MCRefreshers
  TokenLen <- MCTokenLen
INVARIANTS
  HonestReply
  WholeTokens
  FreshAfterRefresh
  FileReadable
PROPERTY Answered
CHECK_DEADLOCK FALSE
