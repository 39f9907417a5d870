SPECIFICATION PayloadSpec
CONSTANTS
  Ids = {"t1", "t2"}
  NoId = ""
  MaxToolDescLen = 150
  MaxCompressed = 3
  HeadroomOwn <- MCHeadroomOwn
  MaxPayloadBytes = 600
  AnthropicRequests <- MCAnthropicRequests
INVARIANTS
  CurrentIsNewest
  NewestKept
  Paired
  FitsOrBare
  NothingNeedless
PROPERTY RetryHasNoMore
CHECK_DEADLOCK FALSE
