SPECIFICATION FairSpec
CONSTANTS
  c1 = c1
  c2 = c2
  Conns <- MCConns
  Pipelining <- MCPipelining
  Streams <- MCStreamsStop
  AcceptResults = {TRUE}
  Strict = TRUE
  MaxStops = 1
CHECK_DEADLOCK FALSE
PROPERTY StopReturns
