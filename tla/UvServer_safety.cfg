SPECIFICATION FairSpec
CONSTANTS
  c1 = c1
  c2 = c2
  Conns <- MCConns
  Pipelining <- MCPipelining
  Streams <- MCStreams
  AcceptResults = {TRUE, FALSE}
  Strict = FALSE
  MaxStops = 2
CHECK_DEADLOCK FALSE
INVARIANTS
  CallbacksSeeLiveMemory
  HeapAccounting
  LockStepAnswered
  CloseTwiceNeedsRace
PROPERTIES
  ShutsDownOnlyWhenAsked
  ImplementsConnections
  CloseRequestHonoured
  StopTakesEffect
