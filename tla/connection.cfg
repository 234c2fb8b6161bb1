SPECIFICATION ConnSpec
CONSTANTS
  Conns = {c1, c2}
  MaxCalls = 2
  Retries = 1
  FaultyCalls = {1}
  Background = background
INVARIANTS
  ConnTypeOK
  CancelsOwnCall
  ClosedOnce
  AtMostOnce
  TellsCancellation
PROPERTIES
  CancelledReturns
  WatchersEnd
CHECK_DEADLOCK FALSE
