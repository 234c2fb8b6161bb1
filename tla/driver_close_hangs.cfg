CONSTANTS
  MaxCommands = 2
  MaxRows = 0
  SeqMod = 5
SPECIFICATION FairSession
PROPERTIES
  CloseReturns
CHECK_DEADLOCK FALSE
