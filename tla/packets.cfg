SPECIFICATION Spec
CONSTANTS
  MaxPacket = 3
  DefaultSize = 2
  MaxCached = 2
  Answers <- SmallAnswers
  Commands <- SmallCommands
  MaxAnswers = 2
INVARIANTS
  TypeOK
  RowIntact
  InStep
  WrittenAsFramed
CHECK_DEADLOCK FALSE
