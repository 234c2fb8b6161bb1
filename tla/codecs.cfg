SPECIFICATION Spec
CHECK_DEADLOCK FALSE
CONSTANTS
  Char <- SmallChar
  Letter <- SmallLetter
  TextRows <- SmallTextRows
  BinaryRows <- SmallBinaryRows
  Executions <- SmallExecutions
  Queries <- SmallQueries
  DateColumns <- SmallDateColumns
  TimeColumns <- SmallTimeColumns
  Configs <- SmallConfigs
  Chats <- SmallChats
INVARIANTS
  RowsIntact
  ArgumentsArrive
  TemporalsIntact
  DsnRoundTrip
  FieldsIntact
