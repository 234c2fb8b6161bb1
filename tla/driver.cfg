CONSTANTS
  MaxCommands = 3
  MaxRows = 2
  SeqMod = 5
SPECIFICATION Spec
INVARIANTS
  TypeOK
  ClearOnlyWhenAllowed
  LoginCompletes
  AnswersMatch
  InSync
  WaitsForSomething
  ResultsAreTrue
CHECK_DEADLOCK FALSE
