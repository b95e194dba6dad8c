SPECIFICATION Spec
CONSTANTS
  CodeLength = 3
  BranchTarget = 0
  TrapVector = 2
  Programs <- AllPrograms
  Predictors <- AllPredictors
  MaxInFlight = 3
INVARIANTS
  TypeOK
  OldestOnPath
  OracleNeverMispredicts
PROPERTIES
  Precise
  WrongValuesSquashed
