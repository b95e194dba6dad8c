SPECIFICATION FairSpec
CONSTANTS
  CodeLength = 3
  BranchTarget = 0
  TrapVector = 2
  Programs <- LivePrograms
  Predictors <- LivePredictors
  MaxInFlight = 3
PROPERTY
  Progress
