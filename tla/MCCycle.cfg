SPECIFICATION FairSpec
CONSTANTS
  CounterSize = 8
  RetireWidth = 4
  CallerLimits = {1, 4, 9}
  StopAmount = 10
  BeatCycles = 3
  MaxCommits = 12
INVARIANTS
  TypeOK
  CountsAgree
  WithinLimit
  InterruptPrompt
  OneMoreThanStop
PROPERTIES
  TimerExact
  HangReported
CHECK_DEADLOCK FALSE
