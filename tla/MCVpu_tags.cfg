SPECIFICATION Spec
CONSTANTS
  PCs <- TwoTags
  SvpSize = 1
  TagSpace = 2
  ConfMax = 1
  VpqSize = 2
  ValueSpace = 2
  Modes = {"svp", "oracle", "perf"}
  MaxInFlight = 3
INVARIANTS
  TypeOK
  VpqLockstep
  CheckpointsSplitVpq
  TrainsWithOwnResult
  InstCountExact
