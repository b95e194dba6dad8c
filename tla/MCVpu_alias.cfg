SPECIFICATION Spec
CONSTANTS
  PCs <- AliasedTags
  SvpSize = 1
  TagSpace = 2
  ConfMax = 1
  VpqSize = 2
  ValueSpace = 2
  Modes = {"svp"}
  MaxInFlight = 3
INVARIANT
  InstCountExact
