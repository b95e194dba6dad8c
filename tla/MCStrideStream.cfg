SPECIFICATION StreamSpec
CONSTANTS
  PCs <- TwoPCs
  SvpSize = 1
  TagSpace = 2
  ConfMax = 2
  VpqSize = 2
  ValueSpace = 4
  Modes = {"svp"}
  MaxInFlight = 3
  Streams <- SingleAndPairedStreams
INVARIANT
  ConfidentPredictionExact
PROPERTY
  StrideLearned
