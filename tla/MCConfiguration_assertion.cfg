SPECIFICATION Spec
CONSTANTS
  NumberFuTypes = 2
  MaxWidth = 2
  Matrices <- FullMatrices
  Latencies <- AllLatencies
  MdpModels = {0}
  CtrValues = {0}
  TableSizes = {1}
  DefaultSize = 4
  MaxMdpOptions = 1
  MaxSteered = 2
INVARIANT
  UnitFound
CHECK_DEADLOCK FALSE
