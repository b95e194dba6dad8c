SPECIFICATION Spec
CONSTANTS
  NumberFuTypes = 2
  MaxWidth = 3
  Matrices <- FullMatrices
  Latencies <- AllLatencies
  MdpModels = {0, 1, 2, 3, 4, 5, 6, 7}
  CtrValues = {0, 63}
  TableSizes = {1, 2}
  DefaultSize = 4
  MaxMdpOptions = 2
  MaxSteered = 3
INVARIANTS
  Balanced
  SingleLatency
  PrintedIsBuilt
CHECK_DEADLOCK FALSE
