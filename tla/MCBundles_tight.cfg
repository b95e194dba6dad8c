SPECIFICATION Spec
CONSTANTS
  DispatchWidth = 2
  FrontSize = 2
  FreeListSize = 2
  NBranches = 2
  NActive = 2
  VpqSize = 2
  Kinds <- AllKinds
INVARIANTS
  TypeOK
  PayloadInStep
  NothingBehindSerializing
PROPERTY
  RetirementGoesOn
