SPECIFICATION Spec
CONSTANTS
  NLog = 1
  PhysRegs = {p1, p2, p3}
  NBranches = 2
  NActive = 2
  BundleSize = 1
  Kinds <- AllKinds
SYMMETRY RegisterSymmetry
INVARIANTS
  TypeOK
  RegistersConserved
  FreeListInOrder
  MapsPrecise
  BranchMasksExact
  ActiveListInStep
PROPERTY
  ImplementsRenamerSpec
