SPECIFICATION Spec
CONSTANTS
  LogRegs = {r1}
  PhysRegs = {p1, p2, p3, p4}
  ValueSpace = 2
  Kinds <- TwoLatencies
  MaxInFlight = 3
SYMMETRY RegisterSymmetry
INVARIANTS
  TypeOK
  WrongOperandsAreSpeculative
  WakeupsExact
PROPERTY
  CommitsSequentially
