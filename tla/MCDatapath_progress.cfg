SPECIFICATION FairSpec
CONSTANTS
  LogRegs = {r1}
  PhysRegs = {p1, p2, p3}
  ValueSpace = 2
  Kinds <- SlowLoadsAndBranches
  MaxInFlight = 2
PROPERTIES
  CommitsSequentially
  RetirementGoesOn
