SPECIFICATION Spec
CONSTANTS
  Keys = {k1, k2}
  Callers = {c1, c2}
  MaxID = 2
  SoftCap = 1
  HardCap = 2
SYMMETRY Symmetry
INVARIANTS
  WithinCapacity
  AdmittedInstanceLives
  OneBuildPerKey
CHECK_DEADLOCK FALSE
