SPECIFICATION MCSpec
CONSTANTS
  Handles = {1, 2}
  Callers = {c1}
  Tokens = {t1}
  MaxLate = 1
  Owners = {"a", "b"}
  MaxRev = 5
INVARIANTS
  ViewExact
PROPERTIES
  WritesInEpochOrder
  LossNoticed
CHECK_DEADLOCK FALSE
