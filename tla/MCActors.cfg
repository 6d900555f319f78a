SPECIFICATION MCSpec
CONSTANTS
  Messages = {m1, m2, m3, m4}
  MaxGen = 2
  Cap = 2
  LaneCap = 2
  MaxRestarts = 2
  MaxHigh = 3
  MaxNonLow = 6
  Clients = {1, 2, 3}
  Stoppers = {11, 12}
  QueueSize = 1
INVARIANTS
  Conservation
  GenerationsApart
  WaitBounded
  FifoConservation
  ResultTruthful
PROPERTIES
  StopCompletes
  AcceptedResolved
  AdmittedRuns
CHECK_DEADLOCK FALSE
