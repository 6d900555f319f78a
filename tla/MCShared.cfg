SPECIFICATION Spec
CONSTANTS
  Locks = {1, 2}
  Managed = {}
  MaxAcquire = 2
  RetryCount = 1
  MaxFailures = 1
  MaxApp = 2
  Callers = {k1, k2}
  Completers = {p1, p2}
  Ids = {1, 2}
  Policies <- MCPolicies
  N = 3
  MaxCalls = 3
  Entities = {1, 2, 3}
  Xs = {0, 1, 3, 5}
  Ys = {0, 3}
  mapWidth = 5
  mapHeight = 3
  gridWidth = 2
  gridHeight = 2
  Writers = {w1, w2, w3}
  BufferSize = 2
INVARIANTS
  LockLossNotMissed
  WaiterServed
  ClosedInOrder
  ViewsExact
  ClosePersists
PROPERTIES
  WritesInTokenOrder
  SessionAgreed
CHECK_DEADLOCK FALSE
