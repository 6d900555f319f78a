SPECIFICATION Spec
CONSTANTS
  Reliable = {r1, r2}
  BestEffort = {b1}
  Frames = {f1, f2}
  CoalesceKeys = {1, 2}
  Capacity = 2
  ChanSize = 1
  MaxPackets = 3
  MaxSends = 2
  Closers = {c1}
  Conns = {1, 2}
  MaxClientCount = 1
  Shutdowns = {s1, s2}
  MaxSessions = 3
  MaxReconnectTimes = 2
  AppConnects = 2
INVARIANTS
  QueueExact
  RemovedOnce
PROPERTIES
  PacketsResolved
  SessionEnds
  ShutdownReturns
  LossRecovered
CHECK_DEADLOCK FALSE
