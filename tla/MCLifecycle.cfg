SPECIFICATION Spec
CONSTANTS
  Cleanups = {n1, n2}
  Tasks = {t1}
  Stoppers = {s1, s2}
  Publishers = {p1, p2}
  Closers = {c1, c2}
  Subscriptions = {h1, h2}
  QueueSize = 1
  Names = {a, b}
  Refreshers = {r1, r2}
  MaxEntries = 2
  MaxCalls = 3
PROPERTIES
  StopCallsReturn
  BusCloseReturns
  RoundEnds
CHECK_DEADLOCK FALSE
