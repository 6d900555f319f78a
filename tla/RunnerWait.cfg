SPECIFICATION FairRunner
CONSTANTS
  Clients = {c1, c2, c3}
  Stoppers = {}
  QueueSize = 1
PROPERTY
  WaitersProceed
CHECK_DEADLOCK FALSE
