SPECIFICATION FairDelivery
CONSTANTS
  Messages = {m1}
  Handlers = {h1, h2}
  MaxRetries = 2
  MaxAttempts = 2
  MaxLosses = 0
  MaxCrashes = 1
PROPERTY
  RestartLosesNothing
CHECK_DEADLOCK FALSE
