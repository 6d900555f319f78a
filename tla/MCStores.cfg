SPECIFICATION MCSpec
CONSTANTS
  Messages = {m1}
  Requests = {r1, r2}
  Clients = {c1, c2}
  Handlers = {h1, h2, h3}
  MaxRetries = 2
  MaxAttempts = 2
SYMMETRY Symmetry
INVARIANTS
  NilMeansDone
  OneOwner
PROPERTIES
  ImplementsMemoryOutbox
  ProcessedMeansDone
