SPECIFICATION MCSpec
CONSTANTS
  N = 3
  Callers = {c1, c2, c3}
  Strangers = {s1}
  Messages = {m1}
  Handlers = {h1, h2}
  MaxRetries = 2
  MaxAttempts = 3
  MaxLosses = 1
  MaxCrashes = 2
INVARIANTS
  OutcomeTruthful
  NoOrphanPrepared
  EffectOnce
PROPERTIES
  ImplementsAtomicCommit
  PreparedResolved
  EveryMessageResolved
