SPECIFICATION FairSpec
CONSTANTS
  a = a
  b = b
  c = c
  p = p
  q = q
  NoTask = null
  Task <- MCTask
  Context <- MCContext
  Used = {3, 4}
INVARIANTS
  OneFrame
PROPERTIES
  HandlerRuns
  SignalConsumed
CHECK_DEADLOCK FALSE
