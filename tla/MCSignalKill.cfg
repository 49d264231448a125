SPECIFICATION Spec
CONSTANTS
  a = a
  b = b
  c = c
  p = p
  q = q
  NoTask = null
  Task <- MCTask
  Context <- MCContext
  Used = {1, 3}
PROPERTY KillNotIgnored
CHECK_DEADLOCK FALSE
