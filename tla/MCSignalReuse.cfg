SPECIFICATION Spec
CONSTANTS
  a = a
  b = b
  c = c
  p = p
  q = q
  NoTask = null
  Task <- MCThree
  Context <- MCOnePoint
  Used = {1, 3}
INVARIANT KthreadClean
CHECK_DEADLOCK FALSE
