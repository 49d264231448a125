SPECIFICATION Spec
CONSTANTS
  a = a
  b = b
  c = c
  disk = disk
  Idle = idle
  InitTask = init
  NoTask = null
  Task <- MCTwoPrograms
  IoQueue = {disk}
  TimeSlice = 2
INVARIANT ArgcPassed
