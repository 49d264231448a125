SPECIFICATION MCSpec
CONSTANTS
  a = a
  b = b
  c = c
  disk = disk
  Idle = idle
  InitTask = init
  NoTask = null
  Task <- MCThreePrograms
  IoQueue = {}
  TimeSlice = 1
PROPERTIES
  RunnableRuns
  WaitPidReturns
  InitReaps
