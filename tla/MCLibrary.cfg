SPECIFICATION MCSpec
CONSTANTS
  h1 = h1
  h2 = h2
  e1 = e1
  e2 = e2
  e3 = e3
  NULL = NULL
  LOST = LOST
  Heads <- MCHeads
  Entry <- MCEntry
  Handler <- MCHandler
  NrLists = 2
  Expires <- MCExpires
  CallTimes <- MCTimes
  MaxJiffies = 6
INVARIANTS
  RingInv
  NoMissedTimer
  NoDrift
  CallTimesPeriodic
  LibraryExact
PROPERTIES
  ImplementsLists
SYMMETRY MCSymmetry
CHECK_DEADLOCK FALSE
