SPECIFICATION FairSpec
CONSTANTS
  a = a
  b = b
  c = c
  f = f
  g = g
  NoTask = NoTask
  Task <- MCTask
  File <- MCFile
  Filp <- MCFilp
  Size <- MCSize
  NrEvents = 2
  MaxKeys = 5
INVARIANTS
  SemInv
  NoLostKey
  KeysInOrder
PROPERTIES
  LineEndsRead
CHECK_DEADLOCK FALSE
