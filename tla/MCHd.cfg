SPECIFICATION MCSpec
CONSTANTS
  p = p
  q = q
  r = r
  Task <- MCTask
  Sectors = 3
  Direct = 2
  Per = 2
  MINIX_BLOCK_SIZE = 2
  Ratio = 2
  DENTRIES_PER_BLOCK = 2
  Files <- MCFiles
  Positions <- MCPositions
  Counts <- MCCounts
  Directories <- MCDirectories
  Names <- MCNames
INVARIANTS
  OneRequest
  BlockComplete
  NoStrandedWaiter
  ReadsFile
PROPERTIES
  RequestsServed
