SPECIFICATION Spec
CONSTANTS
  p = p
  q = q
  f1 = f1
  f2 = f2
  NULL = NULL
  Task <- MCTask
  init = p
  NrOpen = 2
  File <- MCFile
  Dentry <- MCDentry
  droot = "droot"
  sroot = "/"
  parent <- MCparent
  Inode <- MCInode
  inode <- MCinode
  Dir <- MCDir
  Dev <- MCDev
  Name <- MCName
  name <- MCname
  Begins <- MCBegins
  Calls <- MCCalls
  MaxRef = 8
  MaxDup = 3
  MaxFail = 1
INVARIANTS
  DentryCount
  CountsCover
  Jail
PROPERTIES
  ImplementsFdTable
