SPECIFICATION Spec
CONSTANTS
  p = p
  q = q
  r = r
  f1 = f1
  NULL = NULL
  Task <- MCTask
  init = p
  NrOpen = 1
  File = {f1}
  Dentry <- MCDentry
  droot = "droot"
  sroot = "/"
  parent <- MCparent
  Inode <- MCInode
  inode <- MCinode
  Dir = {"iroot", "i1"}
  Dev = {}
  Name <- MCName
  name <- MCname
  Begins <- MCBegins
  Calls <- MCCalls
  MaxRef = 10
  MaxDup = 1
  MaxFail = 2
INVARIANTS
  NeverBug
CHECK_DEADLOCK FALSE
