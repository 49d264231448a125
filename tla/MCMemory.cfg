SPECIFICATION MCSpec
CONSTANTS
  NrPages = 9
  MaxOrder = 3
  Size <- MCSize
  Frames = {10, 20}
  MapOrders = {1}
  Sizes = {3}
  LowPages = {1, 2, 3}
  PageSize = 24
  HeadSize = 4
  ObjSize = 2
  KMALLOC_MAX_ORDER = 2
  ClassSize <- MCClassSize
  Requests = {3, 8, 12, 16, 40}
  Task = {1, 2}
  High = {1, 2, 3, 4}
  Normal = {11, 12, 13, 14, 15, 16}
  Top = 8
  PerTable = 4
  Lengths = {1}
  Nil = Nil
INVARIANTS
  Tiling
  FlagsAgree
  FullyMerged
  PiecesDisjoint
  MappingAgrees
  PagesAccounted
  ZonesCover
PROPERTIES
  ImplementsPromise
