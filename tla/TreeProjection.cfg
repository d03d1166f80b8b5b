SPECIFICATION TSpec
CONSTANTS
  Dirs <- SmallDirs
  Kids <- SmallKids
  Root = 1
  PageSize = 2
  MaxPages = 2
  Jump = 2
  MaxItems = 10
  MaxOps = 2
INVARIANTS CacheBounded ListIsTree RowsAreCurrent LoadingIsAwaited
CHECK_DEADLOCK FALSE
