CONSTANTS
  SECTOR_SIZE = 3
  MAX_FILES_PER_PART = 3
  INODE_SIZE = 1
  SEC_CNT = 13
  DIRECT = 2
  INDIRECT = 2
  ENTRIES = 2
  MaxBytes = 12
  NoData = NoData
  Paths <- MCPaths
  Counts <- MCCounts
SPECIFICATION Spec
INVARIANTS    DirectoriesRead
PROPERTY ImplementsTree
CHECK_DEADLOCK FALSE
