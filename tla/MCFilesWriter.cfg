CONSTANTS
  Procs = {p1, p2}
  shell = p1
  Inodes = {1}
  Objects = {1, 2}
  MAX_FILE_OPEN = 5
  MAX_FILES_OPEN_PER_PROC = 5
  MaxOpens = 2
  Flags = {0, 1}
  StdFds = {1}
SPECIFICATION Spec
INVARIANT OneWriter
CHECK_DEADLOCK FALSE
