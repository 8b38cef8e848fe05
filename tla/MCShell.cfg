CONSTANTS
  Chars = {"a", " ", "|"}
  MAX_PATH_LEN = 7
  MAX_ARG_NR = 2
  PathArgs <- MCPathArgs
  Dirs <- MCDirs
SPECIFICATION Spec
INVARIANTS LineEdited CommandsRun CdResolves
CHECK_DEADLOCK FALSE
