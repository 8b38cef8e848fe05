SPECIFICATION Spec
CONSTANTS
  NULL = NULL
  kernel = kernel
  init_pcb = init_pcb
  p1 = p1
  Procs <- MCProcs
  init_proc = init_pcb
  KernelPages = 13
  UserPages = 6
  UserVaddrs = 4
  TableSize = 2
  PG_SIZE = 3
  sizeof_arena = 1
  block_size <- MCblock_size
  btmp_bytes_len = 4
  Sizes <- MCSizes
  Images = {2}
  MaxMallocs = 3
INVARIANTS FramesOwned VaddrAgrees   PagesAccounted
CHECK_DEADLOCK FALSE
