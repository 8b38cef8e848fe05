SPECIFICATION FairSpec
CONSTANTS
  NULL = NULL
  idle_pcb = idle_pcb
  p1 = p1
  p2 = p2
  Threads <- MCThreads
  priority <- MCpriority
  idle_thread = idle_pcb
  first = p1
  others <- MCothers
  bufsize = 3
  Readers <- Both
INVARIANTS InOrder
PROPERTIES KeyIsRead
