SPECIFICATION FairSpec
CONSTANTS
  NULL = NULL
  idle_pcb = idle_pcb
  main_pcb = main_pcb
  init_pcb = init_pcb
  p1 = p1
  p2 = p2
  p3 = p3
  Threads <- MCThreads
  priority <- MCpriority
  idle_thread = idle_pcb
  main_thread = main_pcb
  init_proc = init_pcb
  MaxPid = 6
INVARIANTS NoPanic ProcessTable ParentInTable WaitNotMissed
PROPERTIES WaitReturns
