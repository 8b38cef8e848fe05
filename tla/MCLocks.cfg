SPECIFICATION FairSpec
CONSTANTS
  NULL = NULL
  idle_pcb = idle_pcb
  main_pcb = main_pcb
  p1 = p1
  p2 = p2
  Threads <- MCThreads
  priority <- MCpriority
  idle_thread = idle_pcb
  Preemptible <- MCPreemptible
  MaxDepth = 2
  first = main_pcb
  others <- MCothers
INVARIANT NoPanic
PROPERTIES ImplementsMutex HandedOn
