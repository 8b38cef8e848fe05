SPECIFICATION FairSpec
CONSTANTS
  NULL = NULL
  idle_pcb = idle_pcb
  main_pcb = main_pcb
  p1 = p1
  idle_thread = idle_pcb
  first = main_pcb
  Preemptible <- MCPreemptible
  Threads <- MCThreads
  priority <- MCpriority
  others <- MCothers
  MaxCommands = 2
  TimeLimit = 3
INVARIANTS PanicsOnlyOnTimeout DataIsOwn DoneMeansDone
PROPERTIES DiskWakes BusyWaitEnds
CHECK_DEADLOCK FALSE
