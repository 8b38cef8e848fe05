------------------------------ MODULE Process -------------------------------
(***************************************************************************)
(* The life of processes: sys_fork, sys_wait and sys_exit, the process     *)
(* table and the pid pool.                                                 *)
(*                                                                         *)
(* init forks the shell and then waits forever; the shell forks and waits  *)
(* and never exits; a program does all three in any order.  Their system   *)
(* calls run with interrupts off, so other threads come in only where a    *)
(* call blocks: in sys_wait, in the last line of sys_exit, and where fork  *)
(* and exit take the lock of the kernel's memory pool.  That lock can be   *)
(* found taken only while main, the boot thread, is still alive: main runs *)
(* with interrupts on and can be preempted while it holds it.              *)
(***************************************************************************)
EXTENDS Sync, Sched

CONSTANT MaxPid   \* the size of the pid bitmap

ASSUME ProcessAssumption == MaxPid \in Nat /\ MaxPid >= 3

VARIABLES
  pool_lock,         \* the semaphore of kernel_pool.lock
  thread_all_list,
  pid, parent_pid,   \* fields of the PCBs
  pid_bitmap,        \* the pids that are taken
  child,             \* the PCB a thread inside sys_fork is filling in
  leaked,            \* PCBs of failed forks: they are not freed
  shell,             \* the PCB of the shell
  adopted,           \* history: the zombies that init was handed as such
  pc                 \* where each thread is

procTable == <<thread_all_list, pid, parent_pid, pid_bitmap>>
forkVars  == <<child, leaked, shell, adopted>>
vars      == <<sched, pool_lock, procTable, forkVars, pc>>

INIT_PID == 1
NoParent == 0    \* the parent_pid -1

Init ==
  /\ SchedInit
  /\ pool_lock = sema_init(1)
  /\ thread_all_list = <<init_proc, main_thread, idle_thread>>
  /\ pid = [t \in Threads |-> CASE t = init_proc -> INIT_PID
                                [] t = main_thread -> 2
                                [] t = idle_thread -> 3
                                [] OTHER -> 0]
  /\ parent_pid = [t \in Threads |-> NoParent]
  /\ pid_bitmap = 1 .. 3
  /\ child = [t \in Threads |-> NULL]
  /\ leaked = {} /\ shell = NULL /\ adopted = {}
  /\ pc = [t \in Threads |-> IF t = init_proc THEN "start" ELSE "user"]

At(t, label) == Up /\ sched.cur = t /\ pc[t] = label

Goto(t, label) == pc' = [pc EXCEPT ![t] = label]

Interruptible == pc[sched.cur] \in {"start", "user", "holding"}

Process(t) == t \notin {main_thread, idle_thread}

Alive(t) == elem_find(thread_all_list, t)

(***************************************************************************)
(* list_traversal returns the first element for which the callback is true *)
(* (the members of S), or NULL.                                            *)
(***************************************************************************)
list_traversal(list, S) ==
  IF \A i \in DOMAIN list : list[i] \notin S THEN NULL
  ELSE list[CHOOSE i \in DOMAIN list : list[i] \in S /\ \A j \in 1 .. (i - 1) : list[j] \notin S]

Children(p) == {t \in Threads : Alive(t) /\ parent_pid[t] = pid[p]}

Exited(p) == {t \in Children(p) : sched.status[t] = TASK_HANGING}

-----------------------------------------------------------------------------
(***************************************************************************)
(* get_kernel_pages and sys_free take the lock of the pool and give it     *)
(* back at once, unless main has it: then the caller sleeps and tries      *)
(* again.                                                                  *)
(***************************************************************************)
PoolWait ==
  LET r == sema_wait(sched, pool_lock) IN
    /\ pool_lock.value = 0
    /\ sched' = r.k /\ pool_lock' = r.s

pool_pass == LET r == sema_take(sched, pool_lock) IN sema_up(r.k, r.s)

MainLock ==
  LET r == sema_down(sched, pool_lock) IN
    /\ At(main_thread, "user")
    /\ sched' = r.k /\ pool_lock' = r.s
    /\ Goto(main_thread, "holding")
    /\ UNCHANGED <<procTable, forkVars>>

MainUnlock ==
  LET r == sema_up(sched, pool_lock) IN
    /\ At(main_thread, "holding")
    /\ sched' = r.k /\ pool_lock' = r.s
    /\ Goto(main_thread, "user")
    /\ UNCHANGED <<procTable, forkVars>>

MainExit ==
  /\ At(main_thread, "user")
  /\ sched' = thread_exit(sched, main_thread, TRUE)
  /\ thread_all_list' = list_remove(thread_all_list, main_thread)
  /\ pid_bitmap' = pid_bitmap \ {pid[main_thread]}
  /\ UNCHANGED <<pool_lock, pid, parent_pid, forkVars, pc>>

-----------------------------------------------------------------------------
(***************************************************************************)
(* sys_fork: the page of the child's PCB, a buffer page, the pid and the   *)
(* copy of the parent's PCB, then the memory for its address space; at     *)
(* last it becomes ready.  When memory runs out the call returns -1 and    *)
(* gives nothing back.                                                     *)
(***************************************************************************)
FreePcbs ==
  {c \in Threads \ (leaked \cup {main_thread}) :
     sched.status[c] = TASK_DIED /\ \A t \in Threads : child[t] # c}

FreePids == (1 .. MaxPid) \ pid_bitmap

\* Mutated: the bitmap is not looked at, so the first pid after the boot's is
\* handed out again.
allocate_pid_fixed == 4

allocate_pid == CHOOSE p \in FreePids : \A q \in FreePids : p <= q

CallFork(t) ==
  /\ Process(t)
  /\ At(t, IF t = init_proc THEN "start" ELSE "user")
  /\ Goto(t, "fork_pcb")
  /\ UNCHANGED <<sched, pool_lock, procTable, forkVars>>

InFork(t) == At(t, "fork_pcb") \/ At(t, "fork_buf") \/ At(t, "fork_copy")

ForkWaits(t) ==
  /\ InFork(t)
  /\ PoolWait
  /\ UNCHANGED <<procTable, forkVars, pc>>

ForkPcb(t) ==
  /\ At(t, "fork_pcb") /\ pool_lock.value # 0 /\ FreePcbs # {}
  /\ sched' = pool_pass.k /\ pool_lock' = pool_pass.s
  /\ child' = [child EXCEPT ![t] = CHOOSE c \in FreePcbs : TRUE]
  /\ Goto(t, "fork_buf")
  /\ UNCHANGED <<procTable, leaked, shell, adopted>>

ForkCopy(t) ==
  LET c == child[t] IN
    /\ At(t, "fork_buf") /\ pool_lock.value # 0
    /\ pool_lock' = pool_pass.s
    /\ IF FreePids = {}
         THEN /\ sched' = panic_spin(pool_pass.k)
              /\ UNCHANGED <<procTable, pc>>
         ELSE /\ sched' = pool_pass.k
              /\ pid' = [pid EXCEPT ![c] = allocate_pid]
              /\ parent_pid' = [parent_pid EXCEPT ![c] = pid[t]]
              /\ pid_bitmap' = pid_bitmap \cup {allocate_pid}
              /\ Goto(t, "fork_copy")
              /\ UNCHANGED thread_all_list
    /\ UNCHANGED forkVars

ForkDone(t) ==
  LET c == child[t] IN
    /\ At(t, "fork_copy") /\ pool_lock.value # 0
    /\ sched' = thread_start(pool_pass.k, c)
    /\ pool_lock' = pool_pass.s
    /\ thread_all_list' = Append(thread_all_list, c)
    /\ child' = [child EXCEPT ![t] = NULL]
    /\ shell' = IF t = init_proc THEN c ELSE shell
    /\ pc' = [pc EXCEPT ![t] = "user", ![c] = "user"]
    /\ UNCHANGED <<pid, parent_pid, pid_bitmap, leaked, adopted>>

ForkFails(t) ==
  /\ InFork(t) /\ pool_lock.value # 0
  /\ sched' = pool_pass.k /\ pool_lock' = pool_pass.s
  /\ leaked' = leaked \cup ({child[t]} \ {NULL})
  /\ child' = [child EXCEPT ![t] = NULL]
  /\ Goto(t, "user")
  /\ UNCHANGED <<procTable, shell, adopted>>

-----------------------------------------------------------------------------
(***************************************************************************)
(* sys_wait: one turn of its loop.                                         *)
(***************************************************************************)
CallWait(t) ==
  /\ At(t, "user") /\ Process(t)
  /\ Goto(t, "wait")
  /\ UNCHANGED <<sched, pool_lock, procTable, forkVars>>

\* Mutated: the caller sleeps with a status that sys_exit does not look for.
sys_wait_blocked(t) ==
  /\ At(t, "wait")
  /\ \E c \in {list_traversal(thread_all_list, Exited(t))} :
       IF c # NULL
         THEN /\ sched' = thread_exit(sched, c, FALSE)
              /\ thread_all_list' = list_remove(thread_all_list, c)
              /\ pid_bitmap' = pid_bitmap \ {pid[c]}
              /\ adopted' = adopted \ {c}
              /\ Goto(t, "user")
         ELSE /\ IF list_traversal(thread_all_list, Children(t)) = NULL
                   THEN Goto(t, "user") /\ UNCHANGED sched
                   ELSE sched' = thread_block(sched, TASK_BLOCKED) /\ UNCHANGED pc
              /\ UNCHANGED <<thread_all_list, pid_bitmap, adopted>>
  /\ UNCHANGED <<pool_lock, pid, parent_pid, child, leaked, shell>>

sys_wait(t) ==
  /\ At(t, "wait")
  /\ \E c \in {list_traversal(thread_all_list, Exited(t))} :
       IF c # NULL
         THEN /\ sched' = thread_exit(sched, c, FALSE)
              /\ thread_all_list' = list_remove(thread_all_list, c)
              /\ pid_bitmap' = pid_bitmap \ {pid[c]}
              /\ adopted' = adopted \ {c}
              /\ Goto(t, "user")
         ELSE /\ IF list_traversal(thread_all_list, Children(t)) = NULL
                   THEN Goto(t, "user") /\ UNCHANGED sched
                   ELSE sched' = thread_block(sched, TASK_WAITING) /\ UNCHANGED pc
              /\ UNCHANGED <<thread_all_list, pid_bitmap, adopted>>
  /\ UNCHANGED <<pool_lock, pid, parent_pid, child, leaked, shell>>

-----------------------------------------------------------------------------
(***************************************************************************)
(* sys_exit: the children go to init, the process's memory and files are   *)
(* released (closing the last descriptor of a file frees its inode, which  *)
(* takes the pool's lock), the parent is woken if it waits.                *)
(***************************************************************************)
\* Mutated: only the children that still run are handed over.
init_adopt_the_living(p) ==
  [t \in Threads |-> IF t \in Children(p) \ Exited(p) THEN INIT_PID ELSE parent_pid[t]]

init_adopt_a_child(p) ==
  [t \in Threads |-> IF t \in Children(p) THEN INIT_PID ELSE parent_pid[t]]

CallExit(t) ==
  /\ At(t, "user") /\ Process(t) /\ t \notin {init_proc, shell}
  /\ sched' = IF parent_pid[t] = NoParent THEN panic_spin(sched) ELSE sched
  /\ parent_pid' = init_adopt_a_child(t)
  /\ adopted' = adopted \cup Exited(t)
  /\ Goto(t, "exit")
  /\ UNCHANGED <<pool_lock, thread_all_list, pid, pid_bitmap, child, leaked, shell>>

ExitWaits(t) ==
  /\ At(t, "exit")
  /\ PoolWait
  /\ UNCHANGED <<procTable, forkVars, pc>>

pid2thread(p) == list_traversal(thread_all_list, {t \in Threads : pid[t] = p})

\* Mutated: the parent is woken whether or not it waits.
wake_parent_always(k, t) ==
  LET p == pid2thread(parent_pid[t]) IN
    IF p = NULL THEN panic_spin(k) ELSE thread_unblock(k, p)

\* Mutated: the parent is not woken.
wake_parent_never(k, t) ==
  IF pid2thread(parent_pid[t]) = NULL THEN panic_spin(k) ELSE k

wake_parent(k, t) ==
  LET p == pid2thread(parent_pid[t]) IN
    IF p = NULL THEN panic_spin(k)
    ELSE IF k.status[p] = TASK_WAITING THEN thread_unblock(k, p) ELSE k

sys_exit(t) ==
  \E frees_inode \in BOOLEAN :
    LET r == IF frees_inode THEN pool_pass ELSE [k |-> sched, s |-> pool_lock] IN
      /\ At(t, "exit")
      /\ frees_inode => pool_lock.value # 0
      /\ \E k \in {wake_parent(r.k, t)} : sched' = thread_block(k, TASK_HANGING)
      /\ pool_lock' = r.s
      /\ Goto(t, "user")
      /\ UNCHANGED <<procTable, forkVars>>

-----------------------------------------------------------------------------
idle ==
  /\ SchedIdle
  /\ UNCHANGED <<pool_lock, procTable, forkVars, pc>>

TimerTick ==
  /\ Interruptible /\ SchedTick
  /\ UNCHANGED <<pool_lock, procTable, forkVars, pc>>

Fork(t) ==
  ForkWaits(t) \/ ForkPcb(t) \/ ForkCopy(t) \/ ForkDone(t) \/ ForkFails(t)

Exit(t) == ExitWaits(t) \/ sys_exit(t)

Next ==
  \/ \E t \in Threads :
       CallFork(t) \/ Fork(t) \/ CallWait(t) \/ sys_wait(t) \/ CallExit(t) \/ Exit(t)
  \/ MainLock \/ MainUnlock \/ MainExit \/ idle \/ TimerTick

Spec == Init /\ [][Next]_vars

(***************************************************************************)
(* A system call runs with interrupts off, so the CPU carries it on until  *)
(* it returns or blocks; a pending timer interrupt is taken when user code *)
(* runs; main, given the CPU again and again, lets go of the lock, and     *)
(* init calls wait again.                                                  *)
(***************************************************************************)
FairSpec ==
  /\ Spec
  /\ WF_vars(idle) /\ SF_vars(TimerTick) /\ SF_vars(MainUnlock)
  /\ SF_vars(CallWait(init_proc))
  /\ WF_vars(\E t \in Threads : Fork(t) \/ sys_wait(t) \/ Exit(t))

-----------------------------------------------------------------------------
(***************************************************************************)
(* No ASSERT fails, no exiting process finds its parent missing, and the   *)
(* pids do not run out while there are as many of them as PCB pages.       *)
(***************************************************************************)
NoPanic == Up

(***************************************************************************)
(* The process table: thread_all_list holds the PCBs that are in use, once *)
(* each; no two of them, nor a PCB that a fork is filling in, share a pid; *)
(* and every such pid is marked in the bitmap.  A pid that release_pid     *)
(* gave back too early would be handed out twice.                          *)
(***************************************************************************)
InUse(t) == Alive(t) \/ \E u \in Threads : child[u] = t /\ pc[u] = "fork_copy"

ProcessTable ==
  Up => /\ SchedOK(sched) /\ Distinct(thread_all_list)
        /\ \A t \in Threads : Alive(t) <=> sched.status[t] # TASK_DIED
        /\ \A t \in Threads : InUse(t) => pid[t] \in pid_bitmap
        /\ \A t, u \in Threads : InUse(t) /\ InUse(u) /\ pid[t] = pid[u] => t = u

(***************************************************************************)
(* Nobody is orphaned: every process has a parent in the table that has    *)
(* not begun to exit, so someone can still reap it and sys_exit always     *)
(* finds the thread to wake.  A fork that sleeps in the middle, a parent   *)
(* that exits while its child sleeps in sys_exit, and the reuse of PCBs    *)
(* and pids must not break this.                                           *)
(***************************************************************************)
ParentInTable ==
  Up => \A t \in Threads : InUse(t) /\ t \notin {init_proc, main_thread, idle_thread} =>
          \E p \in Threads : /\ Alive(p) /\ pid[p] = parent_pid[t]
                             /\ sched.status[p] # TASK_HANGING /\ pc[p] # "exit"

(***************************************************************************)
(* A parent asleep in sys_wait has a child to wait for and none of its     *)
(* children has exited: sys_exit wakes it before it becomes a zombie, so   *)
(* the wake-up is not missed.  The one exception is a zombie whose parent  *)
(* exits: sys_exit hands it to init and does not wake init.                *)
(***************************************************************************)
WaitNotMissed ==
  Up => \A t \in Threads : sched.status[t] = TASK_WAITING =>
          /\ pc[t] = "wait" /\ Children(t) # {}
          /\ Exited(t) \subseteq adopted

(***************************************************************************)
(* A parent in sys_wait that has an exited child comes back from it, init  *)
(* also, unless it has only zombies that were handed to it as such.        *)
(***************************************************************************)
WaitReturns ==
  \A t \in Threads \ {main_thread, idle_thread} :
    (Alive(t) /\ pc[t] = "wait" /\ ~(Exited(t) \subseteq adopted)) ~> pc[t] # "wait"
=============================================================================
