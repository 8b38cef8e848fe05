------------------------------- MODULE Thread -------------------------------
(***************************************************************************)
(* The scheduler of thread/thread.c as operators on its state.             *)
(*                                                                         *)
(* The kernel runs on one CPU and every routine below runs with interrupts *)
(* off, so each is one step.  A scheduler state k is a record:             *)
(*                                                                         *)
(*   status  the status field of every PCB; a PCB that is not allocated    *)
(*           (not created yet, or reclaimed by thread_exit) is TASK_DIED   *)
(*   ready   thread_ready_list, head first                                 *)
(*   cur     running_thread()                                              *)
(*   ticks   what is left of each thread's time slice                      *)
(*   cpu     "up", or "panic" once an ASSERT has failed: panic_spin turns  *)
(*           interrupts off and loops, so nothing happens afterwards       *)
(*                                                                         *)
(* The operators compose the way the C calls do: a handler that calls      *)
(* thread_unblock and then thread_block is                                 *)
(*   thread_block(thread_unblock(k, p), stat).                             *)
(***************************************************************************)
EXTENDS List

CONSTANTS
  Threads,       \* the PCBs
  idle_thread,   \* the PCB of the idle thread
  priority       \* the length of each thread's time slice, in ticks

ASSUME ThreadAssumption ==
  /\ idle_thread \in Threads
  /\ priority \in [Threads -> Nat]

TASK_RUNNING == "RUNNING"
TASK_READY   == "READY"
TASK_BLOCKED == "BLOCKED"
TASK_WAITING == "WAITING"
TASK_HANGING == "HANGING"
TASK_DIED    == "DIED"

Blocked == {TASK_BLOCKED, TASK_WAITING, TASK_HANGING}
Status  == Blocked \cup {TASK_RUNNING, TASK_READY, TASK_DIED}

SchedState ==
  [status : [Threads -> Status], ready : Seq(Threads), cur : Threads,
   ticks : [Threads -> Nat], cpu : {"up", "panic"}]

-----------------------------------------------------------------------------

panic_spin(k) == [k EXCEPT !.cpu = "panic"]

\* Mutated: the woken thread keeps its blocked status.
thread_unblock_keeps_status(k, t) ==
  IF k.status[t] \in Blocked /\ ~elem_find(k.ready, t)
    THEN [k EXCEPT !.ready = list_push(@, t)]
    ELSE panic_spin(k)

\* Mutated: waking refills the time slice.
thread_unblock_refills(k, t) ==
  IF k.status[t] \in Blocked /\ ~elem_find(k.ready, t)
    THEN [k EXCEPT !.ready = list_push(@, t),
                   !.ticks = [@ EXCEPT ![t] = priority[t]],
                   !.status = [@ EXCEPT ![t] = TASK_READY]]
    ELSE panic_spin(k)

(***************************************************************************)
(* The two ASSERTs of thread_unblock make its later tests redundant.       *)
(***************************************************************************)
thread_unblock(k, t) ==
  IF k.status[t] \in Blocked /\ ~elem_find(k.ready, t)
    THEN [k EXCEPT !.ready = list_push(@, t),
                   !.status = [@ EXCEPT ![t] = TASK_READY]]
    ELSE panic_spin(k)

(***************************************************************************)
(* schedule() in its three parts: the current thread goes to the tail of   *)
(* the ready list if it is still RUNNING, idle is woken if nothing else is *)
(* ready, and the head of the ready list gets the CPU.                     *)
(***************************************************************************)
put_down(k) ==
  LET cur == k.cur IN
    IF k.status[cur] # TASK_RUNNING THEN k
    ELSE IF elem_find(k.ready, cur) THEN panic_spin(k)
    ELSE [k EXCEPT !.ready = Append(@, cur),
                   !.ticks = [@ EXCEPT ![cur] = priority[cur]],
                   !.status = [@ EXCEPT ![cur] = TASK_READY]]

wake_idle(k) ==
  IF k.ready = <<>> THEN thread_unblock(k, idle_thread) ELSE k

put_on(k) ==
  IF k.cpu = "panic" THEN k
  ELSE [k EXCEPT !.ready = Tail(@),
                 !.status = [@ EXCEPT ![Head(k.ready)] = TASK_RUNNING],
                 !.cur = Head(k.ready)]

\* Mutated: the next thread is taken off the list first, and the current one
\* then pushed to the head.
schedule_pops_first(k) ==
  IF k.status[k.cur] # TASK_RUNNING \/ k.ready = <<>> THEN put_on(wake_idle(put_down(k)))
  ELSE LET r == put_on([k EXCEPT !.status = [@ EXCEPT ![k.cur] = TASK_READY]])
       IN [r EXCEPT !.ready = list_push(@, k.cur)]

schedule(k) == put_on(wake_idle(put_down(k)))

thread_block(k, stat) ==
  schedule([k EXCEPT !.status = [@ EXCEPT ![k.cur] = stat]])

\* Mutated: the yielding thread stays RUNNING.
thread_yield_running(k) ==
  IF elem_find(k.ready, k.cur) THEN panic_spin(k)
  ELSE schedule([k EXCEPT !.ready = Append(@, k.cur)])

thread_yield(k) ==
  IF elem_find(k.ready, k.cur) THEN panic_spin(k)
  ELSE schedule([k EXCEPT !.ready = Append(@, k.cur),
                          !.status = [@ EXCEPT ![k.cur] = TASK_READY]])

intr_timer_handler(k) ==
  IF k.ticks[k.cur] = 0
    THEN schedule(k)
    ELSE [k EXCEPT !.ticks = [@ EXCEPT ![k.cur] = k.ticks[k.cur] - 1]]

(***************************************************************************)
(* A new PCB t enters the ready list: the end of thread_start,             *)
(* process_execute and sys_fork.                                           *)
(***************************************************************************)
thread_start(k, t) ==
  IF elem_find(k.ready, t) THEN panic_spin(k)
  ELSE [k EXCEPT !.ready = Append(@, t),
                 !.ticks = [@ EXCEPT ![t] = priority[t]],
                 !.status = [@ EXCEPT ![t] = TASK_READY]]

thread_exit(k, t, need_schedule) ==
  LET dead == [k EXCEPT !.status = [@ EXCEPT ![t] = TASK_DIED],
                        !.ready = IF elem_find(@, t) THEN list_remove(@, t) ELSE @]
  IN IF need_schedule THEN schedule(dead) ELSE dead

(***************************************************************************)
(* After make_main_thread and the creation of idle: main runs, everything  *)
(* else that exists is ready.                                              *)
(***************************************************************************)
thread_init(main, created) ==
  [status |-> [t \in Threads |-> IF t = main THEN TASK_RUNNING
                                 ELSE IF elem_find(created, t) THEN TASK_READY
                                 ELSE TASK_DIED],
   ready |-> created, cur |-> main, ticks |-> priority, cpu |-> "up"]

-----------------------------------------------------------------------------
(***************************************************************************)
(* What the ready list and the statuses promise each other.                *)
(***************************************************************************)
SchedOK(k) ==
  /\ \A t \in Threads : k.status[t] = TASK_RUNNING <=> t = k.cur
  /\ \A t \in Threads : k.status[t] = TASK_READY <=> elem_find(k.ready, t)
  /\ Distinct(k.ready)
  /\ k.status[idle_thread] \in {TASK_RUNNING, TASK_READY, TASK_BLOCKED}
=============================================================================
