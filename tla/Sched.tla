------------------------------- MODULE Sched --------------------------------
(***************************************************************************)
(* The scheduler under an arbitrary mix of callers.                        *)
(*                                                                         *)
(* Thread.tla has the routines of thread/thread.c; here every one of them  *)
(* is called in every order the rest of the kernel may call it: the        *)
(* running thread blocks, yields, exits, forks or reaps, a waker (the      *)
(* running thread or an interrupt handler) unblocks a sleeping thread, and *)
(* the timer ticks.  The components that really make these calls (locks,   *)
(* pipes, wait and exit, the disk) are modules of their own that run the   *)
(* same operators.                                                         *)
(***************************************************************************)
EXTENDS Thread

CONSTANTS
  main_thread,   \* g_main_thread: its PCB is static and is never handed out again
  init_proc      \* the first process, created before main becomes a thread

ASSUME SchedAssumption ==
  /\ {main_thread, init_proc} \subseteq Threads \ {idle_thread}
  /\ main_thread # init_proc

VARIABLE sched

(***************************************************************************)
(* thread_init: process_execute(init), make_main_thread, then the idle     *)
(* thread.                                                                 *)
(***************************************************************************)
SchedInit == sched = thread_init(main_thread, <<init_proc, idle_thread>>)

Up == sched.cpu = "up"

Runs(t) == Up /\ sched.cur = t

(***************************************************************************)
(* Calls of the running thread.  The idle thread only ever calls           *)
(* thread_block(TASK_BLOCKED), in its loop around hlt.                     *)
(***************************************************************************)
Start(t) ==
  /\ Up /\ ~Runs(idle_thread)
  /\ sched.status[t] = TASK_DIED /\ t # main_thread
  /\ sched' = thread_start(sched, t)

Block(stat) ==
  /\ Up /\ ~Runs(idle_thread)
  /\ stat = TASK_HANGING => ~Runs(main_thread)
  /\ sched' = thread_block(sched, stat)

Yield ==
  /\ Up /\ ~Runs(idle_thread)
  /\ sched' = thread_yield(sched)

ExitMain ==
  /\ Runs(main_thread)
  /\ sched' = thread_exit(sched, main_thread, TRUE)

Reap(t) ==
  /\ Up /\ ~Runs(idle_thread)
  /\ sched.status[t] = TASK_HANGING
  /\ sched' = thread_exit(sched, t, FALSE)

SchedIdle ==
  /\ Runs(idle_thread)
  /\ sched' = thread_block(sched, TASK_BLOCKED)

(***************************************************************************)
(* Calls made for the running thread or from an interrupt handler.  Nobody *)
(* unblocks a zombie, and only schedule unblocks the idle thread.          *)
(***************************************************************************)
Wake(t) ==
  /\ Up
  /\ t # idle_thread /\ sched.status[t] \in {TASK_BLOCKED, TASK_WAITING}
  /\ sched' = thread_unblock(sched, t)

SchedTick ==
  /\ Up
  /\ sched' = intr_timer_handler(sched)

SchedNext ==
  \/ \E t \in Threads : Start(t) \/ Reap(t) \/ Wake(t)
  \/ \E stat \in Blocked : Block(stat)
  \/ Yield \/ ExitMain \/ SchedIdle \/ SchedTick

SchedSpec == SchedInit /\ [][SchedNext]_sched

(***************************************************************************)
(* The 8253 ticks forever and hlt returns at the next tick, so idle comes  *)
(* back to its thread_block.                                               *)
(***************************************************************************)
SchedFairSpec == SchedSpec /\ WF_sched(SchedTick) /\ WF_sched(SchedIdle)

-----------------------------------------------------------------------------
SchedTypeOK == sched \in SchedState

(***************************************************************************)
(* The ready list and the statuses agree: one thread is RUNNING and it is  *)
(* the one whose stack the CPU is on; a thread is READY exactly when it is *)
(* in thread_ready_list, where nothing is twice; idle is never a zombie or *)
(* a waiting parent.  General_tag links a PCB into one list at a time, so  *)
(* a second entry would corrupt the list.                                  *)
(***************************************************************************)
ReadyListOK == Up => SchedOK(sched)

(***************************************************************************)
(* No ASSERT of schedule, thread_unblock, thread_yield or thread_start     *)
(* fails.  In particular schedule finds idle BLOCKED whenever the ready    *)
(* list is empty.                                                          *)
(***************************************************************************)
AssertsHold == Up

(***************************************************************************)
(* A thread that is put on the ready list again is never put in front of a *)
(* thread that was there before it, unless it was unblocked: among threads *)
(* that stay ready the order is kept, and a thread that loses the CPU ends *)
(* up behind all of them.                                                  *)
(***************************************************************************)
Before(k, t, u) ==
  \E i, j \in DOMAIN k.ready : i < j /\ k.ready[i] = t /\ k.ready[j] = u

RoundRobin ==
  [][\A t, u \in Threads :
       /\ Before(sched, t, u) /\ elem_find(sched'.ready, t) /\ elem_find(sched'.ready, u)
            => Before(sched', t, u)
       /\ sched.cur = u /\ elem_find(sched'.ready, u)
            /\ elem_find(sched.ready, t) /\ elem_find(sched'.ready, t)
            => Before(sched', t, u)]_sched

(***************************************************************************)
(* No ready thread starves, although thread_unblock puts the threads it    *)
(* wakes in front of the others: a thread that keeps being woken uses up   *)
(* its slice, and schedule then puts it behind everybody.                  *)
(***************************************************************************)
ReadyRuns ==
  \A t \in Threads : (sched.status[t] = TASK_READY) ~> (sched.cur = t)
=============================================================================
