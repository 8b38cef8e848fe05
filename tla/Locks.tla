------------------------------- MODULE Locks --------------------------------
(***************************************************************************)
(* A lock of thread/sync.c under contention.                               *)
(*                                                                         *)
(* System calls enter through interrupt gates, so a process executes       *)
(* lock_acquire, its critical section and lock_release with interrupts off *)
(* and loses the CPU only where it blocks: in sema_down, or inside the     *)
(* critical section (ide_read waits for the disk while it holds the        *)
(* channel lock).  A kernel thread such as main runs the same code with    *)
(* interrupts on and can be preempted between any two steps of it, except  *)
(* inside the semaphore operations.                                        *)
(***************************************************************************)
EXTENDS Sync

CONSTANTS
  Preemptible,   \* the kernel threads: they run this code with interrupts on
  MaxDepth,      \* how deep a holder re-acquires
  first,         \* the running thread at the start
  others         \* the ready list at the start

ASSUME LocksAssumption ==
  /\ Preemptible \subseteq Threads \ {idle_thread}
  /\ MaxDepth \in Nat \ {0}
  /\ first \in Threads /\ others \in Seq(Threads) /\ Distinct(others)
  /\ ~elem_find(others, first) /\ elem_find(others, idle_thread)

VARIABLES
  sched,
  plock,   \* the struct lock
  pc       \* where each thread is

vars == <<sched, plock, pc>>

lock_init == [holder |-> NULL, holder_repeat_nr |-> 0, semaphore |-> sema_init(1)]

Init ==
  /\ sched = thread_init(first, others)
  /\ plock = lock_init
  /\ pc = [t \in Threads |-> "user"]

Up == sched.cpu = "up"

At(t, labels) ==
  Up /\ sched.cur = t /\ t # idle_thread /\ pc[t] \in labels

Goto(t, label) == pc' = [pc EXCEPT ![t] = label]

(***************************************************************************)
(* The running thread can be interrupted: it is idle, in user mode, or a   *)
(* kernel thread outside the semaphore code.                               *)
(***************************************************************************)
Interruptible ==
  LET t == sched.cur IN
    t = idle_thread \/ pc[t] = "user" \/ (t \in Preemptible /\ pc[t] # "woken")

(***************************************************************************)
(* lock_acquire: the test of the holder, sema_down, the new owner's entry. *)
(***************************************************************************)
Enter(t) ==
  /\ At(t, {"user"})
  /\ Goto(t, "acquire") /\ UNCHANGED <<sched, plock>>

lock_acquire(t) ==
  /\ At(t, {"acquire"})
  /\ IF plock.holder # t
       THEN Goto(t, "down") /\ UNCHANGED plock
       ELSE Goto(t, "cs") /\ plock' = [plock EXCEPT !.holder_repeat_nr = @ + 1]
  /\ UNCHANGED sched

\* Mutated: a woken thread takes the lock without testing the value again.
Down_tests_once(t) ==
  LET r == sema_down(sched, plock.semaphore) IN
    /\ At(t, {"down", "woken"})
    /\ IF pc[t] = "woken"
         THEN UNCHANGED sched /\ plock' = [plock EXCEPT !.semaphore.value = 0]
         ELSE sched' = r.k /\ plock' = [plock EXCEPT !.semaphore = r.s]
    /\ Goto(t, IF pc[t] = "down" /\ plock.semaphore.value = 0 THEN "woken" ELSE "own")

Down(t) ==
  LET r == sema_down(sched, plock.semaphore) IN
    /\ At(t, {"down", "woken"})
    /\ sched' = r.k
    /\ plock' = [plock EXCEPT !.semaphore = r.s]
    /\ Goto(t, IF plock.semaphore.value = 0 THEN "woken" ELSE "own")

Own(t) ==
  /\ At(t, {"own"})
  /\ IF plock.holder_repeat_nr = 0
       THEN /\ plock' = [plock EXCEPT !.holder = t, !.holder_repeat_nr = 1]
            /\ UNCHANGED sched
       ELSE sched' = panic_spin(sched) /\ UNCHANGED plock
  /\ Goto(t, "cs")

(***************************************************************************)
(* The critical section takes the lock again, or sleeps until a device     *)
(* interrupt wakes it, or comes to its end.                                *)
(***************************************************************************)
Nest(t) ==
  /\ At(t, {"cs"})
  /\ plock.holder_repeat_nr < MaxDepth
  /\ Goto(t, "acquire") /\ UNCHANGED <<sched, plock>>

Sleep(t) ==
  /\ At(t, {"cs"})
  /\ sched' = thread_block(sched, TASK_BLOCKED)
  /\ Goto(t, "slept") /\ UNCHANGED plock

WakeUp(t) ==
  /\ Up /\ Interruptible
  /\ pc[t] = "slept"
  /\ sched' = thread_unblock(sched, t)
  /\ Goto(t, "cs") /\ UNCHANGED plock

\* Mutated: the repeat count of the last holder is left behind.
lock_release_keeps_count(t) ==
  /\ At(t, {"cs", "unwind"})
  /\ IF plock.holder # t \/ plock.holder_repeat_nr = 0
       THEN sched' = panic_spin(sched) /\ UNCHANGED <<plock, pc>>
       ELSE /\ UNCHANGED sched
            /\ IF plock.holder_repeat_nr > 1
                 THEN /\ plock' = [plock EXCEPT !.holder_repeat_nr = @ - 1]
                      /\ Goto(t, "unwind")
                 ELSE /\ plock' = [plock EXCEPT !.holder = NULL]
                      /\ Goto(t, "up")

(***************************************************************************)
(* lock_release, once for every acquire.                                   *)
(***************************************************************************)
lock_release(t) ==
  /\ At(t, {"cs", "unwind"})
  /\ IF plock.holder # t \/ plock.holder_repeat_nr = 0
       THEN sched' = panic_spin(sched) /\ UNCHANGED <<plock, pc>>
       ELSE /\ UNCHANGED sched
            /\ IF plock.holder_repeat_nr > 1
                 THEN /\ plock' = [plock EXCEPT !.holder_repeat_nr = @ - 1]
                      /\ Goto(t, "unwind")
                 ELSE /\ plock' = [plock EXCEPT !.holder = NULL, !.holder_repeat_nr = 0]
                      /\ Goto(t, "up")

Release(t) ==
  LET r == sema_up(sched, plock.semaphore) IN
    /\ At(t, {"up"})
    /\ sched' = r.k
    /\ plock' = [plock EXCEPT !.semaphore = r.s]
    /\ Goto(t, "user")

idle ==
  /\ Up /\ sched.cur = idle_thread
  /\ sched' = thread_block(sched, TASK_BLOCKED)
  /\ UNCHANGED <<plock, pc>>

TimerTick ==
  /\ Up /\ Interruptible
  /\ sched' = intr_timer_handler(sched)
  /\ UNCHANGED <<plock, pc>>

Step(t) ==
  \/ lock_acquire(t) \/ Down(t) \/ Own(t) \/ lock_release(t) \/ Release(t)

Next ==
  \/ \E t \in Threads : Enter(t) \/ Step(t) \/ Nest(t) \/ Sleep(t) \/ WakeUp(t)
  \/ idle \/ TimerTick

Spec == Init /\ [][Next]_vars

(***************************************************************************)
(* A thread that is given the CPU again and again executes its code, and   *)
(* its critical sections are finite; an interrupt that is pending is taken *)
(* when interrupts are on (the 8259A latches it), so the timer preempts    *)
(* and a sleeping critical section is woken.                               *)
(***************************************************************************)
FairSpec ==
  /\ Spec
  /\ WF_vars(idle) /\ SF_vars(TimerTick)
  /\ \A t \in Threads : SF_vars(Step(t)) /\ SF_vars(WakeUp(t))

-----------------------------------------------------------------------------
(***************************************************************************)
(* Whoever has passed sema_down and not yet reached sema_up.               *)
(***************************************************************************)
InSection == {"own", "cs", "slept", "unwind", "up"}

Inside(t) == pc[t] \in InSection \/ (pc[t] = "acquire" /\ plock.holder = t)

(***************************************************************************)
(* No ASSERT of sync.c or of the scheduler below it fails: the value is    *)
(* never raised above 1, holder_repeat_nr is 0 for a new holder, the       *)
(* holder is the one who releases, no thread is in waiters twice, and a    *)
(* woken thread is not in the ready list already.                          *)
(***************************************************************************)
NoPanic == Up

(***************************************************************************)
(* A lock that someone waits for is handed on: whenever a thread is asleep *)
(* in sema_down some thread later enters the section.  (Not necessarily    *)
(* the sleeper: sema_up only makes the value 1, and a thread that comes    *)
(* along first may take it.)                                               *)
(***************************************************************************)
HandedOn ==
  (\E t \in Threads : pc[t] = "woken") ~> (\E t \in Threads : pc[t] = "own")

(***************************************************************************)
(* struct lock implements a re-entrant mutex whose owner is the thread     *)
(* between its sema_down and its sema_up.  If there were two of them owner *)
(* would be a set, which no step of Mutex leads to.                        *)
(***************************************************************************)
owner ==
  LET inside == {t \in Threads : Inside(t)}
  IN  IF inside = {} THEN NULL
      ELSE IF \E t \in Threads : inside = {t} THEN CHOOSE t \in inside : TRUE
      ELSE inside

depth ==
  IF plock.holder_repeat_nr # 0 THEN plock.holder_repeat_nr
  ELSE IF owner = NULL THEN 0 ELSE 1

M == INSTANCE Mutex WITH owner <- owner, depth <- depth

ImplementsMutex == M!Spec
=============================================================================
