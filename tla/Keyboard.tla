------------------------------ MODULE Keyboard ------------------------------
(***************************************************************************)
(* The keyboard: its interrupt handler fills kbd_buf, processes that read  *)
(* standard input empty it.                                                *)
(*                                                                         *)
(* The keys that find room in the buffer are numbered, so that loss,       *)
(* duplication and reordering of characters can be seen.                   *)
(***************************************************************************)
EXTENDS IoQueue

CONSTANTS
  Readers,   \* the processes that read standard input
  first,     \* the running thread at the start
  others     \* the ready list at the start

ASSUME KeyboardAssumption ==
  /\ Readers \subseteq Threads \ {idle_thread}
  /\ first \in Threads /\ others \in Seq(Threads) /\ Distinct(others)
  /\ ~elem_find(others, first) /\ elem_find(others, idle_thread)

VARIABLES
  sched,
  kbd_buf,
  typed,     \* the number of the last key stored
  got,       \* the last character taken by a reader
  pc

vars == <<sched, kbd_buf, typed, got, pc>>

Init ==
  /\ sched = thread_init(first, others)
  /\ kbd_buf = ioqueue_init
  /\ typed = 0 /\ got = 0
  /\ pc = [t \in Threads |-> "user"]

Up == sched.cpu = "up"

At(t, label) == Up /\ sched.cur = t /\ pc[t] = label

Goto(t, label) == pc' = [pc EXCEPT ![t] = label]

Sys == [k |-> sched, q |-> kbd_buf]

Becomes(s) == sched' = s.k /\ kbd_buf' = s.q

Interruptible == pc[sched.cur] = "user"

(***************************************************************************)
(* sys_read of standard input: one ioq_getchar per character.              *)
(***************************************************************************)
sys_read(t) ==
  /\ At(t, "user") /\ t \in Readers
  /\ Goto(t, "get") /\ UNCHANGED <<sched, kbd_buf, typed, got>>

GetChar(t) ==
  /\ At(t, "get") /\ ~ioq_empty(kbd_buf)
  /\ got' = kbd_buf.buf[kbd_buf.tail]
  /\ Becomes(take_char(Sys))
  /\ Goto(t, "get") \/ Goto(t, "user")
  /\ UNCHANGED typed

GetWaits(t) ==
  /\ (At(t, "get") /\ ioq_empty(kbd_buf)) \/ At(t, "lock")
  /\ Becomes(acquire_then_wait(Sys, "consumer"))
  /\ Goto(t, IF kbd_buf.lock.value = 0 THEN "lock" ELSE "asleep")
  /\ UNCHANGED <<typed, got>>

GetWoken(t) ==
  /\ At(t, "asleep")
  /\ Becomes(release_after_wait(Sys))
  /\ Goto(t, "get") /\ UNCHANGED <<typed, got>>

(***************************************************************************)
(* A key that finds the buffer full is dropped.                            *)
(***************************************************************************)
\* Mutated: the handler does not test for a full buffer.
keyboard_overwrites ==
  /\ Up /\ Interruptible
  /\ Becomes(put_char(Sys, Later(typed, 1))) /\ typed' = Later(typed, 1)
  /\ UNCHANGED <<got, pc>>

intr_keyboard_handler ==
  /\ Up /\ Interruptible
  /\ ~ioq_full(kbd_buf)
  /\ Becomes(put_char(Sys, Later(typed, 1))) /\ typed' = Later(typed, 1)
  /\ UNCHANGED <<got, pc>>

idle ==
  /\ Up /\ sched.cur = idle_thread
  /\ sched' = thread_block(sched, TASK_BLOCKED)
  /\ UNCHANGED <<kbd_buf, typed, got, pc>>

TimerTick ==
  /\ Up /\ Interruptible
  /\ sched' = intr_timer_handler(sched)
  /\ UNCHANGED <<kbd_buf, typed, got, pc>>

Kernel == \E t \in Threads : GetChar(t) \/ GetWaits(t) \/ GetWoken(t)

Next ==
  \/ \E t \in Threads : sys_read(t)
  \/ Kernel \/ intr_keyboard_handler \/ idle \/ TimerTick

Spec == Init /\ [][Next]_vars

(***************************************************************************)
(* A system call runs on until it blocks; a pending timer interrupt is     *)
(* taken when interrupts are on.  Nobody has to type.                      *)
(***************************************************************************)
FairSpec == Spec /\ WF_vars(Kernel) /\ WF_vars(idle) /\ SF_vars(TimerTick)

-----------------------------------------------------------------------------
(***************************************************************************)
(* The buffer neither loses, repeats nor reorders a key it stored, also    *)
(* when several readers share it and when it wraps round.                  *)
(***************************************************************************)
InOrder == Holds(kbd_buf, got, typed)

(***************************************************************************)
(* A stored key is taken while everybody who may read is reading: the      *)
(* handler wakes a sleeper, or one of them is already on its way.          *)
(***************************************************************************)
KeyIsRead ==
  \A n \in Serials :
    (got = n /\ ~ioq_empty(kbd_buf) /\ \A t \in Readers : pc[t] # "user")
      ~> (got # n \/ \E t \in Readers : pc[t] = "user")
=============================================================================
