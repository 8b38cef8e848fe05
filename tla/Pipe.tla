-------------------------------- MODULE Pipe --------------------------------
(***************************************************************************)
(* pipe_read and pipe_write of shell/pipe.c: processes that share a pipe.  *)
(*                                                                         *)
(* Both are system calls, so they lose the CPU only where the queue makes  *)
(* them sleep.  The characters put into the pipe are numbered.             *)
(***************************************************************************)
EXTENDS IoQueue

CONSTANTS
  Writers, Readers,   \* the processes that write to and read from the pipe
  MaxCount,           \* bound: the longest read or write
  first,              \* the running thread at the start
  others              \* the ready list at the start

ASSUME PipeAssumption ==
  /\ Writers \cup Readers \subseteq Threads \ {idle_thread}
  /\ MaxCount \in Nat
  /\ first \in Threads /\ others \in Seq(Threads) /\ Distinct(others)
  /\ ~elem_find(others, first) /\ elem_find(others, idle_thread)

VARIABLES
  sched,
  ioq,         \* the page of the pipe
  put, got,    \* the last character that went in and that came out
  side,        \* what a thread's last call was: of a producer or a consumer
  left,        \* how many characters the call has still to move
  pc

vars == <<sched, ioq, put, got, side, left, pc>>

Init ==
  /\ sched = thread_init(first, others)
  /\ ioq = ioqueue_init
  /\ put = 0 /\ got = 0
  /\ side = [t \in Threads |-> "consumer"]
  /\ left = [t \in Threads |-> 0]
  /\ pc = [t \in Threads |-> "user"]

Up == sched.cpu = "up"

At(t, label) == Up /\ sched.cur = t /\ pc[t] = label

Goto(t, label) == pc' = [pc EXCEPT ![t] = label]

Sys == [k |-> sched, q |-> ioq]

Becomes(s) == sched' = s.k /\ ioq' = s.q

Interruptible == pc[sched.cur] = "user"

AtMost(n, limit) == IF limit > n THEN n ELSE limit

(***************************************************************************)
(* The calls.  Each moves no more than the room or the data that it finds. *)
(***************************************************************************)
\* Mutated: a read does not look how much data there is.
pipe_read_greedy(t, count) ==
  /\ At(t, "user") /\ t \in Readers
  /\ side' = [side EXCEPT ![t] = "consumer"]
  /\ left' = [left EXCEPT ![t] = count]
  /\ Goto(t, "move") /\ UNCHANGED <<sched, ioq, put, got>>

pipe_read(t, count) ==
  /\ At(t, "user") /\ t \in Readers
  /\ side' = [side EXCEPT ![t] = "consumer"]
  /\ left' = [left EXCEPT ![t] = AtMost(count, ioq_length(ioq))]
  /\ Goto(t, "move") /\ UNCHANGED <<sched, ioq, put, got>>

pipe_write(t, count) ==
  /\ At(t, "user") /\ t \in Writers
  /\ side' = [side EXCEPT ![t] = "producer"]
  /\ left' = [left EXCEPT ![t] = AtMost(count, bufsize - ioq_length(ioq))]
  /\ Goto(t, "move") /\ UNCHANGED <<sched, ioq, put, got>>

(***************************************************************************)
(* ioq_getchar and ioq_putchar, once for each character.                   *)
(***************************************************************************)
Ready(t) == IF side[t] = "producer" THEN ~ioq_full(ioq) ELSE ~ioq_empty(ioq)

Move(t) ==
  /\ At(t, "move") /\ left[t] > 0 /\ Ready(t)
  /\ IF side[t] = "producer"
       THEN Becomes(put_char(Sys, Later(put, 1))) /\ put' = Later(put, 1) /\ UNCHANGED got
       ELSE Becomes(take_char(Sys)) /\ got' = ioq.buf[ioq.tail] /\ UNCHANGED put
  /\ left' = [left EXCEPT ![t] = @ - 1]
  /\ UNCHANGED <<side, pc>>

Wait(t) ==
  /\ (At(t, "move") /\ left[t] > 0 /\ ~Ready(t)) \/ At(t, "lock")
  /\ Becomes(acquire_then_wait(Sys, side[t]))
  /\ Goto(t, IF ioq.lock.value = 0 THEN "lock" ELSE "asleep")
  /\ UNCHANGED <<put, got, side, left>>

Woken(t) ==
  /\ At(t, "asleep")
  /\ Becomes(release_after_wait(Sys))
  /\ Goto(t, "move") /\ UNCHANGED <<put, got, side, left>>

Return(t) ==
  /\ At(t, "move") /\ left[t] = 0
  /\ Goto(t, "user") /\ UNCHANGED <<sched, ioq, put, got, side, left>>

idle ==
  /\ Up /\ sched.cur = idle_thread
  /\ sched' = thread_block(sched, TASK_BLOCKED)
  /\ UNCHANGED <<ioq, put, got, side, left, pc>>

TimerTick ==
  /\ Up /\ Interruptible
  /\ sched' = intr_timer_handler(sched)
  /\ UNCHANGED <<ioq, put, got, side, left, pc>>

Kernel == \E t \in Threads : Move(t) \/ Wait(t) \/ Woken(t) \/ Return(t)

Next ==
  \/ \E t \in Threads, count \in 1 .. MaxCount : pipe_read(t, count) \/ pipe_write(t, count)
  \/ Kernel \/ idle \/ TimerTick

Spec == Init /\ [][Next]_vars

(***************************************************************************)
(* A system call runs on until it blocks; a pending timer interrupt is     *)
(* taken when interrupts are on; the readers read again and again.         *)
(***************************************************************************)
FairSpec ==
  /\ Spec /\ WF_vars(Kernel) /\ WF_vars(idle) /\ SF_vars(TimerTick)
  /\ \A t \in Readers : SF_vars(pipe_read(t, 1))

-----------------------------------------------------------------------------
(***************************************************************************)
(* What was written comes out, in order, once: also when the ring wraps    *)
(* round, a write is cut in two by a sleep, and several processes write.   *)
(***************************************************************************)
InOrder == Holds(ioq, got, put)

(***************************************************************************)
(* No ASSERT fails: two writers never wait in ioq.producer at a time, and  *)
(* a reader never wakes a thread that is not blocked.                      *)
(***************************************************************************)
NoPanic == Up /\ SchedOK(sched)

Sleeps(t) == pc[t] \in {"lock", "asleep"}

(***************************************************************************)
(* pipe_read and pipe_write take the smaller amount so as not to block     *)
(* (pipe.c:47 and :64).  A read never does, even though another process's  *)
(* call may come before it; a write sleeps only for its last character,    *)
(* because the ring holds one less than bufsize, on which it counts.       *)
(***************************************************************************)
SleepsForTheLast ==
  \A t \in Threads : Sleeps(t) => side[t] = "producer" /\ left[t] = 1

(***************************************************************************)
(* While processes write and somebody goes on reading, characters go in:   *)
(* the writer that sleeps in the pipe, and one that sleeps for its lock    *)
(* behind it, never all wait for each other.                               *)
(***************************************************************************)
WritersMove ==
  \A n \in Serials :
    (put = n /\ \E t \in Writers : pc[t] # "user")
      ~> (put # n \/ \A t \in Writers : pc[t] = "user")
=============================================================================
