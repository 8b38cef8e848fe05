------------------------------ MODULE IoQueue -------------------------------
(***************************************************************************)
(* The ring buffer of device/ioqueue.c, used for the keyboard and for      *)
(* pipes, as operators.                                                    *)
(*                                                                         *)
(* A queue q is struct ioqueue, with the semaphore of its lock.  Callers   *)
(* run with interrupts off.  The operators that may wake or put a thread   *)
(* to sleep act on a record s = [k, q] of the scheduler and the queue.     *)
(***************************************************************************)
EXTENDS Sync

CONSTANT bufsize

ASSUME IoQueueAssumption == bufsize \in Nat /\ bufsize > 1

Positions == 0 .. bufsize - 1

ioqueue_init ==
  [buf |-> [i \in Positions |-> 0], head |-> 0, tail |-> 0, lock |-> sema_init(1),
   producer |-> NULL, consumer |-> NULL]

next_pos(pos) == (pos + 1) % bufsize

ioq_full(q) == next_pos(q.head) = q.tail

ioq_empty(q) == q.head = q.tail

ioq_length(q) ==
  IF q.head >= q.tail THEN q.head - q.tail ELSE bufsize - (q.tail - q.head)

(***************************************************************************)
(* side is "producer" or "consumer", the field the caller is waiting in.   *)
(***************************************************************************)
ioq_wait(s, side) ==
  IF s.q[side] # NULL
    THEN [s EXCEPT !.k = panic_spin(@)]
    ELSE [k |-> thread_block(s.k, TASK_BLOCKED), q |-> [s.q EXCEPT ![side] = s.k.cur]]

\* Mutated: the pointer to the sleeper is not cleared.
wakeup_keeps_waiter(s, side) ==
  IF s.q[side] = NULL THEN s ELSE [s EXCEPT !.k = thread_unblock(@, s.q[side])]

wakeup(s, side) ==
  IF s.q[side] = NULL THEN s
  ELSE [k |-> thread_unblock(s.k, s.q[side]), q |-> [s.q EXCEPT ![side] = NULL]]

(***************************************************************************)
(* What ioq_getchar and ioq_putchar do while the queue is empty or full:   *)
(* they take the lock, sleep in ioq_wait, and give the lock back when they *)
(* are woken.  acquire_then_wait is also where a thread goes on that slept *)
(* for the lock: it does not look at the queue again.                      *)
(***************************************************************************)
acquire_then_wait(s, side) ==
  IF s.q.lock.value = 0
    THEN LET r == sema_wait(s.k, s.q.lock) IN [k |-> r.k, q |-> [s.q EXCEPT !.lock = r.s]]
    ELSE LET r == sema_take(s.k, s.q.lock)
         IN ioq_wait([k |-> r.k, q |-> [s.q EXCEPT !.lock = r.s]], side)

release_after_wait(s) ==
  LET r == sema_up(s.k, s.q.lock) IN [k |-> r.k, q |-> [s.q EXCEPT !.lock = r.s]]

(***************************************************************************)
(* What they do once they need not wait.                                   *)
(***************************************************************************)
\* Mutated: the reader forgets to move on.
take_char_again(s) == wakeup(s, "producer")

\* Mutated: the sleeping writer is not woken.
take_char_quietly(s) == [s EXCEPT !.q.tail = next_pos(@)]

take_char(s) == wakeup([s EXCEPT !.q.tail = next_pos(@)], "producer")

\* Mutated: the sleeping reader is not woken.
put_char_quietly(s, byte) == [s EXCEPT !.q.buf[s.q.head] = byte, !.q.head = next_pos(@)]

put_char(s, byte) ==
  wakeup([s EXCEPT !.q.buf[s.q.head] = byte, !.q.head = next_pos(@)], "consumer")

-----------------------------------------------------------------------------
(***************************************************************************)
(* The characters put in carry serial numbers, which wrap round beyond the *)
(* size of the ring.  The queue holds those after out up to in, in order.  *)
(***************************************************************************)
Serials == 0 .. 2 * bufsize - 1

Later(n, i) == (n + i) % (2 * bufsize)

Holds(q, out, in) ==
  /\ in = Later(out, ioq_length(q))
  /\ \A i \in 0 .. ioq_length(q) - 1 : q.buf[(q.tail + i) % bufsize] = Later(out, i + 1)
=============================================================================
