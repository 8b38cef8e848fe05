-------------------------------- MODULE Sync --------------------------------
(***************************************************************************)
(* The semaphores and locks of thread/sync.c as operators.                 *)
(*                                                                         *)
(* A semaphore s has a value (0 or 1) and a list of waiters.  The body of  *)
(* sema_down and of sema_up runs with interrupts off, so each is a step,   *)
(* except that sema_down gives up the CPU inside its loop: sema_wait is    *)
(* one turn of the loop up to thread_block, sema_take is what follows the  *)
(* loop.  Both take the scheduler state k and return k and s together.     *)
(***************************************************************************)
EXTENDS Thread

CONSTANT NULL

ASSUME SyncAssumption == NULL \notin Threads

Sema == [value : {0, 1}, waiters : Seq(Threads)]

sema_init(value) == [value |-> value, waiters |-> <<>>]

\* Mutated: the sleeper is not entered in waiters.
sema_wait_unlisted(k, s) ==
  [k |-> thread_block(k, TASK_BLOCKED), s |-> s]

sema_wait(k, s) ==
  IF elem_find(s.waiters, k.cur)
    THEN [k |-> panic_spin(k), s |-> s]
    ELSE [k |-> thread_block(k, TASK_BLOCKED),
          s |-> [s EXCEPT !.waiters = Append(@, k.cur)]]

sema_take(k, s) ==
  IF s.value = 1
    THEN [k |-> k, s |-> [s EXCEPT !.value = 0]]
    ELSE [k |-> panic_spin(k), s |-> s]

sema_down(k, s) == IF s.value = 0 THEN sema_wait(k, s) ELSE sema_take(k, s)

sema_up(k, s) ==
  IF s.value # 0
    THEN [k |-> panic_spin(k), s |-> s]
    ELSE IF s.waiters = <<>>
      THEN [k |-> k, s |-> [s EXCEPT !.value = 1]]
      ELSE [k |-> thread_unblock(k, Head(s.waiters)),
            s |-> [value |-> 1, waiters |-> Tail(s.waiters)]]
=============================================================================
