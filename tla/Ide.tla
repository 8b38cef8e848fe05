-------------------------------- MODULE Ide ---------------------------------
(***************************************************************************)
(* The disk driver of device/ide.c on one channel: ide_read, ide_write,    *)
(* busy_wait and the interrupt handler, with the disk they talk to.        *)
(*                                                                         *)
(* A request is carried out in commands of up to 256 sectors.  Processes   *)
(* run the driver with interrupts off and lose the CPU where it sleeps or  *)
(* yields; a kernel thread (main, which loads the programs) runs it with   *)
(* interrupts on.  The disk is hardware and is modelled from what the      *)
(* driver expects of it.                                                   *)
(***************************************************************************)
EXTENDS Sync

CONSTANTS
  Preemptible,   \* the kernel threads: they run the driver with interrupts on
  MaxCommands,   \* bound: the commands of a request
  TimeLimit,     \* the time limit of busy_wait, in milliseconds
  first,         \* the running thread at the start
  others         \* the ready list at the start

ASSUME IdeAssumption ==
  /\ Preemptible \subseteq Threads \ {idle_thread}
  /\ MaxCommands \in Nat \ {0} /\ TimeLimit \in Nat \ {0}
  /\ first \in Threads /\ others \in Seq(Threads) /\ Distinct(others)
  /\ ~elem_find(others, first) /\ elem_find(others, idle_thread)

VARIABLES
  sched,
  lock,             \* the semaphore of the channel's lock
  expecting_intr,
  disk_done,
  disk,             \* st: what the disk does, irq: it asks for an interrupt,
                    \* owner: whose command it carries out
  op, left,         \* each thread's request: read or write, commands to go
  time_limit,       \* the variable of busy_wait
  ticked,           \* whether the clock ticked since mtime_sleep was called
  pc

channel == <<lock, expecting_intr, disk_done>>
request == <<op, left>>
timing  == <<time_limit, ticked>>
vars    == <<sched, channel, disk, request, timing, pc>>

BSY == disk.st \in {"reading", "preparing", "writing"}

DRQ == disk.st \in {"data", "room"}

Init ==
  /\ sched = thread_init(first, others)
  /\ lock = sema_init(1) /\ expecting_intr = FALSE /\ disk_done = sema_init(0)
  /\ disk = [st |-> "idle", irq |-> FALSE, owner |-> NULL]
  /\ op = [t \in Threads |-> "read"] /\ left = [t \in Threads |-> 0]
  /\ time_limit = [t \in Threads |-> 0]
  /\ ticked = [t \in Threads |-> FALSE]
  /\ pc = [t \in Threads |-> "user"]

Up == sched.cpu = "up"

At(t, labels) == Up /\ sched.cur = t /\ t # idle_thread /\ pc[t] \in labels

Goto(t, label) == pc' = [pc EXCEPT ![t] = label]

Interruptible ==
  LET t == sched.cur IN
    pc[t] = "user" \/ (t \in Preemptible /\ pc[t] \notin {"lockwait", "donewait"})

-----------------------------------------------------------------------------
(***************************************************************************)
(* ide_read and ide_write.                                                 *)
(***************************************************************************)
Request(t) ==
  /\ At(t, {"user"})
  /\ \E o \in {"read", "write"} : op' = [op EXCEPT ![t] = o]
  /\ \E n \in 1 .. MaxCommands : left' = [left EXCEPT ![t] = n]
  /\ Goto(t, "acquire")
  /\ UNCHANGED <<sched, channel, disk, timing>>

Acquire(t) ==
  LET r == sema_down(sched, lock) IN
    /\ At(t, {"acquire", "lockwait"})
    /\ sched' = r.k /\ lock' = r.s
    /\ Goto(t, IF lock.value = 0 THEN "lockwait" ELSE "expect")
    /\ UNCHANGED <<expecting_intr, disk_done, disk, request, timing>>

\* Mutated: the command is sent and the flag is not set.
cmd_out_expecting_nothing(t) ==
  /\ At(t, {"expect"})
  /\ Goto(t, "cmd")
  /\ UNCHANGED <<sched, channel, disk, request, timing>>

cmd_out_expect(t) ==
  /\ At(t, {"expect"})
  /\ expecting_intr' = TRUE
  /\ Goto(t, "cmd")
  /\ UNCHANGED <<sched, lock, disk_done, disk, request, timing>>

cmd_out_send(t) ==
  /\ At(t, {"cmd"})
  /\ disk' = IF BSY THEN disk
             ELSE [st |-> IF op[t] = "read" THEN "reading" ELSE "preparing",
                   irq |-> FALSE, owner |-> t]
  /\ time_limit' = [time_limit EXCEPT ![t] = TimeLimit]
  /\ Goto(t, IF op[t] = "read" THEN "down" ELSE "busy")
  /\ UNCHANGED <<sched, channel, request, ticked>>

CommandDone(t) == IF left[t] > 1 THEN "expect" ELSE "release"

\* Mutated: the end of a write is not waited for.
Down_read_only(t) ==
  LET r == sema_down(sched, disk_done) IN
    /\ At(t, {"down", "donewait"})
    /\ IF op[t] = "write"
         THEN /\ Goto(t, CommandDone(t)) /\ left' = [left EXCEPT ![t] = @ - 1]
              /\ UNCHANGED <<sched, disk_done>>
         ELSE /\ sched' = r.k /\ disk_done' = r.s /\ UNCHANGED left
              /\ Goto(t, IF disk_done.value = 0 THEN "donewait" ELSE "busy")
    /\ UNCHANGED <<lock, expecting_intr, disk, op, timing>>

Down(t) ==
  LET r == sema_down(sched, disk_done) IN
    /\ At(t, {"down", "donewait"})
    /\ sched' = r.k /\ disk_done' = r.s
    /\ IF disk_done.value = 0
         THEN Goto(t, "donewait") /\ UNCHANGED left
         ELSE IF op[t] = "read"
           THEN Goto(t, "busy") /\ UNCHANGED left
           ELSE Goto(t, CommandDone(t)) /\ left' = [left EXCEPT ![t] = @ - 1]
    /\ UNCHANGED <<lock, expecting_intr, disk, op, timing>>

Transfer(t) ==
  /\ At(t, {"transfer"})
  /\ IF op[t] = "read"
       THEN /\ disk' = [disk EXCEPT !.st = "idle"]
            /\ Goto(t, CommandDone(t)) /\ left' = [left EXCEPT ![t] = @ - 1]
       ELSE /\ disk' = [disk EXCEPT !.st = "writing"]
            /\ Goto(t, "down") /\ UNCHANGED left
  /\ UNCHANGED <<sched, channel, op, timing>>

Release(t) ==
  LET r == sema_up(sched, lock) IN
    /\ At(t, {"release"})
    /\ sched' = r.k /\ lock' = r.s
    /\ Goto(t, "user")
    /\ UNCHANGED <<expecting_intr, disk_done, disk, request, timing>>

-----------------------------------------------------------------------------
(***************************************************************************)
(* busy_wait.  "time_limit -= 10 >= 0" takes the value of the comparison,  *)
(* 1, from time_limit, and the loop ends when nothing is left.  When it    *)
(* returns false the caller panics.                                        *)
(***************************************************************************)
turn(limit) == limit - (IF 10 >= 0 THEN 1 ELSE 0)

\* Mutated: the data request bit is not looked at.
busy_wait_any(t) ==
  LET limit == turn(time_limit[t]) IN
    /\ At(t, {"busy"})
    /\ time_limit' = [time_limit EXCEPT ![t] = limit]
    /\ IF limit = 0
         THEN sched' = panic_spin(sched) /\ UNCHANGED <<ticked, pc>>
         ELSE Goto(t, "transfer") /\ UNCHANGED <<sched, ticked>>
    /\ UNCHANGED <<channel, disk, request>>

busy_wait(t) ==
  LET limit == turn(time_limit[t]) IN
    /\ At(t, {"busy"})
    /\ time_limit' = [time_limit EXCEPT ![t] = limit]
    /\ IF limit = 0 \/ (~BSY /\ ~DRQ)
         THEN sched' = panic_spin(sched) /\ UNCHANGED <<ticked, pc>>
         ELSE IF BSY
           THEN Goto(t, "sleep") /\ ticked' = [ticked EXCEPT ![t] = FALSE] /\ UNCHANGED sched
           ELSE Goto(t, "transfer") /\ UNCHANGED <<sched, ticked>>
    /\ UNCHANGED <<channel, disk, request>>

\* Mutated: the loop does not give up the CPU.
mtime_sleep_spins(t) ==
  /\ At(t, {"sleep"})
  /\ IF ticked[t] THEN Goto(t, "busy") ELSE UNCHANGED pc
  /\ UNCHANGED <<sched, channel, disk, request, time_limit, ticked>>

mtime_sleep(t) ==
  /\ At(t, {"sleep"})
  /\ IF ticked[t]
       THEN Goto(t, "busy") /\ UNCHANGED sched
       ELSE sched' = thread_yield(sched) /\ UNCHANGED pc
  /\ UNCHANGED <<channel, disk, request, time_limit, ticked>>

-----------------------------------------------------------------------------
(***************************************************************************)
(* Interrupts, idle and the clock.                                         *)
(***************************************************************************)
intr_hd_handler ==
  LET r == sema_up(sched, disk_done) IN
    /\ Up /\ Interruptible /\ disk.irq
    /\ disk' = [disk EXCEPT !.irq = FALSE]
    /\ IF expecting_intr
         THEN expecting_intr' = FALSE /\ sched' = r.k /\ disk_done' = r.s
         ELSE UNCHANGED <<expecting_intr, sched, disk_done>>
    /\ UNCHANGED <<lock, request, timing, pc>>

idle ==
  /\ Up /\ sched.cur = idle_thread
  /\ sched' = thread_block(sched, TASK_BLOCKED)
  /\ UNCHANGED <<channel, disk, request, timing, pc>>

TimerTick ==
  /\ Up /\ Interruptible
  /\ sched' = intr_timer_handler(sched)
  /\ ticked' = [t \in Threads |-> TRUE]
  /\ UNCHANGED <<channel, disk, request, time_limit, pc>>

(***************************************************************************)
(* The disk.  For a read it interrupts when it has data; for a write it    *)
(* asks for the data, and interrupts when it has written it.  The driver   *)
(* relies on one interrupt for a command, whatever its number of sectors.  *)
(***************************************************************************)
DiskData ==
  /\ disk.st = "reading" /\ disk' = [disk EXCEPT !.st = "data", !.irq = TRUE]
  /\ UNCHANGED <<sched, channel, request, timing, pc>>

DiskRoom ==
  /\ disk.st = "preparing" /\ disk' = [disk EXCEPT !.st = "room"]
  /\ UNCHANGED <<sched, channel, request, timing, pc>>

DiskWritten ==
  /\ disk.st = "writing" /\ disk' = [disk EXCEPT !.st = "idle", !.irq = TRUE]
  /\ UNCHANGED <<sched, channel, request, timing, pc>>

Disk == Up /\ (DiskData \/ DiskRoom \/ DiskWritten)

Driver(t) ==
  \/ Acquire(t) \/ cmd_out_expect(t) \/ cmd_out_send(t) \/ Down(t)
  \/ busy_wait(t) \/ mtime_sleep(t) \/ Transfer(t) \/ Release(t)

Next ==
  \/ \E t \in Threads : Request(t) \/ Driver(t)
  \/ intr_hd_handler \/ idle \/ TimerTick \/ Disk

Spec == Init /\ [][Next]_vars

(***************************************************************************)
(* The CPU carries the driver on, the disk finishes what it began, pending *)
(* interrupts are taken when they are let in, and a kernel thread that is  *)
(* given the CPU again and again makes progress.                           *)
(***************************************************************************)
FairSpec ==
  /\ Spec /\ WF_vars(idle) /\ WF_vars(Disk) /\ SF_vars(TimerTick) /\ SF_vars(intr_hd_handler)
  /\ WF_vars(\E t \in Threads \ Preemptible : Driver(t))
  /\ \A t \in Preemptible : SF_vars(Driver(t))

-----------------------------------------------------------------------------
(***************************************************************************)
(* The driver panics only because the disk stays busy until the time limit *)
(* is used up: no ASSERT of the semaphores fails (the handler never finds  *)
(* disk_done already raised), and a thread that was woken finds the data   *)
(* request bit set.                                                        *)
(***************************************************************************)
PanicsOnlyOnTimeout == Up \/ \E t \in Threads : pc[t] = "busy" /\ time_limit[t] = 0

(***************************************************************************)
(* The data a thread transfers is that of its own command, although its    *)
(* wake-up comes through a flag and a semaphore that all requests on the   *)
(* channel share.                                                          *)
(***************************************************************************)
DataIsOwn ==
  Up => \A t \in Threads : pc[t] = "transfer" => disk.owner = t /\ DRQ

(***************************************************************************)
(* A command is sent, and the lock given back, only when the disk has      *)
(* finished the command before: an interrupt that is taken belongs to the  *)
(* command that is expected, as ide.c:336-337 relies on.                   *)
(***************************************************************************)
DoneMeansDone ==
  Up => \A t \in Threads : pc[t] \in {"cmd", "release"} => disk.st = "idle"

(***************************************************************************)
(* Whoever sleeps until the disk is done is woken.                         *)
(***************************************************************************)
DiskWakes ==
  \A t \in Threads : (Up /\ pc[t] = "donewait") ~> (~Up \/ pc[t] # "donewait")

(***************************************************************************)
(* busy_wait comes to an end, as ide.c:135 says (30 seconds), or no other  *)
(* thread can run: mtime_sleep yields until ticks moves on, and in a       *)
(* system call ticks moves only while another thread has the CPU.          *)
(***************************************************************************)
Alone(t) == \A u \in Threads \ {t} : sched.status[u] \notin {TASK_READY, TASK_RUNNING}

BusyWaitEnds ==
  \A t \in Threads : (Up /\ pc[t] = "sleep") ~> (~Up \/ pc[t] # "sleep" \/ Alone(t))
=============================================================================
