--------------------------- MODULE ProcessProofs ----------------------------
(***************************************************************************)
(* The process table for any set of PCBs and any number of pids, and at    *)
(* the end the scheduler by itself, for any set of threads and priorities. *)
(*                                                                         *)
(* Inv is inductive.  The properties that the runs check need each other   *)
(* and a few facts more: where a thread can be when it sleeps, is a zombie *)
(* or is dead (PlacesOK), that the sleepers on the pool's lock are blocked *)
(* (PoolOK), and that a PCB in the middle of a fork belongs to one forking *)
(* process, which is its parent, and to nobody else (ForksOK).             *)
(*                                                                         *)
(* SchedInv, of the scheduler, is Good of ThreadProofs: each thread is in  *)
(* its place, once.                                                        *)
(***************************************************************************)
EXTENDS Process, ThreadProofs, FiniteSetTheorems, WellFoundedInduction

Labels == {"start", "user", "holding", "fork_pcb", "fork_buf", "fork_copy", "wait", "exit"}

TypeInv ==
  /\ pool_lock \in Sema /\ thread_all_list \in Seq(Threads)
  /\ pid \in [Threads -> Nat] /\ parent_pid \in [Threads -> Nat]
  /\ pid_bitmap \subseteq 1 .. MaxPid
  /\ child \in [Threads -> Threads \cup {NULL}] /\ leaked \subseteq Threads
  /\ pc \in [Threads -> Labels]

(***************************************************************************)
(* In the definitions below k is the scheduler's state, s the semaphore,   *)
(* l the table, pd and pp the pids and the parents' pids, bm the bitmap,   *)
(* ch, lk and ad the variables child, leaked and adopted, and p is pc.     *)
(*                                                                         *)
(* A PCB is used when it is in the table or a fork has given it a pid.     *)
(***************************************************************************)
Used(l, ch, p, t) == elem_find(l, t) \/ \E u \in Threads : ch[u] = t /\ p[u] = "fork_copy"

\* A thread that sleeps in sys_wait, is a zombie or is dead.
PlacesOK(k, p) ==
  /\ p[idle_thread] = "user" /\ p[main_thread] \in {"user", "holding"}
  /\ p[init_proc] # "exit" /\ k.status[init_proc] \notin {TASK_HANGING, TASK_DIED}
  /\ \A t \in Threads : p[t] = "holding" => t = main_thread
  /\ \A t \in Threads : k.status[t] \in {TASK_HANGING, TASK_DIED} => p[t] = "user"
  /\ \A t \in Threads : k.status[t] = TASK_WAITING => p[t] = "wait"
  /\ k.status[main_thread] # TASK_HANGING

\* main holds the pool's lock, and who sleeps for it is in a fork or an exit.
PoolOK(k, s, p) ==
  /\ Distinct(s.waiters)
  /\ s.value = 0 <=> p[main_thread] = "holding"
  /\ \A t \in Threads : elem_find(s.waiters, t) =>
       k.status[t] = TASK_BLOCKED /\ p[t] \in {"fork_pcb", "fork_buf", "fork_copy", "exit"}

TableOK(k, l) ==
  Distinct(l) /\ \A t \in Threads : elem_find(l, t) <=> k.status[t] # TASK_DIED

PidsOK(l, ch, p, pd, bm) ==
  /\ \A t \in Threads : Used(l, ch, p, t) => pd[t] \in bm
  /\ \A t, u \in Threads :
       Used(l, ch, p, t) /\ Used(l, ch, p, u) /\ pd[t] = pd[u] => t = u
  /\ pd[init_proc] = INIT_PID

\* A pid that is taken was given to a PCB that is used, or is lost with it.
BitmapOK(l, ch, p, pd, bm, lk) ==
  \A n \in bm : \E t \in Threads : pd[t] = n /\ (Used(l, ch, p, t) \/ t \in lk)

\* The PCBs that are being filled in, and the ones that are lost.
ForksOK(k, ch, lk, p, pd, pp) ==
  /\ \A t \in Threads : p[t] \in {"fork_buf", "fork_copy"} <=> ch[t] # NULL
  /\ \A t \in Threads : ch[t] # NULL =>
       k.status[ch[t]] = TASK_DIED /\ ch[t] \notin lk /\ ch[t] # main_thread
  /\ \A t, u \in Threads : ch[t] # NULL /\ ch[t] = ch[u] => t = u
  /\ \A t \in lk : k.status[t] = TASK_DIED
  /\ \A t \in Threads : p[t] = "fork_copy" => pp[ch[t]] = pd[t]

\* q is in the table as the parent of t, and will stay there.
ParentOf(k, l, p, pd, pp, t, q) ==
  /\ elem_find(l, q) /\ Process(q) /\ pd[q] = pp[t]
  /\ k.status[q] # TASK_HANGING /\ p[q] # "exit"

ParentsOK(k, l, ch, p, pd, pp) ==
  /\ pp[init_proc] = NoParent /\ pp[main_thread] = NoParent /\ pp[idle_thread] = NoParent
  /\ \A t \in Threads \ {init_proc, main_thread, idle_thread} :
       Used(l, ch, p, t) => \E q \in Threads : ParentOf(k, l, p, pd, pp, t, q)

WaitersOK(k, l, pd, pp, ad) ==
  \A t \in Threads : k.status[t] = TASK_WAITING =>
    /\ \E c \in Threads : elem_find(l, c) /\ pp[c] = pd[t]
    /\ \A c \in Threads :
         elem_find(l, c) /\ pp[c] = pd[t] /\ k.status[c] = TASK_HANGING => c \in ad

Table(k, l, pd, pp, bm, ch, lk, ad, p) ==
  /\ PlacesOK(k, p) /\ TableOK(k, l)
  /\ PidsOK(l, ch, p, pd, bm) /\ BitmapOK(l, ch, p, pd, bm, lk)
  /\ ForksOK(k, ch, lk, p, pd, pp)
  /\ ParentsOK(k, l, ch, p, pd, pp)
  /\ WaitersOK(k, l, pd, pp, ad)

Inv ==
  /\ TypeInv
  /\ Good(sched)
  /\ PoolOK(sched, pool_lock, pc)
  /\ Table(sched, thread_all_list, pid, parent_pid, pid_bitmap, child, leaked, adopted, pc)

-----------------------------------------------------------------------------
(***************************************************************************)
(* A set of numbers that is not empty has a least one: what list_traversal *)
(* and allocate_pid, which stop at the first match, rest on.               *)
(***************************************************************************)
LEMMA LeastNumber ==
  ASSUME NEW T, T \subseteq Nat, T # {}
  PROVE  \E x \in T : \A y \in T : x <= y
<1>1. PICK x \in T : \A y \in T : ~(<<y, x>> \in OpToRel(<, Nat))
  BY Zenon, NatLessThanWellFounded, WFMin
<1>2. \A y \in T : ~(y < x)
  BY Zenon, <1>1 DEF OpToRel
<1> QED BY <1>2

(***************************************************************************)
(* list_traversal returns NULL if the callback holds of no element, and    *)
(* otherwise an element of the list of which it does.                      *)
(***************************************************************************)
LEMMA Traversal ==
  ASSUME NEW list \in Seq(Threads), NEW S
  PROVE  /\ list_traversal(list, S) = NULL =>
              \A t \in Threads : elem_find(list, t) => t \notin S
         /\ list_traversal(list, S) # NULL =>
              /\ list_traversal(list, S) \in Threads /\ list_traversal(list, S) \in S
              /\ elem_find(list, list_traversal(list, S))
<1>1. DOMAIN list = 1 .. Len(list) /\ \A i \in DOMAIN list : list[i] \in Threads
  OBVIOUS
<1>2. CASE \A i \in DOMAIN list : list[i] \notin S
  BY <1>2 DEF list_traversal, elem_find
<1>3. CASE \E i \in DOMAIN list : list[i] \in S
  <2> DEFINE T == {i \in DOMAIN list : list[i] \in S}
             First(i) == list[i] \in S /\ \A j \in 1 .. (i - 1) : list[j] \notin S
             at == CHOOSE i \in DOMAIN list : First(i)
  <2>1. T \subseteq Nat /\ T # {}  BY <1>1, <1>3
  <2>2. PICK i \in T : \A j \in T : i <= j
    <3> HIDE DEF T
    <3> QED BY Zenon, <2>1, LeastNumber
  <2>3. i \in DOMAIN list /\ First(i)
    BY <1>1, <2>2
  <2>4. at \in DOMAIN list /\ First(at)
    <3> HIDE DEF First
    <3> QED BY <2>3
  <2>5. list_traversal(list, S) = list[at]
    BY <1>3 DEF list_traversal
  <2> HIDE DEF at
  <2>6. list[at] \in Threads /\ list[at] \in S /\ elem_find(list, list[at])
    BY <1>1, <2>4 DEF elem_find
  <2> QED BY <2>5, <2>6, SyncAssumption
<1> QED BY <1>2, <1>3

(***************************************************************************)
(* list_remove of an element takes out that one and nothing else.          *)
(***************************************************************************)
LEMMA RemoveList ==
  ASSUME NEW S, NEW list \in Seq(S), NEW t, elem_find(list, t), Distinct(list)
  PROVE  /\ list_remove(list, t) \in Seq(S) /\ Distinct(list_remove(list, t))
         /\ \A u : elem_find(list_remove(list, t), u) <=> u # t /\ elem_find(list, u)
<1> DEFINE at == CHOOSE i \in DOMAIN list : list[i] = t
           l == [i \in 1 .. (Len(list) - 1) |-> IF i < at THEN list[i] ELSE list[i + 1]]
<1>1. DOMAIN list = 1 .. Len(list) /\ Len(list) \in Nat
      /\ \A i \in DOMAIN list : list[i] \in S
  OBVIOUS
<1>2. at \in DOMAIN list /\ list[at] = t
  BY DEF elem_find
<1>3. list_remove(list, t) = l  BY DEF list_remove
<1> HIDE DEF at
<1>4. Len(list) - 1 \in Nat /\ at \in Nat /\ at <= Len(list)
  BY <1>1, <1>2
<1>5. /\ l \in Seq(S) /\ DOMAIN l = 1 .. (Len(list) - 1)
      /\ \A i \in 1 .. (Len(list) - 1) : l[i] = IF i < at THEN list[i] ELSE list[i + 1]
  BY <1>1, <1>4
<1> HIDE DEF l
<1>6. \A i, j \in 1 .. Len(list) : list[i] = list[j] => i = j
  BY <1>1 DEF Distinct
<1>7. \A i \in 1 .. (Len(list) - 1) : l[i] # t
  BY <1>1, <1>2, <1>4, <1>5, <1>6
<1>8. Distinct(l)
  BY <1>4, <1>5, <1>6 DEF Distinct
<1>9. ASSUME NEW u, elem_find(l, u) PROVE u # t /\ elem_find(list, u)
  <2>1. PICK i \in 1 .. (Len(list) - 1) : l[i] = u  BY Zenon, <1>5, <1>9 DEF elem_find
  <2>2. l[i] = list[i] \/ l[i] = list[i + 1]  BY <1>5, <2>1
  <2>3. i \in DOMAIN list /\ i + 1 \in DOMAIN list  BY <1>1, <2>1
  <2> QED BY <1>7, <2>1, <2>2, <2>3 DEF elem_find
<1>10. ASSUME NEW u, u # t, elem_find(list, u) PROVE elem_find(l, u)
  <2>1. PICK i \in 1 .. Len(list) : list[i] = u  BY Zenon, <1>1, <1>10 DEF elem_find
  <2>2. CASE i < at
    <3>1. i \in 1 .. (Len(list) - 1) /\ l[i] = u  BY <1>4, <1>5, <2>1, <2>2
    <3> QED BY <1>5, <3>1 DEF elem_find
  <2>3. CASE i > at
    <3>1. i - 1 \in 1 .. (Len(list) - 1) /\ ~(i - 1 < at) /\ (i - 1) + 1 = i
      BY <1>1, <1>2, <1>4, <2>1, <2>3
    <3>2. l[i - 1] = u  BY Zenon, <1>5, <2>1, <3>1
    <3> QED BY Zenon, <1>5, <3>1, <3>2 DEF elem_find
  <2>4. i # at  BY Zenon, <1>2, <1>10, <2>1
  <2> QED BY <1>4, <2>1, <2>2, <2>3, <2>4
<1> QED BY <1>3, <1>5, <1>8, <1>9, <1>10

-----------------------------------------------------------------------------
(***************************************************************************)
(* The table looks at a thread's status only to see whether it waits for a *)
(* child, is a zombie or is dead.                                          *)
(***************************************************************************)
Gone == {TASK_WAITING, TASK_HANGING, TASK_DIED}

SameLife(k, r) ==
  \A t \in Threads : k.status[t] \in Gone \/ r.status[t] \in Gone => r.status[t] = k.status[t]

(***************************************************************************)
(* A change of the running thread does not alter that.                     *)
(***************************************************************************)
LEMMA LifeSame ==
  ASSUME NEW k, NEW r, Good(k),
         \A t \in Threads : Same(k, r, t) \/ (k.status[t] \notin Gone /\ r.status[t] \notin Gone)
  PROVE  SameLife(k, r)
<1> USE DEF Gone, Blocked, TASK_RUNNING, TASK_READY, TASK_BLOCKED, TASK_WAITING, TASK_HANGING,
            TASK_DIED
<1>1. k.status[idle_thread] \notin Gone  BY Zenon DEF Good, SchedOK
<1>2. Gone \subseteq Asleep  BY DEF Asleep
<1> QED BY Zenon, <1>1, <1>2 DEF SameLife, Same

(***************************************************************************)
(* Steps that do not alter it leave the table in order.                    *)
(***************************************************************************)
LEMMA TableLife ==
  ASSUME NEW k, NEW r, SameLife(k, r), NEW l, NEW pd, NEW pp, NEW bm,
         NEW ch \in [Threads -> Threads \cup {NULL}], NEW lk \in SUBSET Threads, NEW ad, NEW p,
         Table(k, l, pd, pp, bm, ch, lk, ad, p)
  PROVE  Table(r, l, pd, pp, bm, ch, lk, ad, p)
<1>1. \A t \in Threads, x \in Gone : r.status[t] = x <=> k.status[t] = x
  BY Zenon DEF SameLife
<1>2. TASK_WAITING \in Gone /\ TASK_HANGING \in Gone /\ TASK_DIED \in Gone
  BY DEF Gone
<1>3. \A t \in Threads : /\ r.status[t] = TASK_WAITING <=> k.status[t] = TASK_WAITING
                         /\ r.status[t] = TASK_HANGING <=> k.status[t] = TASK_HANGING
                         /\ r.status[t] = TASK_DIED <=> k.status[t] = TASK_DIED
  BY Zenon, <1>1, <1>2
<1>4. PlacesOK(r, p)  BY Zenon, <1>3, SchedAssumption DEF Table, PlacesOK
<1>5. TableOK(r, l)  BY Zenon, <1>3 DEF Table, TableOK
<1>6. ForksOK(r, ch, lk, p, pd, pp)  BY Zenon, <1>3 DEF Table, ForksOK
<1>7. ParentsOK(r, l, ch, p, pd, pp)  BY Zenon, <1>3 DEF Table, ParentsOK, ParentOf
<1>8. WaitersOK(r, l, pd, pp, ad)  BY Zenon, <1>3 DEF Table, WaitersOK
<1> QED BY <1>4, <1>5, <1>6, <1>7, <1>8 DEF Table

(***************************************************************************)
(* So does a thread that is not in the middle of a fork, or exiting, when  *)
(* it enters or leaves a call.                                             *)
(***************************************************************************)
LEMMA TablePc ==
  ASSUME NEW k, NEW l, NEW pd, NEW pp, NEW bm,
         NEW ch, NEW lk, NEW ad, NEW p \in [Threads -> Labels],
         Table(k, l, pd, pp, bm, ch, lk, ad, p),
         NEW t \in Threads \ {idle_thread}, k.status[t] \notin Gone,
         p[t] \notin {"fork_buf", "fork_copy"},
         NEW b \in Labels, b \notin {"fork_buf", "fork_copy", "exit"},
         IF t = main_thread THEN b \in {"user", "holding"} ELSE b # "holding"
  PROVE  Table(k, l, pd, pp, bm, ch, lk, ad, [p EXCEPT ![t] = b])
<1> DEFINE q == [p EXCEPT ![t] = b]
<1>1. \A u \in Threads : q[u] = IF u = t THEN b ELSE p[u]
  OBVIOUS
<1> HIDE DEF q
<1>2. \A u \in Threads : Used(l, ch, q, u) <=> Used(l, ch, p, u)
  BY Zenon, <1>1 DEF Used
<1>3. /\ PlacesOK(k, p) /\ TableOK(k, l)
      /\ PidsOK(l, ch, p, pd, bm) /\ BitmapOK(l, ch, p, pd, bm, lk)
      /\ ForksOK(k, ch, lk, p, pd, pp) /\ ParentsOK(k, l, ch, p, pd, pp)
      /\ WaitersOK(k, l, pd, pp, ad)
  BY DEF Table
<1>4. PlacesOK(k, q)
  BY Zenon, <1>1, <1>3, ThreadAssumption, SchedAssumption DEF PlacesOK, Gone
<1>5. PidsOK(l, ch, q, pd, bm)  BY Zenon, <1>2, <1>3 DEF PidsOK
<1>6. BitmapOK(l, ch, q, pd, bm, lk)  BY Zenon, <1>2, <1>3 DEF BitmapOK
<1>7. ForksOK(k, ch, lk, q, pd, pp)  BY Zenon, <1>1, <1>3 DEF ForksOK
<1>8. ParentsOK(k, l, ch, q, pd, pp)  BY Zenon, <1>1, <1>2, <1>3 DEF ParentsOK, ParentOf
<1> QED BY Zenon, <1>3, <1>4, <1>5, <1>6, <1>7, <1>8 DEF Table, q

-----------------------------------------------------------------------------
(***************************************************************************)
(* The running thread is neither asleep nor dead.                          *)
(***************************************************************************)
LEMMA Running ==
  ASSUME Inv
  PROVE  /\ sched.cur \in Threads /\ sched.status[sched.cur] = TASK_RUNNING
         /\ sched.status[sched.cur] \notin Gone
         /\ ~elem_find(pool_lock.waiters, sched.cur)
         /\ \A t \in Threads : elem_find(pool_lock.waiters, t) => t # idle_thread
         /\ sched.cpu = "up"
<1>1. sched.cur \in Threads /\ sched.status[sched.cur] = TASK_RUNNING /\ sched.cpu = "up"
  BY Zenon, GoodLeaves, RecordForm DEF Inv, Good
<1>2. sched.status[sched.cur] \notin Gone
  BY <1>1 DEF Gone, TASK_RUNNING, TASK_WAITING, TASK_HANGING, TASK_DIED
<1>3. ~elem_find(pool_lock.waiters, sched.cur)
  BY <1>1 DEF Inv, PoolOK, TASK_RUNNING, TASK_BLOCKED
<1>4. \A t \in Threads : elem_find(pool_lock.waiters, t) => t # idle_thread
  BY Zenon, ThreadAssumption DEF Inv, PoolOK, Table, PlacesOK
<1> QED BY Zenon, <1>1, <1>2, <1>3, <1>4

(***************************************************************************)
(* Who sleeps on the pool's lock still does after a step that changes only *)
(* other threads' statuses and places.                                     *)
(***************************************************************************)
LEMMA PoolKeeps ==
  ASSUME NEW k, NEW r, NEW s, NEW p, NEW q, PoolOK(k, s, p),
         q[main_thread] = "holding" <=> p[main_thread] = "holding",
         \A t \in Threads : elem_find(s.waiters, t) =>
            r.status[t] = k.status[t] /\ q[t] = p[t]
  PROVE  PoolOK(r, s, q)
BY Zenon DEF PoolOK

(***************************************************************************)
(* lock_acquire and lock_release of the pool's lock, when it is free: the  *)
(* caller goes on, and at most one thread that slept for it is woken.      *)
(***************************************************************************)
LEMMA PoolPass ==
  ASSUME Inv, pool_lock.value # 0
  PROVE  /\ Good(pool_pass.k) /\ pool_pass.k.cur = sched.cur /\ pool_pass.s \in Sema
         /\ PoolOK(pool_pass.k, pool_pass.s, pc)
         /\ SameLife(sched, pool_pass.k)
         /\ ~elem_find(pool_pass.s.waiters, sched.cur)
         /\ pool_pass.k.status[sched.cur] = TASK_RUNNING
<1> DEFINE g == sema_take(sched, pool_lock)
           r == sema_up(g.k, g.s)
<1>1. pool_lock \in Sema /\ pool_lock.value = 1 /\ Good(sched) /\ PoolOK(sched, pool_lock, pc)
  BY Zenon DEF Inv, TypeInv, Sema
<1>2. /\ g.k = sched /\ g.s \in Sema /\ g.s.value = 0 /\ g.s.waiters = pool_lock.waiters
  BY <1>1, SemaTake
<1>3. pool_pass = r  BY DEF pool_pass
<1> HIDE DEF g
<1>4. /\ Distinct(g.s.waiters) /\ Good(g.k)
      /\ \A u \in Threads : elem_find(g.s.waiters, u) => g.k.status[u] = TASK_BLOCKED
  BY <1>1, <1>2 DEF PoolOK
<1>5. /\ Good(r.k) /\ r.k.cur = g.k.cur /\ r.s \in Sema /\ r.s.value = 1
      /\ Distinct(r.s.waiters)
      /\ \A u \in Threads :
           /\ elem_find(r.s.waiters, u) =>
                elem_find(g.s.waiters, u) /\ r.k.status[u] = g.k.status[u]
           /\ \/ r.k.status[u] = g.k.status[u]
              \/ /\ elem_find(g.s.waiters, u) /\ g.k.status[u] = TASK_BLOCKED
                 /\ r.k.status[u] = TASK_READY
  BY Zenon, <1>2, <1>4, SemaUp
<1> HIDE DEF r
<1>6. PoolOK(r.k, r.s, pc)
  BY Zenon, <1>1, <1>2, <1>5 DEF PoolOK
<1>7. SameLife(sched, r.k)
  BY Zenon, <1>2, <1>5
  DEF SameLife, Gone, TASK_READY, TASK_BLOCKED, TASK_WAITING, TASK_HANGING, TASK_DIED
<1>8. ~elem_find(r.s.waiters, sched.cur) /\ r.k.status[sched.cur] = TASK_RUNNING
  BY Zenon, <1>2, <1>5, Running DEF TASK_RUNNING, TASK_BLOCKED
<1> QED BY Zenon, <1>2, <1>3, <1>5, <1>6, <1>7, <1>8

(***************************************************************************)
(* A thread in a fork or an exit that finds the lock taken goes to sleep.  *)
(***************************************************************************)
LEMMA KeepPoolWait ==
  ASSUME Inv, PoolWait, UNCHANGED <<procTable, forkVars, pc>>,
         pc[sched.cur] \in {"fork_pcb", "fork_buf", "fork_copy", "exit"}
  PROVE  Inv'
<1> DEFINE r == sema_wait(sched, pool_lock)
<1>1. /\ pool_lock \in Sema /\ Good(sched) /\ PoolOK(sched, pool_lock, pc)
      /\ PlacesOK(sched, pc) /\ Distinct(pool_lock.waiters)
  BY Zenon DEF Inv, TypeInv, Table, PoolOK
<1>2. sched.cur # idle_thread  BY Zenon, <1>1 DEF PlacesOK
<1>3. TASK_BLOCKED \in Blocked /\ sched' = r.k /\ pool_lock' = r.s
  BY Zenon DEF Blocked, PoolWait
<1>4. /\ r.k = thread_block(sched, TASK_BLOCKED)
      /\ r.s \in Sema /\ r.s.value = pool_lock.value /\ Distinct(r.s.waiters)
      /\ \A u : elem_find(r.s.waiters, u) <=> u = sched.cur \/ elem_find(pool_lock.waiters, u)
  BY Zenon, <1>1, Running, SemaWait
<1> HIDE DEF r
<1>5. /\ Good(sched') /\ sched'.status[sched.cur] = TASK_BLOCKED
      /\ \A t \in Threads \ {sched.cur} : Same(sched, sched', t)
  BY Zenon, <1>1, <1>2, <1>3, <1>4, BlockSame
<1>6. SameLife(sched, sched')
  <2>1. sched.status[sched.cur] \notin Gone /\ sched'.status[sched.cur] \notin Gone
    BY Zenon, <1>5, Running DEF Gone, TASK_BLOCKED, TASK_WAITING, TASK_HANGING, TASK_DIED
  <2> QED BY Zenon, <1>1, <1>5, <2>1, LifeSame
<1>7. Table(sched', thread_all_list, pid, parent_pid, pid_bitmap, child, leaked, adopted, pc)
  BY Zenon, <1>6, TableLife DEF Inv, TypeInv
<1>8. \A t \in Threads : elem_find(pool_lock.waiters, t) => sched'.status[t] = sched.status[t]
  BY Zenon, <1>1, <1>5, Running DEF PoolOK, Same, Asleep, Blocked
<1>9. PoolOK(sched', pool_lock', pc)
  BY Zenon, <1>1, <1>3, <1>4, <1>5, <1>8 DEF PoolOK
<1> QED
  BY Zenon, <1>3, <1>4, <1>5, <1>7, <1>9 DEF Inv, TypeInv, procTable, forkVars

(***************************************************************************)
(* Steps that only move the running thread between two places outside the  *)
(* middle of a fork, and touch the lock as PoolOK allows.                  *)
(***************************************************************************)
LEMMA KeepMoves ==
  ASSUME Inv, NEW b \in Labels, pc' = [pc EXCEPT ![sched.cur] = b],
         UNCHANGED <<procTable, forkVars>>,
         Good(sched'), SameLife(sched, sched'), pool_lock' \in Sema,
         PoolOK(sched', pool_lock', pc'),
         sched.cur # idle_thread, pc[sched.cur] \notin {"fork_buf", "fork_copy"},
         b \notin {"fork_buf", "fork_copy", "exit"},
         IF sched.cur = main_thread THEN b \in {"user", "holding"} ELSE b # "holding"
  PROVE  Inv'
<1>1. pc \in [Threads -> Labels] /\ child \in [Threads -> Threads \cup {NULL}]
      /\ leaked \in SUBSET Threads
  BY Zenon DEF Inv, TypeInv
<1>2. Table(sched, thread_all_list, pid, parent_pid, pid_bitmap, child, leaked, adopted, pc)
  BY DEF Inv
<1>3. pc' \in [Threads -> Labels]  BY Zenon, <1>1
<1>4. Table(sched, thread_all_list, pid, parent_pid, pid_bitmap, child, leaked, adopted, pc')
  BY Zenon, <1>1, <1>2, Running, TablePc
<1>5. Table(sched', thread_all_list, pid, parent_pid, pid_bitmap, child, leaked, adopted, pc')
  BY Zenon, <1>1, <1>4, TableLife
<1> QED BY Zenon, <1>3, <1>5 DEF Inv, TypeInv, procTable, forkVars

(***************************************************************************)
(* idle and the timer interrupt only change who runs.                      *)
(***************************************************************************)
LEMMA KeepSwitch ==
  ASSUME Inv, idle \/ TimerTick
  PROVE  Inv'
<1>1. Good(sched) /\ PoolOK(sched, pool_lock, pc)  BY Zenon DEF Inv
<1>2. /\ Good(sched') /\ SameLife(sched, sched')
      /\ \A t \in Threads \ {idle_thread} :
           sched.status[t] = TASK_BLOCKED => sched'.status[t] = TASK_BLOCKED
  <2>1. CASE idle
    <3>1. sched.cur = idle_thread /\ sched' = thread_block(sched, TASK_BLOCKED)
      BY Zenon, <2>1 DEF idle, SchedIdle, Runs
    <3>2. TASK_BLOCKED \in Blocked  BY DEF Blocked
    <3>3. Good(sched') /\ \A t \in Threads \ {idle_thread} : Same(sched, sched', t)
      BY Zenon, <1>1, <3>1, <3>2, BlockSame
    <3>4. sched'.status[idle_thread] \notin Gone /\ sched.status[idle_thread] \notin Gone
      BY Zenon, <1>1, <3>3
      DEF Good, SchedOK, Gone, TASK_RUNNING, TASK_READY, TASK_BLOCKED, TASK_WAITING,
          TASK_HANGING, TASK_DIED
    <3>5. SameLife(sched, sched')  BY Zenon, <1>1, <3>3, <3>4, LifeSame
    <3> QED BY Zenon, <3>3, <3>5 DEF Same, Asleep, Blocked
  <2>2. CASE TimerTick
    <3>1. sched' = intr_timer_handler(sched)  BY Zenon, <2>2 DEF TimerTick, SchedTick
    <3>2. Good(sched') /\ \A t \in Threads : Same(sched, sched', t)  BY <1>1, <3>1, TimerSame
    <3>3. SameLife(sched, sched')  BY Zenon, <1>1, <3>2, LifeSame
    <3> QED BY Zenon, <3>2, <3>3 DEF Same, Asleep, Blocked
  <2> QED BY Zenon, <2>1, <2>2
<1>3. UNCHANGED <<pool_lock, procTable, forkVars, pc>>  BY Zenon DEF idle, TimerTick
<1>4. PoolOK(sched', pool_lock, pc)  BY Zenon, <1>1, <1>2, Running DEF PoolOK
<1>5. Table(sched', thread_all_list, pid, parent_pid, pid_bitmap, child, leaked, adopted, pc)
  BY Zenon, <1>2, TableLife DEF Inv, TypeInv
<1> QED BY Zenon, <1>2, <1>3, <1>4, <1>5 DEF Inv, TypeInv, procTable, forkVars

(***************************************************************************)
(* main takes the pool's lock and gives it back.                           *)
(***************************************************************************)
LEMMA KeepMainLock ==
  ASSUME Inv, MainLock
  PROVE  Inv'
<1> DEFINE r == sema_down(sched, pool_lock)
<1>1. /\ sched.cur = main_thread /\ pc[main_thread] = "user"
      /\ sched' = r.k /\ pool_lock' = r.s /\ pc' = [pc EXCEPT ![main_thread] = "holding"]
      /\ UNCHANGED <<procTable, forkVars>>
  BY Zenon DEF MainLock, At, Goto
<1>2. /\ pool_lock \in Sema /\ Good(sched) /\ PoolOK(sched, pool_lock, pc)
      /\ pc \in [Threads -> Labels]
  BY DEF Inv, TypeInv
<1>3. pool_lock.value = 1 /\ pool_lock.value # 0  BY Zenon, <1>1, <1>2 DEF PoolOK, Sema
<1>4. r = sema_take(sched, pool_lock)  BY Zenon, <1>3 DEF sema_down
<1>5. /\ r.k = sched /\ r.s \in Sema /\ r.s.value = 0 /\ r.s.waiters = pool_lock.waiters
  BY <1>2, <1>3, <1>4, SemaTake
<1> HIDE DEF r
<1>6. \A t \in Threads : pc'[t] = IF t = main_thread THEN "holding" ELSE pc[t]
  BY Zenon, <1>1, <1>2
<1>7. PoolOK(sched', pool_lock', pc')
  BY Zenon, <1>1, <1>2, <1>5, <1>6, Running, SchedAssumption DEF PoolOK
<1>8. SameLife(sched, sched')  BY Zenon, <1>1, <1>5 DEF SameLife
<1> QED BY Zenon, <1>1, <1>2, <1>5, <1>7, <1>8, KeepMoves, SchedAssumption DEF Labels

(***************************************************************************)
(* main lets go of the lock of the pool, which wakes the first sleeper.    *)
(***************************************************************************)
LEMMA KeepMainUnlock ==
  ASSUME Inv, MainUnlock
  PROVE  Inv'
<1> DEFINE r == sema_up(sched, pool_lock)
<1>1. /\ sched.cur = main_thread /\ pc[main_thread] = "holding"
      /\ sched' = r.k /\ pool_lock' = r.s /\ pc' = [pc EXCEPT ![main_thread] = "user"]
      /\ UNCHANGED <<procTable, forkVars>>
  BY Zenon DEF MainUnlock, At, Goto
<1>2. /\ pool_lock \in Sema /\ Good(sched) /\ PoolOK(sched, pool_lock, pc)
      /\ pc \in [Threads -> Labels]
  BY Zenon DEF Inv, TypeInv
<1>3. /\ pool_lock.value = 0 /\ Distinct(pool_lock.waiters)
      /\ \A u \in Threads : elem_find(pool_lock.waiters, u) => sched.status[u] = TASK_BLOCKED
  BY Zenon, <1>1, <1>2 DEF PoolOK
<1>4. /\ Good(r.k) /\ r.s \in Sema /\ r.s.value = 1 /\ Distinct(r.s.waiters)
      /\ \A u \in Threads :
           /\ elem_find(r.s.waiters, u) =>
                elem_find(pool_lock.waiters, u) /\ r.k.status[u] = sched.status[u]
           /\ \/ r.k.status[u] = sched.status[u]
              \/ /\ elem_find(pool_lock.waiters, u) /\ sched.status[u] = TASK_BLOCKED
                 /\ r.k.status[u] = TASK_READY
  BY Zenon, <1>2, <1>3, SemaUp
<1> HIDE DEF r
<1>5. \A t \in Threads : pc'[t] = IF t = main_thread THEN "user" ELSE pc[t]
  BY Zenon, <1>1, <1>2
<1>6. PoolOK(sched', pool_lock', pc')
  BY <1>1, <1>2, <1>4, <1>5, Running, SchedAssumption DEF PoolOK
<1>7. SameLife(sched, sched')
  BY Zenon, <1>1, <1>4
  DEF SameLife, Gone, TASK_READY, TASK_BLOCKED, TASK_WAITING, TASK_HANGING, TASK_DIED
<1> QED BY Zenon, <1>1, <1>2, <1>4, <1>6, <1>7, KeepMoves, SchedAssumption DEF Labels

(***************************************************************************)
(* A process enters sys_fork or sys_wait.                                  *)
(***************************************************************************)
LEMMA KeepCall ==
  ASSUME Inv, NEW t \in Threads, CallFork(t) \/ CallWait(t)
  PROVE  Inv'
<1>1. PICK b \in {"fork_pcb", "wait"} :
        /\ Process(t) /\ sched.cur = t /\ pc[t] \in {"start", "user"}
        /\ pc' = [pc EXCEPT ![t] = b]
        /\ UNCHANGED <<sched, pool_lock, procTable, forkVars>>
  BY Zenon DEF CallFork, CallWait, At, Goto
<1>2. /\ pool_lock \in Sema /\ Good(sched) /\ PoolOK(sched, pool_lock, pc)
      /\ pc \in [Threads -> Labels]
  BY Zenon DEF Inv, TypeInv
<1>3. t \notin {main_thread, idle_thread}  BY <1>1 DEF Process
<1>4. \A u \in Threads : pc'[u] = IF u = t THEN b ELSE pc[u]  BY Zenon, <1>1, <1>2
<1>5. PoolOK(sched', pool_lock', pc')
  BY Zenon, <1>1, <1>2, <1>3, <1>4, Running, SchedAssumption DEF PoolOK
<1>6. SameLife(sched, sched')  BY Zenon, <1>1 DEF SameLife
<1> QED BY Zenon, <1>1, <1>2, <1>3, <1>5, <1>6, KeepMoves DEF Labels

-----------------------------------------------------------------------------
(***************************************************************************)
(* The steps of sys_fork start from a table that is in order after the     *)
(* pool's lock has been passed, and the caller is a process in the table.  *)
(***************************************************************************)
LEMMA ForkStarts ==
  ASSUME Inv, NEW t \in Threads, InFork(t), pool_lock.value # 0
  PROVE  /\ t = sched.cur /\ Process(t) /\ elem_find(thread_all_list, t)
         /\ pool_pass.k.status[t] \notin Gone
         /\ Table(pool_pass.k, thread_all_list, pid, parent_pid, pid_bitmap, child, leaked,
                  adopted, pc)
         /\ pool_pass.k.status[idle_thread] # TASK_DIED
<1>1. t = sched.cur /\ pc[t] \in {"fork_pcb", "fork_buf", "fork_copy"}
  BY Zenon DEF InFork, At
<1>2. /\ Good(pool_pass.k) /\ SameLife(sched, pool_pass.k)
      /\ pool_pass.k.status[t] = TASK_RUNNING
  BY Zenon, <1>1, PoolPass
<1>3. pool_pass.k.status[t] \notin Gone
  BY Zenon, <1>2 DEF Gone, TASK_RUNNING, TASK_WAITING, TASK_HANGING, TASK_DIED
<1>4. Table(pool_pass.k, thread_all_list, pid, parent_pid, pid_bitmap, child, leaked, adopted, pc)
  BY Zenon, <1>2, TableLife DEF Inv, TypeInv
<1>5. Process(t)  BY Zenon, <1>1, <1>4 DEF Table, PlacesOK, Process
<1>6. elem_find(thread_all_list, t)  BY Zenon, <1>3, <1>4 DEF Table, TableOK, Gone
<1>7. pool_pass.k.status[idle_thread] # TASK_DIED
  BY Zenon, <1>2 DEF Good, SchedOK, TASK_RUNNING, TASK_READY, TASK_BLOCKED, TASK_DIED
<1> QED BY Zenon, <1>1, <1>3, <1>4, <1>5, <1>6, <1>7

(***************************************************************************)
(* sys_fork gets a page for the child's PCB: one that nobody uses.         *)
(***************************************************************************)
LEMMA KeepForkPcb ==
  ASSUME Inv, NEW t \in Threads, ForkPcb(t)
  PROVE  Inv'
<1> DEFINE k == pool_pass.k
           s == pool_pass.s
           c == CHOOSE x \in FreePcbs : TRUE
<1>1. /\ InFork(t) /\ pc[t] = "fork_pcb" /\ pool_lock.value # 0 /\ FreePcbs # {}
      /\ sched' = k /\ pool_lock' = s /\ child' = [child EXCEPT ![t] = c]
      /\ pc' = [pc EXCEPT ![t] = "fork_buf"]
      /\ UNCHANGED <<thread_all_list, pid, parent_pid, pid_bitmap, leaked, shell, adopted>>
  BY Zenon DEF ForkPcb, InFork, At, Goto, procTable
<1>2. c \in FreePcbs  BY <1>1
<1> HIDE DEF c
<1>3. /\ c \in Threads /\ c \notin leaked /\ c # main_thread /\ sched.status[c] = TASK_DIED
      /\ \A u \in Threads : child[u] # c
  BY <1>2 DEF FreePcbs
<1>4. /\ pc \in [Threads -> Labels] /\ child \in [Threads -> Threads \cup {NULL}]
  BY DEF Inv, TypeInv
<1>5. /\ Good(k) /\ s \in Sema /\ PoolOK(k, s, pc) /\ SameLife(sched, k)
      /\ ~elem_find(s.waiters, sched.cur)
  BY <1>1, PoolPass
<1>6. /\ t = sched.cur /\ Process(t) /\ k.status[t] \notin Gone
      /\ Table(k, thread_all_list, pid, parent_pid, pid_bitmap, child, leaked, adopted, pc)
  BY <1>1, ForkStarts
<1> HIDE DEF k, s
<1>7. /\ PlacesOK(k, pc) /\ TableOK(k, thread_all_list)
      /\ PidsOK(thread_all_list, child, pc, pid, pid_bitmap)
      /\ BitmapOK(thread_all_list, child, pc, pid, pid_bitmap, leaked)
      /\ ForksOK(k, child, leaked, pc, pid, parent_pid)
      /\ ParentsOK(k, thread_all_list, child, pc, pid, parent_pid)
      /\ WaitersOK(k, thread_all_list, pid, parent_pid, adopted)
  BY <1>6 DEF Table
<1>8. k.status[c] = TASK_DIED  BY <1>3, <1>5 DEF SameLife, Gone
<1>9. /\ \A u \in Threads : pc'[u] = IF u = t THEN "fork_buf" ELSE pc[u]
      /\ \A u \in Threads : child'[u] = IF u = t THEN c ELSE child[u]
      /\ c # NULL /\ child[t] = NULL
  BY Zenon, <1>1, <1>3, <1>4, <1>7, SyncAssumption DEF ForksOK
<1>10. pc' \in [Threads -> Labels] /\ child' \in [Threads -> Threads \cup {NULL}]
  BY Zenon, <1>1, <1>3, <1>4 DEF Labels
<1>11. \A u \in Threads :
         Used(thread_all_list, child', pc', u) <=> Used(thread_all_list, child, pc, u)
  BY <1>1, <1>9 DEF Used
<1>12. PlacesOK(k, pc')
  BY <1>6, <1>7, <1>9, ThreadAssumption, SchedAssumption DEF PlacesOK, Process, Gone
<1>13. PidsOK(thread_all_list, child', pc', pid, pid_bitmap)  BY Zenon, <1>7, <1>11 DEF PidsOK
<1>14. BitmapOK(thread_all_list, child', pc', pid, pid_bitmap, leaked)
  BY <1>7, <1>11 DEF BitmapOK
<1>15. ForksOK(k, child', leaked, pc', pid, parent_pid)
  BY <1>3, <1>7, <1>8, <1>9 DEF ForksOK
<1>16. ParentsOK(k, thread_all_list, child', pc', pid, parent_pid)
  BY Zenon, <1>7, <1>9, <1>11 DEF ParentsOK, ParentOf
<1>17. PoolOK(k, s, pc')
  BY <1>5, <1>6, <1>9, SchedAssumption, PoolKeeps DEF Process
<1> QED
  BY Zenon, <1>1, <1>5, <1>7, <1>10, <1>12, <1>13, <1>14, <1>15, <1>16, <1>17
  DEF Inv, TypeInv, Table

(***************************************************************************)
(* sys_fork takes the first free pid and copies the PCB.                   *)
(***************************************************************************)
LEMMA KeepForkCopy ==
  ASSUME Inv, NEW t \in Threads, ForkCopy(t), FreePids # {}
  PROVE  Inv'
<1> DEFINE k == pool_pass.k
           s == pool_pass.s
           c == child[t]
           n == allocate_pid
<1>1. /\ InFork(t) /\ pc[t] = "fork_buf" /\ pool_lock.value # 0
      /\ sched' = k /\ pool_lock' = s /\ pid' = [pid EXCEPT ![c] = n]
      /\ parent_pid' = [parent_pid EXCEPT ![c] = pid[t]]
      /\ pid_bitmap' = pid_bitmap \cup {n}
      /\ pc' = [pc EXCEPT ![t] = "fork_copy"]
      /\ UNCHANGED <<thread_all_list, child, leaked, shell, adopted>>
  BY Zenon DEF ForkCopy, InFork, At, Goto, forkVars
<1>2. n \in 1 .. MaxPid /\ n \notin pid_bitmap /\ n \in Nat
  <2>1. FreePids \subseteq Nat  BY DEF FreePids
  <2>2. \E p \in FreePids : \A q \in FreePids : p <= q  BY Zenon, <2>1, LeastNumber
  <2>3. n \in FreePids  BY <2>2 DEF allocate_pid
  <2> QED BY <2>3 DEF FreePids
<1> HIDE DEF n
<1>3. /\ pc \in [Threads -> Labels] /\ child \in [Threads -> Threads \cup {NULL}]
      /\ pid \in [Threads -> Nat] /\ parent_pid \in [Threads -> Nat]
      /\ pid_bitmap \subseteq 1 .. MaxPid /\ leaked \subseteq Threads
  BY DEF Inv, TypeInv
<1>4. /\ Good(k) /\ s \in Sema /\ PoolOK(k, s, pc) /\ ~elem_find(s.waiters, sched.cur)
  BY <1>1, PoolPass
<1>5. /\ t = sched.cur /\ Process(t) /\ elem_find(thread_all_list, t) /\ k.status[t] \notin Gone
      /\ k.status[idle_thread] # TASK_DIED
      /\ Table(k, thread_all_list, pid, parent_pid, pid_bitmap, child, leaked, adopted, pc)
  BY Zenon, <1>1, ForkStarts
<1> HIDE DEF k, s
<1>6. /\ PlacesOK(k, pc) /\ TableOK(k, thread_all_list)
      /\ PidsOK(thread_all_list, child, pc, pid, pid_bitmap)
      /\ BitmapOK(thread_all_list, child, pc, pid, pid_bitmap, leaked)
      /\ ForksOK(k, child, leaked, pc, pid, parent_pid)
      /\ ParentsOK(k, thread_all_list, child, pc, pid, parent_pid)
      /\ WaitersOK(k, thread_all_list, pid, parent_pid, adopted)
  BY Zenon, <1>5 DEF Table
<1>7. /\ c \in Threads /\ c \notin leaked /\ k.status[c] = TASK_DIED /\ pc[c] = "user"
      /\ c \notin {t, init_proc, main_thread, idle_thread}
      /\ \A u \in Threads : child[u] = c => u = t
  <2>1. c \in Threads /\ c \notin leaked /\ k.status[c] = TASK_DIED /\ c # main_thread
    BY Zenon, <1>1, <1>3, <1>6 DEF ForksOK
  <2>2. c # t /\ c # init_proc /\ c # idle_thread /\ pc[c] = "user"
    BY Zenon, <1>5, <1>6, <2>1 DEF PlacesOK, Gone
  <2>3. \A u \in Threads : child[u] = c => u = t
    BY Zenon, <1>1, <1>6 DEF ForksOK
  <2> QED BY <2>1, <2>2, <2>3
<1> HIDE DEF c
<1>8. c = child[t] BY DEF c
<1>9. /\ \A u \in Threads : pc'[u] = IF u = t THEN "fork_copy" ELSE pc[u]
      /\ \A u \in Threads : pid'[u] = IF u = c THEN n ELSE pid[u]
      /\ \A u \in Threads : parent_pid'[u] = IF u = c THEN pid[t] ELSE parent_pid[u]
  BY <1>1, <1>3
<1>10. /\ pc' \in [Threads -> Labels] /\ pid' \in [Threads -> Nat]
       /\ parent_pid' \in [Threads -> Nat] /\ pid_bitmap' \subseteq 1 .. MaxPid
  BY Zenon, <1>1, <1>2, <1>3 DEF Labels
<1>11. ~elem_find(thread_all_list, c)  BY Zenon, <1>6, <1>7 DEF TableOK
<1>12. ~Used(thread_all_list, child, pc, c)  BY Zenon, <1>1, <1>7, <1>11 DEF Used
<1>13. \A u \in Threads : Used(thread_all_list, child, pc', u) <=>
                          u = c \/ Used(thread_all_list, child, pc, u)
  BY <1>1, <1>8, <1>9 DEF Used
<1>14. PlacesOK(k, pc')
  BY <1>5, <1>6, <1>9, ThreadAssumption, SchedAssumption DEF PlacesOK, Process, Gone
<1>15. PidsOK(thread_all_list, child, pc', pid', pid_bitmap')
  <2>1. pid'[init_proc] = INIT_PID  BY Zenon, <1>6, <1>7, <1>9, SchedAssumption DEF PidsOK
  <2>2. \A u \in Threads : Used(thread_all_list, child, pc, u) => u # c /\ pid'[u] = pid[u]
    BY Zenon, <1>9, <1>12
  <2>3. \A u \in Threads : Used(thread_all_list, child, pc, u) => pid[u] \in pid_bitmap
    BY <1>6 DEF PidsOK
  <2>4. \A u, v \in Threads :
          (/\ Used(thread_all_list, child, pc, u) /\ Used(thread_all_list, child, pc, v)
           /\ pid[u] = pid[v]) => u = v
    BY <1>6 DEF PidsOK
  <2>5. pid'[c] = n  BY <1>7, <1>9
  <2>6. \A u \in Threads : Used(thread_all_list, child, pc', u) => pid'[u] \in pid_bitmap'
    BY <1>1, <1>13, <2>2, <2>3, <2>5
  <2>7. \A u, v \in Threads :
          (/\ Used(thread_all_list, child, pc', u) /\ Used(thread_all_list, child, pc', v)
           /\ pid'[u] = pid'[v]) => u = v
    BY Zenon, <1>2, <1>13, <2>2, <2>3, <2>4, <2>5
  <2> QED BY Zenon, <2>1, <2>6, <2>7 DEF PidsOK
<1>16. BitmapOK(thread_all_list, child, pc', pid', pid_bitmap', leaked)
  <2> SUFFICES ASSUME NEW m \in pid_bitmap'
               PROVE  \E u \in Threads : pid'[u] = m /\
                        (Used(thread_all_list, child, pc', u) \/ u \in leaked)
    BY Zenon DEF BitmapOK
  <2>1. CASE m = n  BY <1>7, <1>9, <1>13, <2>1
  <2>2. CASE m \in pid_bitmap
    <3>1. PICK u \in Threads :
            pid[u] = m /\ (Used(thread_all_list, child, pc, u) \/ u \in leaked)
      BY Zenon, <1>6, <2>2 DEF BitmapOK
    <3>2. u # c  BY <1>7, <1>12, <3>1
    <3> QED BY Zenon, <1>9, <1>13, <3>1, <3>2
  <2> QED BY ZenonT(30), <1>1, <2>1, <2>2
<1>17. ForksOK(k, child, leaked, pc', pid', parent_pid')
  BY <1>1, <1>6, <1>7, <1>8, <1>9 DEF ForksOK
<1>18. ParentsOK(k, thread_all_list, child, pc', pid', parent_pid')
  <2>1. /\ parent_pid'[init_proc] = NoParent /\ parent_pid'[main_thread] = NoParent
        /\ parent_pid'[idle_thread] = NoParent
    BY Zenon, <1>6, <1>7, <1>9, ThreadAssumption, SchedAssumption DEF ParentsOK
  <2>2. ParentOf(k, thread_all_list, pc', pid', parent_pid', c, t)
    BY Zenon, <1>5, <1>7, <1>9 DEF ParentOf, Gone
  <2>3. ASSUME NEW u \in Threads, NEW q \in Threads, u # c,
               ParentOf(k, thread_all_list, pc, pid, parent_pid, u, q)
        PROVE  ParentOf(k, thread_all_list, pc', pid', parent_pid', u, q)
    <3>1. q # c  BY Zenon, <1>11, <2>3 DEF ParentOf
    <3> QED BY Zenon, <1>9, <2>3, <3>1 DEF ParentOf
  <2> QED BY Zenon, <1>6, <1>13, <2>1, <2>2, <2>3 DEF ParentsOK
<1>19. WaitersOK(k, thread_all_list, pid', parent_pid', adopted)
  <2>1. \A u \in Threads : k.status[u] = TASK_WAITING => u # c
    BY Zenon, <1>7 DEF TASK_WAITING, TASK_DIED
  <2>2. \A u \in Threads : elem_find(thread_all_list, u) => u # c  BY <1>11
  <2> QED BY Zenon, <1>6, <1>9, <2>1, <2>2 DEF WaitersOK
<1>20. PoolOK(k, s, pc')
  BY <1>4, <1>5, <1>9, SchedAssumption, PoolKeeps DEF Process
<1> QED
  BY Zenon, <1>1, <1>4, <1>6, <1>10, <1>14, <1>15, <1>16, <1>17, <1>18, <1>19, <1>20
  DEF Inv, TypeInv, Table

(***************************************************************************)
(* sys_fork ends: the child enters the ready list and the table.           *)
(***************************************************************************)
LEMMA KeepForkDone ==
  ASSUME Inv, NEW t \in Threads, ForkDone(t)
  PROVE  Inv'
<1> DEFINE k == pool_pass.k
           s == pool_pass.s
           c == child[t]
           l == thread_all_list
           r == thread_start(k, c)
<1>1. /\ InFork(t) /\ pc[t] = "fork_copy" /\ pool_lock.value # 0
      /\ sched' = r /\ pool_lock' = s /\ l' = Append(l, c)
      /\ child' = [child EXCEPT ![t] = NULL]
      /\ pc' = [pc EXCEPT ![t] = "user", ![c] = "user"]
      /\ UNCHANGED <<pid, parent_pid, pid_bitmap, leaked, adopted>>
  BY Zenon DEF ForkDone, InFork, At
<1>2. /\ pc \in [Threads -> Labels] /\ child \in [Threads -> Threads \cup {NULL}]
      /\ leaked \subseteq Threads /\ l \in Seq(Threads)
  BY DEF Inv, TypeInv
<1>3. /\ Good(k) /\ s \in Sema /\ PoolOK(k, s, pc) /\ ~elem_find(s.waiters, sched.cur)
  BY Zenon, <1>1, PoolPass
<1>4. /\ t = sched.cur /\ Process(t) /\ elem_find(l, t) /\ k.status[t] \notin Gone
      /\ k.status[idle_thread] # TASK_DIED
      /\ Table(k, l, pid, parent_pid, pid_bitmap, child, leaked, adopted, pc)
  BY Zenon, <1>1, ForkStarts
<1> HIDE DEF k, s
<1>5. /\ PlacesOK(k, pc) /\ TableOK(k, l)
      /\ PidsOK(l, child, pc, pid, pid_bitmap) /\ BitmapOK(l, child, pc, pid, pid_bitmap, leaked)
      /\ ForksOK(k, child, leaked, pc, pid, parent_pid)
      /\ ParentsOK(k, l, child, pc, pid, parent_pid)
      /\ WaitersOK(k, l, pid, parent_pid, adopted)
  BY Zenon, <1>4 DEF Table
<1>6. /\ c \in Threads /\ c \notin leaked /\ k.status[c] = TASK_DIED /\ pc[c] = "user"
      /\ c \notin {t, init_proc, main_thread, idle_thread}
      /\ \A u \in Threads : child[u] = c => u = t
  <2>1. c \in Threads /\ c \notin leaked /\ k.status[c] = TASK_DIED /\ c # main_thread
    BY Zenon, <1>1, <1>2, <1>5 DEF ForksOK
  <2>2. c # t /\ c # init_proc /\ c # idle_thread /\ pc[c] = "user"
    BY Zenon, <1>4, <1>5, <2>1 DEF PlacesOK, Gone
  <2>3. \A u \in Threads : child[u] = c => u = t
    BY Zenon, <1>1, <1>5 DEF ForksOK
  <2> QED BY Zenon, <2>1, <2>2, <2>3
<1> HIDE DEF c
<1>7. c = child[t]  BY DEF c
<1>8. Good(r) /\ r.status = [k.status EXCEPT ![c] = TASK_READY]
  BY Zenon, <1>3, <1>6, ThreadStart
<1> HIDE DEF r
<1>9. k.status \in [Threads -> Status]  BY <1>3, RecordForm DEF Good
<1>10. /\ \A u \in Threads : pc'[u] = IF u = t \/ u = c THEN "user" ELSE pc[u]
       /\ \A u \in Threads : child'[u] = IF u = t THEN NULL ELSE child[u]
       /\ \A u \in Threads : r.status[u] = IF u = c THEN TASK_READY ELSE k.status[u]
  BY Zenon, <1>1, <1>2, <1>6, <1>8, <1>9
<1>11. pc' \in [Threads -> Labels] /\ child' \in [Threads -> Threads \cup {NULL}]
  BY Zenon, <1>1, <1>2 DEF Labels
<1>12. ~elem_find(l, c)  BY Zenon, <1>5, <1>6 DEF TableOK
<1>13. /\ l' \in Seq(Threads) /\ Distinct(l')
       /\ \A u : elem_find(l', u) <=> u = c \/ elem_find(l, u)
  BY Zenon, <1>1, <1>2, <1>5, <1>6, <1>12, AppendList DEF TableOK
<1> HIDE DEF l
<1>14. \A u \in Threads : Used(l', child', pc', u) <=> Used(l, child, pc, u)
  <2>1. Used(l, child, pc, c)  BY Zenon, <1>1, <1>7 DEF Used
  <2>2. Used(l', child', pc', c)  BY <1>13 DEF Used
  <2>3. ASSUME NEW u \in Threads, u # c
        PROVE  Used(l', child', pc', u) <=> Used(l, child, pc, u)
    <3>1. elem_find(l', u) <=> elem_find(l, u)  BY <1>13, <2>3
    <3>2. \A x \in Threads : child'[x] = u /\ pc'[x] = "fork_copy" <=>
                              child[x] = u /\ pc[x] = "fork_copy"
      BY Zenon, <1>6, <1>7, <1>10, <2>3, SyncAssumption
    <3> QED BY <3>1, <3>2 DEF Used
  <2> QED BY Zenon, <2>1, <2>2, <2>3
<1>15. TASK_READY \notin Gone  BY DEF Gone, TASK_READY, TASK_WAITING, TASK_HANGING, TASK_DIED
<1>16. PlacesOK(r, pc')
  BY <1>4, <1>5, <1>6, <1>10, <1>15, ThreadAssumption, SchedAssumption
  DEF PlacesOK, Process, Gone
<1>17. TableOK(r, l')  BY Zenon, <1>5, <1>10, <1>13, <1>15 DEF TableOK, Gone
<1>18. PidsOK(l', child', pc', pid, pid_bitmap)  BY Zenon, <1>5, <1>14 DEF PidsOK
<1>19. BitmapOK(l', child', pc', pid, pid_bitmap, leaked)  BY <1>5, <1>14 DEF BitmapOK
<1>20. ForksOK(r, child', leaked, pc', pid, parent_pid)
  <2>1. \A u \in Threads \ {t} : child[u] # c  BY Zenon, <1>6
  <2>2. child[c] = NULL  BY Zenon, <1>5, <1>6 DEF ForksOK
  <2>3. \A u \in Threads : child'[u] # NULL =>
          /\ u # t /\ u # c /\ child'[u] = child[u] /\ child[u] # NULL /\ child[u] \in Threads
          /\ r.status[child[u]] = k.status[child[u]]
    BY Zenon, <1>2, <1>10, <2>1, <2>2
  <2>4. \A u \in Threads : pc'[u] \in {"fork_buf", "fork_copy"} <=> child'[u] # NULL
    BY Zenon, <1>5, <1>10, <2>2 DEF ForksOK
  <2>5. \A u \in leaked : r.status[u] = TASK_DIED  BY Zenon, <1>2, <1>5, <1>6, <1>10 DEF ForksOK
  <2>6. \A u \in Threads : pc'[u] = "fork_copy" => parent_pid[child'[u]] = pid[u]
    BY Zenon, <1>5, <1>10 DEF ForksOK
  <2>7. \A u \in Threads : child'[u] # NULL =>
          r.status[child'[u]] = TASK_DIED /\ child'[u] \notin leaked /\ child'[u] # main_thread
    BY Zenon, <1>5, <2>3 DEF ForksOK
  <2>8. \A u, v \in Threads : child'[u] # NULL /\ child'[u] = child'[v] => u = v
    BY <1>5, <2>3 DEF ForksOK
  <2> QED BY Zenon, <2>4, <2>5, <2>6, <2>7, <2>8 DEF ForksOK
<1>21. ParentsOK(r, l', child', pc', pid, parent_pid)
  <2>1. ASSUME NEW u \in Threads, NEW q \in Threads,
               ParentOf(k, l, pc, pid, parent_pid, u, q)
        PROVE  ParentOf(r, l', pc', pid, parent_pid, u, q)
    <3>1. q # c  BY Zenon, <1>12, <2>1 DEF ParentOf
    <3> QED BY Zenon, <1>10, <1>13, <2>1, <3>1 DEF ParentOf
  <2> QED BY Zenon, <1>5, <1>14, <2>1 DEF ParentsOK
<1>22. WaitersOK(r, l', pid, parent_pid, adopted)
  <2>1. \A u \in Threads : /\ r.status[u] = TASK_WAITING => k.status[u] = TASK_WAITING
                           /\ r.status[u] = TASK_HANGING => k.status[u] = TASK_HANGING /\ u # c
    BY Zenon, <1>10, <1>15 DEF Gone
  <2> QED BY Zenon, <1>5, <1>13, <2>1 DEF WaitersOK
<1>23. PoolOK(r, s, pc')
  <2>1. \A u \in Threads : elem_find(s.waiters, u) => u # t /\ u # c
    BY Zenon, <1>3, <1>4, <1>6 DEF PoolOK, TASK_BLOCKED, TASK_DIED
  <2> QED BY <1>3, <1>4, <1>6, <1>10, <2>1, SchedAssumption, PoolKeeps DEF Process
<1> QED
  BY Zenon, <1>1, <1>2, <1>3, <1>8, <1>11, <1>13, <1>16, <1>17, <1>18, <1>19, <1>20, <1>21, <1>22, <1>23
  DEF Inv, TypeInv, Table, l

(***************************************************************************)
(* sys_fork fails for want of memory: what it had got is lost.             *)
(***************************************************************************)
LEMMA KeepForkFails ==
  ASSUME Inv, NEW t \in Threads, ForkFails(t)
  PROVE  Inv'
<1> DEFINE k == pool_pass.k
           s == pool_pass.s
           c == child[t]
           l == thread_all_list
<1>1. /\ InFork(t) /\ pool_lock.value # 0
      /\ sched' = k /\ pool_lock' = s
      /\ leaked' = leaked \cup ({c} \ {NULL})
      /\ child' = [child EXCEPT ![t] = NULL] /\ pc' = [pc EXCEPT ![t] = "user"]
      /\ UNCHANGED <<l, pid, parent_pid, pid_bitmap, adopted>>
  BY Zenon DEF ForkFails, Goto, procTable
<1>2. /\ pc \in [Threads -> Labels] /\ child \in [Threads -> Threads \cup {NULL}]
      /\ leaked \subseteq Threads
  BY DEF Inv, TypeInv
<1>3. /\ Good(k) /\ s \in Sema /\ PoolOK(k, s, pc) /\ ~elem_find(s.waiters, sched.cur)
  BY Zenon, <1>1, PoolPass
<1>4. /\ t = sched.cur /\ Process(t) /\ k.status[t] \notin Gone
      /\ Table(k, l, pid, parent_pid, pid_bitmap, child, leaked, adopted, pc)
  BY Zenon, <1>1, ForkStarts
<1> HIDE DEF k, s, c, l
<1>5. /\ PlacesOK(k, pc) /\ TableOK(k, l)
      /\ PidsOK(l, child, pc, pid, pid_bitmap) /\ BitmapOK(l, child, pc, pid, pid_bitmap, leaked)
      /\ ForksOK(k, child, leaked, pc, pid, parent_pid)
      /\ ParentsOK(k, l, child, pc, pid, parent_pid)
      /\ WaitersOK(k, l, pid, parent_pid, adopted)
  BY Zenon, <1>4 DEF Table
<1>6. c = child[t] /\ c \in Threads \cup {NULL}  BY <1>2 DEF c
<1>7. /\ \A u \in Threads : pc'[u] = IF u = t THEN "user" ELSE pc[u]
      /\ \A u \in Threads : child'[u] = IF u = t THEN NULL ELSE child[u]
  BY <1>1, <1>2
<1>8. /\ pc' \in [Threads -> Labels] /\ child' \in [Threads -> Threads \cup {NULL}]
      /\ leaked' \subseteq Threads
  BY <1>1, <1>2, <1>6 DEF Labels
<1>9. \A u \in Threads : /\ Used(l, child', pc', u) => Used(l, child, pc, u)
                         /\ Used(l, child, pc, u) => Used(l, child', pc', u) \/ u = c
  BY Zenon, <1>6, <1>7, SyncAssumption DEF Used
<1>10. PlacesOK(k, pc')
  BY Zenon, <1>4, <1>5, <1>7, ThreadAssumption, SchedAssumption DEF PlacesOK, Process, Gone
<1>11. PidsOK(l, child', pc', pid, pid_bitmap)  BY Zenon, <1>5, <1>9 DEF PidsOK
<1>12. BitmapOK(l, child', pc', pid, pid_bitmap, leaked')
  <2>1. \A u \in Threads : Used(l, child, pc, u) \/ u \in leaked =>
                             Used(l, child', pc', u) \/ u \in leaked'
    BY ZenonT(30), <1>1, <1>9, SyncAssumption
  <2> QED BY <1>5, <2>1 DEF BitmapOK
<1>13. ForksOK(k, child', leaked', pc', pid, parent_pid)
  <2>1. c # NULL => k.status[c] = TASK_DIED  BY Zenon, <1>5, <1>6 DEF ForksOK
  <2>2. \A u \in Threads \ {t} : child[u] # NULL => child[u] # c
    BY Zenon, <1>5, <1>6 DEF ForksOK
  <2>3. \A u \in Threads : child'[u] # NULL => child'[u] \notin leaked'
    BY <1>1, <1>5, <1>7, <2>2 DEF ForksOK
  <2>4. \A u \in leaked' : k.status[u] = TASK_DIED
    BY Zenon, <1>1, <1>5, <2>1 DEF ForksOK
  <2> QED BY Zenon, <1>5, <1>7, <2>3, <2>4 DEF ForksOK
<1>14. ParentsOK(k, l, child', pc', pid, parent_pid)
  BY Zenon, <1>5, <1>7, <1>9 DEF ParentsOK, ParentOf
<1>15. PoolOK(k, s, pc')
  BY <1>3, <1>4, <1>7, SchedAssumption, PoolKeeps DEF Process
<1> QED
  BY Zenon, <1>1, <1>3, <1>5, <1>8, <1>10, <1>11, <1>12, <1>13, <1>14, <1>15
  DEF Inv, TypeInv, Table, l

-----------------------------------------------------------------------------
(***************************************************************************)
(* thread_exit takes a thread out of the table that is nobody's parent and *)
(* that no sleeper waits for; its pid becomes free.                        *)
(***************************************************************************)
LEMMA TableLeave ==
  ASSUME NEW k, NEW r, NEW l \in Seq(Threads), NEW pd, NEW pp, NEW bm,
         NEW ch \in [Threads -> Threads \cup {NULL}], NEW lk \in SUBSET Threads, NEW ad, NEW p,
         Table(k, l, pd, pp, bm, ch, lk, ad, p),
         NEW c \in Threads, c # init_proc, k.status[c] # TASK_DIED,
         c = main_thread \/ k.status[c] = TASK_HANGING, p[c] = "user",
         r.status[c] = TASK_DIED,
         \A u \in Threads \ {c}, x \in Gone : r.status[u] = x <=> k.status[u] = x,
         \A u \in Threads : k.status[u] = TASK_WAITING => pp[c] # pd[u],
         NEW d, \A u \in ad : u # c => u \in d
  PROVE  /\ list_remove(l, c) \in Seq(Threads)
         /\ Table(r, list_remove(l, c), pd, pp, bm \ {pd[c]}, ch, lk, d, p)
<1> DEFINE n == list_remove(l, c)
           b == bm \ {pd[c]}
<1>1. /\ PlacesOK(k, p) /\ TableOK(k, l) /\ PidsOK(l, ch, p, pd, bm)
      /\ BitmapOK(l, ch, p, pd, bm, lk) /\ ForksOK(k, ch, lk, p, pd, pp)
      /\ ParentsOK(k, l, ch, p, pd, pp) /\ WaitersOK(k, l, pd, pp, ad)
  BY Zenon DEF Table
<1>2. elem_find(l, c)  BY Zenon, <1>1 DEF TableOK
<1>3. /\ n \in Seq(Threads) /\ Distinct(n)
      /\ \A u : elem_find(n, u) <=> u # c /\ elem_find(l, u)
  BY Zenon, <1>1, <1>2, RemoveList DEF TableOK
<1> HIDE DEF n
<1>4. \A u \in Threads \ {c} : /\ r.status[u] = TASK_WAITING <=> k.status[u] = TASK_WAITING
                               /\ r.status[u] = TASK_HANGING <=> k.status[u] = TASK_HANGING
                               /\ r.status[u] = TASK_DIED <=> k.status[u] = TASK_DIED
  BY Zenon DEF Gone
<1>5. r.status[c] # TASK_WAITING /\ r.status[c] # TASK_HANGING
  BY Zenon DEF TASK_WAITING, TASK_HANGING, TASK_DIED
<1>6. ASSUME NEW u \in Threads PROVE ch[u] # c
  <2>1. c # NULL  BY Zenon, SyncAssumption
  <2>2. ch[u] # NULL => k.status[ch[u]] = TASK_DIED  BY Zenon, <1>1 DEF ForksOK
  <2> QED BY Zenon, <2>1, <2>2
<1>7. \A u \in Threads : Used(n, ch, p, u) <=> u # c /\ Used(l, ch, p, u)
  BY Zenon, <1>3, <1>6 DEF Used
<1>8. Used(l, ch, p, c)  BY Zenon, <1>2 DEF Used
<1>9. PlacesOK(r, p)
  <2>1. \A u \in Threads \ {c} : r.status[u] \in {TASK_HANGING, TASK_DIED} <=>
                                 k.status[u] \in {TASK_HANGING, TASK_DIED}
    BY ZenonT(30), <1>4
  <2>2. \A u \in Threads : r.status[u] \in {TASK_HANGING, TASK_DIED} => p[u] = "user"
    BY Zenon, <1>1, <2>1 DEF PlacesOK
  <2>3. r.status[init_proc] \notin {TASK_HANGING, TASK_DIED}
    BY Zenon, <1>1, <2>1, SchedAssumption DEF PlacesOK
  <2>4. \A u \in Threads : r.status[u] = TASK_WAITING => p[u] = "wait"
    BY Zenon, <1>1, <1>4, <1>5 DEF PlacesOK
  <2>5. r.status[main_thread] # TASK_HANGING
    BY Zenon, <1>1, <1>4, <1>5, SchedAssumption DEF PlacesOK
  <2> QED BY Zenon, <1>1, <2>2, <2>3, <2>4, <2>5 DEF PlacesOK
<1>10. TableOK(r, n)  BY ZenonT(30), <1>1, <1>3, <1>4 DEF TableOK
<1>11. PidsOK(n, ch, p, pd, b)  BY ZenonT(30), <1>1, <1>7, <1>8 DEF PidsOK
<1>12. BitmapOK(n, ch, p, pd, b, lk)  BY Zenon, <1>1, <1>7 DEF BitmapOK
<1>13. ForksOK(r, ch, lk, p, pd, pp)
  <2>1. \A u \in Threads : k.status[u] = TASK_DIED => r.status[u] = TASK_DIED  BY Zenon, <1>4
  <2> QED BY ZenonT(30), <1>1, <2>1 DEF ForksOK
<1>14. ParentsOK(r, n, ch, p, pd, pp)
  <2>1. ASSUME NEW u \in Threads, NEW q \in Threads, ParentOf(k, l, p, pd, pp, u, q)
        PROVE  ParentOf(r, n, p, pd, pp, u, q)
    <3>1. q # c  BY Zenon, <2>1 DEF ParentOf, Process
    <3> QED BY Zenon, <1>3, <1>4, <2>1, <3>1 DEF ParentOf
  <2> QED BY Zenon, <1>1, <1>7, <2>1 DEF ParentsOK
<1>15. WaitersOK(r, n, pd, pp, d)
  BY ZenonT(30), <1>1, <1>3, <1>4, <1>5 DEF WaitersOK
<1> QED
  BY Zenon, <1>3, <1>9, <1>10, <1>11, <1>12, <1>13, <1>14, <1>15 DEF Table, n

(***************************************************************************)
(* main leaves the table at the end of boot: it is nobody's parent.        *)
(***************************************************************************)
LEMMA KeepMainExit ==
  ASSUME Inv, MainExit
  PROVE  Inv'
<1> DEFINE m == main_thread
           r == thread_exit(sched, m, TRUE)
<1>1. /\ sched.cur = m /\ pc[m] = "user" /\ sched' = r
      /\ thread_all_list' = list_remove(thread_all_list, m)
      /\ pid_bitmap' = pid_bitmap \ {pid[m]}
      /\ UNCHANGED <<pool_lock, pid, parent_pid, child, leaked, adopted, pc>>
  BY Zenon DEF MainExit, At, forkVars
<1>2. /\ Good(sched) /\ PoolOK(sched, pool_lock, pc) /\ thread_all_list \in Seq(Threads)
      /\ child \in [Threads -> Threads \cup {NULL}] /\ leaked \in SUBSET Threads
      /\ pid_bitmap \subseteq 1 .. MaxPid
      /\ Table(sched, thread_all_list, pid, parent_pid, pid_bitmap, child, leaked, adopted, pc)
  BY DEF Inv, TypeInv
<1>3. m \in Threads /\ m # idle_thread /\ m # init_proc  BY SchedAssumption
<1>4. Good(r) /\ r.status[m] = TASK_DIED /\ \A u \in Threads \ {m} : Same(sched, r, u)
  BY ZenonT(30), <1>1, <1>2, <1>3, ThreadExit
<1> HIDE DEF r
<1>5. sched.status[m] \notin Gone /\ ~elem_find(pool_lock.waiters, m)
  BY Zenon, <1>1, Running
<1>6. \A u \in Threads \ {m}, x \in Gone : r.status[u] = x <=> sched.status[u] = x
  <2>1. sched.status[idle_thread] \notin Gone /\ r.status[idle_thread] \notin Gone
    BY Zenon, <1>2, <1>4
    DEF Good, SchedOK, Gone, TASK_RUNNING, TASK_READY, TASK_BLOCKED, TASK_WAITING,
        TASK_HANGING, TASK_DIED
  <2> QED BY Zenon, <1>4, <2>1 DEF Same, Asleep, Blocked, Gone
<1>7. ASSUME NEW u \in Threads, sched.status[u] = TASK_WAITING
      PROVE  parent_pid[m] # pid[u]
  <2>1. elem_find(thread_all_list, u)
    BY Zenon, <1>2, <1>7 DEF Table, TableOK, TASK_WAITING, TASK_DIED
  <2>2. pid[u] \in 1 .. MaxPid  BY Zenon, <1>2, <2>1 DEF Table, PidsOK, Used
  <2> QED BY <1>2, <2>2 DEF Table, ParentsOK, NoParent
<1>8. /\ thread_all_list' \in Seq(Threads)
      /\ Table(r, thread_all_list', pid, parent_pid, pid_bitmap', child, leaked, adopted, pc)
  <2>1. sched.status[m] # TASK_DIED  BY Zenon, <1>5 DEF Gone
  <2>2. \A u \in adopted : u # m => u \in adopted  OBVIOUS
  <2> HIDE DEF m
  <2>3. m = main_thread \/ sched.status[m] = TASK_HANGING  BY DEF m
  <2>4. /\ thread_all_list \in Seq(Threads) /\ child \in [Threads -> Threads \cup {NULL}]
        /\ leaked \in SUBSET Threads
        /\ Table(sched, thread_all_list, pid, parent_pid, pid_bitmap, child, leaked, adopted, pc)
    BY <1>2
  <2>5. m \in Threads /\ m # init_proc /\ pc[m] = "user" /\ r.status[m] = TASK_DIED
    BY Zenon, <1>1, <1>3, <1>4
  <2>6. /\ list_remove(thread_all_list, m) \in Seq(Threads)
        /\ Table(r, list_remove(thread_all_list, m), pid, parent_pid, pid_bitmap \ {pid[m]},
                 child, leaked, adopted, pc)
    BY ZenonT(30), <1>6, <1>7, <2>1, <2>2, <2>3, <2>4, <2>5, TableLeave
  <2> QED BY Zenon, <1>1, <2>6
<1>9. PoolOK(r, pool_lock, pc)
  <2>1. \A u \in Threads : elem_find(pool_lock.waiters, u) => r.status[u] = sched.status[u]
    BY Zenon, <1>2, <1>4, <1>5, Running DEF PoolOK, Same, Asleep, Blocked
  <2> QED BY Zenon, <1>2, <2>1, PoolKeeps
<1> QED
  BY Zenon, <1>1, <1>2, <1>4, <1>8, <1>9 DEF Inv, TypeInv

(***************************************************************************)
(* sys_wait reaps an exited child.                                         *)
(***************************************************************************)
LEMMA KeepReap ==
  ASSUME Inv, NEW t \in Threads, sys_wait(t),
         list_traversal(thread_all_list, Exited(t)) # NULL
  PROVE  Inv'
<1> DEFINE c == list_traversal(thread_all_list, Exited(t))
           r == thread_exit(sched, c, FALSE)
<1>1. /\ sched.cur = t /\ pc[t] = "wait" /\ sched' = r
      /\ thread_all_list' = list_remove(thread_all_list, c)
      /\ pid_bitmap' = pid_bitmap \ {pid[c]}
      /\ adopted' = adopted \ {c} /\ pc' = [pc EXCEPT ![t] = "user"]
      /\ UNCHANGED <<pool_lock, pid, parent_pid, child, leaked, shell>>
  BY Zenon DEF sys_wait, At, Goto
<1>2. /\ Good(sched) /\ PoolOK(sched, pool_lock, pc) /\ thread_all_list \in Seq(Threads)
      /\ child \in [Threads -> Threads \cup {NULL}] /\ leaked \in SUBSET Threads
      /\ pid_bitmap \subseteq 1 .. MaxPid /\ pc \in [Threads -> Labels]
      /\ Table(sched, thread_all_list, pid, parent_pid, pid_bitmap, child, leaked, adopted, pc)
  BY Zenon DEF Inv, TypeInv
<1>3. c \in Threads /\ c \in Exited(t)  BY Zenon, <1>2, Traversal
<1> HIDE DEF c
<1>4. elem_find(thread_all_list, c) /\ parent_pid[c] = pid[t] /\ sched.status[c] = TASK_HANGING
  BY Zenon, <1>3 DEF Exited, Children, Alive
<1>5. c # idle_thread /\ c # init_proc /\ pc[c] = "user" /\ t \notin {c, main_thread, idle_thread}
  <2>1. c # idle_thread
    BY Zenon, <1>2, <1>4 DEF Good, SchedOK, TASK_RUNNING, TASK_READY, TASK_BLOCKED, TASK_HANGING
  <2>2. PlacesOK(sched, pc)  BY Zenon, <1>2 DEF Table
  <2>3. c # init_proc /\ pc[c] = "user"  BY Zenon, <1>3, <1>4, <2>2 DEF PlacesOK
  <2>4. t # c /\ t # main_thread /\ t # idle_thread  BY Zenon, <1>1, <2>2, <2>3 DEF PlacesOK
  <2> QED BY <2>1, <2>3, <2>4
<1>6. Good(r) /\ r.status = [sched.status EXCEPT ![c] = TASK_DIED]
  BY ZenonT(30), <1>2, <1>3, <1>4, <1>5, ThreadExit
<1> HIDE DEF r
<1>7. \A u \in Threads : r.status[u] = IF u = c THEN TASK_DIED ELSE sched.status[u]
  BY Zenon, <1>2, <1>3, <1>6, RecordForm DEF Good
<1>8. ASSUME NEW u \in Threads, sched.status[u] = TASK_WAITING
      PROVE  parent_pid[c] # pid[u]
  <2>1. elem_find(thread_all_list, u) /\ elem_find(thread_all_list, t)
    BY Zenon, <1>1, <1>2, <1>8, Running DEF Table, TableOK, Gone, TASK_WAITING, TASK_DIED
  <2>2. u # t  BY Zenon, <1>1, <1>8, Running DEF Gone
  <2>3. pid[u] # pid[t]  BY Zenon, <1>2, <2>1, <2>2 DEF Table, PidsOK, Used
  <2> QED BY Zenon, <1>4, <2>3
<1>9. /\ thread_all_list' \in Seq(Threads)
      /\ Table(r, thread_all_list', pid, parent_pid, pid_bitmap', child, leaked, adopted', pc)
  <2>1. sched.status[c] # TASK_DIED  BY Zenon, <1>4 DEF TASK_HANGING, TASK_DIED
  <2>2. \A u \in adopted : u # c => u \in adopted'  BY <1>1
  <2>3. r.status[c] = TASK_DIED  BY Zenon, <1>3, <1>7
  <2>4. \A u \in Threads \ {c}, x \in Gone : r.status[u] = x <=> sched.status[u] = x  BY Zenon, <1>7
  <2>5. c = main_thread \/ sched.status[c] = TASK_HANGING  BY Zenon, <1>4
  <2>6. c # init_proc /\ pc[c] = "user"  BY <1>5
  <2>7. /\ list_remove(thread_all_list, c) \in Seq(Threads)
        /\ Table(r, list_remove(thread_all_list, c), pid, parent_pid, pid_bitmap \ {pid[c]},
                 child, leaked, adopted', pc)
    BY ZenonT(30), <1>2, <1>3, <1>8, <2>1, <2>2, <2>3, <2>4, <2>5, <2>6, TableLeave
  <2> QED BY Zenon, <1>1, <2>7
<1>10. Table(r, thread_all_list', pid, parent_pid, pid_bitmap', child, leaked, adopted', pc')
  <2>1. r.status[t] \notin Gone  BY Zenon, <1>1, <1>5, <1>7, Running
  <2>2. "user" \in Labels  BY Zenon DEF Labels
  <2> QED BY ZenonT(30), <1>1, <1>2, <1>5, <1>9, <2>1, <2>2, TablePc
<1>11. \A u \in Threads : pc'[u] = IF u = t THEN "user" ELSE pc[u]  BY Zenon, <1>1, <1>2
<1>12. PoolOK(r, pool_lock, pc')
  <2>1. \A u \in Threads : elem_find(pool_lock.waiters, u) =>
          r.status[u] = sched.status[u] /\ pc'[u] = pc[u]
    BY Zenon, <1>1, <1>2, <1>4, <1>7, <1>11, Running DEF PoolOK, TASK_BLOCKED, TASK_HANGING
  <2>2. pc'[main_thread] = pc[main_thread]  BY Zenon, <1>5, <1>11, SchedAssumption
  <2> QED BY <1>2, <2>1, <2>2, PoolKeeps
<1>13. pc' \in [Threads -> Labels]  BY Zenon, <1>1, <1>2 DEF Labels
<1> QED
  BY ZenonT(30), <1>1, <1>2, <1>6, <1>9, <1>10, <1>12, <1>13 DEF Inv, TypeInv

(***************************************************************************)
(* sys_wait returns -1 when the caller has no child.                       *)
(***************************************************************************)
LEMMA KeepNoChild ==
  ASSUME Inv, NEW t \in Threads, sys_wait(t),
         list_traversal(thread_all_list, Exited(t)) = NULL,
         list_traversal(thread_all_list, Children(t)) = NULL
  PROVE  Inv'
<1>1. /\ sched.cur = t /\ pc[t] = "wait" /\ pc' = [pc EXCEPT ![t] = "user"]
      /\ UNCHANGED <<sched, pool_lock, procTable, forkVars>>
  BY Zenon DEF sys_wait, At, Goto, procTable, forkVars
<1>2. /\ Good(sched) /\ PoolOK(sched, pool_lock, pc) /\ PlacesOK(sched, pc)
      /\ pc \in [Threads -> Labels] /\ pool_lock \in Sema
  BY DEF Inv, TypeInv, Table
<1>3. t # main_thread /\ t # idle_thread  BY <1>1, <1>2 DEF PlacesOK
<1>4. \A u \in Threads : pc'[u] = IF u = t THEN "user" ELSE pc[u]  BY <1>1, <1>2
<1>5. PoolOK(sched', pool_lock', pc')
  BY <1>1, <1>2, <1>3, <1>4, Running, SchedAssumption DEF PoolOK
<1>6. SameLife(sched, sched')  BY Zenon, <1>1 DEF SameLife
<1> QED BY Zenon, <1>1, <1>2, <1>3, <1>5, <1>6, KeepMoves DEF Labels

(***************************************************************************)
(* sys_wait goes to sleep: the caller has a child and no child has exited. *)
(***************************************************************************)
LEMMA KeepWaitBlocks ==
  ASSUME Inv, NEW t \in Threads, sys_wait(t),
         list_traversal(thread_all_list, Exited(t)) = NULL,
         list_traversal(thread_all_list, Children(t)) # NULL
  PROVE  Inv'
<1> DEFINE r == thread_block(sched, TASK_WAITING)
           l == thread_all_list
<1>1. /\ sched.cur = t /\ pc[t] = "wait" /\ sched' = r
      /\ UNCHANGED <<pool_lock, procTable, forkVars, pc>>
  BY Zenon DEF sys_wait, At, procTable, forkVars
<1>2. /\ Good(sched) /\ PoolOK(sched, pool_lock, pc) /\ l \in Seq(Threads)
      /\ child \in [Threads -> Threads \cup {NULL}] /\ leaked \in SUBSET Threads
  BY DEF Inv, TypeInv
<1>3. /\ PlacesOK(sched, pc) /\ TableOK(sched, l)
      /\ PidsOK(l, child, pc, pid, pid_bitmap) /\ BitmapOK(l, child, pc, pid, pid_bitmap, leaked)
      /\ ForksOK(sched, child, leaked, pc, pid, parent_pid)
      /\ ParentsOK(sched, l, child, pc, pid, parent_pid)
      /\ WaitersOK(sched, l, pid, parent_pid, adopted)
  BY DEF Inv, Table
<1>5. /\ t # idle_thread /\ t # main_thread /\ TASK_WAITING \in Blocked
  BY <1>1, <1>3 DEF PlacesOK, Blocked
<1>6. Good(r) /\ r.status[t] = TASK_WAITING /\ \A u \in Threads \ {t} : Same(sched, r, u)
  BY <1>1, <1>2, <1>5, BlockSame
<1> HIDE DEF r
<1>7. \A u \in Threads \ {t}, x \in Gone : r.status[u] = x <=> sched.status[u] = x
  <2>1. sched.status[idle_thread] \notin Gone /\ r.status[idle_thread] \notin Gone
    BY Zenon, <1>2, <1>6
    DEF Good, SchedOK, Gone, TASK_RUNNING, TASK_READY, TASK_BLOCKED, TASK_WAITING,
        TASK_HANGING, TASK_DIED
  <2> QED BY Zenon, <1>6, <2>1 DEF Same, Asleep, Blocked, Gone
<1>8. sched.status[t] \notin Gone /\ ~elem_find(pool_lock.waiters, t)  BY <1>1, Running
<1>9. \A u \in Threads :
        /\ r.status[u] = TASK_HANGING <=> sched.status[u] = TASK_HANGING
        /\ r.status[u] = TASK_DIED <=> sched.status[u] = TASK_DIED
        /\ r.status[u] = TASK_WAITING <=> u = t \/ sched.status[u] = TASK_WAITING
  BY Zenon, <1>6, <1>7, <1>8 DEF Gone, TASK_WAITING, TASK_HANGING, TASK_DIED
<1>10. \E c \in Threads : elem_find(l, c) /\ parent_pid[c] = pid[t]
  <2>1. list_traversal(l, Children(t)) \in Children(t)  BY <1>2, Traversal
  <2> QED BY Zenon, <2>1 DEF Children, Alive
<1>11. \A c \in Threads : ~(elem_find(l, c) /\ parent_pid[c] = pid[t] /\
                            sched.status[c] = TASK_HANGING)
  <2>1. \A c \in Threads : elem_find(l, c) => c \notin Exited(t)  BY <1>2, Traversal
  <2> QED BY Zenon, <2>1 DEF Exited, Children, Alive
<1> HIDE DEF l
<1>12. PlacesOK(r, pc)  BY Zenon, <1>1, <1>3, <1>9, SchedAssumption DEF PlacesOK
<1>13. TableOK(r, l)  BY Zenon, <1>3, <1>9 DEF TableOK
<1>14. ForksOK(r, child, leaked, pc, pid, parent_pid)
  BY Zenon, <1>2, <1>3, <1>9 DEF ForksOK
<1>15. ParentsOK(r, l, child, pc, pid, parent_pid)
  BY Zenon, <1>3, <1>9 DEF ParentsOK, ParentOf
<1>16. WaitersOK(r, l, pid, parent_pid, adopted)
  BY Zenon, <1>3, <1>9, <1>10, <1>11 DEF WaitersOK
<1>17. PoolOK(r, pool_lock, pc)
  <2>1. \A u \in Threads : elem_find(pool_lock.waiters, u) => r.status[u] = sched.status[u]
    BY Zenon, <1>2, <1>6, <1>8, Running DEF PoolOK, Same, Asleep, Blocked
  <2> QED BY Zenon, <1>2, <2>1, PoolKeeps
<1> QED
  BY Zenon, <1>1, <1>2, <1>3, <1>6, <1>12, <1>13, <1>14, <1>15, <1>16, <1>17
  DEF Inv, TypeInv, Table, procTable, forkVars, l

-----------------------------------------------------------------------------
(***************************************************************************)
(* sys_exit begins: it finds its parent's pid set, and its children become *)
(* init's.                                                                 *)
(***************************************************************************)
LEMMA KeepCallExit ==
  ASSUME Inv, NEW t \in Threads, CallExit(t)
  PROVE  Inv'
<1> DEFINE l == thread_all_list
<1>1. /\ sched.cur = t /\ pc[t] = "user" /\ Process(t) /\ t # init_proc
      /\ sched' = IF parent_pid[t] = NoParent THEN panic_spin(sched) ELSE sched
      /\ parent_pid' = init_adopt_a_child(t)
      /\ adopted' = adopted \cup Exited(t) /\ pc' = [pc EXCEPT ![t] = "exit"]
      /\ UNCHANGED <<pool_lock, l, pid, pid_bitmap, child, leaked>>
  BY Zenon DEF CallExit, At, Goto
<1>2. /\ Good(sched) /\ PoolOK(sched, pool_lock, pc) /\ pc \in [Threads -> Labels]
      /\ child \in [Threads -> Threads \cup {NULL}] /\ leaked \in SUBSET Threads
      /\ pid \in [Threads -> Nat] /\ parent_pid \in [Threads -> Nat]
      /\ pid_bitmap \subseteq 1 .. MaxPid
  BY DEF Inv, TypeInv
<1>3. /\ PlacesOK(sched, pc) /\ TableOK(sched, l)
      /\ PidsOK(l, child, pc, pid, pid_bitmap) /\ BitmapOK(l, child, pc, pid, pid_bitmap, leaked)
      /\ ForksOK(sched, child, leaked, pc, pid, parent_pid)
      /\ ParentsOK(sched, l, child, pc, pid, parent_pid)
      /\ WaitersOK(sched, l, pid, parent_pid, adopted)
  BY DEF Inv, Table
<1>4. /\ \A u \in Threads : parent_pid'[u] =
           IF elem_find(l, u) /\ parent_pid[u] = pid[t] THEN INIT_PID ELSE parent_pid[u]
      /\ parent_pid' \in [Threads -> Nat]
      /\ \A u \in Threads : elem_find(l, u) /\ parent_pid[u] = pid[t] /\
           sched.status[u] = TASK_HANGING => u \in adopted'
  BY <1>1, <1>2 DEF init_adopt_a_child, Exited, Children, Alive, INIT_PID
<1> HIDE DEF l
<1>5. \A u \in Threads : elem_find(l, u) => pid[u] \in 1 .. MaxPid /\ pid[u] # NoParent
  BY <1>2, <1>3 DEF PidsOK, Used, NoParent
<1>6. sched.status[t] \notin Gone /\ ~elem_find(pool_lock.waiters, t) /\ elem_find(l, t)
  BY Zenon, <1>1, <1>3, Running DEF TableOK, Gone
<1>7. sched' = sched
  <2>1. t \notin {init_proc, main_thread, idle_thread} /\ Used(l, child, pc, t)
    BY Zenon, <1>1, <1>6 DEF Process, Used
  <2>2. PICK q \in Threads : ParentOf(sched, l, pc, pid, parent_pid, t, q)
    BY Zenon, <1>3, <2>1 DEF ParentsOK
  <2> QED BY Zenon, <1>1, <1>5, <2>2 DEF ParentOf
<1>8. \A u \in Threads : pc'[u] = IF u = t THEN "exit" ELSE pc[u]  BY <1>1, <1>2
<1>9. pc' \in [Threads -> Labels]  BY <1>1, <1>2 DEF Labels
<1>10. \A u \in Threads : Used(l, child, pc', u) <=> Used(l, child, pc, u)
  BY <1>1, <1>8 DEF Used
<1>11. PlacesOK(sched, pc')
  <2>1. t \notin {init_proc, main_thread, idle_thread} /\ pc[t] = "user"
    BY Zenon, <1>1 DEF Process
  <2>2. /\ pc'[idle_thread] = pc[idle_thread] /\ pc'[main_thread] = pc[main_thread]
        /\ pc'[init_proc] = pc[init_proc]
    BY Zenon, <1>8, <2>1, ThreadAssumption, SchedAssumption
  <2>3. \A u \in Threads : /\ pc'[u] = "holding" => pc[u] = "holding"
                           /\ sched.status[u] \in Gone => pc'[u] = pc[u]
    BY SMTT(20), <1>6, <1>8
  <2>4. \A u \in Threads :
          /\ sched.status[u] \in {TASK_HANGING, TASK_DIED} => pc'[u] = "user"
          /\ sched.status[u] = TASK_WAITING => pc'[u] = "wait"
    BY <1>3, <2>3 DEF PlacesOK, Gone
  <2>5. \A u \in Threads : pc'[u] = "holding" => u = main_thread
    BY Zenon, <1>3, <2>3 DEF PlacesOK
  <2> QED BY Zenon, <1>3, <2>2, <2>4, <2>5 DEF PlacesOK
<1>12. PidsOK(l, child, pc', pid, pid_bitmap)  BY Zenon, <1>3, <1>10 DEF PidsOK
<1>13. BitmapOK(l, child, pc', pid, pid_bitmap, leaked)  BY Zenon, <1>3, <1>10 DEF BitmapOK
<1>14. ForksOK(sched, child, leaked, pc', pid, parent_pid')
  <2>1. \A u \in Threads : pc'[u] = "fork_copy" => parent_pid'[child[u]] = pid[u]
    <3>1. ASSUME NEW u \in Threads, pc'[u] = "fork_copy"
          PROVE  parent_pid'[child[u]] = pid[u]
      <4>1. pc[u] = "fork_copy"  BY Zenon, <1>8, <3>1
      <4>2. child[u] \in Threads /\ sched.status[child[u]] = TASK_DIED /\
            parent_pid[child[u]] = pid[u]
        BY Zenon, <1>2, <1>3, <4>1 DEF ForksOK
      <4>3. ~elem_find(l, child[u])  BY Zenon, <1>3, <4>2 DEF TableOK
      <4> QED BY Zenon, <1>4, <4>2, <4>3
    <3> QED BY Zenon, <3>1
  <2>2. pc[t] = "user"  BY Zenon, <1>1
  <2>3. \A u \in Threads :
          pc'[u] \in {"fork_buf", "fork_copy"} <=> pc[u] \in {"fork_buf", "fork_copy"}
    BY <1>8, <2>2
  <2> QED BY Zenon, <1>3, <2>1, <2>3 DEF ForksOK
<1>15. ParentsOK(sched, l, child, pc', pid, parent_pid')
  <2>1. /\ parent_pid'[init_proc] = NoParent /\ parent_pid'[main_thread] = NoParent
        /\ parent_pid'[idle_thread] = NoParent
    BY Zenon, <1>3, <1>4, <1>5, <1>6, ThreadAssumption, SchedAssumption DEF ParentsOK
  <2>2. ASSUME NEW u \in Threads \ {init_proc, main_thread, idle_thread},
               Used(l, child, pc, u)
        PROVE  \E q \in Threads : ParentOf(sched, l, pc', pid, parent_pid', u, q)
    <3>1. CASE elem_find(l, u) /\ parent_pid[u] = pid[t]
      <4>1. parent_pid'[u] = INIT_PID  BY Zenon, <1>4, <3>1
      <4>2. elem_find(l, init_proc) /\ Process(init_proc) /\ pid[init_proc] = INIT_PID
        BY Zenon, <1>3, SchedAssumption DEF PlacesOK, TableOK, PidsOK, Process
      <4>3. sched.status[init_proc] # TASK_HANGING /\ pc'[init_proc] # "exit"
        BY Zenon, <1>1, <1>3, <1>8, SchedAssumption DEF PlacesOK
      <4> QED BY Zenon, <4>1, <4>2, <4>3, SchedAssumption DEF ParentOf
    <3>2. CASE ~(elem_find(l, u) /\ parent_pid[u] = pid[t])
      <4>1. parent_pid'[u] = parent_pid[u]  BY Zenon, <1>4, <3>2
      <4>2. PICK q \in Threads : ParentOf(sched, l, pc, pid, parent_pid, u, q)
        BY Zenon, <1>3, <2>2 DEF ParentsOK
      <4>3. q # t
        <5>1. SUFFICES ASSUME q = t PROVE FALSE  OBVIOUS
        <5>2. parent_pid[u] = pid[t]  BY Zenon, <4>2, <5>1 DEF ParentOf
        <5>3. PICK x \in Threads : child[x] = u /\ pc[x] = "fork_copy"
          BY Zenon, <2>2, <3>2, <5>2 DEF Used
        <5>4. pid[x] = pid[t]  BY Zenon, <1>3, <5>2, <5>3 DEF ForksOK
        <5>5. sched.status[x] # TASK_DIED  BY Zenon, <1>3, <5>3 DEF PlacesOK
        <5>6. Used(l, child, pc, x) /\ Used(l, child, pc, t)
          BY Zenon, <1>3, <1>6, <5>5 DEF TableOK, Used
        <5>7. x = t  BY Zenon, <1>3, <5>4, <5>6 DEF PidsOK
        <5> QED BY Zenon, <1>1, <5>3, <5>7
      <4> QED BY Zenon, <1>8, <4>1, <4>2, <4>3 DEF ParentOf
    <3> QED BY Zenon, <3>1, <3>2
  <2> QED BY Zenon, <1>10, <2>1, <2>2 DEF ParentsOK
<1>16. WaitersOK(sched, l, pid, parent_pid', adopted')
  <2> SUFFICES ASSUME NEW u \in Threads, sched.status[u] = TASK_WAITING
               PROVE  /\ \E c \in Threads : elem_find(l, c) /\ parent_pid'[c] = pid[u]
                      /\ \A c \in Threads : elem_find(l, c) /\ parent_pid'[c] = pid[u] /\
                           sched.status[c] = TASK_HANGING => c \in adopted'
    BY Zenon DEF WaitersOK
  <2>1. elem_find(l, u) /\ u # t
    BY Zenon, <1>3, <1>6 DEF TableOK, Gone, TASK_WAITING, TASK_DIED
  <2>2. pid[u] # pid[t]  BY Zenon, <1>3, <1>6, <2>1 DEF PidsOK, Used
  <2>3. /\ \E c \in Threads : elem_find(l, c) /\ parent_pid[c] = pid[u]
        /\ \A c \in Threads : elem_find(l, c) /\ parent_pid[c] = pid[u] /\
             sched.status[c] = TASK_HANGING => c \in adopted
    BY Zenon, <1>3 DEF WaitersOK
  <2>4. \E c \in Threads : elem_find(l, c) /\ parent_pid'[c] = pid[u]
    BY Zenon, <1>4, <2>2, <2>3
  <2>5. ASSUME NEW c \in Threads, elem_find(l, c), parent_pid'[c] = pid[u],
               sched.status[c] = TASK_HANGING
        PROVE  c \in adopted'
    <3>1. CASE parent_pid[c] = pid[t]  BY Zenon, <1>4, <2>5, <3>1
    <3>2. CASE parent_pid[c] # pid[t]
      <4>1. parent_pid'[c] = parent_pid[c]  BY Zenon, <1>4, <3>2
      <4> QED BY Zenon, <1>1, <2>3, <2>5, <4>1
    <3> QED BY Zenon, <3>1, <3>2
  <2> QED BY Zenon, <2>4, <2>5
<1>17. PoolOK(sched, pool_lock, pc')
  BY ZenonT(30), <1>1, <1>2, <1>6, <1>8, SchedAssumption, PoolKeeps DEF Process
<1> QED
  BY Zenon, <1>1, <1>2, <1>3, <1>4, <1>7, <1>9, <1>11, <1>12, <1>13, <1>14, <1>15, <1>16, <1>17
  DEF Inv, TypeInv, Table, l

(***************************************************************************)
(* sys_exit finds its parent and wakes it if it waits.                     *)
(***************************************************************************)
LEMMA WakeParent ==
  ASSUME Inv, NEW t \in Threads, sched.cur = t, pc[t] = "exit", NEW k, Good(k), k.cur = t
  PROVE  \E p \in Threads \ {t} :
           /\ elem_find(thread_all_list, p) /\ pid[p] = parent_pid[t]
           /\ Good(wake_parent(k, t)) /\ wake_parent(k, t).cur = t
           /\ \A u \in Threads : wake_parent(k, t).status[u] =
                IF u = p /\ k.status[p] = TASK_WAITING THEN TASK_READY ELSE k.status[u]
<1> DEFINE S == {u \in Threads : pid[u] = parent_pid[t]}
           p == list_traversal(thread_all_list, S)
           w == wake_parent(k, t)
<1>1. /\ thread_all_list \in Seq(Threads) /\ PlacesOK(sched, pc) /\ TableOK(sched, thread_all_list)
      /\ PidsOK(thread_all_list, child, pc, pid, pid_bitmap)
      /\ ParentsOK(sched, thread_all_list, child, pc, pid, parent_pid)
  BY Zenon DEF Inv, TypeInv, Table
<1>2. elem_find(thread_all_list, t)  BY Zenon, <1>1, Running DEF TableOK, Gone
<1>3. t \notin {init_proc, main_thread, idle_thread}  BY Zenon, <1>1 DEF PlacesOK
<1>4. PICK q \in Threads :
        ParentOf(sched, thread_all_list, pc, pid, parent_pid, t, q)
  BY Zenon, <1>1, <1>2, <1>3 DEF ParentsOK, Used
<1>5. q \in S /\ elem_find(thread_all_list, q) /\ q # t  BY Zenon, <1>4 DEF ParentOf
<1>6. p # NULL
  <2> HIDE DEF S
  <2> QED BY Zenon, <1>1, <1>5, Traversal
<1>7. p \in Threads /\ p \in S /\ elem_find(thread_all_list, p)
  <2> HIDE DEF S
  <2> QED BY Zenon, <1>1, <1>6, Traversal
<1>8. w = IF k.status[p] = TASK_WAITING THEN thread_unblock(k, p) ELSE k
  BY Zenon, <1>6 DEF wake_parent, pid2thread
<1> HIDE DEF p, w
<1>9. pid[p] = parent_pid[t]  BY Zenon, <1>7
<1>10. p = q  BY Zenon, <1>1, <1>5, <1>7 DEF PidsOK, Used
<1>11. /\ Good(w) /\ w.cur = t
       /\ \A u \in Threads : w.status[u] =
            IF u = p /\ k.status[p] = TASK_WAITING THEN TASK_READY ELSE k.status[u]
  <2>1. CASE k.status[p] = TASK_WAITING
    <3>1. k.status[p] \in Blocked  BY Zenon, <2>1 DEF Blocked
    <3>2. Good(w) /\ w.status = [k.status EXCEPT ![p] = TASK_READY] /\ w.cur = k.cur
      BY Zenon, <1>7, <1>8, <2>1, <3>1, UnblockGood
    <3>3. k.status \in [Threads -> Status]  BY Zenon, RecordForm DEF Good
    <3> QED BY Zenon, <1>7, <2>1, <3>2, <3>3
  <2>2. CASE k.status[p] # TASK_WAITING  BY <1>8, <2>2
  <2> QED BY Zenon, <2>1, <2>2
<1> QED BY Zenon, <1>5, <1>7, <1>9, <1>10, <1>11 DEF w

(***************************************************************************)
(* sys_exit ends: the process is a zombie and its parent is awake.         *)
(***************************************************************************)
LEMMA KeepExit ==
  ASSUME Inv, NEW t \in Threads, sys_exit(t)
  PROVE  Inv'
<1> DEFINE l == thread_all_list
<1>1. PICK frees_inode \in BOOLEAN :
        LET g == IF frees_inode THEN pool_pass ELSE [k |-> sched, s |-> pool_lock] IN
          /\ sched.cur = t /\ pc[t] = "exit"
          /\ frees_inode => pool_lock.value # 0
          /\ sched' = thread_block(wake_parent(g.k, t), TASK_HANGING)
          /\ pool_lock' = g.s
          /\ pc' = [pc EXCEPT ![t] = "user"]
          /\ UNCHANGED <<procTable, forkVars>>
  BY Zenon DEF sys_exit, At, Goto
<1> DEFINE g == IF frees_inode THEN pool_pass ELSE [k |-> sched, s |-> pool_lock]
           k == g.k
           s == g.s
           w == wake_parent(k, t)
           r == thread_block(w, TASK_HANGING)
<1>2. /\ sched.cur = t /\ pc[t] = "exit" /\ (frees_inode => pool_lock.value # 0)
      /\ sched' = r /\ pool_lock' = s /\ pc' = [pc EXCEPT ![t] = "user"]
      /\ UNCHANGED <<l, pid, parent_pid, pid_bitmap, child, leaked, shell, adopted>>
  BY Zenon, <1>1 DEF procTable, forkVars
<1>3. /\ Good(sched) /\ PoolOK(sched, pool_lock, pc) /\ pc \in [Threads -> Labels]
      /\ child \in [Threads -> Threads \cup {NULL}] /\ leaked \in SUBSET Threads
      /\ pool_lock \in Sema
      /\ Table(sched, l, pid, parent_pid, pid_bitmap, child, leaked, adopted, pc)
  BY DEF Inv, TypeInv
<1>4. /\ Good(k) /\ k.cur = t /\ s \in Sema /\ PoolOK(k, s, pc) /\ SameLife(sched, k)
      /\ ~elem_find(s.waiters, t) /\ k.status[t] = TASK_RUNNING
  <2>1. CASE frees_inode  BY Zenon, <1>2, <2>1, PoolPass
  <2>2. CASE ~frees_inode
    <3>1. k = sched /\ s = pool_lock  BY Zenon, <2>2
    <3> QED BY Zenon, <1>2, <1>3, <3>1, Running DEF SameLife
  <2> QED BY Zenon, <2>1, <2>2
<1> HIDE DEF k, s
<1>5. Table(k, l, pid, parent_pid, pid_bitmap, child, leaked, adopted, pc)
  BY Zenon, <1>3, <1>4, TableLife
<1>6. /\ PlacesOK(k, pc) /\ TableOK(k, l)
      /\ PidsOK(l, child, pc, pid, pid_bitmap) /\ BitmapOK(l, child, pc, pid, pid_bitmap, leaked)
      /\ ForksOK(k, child, leaked, pc, pid, parent_pid)
      /\ ParentsOK(k, l, child, pc, pid, parent_pid)
      /\ WaitersOK(k, l, pid, parent_pid, adopted)
  BY Zenon, <1>5 DEF Table
<1>7. t \notin {init_proc, main_thread, idle_thread}  BY Zenon, <1>2, <1>6 DEF PlacesOK
<1>8. PICK p \in Threads \ {t} :
        /\ elem_find(l, p) /\ pid[p] = parent_pid[t] /\ Good(w) /\ w.cur = t
        /\ \A u \in Threads : w.status[u] =
             IF u = p /\ k.status[p] = TASK_WAITING THEN TASK_READY ELSE k.status[u]
  BY <1>2, <1>4, WakeParent
<1> HIDE DEF w, l
<1>9. Good(r) /\ r.status[t] = TASK_HANGING /\ \A u \in Threads \ {t} : Same(w, r, u)
  <2>1. TASK_HANGING \in Blocked  BY Zenon DEF Blocked
  <2> QED BY Zenon, <1>7, <1>8, <2>1, BlockSame
<1> HIDE DEF r
<1>10. \A u \in Threads \ {t}, x \in Gone : r.status[u] = x <=> w.status[u] = x
  <2>1. w.status[idle_thread] \notin Gone /\ r.status[idle_thread] \notin Gone
    BY Zenon, <1>8, <1>9
    DEF Good, SchedOK, Gone, TASK_RUNNING, TASK_READY, TASK_BLOCKED, TASK_WAITING,
        TASK_HANGING, TASK_DIED
  <2> QED BY Zenon, <1>9, <2>1 DEF Same, Asleep, Blocked, Gone
<1>11. \A u \in Threads :
         /\ r.status[u] = TASK_HANGING <=> u = t \/ k.status[u] = TASK_HANGING
         /\ r.status[u] = TASK_DIED <=> k.status[u] = TASK_DIED
         /\ r.status[u] = TASK_WAITING => k.status[u] = TASK_WAITING /\ u # p /\ u # t
  <2>1. ASSUME NEW u \in Threads \ {t}
        PROVE  /\ r.status[u] = TASK_HANGING <=> k.status[u] = TASK_HANGING
               /\ r.status[u] = TASK_DIED <=> k.status[u] = TASK_DIED
               /\ r.status[u] = TASK_WAITING => k.status[u] = TASK_WAITING /\ u # p
    BY Zenon, <1>8, <1>10 DEF Gone, TASK_READY, TASK_WAITING, TASK_HANGING, TASK_DIED
  <2>2. r.status[t] = TASK_HANGING /\ k.status[t] = TASK_RUNNING  BY Zenon, <1>4, <1>9
  <2> QED BY Zenon, <2>1, <2>2 DEF TASK_RUNNING, TASK_WAITING, TASK_HANGING, TASK_DIED
<1>12. \A u \in Threads : pc'[u] = IF u = t THEN "user" ELSE pc[u]  BY Zenon, <1>2, <1>3
<1>13. pc' \in [Threads -> Labels]  BY Zenon, <1>2, <1>3 DEF Labels
<1>14. \A u \in Threads : Used(l, child, pc', u) <=> Used(l, child, pc, u)
  BY <1>2, <1>12 DEF Used
<1>15. PlacesOK(r, pc')
  BY ZenonT(30), <1>6, <1>7, <1>11, <1>12, ThreadAssumption, SchedAssumption DEF PlacesOK
<1>16. TableOK(r, l)  BY Zenon, <1>6, <1>11 DEF TableOK
<1>17. PidsOK(l, child, pc', pid, pid_bitmap)  BY Zenon, <1>6, <1>14 DEF PidsOK
<1>18. BitmapOK(l, child, pc', pid, pid_bitmap, leaked)  BY Zenon, <1>6, <1>14 DEF BitmapOK
<1>19. ForksOK(r, child, leaked, pc', pid, parent_pid)
  <2>1. \A u \in Threads : pc'[u] \in {"fork_buf", "fork_copy"} <=> child[u] # NULL
    BY <1>2, <1>6, <1>12 DEF ForksOK
  <2>2. \A u \in Threads : child[u] # NULL =>
          r.status[child[u]] = TASK_DIED /\ child[u] \notin leaked /\ child[u] # main_thread
    <3>1. \A u \in Threads : child[u] # NULL =>
            k.status[child[u]] = TASK_DIED /\ child[u] \notin leaked /\ child[u] # main_thread
      BY Zenon, <1>6 DEF ForksOK
    <3>2. \A u \in Threads : child[u] # NULL => child[u] \in Threads  BY Zenon, <1>3
    <3>3. \A u \in Threads : k.status[u] = TASK_DIED => r.status[u] = TASK_DIED  BY <1>11
    <3> QED BY Zenon, <3>1, <3>2, <3>3
  <2>3. \A u \in leaked : r.status[u] = TASK_DIED
    BY Zenon, <1>3, <1>6, <1>11 DEF ForksOK
  <2>4. \A u \in Threads : pc'[u] = "fork_copy" => parent_pid[child[u]] = pid[u]
    BY Zenon, <1>6, <1>12 DEF ForksOK
  <2>5. \A u, v \in Threads : child[u] # NULL /\ child[u] = child[v] => u = v
    BY Zenon, <1>6 DEF ForksOK
  <2> QED BY Zenon, <2>1, <2>2, <2>3, <2>4, <2>5 DEF ForksOK
<1>20. ParentsOK(r, l, child, pc', pid, parent_pid)
  <2>1. ASSUME NEW u \in Threads, NEW q \in Threads,
               ParentOf(k, l, pc, pid, parent_pid, u, q)
        PROVE  ParentOf(r, l, pc', pid, parent_pid, u, q)
    <3>1. q # t  BY Zenon, <1>2, <2>1 DEF ParentOf
    <3> QED BY Zenon, <1>11, <1>12, <2>1, <3>1 DEF ParentOf
  <2> QED BY Zenon, <1>6, <1>14, <2>1 DEF ParentsOK
<1>21. WaitersOK(r, l, pid, parent_pid, adopted)
  <2>1. ASSUME NEW u \in Threads, r.status[u] = TASK_WAITING
        PROVE  parent_pid[t] # pid[u]
    <3>1. k.status[u] = TASK_WAITING /\ u # p  BY Zenon, <1>11, <2>1
    <3>2. elem_find(l, u)  BY Zenon, <1>6, <3>1 DEF TableOK, TASK_WAITING, TASK_DIED
    <3>3. pid[u] # pid[p]  BY Zenon, <1>6, <1>8, <3>1, <3>2 DEF PidsOK, Used
    <3> QED BY Zenon, <1>8, <3>3
  <2> QED BY Zenon, <1>6, <1>11, <2>1 DEF WaitersOK
<1>22. PoolOK(r, s, pc')
  <2>1. \A u \in Threads : elem_find(s.waiters, u) =>
          u # t /\ u # idle_thread /\ k.status[u] = TASK_BLOCKED
    BY ZenonT(30), <1>4, <1>6, ThreadAssumption DEF PoolOK, PlacesOK
  <2>2. \A u \in Threads : elem_find(s.waiters, u) => w.status[u] = TASK_BLOCKED
    BY Zenon, <1>8, <2>1 DEF TASK_BLOCKED, TASK_WAITING
  <2>3. \A u \in Threads : elem_find(s.waiters, u) => r.status[u] = TASK_BLOCKED
    BY Zenon, <1>9, <2>1, <2>2 DEF Same, Asleep, Blocked
  <2>4. pc'[main_thread] = pc[main_thread]  BY Zenon, <1>7, <1>12, SchedAssumption
  <2> QED BY <1>4, <1>12, <2>1, <2>3, <2>4, PoolKeeps
<1> QED
  BY Zenon, <1>2, <1>4, <1>9, <1>13, <1>15, <1>16, <1>17, <1>18, <1>19, <1>20, <1>21, <1>22
  DEF Inv, TypeInv, Table, l

-----------------------------------------------------------------------------
(***************************************************************************)
(* Boot leaves init, main and idle in the table, and nobody else.          *)
(***************************************************************************)
LEMMA ProcessInit == Init => Inv
<1> SUFFICES ASSUME Init PROVE Inv  OBVIOUS
<1> DEFINE created == <<init_proc, idle_thread>>
<1>1. /\ {main_thread, init_proc, idle_thread} \subseteq Threads
      /\ main_thread # init_proc /\ idle_thread \notin {main_thread, init_proc}
      /\ MaxPid \in Nat /\ MaxPid >= 3
  BY ThreadAssumption, ProcessAssumption, SchedAssumption
<1>2. /\ created \in Seq(Threads) /\ DOMAIN created = {1, 2}
      /\ created[1] = init_proc /\ created[2] = idle_thread
  BY <1>1
<1>3. /\ thread_all_list \in Seq(Threads) /\ DOMAIN thread_all_list = {1, 2, 3}
      /\ thread_all_list[1] = init_proc /\ thread_all_list[2] = main_thread
      /\ thread_all_list[3] = idle_thread
  BY <1>1 DEF Init, SchedInit
<1> HIDE DEF created
<1>4. \A u : elem_find(created, u) <=> u \in {init_proc, idle_thread}
  BY <1>2 DEF elem_find
<1>5. Distinct(created)  BY <1>1, <1>2 DEF Distinct
<1>6. /\ Distinct(thread_all_list)
      /\ \A u : elem_find(thread_all_list, u) <=> u \in {init_proc, main_thread, idle_thread}
  BY Zenon, <1>1, <1>3 DEF elem_find, Distinct
<1>7. sched = thread_init(main_thread, created)  BY Zenon DEF Init, SchedInit, created
<1>8. Good(sched)  BY <1>1, <1>2, <1>4, <1>5, <1>7, ThreadInit
<1>9. \A t \in Threads : sched.status[t] = IF t = main_thread THEN TASK_RUNNING
                            ELSE IF t \in {init_proc, idle_thread} THEN TASK_READY ELSE TASK_DIED
  BY Zenon, <1>4, <1>7 DEF thread_init
<1>10. /\ \A t \in Threads : pid[t] = CASE t = init_proc -> 1 [] t = main_thread -> 2
                                        [] t = idle_thread -> 3 [] OTHER -> 0
       /\ \A t \in Threads : parent_pid[t] = 0 /\ child[t] = NULL
       /\ \A t \in Threads : pc[t] = IF t = init_proc THEN "start" ELSE "user"
       /\ leaked = {} /\ pid_bitmap = 1 .. 3
  BY Zenon DEF Init, INIT_PID, NoParent
<1>11. pool_lock \in Sema /\ pool_lock.value = 1 /\ \A u : ~elem_find(pool_lock.waiters, u)
       /\ Distinct(pool_lock.waiters)
  BY DEF Init, sema_init, Sema, elem_find, Distinct
<1>12. TypeInv
  <2>1. pid \in [Threads -> Nat] /\ parent_pid \in [Threads -> Nat]
    BY Zenon DEF Init, INIT_PID, NoParent
  <2>2. child \in [Threads -> Threads \cup {NULL}] /\ pc \in [Threads -> Labels]
    BY DEF Init, Labels
  <2>3. pid_bitmap \subseteq 1 .. MaxPid  BY <1>1, <1>10
  <2> QED BY <1>3, <1>10, <1>11, <2>1, <2>2, <2>3 DEF TypeInv
<1>13. PoolOK(sched, pool_lock, pc)  BY <1>1, <1>10, <1>11 DEF PoolOK
<1>14. \A t \in Threads : Used(thread_all_list, child, pc, t) <=>
                           t \in {init_proc, main_thread, idle_thread}
  BY Zenon, <1>6, <1>10 DEF Used
<1> USE DEF TASK_RUNNING, TASK_READY, TASK_WAITING, TASK_HANGING, TASK_DIED
<1>15. PlacesOK(sched, pc)  BY Zenon, <1>1, <1>9, <1>10 DEF PlacesOK
<1>16. TableOK(sched, thread_all_list)  BY Zenon, <1>6, <1>9 DEF TableOK
<1>17. PidsOK(thread_all_list, child, pc, pid, pid_bitmap)
  BY <1>1, <1>10, <1>14 DEF PidsOK, INIT_PID
<1>18. BitmapOK(thread_all_list, child, pc, pid, pid_bitmap, leaked)
  <2>1. \A n \in pid_bitmap : n = 1 \/ n = 2 \/ n = 3  BY <1>10
  <2>2. pid[init_proc] = 1 /\ pid[main_thread] = 2 /\ pid[idle_thread] = 3  BY <1>1, <1>10
  <2> QED BY Zenon, <1>1, <1>14, <2>1, <2>2 DEF BitmapOK
<1>19. ForksOK(sched, child, leaked, pc, pid, parent_pid)  BY <1>1, <1>10 DEF ForksOK
<1>20. ParentsOK(sched, thread_all_list, child, pc, pid, parent_pid)
  BY Zenon, <1>1, <1>10, <1>14 DEF ParentsOK, NoParent
<1>21. WaitersOK(sched, thread_all_list, pid, parent_pid, adopted)
  BY Zenon, <1>9 DEF WaitersOK
<1> QED
  BY Zenon, <1>8, <1>12, <1>13, <1>15, <1>16, <1>17, <1>18, <1>19, <1>20, <1>21 DEF Inv, Table

(***************************************************************************)
(* The kernel has stopped because a fork found no free pid.                *)
(***************************************************************************)
NoPidLeft == ~Up /\ FreePids = {}

IInv == Inv \/ NoPidLeft

(***************************************************************************)
(* Every step of the system keeps the invariant, or is a fork that finds   *)
(* no free pid; after that nothing happens.                                *)
(***************************************************************************)
LEMMA ProcessNext ==
  ASSUME IInv, [Next]_vars
  PROVE  /\ IInv'
         /\ Inv => Inv' \/ \E t \in Threads : ForkCopy(t) /\ FreePids = {}
<1>1. CASE UNCHANGED vars
  BY Zenon, <1>1
  DEF IInv, Inv, TypeInv, NoPidLeft, Up, FreePids, vars, procTable, forkVars
<1>2. CASE NoPidLeft /\ Next
  BY ZenonT(30), <1>2
  DEF NoPidLeft, Next, CallFork, Fork, ForkWaits, ForkPcb, ForkCopy, ForkDone, ForkFails, InFork,
      CallWait, sys_wait, CallExit, Exit, ExitWaits, sys_exit, MainLock, MainUnlock, MainExit,
      idle, TimerTick, SchedIdle, SchedTick, Runs, At
<1>3. CASE Inv /\ Next
  <2>1. CASE idle \/ TimerTick  BY Zenon, <1>3, <2>1, KeepSwitch DEF IInv
  <2>2. CASE MainLock  BY Zenon, <1>3, <2>2, KeepMainLock DEF IInv
  <2>3. CASE MainUnlock  BY Zenon, <1>3, <2>3, KeepMainUnlock DEF IInv
  <2>4. CASE MainExit  BY Zenon, <1>3, <2>4, KeepMainExit DEF IInv
  <2>5. ASSUME NEW t \in Threads, CallFork(t) \/ CallWait(t) PROVE Inv'
    BY Zenon, <1>3, <2>5, KeepCall
  <2>6. ASSUME NEW t \in Threads, ForkWaits(t) \/ ExitWaits(t) PROVE Inv'
    <3>1. PoolWait /\ UNCHANGED <<procTable, forkVars, pc>>  BY Zenon, <2>6 DEF ForkWaits, ExitWaits
    <3>2. pc[sched.cur] \in {"fork_pcb", "fork_buf", "fork_copy", "exit"}
      BY <2>6 DEF ForkWaits, ExitWaits, InFork, At
    <3> QED BY Zenon, <1>3, <3>1, <3>2, KeepPoolWait
  <2>7. ASSUME NEW t \in Threads, ForkPcb(t) PROVE Inv'  BY <1>3, <2>7, KeepForkPcb
  <2>8. ASSUME NEW t \in Threads, ForkCopy(t)
        PROVE  IInv' /\ (Inv' \/ (ForkCopy(t) /\ FreePids = {}))
    <3>1. CASE FreePids # {}
      <4>1. Inv  BY <1>3
      <4>2. Inv'  BY <2>8, <3>1, <4>1, KeepForkCopy
      <4>3. IInv'  BY Zenon, <4>2 DEF IInv
      <4> QED BY <4>2, <4>3
    <3>2. CASE FreePids = {}
      <4>1. sched' = panic_spin(pool_pass.k) /\ pid_bitmap' = pid_bitmap /\ pool_lock.value # 0
        BY Zenon, <2>8, <3>2 DEF ForkCopy, procTable
      <4>2. pool_pass.k \in SchedState  BY Zenon, <1>3, <4>1, PoolPass DEF Good
      <4>3. sched'.cpu = "panic"  BY <4>1, <4>2, RecordForm DEF panic_spin
      <4>4. ~Up' /\ (FreePids = {})'  BY Zenon, <3>2, <4>1, <4>3 DEF Up, FreePids
      <4> QED BY <2>8, <3>2, <4>4 DEF IInv, NoPidLeft
    <3> QED BY Zenon, <3>1, <3>2
  <2>9. ASSUME NEW t \in Threads, ForkDone(t) PROVE Inv'  BY <1>3, <2>9, KeepForkDone
  <2>10. ASSUME NEW t \in Threads, ForkFails(t) PROVE Inv'  BY <1>3, <2>10, KeepForkFails
  <2>11. ASSUME NEW t \in Threads, sys_wait(t) PROVE Inv'
    BY Zenon, <1>3, <2>11, KeepReap, KeepNoChild, KeepWaitBlocks
  <2>12. ASSUME NEW t \in Threads, CallExit(t) PROVE Inv'  BY Zenon, <1>3, <2>12, KeepCallExit
  <2>13. ASSUME NEW t \in Threads, sys_exit(t) PROVE Inv'  BY Zenon, <1>3, <2>13, KeepExit
  <2> QED
    BY Zenon, <1>3, <2>1, <2>2, <2>3, <2>4, <2>5, <2>6, <2>7, <2>8, <2>9, <2>10, <2>11, <2>12, <2>13
    DEF Next, Fork, Exit, IInv
<1> QED BY Zenon, <1>1, <1>2, <1>3 DEF IInv

(***************************************************************************)
(* So the invariant holds for as long as there are pids.                   *)
(***************************************************************************)
LEMMA ProcessInvariant == Spec => []IInv
<1>1. Init => IInv  BY ProcessInit DEF IInv
<1>2. IInv /\ [Next]_vars => IInv'  BY ProcessNext
<1> QED BY <1>1, <1>2, PTL DEF Spec

(***************************************************************************)
(* While a fork copies, the pids cannot have run out if there are as many  *)
(* pids as PCBs: each pid that is taken belongs to a PCB other than the    *)
(* child's.                                                                *)
(***************************************************************************)
LEMMA PidLeft ==
  ASSUME IsFiniteSet(Threads), Cardinality(Threads) <= MaxPid, Inv,
         NEW t \in Threads, ForkCopy(t)
  PROVE  FreePids # {}
<1> SUFFICES ASSUME FreePids = {} PROVE FALSE  OBVIOUS
<1> DEFINE c == child[t]
           N == 1 .. MaxPid
           S == {u \in Threads \ {c} : pid[u] \in N}
           f == [u \in S |-> pid[u]]
<1>1. /\ ForksOK(sched, child, leaked, pc, pid, parent_pid)
      /\ BitmapOK(thread_all_list, child, pc, pid, pid_bitmap, leaked)
      /\ TableOK(sched, thread_all_list) /\ child \in [Threads -> Threads \cup {NULL}]
      /\ pc[t] = "fork_buf"
  BY Zenon DEF Inv, Table, TypeInv, ForkCopy, At
<1>2. c \in Threads /\ c \notin leaked /\ sched.status[c] = TASK_DIED
  BY Zenon, <1>1 DEF ForksOK
<1>3. ~Used(thread_all_list, child, pc, c)
  <2>1. ~elem_find(thread_all_list, c)  BY Zenon, <1>1, <1>2 DEF TableOK
  <2>2. \A u \in Threads : child[u] = c => u = t  BY Zenon, <1>1 DEF ForksOK
  <2> QED BY <1>1, <2>1, <2>2 DEF Used
<1>4. ASSUME NEW n \in N PROVE \E u \in S : pid[u] = n
  <2>1. n \in pid_bitmap  BY <1>4 DEF FreePids
  <2>2. PICK u \in Threads :
          pid[u] = n /\ (Used(thread_all_list, child, pc, u) \/ u \in leaked)
    BY Zenon, <1>1, <2>1 DEF BitmapOK
  <2>3. u # c  BY Zenon, <1>2, <1>3, <2>2
  <2> QED BY Zenon, <1>4, <2>2, <2>3
<1>5. f \in Surjection(S, N)  BY Zenon, <1>4 DEF Surjection
<1>6. MaxPid \in Nat /\ Cardinality(N) = MaxPid
  <2>1. MaxPid \in Nat  BY Zenon, ProcessAssumption
  <2>2. Cardinality(1 .. MaxPid) = IF 1 > MaxPid THEN 0 ELSE MaxPid - 1 + 1
    BY <2>1, FS_Interval
  <2> QED BY <2>1, <2>2, ProcessAssumption
<1> HIDE DEF c, N, f
<1>7. /\ IsFiniteSet(Threads \ {c}) /\ Cardinality(Threads \ {c}) = Cardinality(Threads) - 1
  BY Zenon, <1>2, FS_RemoveElement
<1>8. IsFiniteSet(S) /\ Cardinality(S) <= Cardinality(Threads \ {c})
  BY Zenon, <1>7, FS_Subset
<1> HIDE DEF S
<1>9. Cardinality(N) <= Cardinality(S)  BY Zenon, <1>5, <1>8, FS_Surjection
<1>10. Cardinality(S) \in Nat /\ Cardinality(Threads) \in Nat
  BY Zenon, <1>8, FS_CardinalityType
<1> QED BY <1>6, <1>7, <1>8, <1>9, <1>10

-----------------------------------------------------------------------------
(***************************************************************************)
(* The process table of fork, wait and exit: the list holds what is alive, *)
(* once each, no two PCBs share a pid, and no pid in use is free.          *)
(***************************************************************************)
THEOREM TableInOrder == Spec => []ProcessTable
<1>1. IInv => ProcessTable
  BY Zenon DEF IInv, NoPidLeft, Inv, Good, Table, TableOK, PidsOK, Used, ProcessTable, InUse, Alive
<1> QED BY <1>1, ProcessInvariant, PTL

(***************************************************************************)
(* A process always has a parent in the table that has not begun to exit:  *)
(* the child of a fork under way, a process asleep inside sys_exit and a   *)
(* zombie included.                                                        *)
(***************************************************************************)
THEOREM NobodyOrphaned == Spec => []ParentInTable
<1>1. IInv => ParentInTable
  BY ZenonT(30) DEF IInv, NoPidLeft, Inv, Table, ParentsOK, ParentOf, Used, ParentInTable, InUse, Alive
<1> QED BY <1>1, ProcessInvariant, PTL

(***************************************************************************)
(* sys_exit never misses a parent asleep in sys_wait: such a parent has a  *)
(* child, and no exited one but zombies that init was handed.              *)
(***************************************************************************)
THEOREM WakeupsKept == Spec => []WaitNotMissed
<1>1. IInv => WaitNotMissed
  <2> SUFFICES ASSUME Inv, NEW t \in Threads, sched.status[t] = TASK_WAITING
               PROVE  pc[t] = "wait" /\ Children(t) # {} /\ Exited(t) \subseteq adopted
    BY Zenon DEF IInv, NoPidLeft, WaitNotMissed
  <2>1. PlacesOK(sched, pc) /\ WaitersOK(sched, thread_all_list, pid, parent_pid, adopted)
    BY DEF Inv, Table
  <2>2. pc[t] = "wait"  BY Zenon, <2>1 DEF PlacesOK
  <2>3. Children(t) # {}  BY Zenon, <2>1 DEF WaitersOK, Children, Alive
  <2>4. Exited(t) \subseteq adopted  BY Zenon, <2>1 DEF WaitersOK, Exited, Children, Alive
  <2> QED BY Zenon, <2>2, <2>3, <2>4
<1> QED BY <1>1, ProcessInvariant, PTL

(***************************************************************************)
(* The ASSERTs and PANICs that fork, wait and exit reach never fire, with  *)
(* one exception: the kernel stops when a fork finds the pid bitmap full.  *)
(***************************************************************************)
THEOREM PanicsOnlyWithoutPids == Spec => [](Up \/ FreePids = {})
<1>1. IInv => Up \/ FreePids = {}
  BY Zenon DEF IInv, NoPidLeft, Inv, Good, Up
<1> QED BY <1>1, ProcessInvariant, PTL

(***************************************************************************)
(* And that does not happen while there are no more PCBs than pids: a PCB  *)
(* never takes a second pid, not even one that a failed fork has lost.     *)
(***************************************************************************)
THEOREM NeverPanics ==
  ASSUME IsFiniteSet(Threads), Cardinality(Threads) <= MaxPid
  PROVE  Spec => []NoPanic
<1>1. Inv /\ [Next]_vars => Inv'
  BY Zenon, ProcessNext, PidLeft DEF IInv
<1>2. Inv => NoPanic
  BY DEF Inv, Good, NoPanic, Up
<1> QED BY <1>1, <1>2, ProcessInit, PTL DEF Spec

-----------------------------------------------------------------------------
SchedInv == Good(sched)

(***************************************************************************)
(* thread_init leaves the ready list and the statuses consistent.          *)
(***************************************************************************)
LEMMA SchedStarts == SchedInit => SchedInv
<1> SUFFICES Good(thread_init(main_thread, <<init_proc, idle_thread>>))
  BY DEF SchedInit, SchedInv
<1> DEFINE created == <<init_proc, idle_thread>>
<1>1. created \in Seq(Threads) /\ main_thread \in Threads
  BY ThreadAssumption, SchedAssumption
<1>2. DOMAIN created = {1, 2} /\ created[1] = init_proc /\ created[2] = idle_thread
  OBVIOUS
<1> HIDE DEF created
<1>3. /\ Distinct(created) /\ ~elem_find(created, main_thread)
      /\ elem_find(created, idle_thread)
  BY <1>2, SchedAssumption DEF Distinct, elem_find
<1> QED BY Zenon, <1>1, <1>3, ThreadInit DEF created

(***************************************************************************)
(* Every call into the scheduler keeps them consistent and passes its      *)
(* ASSERTs.                                                                *)
(***************************************************************************)
LEMMA SchedSteps == SchedInv /\ [SchedNext]_sched => SchedInv'
<1> SUFFICES ASSUME Good(sched), [SchedNext]_sched PROVE Good(sched')
  BY DEF SchedInv
<1>1. sched \in SchedState /\ sched.cur \in Threads /\ idle_thread \in Threads
  BY RecordForm, ThreadAssumption DEF Good
<1>2. ASSUME NEW t \in Threads, Start(t) PROVE Good(sched')
  BY Zenon, <1>2, ThreadStart DEF Start
<1>3. ASSUME NEW t \in Threads, Reap(t) PROVE Good(sched')
  <2>1. t # idle_thread  BY <1>3 DEF Reap, Good, SchedOK, TASK_HANGING, TASK_RUNNING, TASK_READY, TASK_BLOCKED
  <2> QED BY Zenon, <1>3, <2>1, ThreadExit DEF Reap
<1>4. ASSUME NEW t \in Threads, Wake(t) PROVE Good(sched')
  BY Zenon, <1>4, UnblockGood DEF Wake, Blocked
<1>5. ASSUME NEW stat \in Blocked, Block(stat) PROVE Good(sched')
  BY Zenon, <1>5, ThreadBlock DEF Block, Runs
<1>6. CASE Yield  BY <1>6, YieldSame DEF Yield
<1>7. CASE ExitMain
  BY Zenon, <1>1, <1>7, ThreadExit, SchedAssumption DEF ExitMain, Runs
<1>8. CASE SchedIdle
  <2>1. TASK_BLOCKED \in Blocked  BY DEF Blocked
  <2> QED BY Zenon, <1>8, <2>1, ThreadBlock DEF SchedIdle
<1>9. CASE SchedTick  BY <1>9, TimerHandler DEF SchedTick
<1>10. CASE UNCHANGED sched  BY <1>10
<1> QED BY <1>2, <1>3, <1>4, <1>5, <1>6, <1>7, <1>8, <1>9, <1>10 DEF SchedNext

(***************************************************************************)
(* Both together.                                                          *)
(***************************************************************************)
THEOREM SchedGood == SchedSpec => []SchedInv
BY SchedStarts, SchedSteps, PTL DEF SchedSpec

(***************************************************************************)
(* The scheduler's state keeps its type whatever is called and in whatever *)
(* order.                                                                  *)
(***************************************************************************)
THEOREM SchedTypeCorrect == SchedSpec => []SchedTypeOK
<1>1. SchedInv => SchedTypeOK  BY DEF SchedInv, Good, SchedTypeOK
<1> QED BY <1>1, SchedGood, PTL

(***************************************************************************)
(* The ready list holds exactly the READY threads, once each, and the one  *)
(* RUNNING thread is the one on the CPU.                                   *)
(***************************************************************************)
THEOREM ReadyListCorrect == SchedSpec => []ReadyListOK
<1>1. SchedInv => ReadyListOK  BY DEF SchedInv, Good, ReadyListOK
<1> QED BY <1>1, SchedGood, PTL

(***************************************************************************)
(* No ASSERT of the scheduler ever fails.                                  *)
(***************************************************************************)
THEOREM SchedNeverPanics == SchedSpec => []AssertsHold
<1>1. SchedInv => AssertsHold  BY DEF SchedInv, Good, AssertsHold, Up
<1> QED BY <1>1, SchedGood, PTL

\* t stands before u in a list.
Precedes(list, t, u) ==
  \E i, j \in DOMAIN list : i < j /\ list[i] = t /\ list[j] = u

(***************************************************************************)
(* list_append keeps the order, and puts the new element behind all.       *)
(***************************************************************************)
LEMMA AppendOrder ==
  ASSUME NEW S, NEW list \in Seq(S), NEW x \in S, NEW t
  PROVE  /\ \A u : Precedes(list, t, u) => Precedes(Append(list, x), t, u)
         /\ elem_find(list, t) => Precedes(Append(list, x), t, x)
<1> DEFINE l == Append(list, x)
<1>1. /\ Len(list) \in Nat /\ DOMAIN list = 1 .. Len(list)
      /\ DOMAIN l = 1 .. (Len(list) + 1) /\ l[Len(list) + 1] = x
      /\ \A i \in 1 .. Len(list) : l[i] = list[i]
  OBVIOUS
<1> HIDE DEF l
<1>2. ASSUME NEW u, Precedes(list, t, u) PROVE Precedes(l, t, u)
  <2>1. PICK i \in 1 .. Len(list), j \in 1 .. Len(list) :
          i < j /\ list[i] = t /\ list[j] = u
    BY <1>1, <1>2 DEF Precedes
  <2>2. i \in DOMAIN l /\ j \in DOMAIN l /\ l[i] = t /\ l[j] = u  BY <1>1, <2>1
  <2> QED BY <2>1, <2>2 DEF Precedes
<1>3. ASSUME elem_find(list, t) PROVE Precedes(l, t, x)
  <2>1. PICK i \in 1 .. Len(list) : list[i] = t  BY <1>1, <1>3 DEF elem_find
  <2>2. /\ i \in DOMAIN l /\ Len(list) + 1 \in DOMAIN l /\ i < Len(list) + 1
        /\ l[i] = t /\ l[Len(list) + 1] = x
    BY <1>1, <2>1
  <2> QED BY <2>2 DEF Precedes
<1> QED BY <1>2, <1>3 DEF l

(***************************************************************************)
(* list_push keeps the order of those that are in the list.                *)
(***************************************************************************)
LEMMA PushOrder ==
  ASSUME NEW S, NEW list \in Seq(S), NEW x \in S, NEW t, NEW u, Precedes(list, t, u)
  PROVE  Precedes(list_push(list, x), t, u)
<1> DEFINE l == list_push(list, x)
<1>1. /\ Len(list) \in Nat /\ DOMAIN list = 1 .. Len(list)
      /\ DOMAIN l = 1 .. (Len(list) + 1)
      /\ \A i \in 2 .. (Len(list) + 1) : l[i] = list[i - 1]
  BY DEF list_push
<1> HIDE DEF l
<1>2. PICK i \in 1 .. Len(list), j \in 1 .. Len(list) : i < j /\ list[i] = t /\ list[j] = u
  BY <1>1 DEF Precedes
<1>3. /\ i + 1 \in DOMAIN l /\ j + 1 \in DOMAIN l /\ i + 1 < j + 1
      /\ l[i + 1] = t /\ l[j + 1] = u
  BY <1>1, <1>2
<1>4. Precedes(l, t, u)  BY <1>3 DEF Precedes
<1> QED BY <1>4 DEF l

(***************************************************************************)
(* list_pop keeps the order of those that stay.                            *)
(***************************************************************************)
LEMMA PopOrder ==
  ASSUME NEW S, NEW list \in Seq(S), list # <<>>, Distinct(list), NEW t, NEW u,
         Precedes(list, t, u), elem_find(Tail(list), t)
  PROVE  Precedes(Tail(list), t, u)
<1> DEFINE l == Tail(list)
<1>1. /\ Len(list) \in Nat \ {0} /\ DOMAIN list = 1 .. Len(list)
      /\ DOMAIN l = 1 .. (Len(list) - 1)
      /\ \A i \in 1 .. (Len(list) - 1) : l[i] = list[i + 1]
  OBVIOUS
<1>2. t # Head(list)  BY PopList
<1>3. Head(list) = list[1]  BY <1>1
<1> HIDE DEF l
<1>4. PICK i \in 1 .. Len(list), j \in 1 .. Len(list) : i < j /\ list[i] = t /\ list[j] = u
  BY <1>1 DEF Precedes
<1>5. i # 1  BY <1>2, <1>3, <1>4
<1>6. /\ i - 1 \in DOMAIN l /\ j - 1 \in DOMAIN l /\ i - 1 < j - 1
      /\ l[i - 1] = t /\ l[j - 1] = u
  BY <1>1, <1>4, <1>5
<1>7. Precedes(l, t, u)  BY <1>6 DEF Precedes
<1> QED BY <1>7 DEF l

(***************************************************************************)
(* schedule keeps the order of the threads that stay ready, and a thread   *)
(* that was still RUNNING goes behind all of them.                         *)
(***************************************************************************)
LEMMA ScheduleOrder ==
  ASSUME NEW k, Leaving(k), NEW t \in Threads, elem_find(schedule(k).ready, t)
  PROVE  /\ \A u \in Threads : Precedes(k.ready, t, u) => Precedes(schedule(k).ready, t, u)
         /\ k.status[k.cur] = TASK_RUNNING /\ elem_find(k.ready, t)
              => Precedes(schedule(k).ready, t, k.cur)
<1> USE DEF TASK_RUNNING, TASK_READY
<1> DEFINE d == put_down(k)
           w == wake_idle(d)
           s == put_on(w)
<1>1. /\ Leaving(d) /\ d.cur = k.cur /\ k \in SchedState
      /\ d.status = [v \in Threads |->
           IF v = k.cur /\ k.status[v] = TASK_RUNNING THEN TASK_READY ELSE k.status[v]]
  BY Zenon, PutDown DEF Leaving
<1>2. k.ready \in Seq(Threads) /\ k.cur \in Threads  BY <1>1, RecordForm
<1>3. d.status[d.cur] # TASK_RUNNING  BY <1>1, <1>2
<1>4. d.ready = IF k.status[k.cur] = TASK_RUNNING THEN Append(k.ready, k.cur) ELSE k.ready
  <2>1. CASE k.status[k.cur] # TASK_RUNNING  BY <2>1 DEF put_down
  <2>2. CASE k.status[k.cur] = TASK_RUNNING
    <3>1. ~elem_find(k.ready, k.cur)  BY <1>2, <2>2 DEF Leaving
    <3>2. d = [k EXCEPT !.ready = Append(k.ready, k.cur),
                        !.ticks = [k.ticks EXCEPT ![k.cur] = priority[k.cur]],
                        !.status = [k.status EXCEPT ![k.cur] = TASK_READY]]
      BY <2>2, <3>1 DEF put_down
    <3> HIDE DEF d
    <3> QED BY <1>1, <2>2, <3>2, RecordForm
  <2> QED BY <2>1, <2>2
<1>5. s = schedule(k)  BY DEF schedule
<1> HIDE DEF d
<1>6. /\ Leaving(w) /\ w.cur = d.cur /\ w.ready # <<>>
      /\ w.status = d.status \/ w.ready = <<idle_thread>>
  BY Zenon, <1>1, <1>3, WakeIdle
<1>7. w.ready = d.ready \/ w.ready = <<idle_thread>>
  <2>1. CASE d.ready # <<>>  BY <2>1 DEF wake_idle
  <2>2. CASE d.ready = <<>>
    <3>1. \A v : ~elem_find(d.ready, v)  BY <2>2 DEF elem_find
    <3>2. d.status[idle_thread] = TASK_BLOCKED
      BY <1>1, <1>3, <3>1, ThreadAssumption DEF Leaving, TASK_BLOCKED
    <3>3. w.ready = list_push(d.ready, idle_thread)
      BY Zenon, <1>1, <2>2, <3>2, UnblockLeaving, ThreadAssumption DEF wake_idle, Blocked
    <3> QED BY <2>2, <3>3, ThreadAssumption DEF list_push
  <2> QED BY <2>1, <2>2
<1>8. w \in SchedState /\ w.cpu = "up" /\ Distinct(w.ready) /\ w.ready \in Seq(Threads)
  BY <1>6, RecordForm DEF Leaving
<1> HIDE DEF w
<1>9. s.ready = Tail(w.ready)
  <2>1. s = [w EXCEPT !.ready = Tail(w.ready),
                      !.status = [w.status EXCEPT ![Head(w.ready)] = TASK_RUNNING],
                      !.cur = Head(w.ready)]
    BY <1>8 DEF put_on
  <2> HIDE DEF s
  <2> QED BY <1>8, <2>1, RecordForm
<1>10. elem_find(Tail(w.ready), t)  BY <1>5, <1>9
<1>11. w.ready = d.ready
  <2>1. CASE w.ready = <<idle_thread>>
    <3>1. Tail(w.ready) = <<>>  BY <2>1, ThreadAssumption
    <3> QED BY <1>10, <3>1 DEF elem_find
  <2> QED BY <1>7, <2>1
<1>12. ASSUME NEW u \in Threads, Precedes(d.ready, t, u) PROVE Precedes(s.ready, t, u)
  BY SMTT(20), <1>6, <1>8, <1>9, <1>10, <1>11, <1>12, PopOrder
<1> HIDE DEF s
<1>13. CASE k.status[k.cur] = TASK_RUNNING
  <2>1. /\ \A u : Precedes(k.ready, t, u) => Precedes(d.ready, t, u)
        /\ elem_find(k.ready, t) => Precedes(d.ready, t, k.cur)
    BY SMTT(20), <1>2, <1>4, <1>13, AppendOrder
  <2> QED BY SMTT(20), <1>2, <1>5, <1>12, <2>1
<1>14. CASE k.status[k.cur] # TASK_RUNNING
  BY <1>4, <1>5, <1>12, <1>14
<1> QED BY <1>13, <1>14

(***************************************************************************)
(* A thread that takes a status in which it does not run (thread_block,    *)
(* thread_exit) leaves the CPU with the ready list as it was.              *)
(***************************************************************************)
LEMMA StatusLeaves ==
  ASSUME NEW k, Good(k), NEW stat \in Blocked \cup {TASK_DIED},
         k.cur = idle_thread => stat = TASK_BLOCKED,
         NEW b, b = [k EXCEPT !.status = [k.status EXCEPT ![k.cur] = stat]]
  PROVE  Leaving(b) /\ b.ready = k.ready /\ b.cur = k.cur /\ b.status[b.cur] = stat
<1> USE DEF Blocked, Status, TASK_RUNNING, TASK_READY, TASK_BLOCKED, TASK_WAITING,
            TASK_HANGING, TASK_DIED
<1>1. k \in SchedState /\ k.cur \in Threads /\ k.status \in [Threads -> Status]
  BY GoodLeaves, RecordForm
<1>2. /\ b.ready = k.ready /\ b.cur = k.cur /\ b.cpu = k.cpu /\ b.ticks = k.ticks
      /\ b.status = [k.status EXCEPT ![k.cur] = stat]
  BY <1>1, RecordForm
<1>3. b.status \in [Threads -> Status]  BY <1>1, <1>2
<1>4. b \in SchedState  BY Zenon, <1>1, <1>2, <1>3, RecordForm DEF SchedState
<1>5. \A t \in Threads : b.status[t] = IF t = k.cur THEN stat ELSE k.status[t]
  BY <1>1, <1>2
<1>6. Leaving(b)
  BY <1>1, <1>2, <1>4, <1>5, ThreadAssumption DEF Good, SchedOK, Leaving
<1> QED BY <1>1, <1>2, <1>5, <1>6

(***************************************************************************)
(* Round robin: no call into the scheduler lets a thread overtake another  *)
(* one on the ready list, except that thread_unblock puts the woken thread *)
(* at its head; a thread that loses the CPU goes behind all that are       *)
(* ready.                                                                  *)
(***************************************************************************)
THEOREM OrderKept == SchedSpec => RoundRobin
<1> USE DEF TASK_RUNNING, TASK_READY
<1> DEFINE Kept(t, u) ==
      /\ Before(sched, t, u) /\ elem_find(sched'.ready, t) /\ elem_find(sched'.ready, u)
           => Before(sched', t, u)
      /\ sched.cur = u /\ elem_find(sched'.ready, u)
           /\ elem_find(sched.ready, t) /\ elem_find(sched'.ready, t)
           => Before(sched', t, u)
<1>1. ASSUME SchedInv, [SchedNext]_sched PROVE [\A t, u \in Threads : Kept(t, u)]_sched
  <2> SUFFICES ASSUME SchedNext, NEW t \in Threads, NEW u \in Threads PROVE Kept(t, u)
    BY <1>1
  <2> DEFINE k == sched
  <2>1. /\ Good(k) /\ Good(sched') /\ Leaving(k)
        /\ k \in SchedState /\ k.status[k.cur] = TASK_RUNNING
        /\ k.cur \in Threads /\ k.ready \in Seq(Threads) /\ k.status \in [Threads -> Status]
    BY <1>1, SchedSteps, GoodLeaves, RecordForm DEF SchedInv
  <2>2. ~elem_find(k.ready, k.cur)  BY <2>1 DEF Leaving
  <2>3. ASSUME NEW a, NEW v, NEW w PROVE Before(a, v, w) <=> Precedes(a.ready, v, w)
    BY DEF Before, Precedes
  <2>4. ASSUME Precedes(k.ready, t, u) /\ elem_find(sched'.ready, t)
                 => Precedes(sched'.ready, t, u),
               elem_find(sched'.ready, k.cur) /\ elem_find(k.ready, t)
                 /\ elem_find(sched'.ready, t) => Precedes(sched'.ready, t, k.cur)
        PROVE  Kept(t, u)
    BY <2>3, <2>4
  <2>5. ASSUME sched'.ready = k.ready PROVE Kept(t, u)
    BY <2>2, <2>4, <2>5
  <2>6. ASSUME NEW b, Leaving(b), b.ready = k.ready, b.cur = k.cur, sched' = schedule(b),
               \/ b.status[b.cur] = TASK_RUNNING
               \/ ~elem_find(sched'.ready, k.cur)
        PROVE  Kept(t, u)
    <3>1. CASE elem_find(sched'.ready, t)
      <4>1. /\ \A v \in Threads : Precedes(b.ready, t, v) => Precedes(sched'.ready, t, v)
            /\ b.status[b.cur] = TASK_RUNNING /\ elem_find(b.ready, t)
                 => Precedes(sched'.ready, t, b.cur)
        BY <2>6, <3>1, ScheduleOrder
      <4> QED BY SMTT(20), <2>4, <2>6, <4>1
    <3>2. CASE ~elem_find(sched'.ready, t)  BY <2>4, <3>2
    <3> QED BY SMTT(20), <3>1, <3>2
  <2>7. ASSUME NEW stat \in Blocked \cup {TASK_DIED}, k.cur = idle_thread => stat = TASK_BLOCKED,
               sched' = schedule([k EXCEPT !.status = [k.status EXCEPT ![k.cur] = stat]])
        PROVE  Kept(t, u)
    <3> DEFINE b == [k EXCEPT !.status = [k.status EXCEPT ![k.cur] = stat]]
    <3>1. sched' = schedule(b) /\ b = [k EXCEPT !.status = [k.status EXCEPT ![k.cur] = stat]]
      BY <2>7
    <3> HIDE DEF b
    <3>2. Leaving(b) /\ b.ready = k.ready /\ b.cur = k.cur /\ b.status[b.cur] = stat
      BY <2>1, <2>7, <3>1, StatusLeaves
    <3>3. schedule(b).status = [v \in Threads |->
            IF v = schedule(b).cur THEN TASK_RUNNING
            ELSE IF v = b.cur /\ b.status[v] = TASK_RUNNING THEN TASK_READY
            ELSE b.status[v]]
      BY Zenon, <3>2, Schedule
    <3>4. stat # TASK_RUNNING /\ stat # TASK_READY
      BY <2>7 DEF Blocked, TASK_BLOCKED, TASK_WAITING, TASK_HANGING, TASK_DIED
    <3>5. sched'.status[k.cur] # TASK_READY
      <4>1. schedule(b).status[k.cur] # TASK_READY  BY SMTT(20), <2>1, <3>2, <3>3, <3>4
      <4> QED BY <3>1, <4>1
    <3>6. ~elem_find(sched'.ready, k.cur)  BY <2>1, <3>5 DEF Good, SchedOK
    <3> QED BY Zenon, <2>6, <3>1, <3>2, <3>6
  <2>8. ASSUME NEW x \in Threads, Start(x) PROVE Kept(t, u)
    <3>1. k.status[x] = TASK_DIED /\ sched' = thread_start(k, x)  BY <2>8 DEF Start
    <3>2. ~elem_find(k.ready, x) /\ x # k.cur
      BY <2>1, <3>1 DEF Leaving, TASK_DIED
    <3>3. sched' = [k EXCEPT !.ready = Append(k.ready, x),
                             !.ticks = [k.ticks EXCEPT ![x] = priority[x]],
                             !.status = [k.status EXCEPT ![x] = TASK_READY]]
      BY <3>1, <3>2 DEF thread_start
    <3>4. sched'.ready = Append(k.ready, x)  BY <2>1, <3>3, RecordForm
    <3>5. Precedes(k.ready, t, u) => Precedes(sched'.ready, t, u)
      BY Zenon, <2>1, <3>4, AppendOrder
    <3>6. ~elem_find(sched'.ready, k.cur)  BY <2>1, <2>2, <3>2, <3>4, AppendList
    <3> QED BY <2>4, <3>5, <3>6
  <2>9. ASSUME NEW x \in Threads, Wake(x) PROVE Kept(t, u)
    <3>1. k.status[x] \in Blocked /\ sched' = thread_unblock(k, x)
      BY <2>9 DEF Wake, Blocked
    <3>2. sched'.ready = list_push(k.ready, x)  BY Zenon, <2>1, <3>1, UnblockLeaving
    <3>3. x # k.cur
      BY <2>1, <3>1 DEF Blocked, TASK_BLOCKED, TASK_WAITING, TASK_HANGING
    <3>4. Precedes(k.ready, t, u) => Precedes(sched'.ready, t, u)
      BY <2>1, <3>2, PushOrder
    <3>5. ~elem_find(sched'.ready, k.cur)
      <4>1. \A v : elem_find(list_push(k.ready, x), v) <=> v = x \/ elem_find(k.ready, v)
        BY Zenon, <2>1, PushList
      <4> QED BY <2>2, <3>2, <3>3, <4>1
    <3> QED BY <2>4, <3>4, <3>5
  <2>10. ASSUME NEW x \in Threads, Reap(x) PROVE Kept(t, u)
    <3>1. k.status[x] = TASK_HANGING /\ sched' = thread_exit(k, x, FALSE)  BY <2>10 DEF Reap
    <3>2. ~elem_find(k.ready, x)  BY <2>1, <3>1 DEF Leaving, TASK_HANGING
    <3>3. sched' = [k EXCEPT !.status = [k.status EXCEPT ![x] = TASK_DIED],
                             !.ready = k.ready]
      BY <3>1, <3>2 DEF thread_exit
    <3>4. sched'.ready = k.ready  BY <2>1, <3>3, RecordForm
    <3> QED BY <2>5, <3>4
  <2>11. ASSUME NEW stat \in Blocked, Block(stat) PROVE Kept(t, u)
    <3>1. /\ k.cur # idle_thread
          /\ sched' = schedule([k EXCEPT !.status = [k.status EXCEPT ![k.cur] = stat]])
      BY <2>11 DEF Block, Runs, thread_block
    <3> QED BY <2>7, <3>1
  <2>12. CASE Yield
    <3> DEFINE y == [k EXCEPT !.ready = Append(k.ready, k.cur),
                              !.status = [k.status EXCEPT ![k.cur] = TASK_READY]]
    <3>1. sched' = schedule(y)  BY <2>2, <2>12 DEF Yield, thread_yield
    <3>2. /\ y.ready = Append(k.ready, k.cur) /\ y.cur = k.cur
          /\ y.cpu = k.cpu /\ y.ticks = k.ticks
          /\ y.status = [k.status EXCEPT ![k.cur] = TASK_READY]
      BY <2>1, RecordForm
    <3>3. /\ y.ready \in Seq(Threads) /\ Distinct(y.ready)
          /\ \A v : elem_find(y.ready, v) <=> v = k.cur \/ elem_find(k.ready, v)
      BY <2>1, <2>2, <3>2, AppendList DEF Leaving
    <3>4. y.status \in [Threads -> Status]  BY <2>1, <3>2 DEF Status
    <3>5. y \in SchedState
      BY Zenon, <2>1, <3>2, <3>3, <3>4, RecordForm DEF SchedState
    <3> HIDE DEF y
    <3>6. \A v \in Threads : y.status[v] = IF v = k.cur THEN TASK_READY ELSE k.status[v]
      BY SMTT(20), <2>1, <3>2
    <3>7. Leaving(y)
      BY SMTT(20), <2>1, <3>2, <3>3, <3>5, <3>6, ThreadAssumption DEF Leaving
    <3>8. /\ Precedes(k.ready, t, u) => Precedes(y.ready, t, u)
          /\ elem_find(k.ready, t) => Precedes(y.ready, t, k.cur)
      BY SMTT(20), <2>1, <3>2, AppendOrder
    <3>9. CASE elem_find(sched'.ready, t)
      <4>1. \A v \in Threads : Precedes(y.ready, t, v) => Precedes(sched'.ready, t, v)
        BY <3>1, <3>7, <3>9, ScheduleOrder
      <4> QED BY <2>1, <2>4, <3>8, <4>1
    <3>10. CASE ~elem_find(sched'.ready, t)  BY <2>4, <3>10
    <3> QED BY <3>9, <3>10
  <2>13. CASE ExitMain
    <3>1. k.cur = main_thread /\ sched' = thread_exit(k, k.cur, TRUE)
      BY <2>13 DEF ExitMain, Runs
    <3>2. sched' = schedule([k EXCEPT !.status = [k.status EXCEPT ![k.cur] = TASK_DIED],
                                      !.ready = k.ready])
      BY <2>2, <3>1 DEF thread_exit
    <3>3. [k EXCEPT !.status = [k.status EXCEPT ![k.cur] = TASK_DIED], !.ready = k.ready]
            = [k EXCEPT !.status = [k.status EXCEPT ![k.cur] = TASK_DIED]]
      BY Zenon, <2>1, RecordForm
    <3>4. k.cur # idle_thread  BY <3>1, SchedAssumption
    <3> QED BY <2>7, <3>2, <3>3, <3>4
  <2>14. CASE SchedIdle
    <3>1. sched' = schedule([k EXCEPT !.status = [k.status EXCEPT ![k.cur] = TASK_BLOCKED]])
      BY <2>14 DEF SchedIdle, thread_block
    <3>2. TASK_BLOCKED \in Blocked \cup {TASK_DIED}  BY DEF Blocked
    <3> QED BY <2>7, <3>1, <3>2
  <2>15. CASE SchedTick
    <3>1. sched' = intr_timer_handler(k)  BY SMTT(20), <2>15 DEF SchedTick
    <3>2. CASE k.ticks[k.cur] = 0
      <4>1. sched' = schedule(k)  BY <3>1, <3>2 DEF intr_timer_handler
      <4> QED BY <2>1, <2>6, <4>1
    <3>3. CASE k.ticks[k.cur] # 0
      <4>1. sched' = [k EXCEPT !.ticks = [k.ticks EXCEPT ![k.cur] = k.ticks[k.cur] - 1]]
        BY <3>1, <3>3 DEF intr_timer_handler
      <4>2. sched'.ready = k.ready  BY <2>1, <4>1, RecordForm
      <4> QED BY <2>5, <4>2
    <3> QED BY <3>2, <3>3
  <2> QED BY SMTT(20), <2>8, <2>9, <2>10, <2>11, <2>12, <2>13, <2>14, <2>15 DEF SchedNext
<1>2. SchedInv /\ [SchedNext]_sched => [\A t, u \in Threads : Kept(t, u)]_sched  BY <1>1
<1> QED BY <1>2, SchedGood, PTL DEF SchedSpec, RoundRobin
=============================================================================
