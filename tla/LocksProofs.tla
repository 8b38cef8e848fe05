---------------------------- MODULE LocksProofs -----------------------------
(***************************************************************************)
(* A lock of thread/sync.c for any set of threads, any preemptible subset  *)
(* of them and any nesting depth: no ASSERT of sync.c or of the scheduler  *)
(* fails, and the lock implements the re-entrant mutex of Mutex.tla.       *)
(*                                                                         *)
(* LInv is inductive.  It joins three arguments that need each other: the  *)
(* scheduler is consistent (ThreadProofs), the threads in waiters are      *)
(* blocked in sema_down (so that sema_up may unblock them, and a thread    *)
(* that runs is not among them), and whoever is inside holds the only      *)
(* token (so that sema_up finds value 0 and a new holder finds a clear     *)
(* count).                                                                 *)
(***************************************************************************)
EXTENDS Locks, ThreadProofs

PCs == {"user", "acquire", "down", "woken", "own", "cs", "slept", "unwind", "up"}

Lock == [holder : Threads \cup {NULL}, holder_repeat_nr : Nat, semaphore : Sema]

TypeInv == pc \in [Threads -> PCs] /\ pc[idle_thread] = "user" /\ plock \in Lock

(***************************************************************************)
(* Who sleeps where: waiters are blocked in sema_down, and a critical      *)
(* section that waits for its interrupt is blocked too.                    *)
(***************************************************************************)
SleepersOK(k, w, p) ==
  /\ Distinct(w)
  /\ \A t \in Threads : elem_find(w, t) => p[t] = "woken" /\ k.status[t] = TASK_BLOCKED
  /\ \A t \in Threads : p[t] = "slept" => k.status[t] = TASK_BLOCKED

(***************************************************************************)
(* Where a thread stands with respect to the lock l when it is at label:   *)
(* it is a holder, or inside without being the holder yet or any more, or  *)
(* outside.                                                                *)
(***************************************************************************)
Stands(t, label, l) ==
  /\ label \in InSection => l.semaphore.value = 0
  /\ label \in {"cs", "slept", "unwind"} => l.holder = t
  /\ label \in {"own", "up"} => l.holder = NULL
  /\ label \in {"user", "down", "woken"} => l.holder # t
  /\ label = "acquire" /\ l.holder = t => l.holder_repeat_nr < MaxDepth

TokenOK(l, p) ==
  /\ l.holder = NULL <=> l.holder_repeat_nr = 0
  /\ l.holder_repeat_nr <= MaxDepth
  /\ l.holder # NULL => l.semaphore.value = 0
  /\ \A t \in Threads : Stands(t, p[t], l)
  /\ \A t, u \in Threads :
       p[t] \in {"own", "up"} /\ p[u] \in {"own", "up"} => t = u

LInv ==
  /\ TypeInv
  /\ Good(sched)
  /\ SleepersOK(sched, plock.semaphore.waiters, pc)
  /\ TokenOK(plock, pc)

(***************************************************************************)
(* lock_init and thread_init establish it.                                 *)
(***************************************************************************)
LEMMA LocksInit == Init => LInv
<1> SUFFICES ASSUME Init PROVE LInv  OBVIOUS
<1>1. sched = thread_init(first, others) /\ pc = [t \in Threads |-> "user"]  BY DEF Init
<1>2. plock = [holder |-> NULL, holder_repeat_nr |-> 0,
               semaphore |-> [value |-> 1, waiters |-> <<>>]]
  BY DEF Init, lock_init, sema_init
<1>3. TypeInv
  BY <1>1, <1>2, ThreadAssumption DEF TypeInv, PCs, Lock, Sema
<1>4. Good(sched)  BY <1>1, ThreadInit, LocksAssumption
<1>5. SleepersOK(sched, plock.semaphore.waiters, pc)
  BY <1>1, <1>2 DEF SleepersOK, Distinct, elem_find
<1>6. TokenOK(plock, pc)
  BY <1>1, <1>2, SyncAssumption, LocksAssumption DEF TokenOK, Stands, InSection
<1> QED BY <1>3, <1>4, <1>5, <1>6 DEF LInv

(***************************************************************************)
(* The fields of a lock, and what is left of them after an assignment to   *)
(* its semaphore or to its count.                                          *)
(***************************************************************************)
LEMMA LockFields ==
  ASSUME NEW l \in Lock
  PROVE  /\ l.holder \in Threads \cup {NULL} /\ l.holder_repeat_nr \in Nat
         /\ l.semaphore \in Sema
         /\ l.semaphore.value \in {0, 1} /\ l.semaphore.waiters \in Seq(Threads)
BY DEF Lock, Sema

(***************************************************************************)
(* Assigning the semaphore of a lock leaves its other fields alone.        *)
(***************************************************************************)
LEMMA SetSemaphore ==
  ASSUME NEW l \in Lock, NEW s \in Sema, NEW m, m = [l EXCEPT !.semaphore = s]
  PROVE  /\ m \in Lock /\ m.holder = l.holder
         /\ m.holder_repeat_nr = l.holder_repeat_nr /\ m.semaphore = s
BY DEF Lock

(***************************************************************************)
(* Assigning its repeat count leaves the others alone.                     *)
(***************************************************************************)
LEMMA SetCount ==
  ASSUME NEW l \in Lock, NEW n \in Nat, NEW m, m = [l EXCEPT !.holder_repeat_nr = n]
  PROVE  /\ m \in Lock /\ m.holder = l.holder
         /\ m.holder_repeat_nr = n /\ m.semaphore = l.semaphore
BY DEF Lock

(***************************************************************************)
(* Every step of the lock, of the section and of the timer preserves it.   *)
(***************************************************************************)
LEMMA LocksNext == LInv /\ [Next]_vars => LInv'
<1> SUFFICES ASSUME LInv, [Next]_vars PROVE LInv'  OBVIOUS
<1> DEFINE sem == plock.semaphore
<1> USE DEF At, Goto
<1>1. /\ pc \in [Threads -> PCs] /\ pc[idle_thread] = "user" /\ plock \in Lock
      /\ Good(sched) /\ SleepersOK(sched, sem.waiters, pc) /\ TokenOK(plock, pc)
      /\ idle_thread \in Threads /\ NULL \notin Threads /\ MaxDepth \in Nat \ {0}
  BY ThreadAssumption, SyncAssumption, LocksAssumption DEF LInv, TypeInv
<1>2. /\ sched.cur \in Threads /\ sched.status[sched.cur] = TASK_RUNNING
      /\ sched.cpu = "up"
  BY <1>1, GoodLeaves, RecordForm DEF Good
<1>3. /\ plock.holder \in Threads \cup {NULL} /\ plock.holder_repeat_nr \in Nat
      /\ sem \in Sema /\ sem.value \in {0, 1} /\ sem.waiters \in Seq(Threads)
  BY <1>1, LockFields
<1>4. ~elem_find(sem.waiters, sched.cur) /\ pc[sched.cur] # "slept"
  BY <1>1, <1>2 DEF SleepersOK, TASK_RUNNING, TASK_BLOCKED
<1> HIDE DEF sem
<1>5. ASSUME NEW t \in Threads, Enter(t) PROVE LInv'
  <2>1. pc[t] = "user" /\ pc' = [pc EXCEPT ![t] = "acquire"] /\ UNCHANGED <<sched, plock>>
    BY <1>5 DEF Enter
  <2>2. t # idle_thread  BY <1>5 DEF Enter
  <2>3. TypeInv'  BY <1>1, <2>1, <2>2 DEF TypeInv, PCs
  <2>4. SleepersOK(sched, sem.waiters, pc')  BY <1>1, <2>1 DEF SleepersOK
  <2>5. TokenOK(plock, pc')  BY <1>1, <2>1 DEF TokenOK, Stands, InSection
  <2> QED BY <1>1, <2>1, <2>3, <2>4, <2>5 DEF LInv, sem
<1>6. ASSUME NEW t \in Threads, lock_acquire(t) PROVE LInv'
  <2>1. pc[t] = "acquire" /\ t # idle_thread /\ sched' = sched  BY <1>6 DEF lock_acquire
  <2>2. CASE plock.holder # t
    <3>1. pc' = [pc EXCEPT ![t] = "down"] /\ plock' = plock  BY <1>6, <2>2 DEF lock_acquire
    <3>2. TypeInv'  BY <1>1, <2>1, <3>1 DEF TypeInv, PCs
    <3>3. SleepersOK(sched, sem.waiters, pc')  BY <1>1, <2>1, <3>1 DEF SleepersOK
    <3>4. TokenOK(plock, pc')  BY <1>1, <2>1, <2>2, <3>1 DEF TokenOK, Stands, InSection
    <3> QED BY <1>1, <2>1, <3>1, <3>2, <3>3, <3>4 DEF LInv, sem
  <2>3. CASE plock.holder = t
    <3>1. /\ pc' = [pc EXCEPT ![t] = "cs"]
          /\ plock' = [plock EXCEPT !.holder_repeat_nr = plock.holder_repeat_nr + 1]
      BY <1>6, <2>3 DEF lock_acquire
    <3>2. /\ plock' \in Lock /\ plock'.holder = plock.holder /\ plock'.semaphore = sem
          /\ plock'.holder_repeat_nr = plock.holder_repeat_nr + 1
      <4>1. plock.holder_repeat_nr + 1 \in Nat  BY <1>3
      <4> QED BY <1>1, <1>3, <3>1, <4>1, SetCount DEF sem
    <3>3. TypeInv'  BY <1>1, <2>1, <3>1, <3>2 DEF TypeInv, PCs
    <3>4. SleepersOK(sched, sem.waiters, pc')  BY <1>1, <2>1, <3>1 DEF SleepersOK
    <3>5. TokenOK(plock', pc')
      <4>1. plock.holder_repeat_nr < MaxDepth /\ sem.value = 0
        BY <1>1, <2>1, <2>3 DEF TokenOK, Stands, sem
      <4>2. ASSUME NEW u \in Threads PROVE Stands(u, pc'[u], plock')
        <5>1. CASE u = t
          BY <1>1, <2>3, <3>1, <3>2, <4>1, <5>1 DEF Stands, InSection
        <5>2. CASE u # t
          <6>1. pc'[u] = pc[u] /\ Stands(u, pc[u], plock)
            BY <1>1, <3>1, <5>2 DEF TokenOK
          <6> QED BY <2>3, <3>2, <5>2, <6>1 DEF Stands, sem
        <5> QED BY <5>1, <5>2
      <4> QED BY <1>1, <1>3, <2>3, <3>1, <3>2, <4>1, <4>2 DEF TokenOK
    <3> QED BY <1>1, <2>1, <3>2, <3>3, <3>4, <3>5 DEF LInv
  <2> QED BY <2>2, <2>3
<1>7. ASSUME NEW t \in Threads, Down(t) PROVE LInv'
  <2>1. pc[t] \in {"down", "woken"} /\ t # idle_thread /\ sched.cur = t  BY <1>7 DEF Down
  <2>2. CASE sem.value = 0
    <3> DEFINE s == [sem EXCEPT !.waiters = Append(sem.waiters, t)]
    <3>1. /\ sched' = thread_block(sched, TASK_BLOCKED)
          /\ plock' = [plock EXCEPT !.semaphore = s]
          /\ pc' = [pc EXCEPT ![t] = "woken"]
      BY <1>4, <1>7, <2>1, <2>2 DEF Down, sema_down, sema_wait, sem
    <3>2. Append(sem.waiters, t) \in Seq(Threads)  BY <1>3
    <3>3. s \in Sema /\ s.value = sem.value /\ s.waiters = Append(sem.waiters, t)
      BY <1>3, <3>2 DEF Sema
    <3> HIDE DEF s
    <3>4. /\ plock' \in Lock /\ plock'.holder = plock.holder
          /\ plock'.holder_repeat_nr = plock.holder_repeat_nr
          /\ plock'.semaphore.value = sem.value
          /\ plock'.semaphore.waiters = Append(sem.waiters, t)
      BY <1>1, <3>1, <3>3, SetSemaphore
    <3>5. TypeInv'  BY <1>1, <2>1, <3>1, <3>4 DEF TypeInv, PCs
    <3>6. /\ Good(sched') /\ sched'.status[t] = TASK_BLOCKED
          /\ \A u \in Threads \ {idle_thread} :
               sched.status[u] = TASK_BLOCKED => sched'.status[u] = TASK_BLOCKED
      BY <1>1, <2>1, <3>1, BlockSleepers
    <3>7. /\ Distinct(Append(sem.waiters, t))
          /\ \A u : elem_find(Append(sem.waiters, t), u) <=> u = t \/ elem_find(sem.waiters, u)
      BY <1>1, <1>3, <1>4, <2>1, AppendList DEF SleepersOK
    <3>8. SleepersOK(sched', Append(sem.waiters, t), pc')
      BY <1>1, <3>1, <3>6, <3>7 DEF SleepersOK
    <3>9. TokenOK(plock', pc')
      BY <1>1, <1>3, <2>1, <3>1, <3>4 DEF TokenOK, Stands, InSection, sem
    <3> QED BY <3>4, <3>5, <3>6, <3>8, <3>9 DEF LInv
  <2>3. CASE sem.value = 1
    <3> DEFINE s == [sem EXCEPT !.value = 0]
    <3>1. /\ sched' = sched
          /\ plock' = [plock EXCEPT !.semaphore = s]
          /\ pc' = [pc EXCEPT ![t] = "own"]
      BY <1>7, <2>1, <2>3 DEF Down, sema_down, sema_take, sem
    <3>2. s \in Sema /\ s.value = 0 /\ s.waiters = sem.waiters  BY <1>3 DEF Sema
    <3> HIDE DEF s
    <3>3. /\ plock' \in Lock /\ plock'.holder = plock.holder
          /\ plock'.holder_repeat_nr = plock.holder_repeat_nr
          /\ plock'.semaphore.value = 0 /\ plock'.semaphore.waiters = sem.waiters
      BY <1>1, <3>1, <3>2, SetSemaphore
    <3>4. TypeInv'  BY <1>1, <2>1, <3>1, <3>3 DEF TypeInv, PCs
    <3>5. SleepersOK(sched, sem.waiters, pc')
      BY <1>1, <1>4, <2>1, <3>1 DEF SleepersOK
    <3>6. TokenOK(plock', pc')
      <4>1. plock.holder = NULL /\ \A u \in Threads : pc[u] \notin InSection
        BY <1>1, <2>3 DEF TokenOK, Stands, sem
      <4>2. \A u \in Threads : pc'[u] = IF u = t THEN "own" ELSE pc[u]
        BY <1>1, <3>1
      <4>3. \A u \in Threads : Stands(u, pc'[u], plock')
        BY <1>1, <3>3, <4>1, <4>2 DEF Stands, InSection
      <4> QED BY <1>1, <3>3, <4>1, <4>2, <4>3 DEF TokenOK, InSection
    <3> QED BY <1>1, <3>1, <3>3, <3>4, <3>5, <3>6 DEF LInv
  <2> QED BY <1>3, <2>2, <2>3
<1>8. ASSUME NEW t \in Threads, Own(t) PROVE LInv'
  <2>1. pc[t] = "own" /\ t # idle_thread  BY <1>8 DEF Own
  <2>2. plock.holder = NULL /\ plock.holder_repeat_nr = 0 /\ sem.value = 0
    BY <1>1, <2>1 DEF TokenOK, Stands, InSection, sem
  <2>3. /\ sched' = sched /\ pc' = [pc EXCEPT ![t] = "cs"]
        /\ plock' = [plock EXCEPT !.holder = t, !.holder_repeat_nr = 1]
    BY <1>8, <2>2 DEF Own
  <2>4. /\ plock' \in Lock /\ plock'.holder = t /\ plock'.holder_repeat_nr = 1
        /\ plock'.semaphore = sem
    <3>1. 1 \in Nat /\ t \in Threads \cup {NULL}  OBVIOUS
    <3> QED BY Zenon, <1>1, <1>3, <2>3, <3>1 DEF sem, Lock
  <2>5. TypeInv'  BY <1>1, <2>1, <2>3, <2>4 DEF TypeInv, PCs
  <2>6. SleepersOK(sched, sem.waiters, pc')  BY <1>1, <2>1, <2>3 DEF SleepersOK
  <2>7. TokenOK(plock', pc')
    <3>1. \A u \in Threads : pc'[u] = IF u = t THEN "cs" ELSE pc[u]  BY <1>1, <2>3
    <3>2. \A u \in Threads \ {t} :
            pc[u] \notin {"own", "up", "cs", "slept", "unwind"} /\ Stands(u, pc[u], plock)
      BY <1>1, <2>1, <2>2 DEF TokenOK, Stands
    <3>3. \A u \in Threads : Stands(u, pc'[u], plock')
      BY <2>2, <2>4, <3>1, <3>2 DEF Stands, InSection
    <3> QED BY <1>1, <2>2, <2>4, <3>1, <3>2, <3>3 DEF TokenOK
  <2> QED BY <1>1, <2>3, <2>4, <2>5, <2>6, <2>7 DEF LInv
<1>9. ASSUME NEW t \in Threads, Nest(t) PROVE LInv'
  <2>1. /\ pc[t] = "cs" /\ t # idle_thread /\ plock.holder_repeat_nr < MaxDepth
        /\ pc' = [pc EXCEPT ![t] = "acquire"] /\ UNCHANGED <<sched, plock>>
    BY <1>9 DEF Nest
  <2>2. TypeInv'  BY <1>1, <2>1 DEF TypeInv, PCs
  <2>3. SleepersOK(sched, sem.waiters, pc')  BY <1>1, <2>1 DEF SleepersOK
  <2>4. TokenOK(plock, pc')  BY <1>1, <2>1 DEF TokenOK, Stands, InSection
  <2> QED BY <1>1, <2>1, <2>2, <2>3, <2>4 DEF LInv, sem
<1>10. ASSUME NEW t \in Threads, Sleep(t) PROVE LInv'
  <2>1. /\ pc[t] = "cs" /\ t # idle_thread /\ sched.cur = t
        /\ sched' = thread_block(sched, TASK_BLOCKED)
        /\ pc' = [pc EXCEPT ![t] = "slept"] /\ plock' = plock
    BY <1>10 DEF Sleep
  <2>2. TypeInv'  BY <1>1, <2>1 DEF TypeInv, PCs
  <2>3. /\ Good(sched') /\ sched'.status[t] = TASK_BLOCKED
        /\ \A u \in Threads \ {idle_thread} :
             sched.status[u] = TASK_BLOCKED => sched'.status[u] = TASK_BLOCKED
    BY <1>1, <2>1, BlockSleepers
  <2>4. SleepersOK(sched', sem.waiters, pc')
    BY <1>1, <2>1, <2>3 DEF SleepersOK
  <2>5. TokenOK(plock, pc')  BY <1>1, <2>1 DEF TokenOK, Stands, InSection
  <2> QED BY <2>1, <2>2, <2>3, <2>4, <2>5 DEF LInv, sem
<1>11. ASSUME NEW t \in Threads, WakeUp(t) PROVE LInv'
  <2>1. /\ pc[t] = "slept" /\ sched' = thread_unblock(sched, t)
        /\ pc' = [pc EXCEPT ![t] = "cs"] /\ plock' = plock
    BY <1>11 DEF WakeUp
  <2>2. t # idle_thread /\ sched.status[t] = TASK_BLOCKED  BY <1>1, <2>1 DEF SleepersOK
  <2>3. Good(sched') /\ sched'.status = [sched.status EXCEPT ![t] = TASK_READY]
    BY <1>1, <2>1, <2>2, UnblockGood DEF Blocked
  <2>4. TypeInv'  BY <1>1, <2>1, <2>2 DEF TypeInv, PCs
  <2>5. SleepersOK(sched', sem.waiters, pc')
    <3>1. \A u \in Threads \ {t} : sched'.status[u] = sched.status[u] /\ pc'[u] = pc[u]
      BY <1>1, <2>1, <2>3, RecordForm DEF Good
    <3>2. pc'[t] = "cs" /\ ~elem_find(sem.waiters, t)  BY <1>1, <2>1 DEF SleepersOK
    <3> QED BY <1>1, <3>1, <3>2 DEF SleepersOK
  <2>6. TokenOK(plock, pc')  BY <1>1, <2>1 DEF TokenOK, Stands, InSection
  <2> QED BY <2>1, <2>3, <2>4, <2>5, <2>6 DEF LInv, sem
<1>12. ASSUME NEW t \in Threads, lock_release(t) PROVE LInv'
  <2>1. pc[t] \in {"cs", "unwind"} /\ t # idle_thread  BY <1>12 DEF lock_release
  <2>2. plock.holder = t /\ plock.holder_repeat_nr # 0 /\ sem.value = 0
    BY <1>1, <2>1 DEF TokenOK, Stands, InSection, sem
  <2>3. sched' = sched  BY <1>12, <2>2 DEF lock_release
  <2>4. CASE plock.holder_repeat_nr > 1
    <3>1. /\ pc' = [pc EXCEPT ![t] = "unwind"]
          /\ plock' = [plock EXCEPT !.holder_repeat_nr = plock.holder_repeat_nr - 1]
      BY <1>12, <2>2, <2>4 DEF lock_release
    <3>2. plock.holder_repeat_nr - 1 \in Nat /\ plock.holder_repeat_nr - 1 # 0
      BY <1>3, <2>4
    <3>3. /\ plock' \in Lock /\ plock'.holder = t /\ plock'.semaphore = sem
          /\ plock'.holder_repeat_nr = plock.holder_repeat_nr - 1
      BY <1>1, <1>3, <2>2, <3>1, <3>2, SetCount DEF sem
    <3>4. TypeInv'  BY <1>1, <2>1, <3>1, <3>3 DEF TypeInv, PCs
    <3>5. SleepersOK(sched, sem.waiters, pc')  BY <1>1, <2>1, <3>1 DEF SleepersOK
    <3>6. TokenOK(plock', pc')
      <4>1. \A u \in Threads : pc'[u] = IF u = t THEN "unwind" ELSE pc[u]  BY <1>1, <3>1
      <4>2. \A u \in Threads \ {t} :
              pc[u] \notin {"own", "up", "cs", "slept", "unwind"} /\ Stands(u, pc[u], plock)
        BY <1>1, <2>2 DEF TokenOK, Stands
      <4>3. \A u \in Threads : Stands(u, pc'[u], plock')
        BY <1>1, <2>2, <3>3, <4>1, <4>2 DEF Stands, InSection
      <4> QED BY <1>1, <1>3, <2>2, <3>2, <3>3, <4>1, <4>2, <4>3 DEF TokenOK
    <3> QED BY <1>1, <2>3, <3>3, <3>4, <3>5, <3>6 DEF LInv
  <2>5. CASE ~(plock.holder_repeat_nr > 1)
    <3>1. /\ pc' = [pc EXCEPT ![t] = "up"]
          /\ plock' = [plock EXCEPT !.holder = NULL, !.holder_repeat_nr = 0]
      BY <1>12, <2>2, <2>5 DEF lock_release
    <3>2. /\ plock' \in Lock /\ plock'.holder = NULL /\ plock'.semaphore = sem
          /\ plock'.holder_repeat_nr = 0
      <4>1. 0 \in Nat /\ NULL \in Threads \cup {NULL}  OBVIOUS
      <4> QED BY Zenon, <1>1, <1>3, <3>1, <4>1 DEF sem, Lock
    <3>3. TypeInv'  BY <1>1, <2>1, <3>1, <3>2 DEF TypeInv, PCs
    <3>4. SleepersOK(sched, sem.waiters, pc')  BY <1>1, <2>1, <3>1 DEF SleepersOK
    <3>5. TokenOK(plock', pc')
      <4>1. \A u \in Threads : pc'[u] = IF u = t THEN "up" ELSE pc[u]  BY <1>1, <3>1
      <4>2. \A u \in Threads \ {t} :
              pc[u] \notin {"own", "up", "cs", "slept", "unwind"} /\ Stands(u, pc[u], plock)
        BY <1>1, <2>2 DEF TokenOK, Stands
      <4>3. \A u \in Threads : Stands(u, pc'[u], plock')
        BY <1>1, <2>2, <3>2, <4>1, <4>2 DEF Stands, InSection
      <4> QED BY <1>1, <3>2, <4>1, <4>2, <4>3 DEF TokenOK
    <3> QED BY <1>1, <2>3, <3>2, <3>3, <3>4, <3>5 DEF LInv
  <2> QED BY <2>4, <2>5
<1>13. ASSUME NEW t \in Threads, Release(t) PROVE LInv'
  <2>1. pc[t] = "up" /\ t # idle_thread /\ pc' = [pc EXCEPT ![t] = "user"]
    BY <1>13 DEF Release
  <2>2. plock.holder = NULL /\ plock.holder_repeat_nr = 0 /\ sem.value = 0
    BY <1>1, <2>1 DEF TokenOK, Stands, InSection, sem
  <2>3. \A u \in Threads : pc'[u] = IF u = t THEN "user" ELSE pc[u]  BY <1>1, <2>1
  <2>4. \A u \in Threads \ {t} :
          pc[u] \notin {"own", "up", "cs", "slept", "unwind"} /\ Stands(u, pc[u], plock)
    BY <1>1, <2>1, <2>2 DEF TokenOK, Stands
  <2>5. ASSUME plock' \in Lock, plock'.holder = NULL, plock'.holder_repeat_nr = 0,
               plock'.semaphore.value = 1
        PROVE  TypeInv' /\ TokenOK(plock', pc')
    <3>1. TypeInv'  BY <1>1, <2>1, <2>5 DEF TypeInv, PCs
    <3>2. \A u \in Threads : Stands(u, pc'[u], plock')
      BY <1>1, <2>3, <2>4, <2>5 DEF Stands, InSection
    <3> QED BY <1>1, <2>3, <2>4, <2>5, <3>1, <3>2 DEF TokenOK
  <2>6. CASE sem.waiters = <<>>
    <3> DEFINE s == [sem EXCEPT !.value = 1]
    <3>1. /\ sched' = sched
          /\ plock' = [plock EXCEPT !.semaphore = s]
      BY <1>13, <2>2, <2>6 DEF Release, sema_up, sem
    <3>2. s \in Sema /\ s.value = 1 /\ s.waiters = sem.waiters  BY <1>3 DEF Sema
    <3> HIDE DEF s
    <3>3. /\ plock' \in Lock /\ plock'.holder = NULL /\ plock'.holder_repeat_nr = 0
          /\ plock'.semaphore.value = 1 /\ plock'.semaphore.waiters = sem.waiters
      BY <1>1, <2>2, <3>1, <3>2, SetSemaphore
    <3>4. SleepersOK(sched, sem.waiters, pc')  BY <1>1, <2>1, <2>3 DEF SleepersOK
    <3> QED BY <1>1, <2>5, <3>1, <3>3, <3>4 DEF LInv
  <2>7. CASE sem.waiters # <<>>
    <3> DEFINE w == Head(sem.waiters)
               rest == Tail(sem.waiters)
    <3>1. /\ sched' = thread_unblock(sched, w)
          /\ plock' = [plock EXCEPT !.semaphore = [value |-> 1, waiters |-> rest]]
      BY <1>13, <2>2, <2>7 DEF Release, sema_up, sem
    <3>2. /\ rest \in Seq(Threads) /\ w \in Threads /\ elem_find(sem.waiters, w)
          /\ \A u : elem_find(rest, u) <=> u # w /\ elem_find(sem.waiters, u)
          /\ Distinct(rest)
      BY <1>1, <1>3, <2>7, PopList DEF SleepersOK
    <3> HIDE DEF w, rest
    <3>3. [value |-> 1, waiters |-> rest] \in Sema  BY <3>2 DEF Sema
    <3>4. /\ plock' \in Lock /\ plock'.holder = NULL /\ plock'.holder_repeat_nr = 0
          /\ plock'.semaphore = [value |-> 1, waiters |-> rest]
      BY <1>1, <2>2, <3>1, <3>3, SetSemaphore
    <3>5. pc[w] = "woken" /\ sched.status[w] = TASK_BLOCKED  BY <1>1, <3>2 DEF SleepersOK
    <3>6. Good(sched') /\ sched'.status = [sched.status EXCEPT ![w] = TASK_READY]
      BY <1>1, <3>1, <3>2, <3>5, UnblockGood DEF Blocked
    <3>7. \A u \in Threads \ {w} : sched'.status[u] = sched.status[u]
      BY <1>1, <3>6, RecordForm DEF Good
    <3>8. SleepersOK(sched', rest, pc')
      BY <1>1, <2>1, <2>3, <3>2, <3>5, <3>7 DEF SleepersOK
    <3>9. plock'.semaphore.value = 1 /\ plock'.semaphore.waiters = rest  BY <3>4
    <3> QED BY <2>5, <3>4, <3>6, <3>8, <3>9 DEF LInv
  <2> QED BY <2>6, <2>7
<1>14. CASE idle
  <2>1. sched' = thread_block(sched, TASK_BLOCKED) /\ UNCHANGED <<plock, pc>>
    BY <1>14 DEF idle
  <2>2. /\ Good(sched')
        /\ \A u \in Threads \ {idle_thread} :
             sched.status[u] = TASK_BLOCKED => sched'.status[u] = TASK_BLOCKED
    BY <1>1, <2>1, BlockSleepers
  <2>3. SleepersOK(sched', sem.waiters, pc)  BY <1>1, <2>2 DEF SleepersOK
  <2> QED BY <1>1, <2>1, <2>2, <2>3 DEF LInv, TypeInv, sem
<1>15. CASE TimerTick
  <2>1. sched' = intr_timer_handler(sched) /\ UNCHANGED <<plock, pc>>
    BY <1>15 DEF TimerTick
  <2>2. Good(sched')  BY <1>1, <2>1, TimerHandler
  <2>3. \A u \in Threads \ {idle_thread} :
          sched.status[u] = TASK_BLOCKED => sched'.status[u] = TASK_BLOCKED
    BY <1>1, <2>1, TimerSleepers
  <2>4. SleepersOK(sched', sem.waiters, pc)  BY <1>1, <2>3 DEF SleepersOK
  <2> QED BY <1>1, <2>1, <2>2, <2>4 DEF LInv, TypeInv, sem
<1>16. CASE UNCHANGED vars  BY <1>1, <1>16 DEF vars, LInv, TypeInv, sem
<1> QED
  BY <1>5, <1>6, <1>7, <1>8, <1>9, <1>10, <1>11, <1>12, <1>13, <1>14, <1>15, <1>16
  DEF Next, Step

(***************************************************************************)
(* Both together.                                                          *)
(***************************************************************************)
THEOREM LocksGood == Spec => []LInv
BY LocksInit, LocksNext, PTL DEF Spec

(***************************************************************************)
(* No ASSERT of sync.c fails, nor one of the scheduler that a lock         *)
(* operation calls, whatever threads contend and however they are          *)
(* preempted.                                                              *)
(***************************************************************************)
THEOREM LocksNeverPanic == Spec => []NoPanic
<1>1. LInv => NoPanic  BY DEF LInv, Good, NoPanic, Up
<1> QED BY <1>1, LocksGood, PTL

-----------------------------------------------------------------------------
(***************************************************************************)
(* At most one thread is inside, and it is the owner of the mutex.         *)
(***************************************************************************)
LEMMA OwnerIs ==
  LInv => /\ \A t \in Threads : Inside(t) => owner = t
          /\ (\A t \in Threads : ~Inside(t)) => owner = NULL
<1> SUFFICES ASSUME LInv
             PROVE  /\ \A t \in Threads : Inside(t) => owner = t
                    /\ (\A t \in Threads : ~Inside(t)) => owner = NULL
  OBVIOUS
<1> DEFINE inside == {t \in Threads : Inside(t)}
<1>1. \A t, u \in Threads : Inside(t) /\ Inside(u) => t = u
  BY SyncAssumption DEF LInv, TokenOK, Stands, Inside, InSection
<1>2. ASSUME NEW t \in Threads, Inside(t) PROVE owner = t
  <2>1. inside = {t}  BY <1>1, <1>2
  <2>2. inside # {} /\ (\E u \in Threads : inside = {u})  BY <2>1
  <2>3. owner = CHOOSE u \in inside : TRUE  BY <2>2 DEF owner
  <2> QED BY <2>1, <2>3
<1>3. ASSUME \A t \in Threads : ~Inside(t) PROVE owner = NULL
  <2>1. inside = {}  BY <1>3
  <2> QED BY <2>1 DEF owner
<1> QED BY <1>2, <1>3

(***************************************************************************)
(* Each step of the lock is a step of the mutex or leaves it as it is.     *)
(* Entering is the step that takes the token (sema_down) and leaving the   *)
(* one that gives it back (sema_up); the entries in holder and             *)
(* holder_repeat_nr in between are nested acquires and releases, or        *)
(* bookkeeping that the mutex does not see.                                *)
(***************************************************************************)
LEMMA MutexStep == LInv /\ LInv' /\ [Next]_vars => [M!Next]_<<owner, depth>>
<1> SUFFICES ASSUME LInv, LInv', [Next]_vars PROVE [M!Next]_<<owner, depth>>
  OBVIOUS
<1> USE DEF At, Goto
<1>1. /\ pc \in [Threads -> PCs] /\ plock \in Lock /\ TokenOK(plock, pc)
      /\ NULL \notin Threads /\ MaxDepth \in Nat \ {0}
      /\ plock.holder \in Threads \cup {NULL} /\ plock.holder_repeat_nr \in Nat
      /\ plock.semaphore.value \in {0, 1}
  BY LockFields, SyncAssumption, LocksAssumption DEF LInv, TypeInv
<1>2. plock' \in Lock /\ TokenOK(plock', pc') /\ Good(sched')
  BY DEF LInv, TypeInv
<1>3. /\ \A t \in Threads : Inside(t) => owner = t
      /\ (\A t \in Threads : ~Inside(t)) => owner = NULL
  BY OwnerIs
<1>4. /\ \A t \in Threads : Inside(t)' => owner' = t
      /\ (\A t \in Threads : ~Inside(t)') => owner' = NULL
  <2>1. (LInv => /\ \A t \in Threads : Inside(t) => owner = t
                 /\ (\A t \in Threads : ~Inside(t)) => owner = NULL)'
    BY OwnerIs, PTL
  <2> QED BY <2>1
<1>5. ASSUME \A t \in Threads : Inside(t)' <=> Inside(t) PROVE owner' = owner
  BY <1>3, <1>4, <1>5
<1>6. ASSUME owner' = owner, plock'.holder_repeat_nr = plock.holder_repeat_nr
      PROVE  UNCHANGED <<owner, depth>>
  BY <1>6 DEF depth
<1>7. ASSUME \A t \in Threads : Inside(t)' <=> Inside(t),
             plock'.holder_repeat_nr = plock.holder_repeat_nr
      PROVE  UNCHANGED <<owner, depth>>
  BY <1>5, <1>6, <1>7
<1>8. ASSUME NEW t \in Threads, Enter(t) PROVE [M!Next]_<<owner, depth>>
  <2>1. pc[t] = "user" /\ pc' = [pc EXCEPT ![t] = "acquire"] /\ plock' = plock  BY <1>8 DEF Enter
  <2>2. plock.holder # t  BY <1>1, <2>1 DEF TokenOK, Stands
  <2> QED BY <1>1, <1>7, <2>1, <2>2 DEF Inside, InSection
<1>9. ASSUME NEW t \in Threads, lock_acquire(t) PROVE [M!Next]_<<owner, depth>>
  <2>1. pc[t] = "acquire"  BY <1>9 DEF lock_acquire
  <2>2. CASE plock.holder # t
    <3>1. pc' = [pc EXCEPT ![t] = "down"] /\ plock' = plock  BY <1>9, <2>2 DEF lock_acquire
    <3> QED BY <1>1, <1>7, <2>1, <2>2, <3>1 DEF Inside, InSection
  <2>3. CASE plock.holder = t
    <3>1. /\ pc' = [pc EXCEPT ![t] = "cs"]
          /\ plock' = [plock EXCEPT !.holder_repeat_nr = plock.holder_repeat_nr + 1]
      BY <1>9, <2>3 DEF lock_acquire
    <3>2. plock'.holder_repeat_nr = plock.holder_repeat_nr + 1
      BY <1>1, <3>1 DEF Lock
    <3>3. Inside(t) /\ Inside(t)'  BY <1>1, <2>1, <2>3, <3>1 DEF Inside, InSection
    <3>4. owner = t /\ owner' = t  BY <1>3, <1>4, <3>3
    <3>5. plock.holder_repeat_nr # 0 /\ plock.holder_repeat_nr < MaxDepth
      BY <1>1, <2>1, <2>3 DEF TokenOK, Stands
    <3>6. depth = plock.holder_repeat_nr /\ depth' = depth + 1
      BY <1>1, <3>2, <3>5 DEF depth
    <3>7. M!Reenter(t)  BY <3>4, <3>5, <3>6 DEF M!Reenter
    <3> QED BY <3>7 DEF M!Next
  <2> QED BY <2>2, <2>3
<1>10. ASSUME NEW t \in Threads, Down(t) PROVE [M!Next]_<<owner, depth>>
  <2>1. pc[t] \in {"down", "woken"} /\ plock.holder # t
    BY <1>1, <1>10 DEF Down, TokenOK, Stands
  <2>2. /\ plock'.holder = plock.holder /\ plock'.holder_repeat_nr = plock.holder_repeat_nr
    BY <1>1, <1>10 DEF Down, Lock
  <2>3. CASE plock.semaphore.value = 0
    <3>1. pc' = [pc EXCEPT ![t] = "woken"]  BY <1>10, <2>3 DEF Down
    <3> QED BY <1>1, <1>7, <2>1, <2>2, <3>1 DEF Inside, InSection
  <2>4. CASE plock.semaphore.value = 1
    <3>1. pc' = [pc EXCEPT ![t] = "own"]  BY <1>10, <2>4 DEF Down
    <3>2. plock.holder = NULL /\ plock.holder_repeat_nr = 0 /\ \A u \in Threads : ~Inside(u)
      BY <1>1, <2>4 DEF TokenOK, Stands, Inside
    <3>3. Inside(t)'  BY <1>1, <3>1 DEF Inside, InSection
    <3>4. owner = NULL /\ owner' = t  BY <1>3, <1>4, <3>2, <3>3
    <3>5. depth' = 1  BY <1>1, <2>2, <3>2, <3>4 DEF depth
    <3>6. M!Acquire(t)  BY <3>4, <3>5 DEF M!Acquire
    <3> QED BY <3>6 DEF M!Next
  <2> QED BY <1>1, <2>3, <2>4
<1>11. ASSUME NEW t \in Threads, Own(t) PROVE [M!Next]_<<owner, depth>>
  <2>1. pc[t] = "own" /\ pc' = [pc EXCEPT ![t] = "cs"]  BY <1>11 DEF Own
  <2>2. plock.holder_repeat_nr = 0  BY <1>1, <2>1 DEF TokenOK, Stands
  <2>3. plock'.holder_repeat_nr = 1
    BY Zenon, <1>1, <1>11, <2>2 DEF Own, Lock
  <2>4. owner = t /\ owner' = t  BY <1>1, <1>3, <1>4, <2>1 DEF Inside, InSection
  <2>5. depth = 1 /\ depth' = 1  BY <1>1, <2>2, <2>3, <2>4 DEF depth
  <2> QED BY <2>4, <2>5
<1>12. ASSUME NEW t \in Threads, Nest(t) PROVE [M!Next]_<<owner, depth>>
  <2>1. pc[t] = "cs" /\ pc' = [pc EXCEPT ![t] = "acquire"] /\ plock' = plock  BY <1>12 DEF Nest
  <2>2. plock.holder = t  BY <1>1, <2>1 DEF TokenOK, Stands
  <2> QED BY <1>1, <1>7, <2>1, <2>2 DEF Inside, InSection
<1>13. ASSUME NEW t \in Threads, Sleep(t) \/ WakeUp(t) PROVE [M!Next]_<<owner, depth>>
  <2>1. /\ plock' = plock /\ pc[t] \in {"cs", "slept"}
        /\ \E label \in {"cs", "slept"} : pc' = [pc EXCEPT ![t] = label]
    BY <1>13 DEF Sleep, WakeUp
  <2> QED BY <1>1, <1>7, <2>1 DEF Inside, InSection
<1>14. ASSUME NEW t \in Threads, lock_release(t) PROVE [M!Next]_<<owner, depth>>
  <2>1. pc[t] \in {"cs", "unwind"}  BY <1>14 DEF lock_release
  <2>2. plock.holder = t /\ plock.holder_repeat_nr # 0
    BY <1>1, <2>1 DEF TokenOK, Stands
  <2>3. owner = t  BY <1>3, <2>1 DEF Inside, InSection
  <2>4. depth = plock.holder_repeat_nr  BY <2>2 DEF depth
  <2>5. CASE plock.holder_repeat_nr > 1
    <3>1. /\ pc' = [pc EXCEPT ![t] = "unwind"]
          /\ plock' = [plock EXCEPT !.holder_repeat_nr = plock.holder_repeat_nr - 1]
      BY <1>14, <2>2, <2>5 DEF lock_release
    <3>2. plock'.holder_repeat_nr = plock.holder_repeat_nr - 1 /\ plock'.holder_repeat_nr # 0
      BY <1>1, <2>5, <3>1 DEF Lock
    <3>3. owner' = t  BY <1>1, <1>4, <3>1 DEF Inside, InSection
    <3>4. depth' = depth - 1  BY <2>4, <3>2 DEF depth
    <3>5. M!Leave(t)  BY <2>3, <2>4, <2>5, <3>3, <3>4 DEF M!Leave
    <3> QED BY <3>5 DEF M!Next
  <2>6. CASE ~(plock.holder_repeat_nr > 1)
    <3>1. /\ pc' = [pc EXCEPT ![t] = "up"]
          /\ plock' = [plock EXCEPT !.holder = NULL, !.holder_repeat_nr = 0]
      BY <1>14, <2>2, <2>6 DEF lock_release
    <3>2. plock'.holder_repeat_nr = 0 /\ plock.holder_repeat_nr = 1
      BY <1>1, <2>2, <2>6, <3>1 DEF Lock
    <3>3. owner' = t  BY <1>1, <1>4, <3>1 DEF Inside, InSection
    <3>4. depth' = 1  BY <1>1, <3>2, <3>3 DEF depth
    <3> QED BY <2>3, <2>4, <3>2, <3>3, <3>4
  <2> QED BY <2>5, <2>6
<1>15. ASSUME NEW t \in Threads, Release(t) PROVE [M!Next]_<<owner, depth>>
  <2>1. pc[t] = "up" /\ pc' = [pc EXCEPT ![t] = "user"]  BY <1>15 DEF Release
  <2>2. /\ plock'.holder = plock.holder /\ plock'.holder_repeat_nr = plock.holder_repeat_nr
    BY <1>1, <1>15 DEF Release, Lock
  <2>3. plock.holder = NULL /\ plock.holder_repeat_nr = 0  BY <1>1, <2>1 DEF TokenOK, Stands
  <2>4. owner = t /\ depth = 1
    <3>1. owner = t  BY <1>3, <2>1 DEF Inside, InSection
    <3> QED BY <1>1, <2>3, <3>1 DEF depth
  <2>5. \A u \in Threads : ~Inside(u)'
    <3>1. \A u \in Threads \ {t} : pc[u] \notin {"own", "up", "cs", "slept", "unwind"}
      BY <1>1, <2>1, <2>3 DEF TokenOK, Stands
    <3> QED BY <1>1, <2>1, <2>2, <2>3, <3>1 DEF Inside, InSection
  <2>6. owner' = NULL  BY <1>4, <2>5
  <2>7. depth' = 0  BY <2>2, <2>3, <2>6 DEF depth
  <2>8. M!Release(t)  BY <2>4, <2>6, <2>7 DEF M!Release
  <2> QED BY <2>8 DEF M!Next
<1>16. CASE idle \/ TimerTick \/ UNCHANGED vars
  <2>1. plock' = plock /\ pc' = pc  BY <1>16 DEF idle, TimerTick, vars
  <2> QED BY <1>7, <2>1 DEF Inside
<1> QED
  BY <1>8, <1>9, <1>10, <1>11, <1>12, <1>13, <1>14, <1>15, <1>16 DEF Next, Step

(***************************************************************************)
(* struct lock implements a re-entrant mutex: lock_acquire and             *)
(* lock_release exclude every other thread from sema_down to sema_up, and  *)
(* the holder's repeats are counted, for any number of threads.            *)
(***************************************************************************)
THEOREM LockIsMutex == Spec => ImplementsMutex
<1>1. Init => M!Init
  <2> SUFFICES ASSUME Init PROVE M!Init  OBVIOUS
  <2>1. \A t \in Threads : ~Inside(t)
    BY Zenon, SyncAssumption DEF Init, lock_init, Inside, InSection
  <2>2. owner = NULL  BY <2>1, OwnerIs, LocksInit
  <2>3. depth = 0  BY <2>2 DEF depth, Init, lock_init
  <2> QED BY <2>2, <2>3 DEF M!Init
<1> QED BY <1>1, MutexStep, LocksGood, PTL DEF Spec, ImplementsMutex, M!Spec, M!mutexVars
=============================================================================
