---------------------------- MODULE ThreadProofs ----------------------------
(***************************************************************************)
(* What the routines of thread/thread.c do to a consistent scheduler       *)
(* state, for any set of threads and any time slices. The lists are        *)
(* handled through the first three lemmas, so that the later proofs never  *)
(* look at an index. schedule() and what calls it are proved from its      *)
(* three parts.                                                            *)
(***************************************************************************)
EXTENDS Sync, TLAPS

(***************************************************************************)
(* list_push puts one element in front: the list gains exactly it, and     *)
(* stays free of duplicates if it was not there.                           *)
(***************************************************************************)
LEMMA PushList ==
  ASSUME NEW S, NEW list \in Seq(S), NEW t \in S
  PROVE  /\ list_push(list, t) \in Seq(S)
         /\ \A u : elem_find(list_push(list, t), u) <=> u = t \/ elem_find(list, u)
         /\ Distinct(list) /\ ~elem_find(list, t) => Distinct(list_push(list, t))
<1> DEFINE l == list_push(list, t)
<1>1. /\ l \in Seq(S) /\ Len(l) = Len(list) + 1 /\ l[1] = t
      /\ \A i \in 2 .. Len(l) : l[i] = list[i - 1]
  BY DEF list_push
<1>2. \A i \in 1 .. Len(list) : list[i] = l[i + 1]
  BY <1>1
<1>3. DOMAIN l = 1 .. Len(l) /\ DOMAIN list = 1 .. Len(list) /\ Len(list) \in Nat
  BY <1>1
<1> HIDE DEF l
<1>4. \A u : elem_find(l, u) <=> u = t \/ elem_find(list, u)
  <2> TAKE u
  <2>1. ASSUME elem_find(l, u) PROVE u = t \/ elem_find(list, u)
    <3>1. PICK i \in 1 .. Len(l) : l[i] = u  BY <2>1, <1>3 DEF elem_find
    <3>2. i = 1 \/ (i - 1 \in 1 .. Len(list) /\ list[i - 1] = u)  BY <3>1, <1>1, <1>3
    <3> QED BY <3>2, <3>1, <1>1, <1>3 DEF elem_find
  <2>2. ASSUME elem_find(list, u) PROVE elem_find(l, u)
    <3>1. PICK i \in 1 .. Len(list) : list[i] = u  BY <2>2, <1>3 DEF elem_find
    <3>2. i + 1 \in 1 .. Len(l) /\ l[i + 1] = u  BY <3>1, <1>1, <1>2
    <3> QED BY <3>2, <1>3 DEF elem_find
  <2>3. 1 \in 1 .. Len(l)  BY <1>1
  <2> QED BY <2>1, <2>2, <2>3, <1>1, <1>3 DEF elem_find
<1>5. ASSUME Distinct(list), ~elem_find(list, t) PROVE Distinct(l)
  <2> SUFFICES ASSUME NEW i \in 1 .. Len(l), NEW j \in 1 .. Len(l), l[i] = l[j]
               PROVE  i = j
    BY <1>3 DEF Distinct
  <2>1. \A m \in 2 .. Len(l) : m - 1 \in 1 .. Len(list) /\ l[m] = list[m - 1] /\ l[m] # t
    BY SMTT(20), <1>1, <1>3, <1>5 DEF elem_find
  <2>2. \A m, n \in 1 .. Len(list) : list[m] = list[n] => m = n
    BY <1>3, <1>5 DEF Distinct
  <2>3. CASE i = 1 \/ j = 1
    <3>1. \A m \in 1 .. Len(l) : m = 1 \/ m \in 2 .. Len(l)  BY <1>1, <1>3
    <3> QED BY SMTT(20), <3>1, <2>3, <2>1, <1>1
  <2>4. CASE i \in 2 .. Len(l) /\ j \in 2 .. Len(l) 
    <3>1. i - 1 = j - 1 BY Zenon, <2>4, <2>1, <2>2
    <3> QED BY <3>1
  <2> QED BY <2>3, <2>4, <1>1, <1>3
<1> QED BY <1>1, <1>4, <1>5 DEF l

(***************************************************************************)
(* The same of list_append, at the tail.                                   *)
(***************************************************************************)
LEMMA AppendList ==
  ASSUME NEW S, NEW list \in Seq(S), NEW t \in S
  PROVE  /\ Append(list, t) \in Seq(S)
         /\ \A u : elem_find(Append(list, t), u) <=> u = t \/ elem_find(list, u)
         /\ Distinct(list) /\ ~elem_find(list, t) => Distinct(Append(list, t))
<1> DEFINE l == Append(list, t)
<1>1. /\ l \in Seq(S) /\ Len(l) = Len(list) + 1 /\ l[Len(l)] = t
      /\ \A i \in 1 .. Len(list) : l[i] = list[i]
  OBVIOUS
<1>2. DOMAIN l = 1 .. Len(l) /\ DOMAIN list = 1 .. Len(list) /\ Len(list) \in Nat
  BY <1>1
<1> HIDE DEF l
<1>3. \A u : elem_find(l, u) <=> u = t \/ elem_find(list, u)
  BY <1>1, <1>2 DEF elem_find
<1>4. ASSUME Distinct(list), ~elem_find(list, t) PROVE Distinct(l)
  <2>1. \A m \in 1 .. Len(list) : list[m] # t
    BY <1>2, <1>4 DEF elem_find
  <2> QED BY <2>1, <1>1, <1>2, <1>4 DEF Distinct
<1> QED BY <1>1, <1>3, <1>4 DEF l

(***************************************************************************)
(* list_pop takes the first element off, and a list without duplicates     *)
(* then holds everything else.                                             *)
(***************************************************************************)
LEMMA PopList ==
  ASSUME NEW S, NEW list \in Seq(S), list # <<>>, Distinct(list)
  PROVE  /\ Tail(list) \in Seq(S) /\ Head(list) \in S
         /\ elem_find(list, Head(list))
         /\ \A u : elem_find(Tail(list), u) <=> u # Head(list) /\ elem_find(list, u)
         /\ Distinct(Tail(list))
<1> DEFINE l == Tail(list)
<1>1. /\ l \in Seq(S) /\ Len(list) = Len(l) + 1 /\ Head(list) = list[1] /\ Head(list) \in S
      /\ \A i \in 1 .. Len(l) : l[i] = list[i + 1]
  OBVIOUS
<1>2. DOMAIN l = 1 .. Len(l) /\ DOMAIN list = 1 .. Len(list) /\ Len(l) \in Nat
  BY <1>1
<1> HIDE DEF l
<1>3. \A m, n \in 1 .. Len(list) : list[m] = list[n] => m = n
  BY <1>2 DEF Distinct
<1>4. elem_find(list, Head(list))
  <2>1. 1 \in 1 .. Len(list) BY <1>1, <1>2
  <2> QED BY <2>1, <1>1, <1>2 DEF elem_find
<1>5. \A u : elem_find(l, u) <=> u # Head(list) /\ elem_find(list, u)
  <2> TAKE u
  <2>1. ASSUME elem_find(l, u) PROVE u # Head(list) /\ elem_find(list, u)
    <3>1. PICK i \in 1 .. Len(l) : l[i] = u  BY <2>1, <1>2 DEF elem_find
    <3>2. i + 1 \in 1 .. Len(list) /\ list[i + 1] = u /\ i + 1 # 1 /\ 1 \in 1 .. Len(list)
      BY <3>1, <1>1, <1>2
    <3> QED BY <3>2, <1>1, <1>2, <1>3 DEF elem_find
  <2>2. ASSUME u # Head(list), elem_find(list, u) PROVE elem_find(l, u)
    <3>1. PICK i \in 1 .. Len(list) : list[i] = u  BY <2>2, <1>2 DEF elem_find
    <3>2. i - 1 \in 1 .. Len(l) /\ l[i - 1] = u  BY <3>1, <2>2, <1>1, <1>2
    <3> QED BY <3>2, <1>2 DEF elem_find
  <2> QED BY <2>1, <2>2
<1>6. Distinct(l)
  <2> SUFFICES ASSUME NEW i \in 1 .. Len(l), NEW j \in 1 .. Len(l), l[i] = l[j]
               PROVE  i = j
    BY <1>2 DEF Distinct
  <2>1. i + 1 = j + 1 BY <1>1, <1>2, <1>3
  <2> QED BY <2>1
<1> QED BY <1>1, <1>4, <1>5, <1>6 DEF l

-----------------------------------------------------------------------------

(***************************************************************************)
(* A consistent state with a running thread; and the state in which        *)
(* schedule() is called, where the current thread need not be RUNNING any  *)
(* more.                                                                   *)
(***************************************************************************)
Good(k) == k \in SchedState /\ SchedOK(k) /\ k.cpu = "up"

Leaving(k) ==
  /\ k \in SchedState /\ k.cpu = "up" /\ Distinct(k.ready)
  /\ \A t \in Threads : k.status[t] = TASK_RUNNING => t = k.cur
  /\ \A t \in Threads : k.status[t] = TASK_READY <=> elem_find(k.ready, t)
  /\ k.status[idle_thread] \in {TASK_RUNNING, TASK_READY, TASK_BLOCKED}

(***************************************************************************)
(* A scheduler state spelt out as a record, the form in which the provers  *)
(* can follow EXCEPT.                                                      *)
(***************************************************************************)
LEMMA RecordForm ==
  ASSUME NEW k \in SchedState
  PROVE  /\ k = [status |-> k.status, ready |-> k.ready, cur |-> k.cur,
                 ticks |-> k.ticks, cpu |-> k.cpu]
         /\ k.status \in [Threads -> Status] /\ k.ready \in Seq(Threads)
         /\ k.cur \in Threads /\ k.ticks \in [Threads -> Nat] /\ k.cpu \in {"up", "panic"}
BY DEF SchedState

(***************************************************************************)
(* thread_unblock of a blocked thread passes its ASSERTs and only makes    *)
(* that thread READY, at the head of the ready list.                       *)
(***************************************************************************)
LEMMA UnblockLeaving ==
  ASSUME NEW k, Leaving(k), NEW t \in Threads, k.status[t] \in Blocked
  PROVE  /\ Leaving(thread_unblock(k, t))
         /\ thread_unblock(k, t).status = [k.status EXCEPT ![t] = TASK_READY]
         /\ thread_unblock(k, t).ready = list_push(k.ready, t)
         /\ thread_unblock(k, t).cur = k.cur
<1> USE DEF Blocked, Status, TASK_RUNNING, TASK_READY, TASK_BLOCKED, TASK_WAITING,
            TASK_HANGING, TASK_DIED
<1> DEFINE u == thread_unblock(k, t)
<1>1. k \in SchedState  BY DEF Leaving
<1>2. ~elem_find(k.ready, t)  BY <1>1, RecordForm DEF Leaving
<1>3. u = [k EXCEPT !.ready = list_push(k.ready, t),
                    !.status = [k.status EXCEPT ![t] = TASK_READY]]
  BY <1>2 DEF thread_unblock
<1> HIDE DEF u
<1>4. /\ u.ready = list_push(k.ready, t) /\ u.status = [k.status EXCEPT ![t] = TASK_READY]
      /\ u.cur = k.cur /\ u.ticks = k.ticks /\ u.cpu = k.cpu
  BY <1>1, <1>3, RecordForm
<1>5. /\ u.ready \in Seq(Threads)
      /\ \A v : elem_find(u.ready, v) <=> v = t \/ elem_find(k.ready, v)
      /\ Distinct(u.ready)
  <2>1. k.ready \in Seq(Threads) /\ Distinct(k.ready)  BY <1>1, RecordForm DEF Leaving
  <2> QED BY <1>2, <1>4, <2>1, PushList
<1>6. u.status \in [Threads -> Status]  BY <1>1, <1>4, RecordForm
<1>7. u \in SchedState
  BY Zenon, <1>1, <1>3, <1>4, <1>5, <1>6, RecordForm DEF SchedState
<1>8. Leaving(u)
  BY <1>1, <1>4, <1>5, <1>6, <1>7, RecordForm, ThreadAssumption DEF Leaving
<1> QED BY <1>4, <1>8 DEF u

(***************************************************************************)
(* The same from a state in which a thread is running.                     *)
(***************************************************************************)
LEMMA UnblockGood ==
  ASSUME NEW k, Good(k), NEW t \in Threads, k.status[t] \in Blocked
  PROVE  /\ Good(thread_unblock(k, t))
         /\ thread_unblock(k, t).status = [k.status EXCEPT ![t] = TASK_READY]
         /\ thread_unblock(k, t).cur = k.cur
<1>1. Leaving(k) /\ k \in SchedState  BY DEF Good, SchedOK, Leaving
<1>2. /\ Leaving(thread_unblock(k, t))
      /\ thread_unblock(k, t).status = [k.status EXCEPT ![t] = TASK_READY]
      /\ thread_unblock(k, t).cur = k.cur
  BY <1>1, UnblockLeaving
<1> QED
  BY <1>1, <1>2, RecordForm
  DEF Good, SchedOK, Leaving, Blocked, TASK_RUNNING, TASK_READY, TASK_BLOCKED, TASK_WAITING,
      TASK_HANGING

-----------------------------------------------------------------------------

(***************************************************************************)
(* The first part of schedule: a thread that is still RUNNING becomes      *)
(* READY at the tail of the ready list, one that has blocked is left       *)
(* alone.                                                                  *)
(***************************************************************************)
LEMMA PutDown ==
  ASSUME NEW k, Leaving(k)
  PROVE  /\ Leaving(put_down(k)) /\ put_down(k).cur = k.cur
         /\ put_down(k).status = [t \in Threads |->
              IF t = k.cur /\ k.status[t] = TASK_RUNNING THEN TASK_READY ELSE k.status[t]]
<1> USE DEF Blocked, Status, TASK_RUNNING, TASK_READY, TASK_BLOCKED, TASK_WAITING,
            TASK_HANGING, TASK_DIED
<1> DEFINE d == put_down(k)
<1>1. k \in SchedState /\ Distinct(k.ready)  BY DEF Leaving
<1>2. CASE k.status[k.cur] # TASK_RUNNING
  <2>1. d = k  BY <1>2 DEF put_down
  <2>2. k.status = [t \in Threads |->
          IF t = k.cur /\ k.status[t] = TASK_RUNNING THEN TASK_READY ELSE k.status[t]]
    BY <1>1, <1>2, RecordForm
  <2> QED BY <2>1, <2>2
<1>3. CASE k.status[k.cur] = TASK_RUNNING
  <2>1. ~elem_find(k.ready, k.cur)  BY <1>1, <1>3, RecordForm DEF Leaving
  <2>2. d = [k EXCEPT !.ready = Append(k.ready, k.cur),
                      !.ticks = [k.ticks EXCEPT ![k.cur] = priority[k.cur]],
                      !.status = [k.status EXCEPT ![k.cur] = TASK_READY]]
    BY <1>3, <2>1 DEF put_down
  <2> HIDE DEF d
  <2>3. /\ d.ready = Append(k.ready, k.cur) /\ d.cur = k.cur /\ d.cpu = k.cpu
        /\ d.ticks = [k.ticks EXCEPT ![k.cur] = priority[k.cur]]
        /\ d.status = [k.status EXCEPT ![k.cur] = TASK_READY]
    BY <1>1, <2>2, RecordForm
  <2>4. /\ d.ready \in Seq(Threads) /\ Distinct(d.ready)
        /\ \A v : elem_find(d.ready, v) <=> v = k.cur \/ elem_find(k.ready, v)
    <3>1. k.ready \in Seq(Threads) /\ k.cur \in Threads  BY <1>1, RecordForm
    <3> QED BY <1>1, <2>1, <2>3, <3>1, AppendList
  <2>5. d.status \in [Threads -> Status] /\ d.ticks \in [Threads -> Nat]
    BY <1>1, <2>3, RecordForm, ThreadAssumption
  <2>6. d \in SchedState
    BY Zenon, <1>1, <2>2, <2>3, <2>4, <2>5, RecordForm DEF SchedState
  <2>7. Leaving(d)
    <3>1. /\ \A t \in Threads : d.status[t] = IF t = k.cur THEN TASK_READY ELSE k.status[t]
          /\ k.cur \in Threads
      BY <1>1, <2>3, RecordForm
    <3>2. /\ \A t \in Threads : d.status[t] = TASK_RUNNING => t = d.cur
          /\ d.status[idle_thread] \in {TASK_RUNNING, TASK_READY, TASK_BLOCKED}
      BY <2>3, <3>1, ThreadAssumption DEF Leaving
    <3>3. \A t \in Threads : d.status[t] = TASK_READY <=> elem_find(d.ready, t)
      BY Zenon, <2>4, <3>1 DEF Leaving
    <3> QED BY <2>3, <2>4, <2>6, <3>2, <3>3 DEF Leaving
  <2>8. d.status = [t \in Threads |->
          IF t = k.cur /\ k.status[t] = TASK_RUNNING THEN TASK_READY ELSE k.status[t]]
    BY <1>1, <1>3, <2>3, RecordForm
  <2> QED BY <2>3, <2>7, <2>8 DEF d
<1> QED BY <1>2, <1>3

(***************************************************************************)
(* The second part: after it the ready list is not empty. Idle is BLOCKED  *)
(* whenever it is needed, so the ASSERT of thread_unblock holds.           *)
(***************************************************************************)
LEMMA WakeIdle ==
  ASSUME NEW k, Leaving(k), k.status[k.cur] # TASK_RUNNING
  PROVE  /\ Leaving(wake_idle(k)) /\ wake_idle(k).cur = k.cur
         /\ wake_idle(k).ready # <<>>
         /\ wake_idle(k).status = k.status \/
            (/\ k.status[idle_thread] = TASK_BLOCKED
             /\ wake_idle(k).status = [k.status EXCEPT ![idle_thread] = TASK_READY]
             /\ wake_idle(k).ready = <<idle_thread>>)
<1> USE DEF Blocked, Status, TASK_RUNNING, TASK_READY, TASK_BLOCKED, TASK_WAITING,
            TASK_HANGING, TASK_DIED
<1> DEFINE d == wake_idle(k)
<1>1. k \in SchedState  BY DEF Leaving
<1>2. CASE k.ready # <<>>
  BY <1>2 DEF wake_idle
<1>3. CASE k.ready = <<>>
  <2>1. d = thread_unblock(k, idle_thread)  BY <1>3 DEF wake_idle
  <2>2. \A t : ~elem_find(k.ready, t)  BY <1>3 DEF elem_find
  <2>3. k.status[idle_thread] = TASK_BLOCKED
    BY <1>1, <2>2, ThreadAssumption DEF Leaving
  <2>4. /\ Leaving(d) /\ d.cur = k.cur
        /\ d.status = [k.status EXCEPT ![idle_thread] = TASK_READY]
        /\ d.ready = list_push(k.ready, idle_thread)
    BY <2>1, <2>3, UnblockLeaving, ThreadAssumption
  <2>5. d.ready = <<idle_thread>>  BY <1>3, <2>4, ThreadAssumption DEF list_push
  <2> QED BY <2>3, <2>4, <2>5
<1> QED BY <1>2, <1>3

(***************************************************************************)
(* The third part: the head of the ready list becomes the one running      *)
(* thread.                                                                 *)
(***************************************************************************)
LEMMA PutOn ==
  ASSUME NEW k, Leaving(k), k.ready # <<>>, k.status[k.cur] # TASK_RUNNING
  PROVE  /\ Good(put_on(k)) /\ put_on(k).cur = Head(k.ready)
         /\ k.status[put_on(k).cur] = TASK_READY
         /\ put_on(k).status = [k.status EXCEPT ![put_on(k).cur] = TASK_RUNNING]
<1> USE DEF Blocked, Status, TASK_RUNNING, TASK_READY, TASK_BLOCKED, TASK_WAITING,
            TASK_HANGING, TASK_DIED
<1> DEFINE d == put_on(k)
<1>1. k \in SchedState /\ Distinct(k.ready) /\ k.cpu = "up"  BY DEF Leaving
<1>2. d = [k EXCEPT !.ready = Tail(k.ready),
                    !.status = [k.status EXCEPT ![Head(k.ready)] = TASK_RUNNING],
                    !.cur = Head(k.ready)]
  BY <1>1 DEF put_on
<1> HIDE DEF d
<1>3. /\ d.ready = Tail(k.ready) /\ d.cur = Head(k.ready) /\ d.cpu = k.cpu
      /\ d.ticks = k.ticks /\ d.status = [k.status EXCEPT ![Head(k.ready)] = TASK_RUNNING]
  BY <1>1, <1>2, RecordForm
<1>4. /\ d.ready \in Seq(Threads) /\ Distinct(d.ready) /\ d.cur \in Threads
      /\ elem_find(k.ready, d.cur)
      /\ \A v : elem_find(d.ready, v) <=> v # d.cur /\ elem_find(k.ready, v)
  <2>1. k.ready \in Seq(Threads)  BY <1>1, RecordForm
  <2> QED BY <1>1, <1>3, <2>1, PopList
<1>5. d.status \in [Threads -> Status]  BY <1>1, <1>3, RecordForm
<1>6. d \in SchedState
  BY Zenon, <1>1, <1>2, <1>3, <1>4, <1>5, RecordForm DEF SchedState
<1>7. SchedOK(d)
  BY <1>1, <1>3, <1>4, <1>5, RecordForm, ThreadAssumption DEF Leaving, SchedOK
<1>8. k.status[d.cur] = TASK_READY  BY <1>4 DEF Leaving
<1> QED BY <1>1, <1>3, <1>6, <1>7, <1>8 DEF d, Good

(***************************************************************************)
(* schedule, from any state a thread leaves the CPU in, ends with a        *)
(* consistent state and runs a thread that was runnable before, or idle.   *)
(***************************************************************************)
LEMMA Schedule ==
  ASSUME NEW k, Leaving(k)
  PROVE  /\ Good(schedule(k))
         /\ \/ k.status[schedule(k).cur] \in {TASK_RUNNING, TASK_READY}
            \/ schedule(k).cur = idle_thread
         /\ schedule(k).status = [t \in Threads |->
              IF t = schedule(k).cur THEN TASK_RUNNING
              ELSE IF t = k.cur /\ k.status[t] = TASK_RUNNING THEN TASK_READY
              ELSE k.status[t]]
<1> USE DEF Status, Blocked, TASK_RUNNING, TASK_READY, TASK_BLOCKED, TASK_WAITING, TASK_HANGING, TASK_DIED
<1> DEFINE d == put_down(k)
           w == wake_idle(d)
           s == put_on(w)
<1>1. /\ Leaving(d) /\ d.cur = k.cur /\ k \in SchedState
      /\ d.status = [t \in Threads |->
           IF t = k.cur /\ k.status[t] = TASK_RUNNING THEN TASK_READY ELSE k.status[t]]
  BY Zenon, PutDown DEF Leaving
<1>2. d.status[d.cur] # TASK_RUNNING  BY <1>1, RecordForm
<1> HIDE DEF d
<1>3. /\ Leaving(w) /\ w.cur = k.cur /\ w.ready # <<>>
      /\ w.status = d.status \/
            (/\ d.status[idle_thread] = TASK_BLOCKED
             /\ w.status = [d.status EXCEPT ![idle_thread] = TASK_READY]
             /\ w.ready = <<idle_thread>>)
  BY Zenon, <1>1, <1>2, WakeIdle
<1>4. w.status[w.cur] # TASK_RUNNING
  BY ZenonT(30), <1>1, <1>2, <1>3, RecordForm DEF Leaving
<1> HIDE DEF w
<1>5. /\ Good(s) /\ s.cur = Head(w.ready) /\ w.status[s.cur] = TASK_READY
      /\ s.status = [w.status EXCEPT ![s.cur] = TASK_RUNNING]
  BY Zenon, <1>3, <1>4, PutOn
<1> HIDE DEF s
<1>6. s.cur \in Threads /\ s.status \in [Threads -> Status]  BY Zenon, <1>5, RecordForm DEF Good
<1>7. w.status \in [Threads -> Status] /\ k.status \in [Threads -> Status]
  BY Zenon, <1>1, <1>3, RecordForm DEF Leaving
<1>8. \A t \in Threads :
        d.status[t] = IF t = k.cur /\ k.status[t] = TASK_RUNNING THEN TASK_READY ELSE k.status[t]
  BY Zenon, <1>1
<1>9. \A t \in Threads : s.status[t] = IF t = s.cur THEN TASK_RUNNING ELSE w.status[t]
  BY <1>5, <1>6, <1>7
<1>10. \A t \in Threads : t # s.cur => w.status[t] = d.status[t]
  <2>1. CASE w.status = d.status  BY <2>1
  <2>2. CASE /\ w.status = [d.status EXCEPT ![idle_thread] = TASK_READY]
             /\ w.ready = <<idle_thread>>
    <3>1. s.cur = idle_thread  BY <1>5, <2>2
    <3> QED BY Zenon, <1>1, <2>2, <3>1
  <2> QED BY <1>3, <2>1, <2>2
<1>11. k.status[s.cur] \in {TASK_RUNNING, TASK_READY} \/ s.cur = idle_thread
  <2>1. CASE w.status = d.status  BY <1>5, <1>6, <1>8, <2>1
  <2>2. CASE w.ready = <<idle_thread>>  BY <1>5, <2>2
  <2> QED BY <1>3, <2>1, <2>2
<1>12. s.status = [t \in Threads |->
         IF t = s.cur THEN TASK_RUNNING
         ELSE IF t = k.cur /\ k.status[t] = TASK_RUNNING THEN TASK_READY
         ELSE k.status[t]]
  BY <1>6, <1>8, <1>9, <1>10
<1>13. schedule(k) = s  BY DEF schedule, s, w, d
<1> QED BY <1>5, <1>11, <1>12, <1>13

-----------------------------------------------------------------------------

(***************************************************************************)
(* A consistent state is one from which schedule may be called.            *)
(***************************************************************************)
LEMMA GoodLeaves ==
  ASSUME NEW k, Good(k)
  PROVE  Leaving(k) /\ k \in SchedState /\ k.status[k.cur] = TASK_RUNNING
BY RecordForm DEF Good, Leaving, SchedOK

(***************************************************************************)
(* thread_block: the caller takes the given status, a ready thread or idle *)
(* runs, nobody else changes. Idle may only block with TASK_BLOCKED: that  *)
(* is why schedule can always wake it.                                     *)
(***************************************************************************)
LEMMA ThreadBlock ==
  ASSUME NEW k, Good(k), NEW stat \in Blocked, k.cur = idle_thread => stat = TASK_BLOCKED
  PROVE  /\ Good(thread_block(k, stat))
         /\ \/ k.status[thread_block(k, stat).cur] = TASK_READY
            \/ thread_block(k, stat).cur = idle_thread
         /\ thread_block(k, stat).status = [t \in Threads |->
              IF t = thread_block(k, stat).cur THEN TASK_RUNNING
              ELSE IF t = k.cur THEN stat ELSE k.status[t]]
<1> USE DEF Status, Blocked, TASK_RUNNING, TASK_READY, TASK_BLOCKED, TASK_WAITING, TASK_HANGING, TASK_DIED
<1> DEFINE b == [k EXCEPT !.status = [k.status EXCEPT ![k.cur] = stat]]
           s == schedule(b)
<1>1. k \in SchedState /\ Leaving(k) /\ k.status[k.cur] = TASK_RUNNING  BY GoodLeaves
<1>2. /\ b.status = [k.status EXCEPT ![k.cur] = stat] /\ b.ready = k.ready
      /\ b.cur = k.cur /\ b.ticks = k.ticks /\ b.cpu = k.cpu
  BY <1>1, RecordForm
<1>3. b \in SchedState
  BY Zenon, <1>1, <1>2, RecordForm DEF SchedState
<1> HIDE DEF b
<1>4. \A t \in Threads : b.status[t] = IF t = k.cur THEN stat ELSE k.status[t]
  BY <1>1, <1>2, RecordForm
<1>5. Leaving(b)
  <2>1. k.cur \in Threads  BY <1>1, RecordForm
  <2> QED BY <1>1, <1>2, <1>3, <1>4, <2>1, ThreadAssumption DEF Leaving
<1>6. /\ Good(s)
      /\ b.status[s.cur] \in {TASK_RUNNING, TASK_READY} \/ s.cur = idle_thread
      /\ s.status = [t \in Threads |->
           IF t = s.cur THEN TASK_RUNNING
           ELSE IF t = b.cur /\ b.status[t] = TASK_RUNNING THEN TASK_READY
           ELSE b.status[t]]
  BY Zenon, <1>5, Schedule
<1>7. thread_block(k, stat) = s  BY DEF thread_block, s, b
<1> HIDE DEF s
<1>8. s.cur \in Threads  BY <1>6, RecordForm DEF Good
<1>9. s.status = [t \in Threads |-> IF t = s.cur THEN TASK_RUNNING
                                    ELSE IF t = k.cur THEN stat ELSE k.status[t]]
  <2>1. \A t \in Threads :
          (IF t = b.cur /\ b.status[t] = TASK_RUNNING THEN TASK_READY ELSE b.status[t])
            = (IF t = k.cur THEN stat ELSE k.status[t])
    BY Zenon, <1>1, <1>2, <1>4 DEF Leaving
  <2> QED BY <1>6, <2>1
<1>10. k.status[s.cur] = TASK_READY \/ s.cur = idle_thread
  BY <1>1, <1>4, <1>6, <1>8 DEF Leaving
<1> QED BY <1>6, <1>7, <1>9, <1>10

(***************************************************************************)
(* thread_yield fills the ready list itself and then calls schedule, which *)
(* may be called in that state.                                            *)
(***************************************************************************)
LEMMA YieldLeaves ==
  ASSUME NEW k, Good(k)
  PROVE  Leaving([k EXCEPT !.ready = Append(k.ready, k.cur),
                           !.status = [k.status EXCEPT ![k.cur] = TASK_READY]])
<1> USE DEF Status, Blocked, TASK_RUNNING, TASK_READY, TASK_BLOCKED, TASK_WAITING, TASK_HANGING, TASK_DIED
<1> DEFINE y == [k EXCEPT !.ready = Append(k.ready, k.cur),
                          !.status = [k.status EXCEPT ![k.cur] = TASK_READY]]
<1>1. k \in SchedState /\ Leaving(k) /\ k.status[k.cur] = TASK_RUNNING /\ k.cur \in Threads
  BY GoodLeaves, RecordForm
<1>2. /\ y.status = [k.status EXCEPT ![k.cur] = TASK_READY]
      /\ y.ready = Append(k.ready, k.cur)
      /\ y.cur = k.cur /\ y.ticks = k.ticks /\ y.cpu = k.cpu
  BY <1>1, RecordForm
<1>3. ~elem_find(k.ready, k.cur)  BY <1>1 DEF Leaving
<1>4. /\ y.ready \in Seq(Threads) /\ Distinct(y.ready)
      /\ \A v : elem_find(y.ready, v) <=> v = k.cur \/ elem_find(k.ready, v)
  <2>1. k.ready \in Seq(Threads) /\ Distinct(k.ready)  BY <1>1, RecordForm DEF Leaving
  <2> QED BY <1>1, <1>2, <1>3, <2>1, AppendList
<1>5. y \in SchedState
  <2>1. y.status \in [Threads -> Status]  BY <1>1, <1>2, RecordForm
  <2> QED BY Zenon, <1>1, <1>2, <1>4, <2>1, RecordForm DEF SchedState
<1> HIDE DEF y
<1>6. \A t \in Threads : y.status[t] = IF t = k.cur THEN TASK_READY ELSE k.status[t]
  BY <1>1, <1>2, RecordForm
<1>7. Leaving(y)
  <2>1. \A t \in Threads : y.status[t] = TASK_READY <=> elem_find(y.ready, t)
    BY Zenon, <1>1, <1>4, <1>6 DEF Leaving
  <2> QED BY <1>1, <1>2, <1>4, <1>5, <1>6, <2>1, ThreadAssumption DEF Leaving
<1> QED BY <1>7 DEF y

(***************************************************************************)
(* The timer interrupt keeps the state consistent and makes no thread      *)
(* runnable or blocked, except that it may start idle.                     *)
(***************************************************************************)
LEMMA TimerHandler ==
  ASSUME NEW k, Good(k)
  PROVE  /\ Good(intr_timer_handler(k))
         /\ \A t \in Threads :
              intr_timer_handler(k).status[t] \in {TASK_RUNNING, TASK_READY}
                <=> (\/ k.status[t] \in {TASK_RUNNING, TASK_READY}
                     \/ t = idle_thread /\ t = intr_timer_handler(k).cur)
<1> USE DEF Status, Blocked, TASK_RUNNING, TASK_READY, TASK_BLOCKED, TASK_WAITING, TASK_HANGING, TASK_DIED
<1> DEFINE r == [k EXCEPT !.ticks = [k.ticks EXCEPT ![k.cur] = k.ticks[k.cur] - 1]]
<1>1. k \in SchedState /\ Leaving(k) /\ k.cur \in Threads /\ SchedOK(k)
  BY GoodLeaves, RecordForm DEF Good
<1>2. CASE k.ticks[k.cur] = 0
  <2> DEFINE s == schedule(k)
  <2>1. intr_timer_handler(k) = s  BY <1>2 DEF intr_timer_handler
  <2>2. /\ Good(s)
        /\ k.status[s.cur] \in {TASK_RUNNING, TASK_READY} \/ s.cur = idle_thread
        /\ s.status = [t \in Threads |->
             IF t = s.cur THEN TASK_RUNNING
             ELSE IF t = k.cur /\ k.status[t] = TASK_RUNNING THEN TASK_READY
             ELSE k.status[t]]
    BY Zenon, <1>1, Schedule
  <2> HIDE DEF s
  <2>3. s.cur \in Threads  BY <2>2, RecordForm DEF Good
  <2>4. \A t \in Threads : s.status[t] =
             IF t = s.cur THEN TASK_RUNNING
             ELSE IF t = k.cur /\ k.status[t] = TASK_RUNNING THEN TASK_READY
             ELSE k.status[t]
    BY Zenon, <2>2
  <2> QED BY <1>1, <2>1, <2>2, <2>3, <2>4 DEF SchedOK
<1>3. CASE k.ticks[k.cur] # 0
  <2>1. intr_timer_handler(k) = r  BY <1>3 DEF intr_timer_handler
  <2>2. /\ r.status = k.status /\ r.ready = k.ready /\ r.cur = k.cur /\ r.cpu = k.cpu
        /\ r.ticks = [k.ticks EXCEPT ![k.cur] = k.ticks[k.cur] - 1]
    BY <1>1, RecordForm
  <2>3. k.ticks[k.cur] - 1 \in Nat  BY <1>1, <1>3, RecordForm
  <2>4. r \in SchedState  BY Zenon, <1>1, <2>2, <2>3, RecordForm DEF SchedState
  <2> HIDE DEF r
  <2>5. SchedOK(r)  BY <1>1, <2>2 DEF SchedOK
  <2> QED BY <1>1, <2>1, <2>2, <2>4, <2>5, ThreadAssumption DEF Good, SchedOK
<1> QED BY <1>2, <1>3

(***************************************************************************)
(* A new PCB joins the ready list and nothing else changes.                *)
(***************************************************************************)
LEMMA ThreadStart ==
  ASSUME NEW k, Good(k), NEW t \in Threads, k.status[t] = TASK_DIED
  PROVE  /\ Good(thread_start(k, t))
         /\ thread_start(k, t).status = [k.status EXCEPT ![t] = TASK_READY]
         /\ thread_start(k, t).cur = k.cur
<1> USE DEF Status, Blocked, TASK_RUNNING, TASK_READY, TASK_BLOCKED, TASK_WAITING, TASK_HANGING, TASK_DIED
<1> DEFINE n == [k EXCEPT !.ready = Append(k.ready, t),
                          !.ticks = [k.ticks EXCEPT ![t] = priority[t]],
                          !.status = [k.status EXCEPT ![t] = TASK_READY]]
<1>1. k \in SchedState /\ SchedOK(k) /\ k.cpu = "up"  BY DEF Good
<1>2. /\ n.status = [k.status EXCEPT ![t] = TASK_READY]
      /\ n.ready = Append(k.ready, t)
      /\ n.ticks = [k.ticks EXCEPT ![t] = priority[t]]
      /\ n.cur = k.cur /\ n.cpu = k.cpu
  BY <1>1, RecordForm
<1>3. ~elem_find(k.ready, t) /\ t # k.cur  BY <1>1 DEF SchedOK
<1>4. /\ n.ready \in Seq(Threads) /\ Distinct(n.ready)
      /\ \A v : elem_find(n.ready, v) <=> v = t \/ elem_find(k.ready, v)
  <2>1. k.ready \in Seq(Threads) /\ Distinct(k.ready)  BY <1>1, RecordForm DEF SchedOK
  <2> QED BY <1>2, <1>3, <2>1, AppendList
<1>5. n \in SchedState
  <2>1. n.status \in [Threads -> Status] /\ n.ticks \in [Threads -> Nat]
    BY <1>1, <1>2, RecordForm, ThreadAssumption
  <2> QED BY Zenon, <1>1, <1>2, <1>4, <2>1, RecordForm DEF SchedState
<1>6. thread_start(k, t) = n  BY <1>3 DEF thread_start
<1> HIDE DEF n
<1>7. \A u \in Threads : n.status[u] = IF u = t THEN TASK_READY ELSE k.status[u]
  BY <1>1, <1>2, RecordForm
<1>8. SchedOK(n)
  <2>1. \A u \in Threads : n.status[u] = TASK_READY <=> elem_find(n.ready, u)
    BY Zenon, <1>1, <1>4, <1>7 DEF SchedOK
  <2>2. \A u \in Threads : n.status[u] = TASK_RUNNING <=> u = n.cur
    BY ZenonT(30), <1>1, <1>2, <1>3, <1>7 DEF SchedOK
  <2> QED BY <1>1, <1>4, <1>7, <2>1, <2>2, ThreadAssumption DEF SchedOK
<1> QED BY <1>1, <1>2, <1>5, <1>6, <1>8 DEF Good

(***************************************************************************)
(* The state thread_init builds is consistent.                             *)
(***************************************************************************)
LEMMA ThreadInit ==
  ASSUME NEW main \in Threads, NEW created \in Seq(Threads), Distinct(created),
         ~elem_find(created, main), elem_find(created, idle_thread)
  PROVE  Good(thread_init(main, created))
<1> USE DEF Status, Blocked, TASK_RUNNING, TASK_READY, TASK_BLOCKED, TASK_WAITING, TASK_HANGING, TASK_DIED
<1>1. thread_init(main, created) \in SchedState
  BY ThreadAssumption DEF thread_init, SchedState
<1>2. SchedOK(thread_init(main, created))
  BY ThreadAssumption DEF thread_init, SchedOK
<1> QED BY <1>1, <1>2 DEF Good, thread_init

(***************************************************************************)
(* Who sleeps, other than idle, sleeps on when the current thread blocks,  *)
(* and the thread that blocked sleeps then as well.                        *)
(***************************************************************************)
LEMMA BlockSleepers ==
  ASSUME NEW k, Good(k)
  PROVE  /\ Good(thread_block(k, TASK_BLOCKED))
         /\ k.cur # idle_thread => thread_block(k, TASK_BLOCKED).status[k.cur] = TASK_BLOCKED
         /\ \A t \in Threads \ {idle_thread} :
              k.status[t] = TASK_BLOCKED => thread_block(k, TASK_BLOCKED).status[t] = TASK_BLOCKED
<1> DEFINE b == thread_block(k, TASK_BLOCKED)
<1>1. TASK_BLOCKED \in Blocked  BY DEF Blocked
<1>2. k.cur \in Threads /\ k.status[k.cur] = TASK_RUNNING  BY GoodLeaves, RecordForm
<1>3. /\ Good(b) /\ (k.status[b.cur] = TASK_READY \/ b.cur = idle_thread)
      /\ b.status = [t \in Threads |->
           IF t = b.cur THEN TASK_RUNNING ELSE IF t = k.cur THEN TASK_BLOCKED ELSE k.status[t]]
  BY Zenon, <1>1, ThreadBlock
<1> HIDE DEF b
<1>4. \A t \in Threads : b.status[t] =
        IF t = b.cur THEN TASK_RUNNING ELSE IF t = k.cur THEN TASK_BLOCKED ELSE k.status[t]
  BY Zenon, <1>3
<1>5. k.cur # idle_thread => b.cur # k.cur
  BY <1>2, <1>3 DEF TASK_RUNNING, TASK_READY
<1>6. \A t \in Threads \ {idle_thread} : k.status[t] = TASK_BLOCKED => t # b.cur
  BY <1>3 DEF TASK_BLOCKED, TASK_READY
<1> QED BY <1>2, <1>3, <1>4, <1>5, <1>6 DEF b

(***************************************************************************)
(* The same of the timer interrupt.                                        *)
(***************************************************************************)
LEMMA TimerSleepers ==
  ASSUME NEW k, Good(k), NEW t \in Threads \ {idle_thread}, k.status[t] = TASK_BLOCKED
  PROVE  intr_timer_handler(k).status[t] = TASK_BLOCKED
<1>1. k \in SchedState /\ Leaving(k) /\ k.status[k.cur] = TASK_RUNNING  BY GoodLeaves
<1>2. CASE k.ticks[k.cur] = 0
  <2> DEFINE s == schedule(k)
  <2>1. /\ k.status[s.cur] \in {TASK_RUNNING, TASK_READY} \/ s.cur = idle_thread
        /\ s.status = [u \in Threads |->
             IF u = s.cur THEN TASK_RUNNING
             ELSE IF u = k.cur /\ k.status[u] = TASK_RUNNING THEN TASK_READY ELSE k.status[u]]
    BY Zenon, <1>1, Schedule
  <2>2. intr_timer_handler(k) = s  BY <1>2 DEF intr_timer_handler
  <2> HIDE DEF s
  <2>3. t # s.cur /\ t # k.cur
    BY <1>1, <2>1 DEF TASK_RUNNING, TASK_READY, TASK_BLOCKED
  <2> QED BY <2>1, <2>2, <2>3
<1>3. CASE k.ticks[k.cur] # 0
  <2>1. intr_timer_handler(k) = [k EXCEPT !.ticks = [k.ticks EXCEPT ![k.cur] = k.ticks[k.cur] - 1]]
    BY <1>3 DEF intr_timer_handler
  <2> QED BY <1>1, <2>1, RecordForm
<1> QED BY <1>2, <1>3
-----------------------------------------------------------------------------

(***************************************************************************)
(* A change of the running thread leaves a thread that sleeps or is dead   *)
(* as it is (idle may be woken), and puts none to sleep.                   *)
(***************************************************************************)
Asleep == Blocked \cup {TASK_DIED}

Same(k, r, t) ==
  /\ k.status[t] \in Asleep /\ t # idle_thread => r.status[t] = k.status[t]
  /\ r.status[t] \in Asleep => r.status[t] = k.status[t]

(***************************************************************************)
(* schedule does so for everybody.                                         *)
(***************************************************************************)
LEMMA ScheduleSame ==
  ASSUME NEW k, Leaving(k)
  PROVE  Good(schedule(k)) /\ \A t \in Threads : Same(k, schedule(k), t)
<1> USE DEF Asleep, Blocked, TASK_RUNNING, TASK_READY, TASK_BLOCKED, TASK_WAITING,
            TASK_HANGING, TASK_DIED
<1> DEFINE s == schedule(k)
<1>1. /\ Good(s)
      /\ k.status[s.cur] \in {TASK_RUNNING, TASK_READY} \/ s.cur = idle_thread
      /\ s.status = [t \in Threads |->
           IF t = s.cur THEN TASK_RUNNING
           ELSE IF t = k.cur /\ k.status[t] = TASK_RUNNING THEN TASK_READY
           ELSE k.status[t]]
  BY Zenon, Schedule
<1> HIDE DEF s
<1>2. \A t \in Threads : s.status[t] =
        IF t = s.cur THEN TASK_RUNNING
        ELSE IF t = k.cur /\ k.status[t] = TASK_RUNNING THEN TASK_READY
        ELSE k.status[t]
  BY Zenon, <1>1
<1>3. ASSUME NEW t \in Threads PROVE Same(k, s, t)
  <2>1. CASE t = s.cur
    <3>1. s.status[t] = TASK_RUNNING  BY <1>2, <2>1
    <3>2. k.status[t] \notin Asleep \/ t = idle_thread  BY <1>1, <2>1
    <3> QED BY <3>1, <3>2 DEF Same
  <2>2. CASE t # s.cur
    <3>1. s.status[t] = IF t = k.cur /\ k.status[t] = TASK_RUNNING THEN TASK_READY
                        ELSE k.status[t]
      BY <1>2, <2>2
    <3> QED BY <3>1 DEF Same
  <2> QED BY <2>1, <2>2
<1> QED BY <1>1, <1>3 DEF s

(***************************************************************************)
(* thread_block: the same for everybody but the caller, which has the      *)
(* status it asked for afterwards.                                         *)
(***************************************************************************)
LEMMA BlockSame ==
  ASSUME NEW k, Good(k), NEW stat \in Blocked, k.cur = idle_thread => stat = TASK_BLOCKED
  PROVE  /\ Good(thread_block(k, stat))
         /\ k.cur # idle_thread => thread_block(k, stat).status[k.cur] = stat
         /\ \A t \in Threads \ {k.cur} : Same(k, thread_block(k, stat), t)
<1> DEFINE b == thread_block(k, stat)
<1>1. k.cur \in Threads /\ k.status[k.cur] = TASK_RUNNING  BY GoodLeaves, RecordForm
<1>2. /\ Good(b) /\ (k.status[b.cur] = TASK_READY \/ b.cur = idle_thread)
      /\ b.status = [t \in Threads |->
           IF t = b.cur THEN TASK_RUNNING ELSE IF t = k.cur THEN stat ELSE k.status[t]]
  BY Zenon, ThreadBlock
<1> HIDE DEF b
<1> USE DEF Asleep, Blocked, TASK_RUNNING, TASK_READY, TASK_BLOCKED, TASK_WAITING,
            TASK_HANGING, TASK_DIED
<1>3. \A t \in Threads : b.status[t] =
        IF t = b.cur THEN TASK_RUNNING ELSE IF t = k.cur THEN stat ELSE k.status[t]
  BY Zenon, <1>2
<1>4. \A t \in Threads \ {k.cur} : Same(k, b, t)  BY Zenon, <1>2, <1>3 DEF Same
<1>5. k.cur # idle_thread => b.cur # k.cur  BY <1>1, <1>2
<1> QED BY <1>1, <1>2, <1>3, <1>4, <1>5 DEF b

(***************************************************************************)
(* thread_yield and the timer interrupt change nobody's sleep either.      *)
(***************************************************************************)
LEMMA YieldSame ==
  ASSUME NEW k, Good(k)
  PROVE  Good(thread_yield(k)) /\ \A t \in Threads : Same(k, thread_yield(k), t)
<1> USE DEF Asleep, Blocked, TASK_RUNNING, TASK_READY, TASK_BLOCKED, TASK_WAITING,
            TASK_HANGING, TASK_DIED
<1> DEFINE y == [k EXCEPT !.ready = Append(k.ready, k.cur),
                          !.status = [k.status EXCEPT ![k.cur] = TASK_READY]]
<1>1. k \in SchedState /\ Leaving(k) /\ k.status[k.cur] = TASK_RUNNING /\ k.cur \in Threads
  BY GoodLeaves, RecordForm
<1>2. y.status = [k.status EXCEPT ![k.cur] = TASK_READY]  BY <1>1, RecordForm
<1>3. ~elem_find(k.ready, k.cur)  BY <1>1 DEF Leaving
<1>4. thread_yield(k) = schedule(y) /\ Leaving(y)  BY Zenon, <1>3, YieldLeaves DEF thread_yield
<1> HIDE DEF y
<1>5. \A t \in Threads : y.status[t] = IF t = k.cur THEN TASK_READY ELSE k.status[t]
  BY <1>1, <1>2, RecordForm
<1>6. Good(schedule(y)) /\ \A t \in Threads : Same(y, schedule(y), t)  BY <1>4, ScheduleSame
<1>7. \A t \in Threads : Same(k, schedule(y), t)  BY Zenon, <1>1, <1>5, <1>6 DEF Same
<1> QED BY <1>4, <1>6, <1>7

(***************************************************************************)
(* The timer interrupt changes only which ready thread runs.               *)
(***************************************************************************)
LEMMA TimerSame ==
  ASSUME NEW k, Good(k)
  PROVE  Good(intr_timer_handler(k)) /\ \A t \in Threads : Same(k, intr_timer_handler(k), t)
<1>1. Leaving(k) /\ k \in SchedState  BY GoodLeaves
<1>2. CASE k.ticks[k.cur] = 0
  BY <1>1, <1>2, ScheduleSame DEF intr_timer_handler
<1>3. CASE k.ticks[k.cur] # 0
  <2>1. intr_timer_handler(k) = [k EXCEPT !.ticks = [k.ticks EXCEPT ![k.cur] = k.ticks[k.cur] - 1]]
    BY <1>3 DEF intr_timer_handler
  <2>2. intr_timer_handler(k).status = k.status  BY <1>1, <2>1, RecordForm
  <2> QED BY <2>2, TimerHandler DEF Same
<1> QED BY <1>2, <1>3

(***************************************************************************)
(* thread_exit of a zombie (from sys_wait) or of the running thread (main  *)
(* at the end of boot) keeps the state consistent.                         *)
(***************************************************************************)
LEMMA ThreadExit ==
  ASSUME NEW k, Good(k), NEW t \in Threads, t # idle_thread
  PROVE  /\ k.status[t] = TASK_HANGING =>
              /\ Good(thread_exit(k, t, FALSE))
              /\ thread_exit(k, t, FALSE).status = [k.status EXCEPT ![t] = TASK_DIED]
              /\ thread_exit(k, t, FALSE).cur = k.cur
         /\ t = k.cur =>
              /\ Good(thread_exit(k, t, TRUE))
              /\ thread_exit(k, t, TRUE).status[t] = TASK_DIED
              /\ \A u \in Threads \ {t} : Same(k, thread_exit(k, t, TRUE), u)
<1> USE DEF Status, Blocked, TASK_RUNNING, TASK_READY, TASK_BLOCKED, TASK_WAITING, TASK_HANGING, TASK_DIED
<1> SUFFICES ASSUME k.status[t] = TASK_HANGING \/ t = k.cur
             PROVE  /\ k.status[t] = TASK_HANGING =>
                         /\ Good(thread_exit(k, t, FALSE))
                         /\ thread_exit(k, t, FALSE).status = [k.status EXCEPT ![t] = TASK_DIED]
                         /\ thread_exit(k, t, FALSE).cur = k.cur
                    /\ t = k.cur =>
                         /\ Good(thread_exit(k, t, TRUE))
                         /\ thread_exit(k, t, TRUE).status[t] = TASK_DIED
                         /\ \A u \in Threads \ {t} : Same(k, thread_exit(k, t, TRUE), u)
  BY Zenon
<1> DEFINE d == [k EXCEPT !.status = [k.status EXCEPT ![t] = TASK_DIED], !.ready = k.ready]
<1>1. k \in SchedState /\ SchedOK(k) /\ k.cpu = "up"  BY DEF Good
<1>2. ~elem_find(k.ready, t)  BY <1>1 DEF SchedOK
<1>3. /\ thread_exit(k, t, FALSE) = d
      /\ thread_exit(k, t, TRUE) = schedule(d)
  BY <1>2 DEF thread_exit
<1>4. /\ d.status = [k.status EXCEPT ![t] = TASK_DIED]
      /\ d.ready = k.ready /\ d.ticks = k.ticks /\ d.cur = k.cur /\ d.cpu = k.cpu
  BY <1>1, RecordForm
<1>5. d \in SchedState
  <2>1. d.status \in [Threads -> Status]  BY <1>1, <1>4, RecordForm
  <2> QED BY Zenon, <1>1, <1>4, <2>1, RecordForm DEF SchedState
<1> HIDE DEF d
<1>6. \A u \in Threads : d.status[u] = IF u = t THEN TASK_DIED ELSE k.status[u]
  BY <1>1, <1>4, RecordForm
<1>7. Leaving(d)
  BY <1>1, <1>2, <1>4, <1>5, <1>6, ThreadAssumption DEF SchedOK, Leaving
<1>8. ASSUME k.status[t] = TASK_HANGING PROVE Good(d)
  BY <1>1, <1>2, <1>4, <1>5, <1>6, <1>8, ThreadAssumption DEF SchedOK, Good
<1>9. ASSUME t = k.cur
      PROVE  /\ Good(schedule(d)) /\ schedule(d).status[t] = TASK_DIED
             /\ \A u \in Threads \ {t} : Same(k, schedule(d), u)
  <2>1. Good(schedule(d)) /\ \A u \in Threads : Same(d, schedule(d), u)
    BY <1>7, ScheduleSame
  <2> QED BY <1>6, <2>1 DEF Same, Asleep
<1> QED BY Zenon, <1>3, <1>4, <1>8, <1>9

-----------------------------------------------------------------------------

(***************************************************************************)
(* A turn of the loop of sema_down: the caller, which is not among the     *)
(* waiters, is entered there and blocks.                                   *)
(***************************************************************************)
LEMMA SemaWait ==
  ASSUME NEW k, k.cur \in Threads, NEW s \in Sema, Distinct(s.waiters),
         ~elem_find(s.waiters, k.cur)
  PROVE  /\ sema_wait(k, s).k = thread_block(k, TASK_BLOCKED)
         /\ sema_wait(k, s).s \in Sema /\ sema_wait(k, s).s.value = s.value
         /\ Distinct(sema_wait(k, s).s.waiters)
         /\ \A u : elem_find(sema_wait(k, s).s.waiters, u) <=> u = k.cur \/ elem_find(s.waiters, u)
<1> DEFINE n == [s EXCEPT !.waiters = Append(s.waiters, k.cur)]
<1>1. s.waiters \in Seq(Threads)  BY DEF Sema
<1>2. /\ Append(s.waiters, k.cur) \in Seq(Threads) /\ Distinct(Append(s.waiters, k.cur))
      /\ \A u : elem_find(Append(s.waiters, k.cur), u) <=> u = k.cur \/ elem_find(s.waiters, u)
  BY <1>1, AppendList
<1>3. n \in Sema /\ n.value = s.value /\ n.waiters = Append(s.waiters, k.cur)
  BY Zenon, <1>2 DEF Sema
<1>4. sema_wait(k, s).k = thread_block(k, TASK_BLOCKED) /\ sema_wait(k, s).s = n
  BY DEF sema_wait
<1> QED BY <1>2, <1>3, <1>4

(***************************************************************************)
(* The end of sema_down: the value is taken.                               *)
(***************************************************************************)
LEMMA SemaTake ==
  ASSUME NEW k, NEW s \in Sema, s.value = 1
  PROVE  /\ sema_take(k, s).k = k
         /\ sema_take(k, s).s \in Sema /\ sema_take(k, s).s.value = 0
         /\ sema_take(k, s).s.waiters = s.waiters
BY DEF sema_take, Sema

(***************************************************************************)
(* sema_up of a semaphore that is down, and whose waiters are blocked:     *)
(* its value becomes 1 and the first waiter, if there is one, is READY and *)
(* has left the list.  Nobody else changes.                                *)
(***************************************************************************)
LEMMA SemaUp ==
  ASSUME NEW k, Good(k), NEW s \in Sema, s.value = 0, Distinct(s.waiters),
         \A u \in Threads : elem_find(s.waiters, u) => k.status[u] = TASK_BLOCKED
  PROVE  /\ Good(sema_up(k, s).k) /\ sema_up(k, s).k.cur = k.cur
         /\ sema_up(k, s).s \in Sema /\ sema_up(k, s).s.value = 1
         /\ Distinct(sema_up(k, s).s.waiters)
         /\ \A u \in Threads :
              /\ elem_find(sema_up(k, s).s.waiters, u) =>
                   elem_find(s.waiters, u) /\ sema_up(k, s).k.status[u] = k.status[u]
              /\ \/ sema_up(k, s).k.status[u] = k.status[u]
                 \/ /\ elem_find(s.waiters, u) /\ k.status[u] = TASK_BLOCKED
                    /\ sema_up(k, s).k.status[u] = TASK_READY
<1>1. s.waiters \in Seq(Threads) /\ s.value \in {0, 1}  BY DEF Sema
<1>2. CASE s.waiters = <<>>
  <2>1. sema_up(k, s) = [k |-> k, s |-> [s EXCEPT !.value = 1]]  BY <1>2 DEF sema_up
  <2>2. sema_up(k, s).k = k /\ sema_up(k, s).s = [s EXCEPT !.value = 1]  BY <2>1
  <2>3. sema_up(k, s).s \in Sema /\ sema_up(k, s).s.value = 1 /\ sema_up(k, s).s.waiters = s.waiters
    BY <2>2 DEF Sema
  <2> QED BY <2>2, <2>3
<1>3. CASE s.waiters # <<>>
  <2> DEFINE h == Head(s.waiters)
             w == Tail(s.waiters)
             r == thread_unblock(k, h)
  <2>1. sema_up(k, s) = [k |-> r, s |-> [value |-> 1, waiters |-> w]]  BY <1>3 DEF sema_up
  <2>2. /\ w \in Seq(Threads) /\ h \in Threads /\ elem_find(s.waiters, h) /\ Distinct(w)
        /\ \A u : elem_find(w, u) <=> u # h /\ elem_find(s.waiters, u)
    BY Zenon, <1>1, <1>3, PopList
  <2> HIDE DEF h, w
  <2>3. k.status[h] = TASK_BLOCKED  BY <2>2
  <2>4. Good(r) /\ r.status = [k.status EXCEPT ![h] = TASK_READY] /\ r.cur = k.cur
    BY Zenon, <2>2, <2>3, UnblockGood DEF Blocked
  <2> HIDE DEF r
  <2>5. /\ sema_up(k, s).k = r /\ sema_up(k, s).s = [value |-> 1, waiters |-> w]
        /\ sema_up(k, s).s \in Sema
    BY <2>1, <2>2 DEF Sema
  <2>6. \A u \in Threads : r.status[u] = IF u = h THEN TASK_READY ELSE k.status[u]
    <3>1. k.status \in [Threads -> Status]  BY RecordForm DEF Good
    <3> QED BY Zenon, <2>4, <3>1
  <2>7. sema_up(k, s).s.value = 1 /\ sema_up(k, s).s.waiters = w  BY <2>5
  <2>8. ASSUME NEW u \in Threads
        PROVE  /\ elem_find(w, u) => elem_find(s.waiters, u) /\ r.status[u] = k.status[u]
               /\ \/ r.status[u] = k.status[u]
                  \/ /\ elem_find(s.waiters, u) /\ k.status[u] = TASK_BLOCKED
                     /\ r.status[u] = TASK_READY
    BY <2>2, <2>3, <2>6
  <2> QED BY Zenon, <2>2, <2>4, <2>5, <2>7, <2>8
<1> QED BY Zenon, <1>2, <1>3
=============================================================================
