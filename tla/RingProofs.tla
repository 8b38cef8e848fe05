----------------------------- MODULE RingProofs -----------------------------
(***************************************************************************)
(* The ring of device/ioqueue.c for any size, and the two users it has:    *)
(* pipes, with any number of readers and writers and calls of any length,  *)
(* and the keyboard, with any number of readers.                           *)
(*                                                                         *)
(* The first part says what the operations do to the characters a ring     *)
(* holds.                                                                  *)
(*                                                                         *)
(* For pipes, PInv is inductive.  A thread in the middle of a call that    *)
(* does not sleep is the one that runs, so the room or the data that       *)
(* pipe_write or pipe_read found cannot be used up by another one          *)
(* (Moving).  That is why only writers sleep, one byte before their end    *)
(* (SleepsForTheLast), so no thread is ever in ioq.consumer, and the one   *)
(* in ioq.producer holds the lock and is blocked (SleepersOK).  Then every *)
(* thread_unblock finds a blocked thread and ioq_wait a free place.        *)
(*                                                                         *)
(* The keyboard is an instance of its own, with a buffer and a count of    *)
(* keys of its own.                                                        *)
(***************************************************************************)
EXTENDS Pipe, ThreadProofs

-----------------------------------------------------------------------------
Fields == {"buf", "head", "tail", "lock", "producer", "consumer"}

\* The queue q holds the characters after out up to in, and has its shape.
Ring(q, out, in) ==
  /\ DOMAIN q = Fields
  /\ q.head \in Positions /\ q.tail \in Positions
  /\ DOMAIN q.buf = Positions
  /\ out \in Serials /\ in \in Serials
  /\ Holds(q, out, in)

\* The two queues differ at most in the lock and in who sleeps.
SameRing(q, r) ==
  /\ DOMAIN r = DOMAIN q
  /\ r.head = q.head /\ r.tail = q.tail /\ r.buf = q.buf

(***************************************************************************)
(* A number below twice a modulus is reduced by subtracting it once at     *)
(* most: next_pos reduces that way, and the ring's positions do.           *)
(***************************************************************************)
LEMMA Reduce ==
  ASSUME NEW m \in Nat \ {0}, NEW x \in 0 .. (2 * m - 1)
  PROVE  x % m = IF x < m THEN x ELSE x - m
<1> DEFINE d == x \div m
<1>1. d \in Nat /\ x % m \in 0 .. (m - 1) /\ x = m * d + (x % m)  OBVIOUS
<1> HIDE DEF d
<1>2. d < 2
  <2> SUFFICES ASSUME d >= 2 PROVE FALSE  BY <1>1
  <2>1. PICK e \in Nat : d = 2 + e
    <3>1. d - 2 \in Nat  BY <1>1
    <3> QED BY <1>1, <3>1
  <2>2. m * d = 2 * m + m * e /\ m * e \in Nat  BY <2>1
  <2> QED BY <1>1, <2>2
<1>3. CASE d = 0  BY <1>1, <1>3
<1>4. CASE d = 1  BY <1>1, <1>4
<1> QED BY <1>1, <1>2, <1>3, <1>4

(***************************************************************************)
(* The place i further on in the ring (next_pos, i times).                 *)
(***************************************************************************)
LEMMA Place ==
  ASSUME NEW p \in Positions, NEW i \in 0 .. bufsize
  PROVE  (p + i) % bufsize = IF p + i < bufsize THEN p + i ELSE p + i - bufsize
<1> DEFINE x == p + i
<1>1. bufsize \in Nat \ {0} /\ x \in 0 .. (2 * bufsize - 1)
  BY IoQueueAssumption DEF Positions
<1> HIDE DEF x
<1>2. x % bufsize = IF x < bufsize THEN x ELSE x - bufsize  BY Zenon, <1>1, Reduce
<1> QED BY <1>1, <1>2, IoQueueAssumption DEF x, Positions

(***************************************************************************)
(* The serial number i further on.                                         *)
(***************************************************************************)
LEMMA Serial ==
  ASSUME NEW n \in Serials, NEW i \in 0 .. bufsize
  PROVE  Later(n, i) = IF n + i < 2 * bufsize THEN n + i ELSE n + i - 2 * bufsize
<1> DEFINE x == n + i
           m == 2 * bufsize
<1>1. m \in Nat \ {0} /\ x \in 0 .. (2 * m - 1)
  BY IoQueueAssumption DEF Serials
<1> HIDE DEF x, m
<1>2. x % m = IF x < m THEN x ELSE x - m  BY Zenon, <1>1, Reduce
<1> QED BY <1>1, <1>2, IoQueueAssumption DEF Later, x, m, Serials

(***************************************************************************)
(* The length is that of the part between tail and head (ioq_length); the  *)
(* ring is never filled to the last place.                                 *)
(***************************************************************************)
LEMMA Length ==
  ASSUME NEW q, q.head \in Positions, q.tail \in Positions
  PROVE  /\ ioq_length(q) \in 0 .. (bufsize - 1)
         /\ (q.tail + ioq_length(q)) % bufsize = q.head
<1>1. ioq_length(q) \in 0 .. (bufsize - 1)
  BY IoQueueAssumption DEF Positions, ioq_length
<1>2. ioq_length(q) \in 0 .. bufsize  BY <1>1, IoQueueAssumption
<1>3. (q.tail + ioq_length(q)) % bufsize
        = IF q.tail + ioq_length(q) < bufsize THEN q.tail + ioq_length(q)
          ELSE q.tail + ioq_length(q) - bufsize
  BY <1>2, Place
<1> QED BY <1>1, <1>3, IoQueueAssumption DEF Positions, ioq_length

(***************************************************************************)
(* Taking a character: tail moves on, and the character is the next in     *)
(* order (ioq_getchar).                                                    *)
(***************************************************************************)
LEMMA TakeKeeps ==
  ASSUME NEW q, NEW r, NEW out, NEW in,
         Ring(q, out, in), ~ioq_empty(q),
         DOMAIN r = DOMAIN q, r.tail = next_pos(q.tail), r.head = q.head, r.buf = q.buf
  PROVE  Ring(r, q.buf[q.tail], in) /\ ioq_length(r) = ioq_length(q) - 1
<1> DEFINE h == q.head
           t == q.tail
           n == ioq_length(q)
           u == r.tail
           m == ioq_length(r)
           c == q.buf[q.tail]
<1> USE IoQueueAssumption
<1>1. /\ h \in Positions /\ t \in Positions /\ h # t
      /\ out \in Serials /\ in \in Serials
      /\ DOMAIN q = Fields /\ DOMAIN q.buf = Positions
  BY DEF Ring, ioq_empty
<1>2. /\ in = Later(out, n)
      /\ \A i \in 0 .. (n - 1) : q.buf[(t + i) % bufsize] = Later(out, i + 1)
  BY DEF Ring, Holds
<1>3. n = IF h >= t THEN h - t ELSE bufsize - (t - h)  BY DEF ioq_length
<1>4. m = IF h >= u THEN h - u ELSE bufsize - (u - h)  BY DEF ioq_length
<1>5. u = IF t + 1 < bufsize THEN t + 1 ELSE t + 1 - bufsize
  BY <1>1, Place DEF next_pos
<1> HIDE DEF h, t, n, u, m
<1>6. u \in Positions /\ n \in 1 .. (bufsize - 1) /\ m = n - 1
  BY <1>1, <1>3, <1>4, <1>5 DEF Positions
<1>7. c = Later(out, 1)
  <2>1. 0 \in 0 .. (n - 1)  BY <1>6
  <2>2. q.buf[(t + 0) % bufsize] = Later(out, 0 + 1)  BY <1>2, <2>1
  <2>3. (t + 0) % bufsize = IF t + 0 < bufsize THEN t + 0 ELSE t + 0 - bufsize
    BY <1>1, Place
  <2>4. (t + 0) % bufsize = t  BY <1>1, <2>3 DEF Positions
  <2> QED BY <2>2, <2>4 DEF t
<1> HIDE DEF c
<1>8. c = IF out + 1 < 2 * bufsize THEN out + 1 ELSE out + 1 - 2 * bufsize
  BY <1>1, <1>7, Serial
<1>9. c \in Serials  BY <1>1, <1>8 DEF Serials
<1>10. ASSUME NEW i \in 0 .. (bufsize - 1) PROVE Later(c, i) = Later(out, i + 1)
  <2>1. Later(c, i) = IF c + i < 2 * bufsize THEN c + i ELSE c + i - 2 * bufsize
    BY <1>9, Serial
  <2>2. Later(out, i + 1)
          = IF out + (i + 1) < 2 * bufsize THEN out + (i + 1) ELSE out + (i + 1) - 2 * bufsize
    BY <1>1, Serial
  <2> QED BY <1>1, <1>8, <1>9, <2>1, <2>2 DEF Serials
<1>11. in = Later(c, m)  BY <1>2, <1>6, <1>10
<1>12. ASSUME NEW i \in 0 .. (m - 1) PROVE r.buf[(u + i) % bufsize] = Later(c, i + 1)
  <2>1. i \in 0 .. (bufsize - 1) /\ i + 1 \in 0 .. (bufsize - 1) /\ i + 1 \in 0 .. (n - 1)
    BY <1>6
  <2>2. (u + i) % bufsize = IF u + i < bufsize THEN u + i ELSE u + i - bufsize
    BY <1>6, <2>1, Place
  <2>3. (t + (i + 1)) % bufsize
          = IF t + (i + 1) < bufsize THEN t + (i + 1) ELSE t + (i + 1) - bufsize
    BY <1>1, <2>1, Place
  <2>4. (u + i) % bufsize = (t + (i + 1)) % bufsize
    BY <1>1, <1>5, <1>6, <2>1, <2>2, <2>3 DEF Positions
  <2>5. q.buf[(t + (i + 1)) % bufsize] = Later(out, (i + 1) + 1)  BY <1>2, <2>1
  <2>6. Later(c, i + 1) = Later(out, (i + 1) + 1)  BY <1>10, <2>1
  <2> QED BY <2>4, <2>5, <2>6
<1>13. Holds(r, c, in)  BY <1>11, <1>12 DEF Holds, m, u
<1>14. ioq_length(r) = ioq_length(q) - 1  BY <1>6 DEF m, n
<1> QED BY <1>1, <1>6, <1>9, <1>13, <1>14 DEF Ring, c, u, h

(***************************************************************************)
(* Putting a character: it goes into the free place at head, behind those  *)
(* that are there (ioq_putchar).                                           *)
(***************************************************************************)
LEMMA PutKeeps ==
  ASSUME NEW q, NEW r, NEW out, NEW in,
         Ring(q, out, in), ~ioq_full(q),
         DOMAIN r = DOMAIN q, r.tail = q.tail, r.head = next_pos(q.head),
         r.buf = [q.buf EXCEPT ![q.head] = Later(in, 1)]
  PROVE  Ring(r, out, Later(in, 1)) /\ ioq_length(r) = ioq_length(q) + 1
<1> DEFINE h == q.head
           t == q.tail
           n == ioq_length(q)
           g == r.head
           m == ioq_length(r)
           c == Later(in, 1)
<1> USE IoQueueAssumption
<1>1. /\ h \in Positions /\ t \in Positions
      /\ out \in Serials /\ in \in Serials
      /\ DOMAIN q = Fields /\ DOMAIN q.buf = Positions
  BY DEF Ring
<1>2. /\ in = Later(out, n)
      /\ \A i \in 0 .. (n - 1) : q.buf[(t + i) % bufsize] = Later(out, i + 1)
  BY DEF Ring, Holds
<1>3. n = IF h >= t THEN h - t ELSE bufsize - (t - h)  BY DEF ioq_length
<1>4. m = IF g >= t THEN g - t ELSE bufsize - (t - g)  BY DEF ioq_length
<1>5. g = (IF h + 1 < bufsize THEN h + 1 ELSE h + 1 - bufsize) /\ g # t
  BY <1>1, Place DEF next_pos, ioq_full
<1>6. (t + n) % bufsize = h  BY <1>1, Length
<1>7. r.buf = [q.buf EXCEPT ![h] = c]  OBVIOUS
<1>8. c = IF in + 1 < 2 * bufsize THEN in + 1 ELSE in + 1 - 2 * bufsize
  BY <1>1, Serial
<1> HIDE DEF h, t, n, g, m, c
<1>9. g \in Positions /\ n \in 0 .. (bufsize - 2) /\ m = n + 1
  <2>1. /\ h \in Nat /\ h < bufsize
        /\ t \in Nat /\ t < bufsize
    BY <1>1 DEF Positions
  <2>2. CASE h + 1 < bufsize
    <3>1. g = h + 1  BY <1>5, <2>2
    <3> QED BY <1>3, <1>4, <1>5, <2>1, <2>2, <3>1 DEF Positions
  <2>3. CASE h + 1 = bufsize
    <3>1. g = 0  BY <1>5, <2>1, <2>3
    <3> QED BY <1>3, <1>4, <1>5, <2>1, <2>3, <3>1 DEF Positions
  <2> QED BY <2>1, <2>2, <2>3
<1>10. c \in Serials  BY <1>1, <1>8 DEF Serials
<1>11. c = Later(out, n + 1)
  <2>1. Later(out, n) = IF out + n < 2 * bufsize THEN out + n ELSE out + n - 2 * bufsize
    BY <1>1, <1>9, Serial
  <2>2. Later(out, n + 1)
          = IF out + (n + 1) < 2 * bufsize THEN out + (n + 1) ELSE out + (n + 1) - 2 * bufsize
    BY <1>1, <1>9, Serial
  <2> QED BY <1>1, <1>2, <1>8, <1>9, <2>1, <2>2 DEF Serials
<1>12. ASSUME NEW i \in 0 .. (m - 1) PROVE r.buf[(t + i) % bufsize] = Later(out, i + 1)
  <2>1. CASE i = n
    <3>1. r.buf[h] = c  BY <1>1, <1>7
    <3> QED BY <1>6, <1>11, <2>1, <3>1
  <2>2. CASE i \in 0 .. (n - 1)
    <3> DEFINE p == (t + i) % bufsize
    <3>1. p = IF t + i < bufsize THEN t + i ELSE t + i - bufsize
      BY <1>1, <1>9, <2>2, Place
    <3>2. q.buf[p] = Later(out, i + 1)  BY <1>2, <2>2
    <3> HIDE DEF p
    <3>3. p \in Positions /\ p # h
      BY <1>1, <1>3, <1>9, <2>2, <3>1 DEF Positions
    <3>4. r.buf[p] = q.buf[p]  BY <1>1, <1>7, <3>3
    <3> QED BY <3>2, <3>4 DEF p
  <2> QED BY <1>9, <2>1, <2>2
<1>13. c = Later(out, m)  BY <1>9, <1>11
<1>14. Holds(r, out, c)  BY <1>12, <1>13 DEF Holds, m, t
<1>15. DOMAIN r.buf = Positions  BY <1>1, <1>7
<1>16. r.tail = t  BY DEF t
<1>17. ioq_length(r) = ioq_length(q) + 1  BY <1>9 DEF m, n
<1> QED BY <1>1, <1>9, <1>10, <1>14, <1>15, <1>16, <1>17 DEF Ring, c, g

(***************************************************************************)
(* The lock and the sleepers do not matter for what a queue holds.         *)
(***************************************************************************)
LEMMA SameKeeps ==
  ASSUME NEW q, NEW r, NEW out, NEW in, Ring(q, out, in), SameRing(q, r)
  PROVE  Ring(r, out, in) /\ ioq_length(r) = ioq_length(q)
<1>1. ioq_length(r) = ioq_length(q)  BY DEF SameRing, ioq_length
<1>2. Holds(r, out, in)  BY <1>1 DEF Ring, SameRing, Holds
<1> QED BY <1>1, <1>2 DEF Ring, SameRing

(***************************************************************************)
(* wakeup clears the field of the sleeper and unblocks the thread in it.   *)
(***************************************************************************)
LEMMA Wakeup ==
  ASSUME NEW k, NEW q, DOMAIN q = Fields, NEW field \in {"producer", "consumer"}
  PROVE  LET w == wakeup([k |-> k, q |-> q], field)
         IN  /\ SameRing(q, w.q) /\ w.q.lock = q.lock
             /\ \A f \in {"producer", "consumer"} : w.q[f] = IF f = field THEN NULL ELSE q[f]
             /\ w.k = IF q[field] = NULL THEN k ELSE thread_unblock(k, q[field])
<1>1. CASE q[field] = NULL  BY <1>1 DEF wakeup, SameRing
<1>2. CASE q[field] # NULL
  <2> DEFINE r == [q EXCEPT ![field] = NULL]
             u == thread_unblock(k, q[field])
  <2>1. wakeup([k |-> k, q |-> q], field) = [k |-> u, q |-> r]  BY <1>2 DEF wakeup
  <2>2. SameRing(q, r)  BY DEF SameRing, Fields
  <2>3. r.lock = q.lock /\ \A f \in {"producer", "consumer"} : r[f] = IF f = field THEN NULL ELSE q[f]
    BY DEF Fields
  <2> HIDE DEF r, u
  <2> QED BY <1>2, <2>1, <2>2, <2>3 DEF u
<1> QED BY <1>1, <1>2

(***************************************************************************)
(* Going to sleep for the lock of the queue: the thread is appended to its *)
(* waiters (lock_acquire).                                                 *)
(***************************************************************************)
LEMMA WaitForLock ==
  ASSUME NEW k, NEW q, DOMAIN q = Fields, NEW field \in {"producer", "consumer"},
         q.lock.value = 0
  PROVE  LET w == acquire_then_wait([k |-> k, q |-> q], field)
         IN  /\ SameRing(q, w.q)
             /\ w.q.producer = q.producer /\ w.q.consumer = q.consumer
             /\ w.q.lock = sema_wait(k, q.lock).s /\ w.k = sema_wait(k, q.lock).k
<1> DEFINE s == sema_wait(k, q.lock)
           r == [q EXCEPT !.lock = s.s]
<1>1. acquire_then_wait([k |-> k, q |-> q], field) = [k |-> s.k, q |-> r]
  BY DEF acquire_then_wait
<1> HIDE DEF s
<1>2. SameRing(q, r)  BY DEF SameRing, Fields
<1>3. r.producer = q.producer /\ r.consumer = q.consumer /\ r.lock = s.s
  BY DEF Fields
<1> HIDE DEF r
<1> QED BY <1>1, <1>2, <1>3 DEF s

(***************************************************************************)
(* Going to sleep for a character with the lock held (ioq_wait).           *)
(***************************************************************************)
LEMMA WaitForChar ==
  ASSUME NEW k, NEW q, DOMAIN q = Fields, NEW field \in {"producer", "consumer"},
         q.lock.value # 0
  PROVE  LET w == acquire_then_wait([k |-> k, q |-> q], field)
             l == sema_take(k, q.lock)
         IN  /\ SameRing(q, w.q) /\ w.q.lock = l.s
             /\ q[field] = NULL =>
                  /\ w.k = thread_block(l.k, TASK_BLOCKED)
                  /\ \A f \in {"producer", "consumer"} :
                       w.q[f] = IF f = field THEN l.k.cur ELSE q[f]
<1> DEFINE l == sema_take(k, q.lock)
           p == [q EXCEPT !.lock = l.s]
           x == [k |-> l.k, q |-> p]
           r == [p EXCEPT ![field] = l.k.cur]
           b == thread_block(l.k, TASK_BLOCKED)
<1>1. acquire_then_wait([k |-> k, q |-> q], field) = ioq_wait(x, field)
  BY DEF acquire_then_wait
<1> HIDE DEF l
<1>2. SameRing(q, p) /\ DOMAIN p = Fields /\ p.lock = l.s
  BY DEF SameRing, Fields
<1>3. p.producer = q.producer /\ p.consumer = q.consumer /\ p[field] = q[field]
  BY DEF Fields
<1> HIDE DEF p
<1>4. SameRing(q, r) /\ r.lock = l.s  BY <1>2 DEF SameRing, Fields
<1>5. \A f \in {"producer", "consumer"} : r[f] = IF f = field THEN l.k.cur ELSE q[f]
  BY <1>2, <1>3 DEF Fields
<1> HIDE DEF r
<1>6. CASE q[field] # NULL
  <2>1. ioq_wait(x, field).q = p  BY <1>3, <1>6 DEF ioq_wait
  <2> QED BY <1>1, <1>2, <1>6, <2>1 DEF l
<1>7. CASE q[field] = NULL
  <2>1. ioq_wait(x, field) = [k |-> b, q |-> r]  BY <1>3, <1>7 DEF ioq_wait, r
  <2> HIDE DEF b, x
  <2> QED BY <1>1, <1>4, <1>5, <2>1 DEF l, b
<1> QED BY <1>6, <1>7

(***************************************************************************)
(* Giving the lock back (lock_release).                                    *)
(***************************************************************************)
LEMMA ReleaseLock ==
  ASSUME NEW k, NEW q, DOMAIN q = Fields
  PROVE  LET w == release_after_wait([k |-> k, q |-> q])
         IN  /\ SameRing(q, w.q)
             /\ w.q.producer = q.producer /\ w.q.consumer = q.consumer
             /\ w.q.lock = sema_up(k, q.lock).s /\ w.k = sema_up(k, q.lock).k
<1> DEFINE s == sema_up(k, q.lock)
           r == [q EXCEPT !.lock = s.s]
<1>1. release_after_wait([k |-> k, q |-> q]) = [k |-> s.k, q |-> r]
  BY DEF release_after_wait
<1> HIDE DEF s
<1>2. SameRing(q, r)  BY DEF SameRing, Fields
<1>3. r.producer = q.producer /\ r.consumer = q.consumer /\ r.lock = s.s
  BY DEF Fields
<1> HIDE DEF r
<1> QED BY <1>1, <1>2, <1>3 DEF s

(***************************************************************************)
(* The whole of taking a character: the one that comes out is the next,    *)
(* the queue holds those after it, and a sleeping producer is woken.       *)
(***************************************************************************)
LEMMA TakeChar ==
  ASSUME NEW k, NEW q, NEW out, NEW in, Ring(q, out, in), ~ioq_empty(q)
  PROVE  LET w == take_char([k |-> k, q |-> q])
         IN  /\ Ring(w.q, q.buf[q.tail], in) /\ ioq_length(w.q) = ioq_length(q) - 1
             /\ w.q.lock = q.lock /\ w.q.producer = NULL /\ w.q.consumer = q.consumer
             /\ w.k = IF q.producer = NULL THEN k ELSE thread_unblock(k, q.producer)
<1> DEFINE r == [q EXCEPT !.tail = next_pos(@)]
           w == wakeup([k |-> k, q |-> r], "producer")
<1>1. DOMAIN q = Fields  BY DEF Ring
<1>2. /\ DOMAIN r = DOMAIN q /\ r.tail = next_pos(q.tail)
      /\ r.head = q.head /\ r.buf = q.buf
      /\ r.lock = q.lock /\ r.producer = q.producer /\ r.consumer = q.consumer
  BY <1>1 DEF Fields
<1>3. take_char([k |-> k, q |-> q]) = w  BY DEF take_char
<1> HIDE DEF r
<1>4. Ring(r, q.buf[q.tail], in) /\ ioq_length(r) = ioq_length(q) - 1
  BY <1>2, TakeKeeps
<1>5. /\ SameRing(r, w.q) /\ w.q.lock = r.lock
      /\ w.q.producer = NULL /\ w.q.consumer = r.consumer
      /\ w.k = IF r.producer = NULL THEN k ELSE thread_unblock(k, r.producer)
  <2>1. "producer" \in {"producer", "consumer"}  OBVIOUS
  <2> QED BY <1>1, <1>2, <2>1, Wakeup
<1> HIDE DEF w
<1>6. Ring(w.q, q.buf[q.tail], in) /\ ioq_length(w.q) = ioq_length(r)
  BY <1>4, <1>5, SameKeeps
<1> QED BY <1>2, <1>3, <1>4, <1>5, <1>6

(***************************************************************************)
(* The whole of putting a character: a sleeping consumer is woken.         *)
(***************************************************************************)
LEMMA PutChar ==
  ASSUME NEW k, NEW q, NEW out, NEW in, Ring(q, out, in), ~ioq_full(q)
  PROVE  LET w == put_char([k |-> k, q |-> q], Later(in, 1))
         IN  /\ Ring(w.q, out, Later(in, 1)) /\ ioq_length(w.q) = ioq_length(q) + 1
             /\ w.q.lock = q.lock /\ w.q.producer = q.producer /\ w.q.consumer = NULL
             /\ w.k = IF q.consumer = NULL THEN k ELSE thread_unblock(k, q.consumer)
<1> DEFINE c == Later(in, 1)
           s == [k |-> k, q |-> q]
           x == [s EXCEPT !.q.buf[s.q.head] = c, !.q.head = next_pos(@)]
           r == x.q
           w == wakeup([k |-> k, q |-> r], "consumer")
<1>1. DOMAIN q = Fields  BY DEF Ring
<1>2. put_char(s, c) = w
  <2>1. put_char(s, c) = wakeup(x, "consumer")  BY DEF put_char
  <2> DEFINE p == [q EXCEPT !.buf = [@ EXCEPT ![q.head] = c]]
             y == [s EXCEPT !.q.buf[s.q.head] = c]
  <2>2. y = [k |-> k, q |-> p]  OBVIOUS
  <2>3. x = [y EXCEPT !.q.head = next_pos(@)]  BY Zenon
  <2>4. x = [k |-> k, q |-> [p EXCEPT !.head = next_pos(@)]]
    <3> HIDE DEF p, y, x
    <3> QED BY <2>2, <2>3
  <2>5. r = [p EXCEPT !.head = next_pos(@)]
    <3> HIDE DEF p, x
    <3> QED BY <2>4
  <2> HIDE DEF p, x
  <2> QED BY <2>1, <2>4, <2>5
<1>3. /\ DOMAIN r = DOMAIN q /\ r.head = next_pos(q.head)
      /\ r.tail = q.tail /\ r.buf = [q.buf EXCEPT ![q.head] = c]
      /\ r.lock = q.lock /\ r.producer = q.producer /\ r.consumer = q.consumer
  BY Zenon, <1>1 DEF Fields
<1> HIDE DEF r
<1>4. Ring(r, out, c) /\ ioq_length(r) = ioq_length(q) + 1  BY <1>3, PutKeeps
<1>5. /\ SameRing(r, w.q) /\ w.q.lock = r.lock
      /\ w.q.producer = r.producer /\ w.q.consumer = NULL
      /\ w.k = IF r.consumer = NULL THEN k ELSE thread_unblock(k, r.consumer)
  <2>1. "consumer" \in {"producer", "consumer"}  OBVIOUS
  <2> QED BY <1>1, <1>3, <2>1, Wakeup
<1> HIDE DEF w
<1>6. Ring(w.q, out, c) /\ ioq_length(w.q) = ioq_length(r)  BY <1>4, <1>5, SameKeeps
<1> QED BY <1>2, <1>3, <1>4, <1>5, <1>6

(***************************************************************************)
(* An empty queue (ioqueue_init).                                          *)
(***************************************************************************)
LEMMA InitRing == Ring(ioqueue_init, 0, 0)
<1> USE IoQueueAssumption
<1>1. /\ DOMAIN ioqueue_init = Fields
      /\ ioqueue_init.head = 0 /\ ioqueue_init.tail = 0
      /\ DOMAIN ioqueue_init.buf = Positions
  BY DEF ioqueue_init, Fields
<1>2. 0 \in Positions /\ 0 \in Serials  BY DEF Positions, Serials
<1>3. ioq_length(ioqueue_init) = 0  BY <1>1 DEF ioq_length
<1>4. Later(0, 0) = 0  BY <1>2, Serial
<1>5. Holds(ioqueue_init, 0, 0)  BY <1>3, <1>4 DEF Holds
<1> QED BY <1>1, <1>2, <1>5 DEF Ring

-----------------------------------------------------------------------------
Sides == {"producer", "consumer"}

PCs == {"user", "move", "lock", "asleep"}

TypeInv ==
  /\ pc \in [Threads -> PCs] /\ pc[idle_thread] = "user"
  /\ side \in [Threads -> Sides]
  /\ left \in [Threads -> Nat]

\* A thread that moves bytes runs, and has room or data for the rest.
Fits(q, s, n) ==
  IF s = "consumer" THEN n <= ioq_length(q) ELSE n <= bufsize - ioq_length(q)

Moving(k, q, p, s, n) ==
  \A t \in Threads : p[t] = "move" => k.cur = t /\ Fits(q, s[t], n[t])

SleepersOK(k, q, p) ==
  /\ q.lock \in Sema
  /\ Distinct(q.lock.waiters)
  /\ \A t \in Threads :
       elem_find(q.lock.waiters, t) => p[t] = "lock" /\ k.status[t] = TASK_BLOCKED
  /\ \A t \in Threads : p[t] = "asleep" => q.lock.value = 0
  /\ \A t, u \in Threads : p[t] = "asleep" /\ p[u] = "asleep" => t = u
  /\ q.consumer = NULL
  /\ q.producer # NULL =>
       /\ q.producer \in Threads /\ p[q.producer] = "asleep"
       /\ k.status[q.producer] = TASK_BLOCKED

PInv ==
  /\ TypeInv
  /\ Good(sched)
  /\ Ring(ioq, got, put)
  /\ Moving(sched, ioq, pc, side, left)
  /\ SleepersOK(sched, ioq, pc)
  /\ SleepsForTheLast

(***************************************************************************)
(* The pipe that sys_pipe makes satisfies it.                              *)
(***************************************************************************)
LEMMA PipeInit == Init => PInv
<1> SUFFICES ASSUME Init PROVE PInv  OBVIOUS
<1>1. /\ sched = thread_init(first, others) /\ pc = [t \in Threads |-> "user"]
      /\ ioq = ioqueue_init /\ put = 0 /\ got = 0
      /\ side = [t \in Threads |-> "consumer"] /\ left = [t \in Threads |-> 0]
  BY DEF Init
<1>2. TypeInv  BY <1>1, ThreadAssumption DEF TypeInv, PCs, Sides
<1>3. Good(sched)  BY <1>1, ThreadInit, PipeAssumption
<1>4. Ring(ioq, got, put)  BY <1>1, InitRing
<1>5. Moving(sched, ioq, pc, side, left)  BY <1>1 DEF Moving
<1>6. SleepersOK(sched, ioq, pc)
  <2>1. /\ ioq.lock = [value |-> 1, waiters |-> <<>>]
        /\ ioq.consumer = NULL /\ ioq.producer = NULL
    BY <1>1 DEF ioqueue_init, sema_init
  <2> QED BY <1>1, <2>1 DEF SleepersOK, Sema, Distinct, elem_find
<1>7. SleepsForTheLast  BY <1>1 DEF SleepsForTheLast, Sleeps
<1> QED BY <1>2, <1>3, <1>4, <1>5, <1>6, <1>7 DEF PInv

(***************************************************************************)
(* Every step of pipe_read, pipe_write and the scheduler preserves it.     *)
(***************************************************************************)
LEMMA PipeNext == PInv /\ [Next]_vars => PInv'
<1> SUFFICES ASSUME PInv, [Next]_vars PROVE PInv'  OBVIOUS
<1> USE DEF At, Goto
<1> DEFINE n == ioq_length(ioq)
           lock == ioq.lock
<1>1. /\ TypeInv /\ Good(sched) /\ Ring(ioq, got, put)
      /\ Moving(sched, ioq, pc, side, left) /\ SleepersOK(sched, ioq, pc) /\ SleepsForTheLast
      /\ DOMAIN ioq = Fields
  BY DEF PInv, Ring
<1>2. /\ pc \in [Threads -> PCs] /\ pc[idle_thread] = "user"
      /\ side \in [Threads -> Sides] /\ left \in [Threads -> Nat]
      /\ idle_thread \in Threads /\ NULL \notin Threads /\ bufsize \in Nat
  BY <1>1, ThreadAssumption, SyncAssumption, IoQueueAssumption DEF TypeInv
<1>3. /\ sched.cur \in Threads /\ sched.status[sched.cur] = TASK_RUNNING
      /\ sched.status \in [Threads -> Status]
  BY <1>1, GoodLeaves, RecordForm
<1>4. n \in 0 .. (bufsize - 1)  BY <1>1, Length DEF Ring
<1>5. /\ lock \in Sema /\ lock.value \in {0, 1} /\ lock.waiters \in Seq(Threads)
      /\ Distinct(lock.waiters) /\ ~elem_find(lock.waiters, sched.cur)
      /\ ioq.producer # sched.cur
  BY <1>1, <1>3, <1>2 DEF SleepersOK, Sema, TASK_RUNNING, TASK_BLOCKED
<1> HIDE DEF n, lock
<1>6. \A t \in Threads : pc[t] = "move" => sched.cur = t /\ Fits(ioq, side[t], left[t])
  BY <1>1 DEF Moving
<1>7. ASSUME NEW t \in Threads, NEW count \in 1 .. MaxCount,
             pipe_read(t, count) \/ pipe_write(t, count)
      PROVE  PInv'
  <2>1. PICK s \in Sides, m \in Nat :
          /\ side' = [side EXCEPT ![t] = s] /\ left' = [left EXCEPT ![t] = m]
          /\ Fits(ioq, s, m)
    <3>1. CASE pipe_read(t, count)
      <4> DEFINE m == AtMost(count, ioq_length(ioq))
      <4>1. m \in Nat /\ Fits(ioq, "consumer", m)
        BY <1>4 DEF AtMost, Fits, n
      <4>2. side' = [side EXCEPT ![t] = "consumer"] /\ left' = [left EXCEPT ![t] = m]
        BY <3>1 DEF pipe_read
      <4> QED BY Zenon, <4>1, <4>2 DEF Sides
    <3>2. CASE pipe_write(t, count)
      <4> DEFINE m == AtMost(count, bufsize - ioq_length(ioq))
      <4>1. m \in Nat /\ Fits(ioq, "producer", m)
        BY <1>2, <1>4 DEF AtMost, Fits, n
      <4>2. side' = [side EXCEPT ![t] = "producer"] /\ left' = [left EXCEPT ![t] = m]
        BY <3>2 DEF pipe_write
      <4> QED BY Zenon, <4>1, <4>2 DEF Sides
    <3> QED BY <1>7, <3>1, <3>2
  <2>2. /\ sched.cur = t /\ pc[t] = "user" /\ t # idle_thread
        /\ pc' = [pc EXCEPT ![t] = "move"] /\ UNCHANGED <<sched, ioq, put, got>>
    BY <1>7, PipeAssumption DEF pipe_read, pipe_write
  <2>3. TypeInv'  BY <1>2, <2>1, <2>2 DEF TypeInv, PCs
  <2>4. Moving(sched', ioq', pc', side', left')
    <3>1. ASSUME NEW u \in Threads, pc'[u] = "move"
          PROVE  sched.cur = u /\ Fits(ioq, side'[u], left'[u])
      <4>1. u = t  BY <1>2, <1>6, <2>2, <3>1
      <4> QED BY <1>2, <2>1, <2>2, <4>1
    <3> QED BY <2>2, <3>1 DEF Moving
  <2>5. SleepersOK(sched', ioq', pc')  BY <1>1, <1>2, <2>2 DEF SleepersOK
  <2>6. SleepsForTheLast'
    BY <1>1, <1>2, <2>1, <2>2 DEF SleepsForTheLast, Sleeps
  <2> QED BY <1>1, <2>2, <2>3, <2>4, <2>5, <2>6 DEF PInv
<1>8. ASSUME NEW t \in Threads, Move(t) PROVE PInv'
  <2>1. /\ sched.cur = t /\ pc[t] = "move" /\ left[t] > 0 /\ Ready(t)
        /\ left' = [left EXCEPT ![t] = left[t] - 1] /\ side' = side /\ pc' = pc
    BY <1>8 DEF Move
  <2>2. TypeInv'  BY <1>2, <2>1 DEF TypeInv
  <2>3. SleepsForTheLast'
    BY <1>1, <1>2, <2>1 DEF SleepsForTheLast, Sleeps
  <2>4. Fits(ioq, side[t], left[t]) /\ t # idle_thread  BY <1>2, <1>6, <2>1
  <2>5. ASSUME sched'.cur = t, Fits(ioq', side[t], left[t] - 1)
        PROVE  Moving(sched', ioq', pc', side', left')
    <3>1. ASSUME NEW u \in Threads, pc[u] = "move" PROVE u = t  BY <1>6, <2>1, <3>1
    <3>2. left'[t] = left[t] - 1  BY <1>2, <2>1
    <3> QED BY <2>1, <2>5, <3>1, <3>2 DEF Moving
  <2>6. CASE side[t] = "producer"
    <3> DEFINE w == put_char([k |-> sched, q |-> ioq], Later(put, 1))
    <3>1. ~ioq_full(ioq) /\ put' = Later(put, 1) /\ got' = got /\ ioq' = w.q /\ sched' = w.k
      BY <1>8, <2>6 DEF Move, Ready, Becomes, Sys
    <3>2. /\ Ring(w.q, got, Later(put, 1)) /\ ioq_length(w.q) = n + 1
          /\ w.q.lock = lock /\ w.q.producer = ioq.producer /\ w.q.consumer = NULL
          /\ w.k = IF ioq.consumer = NULL THEN sched ELSE thread_unblock(sched, ioq.consumer)
      BY <1>1, <3>1, PutChar DEF n, lock
    <3>3. sched' = sched  BY <1>1, <3>1, <3>2 DEF SleepersOK
    <3>4. /\ Ring(ioq', got', put') /\ ioq_length(ioq') = n + 1
          /\ ioq'.lock = lock /\ ioq'.producer = ioq.producer /\ ioq'.consumer = NULL
      BY <3>1, <3>2
    <3>5. Fits(ioq', side[t], left[t] - 1)
      BY SMTT(20), <1>2, <1>4, <2>1, <2>4, <2>6, <3>4 DEF Fits, n
    <3>6. SleepersOK(sched', ioq', pc')  BY <1>1, <2>1, <3>3, <3>4 DEF SleepersOK, lock
    <3> QED BY <1>1, <2>1, <2>2, <2>3, <2>5, <3>3, <3>4, <3>5, <3>6 DEF PInv
  <2>7. CASE side[t] # "producer"
    <3> DEFINE w == take_char([k |-> sched, q |-> ioq])
    <3>1. /\ ~ioq_empty(ioq) /\ got' = ioq.buf[ioq.tail] /\ put' = put
          /\ ioq' = w.q /\ sched' = w.k
      BY <1>8, <2>7 DEF Move, Ready, Becomes, Sys
    <3>2. /\ Ring(w.q, ioq.buf[ioq.tail], put) /\ ioq_length(w.q) = n - 1
          /\ w.q.lock = lock /\ w.q.producer = NULL /\ w.q.consumer = ioq.consumer
          /\ w.k = IF ioq.producer = NULL THEN sched ELSE thread_unblock(sched, ioq.producer)
      BY <1>1, <3>1, TakeChar DEF n, lock
    <3>3. /\ Ring(ioq', got', put') /\ ioq_length(ioq') = n - 1
          /\ ioq'.lock = lock /\ ioq'.producer = NULL /\ ioq'.consumer = NULL
      BY <1>1, <3>1, <3>2 DEF SleepersOK
    <3>4. side[t] = "consumer"  BY <1>2, <2>7 DEF Sides
    <3>5. Fits(ioq', side[t], left[t] - 1)
      BY <1>2, <1>4, <2>1, <2>4, <3>3, <3>4 DEF Fits, n
    <3>6. CASE ioq.producer = NULL
      <4>1. sched' = sched  BY <3>1, <3>2, <3>6
      <4>2. SleepersOK(sched', ioq', pc')  BY <1>1, <2>1, <3>3, <4>1 DEF SleepersOK, lock
      <4> QED BY <1>1, <2>1, <2>2, <2>3, <2>5, <3>3, <3>5, <4>1, <4>2 DEF PInv
    <3>7. CASE ioq.producer # NULL
      <4> DEFINE p == ioq.producer
      <4>1. p \in Threads /\ pc[p] = "asleep" /\ sched.status[p] = TASK_BLOCKED
        BY <1>1, <3>7 DEF SleepersOK
      <4>2. sched' = thread_unblock(sched, p)  BY <3>1, <3>2, <3>7
      <4> HIDE DEF p
      <4>3. /\ Good(sched') /\ sched'.cur = sched.cur
            /\ sched'.status = [sched.status EXCEPT ![p] = TASK_READY]
        BY <1>1, <4>1, <4>2, UnblockGood DEF Blocked
      <4>4. \A u \in Threads : elem_find(lock.waiters, u) => u # p
        BY <1>1, <4>1 DEF SleepersOK, lock
      <4>5. SleepersOK(sched', ioq', pc')
        BY <1>1, <1>3, <2>1, <3>3, <4>3, <4>4 DEF SleepersOK, lock
      <4> QED BY <2>1, <2>2, <2>3, <2>5, <3>3, <3>5, <4>3, <4>5 DEF PInv
    <3> QED BY <3>6, <3>7
  <2> QED BY <2>6, <2>7
<1>9. ASSUME NEW t \in Threads, Wait(t) PROVE PInv'
  <2> DEFINE w == acquire_then_wait([k |-> sched, q |-> ioq], side[t])
  <2>1. /\ sched.cur = t /\ pc[t] \in {"move", "lock"}
        /\ pc[t] = "move" => left[t] > 0 /\ ~Ready(t)
        /\ pc' = [pc EXCEPT ![t] = IF lock.value = 0 THEN "lock" ELSE "asleep"]
        /\ ioq' = w.q /\ sched' = w.k /\ UNCHANGED <<put, got, side, left>>
    BY <1>9 DEF Wait, Becomes, Sys, lock
  <2>2. t # idle_thread /\ side[t] \in {"producer", "consumer"}
    BY <1>2, <2>1 DEF Sides
  <2>3. side[t] = "producer" /\ left[t] = 1
    <3>1. CASE pc[t] = "lock"  BY <1>1, <3>1 DEF SleepsForTheLast, Sleeps
    <3>2. CASE pc[t] = "move" /\ side[t] = "consumer"
      <4>1. ioq.head = ioq.tail  BY <2>1, <3>2 DEF Ready, ioq_empty
      <4>2. n = 0  BY <1>1, <4>1, IoQueueAssumption DEF n, ioq_length, Ring, Positions
      <4>3. left[t] <= 0  BY <1>6, <3>2, <4>2 DEF Fits, n
      <4> QED BY <1>2, <2>1, <3>2, <4>3
    <3>3. CASE pc[t] = "move" /\ side[t] = "producer"
      <4>1. next_pos(ioq.head) = ioq.tail  BY <2>1, <3>3 DEF Ready, ioq_full
      <4>2. n = bufsize - 1
        <5>1. ioq.head \in Positions /\ ioq.tail \in Positions  BY <1>1 DEF Ring
        <5>2. next_pos(ioq.head) = IF ioq.head + 1 < bufsize THEN ioq.head + 1
                                   ELSE ioq.head + 1 - bufsize
          BY <5>1, IoQueueAssumption, Place DEF next_pos
        <5> QED BY <4>1, <5>1, <5>2, IoQueueAssumption DEF n, ioq_length, Positions
      <4>3. left[t] <= bufsize - n  BY <1>6, <3>3 DEF Fits, n
      <4>4. left[t] <= 1  BY <1>2, <4>2, <4>3
      <4>5. left[t] > 0 /\ left[t] \in Nat  BY <1>2, <2>1, <3>3
      <4> QED BY <3>3, <4>4, <4>5
    <3> QED BY <2>1, <2>2, <3>1, <3>2, <3>3
  <2>4. TypeInv'  BY <1>2, <2>1, <2>2 DEF TypeInv, PCs
  <2>5. SleepsForTheLast'
    BY <1>1, <1>2, <2>1, <2>3 DEF SleepsForTheLast, Sleeps
  <2>6. \A u \in Threads : pc'[u] # "move"  BY <1>2, <1>6, <2>1
  <2>7. Moving(sched', ioq', pc', side', left')  BY <2>6 DEF Moving
  <2>8. ASSUME SameRing(ioq, ioq') PROVE Ring(ioq', got', put')
    <3>1. Ring(ioq', got, put)  BY <1>1, <2>8, SameKeeps
    <3> QED BY <2>1, <3>1
  <2>9. ASSUME sched' = thread_block(sched, TASK_BLOCKED)
        PROVE  /\ Good(sched') /\ sched'.status[t] = TASK_BLOCKED
               /\ \A u \in Threads \ {idle_thread} :
                    sched.status[u] = TASK_BLOCKED => sched'.status[u] = TASK_BLOCKED
    BY <1>1, <2>1, <2>2, <2>9, BlockSleepers
  <2>10. CASE lock.value = 0
    <3> DEFINE waiters == Append(lock.waiters, t)
    <3>1. /\ SameRing(ioq, w.q)
          /\ w.q.producer = ioq.producer /\ w.q.consumer = ioq.consumer
          /\ w.q.lock = sema_wait(sched, lock).s /\ w.k = sema_wait(sched, lock).k
      BY <1>1, <2>2, <2>10, WaitForLock DEF lock
    <3>2. sema_wait(sched, lock) = [k |-> thread_block(sched, TASK_BLOCKED),
                                    s |-> [lock EXCEPT !.waiters = waiters]]
      BY <1>5, <2>1 DEF sema_wait
    <3>3. /\ SameRing(ioq, ioq') /\ sched' = thread_block(sched, TASK_BLOCKED)
          /\ ioq'.producer = ioq.producer /\ ioq'.consumer = ioq.consumer
          /\ ioq'.lock = [lock EXCEPT !.waiters = waiters]
      BY <2>1, <3>1, <3>2
    <3>4. /\ waiters \in Seq(Threads) /\ Distinct(waiters)
          /\ \A u : elem_find(waiters, u) <=> u = t \/ elem_find(lock.waiters, u)
      BY <1>5, <2>1, AppendList
    <3> HIDE DEF waiters
    <3>5. ioq'.lock \in Sema /\ ioq'.lock.value = 0 /\ ioq'.lock.waiters = waiters
      BY <1>5, <2>10, <3>3, <3>4 DEF Sema
    <3>6. \A u \in Threads : pc'[u] = IF u = t THEN "lock" ELSE pc[u]
      BY <1>2, <2>1, <2>10
    <3>7. SleepersOK(sched', ioq', pc')
      <4>1. \A u \in Threads : elem_find(waiters, u) =>
              pc'[u] = "lock" /\ sched'.status[u] = TASK_BLOCKED
        BY <1>1, <1>2, <2>9, <3>3, <3>4, <3>6 DEF SleepersOK, lock
      <4>2. ioq'.producer # NULL =>
              /\ ioq'.producer \in Threads /\ pc'[ioq'.producer] = "asleep"
              /\ sched'.status[ioq'.producer] = TASK_BLOCKED
        BY <1>1, <1>2, <1>5, <2>1, <2>9, <3>3, <3>6 DEF SleepersOK
      <4> QED BY <1>1, <3>3, <3>4, <3>5, <3>6, <4>1, <4>2 DEF SleepersOK
    <3> QED BY <2>4, <2>5, <2>7, <2>8, <2>9, <3>3, <3>7 DEF PInv
  <2>11. CASE lock.value # 0
    <3> DEFINE l == sema_take(sched, lock)
    <3>1. l = [k |-> sched, s |-> [lock EXCEPT !.value = 0]]
      BY <1>5, <2>11 DEF sema_take
    <3>2. \A u \in Threads : pc[u] # "asleep"
      BY <1>1, <2>11 DEF SleepersOK, lock
    <3>3. ioq.producer = NULL  BY SMTT(20), <1>1, <3>2 DEF SleepersOK
    <3>4. /\ SameRing(ioq, w.q) /\ w.q.lock = l.s
          /\ ioq[side[t]] = NULL =>
               /\ w.k = thread_block(l.k, TASK_BLOCKED)
               /\ \A f \in {"producer", "consumer"} :
                    w.q[f] = IF f = side[t] THEN l.k.cur ELSE ioq[f]
      BY <1>1, <2>2, <2>11, WaitForChar DEF lock
    <3>5. ioq[side[t]] = NULL  BY <2>3, <3>3
    <3>6. /\ SameRing(ioq, ioq') /\ sched' = thread_block(sched, TASK_BLOCKED)
          /\ ioq'.producer = t /\ ioq'.consumer = ioq.consumer
          /\ ioq'.lock = [lock EXCEPT !.value = 0]
      BY <2>1, <2>3, <3>1, <3>4, <3>5
    <3>7. /\ ioq'.lock \in Sema /\ ioq'.lock.value = 0
          /\ ioq'.lock.waiters = lock.waiters
      BY <1>5, <3>6 DEF Sema
    <3>8. \A u \in Threads : pc'[u] = IF u = t THEN "asleep" ELSE pc[u]
      BY <1>2, <2>1, <2>11
    <3>9. SleepersOK(sched', ioq', pc')
      <4>1. \A u \in Threads : elem_find(lock.waiters, u) =>
              pc'[u] = "lock" /\ sched'.status[u] = TASK_BLOCKED
        BY <1>1, <1>2, <1>5, <2>1, <2>9, <3>6, <3>8 DEF SleepersOK, lock
      <4> QED BY <1>1, <1>5, <2>9, <3>2, <3>6, <3>7, <3>8, <4>1 DEF SleepersOK
    <3> QED BY <2>4, <2>5, <2>7, <2>8, <2>9, <3>6, <3>9 DEF PInv
  <2> QED BY <2>10, <2>11
<1>10. ASSUME NEW t \in Threads, Woken(t) PROVE PInv'
  <2> DEFINE w == release_after_wait([k |-> sched, q |-> ioq])
  <2>1. /\ sched.cur = t /\ pc[t] = "asleep" /\ pc' = [pc EXCEPT ![t] = "move"]
        /\ ioq' = w.q /\ sched' = w.k /\ UNCHANGED <<put, got, side, left>>
    BY <1>10 DEF Woken, Becomes, Sys
  <2>2. t # idle_thread /\ lock.value = 0 /\ side[t] = "producer" /\ left[t] = 1
    BY SMTT(20), <1>1, <1>2, <2>1 DEF SleepersOK, SleepsForTheLast, Sleeps, lock
  <2>3. /\ SameRing(ioq, w.q)
        /\ w.q.producer = ioq.producer /\ w.q.consumer = ioq.consumer
        /\ w.q.lock = sema_up(sched, lock).s /\ w.k = sema_up(sched, lock).k
    BY <1>1, ReleaseLock DEF lock
  <2>4. Ring(ioq', got', put') /\ ioq_length(ioq') = n
    <3>1. Ring(ioq', got, put) /\ ioq_length(ioq') = ioq_length(ioq)
      BY <1>1, <2>1, <2>3, SameKeeps
    <3> QED BY <2>1, <3>1 DEF n
  <2>5. \A u \in Threads : pc'[u] = IF u = t THEN "move" ELSE pc[u]  BY <1>2, <2>1
  <2>6. TypeInv'  BY <1>2, <2>1, <2>2 DEF TypeInv, PCs
  <2>7. SleepsForTheLast'  BY <1>1, <2>1, <2>5 DEF SleepsForTheLast, Sleeps
  <2>8. ASSUME sched'.cur = t PROVE Moving(sched', ioq', pc', side', left')
    <3>1. Fits(ioq', side[t], left[t])  BY <1>2, <1>4, <2>2, <2>4 DEF Fits
    <3>2. ASSUME NEW u \in Threads, pc'[u] = "move" PROVE u = t
      BY <1>6, <2>1, <2>5, <3>2
    <3> QED BY <2>1, <2>8, <3>1, <3>2 DEF Moving
  <2>9. \A u \in Threads : pc'[u] # "asleep"  BY <1>1, <2>1, <2>5 DEF SleepersOK
  <2>10. ioq.producer = NULL  BY <1>1, <1>5, <2>1 DEF SleepersOK
  <2>11. CASE lock.waiters = <<>>
    <3>1. sema_up(sched, lock) = [k |-> sched, s |-> [lock EXCEPT !.value = 1]]
      BY <2>2, <2>11 DEF sema_up
    <3>2. /\ sched' = sched /\ ioq'.lock = [lock EXCEPT !.value = 1]
          /\ ioq'.producer = NULL /\ ioq'.consumer = ioq.consumer
      BY <2>1, <2>3, <2>10, <3>1
    <3>3. ioq'.lock \in Sema /\ ioq'.lock.value = 1 /\ ioq'.lock.waiters = lock.waiters
      BY <1>5, <3>2 DEF Sema
    <3>4. SleepersOK(sched', ioq', pc')
      BY <1>1, <1>5, <2>1, <2>5, <2>9, <3>2, <3>3 DEF SleepersOK, lock
    <3> QED BY <1>1, <2>1, <2>4, <2>6, <2>7, <2>8, <3>2, <3>4 DEF PInv
  <2>12. CASE lock.waiters # <<>>
    <3> DEFINE h == Head(lock.waiters)
               rest == Tail(lock.waiters)
    <3>1. sema_up(sched, lock)
            = [k |-> thread_unblock(sched, h), s |-> [value |-> 1, waiters |-> rest]]
      BY <2>2, <2>12 DEF sema_up
    <3>2. /\ rest \in Seq(Threads) /\ h \in Threads /\ elem_find(lock.waiters, h)
          /\ \A u : elem_find(rest, u) <=> u # h /\ elem_find(lock.waiters, u)
          /\ Distinct(rest)
      BY <1>5, <2>12, PopList
    <3> HIDE DEF h, rest
    <3>3. /\ sched' = thread_unblock(sched, h)
          /\ ioq'.lock = [value |-> 1, waiters |-> rest]
          /\ ioq'.producer = NULL /\ ioq'.consumer = ioq.consumer
      BY <2>1, <2>3, <2>10, <3>1
    <3>4. sched.status[h] = TASK_BLOCKED  BY <1>1, <3>2 DEF SleepersOK, lock
    <3>5. /\ Good(sched') /\ sched'.cur = sched.cur
          /\ sched'.status = [sched.status EXCEPT ![h] = TASK_READY]
      BY ZenonT(30), <1>1, <3>2, <3>3, <3>4, UnblockGood DEF Blocked
    <3>6. ioq'.lock \in Sema /\ ioq'.lock.value = 1 /\ ioq'.lock.waiters = rest
      BY <3>2, <3>3 DEF Sema
    <3>7. \A u \in Threads : elem_find(rest, u) =>
            pc'[u] = "lock" /\ sched'.status[u] = TASK_BLOCKED
      BY ZenonT(30), <1>1, <1>3, <1>5, <2>1, <2>5, <3>2, <3>5 DEF SleepersOK, lock
    <3>8. SleepersOK(sched', ioq', pc')
      BY <1>1, <2>9, <3>2, <3>3, <3>6, <3>7 DEF SleepersOK
    <3> QED BY <2>1, <2>4, <2>6, <2>7, <2>8, <3>5, <3>8 DEF PInv
  <2> QED BY <2>11, <2>12
<1>11. ASSUME NEW t \in Threads, Return(t) PROVE PInv'
  <2>1. /\ sched.cur = t /\ pc[t] = "move" /\ pc' = [pc EXCEPT ![t] = "user"]
        /\ UNCHANGED <<sched, ioq, put, got, side, left>>
    BY <1>11 DEF Return
  <2>2. TypeInv'  BY <1>2, <2>1 DEF TypeInv, PCs
  <2>3. Moving(sched, ioq, pc', side, left)  BY SMTT(20), <1>1, <1>2, <2>1 DEF Moving
  <2>4. SleepersOK(sched, ioq, pc')  BY <1>1, <1>2, <2>1 DEF SleepersOK
  <2>5. SleepsForTheLast'  BY <1>1, <1>2, <2>1 DEF SleepsForTheLast, Sleeps
  <2> QED BY <1>1, <2>1, <2>2, <2>3, <2>4, <2>5 DEF PInv
<1>12. ASSUME UNCHANGED <<ioq, put, got, side, left, pc>>, Good(sched'),
              pc[sched.cur] = "user",
              \A u \in Threads \ {idle_thread} :
                sched.status[u] = TASK_BLOCKED => sched'.status[u] = TASK_BLOCKED
       PROVE  PInv'
  <2>1. TypeInv' /\ SleepsForTheLast'
    BY <1>1, <1>12 DEF TypeInv, SleepsForTheLast, Sleeps
  <2>2. Moving(sched', ioq', pc', side', left')
    BY SMTT(20), <1>6, <1>12 DEF Moving
  <2>3. SleepersOK(sched', ioq', pc')  BY <1>1, <1>2, <1>12 DEF SleepersOK
  <2> QED BY <1>1, <1>12, <2>1, <2>2, <2>3 DEF PInv
<1>13. CASE idle
  <2>1. /\ sched.cur = idle_thread /\ sched' = thread_block(sched, TASK_BLOCKED)
        /\ UNCHANGED <<ioq, put, got, side, left, pc>>
    BY <1>13 DEF idle
  <2>2. /\ Good(sched')
        /\ \A u \in Threads \ {idle_thread} :
             sched.status[u] = TASK_BLOCKED => sched'.status[u] = TASK_BLOCKED
    BY <1>1, <2>1, BlockSleepers
  <2> QED BY <1>2, <1>12, <2>1, <2>2
<1>14. CASE TimerTick
  <2>1. /\ pc[sched.cur] = "user" /\ sched' = intr_timer_handler(sched)
        /\ UNCHANGED <<ioq, put, got, side, left, pc>>
    BY <1>14 DEF TimerTick, Interruptible
  <2>2. Good(sched')  BY <1>1, <2>1, TimerHandler
  <2>3. \A u \in Threads \ {idle_thread} :
          sched.status[u] = TASK_BLOCKED => sched'.status[u] = TASK_BLOCKED
    BY <1>1, <2>1, TimerSleepers
  <2> QED BY <1>12, <2>1, <2>2, <2>3
<1>15. CASE UNCHANGED vars
  BY <1>1, <1>15 DEF vars, PInv, TypeInv, SleepsForTheLast, Sleeps
<1> QED BY <1>7, <1>8, <1>9, <1>10, <1>11, <1>13, <1>14, <1>15 DEF Next, Kernel

(***************************************************************************)
(* The pipe stays in the states that PInv describes.                       *)
(***************************************************************************)
THEOREM PipeGood == Spec => []PInv
BY PipeInit, PipeNext, PTL DEF Spec

(***************************************************************************)
(* What is written into a pipe comes out once and in order, also when      *)
(* pipe_read and pipe_write are cut in two by sleeping and other processes *)
(* use the pipe in between.                                                *)
(***************************************************************************)
THEOREM BytesInOrder == Spec => []InOrder
<1>1. PInv => InOrder  BY DEF PInv, Ring, InOrder
<1> QED BY <1>1, PipeGood, PTL

(***************************************************************************)
(* No ASSERT of ioqueue.c, sync.c or the scheduler fails in a pipe: a      *)
(* writer never finds another one in ioq.producer (ioq_wait), and whoever  *)
(* is woken is blocked (thread_unblock).                                   *)
(***************************************************************************)
THEOREM PipeNeverPanics == Spec => []NoPanic
<1>1. PInv => NoPanic  BY DEF PInv, Good, NoPanic, Up
<1> QED BY <1>1, PipeGood, PTL

(***************************************************************************)
(* A read of a pipe never sleeps, and a write only for its last byte,      *)
(* whatever the other processes do between the test of pipe_write and the  *)
(* moving of the bytes.                                                    *)
(***************************************************************************)
THEOREM PipeRarelySleeps == Spec => []SleepsForTheLast
<1>1. PInv => SleepsForTheLast  BY DEF PInv
<1> QED BY <1>1, PipeGood, PTL

-----------------------------------------------------------------------------
VARIABLES kbd_buf, typed

Kbd == INSTANCE Keyboard

(***************************************************************************)
(* The operations of the instance are those of the ring.                   *)
(***************************************************************************)
LEMMA KbdOperations ==
  /\ \A q : (Kbd!ioq_empty(q) <=> ioq_empty(q)) /\ (Kbd!ioq_full(q) <=> ioq_full(q))
  /\ \A n : Kbd!Later(n, 1) = Later(n, 1)
  /\ Kbd!ioqueue_init = ioqueue_init
  /\ \A s : Kbd!take_char(s) = take_char(s)
  /\ \A s, byte : Kbd!put_char(s, byte) = put_char(s, byte)
  /\ \A q, out, in : Kbd!Holds(q, out, in) <=> Holds(q, out, in)
<1>1. \A k, t : Kbd!thread_unblock(k, t) = thread_unblock(k, t)
  BY DEF Kbd!thread_unblock, thread_unblock, Kbd!list_push, list_push, Kbd!elem_find, elem_find,
         Kbd!panic_spin, panic_spin, Kbd!Blocked, Blocked, Kbd!TASK_BLOCKED, TASK_BLOCKED,
         Kbd!TASK_WAITING, TASK_WAITING, Kbd!TASK_HANGING, TASK_HANGING, Kbd!TASK_READY, TASK_READY
<1>2. \A s, byte : Kbd!put_char(s, byte) = put_char(s, byte)
  BY <1>1 DEF Kbd!put_char, put_char, Kbd!next_pos, next_pos, Kbd!wakeup, wakeup
<1>3. \A s : Kbd!take_char(s) = take_char(s)
  BY <1>1 DEF Kbd!take_char, take_char, Kbd!next_pos, next_pos, Kbd!wakeup, wakeup
<1>4. \A q : (Kbd!ioq_empty(q) <=> ioq_empty(q)) /\ (Kbd!ioq_full(q) <=> ioq_full(q))
  BY DEF Kbd!ioq_empty, ioq_empty, Kbd!ioq_full, ioq_full, Kbd!next_pos, next_pos
<1>5. Kbd!ioqueue_init = ioqueue_init
  BY DEF Kbd!ioqueue_init, ioqueue_init, Kbd!Positions, Positions, Kbd!sema_init, sema_init
<1>6. \A n, i : Kbd!Later(n, i) = Later(n, i)  BY DEF Kbd!Later, Later
<1>7. \A q, out, in : Kbd!Holds(q, out, in) <=> Holds(q, out, in)
  BY <1>6 DEF Kbd!Holds, Holds, Kbd!ioq_length, ioq_length
<1> QED BY <1>2, <1>3, <1>4, <1>5, <1>6, <1>7

(***************************************************************************)
(* Its waits and wake-ups touch the lock and the consumer field only.      *)
(***************************************************************************)
LEMMA KbdWaits ==
  ASSUME NEW k, NEW q, DOMAIN q = Fields
  PROVE  /\ SameRing(q, Kbd!acquire_then_wait([k |-> k, q |-> q], "consumer").q)
         /\ SameRing(q, Kbd!release_after_wait([k |-> k, q |-> q]).q)
<1>1. ASSUME NEW l PROVE SameRing(q, [q EXCEPT !.lock = l])
  BY DEF SameRing, Fields
<1>2. ASSUME NEW l, NEW c PROVE SameRing(q, [[q EXCEPT !.lock = l] EXCEPT !["consumer"] = c])
  BY DEF SameRing, Fields
<1>3. SameRing(q, Kbd!release_after_wait([k |-> k, q |-> q]).q)
  BY <1>1 DEF Kbd!release_after_wait
<1>4. CASE q.lock.value = 0
  BY <1>1, <1>3, <1>4 DEF Kbd!acquire_then_wait
<1>5. CASE q.lock.value # 0
  <2> DEFINE s == Kbd!sema_take(k, q.lock)
             n == [k |-> s.k, q |-> [q EXCEPT !.lock = s.s]]
  <2>1. Kbd!acquire_then_wait([k |-> k, q |-> q], "consumer") = Kbd!ioq_wait(n, "consumer")
    BY <1>5 DEF Kbd!acquire_then_wait
  <2> HIDE DEF s
  <2>2. \/ Kbd!ioq_wait(n, "consumer").q = [q EXCEPT !.lock = s.s]
        \/ Kbd!ioq_wait(n, "consumer").q = [[q EXCEPT !.lock = s.s] EXCEPT !["consumer"] = s.k.cur]
    BY DEF Kbd!ioq_wait
  <2>3. SameRing(q, Kbd!ioq_wait(n, "consumer").q)
    <3> DEFINE a == [q EXCEPT !.lock = s.s]
               b == [a EXCEPT !["consumer"] = s.k.cur]
    <3>1. SameRing(q, a) /\ SameRing(q, b)  BY Zenon, <1>1, <1>2
    <3>2. Kbd!ioq_wait(n, "consumer").q = a \/ Kbd!ioq_wait(n, "consumer").q = b  BY <2>2
    <3> HIDE DEF a, b, n
    <3> QED BY <3>1, <3>2
  <2> QED BY <1>3, <2>1, <2>3
<1> QED BY <1>4, <1>5

KeysOK == Ring(kbd_buf, got, typed)

(***************************************************************************)
(* The keyboard's buffer never loses, repeats or reorders a key that       *)
(* intr_keyboard_handler stored, whoever reads and whenever a reader       *)
(* sleeps.  The argument does not use the scheduler: whatever thread runs, *)
(* a step that moves tail or head has tested the queue in the same step.   *)
(***************************************************************************)
THEOREM KeysInOrder == Kbd!Spec => []Kbd!InOrder
<1>1. Kbd!Init => KeysOK
  BY InitRing, KbdOperations DEF Kbd!Init, KeysOK
<1>2. KeysOK /\ [Kbd!Next]_(Kbd!vars) => KeysOK'
  <2> SUFFICES ASSUME KeysOK, [Kbd!Next]_(Kbd!vars) PROVE KeysOK'  OBVIOUS
  <2>1. Ring(kbd_buf, got, typed) /\ DOMAIN kbd_buf = Fields  BY DEF KeysOK, Ring
  <2>2. CASE UNCHANGED <<kbd_buf, typed, got>>
    BY <2>2 DEF KeysOK
  <2>3. ASSUME NEW t \in Threads, Kbd!sys_read(t) PROVE KeysOK'
    BY <2>2, <2>3 DEF Kbd!sys_read
  <2>4. ASSUME NEW t \in Threads, Kbd!GetChar(t) PROVE KeysOK'
    <3>1. /\ ~ioq_empty(kbd_buf) /\ got' = kbd_buf.buf[kbd_buf.tail] /\ typed' = typed
          /\ kbd_buf' = take_char([k |-> sched, q |-> kbd_buf]).q
      BY <2>4, KbdOperations DEF Kbd!GetChar, Kbd!Becomes, Kbd!Sys
    <3>2. Ring(take_char([k |-> sched, q |-> kbd_buf]).q, kbd_buf.buf[kbd_buf.tail], typed)
      BY <2>1, <3>1, TakeChar
    <3> QED BY <3>1, <3>2 DEF KeysOK
  <2>5. ASSUME NEW t \in Threads, Kbd!GetWaits(t) PROVE KeysOK'
    <3>1. /\ kbd_buf' = Kbd!acquire_then_wait([k |-> sched, q |-> kbd_buf], "consumer").q
          /\ UNCHANGED <<typed, got>>
      BY <2>5 DEF Kbd!GetWaits, Kbd!Becomes, Kbd!Sys
    <3>2. SameRing(kbd_buf, kbd_buf')  BY <2>1, <3>1, KbdWaits
    <3>3. Ring(kbd_buf', got, typed)  BY <2>1, <3>2, SameKeeps
    <3> QED BY <3>1, <3>3 DEF KeysOK
  <2>6. ASSUME NEW t \in Threads, Kbd!GetWoken(t) PROVE KeysOK'
    <3>1. /\ kbd_buf' = Kbd!release_after_wait([k |-> sched, q |-> kbd_buf]).q
          /\ UNCHANGED <<typed, got>>
      BY SMTT(20), <2>6 DEF Kbd!GetWoken, Kbd!Becomes, Kbd!Sys
    <3>2. SameRing(kbd_buf, kbd_buf')  BY <2>1, <3>1, KbdWaits
    <3>3. Ring(kbd_buf', got, typed)  BY <2>1, <3>2, SameKeeps
    <3> QED BY <3>1, <3>3 DEF KeysOK
  <2>7. CASE Kbd!intr_keyboard_handler
    <3>1. /\ ~ioq_full(kbd_buf) /\ typed' = Later(typed, 1) /\ got' = got
          /\ kbd_buf' = put_char([k |-> sched, q |-> kbd_buf], Later(typed, 1)).q
      BY SMTT(20), <2>7, KbdOperations DEF Kbd!intr_keyboard_handler, Kbd!Becomes, Kbd!Sys
    <3>2. Ring(put_char([k |-> sched, q |-> kbd_buf], Later(typed, 1)).q, got, Later(typed, 1))
      BY <2>1, <3>1, PutChar
    <3> QED BY <3>1, <3>2 DEF KeysOK
  <2>8. CASE Kbd!idle  BY <2>2, <2>8 DEF Kbd!idle
  <2>9. CASE Kbd!TimerTick  BY <2>2, <2>9 DEF Kbd!TimerTick
  <2>10. CASE UNCHANGED Kbd!vars  BY <2>2, <2>10 DEF Kbd!vars
  <2> QED BY <2>3, <2>4, <2>5, <2>6, <2>7, <2>8, <2>9, <2>10 DEF Kbd!Next, Kbd!Kernel
<1>3. KeysOK => Kbd!InOrder  BY KbdOperations DEF KeysOK, Ring, Kbd!InOrder
<1> QED BY <1>1, <1>2, <1>3, PTL DEF Kbd!Spec
=============================================================================
