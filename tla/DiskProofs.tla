----------------------------- MODULE DiskProofs -----------------------------
(***************************************************************************)
(* The disk: the arithmetic of partition_format (fs/fs.c) for a partition  *)
(* of any size that has room for the fixed parts, and any size of a        *)
(* sector; then the driver (device/ide.c) for any set of threads, any      *)
(* preemptible subset of them, any number of commands in a request and any *)
(* time limit.                                                             *)
(***************************************************************************)
EXTENDS Layout, Ide, ThreadProofs


(***************************************************************************)
(* DIV_ROUND_UP (kernel/global.h) is the least number of steps that covers *)
(* x.                                                                      *)
(***************************************************************************)
LEMMA RoundUp ==
  ASSUME NEW x \in Nat, NEW step \in Nat \ {0}
  PROVE  /\ DIV_ROUND_UP(x, step) \in Nat
         /\ x <= step * DIV_ROUND_UP(x, step)
         /\ step * DIV_ROUND_UP(x, step) < x + step
<1> DEFINE y == x + step - 1
           q == y \div step
<1>1. y \in Nat  OBVIOUS
<1>2. q \in Nat /\ y = step * q + (y % step) /\ (y % step) \in 0 .. (step - 1)
  BY <1>1
<1>3. step * q \in Nat  BY <1>2
<1>4. q = DIV_ROUND_UP(x, step)  BY DEF DIV_ROUND_UP
<1> QED BY <1>2, <1>3, <1>4

(***************************************************************************)
(* Multiples of a step are ordered as their factors are, with a step to    *)
(* spare.  The code rounds to sectors twice and relies on it.              *)
(***************************************************************************)
LEMMA Cancel ==
  ASSUME NEW step \in Nat \ {0}, NEW a \in Nat, NEW b \in Nat,
         step * a < step * b + step
  PROVE  a <= b
<1> SUFFICES ASSUME a >= b + 1 PROVE FALSE  OBVIOUS
<1>1. PICK d \in Nat : a = b + 1 + d
  <2> WITNESS a - (b + 1) \in Nat
  <2> QED OBVIOUS
<1>2. step * a = step * b + step + step * d  BY <1>1
<1>3. step * d \in Nat /\ step * b \in Nat  BY <1>1
<1> QED BY <1>2, <1>3

(***************************************************************************)
(* Rounding up keeps the order.                                            *)
(***************************************************************************)
LEMMA RoundUpMonotone ==
  ASSUME NEW x \in Nat, NEW y \in Nat, x <= y, NEW step \in Nat \ {0}
  PROVE  DIV_ROUND_UP(x, step) <= DIV_ROUND_UP(y, step)
<1> DEFINE a == DIV_ROUND_UP(x, step)
           b == DIV_ROUND_UP(y, step)
<1>1. a \in Nat /\ step * a < x + step  BY RoundUp
<1>2. b \in Nat /\ y <= step * b  BY RoundUp
<1> HIDE DEF a, b
<1>3. step * a \in Nat /\ step * b \in Nat  BY <1>1, <1>2
<1>4. step * a < step * b + step  BY <1>1, <1>2, <1>3
<1>5. a <= b  BY <1>1, <1>2, <1>4, Cancel
<1> QED BY <1>5 DEF a, b

(***************************************************************************)
(* The fixed parts of a partition have a size.                             *)
(***************************************************************************)
LEMMA FixedParts ==
  /\ BITS_PER_SECTOR \in Nat \ {0}
  /\ inode_bitmap_sects \in Nat
  /\ inode_table_sects \in Nat
  /\ used_sects \in Nat
<1>1. BITS_PER_SECTOR \in Nat \ {0}
  BY LayoutAssumption DEF BITS_PER_SECTOR
<1>2. INODE_SIZE * MAX_FILES_PER_PART \in Nat  BY LayoutAssumption
<1>3. inode_bitmap_sects \in Nat
  BY <1>1, RoundUp, LayoutAssumption DEF inode_bitmap_sects
<1>4. inode_table_sects \in Nat
  BY <1>2, RoundUp, LayoutAssumption DEF inode_table_sects
<1> QED BY <1>1, <1>3, <1>4 DEF used_sects

(***************************************************************************)
(* The first estimate of the bitmap is not larger than what it covers, so  *)
(* the number of data blocks does not run below 0.                         *)
(***************************************************************************)
LEMMA BitLen ==
  ASSUME NEW sec_cnt \in Nat, used_sects <= sec_cnt
  PROVE  /\ free_sects(sec_cnt) \in Nat
         /\ block_bitmap_bit_len(sec_cnt) \in Nat
         /\ block_bitmap_bit_len(sec_cnt) <= free_sects(sec_cnt)
<1> DEFINE f == free_sects(sec_cnt)
           e == DIV_ROUND_UP(f, BITS_PER_SECTOR)
<1>1. f \in Nat  BY FixedParts DEF free_sects
<1> HIDE DEF f
<1>2. e \in Nat /\ BITS_PER_SECTOR * e < f + BITS_PER_SECTOR
  BY <1>1, FixedParts, RoundUp
<1> HIDE DEF e
<1>3. e <= f
  <2>1. BITS_PER_SECTOR * f >= f
    <3>1. PICK m \in Nat : BITS_PER_SECTOR = m + 1
      <4>1. BITS_PER_SECTOR - 1 \in Nat  BY FixedParts
      <4> QED BY <4>1, FixedParts
    <3>2. BITS_PER_SECTOR * f = m * f + f /\ m * f \in Nat  BY <1>1, <3>1
    <3> QED BY <1>1, <3>2
  <2>2. BITS_PER_SECTOR * e \in Nat /\ BITS_PER_SECTOR * f \in Nat
    BY <1>1, <1>2, FixedParts
  <2>3. BITS_PER_SECTOR * e < BITS_PER_SECTOR * f + BITS_PER_SECTOR
    BY <1>1, <1>2, <2>1, <2>2, FixedParts
  <2> QED BY <1>1, <1>2, <2>3, FixedParts, Cancel
<1>4. block_bitmap_bit_len(sec_cnt) = f - e
  BY DEF block_bitmap_bit_len, f, e
<1>5. f - e \in Nat /\ f - e <= f  BY <1>1, <1>2, <1>3
<1> QED BY <1>1, <1>4, <1>5 DEF f

(***************************************************************************)
(* partition_format computes the size of the block bitmap twice, and the   *)
(* second, smaller one is what the partition gets.  It has a bit for every *)
(* data block, and the parts and the data blocks stay inside the           *)
(* partition.                                                              *)
(***************************************************************************)
THEOREM PartsFit ==
  ASSUME NEW sec_cnt \in Nat, used_sects <= sec_cnt
  PROVE  /\ block_bitmap_bit_len(sec_cnt) <= BITS_PER_SECTOR * block_bitmap_sects(sec_cnt)
         /\ data_start_lba(sec_cnt) + block_bitmap_bit_len(sec_cnt) <= sec_cnt
<1> DEFINE f == free_sects(sec_cnt)
           e == DIV_ROUND_UP(f, BITS_PER_SECTOR)
           len == block_bitmap_bit_len(sec_cnt)
           sects == block_bitmap_sects(sec_cnt)
<1>1. f \in Nat /\ len \in Nat /\ len <= f  BY BitLen
<1>2. len = f - e  BY DEF block_bitmap_bit_len
<1>3. sects = DIV_ROUND_UP(len, BITS_PER_SECTOR)  BY DEF block_bitmap_sects
<1>4. f = sec_cnt - used_sects  BY DEF free_sects
<1>5. data_start_lba(sec_cnt) = used_sects + sects
  <2>1. sects \in Nat  BY <1>1, <1>3, FixedParts, RoundUp
  <2> HIDE DEF sects
  <2>2. data_start_lba(sec_cnt) = 2 + sects + inode_bitmap_sects + inode_table_sects
    BY DEF data_start_lba, inode_table_lba, inode_bitmap_lba, block_bitmap_lba, sects
  <2> QED BY <2>1, <2>2, FixedParts DEF used_sects
<1> HIDE DEF f, len, sects
<1>6. e \in Nat  BY <1>1, FixedParts, RoundUp
<1>7. sects \in Nat /\ len <= BITS_PER_SECTOR * sects
  BY <1>1, <1>3, FixedParts, RoundUp
<1>8. sects <= e  BY <1>1, <1>3, FixedParts, RoundUpMonotone
<1> HIDE DEF e
<1>9. data_start_lba(sec_cnt) + len <= sec_cnt
  BY <1>2, <1>4, <1>5, <1>6, <1>7, <1>8, FixedParts, <1>1
<1> QED BY <1>7, <1>9 DEF len, sects

(***************************************************************************)
(* The bits that partition_format leaves free are those of the data blocks *)
(* and one more: bit_idx <= block_bitmap_last_bit also clears the bit after *)
(* the last block.  No other bit of the bitmap's sectors is left free, and *)
(* the bit of the root directory is lost only with fewer than 8 blocks,    *)
(* when it is in the byte whose bits are cleared.                          *)
(***************************************************************************)
THEOREM FormattedBits ==
  ASSUME NEW sec_cnt \in Nat, used_sects <= sec_cnt
  PROVE  LET len == block_bitmap_bit_len(sec_cnt)
             end == BITS_PER_SECTOR * block_bitmap_sects(sec_cnt)
         IN  /\ \A b \in 1 .. len : b \notin formatted_block_bits(sec_cnt)
             /\ \A b \in (len + 1) .. (end - 1) : b \in formatted_block_bits(sec_cnt)
             /\ 0 \in formatted_block_bits(sec_cnt) <=> len >= 8
<1> DEFINE len == block_bitmap_bit_len(sec_cnt)
           sects == block_bitmap_sects(sec_cnt)
           last_byte == len \div 8
           last_bit == len % 8
           last_size == SECTOR_SIZE - (last_byte % SECTOR_SIZE)
           marked == formatted_block_bits(sec_cnt)
<1>1. marked = ({0} \cup ((8 * last_byte) .. (8 * (last_byte + last_size) - 1)))
                 \ ((8 * last_byte) .. (8 * last_byte + last_bit))
  BY DEF formatted_block_bits
<1>2. len \in Nat  BY BitLen
<1>3. sects \in Nat /\ BITS_PER_SECTOR * sects < len + BITS_PER_SECTOR
  BY <1>2, FixedParts, RoundUp DEF block_bitmap_sects
<1> HIDE DEF len, sects, marked
<1>4. last_byte \in Nat /\ last_bit \in 0 .. 7 /\ len = 8 * last_byte + last_bit
  BY <1>2
<1> HIDE DEF last_byte, last_bit
<1>5. last_size \in 1 .. SECTOR_SIZE
  BY <1>4, LayoutAssumption
<1>6. BITS_PER_SECTOR * sects <= 8 * (last_byte + last_size)
  <2> DEFINE s == last_byte \div SECTOR_SIZE
             r == last_byte % SECTOR_SIZE
  <2>1. s \in Nat /\ r \in 0 .. (SECTOR_SIZE - 1) /\ last_byte = SECTOR_SIZE * s + r
    BY <1>4, LayoutAssumption
  <2>2. last_size = SECTOR_SIZE - r  OBVIOUS
  <2> HIDE DEF s, r, last_size
  <2>3. SECTOR_SIZE * s \in Nat /\ SECTOR_SIZE * sects \in Nat
    BY <1>3, <2>1, LayoutAssumption
  <2>4. BITS_PER_SECTOR * sects = 8 * (SECTOR_SIZE * sects)
    BY <1>3, LayoutAssumption DEF BITS_PER_SECTOR
  <2>5. 8 * (SECTOR_SIZE * sects) < 8 * last_byte + 8 + 8 * SECTOR_SIZE
    BY <1>3, <1>4, <2>4, <2>3, LayoutAssumption DEF BITS_PER_SECTOR
  <2>6. SECTOR_SIZE * sects < SECTOR_SIZE * s + r + 1 + SECTOR_SIZE
    BY <2>1, <2>3, <2>5, LayoutAssumption
  <2>7. SECTOR_SIZE * (s + 1) = SECTOR_SIZE * s + SECTOR_SIZE
    BY <2>1, LayoutAssumption
  <2>8. SECTOR_SIZE * sects < SECTOR_SIZE * (s + 1) + SECTOR_SIZE
    BY <2>1, <2>3, <2>6, <2>7, LayoutAssumption
  <2>9. sects <= s + 1  BY <1>3, <2>1, <2>8, LayoutAssumption, Cancel
  <2>10. SECTOR_SIZE * sects <= SECTOR_SIZE * (s + 1)
    <3>1. PICK d \in Nat : s + 1 = sects + d
      <4>1. (s + 1) - sects \in Nat  BY <1>3, <2>1, <2>9
      <4> QED BY <1>3, <2>1, <4>1
    <3>2. SECTOR_SIZE * (s + 1) = SECTOR_SIZE * sects + SECTOR_SIZE * d
      BY <1>3, <2>1, <3>1, LayoutAssumption
    <3>3. SECTOR_SIZE * d \in Nat  BY <3>1, LayoutAssumption
    <3> QED BY <2>3, <3>2, <3>3
  <2> QED BY <1>4, <2>1, <2>2, <2>3, <2>4, <2>7, <2>10, LayoutAssumption
<1> HIDE DEF last_size
<1> DEFINE bits == BITS_PER_SECTOR * sects
<1>7. bits \in Nat  BY <1>3, FixedParts
<1>8. bits <= 8 * (last_byte + last_size)  BY <1>6
<1> HIDE DEF bits
<1>9. \A b \in 1 .. len : b \notin marked
  BY <1>1, <1>2, <1>4, <1>5, LayoutAssumption
<1>10. \A b \in (len + 1) .. (bits - 1) : b \in marked
  BY <1>1, <1>2, <1>4, <1>5, <1>7, <1>8, LayoutAssumption
<1>11. 0 \in marked <=> len >= 8
  BY <1>1, <1>2, <1>4, <1>5, LayoutAssumption
<1> QED BY <1>9, <1>10, <1>11 DEF len, sects, marked, bits

-----------------------------------------------------------------------------
(***************************************************************************)
(* The invariant of the driver, IInv, is inductive.  Besides the scheduler *)
(* and the sleepers of the two semaphores it says, for each place the      *)
(* holder of the channel can be at, what the disk, its interrupt,          *)
(* expecting_intr and disk_done are then: the shared flag and the shared   *)
(* semaphore speak of the holder's command.                                *)
(***************************************************************************)
Labels ==
  {"user", "acquire", "lockwait", "expect", "cmd", "down", "donewait", "busy", "sleep",
   "transfer", "release"}

\* Where a thread holds the lock of the channel.
Inside == {"expect", "cmd", "down", "donewait", "busy", "sleep", "transfer", "release"}

Activities == {"idle", "reading", "data", "preparing", "room", "writing"}

DiskState == [st : Activities, irq : BOOLEAN, owner : Threads \cup {NULL}]

TypeInv ==
  /\ pc \in [Threads -> Labels] /\ pc[idle_thread] = "user"
  /\ lock \in Sema /\ disk_done \in Sema /\ expecting_intr \in BOOLEAN
  /\ disk \in DiskState
  /\ op \in [Threads -> {"read", "write"}]
  /\ time_limit = [t \in Threads |-> time_limit[t]]

(***************************************************************************)
(* The waiters of a semaphore s are blocked, and sleep at label.           *)
(***************************************************************************)
SleepersOK(k, s, p, label) ==
  /\ Distinct(s.waiters)
  /\ \A t \in Threads : elem_find(s.waiters, t) => p[t] = label /\ k.status[t] = TASK_BLOCKED

TokenOK(l, p) ==
  /\ \A t \in Threads : p[t] \in Inside => l.value = 0
  /\ \A t, u \in Threads : p[t] \in Inside /\ p[u] \in Inside => t = u

(***************************************************************************)
(* The state d of the disk, the flag e and the value v of disk_done:       *)
(* nothing goes on; a command is about to be sent; and a command is under  *)
(* way that passes from busy to done and is then interrupted for.          *)
(***************************************************************************)
Quiet(d, e, v) == d.st = "idle" /\ ~d.irq /\ ~e /\ v = 0

Armed(d, e, v) == d.st = "idle" /\ ~d.irq /\ e /\ v = 0

UnderWay(d, e, v, busy, done) ==
  \/ d.st = busy /\ ~d.irq /\ e /\ v = 0
  \/ d.st = done /\ d.irq /\ e /\ v = 0
  \/ d.st = done /\ ~d.irq /\ ~e /\ v = 1

(***************************************************************************)
(* What they are when the thread t is at label with a request o.           *)
(***************************************************************************)
Phase(t, label, o, d, e, v) ==
  /\ label \in {"expect", "release"} => Quiet(d, e, v)
  /\ label = "cmd" => Armed(d, e, v)
  /\ label \in {"down", "donewait"} =>
       /\ d.owner = t
       /\ o = "read" => UnderWay(d, e, v, "reading", "data")
       /\ o = "write" => UnderWay(d, e, v, "writing", "idle")
  /\ label \in {"busy", "sleep", "transfer"} =>
       /\ d.owner = t /\ ~d.irq /\ v = 0
       /\ o = "read" => d.st = "data" /\ ~e
       /\ o = "write" => d.st \in {"preparing", "room"} /\ e
       /\ label = "transfer" => d.st # "preparing"

PhaseOK(p, o, d, e, v) ==
  /\ \A t \in Threads : Phase(t, p[t], o[t], d, e, v)
  /\ (\A t \in Threads : p[t] \notin Inside) => Quiet(d, e, v)

Working ==
  /\ TypeInv
  /\ Good(sched)
  /\ SleepersOK(sched, lock, pc, "lockwait")
  /\ SleepersOK(sched, disk_done, pc, "donewait")
  /\ TokenOK(lock, pc)
  /\ PhaseOK(pc, op, disk, expecting_intr, disk_done.value)

TimedOut == ~Up /\ \E t \in Threads : pc[t] = "busy" /\ time_limit[t] = 0

IInv == Working \/ TimedOut

-----------------------------------------------------------------------------
(***************************************************************************)
(* Only the holder's place matters to the channel: a step after which the  *)
(* holder t is still inside keeps the token and the phase if it keeps its  *)
(* own.                                                                    *)
(***************************************************************************)
LEMMA HolderMoves ==
  ASSUME NEW l, NEW p, TokenOK(l, p), NEW t \in Threads, p[t] \in Inside,
         NEW q, q[t] \in Inside, \A u \in Threads \ {t} : q[u] = p[u],
         NEW o, NEW d, NEW e, NEW v, Phase(t, q[t], o[t], d, e, v)
  PROVE  TokenOK(l, q) /\ PhaseOK(q, o, d, e, v)
<1>1. \A u \in Threads \ {t} : q[u] \notin Inside  BY DEF TokenOK
<1>2. \A u \in Threads \ {t} : Phase(u, q[u], o[u], d, e, v)
  BY <1>1 DEF Phase, Inside
<1> QED BY <1>1, <1>2 DEF TokenOK, PhaseOK

(***************************************************************************)
(* A thread that stays outside does not matter to the channel.             *)
(***************************************************************************)
LEMMA OutsiderMoves ==
  ASSUME NEW l, NEW p, TokenOK(l, p), NEW t \in Threads, p[t] \notin Inside,
         NEW q, q[t] \notin Inside, \A u \in Threads \ {t} : q[u] = p[u],
         NEW o, NEW n, \A u \in Threads \ {t} : n[u] = o[u],
         NEW d, NEW e, NEW v, PhaseOK(p, o, d, e, v)
  PROVE  TokenOK(l, q) /\ PhaseOK(q, n, d, e, v)
<1>1. Phase(t, q[t], n[t], d, e, v)  BY DEF Phase, Inside
<1> QED BY <1>1 DEF TokenOK, PhaseOK

(***************************************************************************)
(* The initial state: nobody inside and nothing going on.                  *)
(***************************************************************************)
LEMMA IdeInit == Init => Working
<1> SUFFICES ASSUME Init PROVE Working  OBVIOUS
<1>1. /\ sched = thread_init(first, others) /\ pc = [t \in Threads |-> "user"]
      /\ lock = [value |-> 1, waiters |-> <<>>] /\ disk_done = [value |-> 0, waiters |-> <<>>]
      /\ expecting_intr = FALSE /\ disk = [st |-> "idle", irq |-> FALSE, owner |-> NULL]
      /\ op = [t \in Threads |-> "read"] /\ time_limit = [t \in Threads |-> 0]
  BY DEF Init, sema_init
<1>2. TypeInv
  <2>1. pc \in [Threads -> Labels] /\ pc[idle_thread] = "user"
    BY <1>1, ThreadAssumption DEF Labels
  <2>2. lock \in Sema /\ disk_done \in Sema  BY <1>1 DEF Sema
  <2>3. disk \in DiskState /\ expecting_intr \in BOOLEAN  BY Zenon, <1>1 DEF DiskState, Activities
  <2>4. op \in [Threads -> {"read", "write"}]  BY <1>1
  <2>5. time_limit = [t \in Threads |-> time_limit[t]]  BY <1>1
  <2> QED BY <2>1, <2>2, <2>3, <2>4, <2>5 DEF TypeInv
<1>3. Good(sched)  BY <1>1, ThreadInit, IdeAssumption
<1>4. SleepersOK(sched, lock, pc, "lockwait") /\ SleepersOK(sched, disk_done, pc, "donewait")
  BY <1>1 DEF SleepersOK, Distinct, elem_find
<1>5. TokenOK(lock, pc) /\ PhaseOK(pc, op, disk, expecting_intr, disk_done.value)
  BY <1>1 DEF TokenOK, PhaseOK, Phase, Quiet, Inside
<1> QED BY <1>2, <1>3, <1>4, <1>5 DEF Working

(***************************************************************************)
(* Every step of the driver, the handler, the disk and the clock keeps it, *)
(* unless busy_wait gives up.                                              *)
(***************************************************************************)
LEMMA IdeNext == Working /\ [Next]_vars => IInv'
<1> SUFFICES ASSUME Working, [Next]_vars PROVE IInv'  OBVIOUS
<1> USE DEF At, Goto, channel, request, timing
<1>0. "idle" \in Activities /\ "data" \in Activities /\ "room" \in Activities
      /\ "writing" \in Activities /\ disk \in DiskState
  BY DEF Activities, Working, TypeInv
<1>1. /\ pc \in [Threads -> Labels] /\ pc[idle_thread] = "user" /\ lock \in Sema
      /\ disk_done \in Sema /\ expecting_intr \in BOOLEAN /\ disk \in DiskState
      /\ op \in [Threads -> {"read", "write"}]
      /\ time_limit = [t \in Threads |-> time_limit[t]]
      /\ idle_thread \in Threads
  BY ThreadAssumption DEF Working, TypeInv
<1>2. /\ Good(sched) /\ SleepersOK(sched, lock, pc, "lockwait")
      /\ SleepersOK(sched, disk_done, pc, "donewait")
      /\ TokenOK(lock, pc) /\ PhaseOK(pc, op, disk, expecting_intr, disk_done.value)
  BY DEF Working
<1>3. /\ sched.cur \in Threads /\ sched.status[sched.cur] = TASK_RUNNING /\ sched.cpu = "up"
  BY <1>2, GoodLeaves, RecordForm DEF Good
<1>4. /\ Distinct(lock.waiters) /\ Distinct(disk_done.waiters)
      /\ \A u \in Threads : elem_find(lock.waiters, u) \/ elem_find(disk_done.waiters, u) =>
           /\ u # sched.cur /\ u # idle_thread /\ sched.status[u] = TASK_BLOCKED
  BY <1>1, <1>2, <1>3 DEF SleepersOK, TASK_RUNNING, TASK_BLOCKED
<1>5. lock.value \in {0, 1} /\ disk_done.value \in {0, 1}  BY <1>1 DEF Sema
<1>6. ASSUME NEW t \in Threads, NEW m \in Labels, pc' = [pc EXCEPT ![t] = m], t # idle_thread
      PROVE  /\ pc' \in [Threads -> Labels] /\ pc'[idle_thread] = "user" /\ pc'[t] = m
             /\ \A u \in Threads \ {t} : pc'[u] = pc[u]
  BY <1>1, <1>6
(* Steps that leave the scheduler and both semaphores alone. *)
<1>7. ASSUME NEW t \in Threads, sched.cur = t, t # idle_thread, NEW m \in Labels,
             pc' = [pc EXCEPT ![t] = m], UNCHANGED <<sched, lock, disk_done>>,
             expecting_intr' \in BOOLEAN, disk' \in DiskState,
             op' \in [Threads -> {"read", "write"}],
             time_limit' = [u \in Threads |-> time_limit'[u]],
             TokenOK(lock, pc'), PhaseOK(pc', op', disk', expecting_intr', disk_done.value)
      PROVE  Working'
  <2>1. TypeInv'  BY Zenon, <1>1, <1>6, <1>7 DEF TypeInv
  <2>2. /\ SleepersOK(sched, lock, pc', "lockwait")
        /\ SleepersOK(sched, disk_done, pc', "donewait")
    BY <1>2, <1>4, <1>6, <1>7 DEF SleepersOK
  <2> QED BY <1>2, <1>7, <2>1, <2>2 DEF Working
<1>8. ASSUME NEW t \in Threads, Request(t) PROVE Working'
  <2>1. /\ sched.cur = t /\ t # idle_thread /\ pc[t] = "user"
        /\ pc' = [pc EXCEPT ![t] = "acquire"]
        /\ UNCHANGED <<sched, lock, disk_done, expecting_intr, disk, time_limit>>
    BY <1>8 DEF Request
  <2>2. PICK o \in {"read", "write"} : op' = [op EXCEPT ![t] = o]  BY Zenon, <1>8 DEF Request
  <2>3. op' \in [Threads -> {"read", "write"}] /\ \A u \in Threads \ {t} : op'[u] = op[u]
    BY <1>1, <2>2
  <2>4. "acquire" \in Labels /\ "acquire" \notin Inside /\ pc[t] \notin Inside
    BY <2>1 DEF Labels, Inside
  <2>5. pc'[t] = "acquire" /\ \A u \in Threads \ {t} : pc'[u] = pc[u]  BY Zenon, <2>1, <2>4, <1>6
  <2>6. TokenOK(lock, pc') /\ PhaseOK(pc', op', disk, expecting_intr, disk_done.value)
    BY <1>2, <2>3, <2>4, <2>5, OutsiderMoves
  <2> QED BY Zenon, <1>1, <1>7, <2>1, <2>3, <2>4, <2>6
<1>9. ASSUME NEW t \in Threads, cmd_out_expect(t) PROVE Working'
  <2>1. /\ sched.cur = t /\ t # idle_thread /\ pc[t] = "expect"
        /\ pc' = [pc EXCEPT ![t] = "cmd"] /\ expecting_intr' = TRUE
        /\ UNCHANGED <<sched, lock, disk_done, disk, op, time_limit>>
    BY <1>9 DEF cmd_out_expect
  <2>2. "cmd" \in Labels /\ "cmd" \in Inside /\ pc[t] \in Inside  BY <2>1 DEF Labels, Inside
  <2>3. pc'[t] = "cmd" /\ \A u \in Threads \ {t} : pc'[u] = pc[u]  BY Zenon, <2>1, <2>2, <1>6
  <2>4. Phase(t, pc[t], op[t], disk, expecting_intr, disk_done.value)  BY <1>2 DEF PhaseOK
  <2>5. Phase(t, pc'[t], op[t], disk, TRUE, disk_done.value)
    BY Zenon, <2>1, <2>3, <2>4 DEF Phase, Quiet, Armed
  <2>6. TokenOK(lock, pc') /\ PhaseOK(pc', op, disk, TRUE, disk_done.value)
    BY Zenon, <1>2, <2>2, <2>3, <2>5, HolderMoves
  <2> QED BY Zenon, <1>1, <1>7, <2>1, <2>2, <2>6
<1>10. ASSUME NEW t \in Threads, cmd_out_send(t) PROVE Working'
  <2> DEFINE m == IF op[t] = "read" THEN "down" ELSE "busy"
             d == [st |-> IF op[t] = "read" THEN "reading" ELSE "preparing",
                   irq |-> FALSE, owner |-> t]
  <2>1. /\ sched.cur = t /\ t # idle_thread /\ pc[t] = "cmd"
        /\ pc' = [pc EXCEPT ![t] = m]
        /\ time_limit' = [time_limit EXCEPT ![t] = TimeLimit]
        /\ UNCHANGED <<sched, lock, disk_done, expecting_intr, op>>
    BY <1>10 DEF cmd_out_send
  <2>2. Phase(t, pc[t], op[t], disk, expecting_intr, disk_done.value)  BY <1>2 DEF PhaseOK
  <2>3. disk.st = "idle" /\ expecting_intr /\ disk_done.value = 0
    BY <2>1, <2>2 DEF Phase, Armed
  <2>4. disk' = d  BY <1>10, <2>3 DEF cmd_out_send, BSY
  <2>5. disk' \in DiskState  BY <2>4 DEF DiskState, Activities
  <2>6. m \in Labels /\ m \in Inside /\ pc[t] \in Inside  BY <2>1 DEF Labels, Inside
  <2>7. pc'[t] = m /\ \A u \in Threads \ {t} : pc'[u] = pc[u]
    <3> HIDE DEF m
    <3> QED BY Zenon, <2>1, <2>6, <1>6
  <2>8. Phase(t, pc'[t], op[t], disk', expecting_intr, disk_done.value)
    <3>1. op[t] \in {"read", "write"}  BY <1>1
    <3>2. disk'.st = (IF op[t] = "read" THEN "reading" ELSE "preparing") /\ disk'.irq = FALSE
          /\ disk'.owner = t
      BY <2>4
    <3>3. CASE op[t] = "read"  BY <2>3, <2>7, <3>2, <3>3 DEF Phase, UnderWay
    <3>4. CASE op[t] = "write"  BY <2>3, <2>7, <3>2, <3>4 DEF Phase
    <3> QED BY <3>1, <3>3, <3>4
  <2> HIDE DEF m, d
  <2>9. TokenOK(lock, pc') /\ PhaseOK(pc', op, disk', expecting_intr, disk_done.value)
    BY <1>2, <2>6, <2>7, <2>8, HolderMoves
  <2>10. time_limit' = [u \in Threads |-> time_limit'[u]]  BY <1>1, <2>1
  <2> QED BY Zenon, <1>1, <1>7, <2>1, <2>5, <2>6, <2>9, <2>10
<1>11. ASSUME NEW t \in Threads, Transfer(t) PROVE Working'
  <2>1. /\ sched.cur = t /\ t # idle_thread /\ pc[t] = "transfer"
        /\ UNCHANGED <<sched, lock, disk_done, expecting_intr, op, time_limit>>
    BY <1>11 DEF Transfer
  <2>2. pc[t] \in Inside /\ op[t] \in {"read", "write"}  BY <1>1, <2>1 DEF Inside
  <2>3. Phase(t, pc[t], op[t], disk, expecting_intr, disk_done.value)  BY <1>2 DEF PhaseOK
  <2>4. PICK m \in {"expect", "release", "down"} : pc' = [pc EXCEPT ![t] = m] /\
          ((op[t] = "read" /\ m # "down" /\ disk' = [disk EXCEPT !.st = "idle"]) \/
           (op[t] = "write" /\ m = "down" /\ disk' = [disk EXCEPT !.st = "writing"]))
    <3>1. CASE op[t] = "read"  BY <1>11, <3>1 DEF Transfer, CommandDone
    <3>2. CASE op[t] = "write"  BY <1>11, <3>2 DEF Transfer
    <3> QED BY <2>2, <3>1, <3>2
  <2>5. m \in Labels /\ m \in Inside  BY <2>4 DEF Labels, Inside
  <2>6. pc'[t] = m /\ \A u \in Threads \ {t} : pc'[u] = pc[u]  BY Zenon, <2>1, <2>4, <2>5, <1>6
  <2>7. disk' \in DiskState /\ Phase(t, pc'[t], op[t], disk', expecting_intr, disk_done.value)
    <3>1. CASE op[t] = "read"
      <4>1. disk' = [disk EXCEPT !.st = "idle"] /\ m \in {"expect", "release"}  BY <2>4, <3>1
      <4>2. disk' \in DiskState /\ disk'.st = "idle" /\ disk'.irq = disk.irq
        BY <1>0, <4>1 DEF DiskState
      <4>3. ~disk.irq /\ disk_done.value = 0 /\ ~expecting_intr  BY <2>1, <2>3, <3>1 DEF Phase
      <4>4. Quiet(disk', expecting_intr, disk_done.value)  BY <4>2, <4>3 DEF Quiet
      <4>5. pc'[t] \in {"expect", "release"}  BY <2>6, <4>1
      <4> QED BY <4>2, <4>4, <4>5 DEF Phase
    <3>2. CASE op[t] = "write"
      <4>1. disk' = [disk EXCEPT !.st = "writing"] /\ m = "down"  BY <2>4, <3>2
      <4>2. /\ disk' \in DiskState /\ disk'.st = "writing" /\ disk'.irq = disk.irq
            /\ disk'.owner = disk.owner
        BY <1>0, <4>1 DEF DiskState
      <4>3. ~disk.irq /\ disk_done.value = 0 /\ expecting_intr /\ disk.owner = t
        BY <2>1, <2>3, <3>2 DEF Phase
      <4>4. UnderWay(disk', expecting_intr, disk_done.value, "writing", "idle")
        BY <4>2, <4>3 DEF UnderWay
      <4> QED BY Zenon, <2>6, <3>2, <4>1, <4>2, <4>3, <4>4 DEF Phase
    <3> QED BY <2>2, <3>1, <3>2
  <2>8. TokenOK(lock, pc') /\ PhaseOK(pc', op, disk', expecting_intr, disk_done.value)
    BY <1>2, <2>2, <2>5, <2>6, <2>7, HolderMoves
  <2> QED BY Zenon, <1>1, <1>7, <2>1, <2>4, <2>5, <2>7, <2>8
<1>12. ASSUME NEW t \in Threads, busy_wait(t) PROVE IInv'
  <2> DEFINE limit == turn(time_limit[t])
  <2>1. /\ sched.cur = t /\ t # idle_thread /\ pc[t] = "busy"
        /\ time_limit' = [time_limit EXCEPT ![t] = limit]
        /\ UNCHANGED <<lock, disk_done, expecting_intr, disk, op>>
    BY <1>12 DEF busy_wait
  <2>2. Phase(t, pc[t], op[t], disk, expecting_intr, disk_done.value)  BY <1>2 DEF PhaseOK
  <2>3. pc[t] \in Inside /\ op[t] \in {"read", "write"}  BY <1>1, <2>1 DEF Inside
  <2>4. BSY \/ DRQ  BY <2>1, <2>2, <2>3 DEF Phase, BSY, DRQ
  <2>5. CASE limit = 0
    <3>1. sched' = panic_spin(sched) /\ pc' = pc  BY <1>12, <2>5 DEF busy_wait
    <3>2. time_limit'[t] = 0  BY <1>1, <2>1, <2>5
    <3>3. sched'.cpu = "panic"
      BY <1>2, <3>1, RecordForm DEF panic_spin, Good
    <3> QED BY <2>1, <3>1, <3>2, <3>3 DEF IInv, TimedOut, Up
  <2>6. CASE limit # 0
    <3>1. PICK m \in {"sleep", "transfer"} :
            sched' = sched /\ pc' = [pc EXCEPT ![t] = m] /\ (m = "transfer" => ~BSY)
      BY <1>12, <2>4, <2>6 DEF busy_wait
    <3>2. m \in Labels /\ m \in Inside  BY <3>1 DEF Labels, Inside
    <3>3. pc'[t] = m /\ \A u \in Threads \ {t} : pc'[u] = pc[u]  BY Zenon, <2>1, <3>1, <3>2, <1>6
    <3>4. Phase(t, pc'[t], op[t], disk, expecting_intr, disk_done.value)
      BY <2>1, <2>2, <3>1, <3>3 DEF Phase, BSY
    <3>5. TokenOK(lock, pc') /\ PhaseOK(pc', op, disk, expecting_intr, disk_done.value)
      BY <1>2, <2>3, <3>2, <3>3, <3>4, HolderMoves
    <3>6. time_limit' = [u \in Threads |-> time_limit'[u]]  BY <1>1, <2>1
    <3> HIDE DEF limit
    <3> QED BY Zenon, <1>1, <1>7, <2>1, <3>1, <3>2, <3>5, <3>6 DEF IInv
  <2> QED BY <2>5, <2>6
(* Steps that change nothing but which thread has the CPU. *)
<1>13. ASSUME Good(sched'), \A u \in Threads \ {sched.cur} : Same(sched, sched', u),
              UNCHANGED <<lock, disk_done, expecting_intr, disk, op, time_limit, pc>>
       PROVE  Working'
  <2>1. /\ SleepersOK(sched', lock, pc, "lockwait")
        /\ SleepersOK(sched', disk_done, pc, "donewait")
    BY <1>2, <1>4, <1>13 DEF SleepersOK, Same, Asleep, Blocked
  <2>2. TypeInv'  BY <1>1, <1>13 DEF TypeInv
  <2> QED BY <1>2, <1>13, <2>1, <2>2 DEF Working
<1>14. ASSUME NEW t \in Threads, mtime_sleep(t) PROVE Working'
  <2>1. /\ sched.cur = t /\ t # idle_thread /\ pc[t] = "sleep"
        /\ UNCHANGED <<lock, disk_done, expecting_intr, disk, op, time_limit>>
    BY <1>14 DEF mtime_sleep
  <2>2. CASE ~ticked[t]
    <3>1. sched' = thread_yield(sched) /\ pc' = pc  BY <1>14, <2>2 DEF mtime_sleep
    <3>2. Good(sched') /\ \A u \in Threads : Same(sched, sched', u)  BY <1>2, <3>1, YieldSame
    <3> QED BY <1>13, <2>1, <3>1, <3>2
  <2>3. CASE ticked[t]
    <3>1. sched' = sched /\ pc' = [pc EXCEPT ![t] = "busy"]  BY <1>14, <2>3 DEF mtime_sleep
    <3>2. "busy" \in Labels /\ "busy" \in Inside /\ pc[t] \in Inside
      BY <2>1 DEF Labels, Inside
    <3>3. pc'[t] = "busy" /\ \A u \in Threads \ {t} : pc'[u] = pc[u]  BY Zenon, <2>1, <3>1, <3>2, <1>6
    <3>4. Phase(t, pc[t], op[t], disk, expecting_intr, disk_done.value)  BY <1>2 DEF PhaseOK
    <3>5. Phase(t, pc'[t], op[t], disk, expecting_intr, disk_done.value)
      BY <2>1, <3>3, <3>4 DEF Phase
    <3>6. TokenOK(lock, pc') /\ PhaseOK(pc', op, disk, expecting_intr, disk_done.value)
      BY <1>2, <3>2, <3>3, <3>5, HolderMoves
    <3> QED BY Zenon, <1>1, <1>7, <2>1, <3>1, <3>2, <3>6
  <2> QED BY <2>2, <2>3
<1>15. ASSUME NEW t \in Threads, Acquire(t) PROVE Working'
  <2>1. /\ sched.cur = t /\ t # idle_thread /\ pc[t] \in {"acquire", "lockwait"}
        /\ UNCHANGED <<disk_done, expecting_intr, disk, op, time_limit>>
    BY <1>15 DEF Acquire
  <2>2. pc[t] \notin Inside  BY <2>1 DEF Inside
  <2>3. CASE lock.value = 0
    <3>1. /\ sched' = sema_wait(sched, lock).k /\ lock' = sema_wait(sched, lock).s
          /\ pc' = [pc EXCEPT ![t] = "lockwait"]
      BY <1>15, <2>3 DEF Acquire, sema_down
    <3>2. /\ sched' = thread_block(sched, TASK_BLOCKED)
          /\ lock' \in Sema /\ lock'.value = lock.value /\ Distinct(lock'.waiters)
          /\ \A u : elem_find(lock'.waiters, u) <=> u = t \/ elem_find(lock.waiters, u)
      BY <1>1, <1>3, <1>4, <2>1, <3>1, SemaWait
    <3>3. /\ Good(sched') /\ sched'.status[t] = TASK_BLOCKED
          /\ \A u \in Threads \ {t} : Same(sched, sched', u)
      BY <1>2, <2>1, <3>2, BlockSame DEF Blocked
    <3>4. "lockwait" \in Labels /\ "lockwait" \notin Inside  BY DEF Labels, Inside
    <3>5. /\ pc' \in [Threads -> Labels] /\ pc'[idle_thread] = "user" /\ pc'[t] = "lockwait"
          /\ \A u \in Threads \ {t} : pc'[u] = pc[u]
      BY Zenon, <2>1, <3>1, <3>4, <1>6
    <3>6. TypeInv'  BY <1>1, <2>1, <3>2, <3>5 DEF TypeInv
    <3>7. \A u \in Threads : elem_find(lock.waiters, u) \/ elem_find(disk_done.waiters, u) =>
            sched'.status[u] = TASK_BLOCKED /\ pc'[u] = pc[u]
      BY <1>4, <2>1, <3>3, <3>5 DEF Same, Asleep, Blocked
    <3>8. SleepersOK(sched', lock', pc', "lockwait")
      BY <1>2, <3>2, <3>3, <3>5, <3>7 DEF SleepersOK
    <3>9. SleepersOK(sched', disk_done, pc', "donewait")  BY <1>2, <3>7 DEF SleepersOK
    <3>10. TokenOK(lock, pc') /\ PhaseOK(pc', op, disk, expecting_intr, disk_done.value)
      BY <1>2, <2>2, <3>4, <3>5, OutsiderMoves
    <3>11. TokenOK(lock', pc')  BY <3>2, <3>10 DEF TokenOK
    <3> QED BY <2>1, <3>3, <3>6, <3>8, <3>9, <3>10, <3>11 DEF Working
  <2>4. CASE lock.value = 1
    <3>1. /\ sched' = sema_take(sched, lock).k /\ lock' = sema_take(sched, lock).s
          /\ pc' = [pc EXCEPT ![t] = "expect"]
      BY <1>15, <2>4 DEF Acquire, sema_down
    <3>2. /\ sched' = sched /\ lock' \in Sema /\ lock'.value = 0
          /\ lock'.waiters = lock.waiters
      BY <1>1, <2>4, <3>1, SemaTake
    <3>3. "expect" \in Labels /\ "expect" \in Inside  BY DEF Labels, Inside
    <3>4. /\ pc' \in [Threads -> Labels] /\ pc'[idle_thread] = "user" /\ pc'[t] = "expect"
          /\ \A u \in Threads \ {t} : pc'[u] = pc[u]
      BY Zenon, <2>1, <3>1, <3>3, <1>6
    <3>5. TypeInv'  BY <1>1, <2>1, <3>2, <3>4 DEF TypeInv
    <3>6. \A u \in Threads : elem_find(lock.waiters, u) \/ elem_find(disk_done.waiters, u) =>
            pc'[u] = pc[u]
      BY <1>4, <2>1, <3>4
    <3>7. SleepersOK(sched, lock', pc', "lockwait") /\ SleepersOK(sched, disk_done, pc', "donewait")
      BY <1>2, <3>2, <3>6 DEF SleepersOK
    <3>8. \A u \in Threads : pc[u] \notin Inside  BY <1>2, <2>4 DEF TokenOK
    <3>9. TokenOK(lock', pc')  BY <3>2, <3>4, <3>8 DEF TokenOK
    <3>10. Quiet(disk, expecting_intr, disk_done.value)  BY <1>2, <3>8 DEF PhaseOK
    <3>11. Phase(t, pc'[t], op[t], disk, expecting_intr, disk_done.value)
      BY <3>4, <3>10 DEF Phase
    <3>12. \A u \in Threads \ {t} : Phase(u, pc'[u], op[u], disk, expecting_intr, disk_done.value)
      BY <1>2, <3>4 DEF PhaseOK
    <3>13. PhaseOK(pc', op, disk, expecting_intr, disk_done.value)
      BY <3>10, <3>11, <3>12 DEF PhaseOK
    <3> QED BY <1>2, <2>1, <3>2, <3>5, <3>7, <3>9, <3>13 DEF Working
  <2> QED BY <1>5, <2>3, <2>4
<1>16. ASSUME NEW t \in Threads, Down(t) PROVE Working'
  <2>1. /\ sched.cur = t /\ t # idle_thread /\ pc[t] \in {"down", "donewait"}
        /\ UNCHANGED <<lock, expecting_intr, disk, op, time_limit>>
    BY <1>16 DEF Down
  <2>2. pc[t] \in Inside /\ op[t] \in {"read", "write"}  BY <1>1, <2>1 DEF Inside
  <2>3. Phase(t, pc[t], op[t], disk, expecting_intr, disk_done.value)  BY <1>2 DEF PhaseOK
  <2>4. CASE disk_done.value = 0
    <3>1. /\ sched' = sema_wait(sched, disk_done).k /\ disk_done' = sema_wait(sched, disk_done).s
          /\ pc' = [pc EXCEPT ![t] = "donewait"]
      BY <1>16, <2>4 DEF Down, sema_down
    <3>2. /\ sched' = thread_block(sched, TASK_BLOCKED)
          /\ disk_done' \in Sema /\ disk_done'.value = disk_done.value
          /\ Distinct(disk_done'.waiters)
          /\ \A u : elem_find(disk_done'.waiters, u) <=> u = t \/ elem_find(disk_done.waiters, u)
      BY Zenon, <1>1, <1>3, <1>4, <2>1, <3>1, SemaWait
    <3>3. /\ Good(sched') /\ sched'.status[t] = TASK_BLOCKED
          /\ \A u \in Threads \ {t} : Same(sched, sched', u)
      BY <1>2, <2>1, <3>2, BlockSame DEF Blocked
    <3>4. "donewait" \in Labels /\ "donewait" \in Inside  BY DEF Labels, Inside
    <3>5. /\ pc' \in [Threads -> Labels] /\ pc'[idle_thread] = "user" /\ pc'[t] = "donewait"
          /\ \A u \in Threads \ {t} : pc'[u] = pc[u]
      BY ZenonT(30), <2>1, <3>1, <3>4, <1>6
    <3>6. TypeInv'  BY <1>1, <2>1, <3>2, <3>5 DEF TypeInv
    <3>7. \A u \in Threads : elem_find(lock.waiters, u) \/ elem_find(disk_done.waiters, u) =>
            sched'.status[u] = TASK_BLOCKED /\ pc'[u] = pc[u]
      BY <1>4, <2>1, <3>3, <3>5 DEF Same, Asleep, Blocked
    <3>8. SleepersOK(sched', lock, pc', "lockwait")  BY <1>2, <3>7 DEF SleepersOK
    <3>9. SleepersOK(sched', disk_done', pc', "donewait")
      BY <1>2, <3>2, <3>3, <3>5, <3>7 DEF SleepersOK
    <3>10. Phase(t, pc'[t], op[t], disk, expecting_intr, disk_done'.value)
      BY <2>1, <2>3, <3>2, <3>5 DEF Phase
    <3>11. TokenOK(lock, pc') /\ PhaseOK(pc', op, disk, expecting_intr, disk_done'.value)
      BY <1>2, <2>2, <3>4, <3>5, <3>10, HolderMoves
    <3> QED BY <2>1, <3>3, <3>6, <3>8, <3>9, <3>11 DEF Working
  <2>5. CASE disk_done.value = 1
    <3>1. PICK m \in {"busy", "expect", "release"} :
            /\ sched' = sema_take(sched, disk_done).k /\ disk_done' = sema_take(sched, disk_done).s
            /\ pc' = [pc EXCEPT ![t] = m] /\ (op[t] = "read" <=> m = "busy")
      <4>1. CASE op[t] = "read"  BY <1>16, <2>5, <4>1 DEF Down, sema_down
      <4>2. CASE op[t] = "write"  BY <1>16, <2>5, <4>2 DEF Down, sema_down, CommandDone
      <4> QED BY <2>2, <4>1, <4>2
    <3>2. /\ sched' = sched /\ disk_done' \in Sema /\ disk_done'.value = 0
          /\ disk_done'.waiters = disk_done.waiters
      BY <1>1, <2>5, <3>1, SemaTake
    <3>3. m \in Labels /\ m \in Inside  BY <3>1 DEF Labels, Inside
    <3>4. /\ pc' \in [Threads -> Labels] /\ pc'[idle_thread] = "user" /\ pc'[t] = m
          /\ \A u \in Threads \ {t} : pc'[u] = pc[u]
      BY ZenonT(30), <2>1, <3>1, <3>3, <1>6
    <3>5. TypeInv'  BY <1>1, <2>1, <3>2, <3>4 DEF TypeInv
    <3>6. \A u \in Threads : elem_find(lock.waiters, u) \/ elem_find(disk_done.waiters, u) =>
            pc'[u] = pc[u]
      BY <1>4, <2>1, <3>4
    <3>7. SleepersOK(sched, lock, pc', "lockwait") /\ SleepersOK(sched, disk_done', pc', "donewait")
      BY <1>2, <3>2, <3>6 DEF SleepersOK
    <3>8. Phase(t, pc'[t], op[t], disk, expecting_intr, disk_done'.value)
      <4>1. CASE op[t] = "read"
        BY <2>1, <2>3, <2>5, <3>1, <3>2, <3>4, <4>1 DEF Phase, UnderWay
      <4>2. CASE op[t] = "write"
        BY <2>1, <2>3, <2>5, <3>1, <3>2, <3>4, <4>2 DEF Phase, UnderWay, Quiet
      <4> QED BY <2>2, <4>1, <4>2
    <3>9. TokenOK(lock, pc') /\ PhaseOK(pc', op, disk, expecting_intr, disk_done'.value)
      BY <1>2, <2>2, <3>3, <3>4, <3>8, HolderMoves
    <3> QED BY <1>2, <2>1, <3>2, <3>5, <3>7, <3>9 DEF Working
  <2> QED BY <1>5, <2>4, <2>5
<1>17. ASSUME NEW t \in Threads, Release(t) PROVE Working'
  <2>1. /\ sched.cur = t /\ t # idle_thread /\ pc[t] = "release"
        /\ sched' = sema_up(sched, lock).k /\ lock' = sema_up(sched, lock).s
        /\ pc' = [pc EXCEPT ![t] = "user"]
        /\ UNCHANGED <<disk_done, expecting_intr, disk, op, time_limit>>
    BY <1>17 DEF Release
  <2>2. pc[t] \in Inside /\ lock.value = 0 /\ \A u \in Threads \ {t} : pc[u] \notin Inside
    BY <1>2, <2>1 DEF TokenOK, Inside
  <2>3. /\ Good(sched') /\ lock' \in Sema /\ lock'.value = 1 /\ Distinct(lock'.waiters)
        /\ \A u \in Threads :
             /\ elem_find(lock'.waiters, u) =>
                  elem_find(lock.waiters, u) /\ sched'.status[u] = sched.status[u]
             /\ sched'.status[u] = sched.status[u] \/ elem_find(lock.waiters, u)
    BY <1>1, <1>2, <1>4, <2>1, <2>2, SemaUp
  <2>4. "user" \in Labels /\ "user" \notin Inside  BY DEF Labels, Inside
  <2>5. /\ pc' \in [Threads -> Labels] /\ pc'[idle_thread] = "user" /\ pc'[t] = "user"
        /\ \A u \in Threads \ {t} : pc'[u] = pc[u]
    BY ZenonT(30), <2>1, <2>4, <1>6
  <2>6. TypeInv'  BY SMTT(20), <1>1, <2>1, <2>3, <2>5 DEF TypeInv
  <2>7. SleepersOK(sched', lock', pc', "lockwait")
    BY <1>2, <1>4, <2>1, <2>3, <2>5 DEF SleepersOK
  <2>8. SleepersOK(sched', disk_done, pc', "donewait")
    BY <1>2, <1>4, <2>1, <2>3, <2>5 DEF SleepersOK
  <2>9. Phase(t, pc[t], op[t], disk, expecting_intr, disk_done.value)  BY <1>2 DEF PhaseOK
  <2>10. Quiet(disk, expecting_intr, disk_done.value)  BY <2>1, <2>9 DEF Phase
  <2>11. \A u \in Threads : pc'[u] \notin Inside  BY <2>2, <2>4, <2>5
  <2>12. TokenOK(lock', pc') /\ PhaseOK(pc', op, disk, expecting_intr, disk_done.value)
    BY <2>10, <2>11 DEF TokenOK, PhaseOK, Phase, Inside
  <2> QED BY <2>1, <2>3, <2>6, <2>7, <2>8, <2>12 DEF Working
(* The holder, when there is one, is the thread the disk works for. *)
<1>18. ASSUME disk.irq \/ disk.st # "idle"
       PROVE  \E h \in Threads :
                pc[h] \in Inside /\ Phase(h, pc[h], op[h], disk, expecting_intr, disk_done.value)
  BY <1>2, <1>18 DEF PhaseOK, Quiet
<1>19. CASE intr_hd_handler
  <2>1. /\ disk.irq /\ disk' = [disk EXCEPT !.irq = FALSE]
        /\ UNCHANGED <<lock, op, time_limit, pc>>
    BY <1>19 DEF intr_hd_handler
  <2>2. PICK h \in Threads : /\ pc[h] \in Inside
                             /\ Phase(h, pc[h], op[h], disk, expecting_intr, disk_done.value)
    BY <1>18, <2>1
  <2>3. op[h] \in {"read", "write"}  BY <1>1
  <2>4. /\ pc[h] \in {"down", "donewait"} /\ expecting_intr /\ disk_done.value = 0
        /\ disk.st = (IF op[h] = "read" THEN "data" ELSE "idle") /\ disk.owner = h
    <3>1. pc[h] \in {"down", "donewait"}
      BY <2>1, <2>2 DEF Phase, Inside, Quiet, Armed
    <3> QED BY <2>1, <2>2, <2>3, <3>1 DEF Phase, UnderWay
  <2>5. /\ expecting_intr' = FALSE /\ sched' = sema_up(sched, disk_done).k
        /\ disk_done' = sema_up(sched, disk_done).s
    BY <1>19, <2>4 DEF intr_hd_handler
  <2>6. /\ Good(sched') /\ disk_done' \in Sema /\ disk_done'.value = 1
        /\ Distinct(disk_done'.waiters)
        /\ \A u \in Threads :
             /\ elem_find(disk_done'.waiters, u) =>
                  elem_find(disk_done.waiters, u) /\ sched'.status[u] = sched.status[u]
             /\ sched'.status[u] = sched.status[u] \/ elem_find(disk_done.waiters, u)
    BY <1>1, <1>2, <1>4, <2>4, <2>5, SemaUp
  <2>7. /\ disk' \in DiskState /\ disk'.irq = FALSE /\ disk'.st = disk.st
        /\ disk'.owner = disk.owner
    BY Zenon, <1>0, <2>1 DEF DiskState
  <2>8. TypeInv'  BY Zenon, <1>1, <2>1, <2>5, <2>6, <2>7 DEF TypeInv
  <2>9. SleepersOK(sched', lock, pc, "lockwait")
    BY <1>2, <2>6 DEF SleepersOK
  <2>10. SleepersOK(sched', disk_done', pc, "donewait")
    BY <1>2, <2>6 DEF SleepersOK
  <2>11. Phase(h, pc[h], op[h], disk', FALSE, 1)
    BY Zenon, <2>3, <2>4, <2>7 DEF Phase, UnderWay
  <2>12. PhaseOK(pc, op, disk', FALSE, 1)
    BY Zenon, <1>2, <2>2, <2>11, HolderMoves
  <2> QED BY Zenon, <1>2, <2>1, <2>5, <2>6, <2>8, <2>9, <2>10, <2>12 DEF Working, IInv
<1>20. CASE idle
  <2>1. /\ sched.cur = idle_thread /\ sched' = thread_block(sched, TASK_BLOCKED)
        /\ UNCHANGED <<lock, disk_done, expecting_intr, disk, op, time_limit, pc>>
    BY <1>20 DEF idle
  <2>2. Good(sched') /\ \A u \in Threads \ {sched.cur} : Same(sched, sched', u)
    BY <1>2, <2>1, BlockSame DEF Blocked
  <2> QED BY <1>13, <2>1, <2>2 DEF IInv
<1>21. CASE TimerTick
  <2>1. /\ sched' = intr_timer_handler(sched)
        /\ UNCHANGED <<lock, disk_done, expecting_intr, disk, op, time_limit, pc>>
    BY <1>21 DEF TimerTick
  <2>2. Good(sched') /\ \A u \in Threads : Same(sched, sched', u)  BY <1>2, <2>1, TimerSame
  <2> QED BY <1>13, <2>1, <2>2 DEF IInv
(* The disk's own steps, which the holder waits for. *)
<1>22. ASSUME NEW h \in Threads, pc[h] \in Inside, disk' \in DiskState,
              Phase(h, pc[h], op[h], disk', expecting_intr, disk_done.value),
              UNCHANGED <<sched, lock, disk_done, expecting_intr, op, time_limit, pc>>
       PROVE  Working'
  <2>1. TypeInv'  BY SMTT(20), <1>1, <1>22 DEF TypeInv
  <2>2. PhaseOK(pc, op, disk', expecting_intr, disk_done.value)  BY <1>2, <1>22, HolderMoves
  <2> QED BY <1>2, <1>22, <2>1, <2>2 DEF Working
<1>23. CASE Disk
  <2>1. UNCHANGED <<sched, lock, disk_done, expecting_intr, op, time_limit, pc>>
    BY <1>23 DEF Disk, DiskData, DiskRoom, DiskWritten
  <2>2. disk.st # "idle"  BY <1>23 DEF Disk, DiskData, DiskRoom, DiskWritten
  <2>3. PICK h \in Threads : /\ pc[h] \in Inside
                             /\ Phase(h, pc[h], op[h], disk, expecting_intr, disk_done.value)
    BY <1>18, <2>2
  <2>4. op[h] \in {"read", "write"}  BY <1>1
  <2>5. CASE DiskData
    <3>1. disk.st = "reading" /\ disk' = [disk EXCEPT !.st = "data", !.irq = TRUE]
      BY <2>5 DEF DiskData
    <3>2. /\ disk' \in DiskState /\ disk'.st = "data" /\ disk'.irq = TRUE
          /\ disk'.owner = disk.owner
      BY Zenon, <1>0, <3>1 DEF DiskState
    <3>3. /\ pc[h] \in {"down", "donewait"} /\ op[h] = "read" /\ expecting_intr
          /\ disk_done.value = 0 /\ disk.owner = h
      BY <2>3, <2>4, <3>1 DEF Phase, Inside, Quiet, Armed, UnderWay
    <3>4. Phase(h, pc[h], op[h], disk', expecting_intr, disk_done.value)
      BY Zenon, <3>2, <3>3 DEF Phase, UnderWay
    <3> QED BY <1>22, <2>1, <2>3, <3>2, <3>4 DEF IInv
  <2>6. CASE DiskRoom
    <3>1. disk.st = "preparing" /\ disk' = [disk EXCEPT !.st = "room"]  BY <2>6 DEF DiskRoom
    <3>2. /\ disk' \in DiskState /\ disk'.st = "room" /\ disk'.irq = disk.irq
          /\ disk'.owner = disk.owner
      BY <1>0, <3>1 DEF DiskState
    <3>3. /\ pc[h] \in {"busy", "sleep"} /\ op[h] = "write" /\ expecting_intr
          /\ disk_done.value = 0 /\ disk.owner = h /\ ~disk.irq
      BY <2>3, <2>4, <3>1 DEF Phase, Inside, Quiet, Armed, UnderWay
    <3>4. ~disk'.irq  BY <3>2, <3>3
    <3>5. Phase(h, pc[h], op[h], disk', expecting_intr, disk_done.value)
      BY Zenon, <3>2, <3>3, <3>4 DEF Phase
    <3> QED BY <1>22, <2>1, <2>3, <3>2, <3>5 DEF IInv
  <2>7. CASE DiskWritten
    <3>1. disk.st = "writing" /\ disk' = [disk EXCEPT !.st = "idle", !.irq = TRUE]
      BY <2>7 DEF DiskWritten
    <3>2. /\ disk' \in DiskState /\ disk'.st = "idle" /\ disk'.irq = TRUE
          /\ disk'.owner = disk.owner
      BY Zenon, <1>0, <3>1 DEF DiskState
    <3>3. /\ pc[h] \in {"down", "donewait"} /\ op[h] = "write" /\ expecting_intr
          /\ disk_done.value = 0 /\ disk.owner = h
      BY <2>3, <2>4, <3>1 DEF Phase, Inside, Quiet, Armed, UnderWay
    <3>4. Phase(h, pc[h], op[h], disk', expecting_intr, disk_done.value)
      BY Zenon, <3>2, <3>3 DEF Phase, UnderWay
    <3> QED BY <1>22, <2>1, <2>3, <3>2, <3>4 DEF IInv
  <2> QED BY <1>23, <2>5, <2>6, <2>7 DEF Disk
<1>24. CASE UNCHANGED vars
  BY <1>1, <1>2, <1>24 DEF vars, Working, TypeInv, IInv
<1> QED
  BY <1>8, <1>9, <1>10, <1>11, <1>12, <1>14, <1>15, <1>16, <1>17, <1>19, <1>20, <1>21, <1>23, <1>24
  DEF Next, Driver, IInv

(***************************************************************************)
(* When busy_wait has given up, panic_spin leaves nothing to happen.       *)
(***************************************************************************)
LEMMA GivenUp == TimedOut /\ [Next]_vars => TimedOut'
<1> SUFFICES ASSUME TimedOut, [Next]_vars PROVE TimedOut'  OBVIOUS
<1>1. ~Next
  BY DEF TimedOut, Next, Driver, Request, Acquire, cmd_out_expect, cmd_out_send, Down, busy_wait,
         mtime_sleep, Transfer, Release, At, intr_hd_handler, idle, TimerTick, Disk
<1>2. UNCHANGED vars  BY <1>1
<1> QED BY <1>2 DEF TimedOut, Up, vars, timing

(***************************************************************************)
(* Both together: the driver works or has given up.                        *)
(***************************************************************************)
LEMMA IdeInvariant == Spec => []IInv
<1>1. Init => IInv  BY IdeInit DEF IInv
<1>2. IInv /\ [Next]_vars => IInv'  BY IdeNext, GivenUp DEF IInv
<1> QED BY <1>1, <1>2, PTL DEF Spec

(***************************************************************************)
(* The driver panics only because the disk stayed busy until busy_wait's   *)
(* time limit was used up: none of the ASSERTs of sync.c and thread.c that *)
(* ide_read, ide_write and intr_hd_handler reach can fail, and whoever was *)
(* woken finds the data request bit set.                                   *)
(***************************************************************************)
THEOREM OnlyTheTimeout == Spec => []PanicsOnlyOnTimeout
<1>1. IInv => PanicsOnlyOnTimeout
  BY DEF IInv, Working, TimedOut, Good, PanicsOnlyOnTimeout, Up
<1> QED BY <1>1, IdeInvariant, PTL

(***************************************************************************)
(* Every sector that ide_read or ide_write moves belongs to the caller's   *)
(* own command, with the disk ready for it.                                *)
(***************************************************************************)
THEOREM OwnData == Spec => []DataIsOwn
<1>1. IInv => DataIsOwn
  <2> SUFFICES ASSUME Working, NEW t \in Threads, pc[t] = "transfer"
               PROVE  disk.owner = t /\ DRQ
    BY DEF IInv, TimedOut, DataIsOwn
  <2>1. Phase(t, pc[t], op[t], disk, expecting_intr, disk_done.value) /\ op[t] \in {"read", "write"}
    BY DEF Working, PhaseOK, TypeInv
  <2> QED BY <2>1 DEF Phase, DRQ
<1> QED BY <1>1, IdeInvariant, PTL

(***************************************************************************)
(* cmd_out finds the disk done with the command before, and so does the    *)
(* next holder of the channel: one command at a time.                      *)
(***************************************************************************)
THEOREM OneCommand == Spec => []DoneMeansDone
<1>1. IInv => DoneMeansDone
  <2> SUFFICES ASSUME Working, NEW t \in Threads, pc[t] \in {"cmd", "release"}
               PROVE  disk.st = "idle"
    BY DEF IInv, TimedOut, DoneMeansDone
  <2>1. Phase(t, pc[t], op[t], disk, expecting_intr, disk_done.value)
    BY DEF Working, PhaseOK
  <2> QED BY <2>1 DEF Phase, Quiet, Armed
<1> QED BY <1>1, IdeInvariant, PTL
=============================================================================
