------------------------------- MODULE Memory -------------------------------
(***************************************************************************)
(* kernel/memory.c: the pools of page frames, the bitmaps of virtual       *)
(* pages, the page tables and the heaps, as they are used by fork, exec,   *)
(* exit and wait.                                                          *)
(*                                                                         *)
(* The routines are operators on the memory state m, a record:             *)
(*                                                                         *)
(*   taken  the page frames marked in the bitmaps of the two pools         *)
(*   bits   the virtual pages marked in each address space's bitmap        *)
(*   pde    the frame of each page table of a process                      *)
(*   pte    the frame of each virtual page; absent pages are not in the    *)
(*          domain                                                         *)
(*   arena  the arena header at the start of a heap page                   *)
(*   free   the free_list of each block descriptor                         *)
(*   cpu    "up"; "full" after bitmap_scan failed its ASSERT, for it never *)
(*          returns -1 for a full bitmap; "panic" after any other ASSERT   *)
(*   ret    what the last routine returned                                 *)
(*                                                                         *)
(* A routine that is given a stopped m leaves it as it is, so the routines *)
(* compose as the calls do.  Frames and pages are numbers: the frames of   *)
(* the user pool follow those of the kernel pool.                          *)
(***************************************************************************)
EXTENDS Integers, SequencesExt

CONSTANTS
  NULL, kernel,
  Procs,            \* the processes, PCBs included that are not in use
  init_proc,
  KernelPages,      \* frames of the kernel pool, and pages of its heap
  UserPages,        \* frames of the user pool
  UserVaddrs,       \* pages of a process's address space; the last is its stack
  TableSize,        \* pages that a page table maps
  PG_SIZE,
  sizeof_arena,
  block_size,       \* the block sizes of the descriptors
  btmp_bytes_len,   \* the length of a process's bitmap of virtual pages
  Sizes,            \* the sizes that sys_malloc is called with
  Images,           \* the numbers of pages of the programs
  MaxMallocs        \* how often memory is allocated from a heap

Spaces  == Procs \cup {kernel}
Pool(s) == IF s = kernel THEN 0 .. KernelPages - 1
           ELSE KernelPages .. KernelPages + UserPages - 1
Length(s) == IF s = kernel THEN KernelPages ELSE UserVaddrs
StackPage == UserVaddrs - 1
Descs     == DOMAIN block_size

DIV_ROUND_UP(x, step) == (x + step - 1) \div step

ASSUME MemoryAssumption ==
  /\ init_proc \in Procs /\ kernel \notin Procs /\ NULL \notin Spaces
  /\ {KernelPages, UserPages, UserVaddrs, TableSize, PG_SIZE, sizeof_arena}
       \subseteq Nat \ {0}
  /\ \A i \in Descs : block_size[i] \in 1 .. PG_SIZE - sizeof_arena
  /\ btmp_bytes_len >= PG_SIZE
  /\ \A n \in Images : n < StackPage

VARIABLES
  mem,       \* the memory state
  status,    \* of a process: "none", "new" (not started), "live", "zombie"
  pages,     \* the kernel pages of its PCB, its bitmap and its page directory
  used,      \* the blocks that each address space's program has not freed
  lost,      \* kernel pages that are not given back: of failed forks, and of exits
  scanned,   \* the page and the frame main has found but not marked
  raced,     \* history: that frame was taken before main marked it
  mallocs    \* how often sys_malloc has been called

vars == <<mem, status, pages, used, lost, scanned, raced, mallocs>>

-----------------------------------------------------------------------------
Running(m) == m.cpu = "up"

Panic(m) == [m EXCEPT !.cpu = "panic", !.ret = NULL]

Full(m) == [m EXCEPT !.cpu = "full", !.ret = NULL]

Return(m, value) == [m EXCEPT !.ret = value]

\* Mutated: the run of free bits is not started again after a taken one.
bitmap_scan_counts_on(bits, len, cnt) ==
  LET free  == (0 .. len) \ bits
      start == Min(free)
      ends  == {n \in start + 1 .. len : Cardinality((start .. n) \cap free) = cnt}
  IN IF cnt = 1 THEN start
     ELSE IF ends = {} THEN NULL ELSE Min(ends) - cnt + 1

(***************************************************************************)
(* The first of cnt free bits in a row, of a bitmap with a free bit.  For  *)
(* a single bit the first free one is taken; the search for more goes on   *)
(* to the bit after the last, which is clear.                              *)
(***************************************************************************)
bitmap_scan(bits, len, cnt) ==
  LET free  == (0 .. len) \ bits
      start == Min(free)
      ends  == {n \in start + 1 .. len :
                  n - cnt + 1 >= start /\ n - cnt + 1 .. n \subseteq free}
  IN IF cnt = 1 THEN start
     ELSE IF ends = {} THEN NULL ELSE Min(ends) - cnt + 1

mark(m, s, start, cnt) ==
  IF start = NULL THEN Return(m, NULL)
  ELSE IF s # kernel /\ start >= StackPage THEN Panic(m)
  ELSE [m EXCEPT !.bits[s] = @ \cup (start .. start + cnt - 1), !.ret = start]

vaddr_get(m, s, cnt) ==
  IF ~Running(m) THEN m
  ELSE IF 0 .. Length(s) - 1 \subseteq m.bits[s] THEN Full(m)
  ELSE mark(m, s, bitmap_scan(m.bits[s], Length(s), cnt), cnt)

palloc(m, s) ==
  LET free == Pool(s) \ m.taken IN
    IF ~Running(m) THEN m
    ELSE IF free = {} THEN Full(m)
    ELSE [m EXCEPT !.taken = @ \cup {Min(free)}, !.ret = Min(free)]

(***************************************************************************)
(* The frame m.ret becomes page v of s.  A process's page table is made    *)
(* when it is missing; the kernel's are all made at boot.                  *)
(***************************************************************************)
set_pde(m, s, table, frame) ==
  IF Running(m) THEN [m EXCEPT !.pde[s] = (table :> m.ret) @@ @, !.ret = frame] ELSE m

set_pte(m, s, v) ==
  IF ~Running(m) THEN m
  ELSE IF v \in DOMAIN m.pte[s] THEN Panic(m)
  ELSE [m EXCEPT !.pte[s] = (v :> m.ret) @@ @]

page_table_add(m, s, v) ==
  IF s # kernel /\ v \div TableSize \notin DOMAIN m.pde[s]
    THEN set_pte(set_pde(palloc(m, kernel), s, v \div TableSize, m.ret), s, v)
    ELSE set_pte(m, s, v)

ReturnIfUp(m, value) == IF Running(m) THEN Return(m, value) ELSE m

map_pages(m, s, cnt) ==
  LET add(n, v) == page_table_add(palloc(n, s), s, v) IN
    IF m.ret = NULL \/ ~Running(m) THEN m
    ELSE ReturnIfUp(FoldLeft(add, m, [i \in 1 .. cnt |-> m.ret + i - 1]), m.ret)

malloc_page(m, s, cnt) == map_pages(vaddr_get(m, s, cnt), s, cnt)

get_a_page(m, s, v) ==
  page_table_add(palloc([m EXCEPT !.bits[s] = @ \cup {v}], s), s, v)

get_a_page_without_opvaddrbitmap(m, s, v) == page_table_add(palloc(m, s), s, v)

mfree_page(m, s, v, cnt) ==
  LET vs == v .. v + cnt - 1
      fs == {m.pte[s][w] : w \in vs}
  IN IF ~Running(m) THEN m
     ELSE IF ~(vs \subseteq DOMAIN m.pte[s]) \/ ~(fs \subseteq Pool(s)) THEN Panic(m)
     ELSE [m EXCEPT !.taken = @ \ fs, !.bits[s] = @ \ vs,
                    !.pte[s] = Restrict(@, DOMAIN @ \ vs)]

-----------------------------------------------------------------------------
(***************************************************************************)
(* The heaps.  A block is a page and its place in the page.                *)
(***************************************************************************)
blocks_per_arena(d) == (PG_SIZE - sizeof_arena) \div block_size[d]

PoolSize(s) == Cardinality(Pool(s)) * PG_SIZE

Blocks(v, d) == [i \in 1 .. blocks_per_arena(d) |-> <<v, i - 1>>]

add_arena(m, s, a) ==
  IF ~Running(m) \/ m.ret = NULL THEN m
  ELSE [m EXCEPT !.arena[s] = (m.ret :> a) @@ @,
                 !.free[s] = IF a.large THEN @
                             ELSE [@ EXCEPT ![a.desc[2]] = @ \o Blocks(m.ret, a.desc[2])],
                 !.ret = <<m.ret, 0>>]

malloc_large(m, s, size) ==
  LET cnt == DIV_ROUND_UP(size + sizeof_arena, PG_SIZE) IN
    add_arena(malloc_page(m, s, cnt), s, [desc |-> NULL, cnt |-> cnt, large |-> TRUE])

new_arena(m, s, d) ==
  add_arena(malloc_page(m, s, 1), s,
            [desc |-> <<s, d>>, cnt |-> blocks_per_arena(d), large |-> FALSE])

take_block(m, s, d) ==
  LET b == Head(m.free[s][d]) IN
    IF m.free[s][d] = <<>> THEN m
    ELSE [m EXCEPT !.free[s][d] = Tail(@), !.arena[s][b[1]].cnt = @ - 1, !.ret = b]

malloc_block(m, s, d) ==
  take_block(IF m.free[s][d] = <<>> THEN new_arena(m, s, d) ELSE m, s, d)

sys_malloc(m, s, size) ==
  IF size = 0 \/ size >= PoolSize(s) THEN Return(m, NULL)
  ELSE IF size > Max(Range(block_size)) THEN malloc_large(m, s, size)
  ELSE malloc_block(m, s, Min({d \in Descs : size <= block_size[d]}))

(***************************************************************************)
(* desc names the descriptor the arena was made for, which after a fork is *)
(* the parent's.                                                           *)
(***************************************************************************)
drop_arena(m, s, v, cnt) ==
  mfree_page([m EXCEPT !.arena[s] = Restrict(@, DOMAIN @ \ {v})], s, v, cnt)

\* Mutated: the empty arena's page is freed with its blocks still listed.
free_block_listed(m, s, b) ==
  LET v == b[1]
      d == m.arena[s][v].desc[2]
      n == [m EXCEPT !.free[s][d] = Append(@, b), !.arena[s][v].cnt = @ + 1]
  IN IF n.arena[s][v].cnt # blocks_per_arena(d) THEN n ELSE drop_arena(n, s, v, 1)

free_block(m, s, b) ==
  LET v == b[1]
      o == m.arena[s][v].desc[1]
      d == m.arena[s][v].desc[2]
      n == [m EXCEPT !.free[o][d] = Append(@, b), !.arena[s][v].cnt = @ + 1]
      own == ToSet(Blocks(v, d))
  IN IF n.arena[s][v].cnt # blocks_per_arena(d) THEN n
     ELSE IF ~(own \subseteq ToSet(n.free[o][d])) THEN Panic(n)
     ELSE drop_arena([n EXCEPT !.free[o][d] = SelectSeq(@, LAMBDA c : c \notin own)], s, v, 1)

sys_free(m, s, b) ==
  LET a == m.arena[s][b[1]] IN
    IF a.large THEN drop_arena(m, s, b[1], a.cnt) ELSE free_block(m, s, b)

-----------------------------------------------------------------------------
Nothing == << >>

NoPages == [pcb |-> NULL, bitmap |-> NULL, pgdir |-> NULL]

BitmapPages == DIV_ROUND_UP(btmp_bytes_len, PG_SIZE)

block_desc_init == [d \in Descs |-> <<>>]

mem_init ==
  [taken |-> {}, bits |-> [s \in Spaces |-> {}],
   pde |-> [p \in Procs |-> Nothing], pte |-> [s \in Spaces |-> Nothing],
   arena |-> [s \in Spaces |-> Nothing], free |-> [s \in Spaces |-> block_desc_init],
   cpu |-> "up", ret |-> NULL]

(***************************************************************************)
(* Several calls of get_kernel_pages, up to the first that fails.          *)
(***************************************************************************)
keep(m, vs) == [m |-> m, vs |-> Append(vs, m.ret)]

get_kernel_pages(m, counts) ==
  LET get(acc, cnt) == IF ~Running(acc.m) \/ NULL \in ToSet(acc.vs) THEN acc
                       ELSE keep(malloc_page(acc.m, kernel, cnt), acc.vs)
  IN FoldLeft(get, [m |-> m, vs |-> <<>>], counts)

(***************************************************************************)
(* thread_init: the pages that process_execute allocates for init (PCB,    *)
(* bitmap, page directory), and the PCB of idle.                           *)
(***************************************************************************)
thread_init == get_kernel_pages(mem_init, <<1, BitmapPages, 1, 1>>)

process_execute ==
  [pcb |-> thread_init.vs[1], bitmap |-> thread_init.vs[2], pgdir |-> thread_init.vs[3]]

IdlePage == thread_init.vs[4]

Init ==
  /\ mem = Return(thread_init.m, NULL)
  /\ status = [p \in Procs |-> IF p = init_proc THEN "new" ELSE "none"]
  /\ pages = [p \in Procs |-> IF p = init_proc THEN process_execute ELSE NoPages]
  /\ used = [s \in Spaces |-> {}]
  /\ lost = {}
  /\ scanned = NULL /\ raced = FALSE
  /\ mallocs = 0

(***************************************************************************)
(* main holds the lock of the kernel pool from vaddr_get on.  It runs with *)
(* interrupts on, and can be preempted there.                              *)
(***************************************************************************)
KernelLockFree == scanned = NULL

Commit(m) == mem' = Return(m, NULL)

-----------------------------------------------------------------------------
(***************************************************************************)
(* A program, or a process inside the kernel on behalf of one (inode_open  *)
(* allocates from the kernel's heap), allocates and frees.  Programs free  *)
(* what they have allocated themselves, once; a block from before a fork   *)
(* is left alone by the child.                                             *)
(***************************************************************************)
MayRun(s) == Running(mem) /\ IF s = kernel THEN KernelLockFree ELSE status[s] = "live"

Malloc(s, size) ==
  LET m == sys_malloc(mem, s, size) IN
    /\ MayRun(s) /\ mallocs < MaxMallocs
    /\ Commit(m)
    /\ used' = [used EXCEPT ![s] = IF m.ret = NULL THEN @ ELSE @ \cup {m.ret}]
    /\ mallocs' = mallocs + 1
    /\ UNCHANGED <<status, pages, lost, scanned, raced>>

Free(s, b) ==
  /\ MayRun(s) /\ b \in used[s]
  /\ Commit(sys_free(mem, s, b))
  /\ used' = [used EXCEPT ![s] = @ \ {b}]
  /\ UNCHANGED <<status, pages, lost, scanned, raced, mallocs>>

(***************************************************************************)
(* main allocates one page of the kernel's heap in two steps, before and   *)
(* after the bit of the frame is set.                                      *)
(***************************************************************************)
MainScan ==
  LET g == vaddr_get(mem, kernel, 1) IN
    /\ Running(mem) /\ KernelLockFree /\ mallocs < MaxMallocs
    /\ IF Running(g) /\ ~(Pool(kernel) \subseteq mem.taken)
         THEN Commit(g) /\ scanned' = <<g.ret, Min(Pool(kernel) \ mem.taken)>>
         ELSE Commit(Full(g)) /\ UNCHANGED scanned
    /\ mallocs' = mallocs + 1
    /\ UNCHANGED <<status, pages, used, lost, raced>>

MainSet ==
  LET v == scanned[1]
      f == scanned[2]
      m == page_table_add([mem EXCEPT !.taken = @ \cup {f}, !.ret = f], kernel, v)
  IN /\ Running(mem) /\ ~KernelLockFree
     /\ Commit([m EXCEPT !.arena[kernel] =
                  (v :> [desc |-> NULL, cnt |-> 1, large |-> TRUE]) @@ @])
     /\ used' = [used EXCEPT ![kernel] = @ \cup {<<v, 0>>}]
     /\ scanned' = NULL /\ raced' = (raced \/ f \in mem.taken)
     /\ UNCHANGED <<status, pages, lost, mallocs>>

-----------------------------------------------------------------------------
(***************************************************************************)
(* The stack of init; other processes inherit theirs.                      *)
(***************************************************************************)
start_process(p) ==
  /\ Running(mem) /\ status[p] = "new"
  /\ Commit(get_a_page(mem, p, StackPage))
  /\ status' = [status EXCEPT ![p] = "live"]
  /\ UNCHANGED <<pages, used, lost, scanned, raced, mallocs>>

\* Mutated: the child's bitmap of virtual pages is left clear.
copy_body_clear_bitmap(m, c, p) ==
  LET add(n, v) == get_a_page_without_opvaddrbitmap(n, c, v)
      n == [m EXCEPT !.arena[c] = m.arena[p], !.free[c] = block_desc_init]
  IN FoldLeft(add, n, SetToSortSeq(m.bits[p], <))

(***************************************************************************)
(* What the child gets from its parent: the bitmap, a copy of every page   *)
(* marked in it, the arenas in them, and empty free lists.                 *)
(***************************************************************************)
copy_body_stack3(m, c, p) ==
  LET add(n, v) == get_a_page_without_opvaddrbitmap(n, c, v)
      n == [m EXCEPT !.bits[c] = m.bits[p], !.arena[c] = m.arena[p],
                     !.free[c] = block_desc_init]
  IN FoldLeft(add, n, SetToSortSeq(m.bits[p], <))

sys_fork(p, c) ==
  \E got \in {get_kernel_pages(mem, <<1, 1, BitmapPages, 1>>)} :
    LET pcb == got.vs[1]
        buf_page == got.vs[2]
    IN /\ Running(mem) /\ KernelLockFree
       /\ status[p] = "live" /\ status[c] = "none"
       /\ IF NULL \in ToSet(got.vs) \/ ~Running(got.m)
            THEN /\ Commit(got.m)
                 /\ lost' = lost \cup (ToSet(got.vs) \ {NULL})
                 /\ UNCHANGED <<status, pages>>
            ELSE /\ Commit(mfree_page(copy_body_stack3(got.m, c, p), kernel, buf_page, 1))
                 /\ status' = [status EXCEPT ![c] = "live"]
                 /\ pages' = [pages EXCEPT ![c] = [pcb |-> pcb, bitmap |-> got.vs[3],
                                                   pgdir |-> got.vs[4]]]
                 /\ UNCHANGED lost
       /\ UNCHANGED <<used, scanned, raced, mallocs>>

(***************************************************************************)
(* exec maps the pages of the image that are not mapped and writes over    *)
(* the ones that are.  The program has freed what it had allocated.        *)
(***************************************************************************)
segment_load(m, p, n) ==
  LET load(a, v) == IF v \in DOMAIN a.pte[p] THEN a ELSE get_a_page(a, p, v)
      l == FoldLeft(load, m, [i \in 1 .. n |-> i - 1])
  IN [l EXCEPT !.arena[p] = Restrict(@, {v \in DOMAIN @ : v >= n})]

sys_execv(p, n) ==
  /\ Running(mem) /\ status[p] = "live" /\ used[p] = {}
  /\ Commit(segment_load(mem, p, n))
  /\ UNCHANGED <<status, pages, used, lost, scanned, raced, mallocs>>

\* Mutated: the page tables are not given back.
release_keeps_tables(m, p) ==
  [m EXCEPT !.taken = @ \ Range(m.pte[p]),
            !.pte[p] = Nothing, !.pde[p] = Nothing, !.bits[p] = {}, !.arena[p] = Nothing,
            !.free[p] = block_desc_init]

(***************************************************************************)
(* release_prog_resource gives back the frames of the process's pages and  *)
(* page tables; nobody walks those tables afterwards.  Of the bitmap it    *)
(* frees the whole pages of its length.                                    *)
(***************************************************************************)
release_user_pages(m, p) ==
  [m EXCEPT !.taken = @ \ (Range(m.pte[p]) \cup Range(m.pde[p])),
            !.pte[p] = Nothing, !.pde[p] = Nothing, !.bits[p] = {}, !.arena[p] = Nothing,
            !.free[p] = block_desc_init]

\* The pages of the bitmap that exit does not free: the length is rounded down.
KeptAtExit(p) ==
  pages[p].bitmap + btmp_bytes_len \div PG_SIZE .. pages[p].bitmap + BitmapPages - 1

sys_exit(p) ==
  /\ Running(mem) /\ status[p] = "live" /\ p # init_proc
  /\ Commit(mfree_page(release_user_pages(mem, p), kernel, pages[p].bitmap,
                       btmp_bytes_len \div PG_SIZE))
  /\ status' = [status EXCEPT ![p] = "zombie"]
  /\ used' = [used EXCEPT ![p] = {}]
  /\ lost' = lost \cup KeptAtExit(p)
  /\ UNCHANGED <<pages, scanned, raced, mallocs>>

\* Mutated: the page directory is not given back.
sys_wait_keeps_pgdir(p) ==
  /\ Running(mem) /\ status[p] = "zombie"
  /\ Commit(mfree_page(mem, kernel, pages[p].pcb, 1))
  /\ status' = [status EXCEPT ![p] = "none"]
  /\ pages' = [pages EXCEPT ![p] = NoPages]
  /\ UNCHANGED <<used, lost, scanned, raced, mallocs>>

(***************************************************************************)
(* The parent's sys_wait: thread_exit frees the page directory and the     *)
(* PCB.                                                                    *)
(***************************************************************************)
sys_wait(p) ==
  /\ Running(mem) /\ status[p] = "zombie"
  /\ Commit(mfree_page(mfree_page(mem, kernel, pages[p].pgdir, 1), kernel, pages[p].pcb, 1))
  /\ status' = [status EXCEPT ![p] = "none"]
  /\ pages' = [pages EXCEPT ![p] = NoPages]
  /\ UNCHANGED <<used, lost, scanned, raced, mallocs>>

Next ==
  \/ \E s \in Spaces : \/ \E size \in Sizes : Malloc(s, size)
                       \/ \E b \in used[s] : Free(s, b)
  \/ \E p \in Procs : \/ start_process(p) \/ sys_exit(p) \/ sys_wait(p)
                      \/ \E c \in Procs : sys_fork(p, c)
                      \/ \E n \in Images : sys_execv(p, n)
  \/ MainScan \/ MainSet

Spec == Init /\ [][Next]_vars

-----------------------------------------------------------------------------
(***************************************************************************)
(* A page frame is in one place: no two virtual pages or page tables, of   *)
(* the kernel or of any processes, share a frame, and the frames in use    *)
(* are the ones marked in the pools, so that palloc hands out none of them *)
(* again and none is lost.  palloc says that its scan and its setting of   *)
(* the bit have to be atomic (kernel/memory.c:127); the one place where    *)
(* they are not is page_table_add, which takes the frame of a page table   *)
(* without the lock that main holds, and may take the frame main has seen. *)
(***************************************************************************)
Places ==
  UNION {{<<"page", s, v>> : v \in DOMAIN mem.pte[s]} : s \in Spaces}
    \cup UNION {{<<"table", p, t>> : t \in DOMAIN mem.pde[p]} : p \in Procs}

FrameAt(place) ==
  IF place[1] = "page" THEN mem.pte[place[2]][place[3]] ELSE mem.pde[place[2]][place[3]]

FramesOwned ==
  Running(mem) /\ ~raced =>
    /\ {FrameAt(x) : x \in Places} = mem.taken
    /\ Cardinality(Places) = Cardinality(mem.taken)

(***************************************************************************)
(* The bitmap of an address space marks the pages that are mapped.  fork   *)
(* copies the pages that are marked, and would fault on one that is not    *)
(* mapped; malloc_page takes pages that are not marked, and would stop on  *)
(* one that is mapped.  It lies inside the address space.                  *)
(***************************************************************************)
VaddrAgrees ==
  Running(mem) => \A s \in Spaces :
    /\ mem.bits[s] = DOMAIN mem.pte[s] \cup
                       IF s = kernel /\ scanned # NULL THEN {scanned[1]} ELSE {}
    /\ s # kernel => Length(s) \notin mem.bits[s]
    /\ s # kernel /\ status[s] = "live" => StackPage \in mem.bits[s]

(***************************************************************************)
(* The heap of an address space: of the blocks of its own arenas each is   *)
(* either in use or on the free list of its descriptor, once; the arena    *)
(* counts the free ones and is given back with the last; no two blocks in  *)
(* use overlap, also after other blocks, forks, execs and exits came in    *)
(* between.                                                                *)
(***************************************************************************)
OwnArenas(s) == {v \in DOMAIN mem.arena[s] : ~mem.arena[s][v].large /\ mem.arena[s][v].desc[1] = s}

HeapPages(s) ==
  UNION {v .. v + (IF mem.arena[s][v].large THEN mem.arena[s][v].cnt - 1 ELSE 0) :
           v \in DOMAIN mem.arena[s]}

HeapOK ==
  Running(mem) => \A s \in Spaces :
    /\ \A v \in OwnArenas(s) :
         LET d == mem.arena[s][v].desc[2]
             blocks == ToSet(Blocks(v, d))
             free == blocks \cap ToSet(mem.free[s][d])
         IN /\ blocks \ free = {b \in used[s] : b[1] = v}
            /\ mem.arena[s][v].cnt = Cardinality(free) /\ free # blocks
    /\ \A d \in Descs : /\ IsInjective(mem.free[s][d])
                        /\ \A b \in ToSet(mem.free[s][d]) :
                             b[1] \in OwnArenas(s) /\ mem.arena[s][b[1]].desc[2] = d
    /\ \A b \in used[s] : b[1] \in DOMAIN mem.arena[s]
    /\ HeapPages(s) \subseteq DOMAIN mem.pte[s]

(***************************************************************************)
(* No ASSERT fails but the one of bitmap_scan on a full bitmap: pages are  *)
(* mapped and freed once.                                                  *)
(***************************************************************************)
StopsOnlyWhenFull == mem.cpu # "panic"

(***************************************************************************)
(* Every page of the kernel belongs to a process, to the heap or to idle,  *)
(* or was lost in one of two ways: a fork failed, or a process exited,     *)
(* which gives back the pages of its bitmap rounded down (wait_exit.c:65)  *)
(* where fork has taken them rounded up.                                   *)
(***************************************************************************)
ProcessPages(p) ==
  CASE status[p] = "none" -> {}
    [] status[p] = "zombie" -> {pages[p].pcb, pages[p].pgdir}
    [] OTHER -> {pages[p].pcb, pages[p].pgdir}
                  \cup (pages[p].bitmap .. pages[p].bitmap + BitmapPages - 1)

PagesAccounted ==
  Running(mem) =>
    DOMAIN mem.pte[kernel] = UNION {ProcessPages(p) : p \in Procs}
                               \cup HeapPages(kernel) \cup lost \cup {IdlePage}
=============================================================================
