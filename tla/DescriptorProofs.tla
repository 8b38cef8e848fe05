-------------------------- MODULE DescriptorProofs --------------------------
(***************************************************************************)
(* Descriptors, pipes and inodes as long as no two calls overlap and no    *)
(* file is shared, for any number of processes, files, entries and         *)
(* descriptors.                                                            *)
(*                                                                         *)
(* IInv is inductive.  It adds Calm to the invariant of FilesProofs: what  *)
(* DescriptorsOpen, PipesCounted and OneInodePerFile say, the entry and    *)
(* the file that a call which sleeps on the disk has chosen (SlotsOK,      *)
(* NamesOK), and why a standard input or output never refers to a pipe     *)
(* that is gone: the process has another descriptor of that pipe (StdOK),  *)
(* until it exits and closes them one after the other (ExitsOK).           *)
(***************************************************************************)
EXTENDS FilesProofs

\* An entry that a descriptor refers to is in use, and a file's by one only.
RefsOK ==
  /\ ~stopped
  /\ \A slot \in GlobalFds :
       /\ Refs(slot) # {} => file_table[slot].fd_inode # NULL
       /\ file_table[slot].fd_inode \in Objects => \A x, y \in Refs(slot) : x = y

\* The entry that a call has chosen is still its own.
SlotsOK ==
  \A p \in Procs :
    /\ call[p].op = "open" => file_table[call[p].slot].fd_inode = NULL
    /\ call[p].op = "create" =>
         /\ file_table[call[p].slot].fd_inode = call[p].obj /\ Refs(call[p].slot) = {}
         /\ inode[call[p].obj].i_no = call[p].no

\* The entry of a pipe counts the descriptors that refer to it.
PipesOK ==
  \A slot \in GlobalFds :
    file_table[slot].fd_inode = RING => file_table[slot].fd_pos = Cardinality(Refs(slot))

\* A standard input or output that is redirected is that of a pipe which the
\* process has open: sys_close closes no such descriptor.
StdOK ==
  \A p \in alive : \A fd \in {0, 1} :
    (fd_table[p][fd] # fd /\ call[p].op # "exit") =>
      \E x \in LocalFds : fd_table[p][x] = fd_table[p][fd] /\ fd_table[p][x] # -1 /\ is_pipe(p, x)

\* What an exiting process has closed so far.
ExitsOK ==
  \A p \in alive : call[p].op = "exit" =>
    \A fd \in LocalFds : fd < call[p].slot => fd_table[p][fd] = -1

\* A file has one inode in memory, with a name, counted for its entries, and
\* no call is about it.
InodesOK ==
  /\ \A a, b \in Objects :
       (elem_find(open_inodes, a) /\ elem_find(open_inodes, b) /\ inode[a].i_no = inode[b].i_no)
         => a = b
  /\ \A obj \in Objects : elem_find(open_inodes, obj) =>
       /\ inode[obj].i_no \in named
       /\ inode[obj].i_open_cnts = Cardinality(Holders(obj))
       /\ Holders(obj) # {}
       /\ \A p \in Procs : call[p].op \in {"open", "create", "unlink"} => inode[obj].i_no # call[p].no

\* Bitmap and directory agree but for the file that a call is about.
NamesOK ==
  /\ named \subseteq used
  /\ \A no \in used \ named : \E p \in Procs : call[p].op \in {"create", "unlink"} /\ call[p].no = no
  /\ \A p \in Procs :
       /\ call[p].op = "open" => call[p].no \in named
       /\ call[p].op \in {"create", "unlink"} => call[p].no \in used

Calm == RefsOK /\ SlotsOK /\ PipesOK /\ StdOK /\ ExitsOK /\ InodesOK /\ NamesOK

IInv == Inv /\ (~overlapped /\ ~shared => Calm)

-----------------------------------------------------------------------------
(***************************************************************************)
(* What it means that a descriptor refers to an entry of the file table.   *)
(***************************************************************************)
LEMMA RefsAre ==
  /\ \A s, q, fd : <<q, fd>> \in Refs(s) <=> q \in alive /\ fd \in LocalFds /\ fd_table[q][fd] = s
  /\ \A s : \A y \in Refs(s) : \E q \in alive, fd \in LocalFds : y = <<q, fd>>
BY DEF Refs

(***************************************************************************)
(* The same after a step.                                                  *)
(***************************************************************************)
LEMMA RefsAfter ==
  /\ \A s, q, fd : <<q, fd>> \in Refs(s)' <=> q \in alive' /\ fd \in LocalFds /\ fd_table'[q][fd] = s
  /\ \A s : \A y \in Refs(s)' : \E q \in alive', fd \in LocalFds : y = <<q, fd>>
BY DEF Refs

(***************************************************************************)
(* The descriptors of an entry can be counted.                             *)
(***************************************************************************)
LEMMA RefsFinite ==
  ASSUME TypeOK, NEW s
  PROVE  IsFiniteSet(Refs(s)) /\ Cardinality(Refs(s)) \in Nat
<1>1. IsFiniteSet(alive) /\ IsFiniteSet(LocalFds)  BY Zenon, FdsFinite DEF TypeOK
<1>2. IsFiniteSet(alive \X LocalFds)  BY Zenon, <1>1, FS_Product
<1>3. Refs(s) \in SUBSET (alive \X LocalFds)  BY Zenon DEF Refs
<1> QED BY Zenon, <1>2, <1>3, FS_Subset, FS_CardinalityType

\* Descriptors of p that were free now refer to slot.
Takes(p, slot) ==
  /\ UNCHANGED alive
  /\ \A q \in Procs : q # p => fd_table'[q] = fd_table[q]
  /\ \A x \in LocalFds : \/ fd_table'[p][x] = fd_table[p][x]
                         \/ fd_table[p][x] = -1 /\ fd_table'[p][x] = slot
  /\ \A x \in {0, 1} : fd_table'[p][x] = fd_table[p][x]

(***************************************************************************)
(* What pcb_fd_install changes.                                            *)
(***************************************************************************)
LEMMA InstallTakes ==
  ASSUME TypeOK, NEW p \in Procs, NEW slot \in GlobalFds, UNCHANGED alive, Installs(p, slot)
  PROVE  /\ Takes(p, slot)
         /\ \A x, y \in LocalFds :
              (fd_table[p][x] = -1 /\ fd_table'[p][x] = slot /\ fd_table[p][y] = -1 /\ fd_table'[p][y] = slot)
                => x = y
<1>1. fd_table \in [Procs -> FdTable] /\ fd_table[p] \in FdTable  BY Zenon DEF TypeOK, FdTable
<1>2. slot \in Int /\ slot # -1  BY DEF GlobalFds
<1>3. PICK fds : fds = fd_table[p]  OBVIOUS
<1>4. \/ fd_table' = fd_table
      \/ \E free \in LocalFds : fds[free] = -1 /\ fd_table' = [fd_table EXCEPT ![p] = [fds EXCEPT ![free] = slot]]
  <2>1. fds \in FdTable  BY Zenon, <1>1, <1>3
  <2>2. \/ pcb_fd_install(fds, slot) = fds
        \/ \E free \in LocalFds : fds[free] = -1 /\ pcb_fd_install(fds, slot) = [fds EXCEPT ![free] = slot]
    BY Zenon, <1>2, <2>1, Install
  <2>3. CASE fd_table' = [fd_table EXCEPT ![p] = pcb_fd_install(fds, slot)]
    BY Zenon, <1>1, <1>3, <2>2, <2>3
  <2> QED BY Zenon, <1>3, <2>3 DEF Installs
<1>5. CASE fd_table' = fd_table
  <2>1. Takes(p, slot)  BY Zenon, <1>5 DEF Takes
  <2> QED BY Zenon, <1>2, <1>5, <2>1
<1>6. ASSUME NEW free \in LocalFds, fds[free] = -1, fd_table' = [fd_table EXCEPT ![p] = [fds EXCEPT ![free] = slot]]
      PROVE  /\ Takes(p, slot)
             /\ \A x, y \in LocalFds :
                (fd_table[p][x] = -1 /\ fd_table'[p][x] = slot /\ fd_table[p][y] = -1 /\ fd_table'[p][y] = slot)
                  => x = y
  <2>1. free \in 0 .. (MAX_FILES_OPEN_PER_PROC - 1) /\ free \notin {0, 1}
        /\ {0, 1} \subseteq 0 .. (MAX_FILES_OPEN_PER_PROC - 1)
        /\ LocalFds \subseteq 0 .. (MAX_FILES_OPEN_PER_PROC - 1)
    BY FilesAssumption DEF LocalFds
  <2>2. \A q \in Procs : q # p => fd_table'[q] = fd_table[q]  BY Zenon, <1>1, <1>6
  <2>3. fd_table'[p] = [fds EXCEPT ![free] = slot]  BY Zenon, <1>1, <1>6
  <2>4. \A x \in 0 .. (MAX_FILES_OPEN_PER_PROC - 1) : fd_table'[p][x] = IF x = free THEN slot ELSE fd_table[p][x]
    BY Zenon, <1>1, <1>3, <2>3 DEF FdTable
  <2>5. /\ \A x \in LocalFds : fd_table'[p][x] = IF x = free THEN slot ELSE fd_table[p][x]
        /\ \A x \in {0, 1} : fd_table'[p][x] = fd_table[p][x]
    BY Zenon, <2>1, <2>4
  <2>6. Takes(p, slot)  BY Zenon, <1>3, <1>6, <2>2, <2>5 DEF Takes
  <2> QED BY Zenon, <1>2, <2>5, <2>6
<1> QED BY Zenon, <1>4, <1>5, <1>6

(***************************************************************************)
(* Which descriptors refer to which entry after that.                      *)
(***************************************************************************)
LEMMA RefsTaken ==
  ASSUME TypeOK, NEW p \in alive, NEW slot \in GlobalFds, Takes(p, slot), Refs(slot) = {}
  PROVE  /\ \A s \in GlobalFds : s # slot => Refs(s)' = Refs(s)
         /\ \A y \in Refs(slot)' : \E x \in LocalFds : y = <<p, x>> /\ fd_table[p][x] = -1 /\ fd_table'[p][x] = slot
<1>1. p \in Procs /\ alive \subseteq Procs /\ UNCHANGED alive  BY Zenon DEF TypeOK, Takes
<1>2. ASSUME NEW s \in GlobalFds, s # slot PROVE Refs(s)' = Refs(s)
  <2>1. \A q \in alive, fd \in LocalFds : fd_table'[q][fd] = s <=> fd_table[q][fd] = s
    <3> SUFFICES ASSUME NEW q \in alive, NEW fd \in LocalFds PROVE fd_table'[q][fd] = s <=> fd_table[q][fd] = s
      OBVIOUS
    <3>1. s # -1  BY Zenon, Constants
    <3>2. CASE q = p  BY Zenon, <1>2, <3>1, <3>2 DEF Takes
    <3>3. CASE q # p  BY Zenon, <1>1, <3>3 DEF Takes
    <3> QED BY Zenon, <3>2, <3>3
  <2>2. \A y \in Refs(s)' : y \in Refs(s)
    <3> SUFFICES ASSUME NEW y \in Refs(s)' PROVE y \in Refs(s)  OBVIOUS
    <3>1. PICK q \in alive, fd \in LocalFds : y = <<q, fd>>  BY Zenon, <1>1, RefsAfter
    <3>2. fd_table'[q][fd] = s  BY Zenon, <3>1, RefsAfter
    <3>3. fd_table[q][fd] = s  BY Zenon, <2>1, <3>2
    <3> QED BY Zenon, <3>1, <3>3, RefsAre
  <2>3. \A y \in Refs(s) : y \in Refs(s)'
    <3> SUFFICES ASSUME NEW y \in Refs(s) PROVE y \in Refs(s)'  OBVIOUS
    <3>1. PICK q \in alive, fd \in LocalFds : y = <<q, fd>>  BY Zenon, RefsAre
    <3>2. fd_table[q][fd] = s  BY Zenon, <3>1, RefsAre
    <3>3. fd_table'[q][fd] = s /\ q \in alive'  BY Zenon, <1>1, <2>1, <3>2
    <3> QED BY Zenon, <3>1, <3>3, RefsAfter
  <2> QED BY Zenon, <2>2, <2>3
<1>3. ASSUME NEW y \in Refs(slot)'
      PROVE  \E x \in LocalFds : y = <<p, x>> /\ fd_table[p][x] = -1 /\ fd_table'[p][x] = slot
  <2>1. PICK q \in alive, x \in LocalFds : y = <<q, x>>  BY Zenon, <1>1, RefsAfter
  <2>2. fd_table'[q][x] = slot  BY Zenon, <2>1, RefsAfter
  <2>3. fd_table[q][x] # slot  BY Zenon, RefsAre
  <2>4. q = p  BY Zenon, <1>1, <2>2, <2>3 DEF Takes
  <2> QED BY Zenon, <2>1, <2>2, <2>3, <2>4 DEF Takes
<1> QED BY Zenon, <1>2, <1>3

\* No process exits, before or after the step.
NobodyExits == \A q \in Procs : call[q].op # "exit" /\ call'[q].op # "exit"

(***************************************************************************)
(* A redirected standard input or output keeps its pipe.                   *)
(***************************************************************************)
LEMMA StdTaken ==
  ASSUME TypeOK, FdsOK, StdOK, NEW p \in alive, NEW slot \in GlobalFds, Takes(p, slot), Refs(slot) = {},
         \A s \in GlobalFds : s # slot => file_table'[s].fd_flag = file_table[s].fd_flag,
         NobodyExits
  PROVE  StdOK' /\ ExitsOK'
<1>1. p \in Procs /\ alive \subseteq Procs /\ UNCHANGED alive  BY Zenon DEF TypeOK, Takes
<1>2. ExitsOK'  BY Zenon, <1>1 DEF NobodyExits, ExitsOK
<1>3. ASSUME NEW q \in alive, NEW fd \in {0, 1}, fd_table'[q][fd] # fd
      PROVE  \E x \in LocalFds : /\ fd_table'[q][x] = fd_table'[q][fd] /\ fd_table'[q][x] # -1
                                 /\ is_pipe(q, x)'
  <2>1. fd_table'[q][fd] = fd_table[q][fd]
    <3>1. CASE q = p  BY Zenon, <3>1 DEF Takes
    <3>2. CASE q # p  BY Zenon, <1>1, <3>2 DEF Takes
    <3> QED BY Zenon, <3>1, <3>2
  <2>2. PICK x \in LocalFds : fd_table[q][x] = fd_table[q][fd] /\ fd_table[q][x] # -1 /\ is_pipe(q, x)
    BY Zenon, <1>1, <1>3, <2>1 DEF StdOK, NobodyExits
  <2>3. fd_table'[q][x] = fd_table[q][x]
    <3>1. CASE q = p  BY Zenon, <2>2, <3>1 DEF Takes
    <3>2. CASE q # p  BY Zenon, <1>1, <3>2 DEF Takes
    <3> QED BY Zenon, <3>1, <3>2
  <2>4. PICK s \in GlobalFds : s = fd_table[q][x]  BY <1>1, <2>2 DEF FdsOK
  <2>5. s # slot  BY Zenon, <2>4, RefsAre
  <2>6. is_pipe(q, x)'  BY Zenon, <2>2, <2>3, <2>4, <2>5 DEF is_pipe
  <2> QED BY Zenon, <2>1, <2>2, <2>3, <2>6
<1>4. StdOK'  BY Zenon, <1>1, <1>3 DEF StdOK
<1> QED BY Zenon, <1>2, <1>4

(***************************************************************************)
(* An entry that no descriptor refers to is put into use.                  *)
(***************************************************************************)
LEMMA EntryOpened ==
  ASSUME Good, Calm, NEW p \in alive, NEW slot \in GlobalFds, Takes(p, slot), Refs(slot) = {},
         \A s \in GlobalFds : s # slot => file_table'[s] = file_table[s],
         NobodyExits, UNCHANGED stopped,
         file_table'[slot].fd_inode # NULL,
         file_table'[slot].fd_inode \in Objects => \A x, y \in Refs(slot)' : x = y,
         file_table'[slot].fd_inode = RING => file_table'[slot].fd_pos = Cardinality(Refs(slot)')
  PROVE  RefsOK' /\ PipesOK' /\ StdOK' /\ ExitsOK'
<1>1. TypeOK /\ FdsOK /\ RefsOK /\ PipesOK /\ StdOK  BY Zenon DEF Good, Calm
<1>2. \A s \in GlobalFds : s # slot => Refs(s)' = Refs(s)  BY Zenon, <1>1, RefsTaken
<1>3. RefsOK'  BY ZenonT(30), <1>1, <1>2 DEF RefsOK
<1>4. PipesOK'  BY Zenon, <1>1, <1>2 DEF PipesOK
<1>5. StdOK' /\ ExitsOK'  BY Zenon, <1>1, StdTaken
<1> QED BY Zenon, <1>3, <1>4, <1>5

-----------------------------------------------------------------------------
\* The inodes but o are as before, and o is listed as it should be.
Moves(p, o) ==
  /\ \A x \in Objects : x # o =>
       /\ inode'[x].i_no = inode[x].i_no
       /\ inode'[x].i_open_cnts = inode[x].i_open_cnts
       /\ Holders(x)' = Holders(x)
       /\ elem_find(open_inodes', x) <=> elem_find(open_inodes, x)
  /\ elem_find(open_inodes', o) =>
       /\ inode'[o].i_no \in named'
       /\ inode'[o].i_open_cnts = Cardinality(Holders(o)')
       /\ Holders(o)' # {}
       /\ \A x \in Objects : x # o /\ elem_find(open_inodes, x) => inode[x].i_no # inode'[o].i_no

(***************************************************************************)
(* A step that ends a call, or begins none, and is about one inode.        *)
(***************************************************************************)
LEMMA InodesMove ==
  ASSUME InodesOK, NEW p \in Procs, NEW o \in Objects, Moves(p, o), named \subseteq named',
         \A q \in Procs : call'[q] = NoCall \/ call'[q].op \in {"none", "exit"}
  PROVE  InodesOK'
<1>1. \A q \in Procs : call'[q].op \notin {"open", "create", "unlink"}  BY DEF NoCall
<1>2. ASSUME NEW x \in Objects, elem_find(open_inodes', x)
      PROVE  /\ inode'[x].i_no \in named'
             /\ inode'[x].i_open_cnts = Cardinality(Holders(x)')
             /\ Holders(x)' # {}
  <2>1. CASE x = o  BY Zenon, <1>2, <2>1 DEF Moves
  <2>2. CASE x # o
    <3>1. elem_find(open_inodes, x)  BY Zenon, <1>2, <2>2 DEF Moves
    <3>2. inode[x].i_no \in named /\ inode[x].i_open_cnts = Cardinality(Holders(x)) /\ Holders(x) # {}
      BY Zenon, <3>1 DEF InodesOK
    <3>3. inode'[x].i_no = inode[x].i_no /\ inode'[x].i_open_cnts = inode[x].i_open_cnts
          /\ Holders(x)' = Holders(x)
      BY Zenon, <2>2 DEF Moves
    <3> QED BY Zenon, <3>2, <3>3
  <2> QED BY Zenon, <2>1, <2>2
<1>3. ASSUME NEW a \in Objects, NEW b \in Objects, elem_find(open_inodes', a), elem_find(open_inodes', b),
             inode'[a].i_no = inode'[b].i_no
      PROVE  a = b
  <2>1. CASE a # o /\ b # o
    <3>1. elem_find(open_inodes, a) /\ elem_find(open_inodes, b) /\ inode[a].i_no = inode[b].i_no
      BY Zenon, <1>3, <2>1 DEF Moves
    <3> QED BY Zenon, <3>1 DEF InodesOK
  <2>2. CASE a = o /\ b # o
    <3>1. elem_find(open_inodes, b) /\ inode'[b].i_no = inode[b].i_no  BY Zenon, <1>3, <2>2 DEF Moves
    <3>2. inode[b].i_no # inode'[o].i_no  BY Zenon, <1>3, <2>2, <3>1 DEF Moves
    <3> QED BY Zenon, <1>3, <2>2, <3>1, <3>2
  <2>3. CASE a # o /\ b = o
    <3>1. elem_find(open_inodes, a) /\ inode'[a].i_no = inode[a].i_no  BY Zenon, <1>3, <2>3 DEF Moves
    <3>2. inode[a].i_no # inode'[o].i_no  BY Zenon, <1>3, <2>3, <3>1 DEF Moves
    <3> QED BY Zenon, <1>3, <2>3, <3>1, <3>2
  <2> QED BY Zenon, <2>1, <2>2, <2>3
<1> QED BY Zenon, <1>1, <1>2, <1>3 DEF InodesOK

\* The inodes of the list were in it before, and are counted and held as before.
SameInodes ==
  \A x \in Objects : elem_find(open_inodes', x) =>
    /\ elem_find(open_inodes, x)
    /\ inode'[x].i_no = inode[x].i_no
    /\ inode'[x].i_open_cnts = inode[x].i_open_cnts
    /\ Holders(x)' = Holders(x)

(***************************************************************************)
(* A step that is about no inode in memory.                                *)
(***************************************************************************)
LEMMA InodesStay ==
  ASSUME InodesOK, SameInodes,
         \A x \in Objects : elem_find(open_inodes, x) =>
           /\ inode[x].i_no \in named'
           /\ \A q \in Procs : call'[q].op \in {"open", "create", "unlink"} => inode[x].i_no # call'[q].no
  PROVE  InodesOK'
<1>1. ASSUME NEW x \in Objects, elem_find(open_inodes', x)
      PROVE  /\ inode'[x].i_no \in named'
             /\ inode'[x].i_open_cnts = Cardinality(Holders(x)')
             /\ Holders(x)' # {}
             /\ \A q \in Procs : call'[q].op \in {"open", "create", "unlink"} => inode'[x].i_no # call'[q].no
  <2>1. /\ elem_find(open_inodes, x) /\ inode'[x].i_no = inode[x].i_no
        /\ inode'[x].i_open_cnts = inode[x].i_open_cnts /\ Holders(x)' = Holders(x)
    BY Zenon, <1>1 DEF SameInodes
  <2>2. inode[x].i_open_cnts = Cardinality(Holders(x)) /\ Holders(x) # {}
    BY Zenon, <2>1 DEF InodesOK
  <2> QED BY Zenon, <2>1, <2>2
<1>2. ASSUME NEW a \in Objects, NEW b \in Objects, elem_find(open_inodes', a), elem_find(open_inodes', b),
             inode'[a].i_no = inode'[b].i_no
      PROVE  a = b
  <2>1. elem_find(open_inodes, a) /\ elem_find(open_inodes, b) /\ inode[a].i_no = inode[b].i_no
    BY Zenon, <1>2 DEF SameInodes
  <2> QED BY Zenon, <2>1 DEF InodesOK
<1> QED BY Zenon, <1>1, <1>2 DEF InodesOK

-----------------------------------------------------------------------------
\* Nobody but p is in a call.
Lone(p) == \A q \in Procs : q # p => call[q] = NoCall /\ call'[q] = NoCall

(***************************************************************************)
(* A file gets an entry that no descriptor refers to, and a descriptor for *)
(* it if one is free.                                                      *)
(***************************************************************************)
LEMMA CalmEntry ==
  ASSUME Good, Calm, NEW p \in alive, NEW slot \in GlobalFds, NEW obj \in Objects,
         file_table'[slot].fd_inode = obj,
         \A s \in GlobalFds : s # slot => file_table'[s] = file_table[s],
         Refs(slot) = {}, Installs(p, slot), UNCHANGED <<alive, stopped>>, NobodyExits
  PROVE  RefsOK' /\ PipesOK' /\ StdOK' /\ ExitsOK'
<1>1. TypeOK /\ p \in Procs  BY Zenon DEF Good, TypeOK
<1>2. /\ Takes(p, slot)
      /\ \A x, y \in LocalFds :
           (fd_table[p][x] = -1 /\ fd_table'[p][x] = slot /\ fd_table[p][y] = -1 /\ fd_table'[p][y] = slot)
             => x = y
  BY Zenon, <1>1, InstallTakes
<1>3. ASSUME NEW y \in Refs(slot)', NEW z \in Refs(slot)' PROVE y = z
  <2>1. PICK a \in LocalFds : y = <<p, a>> /\ fd_table[p][a] = -1 /\ fd_table'[p][a] = slot
    BY ZenonT(30), <1>1, <1>2, RefsTaken
  <2>2. PICK b \in LocalFds : z = <<p, b>> /\ fd_table[p][b] = -1 /\ fd_table'[p][b] = slot
    BY ZenonT(30), <1>1, <1>2, RefsTaken
  <2>3. a = b  BY Zenon, <1>2, <2>1, <2>2
  <2> QED BY Zenon, <2>1, <2>2, <2>3
<1>4. obj # NULL /\ obj # RING  BY Zenon, Constants
<1> QED BY Zenon, <1>2, <1>3, <1>4, EntryOpened

(***************************************************************************)
(* A process in no call, or one that exits, has chosen no entry.           *)
(***************************************************************************)
LEMMA NoSlots ==
  ASSUME \A q \in Procs : call'[q] = NoCall \/ call'[q].op = "exit"
  PROVE  SlotsOK'
<1>1. \A q \in Procs : call'[q].op \notin {"open", "create"}  BY DEF NoCall
<1> QED BY Zenon, <1>1 DEF SlotsOK

(***************************************************************************)
(* A step that leaves descriptors, entries and inodes alone.               *)
(***************************************************************************)
LEMMA CalmDisk ==
  ASSUME Calm, UNCHANGED <<alive, fd_table, file_table, inode, open_inodes, stopped>>, NobodyExits,
         TypeOK, SlotsOK', NamesOK',
         \A x \in Objects : elem_find(open_inodes, x) =>
           /\ inode[x].i_no \in named'
           /\ \A q \in Procs : call'[q].op \in {"open", "create", "unlink"} => inode[x].i_no # call'[q].no
  PROVE  Calm'
<1>1. RefsOK /\ PipesOK /\ StdOK /\ InodesOK /\ alive \subseteq Procs  BY Zenon DEF Calm, TypeOK
<1>2. \A s : Refs(s)' = Refs(s)  BY Zenon DEF Refs
<1>3. RefsOK' /\ PipesOK'  BY Zenon, <1>1, <1>2 DEF RefsOK, PipesOK
<1>4. \A q \in alive : call[q].op # "exit" /\ call'[q].op # "exit"  BY Zenon, <1>1 DEF NobodyExits
<1>5. StdOK' /\ ExitsOK'  BY Zenon, <1>1, <1>4 DEF StdOK, ExitsOK, is_pipe
<1>6. SameInodes  BY Zenon DEF SameInodes, Holders
<1>7. InodesOK'  BY Zenon, <1>1, <1>6, InodesStay
<1> QED BY Zenon, <1>3, <1>5, <1>7 DEF Calm

(***************************************************************************)
(* Between calls every inode of the bitmap has a name.                     *)
(***************************************************************************)
LEMMA AllNamed ==
  ASSUME NamesOK, \A q \in Procs : call[q].op \notin {"create", "unlink"}
  PROVE  named = used
BY Zenon DEF NamesOK

(***************************************************************************)
(* sys_open of a file whose inode is in memory, and of one whose is not.   *)
(***************************************************************************)
LEMMA CalmOpen ==
  ASSUME Good, Calm, NEW p \in Procs, Lone(p), NEW no \in Inodes, NEW flag \in Flags, sys_open(p, no, flag)
  PROVE  Calm'
<1>1. /\ TypeOK /\ RefsOK /\ InodesOK /\ NamesOK /\ p \in alive /\ call[p] = NoCall /\ no \in named
      /\ UNCHANGED <<alive, open_inodes, used, named, stopped>>
  BY Zenon DEF Good, Calm, sys_open, Enters
<1>2. NoCall.op = "none"  BY DEF NoCall
<1>3. CASE Cached(no) # {}
  <2>1. PICK obj \in Objects, slot \in GlobalFds :
          /\ elem_find(open_inodes, obj) /\ inode[obj].i_no = no /\ file_table[slot].fd_inode = NULL
          /\ inode[obj].i_open_cnts \in Int
          /\ Entry(slot, obj) /\ Counts(obj, no, inode[obj].i_open_cnts + 1) /\ Installs(p, slot)
    BY Zenon, <1>1, <1>3, CachedOpened
  <2>2. UNCHANGED call  BY Zenon, <1>3 DEF sys_open
  <2>3. \A q \in Procs : call[q] = NoCall /\ call'[q] = NoCall  BY Zenon, <1>1, <2>2 DEF Lone
  <2>4. NobodyExits  BY <1>2, <2>3 DEF NobodyExits
  <2>5. Refs(slot) = {}  BY Zenon, <1>1, <2>1 DEF RefsOK
  <2>6. RefsOK' /\ PipesOK' /\ StdOK' /\ ExitsOK'
    BY Zenon, <1>1, <2>1, <2>4, <2>5, CalmEntry DEF Entry
  <2>7. \A x \in Objects : slot \notin Holders(x)  BY Zenon, <2>1, Constants DEF Holders
  <2>8. Moves(p, obj)
    <3>1. \A x \in Objects : x # obj =>
            /\ inode'[x].i_no = inode[x].i_no
            /\ inode'[x].i_open_cnts = inode[x].i_open_cnts
            /\ Holders(x)' = Holders(x)
            /\ elem_find(open_inodes', x) <=> elem_find(open_inodes, x)
      <4>1. \A x \in Objects : Holders(x) \ {slot} = Holders(x)  BY Zenon, <2>7
      <4> QED BY Zenon, <1>1, <2>1, <4>1 DEF Entry, Counts
    <3>2. /\ Holders(obj)' = Holders(obj) \cup {slot} /\ inode'[obj].i_no = no
          /\ inode'[obj].i_open_cnts = inode[obj].i_open_cnts + 1
      BY Zenon, <2>1 DEF Entry, Counts
    <3>3. Cardinality(Holders(obj) \cup {slot}) = Cardinality(Holders(obj)) + 1
      BY Zenon, <2>7, OneMoreHolder
    <3>4. inode[obj].i_open_cnts = Cardinality(Holders(obj))  BY Zenon, <2>1 DEF Calm, InodesOK
    <3>5. \A x \in Objects : x # obj /\ elem_find(open_inodes, x) => inode[x].i_no # inode[obj].i_no
      BY Zenon, <1>1, <2>1 DEF InodesOK
    <3>6. inode'[obj].i_open_cnts = Cardinality(Holders(obj)')  BY Zenon, <3>2, <3>3, <3>4
    <3> QED BY Zenon, <1>1, <2>1, <3>1, <3>2, <3>5, <3>6 DEF Moves
  <2>9. InodesOK'  BY Zenon, <1>1, <2>3, <2>8, InodesMove
  <2>10. SlotsOK'  BY Zenon, <2>3, NoSlots
  <2>11. NamesOK'  BY Zenon, <1>1, <2>2 DEF NamesOK
  <2> QED BY Zenon, <2>6, <2>9, <2>10, <2>11 DEF Calm
<1>4. CASE Cached(no) = {}
  <2>1. PICK slot \in GlobalFds :
          /\ file_table[slot].fd_inode = NULL
          /\ call' = [call EXCEPT ![p] = [NoCall EXCEPT !.op = "open", !.no = no, !.flag = flag, !.slot = slot]]
          /\ UNCHANGED <<file_table, inode, fd_table>>
    BY Zenon, <1>4, FreeFound DEF sys_open
  <2>2. call \in [Procs -> Call]  BY Zenon, <1>1 DEF TypeOK
  <2>3. /\ call'[p].op = "open" /\ call'[p].no = no /\ call'[p].slot = slot
        /\ \A q \in Procs : q # p => call'[q].op = "none"
    BY <1>2, <2>1, <2>2 DEF Lone, NoCall
  <2>4. \A q \in Procs : call[q].op = "none"  BY Zenon, <1>1, <1>2 DEF Lone
  <2>5. NobodyExits  BY <2>3, <2>4 DEF NobodyExits
  <2>6. SlotsOK'  BY <2>1, <2>3 DEF SlotsOK
  <2>7. named = used
    <3>1. \A q \in Procs : call[q].op \notin {"create", "unlink"}  BY <2>4
    <3> QED BY Zenon, <1>1, <3>1, AllNamed
  <2>8. NamesOK'  BY <1>1, <2>3, <2>7 DEF NamesOK
  <2>9. \A x \in Objects : elem_find(open_inodes, x) =>
          /\ inode[x].i_no \in named' /\ inode[x].i_no # no
    BY Zenon, <1>1, <1>4 DEF InodesOK, Cached, elem_find
  <2>10. \A x \in Objects : elem_find(open_inodes, x) =>
          /\ inode[x].i_no \in named'
          /\ \A q \in Procs : call'[q].op \in {"open", "create", "unlink"} => inode[x].i_no # call'[q].no
    BY <2>3, <2>9
  <2> QED BY Zenon, <1>1, <2>1, <2>5, <2>6, <2>8, <2>10, CalmDisk
<1> QED BY Zenon, <1>3, <1>4

(***************************************************************************)
(* The end of sys_open after the read: the entry is still free, and no     *)
(* inode with this number has come into memory.                            *)
(***************************************************************************)
LEMMA CalmRead ==
  ASSUME Good, Calm, NEW p \in Procs, Lone(p), inode_read(p)
  PROVE  Calm'
<1>1. /\ TypeOK /\ CallsOK /\ RefsOK /\ SlotsOK /\ InodesOK /\ NamesOK /\ call \in [Procs -> Call]
      /\ UNCHANGED <<alive, used, named, stopped>>
  BY Zenon DEF Good, Calm, TypeOK, inode_read
<1>2. PICK obj \in Objects, slot \in GlobalFds :
        /\ ~elem_find(open_inodes, obj) /\ Holders(obj) = {}
        /\ slot = call[p].slot /\ call[p].op = "open" /\ call' = [call EXCEPT ![p] = NoCall]
        /\ Entry(slot, obj) /\ Counts(obj, call[p].no, 1) /\ Installs(p, slot) /\ Lists(obj)
  BY Zenon, InodeRead
<1>3. p \in alive /\ file_table[slot].fd_inode = NULL /\ call[p].no \in named
  BY <1>1, <1>2 DEF CallsOK, SlotsOK, NamesOK
<1>4. Refs(slot) = {}  BY Zenon, <1>1, <1>3 DEF RefsOK
<1>5. \A q \in Procs : call'[q] = NoCall  BY Zenon, <1>1, <1>2 DEF Lone
<1>6. NobodyExits  BY <1>2, <1>5 DEF NobodyExits, Lone, NoCall
<1>7. RefsOK' /\ PipesOK' /\ StdOK' /\ ExitsOK'
  BY Zenon, <1>1, <1>2, <1>3, <1>4, <1>6, CalmEntry DEF Entry
<1>8. SlotsOK'  BY Zenon, <1>5, NoSlots
<1>9. Moves(p, obj)
  <2>1. \A x \in Objects : Holders(x) \ {slot} = Holders(x)  BY Zenon, <1>3, Constants DEF Holders
  <2>2. \A x \in Objects : x # obj =>
          /\ inode'[x].i_no = inode[x].i_no
          /\ inode'[x].i_open_cnts = inode[x].i_open_cnts
          /\ Holders(x)' = Holders(x)
          /\ elem_find(open_inodes', x) <=> elem_find(open_inodes, x)
    BY Zenon, <1>2, <2>1 DEF Entry, Counts, Lists
  <2>3. Holders(obj)' = {slot} /\ inode'[obj].i_no = call[p].no /\ inode'[obj].i_open_cnts = 1
    BY Zenon, <1>2 DEF Entry, Counts
  <2>4. Cardinality({slot}) = 1  BY Zenon, FS_Singleton
  <2>5. \A x \in Objects : x # obj /\ elem_find(open_inodes, x) => inode[x].i_no # call[p].no
    BY <1>1, <1>2 DEF InodesOK
  <2> QED BY Zenon, <1>1, <1>3, <2>2, <2>3, <2>4, <2>5 DEF Moves
<1>10. InodesOK'  BY Zenon, <1>1, <1>5, <1>9, InodesMove
<1>11. NamesOK'
  <2>1. \A q \in Procs : call[q].op \notin {"create", "unlink"}  BY <1>2 DEF Lone, NoCall
  <2>2. named = used  BY Zenon, <1>1, <2>1, AllNamed
  <2> QED BY <1>1, <1>5, <2>2 DEF NamesOK, NoCall
<1> QED BY Zenon, <1>7, <1>8, <1>10, <1>11 DEF Calm

(***************************************************************************)
(* file_create has an entry to which no descriptor refers yet, and the     *)
(* inode number it takes is that of no inode in memory.                    *)
(***************************************************************************)
LEMMA CalmCreate ==
  ASSUME Good, Calm, NEW p \in Procs, Lone(p), file_create(p)
  PROVE  Calm'
<1>1. /\ TypeOK /\ RefsOK /\ InodesOK /\ NamesOK
      /\ UNCHANGED <<alive, fd_table, open_inodes, named, stopped>>
  BY Zenon DEF Good, Calm, file_create
<1>2. PICK obj \in Objects, slot \in GlobalFds, no \in Inodes :
        /\ ~elem_find(open_inodes, obj) /\ Holders(obj) = {}
        /\ file_table[slot].fd_inode = NULL /\ no \notin used /\ used' = used \cup {no}
        /\ call[p] = NoCall /\ p \in alive
        /\ call'[p].op = "create" /\ call'[p].obj = obj /\ call'[p].slot = slot /\ call'[p].no = no
        /\ Entry(slot, obj) /\ Counts(obj, no, 0)
  BY Zenon, CreateStarted
<1>3. Refs(slot) = {}  BY Zenon, <1>1, <1>2 DEF RefsOK
<1>4. /\ \A q \in Procs : call[q].op = "none"
      /\ \A q \in Procs : q # p => call'[q].op = "none"
  BY <1>2 DEF Lone, NoCall
<1>5. NobodyExits  BY <1>2, <1>4 DEF NobodyExits
<1>6. Installs(p, slot)  BY Zenon, <1>1 DEF Installs
<1>7. RefsOK' /\ PipesOK' /\ StdOK' /\ ExitsOK'
  BY Zenon, <1>1, <1>2, <1>3, <1>5, <1>6, CalmEntry DEF Entry
<1>8. SlotsOK'
  <2>1. Refs(slot)' = {}  BY Zenon, <1>1, <1>3 DEF Refs
  <2>2. Refs(call[p].slot)' = Refs(slot)'  BY Zenon, <1>2 DEF Refs
  <2>3. file_table'[slot].fd_inode = obj /\ inode'[obj].i_no = no  BY Zenon, <1>2 DEF Entry, Counts
  <2>4. \A q \in Procs : call'[q].op = "create" => q = p  BY <1>4
  <2>5. \A q \in Procs : call'[q].op # "open"  BY <1>2, <1>4
  <2> QED BY Zenon, <1>2, <2>1, <2>2, <2>3, <2>4, <2>5 DEF SlotsOK
<1>9. InodesOK'
  <2>1. \A x \in Objects : Holders(x) \ {slot} = Holders(x)  BY Zenon, <1>2, Constants DEF Holders
  <2>2. \A x \in Objects : elem_find(open_inodes, x) =>
          /\ inode[x].i_no \in named' /\ inode[x].i_no # no /\ x # obj
    BY Zenon, <1>1, <1>2 DEF InodesOK, NamesOK
  <2>3. \A x \in Objects : x # obj =>
          /\ inode'[x].i_no = inode[x].i_no
          /\ inode'[x].i_open_cnts = inode[x].i_open_cnts
          /\ Holders(x)' = Holders(x)
    BY Zenon, <1>2, <2>1 DEF Entry, Counts
  <2>4. SameInodes  BY Zenon, <1>1, <1>2, <2>3 DEF SameInodes
  <2>5. \A x \in Objects : elem_find(open_inodes, x) =>
          /\ inode[x].i_no \in named'
          /\ \A q \in Procs : call'[q].op \in {"open", "create", "unlink"} => inode[x].i_no # call'[q].no
    BY <1>2, <1>4, <2>2
  <2> QED BY Zenon, <1>1, <2>4, <2>5, InodesStay
<1>10. NamesOK'
  <2>1. named = used
    <3>1. \A q \in Procs : call[q].op \notin {"create", "unlink"}  BY <1>4
    <3> QED BY Zenon, <1>1, <3>1, AllNamed
  <2> QED BY <1>1, <1>2, <1>4, <2>1 DEF NamesOK
<1> QED BY Zenon, <1>7, <1>8, <1>9, <1>10 DEF Calm

(***************************************************************************)
(* sys_unlink deletes a file of which no inode is in memory: the list has  *)
(* only inodes that an entry of the file table holds.                      *)
(***************************************************************************)
LEMMA CalmUnlink ==
  ASSUME Good, Calm, NEW p \in Procs, Lone(p), NEW no \in Inodes, sys_unlink(p, no)
  PROVE  Calm'
<1>1. /\ TypeOK /\ InodesOK /\ NamesOK /\ call \in [Procs -> Call] /\ no \in named /\ call[p] = NoCall
      /\ UNCHANGED <<alive, fd_table, file_table, inode, open_inodes, used, named, stopped>>
      /\ call' = [call EXCEPT ![p] = [NoCall EXCEPT !.op = "unlink", !.no = no]]
      /\ \A slot \in GlobalFds : file_table[slot].fd_inode \in Objects =>
           inode[file_table[slot].fd_inode].i_no # no
  BY Zenon DEF Good, Calm, TypeOK, sys_unlink, Enters
<1>2. call'[p].op = "unlink" /\ call'[p].no = no /\ \A q \in Procs : q # p => call'[q].op = "none"
  BY <1>1 DEF Lone, NoCall
<1>3. \A q \in Procs : call[q].op = "none"  BY <1>1 DEF Lone, NoCall
<1>4. NobodyExits  BY <1>2, <1>3 DEF NobodyExits
<1>5. SlotsOK'  BY <1>2 DEF SlotsOK
<1>6. NamesOK'
  <2>1. \A q \in Procs : call[q].op \notin {"create", "unlink"}  BY <1>3
  <2>2. named = used  BY Zenon, <1>1, <2>1, AllNamed
  <2> QED BY <1>1, <1>2, <2>2 DEF NamesOK
<1>7. \A x \in Objects : elem_find(open_inodes, x) => inode[x].i_no \in named' /\ inode[x].i_no # no
  <2> SUFFICES ASSUME NEW x \in Objects, elem_find(open_inodes, x)
               PROVE  inode[x].i_no \in named' /\ inode[x].i_no # no
    OBVIOUS
  <2>1. inode[x].i_no \in named /\ Holders(x) # {}  BY Zenon, <1>1 DEF InodesOK
  <2>2. PICK slot \in GlobalFds : file_table[slot].fd_inode = x  BY Zenon, <2>1 DEF Holders
  <2>3. inode[file_table[slot].fd_inode].i_no # no  BY Zenon, <1>1, <2>2
  <2> QED BY Zenon, <1>1, <2>1, <2>2, <2>3
<1>8. \A x \in Objects : elem_find(open_inodes, x) =>
        /\ inode[x].i_no \in named'
        /\ \A q \in Procs : call'[q].op \in {"open", "create", "unlink"} => inode[x].i_no # call'[q].no
  <2>1. \A q \in Procs : call'[q].op \in {"open", "create", "unlink"} => call'[q].no = no  BY <1>2
  <2> QED BY Zenon, <1>7, <2>1
<1> QED BY Zenon, <1>1, <1>4, <1>5, <1>6, <1>8, CalmDisk

(***************************************************************************)
(* The writes of a directory entry and of the inode bitmap.                *)
(***************************************************************************)
LEMMA CalmWrites ==
  ASSUME Good, Calm, NEW p \in Procs, Lone(p), entry_written(p) \/ entry_deleted(p) \/ inode_released(p)
  PROVE  Calm'
<1>1. /\ TypeOK /\ SlotsOK /\ InodesOK /\ NamesOK /\ call \in [Procs -> Call]
      /\ UNCHANGED <<alive, fd_table, file_table, inode, open_inodes, stopped>>
  BY Zenon DEF Good, Calm, TypeOK, entry_written, entry_deleted, inode_released
<1>2. \A q \in Procs : q # p => call[q].op = "none" /\ call'[q].op = "none"  BY DEF Lone, NoCall
<1>3. CASE entry_written(p)
  <2>1. /\ call[p].op = "create" /\ named' = named \cup {call[p].no} /\ UNCHANGED <<used, call>>
    BY Zenon, <1>3 DEF entry_written, Resumes
  <2>2. NobodyExits  BY <1>2, <2>1 DEF NobodyExits
  <2>3. SlotsOK'  BY Zenon, <1>1, <2>1 DEF SlotsOK, Refs
  <2>4. NamesOK'  BY <1>1, <1>2, <2>1 DEF NamesOK
  <2>5. \A x \in Objects : elem_find(open_inodes, x) =>
          /\ inode[x].i_no \in named'
          /\ \A q \in Procs : call'[q].op \in {"open", "create", "unlink"} => inode[x].i_no # call'[q].no
    BY Zenon, <1>1, <2>1 DEF InodesOK
  <2> QED BY Zenon, <1>1, <2>2, <2>3, <2>4, <2>5, CalmDisk
<1>4. CASE entry_deleted(p)
  <2>1. /\ call[p].op = "unlink" /\ named' = named \ {call[p].no} /\ UNCHANGED <<used, call>>
    BY Zenon, <1>4 DEF entry_deleted, Resumes
  <2>2. NobodyExits  BY <1>2, <2>1 DEF NobodyExits
  <2>3. SlotsOK'  BY <1>2, <2>1 DEF SlotsOK
  <2>4. NamesOK'  BY <1>1, <1>2, <2>1 DEF NamesOK
  <2>5. \A x \in Objects : elem_find(open_inodes, x) => inode[x].i_no # call[p].no
    BY <1>1, <2>1 DEF InodesOK
  <2>6. \A x \in Objects : elem_find(open_inodes, x) =>
          /\ inode[x].i_no \in named'
          /\ \A q \in Procs : call'[q].op \in {"open", "create", "unlink"} => inode[x].i_no # call'[q].no
    BY Zenon, <1>1, <2>1, <2>5 DEF InodesOK
  <2> QED BY Zenon, <1>1, <2>2, <2>3, <2>4, <2>6, CalmDisk
<1>5. CASE inode_released(p)
  <2>1. /\ call[p].op = "unlink" /\ call[p].no \notin named /\ used' = used \ {call[p].no}
        /\ call' = [call EXCEPT ![p] = NoCall] /\ UNCHANGED named
    BY Zenon, <1>5 DEF inode_released, Resumes
  <2>2. \A q \in Procs : call'[q].op = "none"  BY <1>1, <1>2, <2>1 DEF NoCall
  <2>3. NobodyExits  BY <1>2, <2>1, <2>2 DEF NobodyExits
  <2>4. SlotsOK'  BY <2>2 DEF SlotsOK
  <2>5. NamesOK'
    <3>1. \A no \in used \ named : no = call[p].no  BY <1>1, <1>2 DEF NamesOK
    <3> QED BY <1>1, <2>1, <2>2, <3>1 DEF NamesOK
  <2>6. \A x \in Objects : elem_find(open_inodes, x) =>
          /\ inode[x].i_no \in named'
          /\ \A q \in Procs : call'[q].op \in {"open", "create", "unlink"} => inode[x].i_no # call'[q].no
    BY SMTT(20), <1>1, <2>1, <2>2 DEF InodesOK
  <2> QED BY Zenon, <1>1, <2>3, <2>4, <2>5, <2>6, CalmDisk
<1> QED BY Zenon, <1>3, <1>4, <1>5

(***************************************************************************)
(* The end of file_create: its inode, which was not listed, comes into the *)
(* list with one entry.                                                    *)
(***************************************************************************)
LEMMA CalmCreateDone ==
  ASSUME Good, Calm, NEW p \in Procs, Lone(p), create_done(p)
  PROVE  Calm'
<1>1. /\ TypeOK /\ CallsOK /\ RefsOK /\ SlotsOK /\ InodesOK /\ NamesOK /\ call \in [Procs -> Call]
      /\ UNCHANGED <<alive, file_table, used, named, stopped>>
  BY Zenon DEF Good, Calm, TypeOK, create_done
<1>2. PICK obj \in Objects, slot \in GlobalFds :
        /\ call[p].op = "create" /\ call[p].obj = obj /\ call[p].slot = slot /\ call[p].no \in named
        /\ ~elem_find(open_inodes, obj) /\ Holders(obj) \subseteq {slot}
        /\ call' = [call EXCEPT ![p] = NoCall]
        /\ Counts(obj, inode[obj].i_no, 1) /\ Installs(p, slot) /\ Lists(obj)
  BY Zenon, CreateEnded
<1>3. /\ p \in alive /\ file_table[slot].fd_inode = obj /\ inode[obj].i_no = call[p].no
      /\ Refs(call[p].slot) = {}
  BY <1>1, <1>2 DEF CallsOK, SlotsOK
<1>4. Refs(slot) = {}  BY Zenon, <1>2, <1>3 DEF Refs
<1>5. \A q \in Procs : call'[q] = NoCall  BY Zenon, <1>1, <1>2 DEF Lone
<1>6. NobodyExits  BY <1>2, <1>5 DEF NobodyExits, Lone, NoCall
<1>7. RefsOK' /\ PipesOK' /\ StdOK' /\ ExitsOK'
  BY Zenon, <1>1, <1>2, <1>3, <1>4, <1>6, CalmEntry
<1>8. SlotsOK'  BY Zenon, <1>5, NoSlots
<1>9. Moves(p, obj)
  <2>1. \A x \in Objects : Holders(x)' = Holders(x)  BY Zenon, <1>1 DEF Holders
  <2>2. \A x \in Objects : x # obj =>
          /\ inode'[x].i_no = inode[x].i_no
          /\ inode'[x].i_open_cnts = inode[x].i_open_cnts
          /\ Holders(x)' = Holders(x)
          /\ elem_find(open_inodes', x) <=> elem_find(open_inodes, x)
    BY Zenon, <1>2, <2>1 DEF Counts, Lists
  <2>3. Holders(obj)' = {slot} /\ inode'[obj].i_no = call[p].no /\ inode'[obj].i_open_cnts = 1
    <3>1. slot \in Holders(obj)  BY Zenon, <1>3 DEF Holders
    <3> QED BY Zenon, <1>2, <1>3, <2>1, <3>1 DEF Counts
  <2>4. Cardinality({slot}) = 1  BY Zenon, FS_Singleton
  <2>5. \A x \in Objects : x # obj /\ elem_find(open_inodes, x) => inode[x].i_no # call[p].no
    BY <1>1, <1>2 DEF InodesOK
  <2> QED BY Zenon, <1>1, <1>2, <2>2, <2>3, <2>4, <2>5 DEF Moves
<1>10. InodesOK'  BY Zenon, <1>1, <1>5, <1>9, InodesMove
<1>11. NamesOK'
  <2>1. \A no \in used \ named : no = call[p].no  BY <1>1 DEF NamesOK, Lone, NoCall
  <2> QED BY SMTT(20), <1>1, <1>2, <1>5, <2>1 DEF NamesOK, NoCall
<1> QED BY Zenon, <1>7, <1>8, <1>10, <1>11 DEF Calm

-----------------------------------------------------------------------------
\* p closes fd, and goes on or is gone with its last descriptor.
Drops(p, fd) ==
  \/ UNCHANGED alive /\ fd_table' = [fd_table EXCEPT ![p] = [fd_table[p] EXCEPT ![fd] = -1]]
  \/ /\ alive' = alive \ {p}
     /\ \A q \in Procs : q # p => fd_table'[q] = fd_table[q]
     /\ \A x \in LocalFds : x # fd => fd_table[p][x] = -1

(***************************************************************************)
(* Which descriptors refer to which entry after a close.                   *)
(***************************************************************************)
LEMMA RefsDropped ==
  ASSUME TypeOK, NEW p \in alive, NEW fd \in LocalFds, Drops(p, fd), NEW s \in GlobalFds
  PROVE  Refs(s)' = Refs(s) \ {<<p, fd>>}
<1>1. /\ p \in Procs /\ alive \subseteq Procs /\ fd_table \in [Procs -> FdTable] /\ fd_table[p] \in FdTable
  BY Zenon DEF TypeOK, FdTable
<1>2. s # -1 /\ LocalFds \subseteq 0 .. (MAX_FILES_OPEN_PER_PROC - 1)  BY DEF GlobalFds, LocalFds
<1>3. ASSUME NEW q, NEW x
      PROVE  (q \in alive' /\ x \in LocalFds /\ fd_table'[q][x] = s) <=>
               (q \in alive /\ x \in LocalFds /\ fd_table[q][x] = s /\ ~(q = p /\ x = fd))
  <2>1. CASE UNCHANGED alive /\ fd_table' = [fd_table EXCEPT ![p] = [fd_table[p] EXCEPT ![fd] = -1]]
    <3>1. CASE q = p
      <4>1. fd_table'[p] = [fd_table[p] EXCEPT ![fd] = -1]  BY Zenon, <1>1, <2>1
      <4>2. \A y \in LocalFds : fd_table'[p][y] = IF y = fd THEN -1 ELSE fd_table[p][y]
        BY Zenon, <1>1, <1>2, <4>1 DEF FdTable
      <4> QED BY Zenon, <1>2, <2>1, <3>1, <4>2
    <3>2. CASE q # p  BY Zenon, <1>1, <2>1, <3>2
    <3> QED BY Zenon, <3>1, <3>2
  <2>2. CASE /\ alive' = alive \ {p}
             /\ \A r \in Procs : r # p => fd_table'[r] = fd_table[r]
             /\ \A y \in LocalFds : y # fd => fd_table[p][y] = -1
    <3>1. CASE q = p  BY Zenon, <1>2, <2>2, <3>1
    <3>2. CASE q # p  BY Zenon, <1>1, <2>2, <3>2
    <3> QED BY Zenon, <3>1, <3>2
  <2> QED BY Zenon, <2>1, <2>2 DEF Drops
<1>4. \A y \in Refs(s)' : y \in Refs(s) \ {<<p, fd>>}
  <2> TAKE y \in Refs(s)'
  <2>1. PICK q \in alive', x \in LocalFds : y = <<q, x>>  BY Zenon, RefsAfter
  <2>2. fd_table'[q][x] = s  BY Zenon, <2>1, RefsAfter
  <2>3. q \in alive /\ fd_table[q][x] = s /\ ~(q = p /\ x = fd)  BY Zenon, <1>3, <2>2
  <2>4. <<q, x>> \in Refs(s)  BY Zenon, <2>3, RefsAre
  <2>5. <<q, x>> # <<p, fd>>  BY <2>3
  <2> QED BY Zenon, <2>1, <2>4, <2>5
<1>5. \A y \in Refs(s) \ {<<p, fd>>} : y \in Refs(s)'
  <2> TAKE y \in Refs(s) \ {<<p, fd>>}
  <2>1. PICK q \in alive, x \in LocalFds : y = <<q, x>>  BY Zenon, RefsAre
  <2>2. fd_table[q][x] = s  BY Zenon, <2>1, RefsAre
  <2>3. ~(q = p /\ x = fd)  BY Zenon, <2>1
  <2>4. q \in alive' /\ fd_table'[q][x] = s  BY Zenon, <1>3, <2>2, <2>3
  <2> QED BY Zenon, <2>1, <2>4, RefsAfter
<1> QED BY Zenon, <1>4, <1>5

(***************************************************************************)
(* A process that closes what it has open is counted once less.            *)
(***************************************************************************)
LEMMA RefsLess ==
  ASSUME TypeOK, NEW p \in alive, NEW fd \in LocalFds, NEW s, s = fd_table[p][fd]
  PROVE  /\ <<p, fd>> \in Refs(s) /\ Cardinality(Refs(s)) \in Nat \ {0}
         /\ IsFiniteSet(Refs(s) \ {<<p, fd>>})
         /\ Cardinality(Refs(s) \ {<<p, fd>>}) = Cardinality(Refs(s)) - 1
<1>1. <<p, fd>> \in Refs(s)  BY Zenon, RefsAre
<1>2. IsFiniteSet(Refs(s)) /\ Cardinality(Refs(s)) \in Nat  BY Zenon, RefsFinite
<1>3. Cardinality(Refs(s)) # 0  BY Zenon, <1>1, <1>2, FS_EmptySet
<1>4. IsFiniteSet(Refs(s) \ {<<p, fd>>}) /\ Cardinality(Refs(s) \ {<<p, fd>>}) = Cardinality(Refs(s)) - 1
  BY Zenon, <1>1, <1>2, FS_RemoveElement
<1> QED BY <1>1, <1>2, <1>3, <1>4

\* Nobody opens, creates or deletes a file.
NoFileCall == \A q \in Procs : call[q].op \in {"none", "exit"} /\ call'[q].op \in {"none", "exit"}

(***************************************************************************)
(* The entry of a pipe after a close: it is given up with its last         *)
(* descriptor.                                                             *)
(***************************************************************************)
LEMMA CalmClosePipe ==
  ASSUME Good, Calm, NEW p \in alive, NEW fd \in LocalFds, Drops(p, fd), ClosesPipe(p, fd)
  PROVE  RefsOK' /\ PipesOK' /\ SameInodes /\ \A s \in GlobalFds : file_table'[s].fd_flag = file_table[s].fd_flag
<1>1. /\ TypeOK /\ FlagsOK /\ RefsOK /\ PipesOK /\ p \in Procs
      /\ file_table \in [0 .. (MAX_FILE_OPEN - 1) -> File]
  BY Zenon DEF Good, Calm, TypeOK
<1>2. PICK slot \in GlobalFds : /\ slot = fd_table[p][fd] /\ file_table[slot].fd_flag = PIPE_FLAG
                               /\ close_pipe(slot) /\ UNCHANGED stopped
  BY Zenon DEF ClosesPipe
<1>3. /\ UNCHANGED <<inode, open_inodes>> /\ file_table[slot] \in File
      /\ \A s \in GlobalFds : file_table'[s] = IF s = slot THEN PipeLess(file_table[slot]) ELSE file_table[s]
  <2>1. file_table' = [file_table EXCEPT ![slot] = PipeLess(file_table[slot])] /\ UNCHANGED <<inode, open_inodes>>
    BY Zenon, <1>2 DEF close_pipe, PipeLess
  <2> QED BY Zenon, <1>1, <2>1, Constants
<1>4. /\ file_table'[slot].fd_flag = file_table[slot].fd_flag
      /\ file_table'[slot].fd_pos = file_table[slot].fd_pos - 1
      /\ file_table'[slot].fd_inode = IF file_table[slot].fd_pos = 1 THEN NULL ELSE file_table[slot].fd_inode
  BY ZenonT(30), <1>3, PipeEntry
<1>5. /\ <<p, fd>> \in Refs(slot) /\ Cardinality(Refs(slot)) \in Nat \ {0}
      /\ IsFiniteSet(Refs(slot) \ {<<p, fd>>})
      /\ Cardinality(Refs(slot) \ {<<p, fd>>}) = Cardinality(Refs(slot)) - 1
  BY Zenon, <1>1, <1>2, RefsLess
<1>6. \A s \in GlobalFds : Refs(s)' = Refs(s) \ {<<p, fd>>}  BY Zenon, <1>1, RefsDropped
<1>7. /\ file_table[slot].fd_inode = RING /\ file_table[slot].fd_pos = Cardinality(Refs(slot))
  <2>1. file_table[slot].fd_inode # NULL  BY Zenon, <1>1, <1>5 DEF RefsOK
  <2>2. file_table[slot].fd_inode \in {NULL, RING}  BY Zenon, <1>1, <1>2 DEF FlagsOK
  <2> QED BY Zenon, <1>1, <2>1, <2>2 DEF PipesOK
<1>8. file_table'[slot].fd_pos = Cardinality(Refs(slot)')  BY Zenon, <1>4, <1>5, <1>6, <1>7
<1>9. file_table[slot].fd_pos = 1 => Refs(slot)' = {}
  <2>1. file_table[slot].fd_pos = 1 => Cardinality(Refs(slot) \ {<<p, fd>>}) = 0  BY <1>5, <1>7
  <2> QED BY Zenon, <1>5, <1>6, <2>1, FS_EmptySet
<1>10. file_table'[slot].fd_inode \notin Objects /\ (Refs(slot)' # {} => file_table'[slot].fd_inode # NULL)
  BY Zenon, <1>4, <1>7, <1>9, Constants
<1>11. ASSUME NEW s \in GlobalFds, s # slot
       PROVE  file_table'[s] = file_table[s] /\ Refs(s)' = Refs(s)
  <2>1. <<p, fd>> \notin Refs(s)  BY Zenon, <1>2, <1>11, RefsAre
  <2> QED BY Zenon, <1>3, <1>6, <1>11, <2>1
<1>12. RefsOK'
  <2>1. ~stopped'  BY Zenon, <1>1, <1>2 DEF RefsOK
  <2>2. ASSUME NEW s \in GlobalFds
        PROVE  /\ Refs(s)' # {} => file_table'[s].fd_inode # NULL
               /\ file_table'[s].fd_inode \in Objects => \A x, y \in Refs(s)' : x = y
    <3>1. CASE s = slot  BY Zenon, <1>10, <3>1
    <3>2. CASE s # slot
      <4>1. file_table'[s] = file_table[s] /\ Refs(s)' = Refs(s)  BY Zenon, <1>11, <3>2
      <4> QED BY Zenon, <1>1, <4>1 DEF RefsOK
    <3> QED BY Zenon, <3>1, <3>2
  <2> QED BY Zenon, <2>1, <2>2 DEF RefsOK
<1>13. PipesOK'  BY Zenon, <1>1, <1>8, <1>11 DEF PipesOK
<1>14. SameInodes
  <2>1. SameHolders  BY Zenon, <1>1, PipeClosed
  <2>2. \A x \in Objects : Holders(x)' = Holders(x)  BY Zenon, <2>1 DEF SameHolders, Holders
  <2> QED BY Zenon, <1>3, <2>2 DEF SameInodes
<1> QED BY Zenon, <1>4, <1>11, <1>12, <1>13, <1>14

(***************************************************************************)
(* The entry of a file has one descriptor: after a close it has none.  The *)
(* inode stays, counted for the other entries, or goes with the last.      *)
(***************************************************************************)
LEMMA CalmCloseFile ==
  ASSUME Good, Calm, NEW p \in alive, NEW fd \in LocalFds, Drops(p, fd), ClosesFile(p, fd), NoFileCall,
         UNCHANGED named
  PROVE  /\ RefsOK' /\ PipesOK' /\ \E obj \in Objects : Moves(p, obj)
         /\ \A s \in GlobalFds : file_table'[s].fd_flag = file_table[s].fd_flag
<1>1. /\ TypeOK /\ CallsOK /\ CreatingOK /\ ListOK /\ RefsOK /\ PipesOK /\ InodesOK /\ p \in Procs
      /\ file_table \in [0 .. (MAX_FILE_OPEN - 1) -> File]
  BY Zenon DEF Good, Calm, TypeOK
<1>2. PICK slot \in GlobalFds, obj \in Objects :
        /\ slot = fd_table[p][fd] /\ file_table[slot].fd_inode = obj /\ ~StopsAt(slot)
        /\ file_close(slot) /\ UNCHANGED stopped
  BY Zenon DEF ClosesFile
<1>3. /\ file_table' = [file_table EXCEPT ![slot].fd_inode = NULL]
      /\ \A o \in Objects : o # obj => inode'[o] = inode[o]
      /\ \/ /\ inode[obj].i_open_cnts = 1
            /\ \A o : elem_find(open_inodes', o) <=> o # obj /\ elem_find(open_inodes, o)
         \/ /\ inode[obj].i_open_cnts # 1 /\ UNCHANGED open_inodes
            /\ inode'[obj].i_no = inode[obj].i_no
            /\ inode'[obj].i_open_cnts = inode[obj].i_open_cnts - 1
  BY Zenon, <1>2, FileClosed
<1>4. /\ \A s \in GlobalFds : file_table'[s].fd_inode = IF s = slot THEN NULL ELSE file_table[s].fd_inode
      /\ \A s \in GlobalFds : file_table'[s].fd_flag = file_table[s].fd_flag
      /\ \A s \in GlobalFds : s # slot => file_table'[s] = file_table[s]
  BY <1>1, <1>3, Constants DEF File
<1>5. \A s \in GlobalFds : Refs(s)' = Refs(s) \ {<<p, fd>>}  BY Zenon, <1>1, RefsDropped
<1>6. \A s \in GlobalFds : s # slot => Refs(s)' = Refs(s)
  <2>1. \A s \in GlobalFds : s # slot => <<p, fd>> \notin Refs(s)  BY Zenon, <1>2, RefsAre
  <2> QED BY Zenon, <1>5, <2>1
<1>7. Refs(slot)' = {} /\ file_table'[slot].fd_inode = NULL
  <2>1. <<p, fd>> \in Refs(slot)  BY Zenon, <1>1, <1>2, RefsLess
  <2>2. \A y \in Refs(slot) : y = <<p, fd>>  BY Zenon, <1>1, <1>2, <2>1 DEF RefsOK
  <2> QED BY Zenon, <1>4, <1>5, <2>2
<1>8. RefsOK'
  <2>1. ~stopped'  BY Zenon, <1>1, <1>2 DEF RefsOK
  <2>2. ASSUME NEW s \in GlobalFds
        PROVE  /\ Refs(s)' # {} => file_table'[s].fd_inode # NULL
               /\ file_table'[s].fd_inode \in Objects => \A x, y \in Refs(s)' : x = y
    <3>1. CASE s = slot  BY Zenon, <1>7, Constants, <3>1
    <3>2. CASE s # slot
      <4>1. file_table'[s] = file_table[s] /\ Refs(s)' = Refs(s)  BY Zenon, <1>4, <1>6, <3>2
      <4> QED BY Zenon, <1>1, <4>1 DEF RefsOK
    <3> QED BY Zenon, <3>1, <3>2
  <2> QED BY Zenon, <2>1, <2>2 DEF RefsOK
<1>9. PipesOK'  BY Zenon, <1>1, <1>4, <1>6, <1>7, Constants DEF PipesOK
<1>10. \A x \in Objects : Holders(x)' = Holders(x) \ {slot}
  <2>1. \A x : Holders(x)' = IF x = NULL THEN Holders(x) \cup {slot} ELSE Holders(x) \ {slot}
    BY Zenon, <1>4, EntryTaken
  <2> QED BY Zenon, <2>1, Constants
<1>11. \A x \in Objects : x # obj =>
         /\ inode'[x].i_no = inode[x].i_no
         /\ inode'[x].i_open_cnts = inode[x].i_open_cnts
         /\ Holders(x)' = Holders(x)
         /\ elem_find(open_inodes', x) <=> elem_find(open_inodes, x)
  <2>1. \A x \in Objects : x # obj => slot \notin Holders(x)  BY Zenon, <1>2 DEF Holders
  <2> QED BY Zenon, <1>3, <1>10, <2>1
<1>12. Moves(p, obj)
  <2>1. CASE inode[obj].i_open_cnts = 1  BY Zenon, <1>3, <1>11, <2>1 DEF Moves
  <2>2. CASE inode[obj].i_open_cnts # 1
    <3>1. slot \in Holders(obj)  BY Zenon, <1>2 DEF Holders
    <3>2. ~Creating(obj)
      <4>1. \A q \in Procs : call[q].op # "create"  BY DEF NoFileCall
      <4> QED BY Zenon, <1>1, <4>1, Constants DEF Creating, CallsOK
    <3>3. elem_find(open_inodes, obj)  BY Zenon, <1>1, <3>1, <3>2 DEF ListOK
    <3>4. /\ inode[obj].i_no \in named /\ inode[obj].i_open_cnts = Cardinality(Holders(obj))
          /\ \A x \in Objects : x # obj /\ elem_find(open_inodes, x) => inode[x].i_no # inode[obj].i_no
      BY Zenon, <1>1, <3>3 DEF InodesOK
    <3>5. Cardinality(Holders(obj)) \in Nat /\ Cardinality(Holders(obj) \ {slot}) = Cardinality(Holders(obj)) - 1
      BY Zenon, <3>1, OneMoreHolder
    <3>6. Cardinality(Holders(obj) \ {slot}) # 0 /\ Cardinality({}) = 0
      BY <2>2, <3>4, <3>5, FS_EmptySet
    <3>7. Holders(obj)' # {} /\ inode'[obj].i_open_cnts = Cardinality(Holders(obj)')
      BY Zenon, <1>3, <1>10, <2>2, <3>4, <3>5, <3>6
    <3>8. inode'[obj].i_no = inode[obj].i_no  BY Zenon, <1>3, <2>2
    <3> QED BY Zenon, <1>11, <3>4, <3>7, <3>8 DEF Moves
  <2> QED BY Zenon, <2>1, <2>2
<1> QED BY Zenon, <1>4, <1>8, <1>9, <1>12

(***************************************************************************)
(* A close leaves the entries and the inodes as they are to be.            *)
(***************************************************************************)
LEMMA CalmClose ==
  ASSUME Good, Calm, NEW p \in alive, NEW fd \in LocalFds, NEW fds, close_fd(p, fd, fds),
         (fd_table' = [fd_table EXCEPT ![p] = fds]) => Drops(p, fd),
         NoFileCall, UNCHANGED <<used, named>>
  PROVE  /\ RefsOK' /\ PipesOK' /\ SlotsOK' /\ InodesOK' /\ NamesOK'
         /\ fd_table' = [fd_table EXCEPT ![p] = fds]
         /\ \A s \in GlobalFds : file_table'[s].fd_flag = file_table[s].fd_flag
<1>1. /\ TypeOK /\ FdsOK /\ FlagsOK /\ CallsOK /\ ListOK
      /\ RefsOK /\ PipesOK /\ InodesOK /\ NamesOK /\ p \in Procs
  BY Zenon DEF Good, Calm, TypeOK
<1>2. ~Faults(p, fd)
  <2> SUFFICES ASSUME Faults(p, fd) PROVE FALSE  OBVIOUS
  <2>1. PICK slot \in GlobalFds :
          slot = fd_table[p][fd] /\ file_table[slot].fd_flag # PIPE_FLAG /\ StopsAt(slot)
    BY Zenon DEF Faults
  <2>2. <<p, fd>> \in Refs(slot)  BY Zenon, <2>1, RefsAre
  <2>3. file_table[slot].fd_inode # NULL  BY Zenon, <1>1, <2>2 DEF RefsOK
  <2>4. PICK obj \in Objects : obj = file_table[slot].fd_inode  BY <1>1, <2>1, <2>3 DEF FlagsOK
  <2>5. ~elem_find(open_inodes, obj)  BY Zenon, <2>1, <2>3, <2>4 DEF StopsAt
  <2>6. Holders(obj) # {}  BY Zenon, <2>4 DEF Holders
  <2>7. PICK q \in Procs : call[q].obj = obj  BY Zenon, <1>1, <2>5, <2>6 DEF ListOK, Creating
  <2>8. call[q].op = "create"  BY Zenon, <1>1, <2>7, Constants DEF CallsOK
  <2> QED BY <2>8 DEF NoFileCall
<1>3. /\ fd_table' = [fd_table EXCEPT ![p] = fds]
      /\ ClosesNothing(p, fd) \/ ClosesPipe(p, fd) \/ ClosesFile(p, fd)
  BY Zenon, <1>1, <1>2, CloseCases
<1>4. Drops(p, fd)  BY Zenon, <1>3
<1>5. SlotsOK'
  <2>1. \A q \in Procs : call'[q].op \notin {"open", "create"}  BY DEF NoFileCall
  <2> QED BY Zenon, <2>1 DEF SlotsOK
<1>6. NamesOK'
  <2>1. \A q \in Procs : call[q].op \notin {"create", "unlink"}  BY DEF NoFileCall
  <2>2. named = used  BY Zenon, <1>1, <2>1, AllNamed
  <2> QED BY <2>2 DEF NamesOK, NoFileCall
<1>7. SameInodes => InodesOK'
  <2>1. \A q \in Procs : call'[q].op \notin {"open", "create", "unlink"}  BY DEF NoFileCall
  <2>2. \A x \in Objects : elem_find(open_inodes, x) =>
          /\ inode[x].i_no \in named'
          /\ \A q \in Procs : call'[q].op \in {"open", "create", "unlink"} => inode[x].i_no # call'[q].no
    BY Zenon, <1>1, <2>1 DEF InodesOK
  <2> QED BY Zenon, <1>1, <2>2, InodesStay
<1>8. CASE ClosesNothing(p, fd)
  <2>1. UNCHANGED <<file_table, inode, open_inodes, stopped>> /\ fd_table[p][fd] = -1
    BY Zenon, <1>8 DEF ClosesNothing
  <2>2. \A s \in GlobalFds : Refs(s)' = Refs(s)
    <3>1. \A s \in GlobalFds : Refs(s)' = Refs(s) \ {<<p, fd>>}  BY Zenon, <1>1, <1>4, RefsDropped
    <3>2. \A s \in GlobalFds : <<p, fd>> \notin Refs(s)  BY Zenon, <2>1, RefsAre, Constants
    <3> QED BY Zenon, <3>1, <3>2
  <2>3. RefsOK' /\ PipesOK'  BY Zenon, <1>1, <2>1, <2>2 DEF RefsOK, PipesOK
  <2>4. SameInodes  BY Zenon, <2>1 DEF SameInodes, Holders
  <2> QED BY Zenon, <1>3, <1>5, <1>6, <1>7, <2>1, <2>3, <2>4
<1>9. CASE ClosesPipe(p, fd)
  <2>1. RefsOK' /\ PipesOK' /\ SameInodes /\ \A s \in GlobalFds : file_table'[s].fd_flag = file_table[s].fd_flag
    BY Zenon, <1>4, <1>9, CalmClosePipe
  <2> QED BY Zenon, <1>3, <1>5, <1>6, <1>7, <2>1
<1>10. CASE ClosesFile(p, fd)
  <2>1. /\ RefsOK' /\ PipesOK' /\ \E obj \in Objects : Moves(p, obj)
        /\ \A s \in GlobalFds : file_table'[s].fd_flag = file_table[s].fd_flag
    BY Zenon, <1>4, <1>10, CalmCloseFile
  <2>2. \A q \in Procs : call'[q].op \in {"none", "exit"}  BY Zenon DEF NoFileCall
  <2>3. InodesOK'  BY Zenon, <1>1, <2>1, <2>2, InodesMove
  <2> QED BY Zenon, <1>3, <1>5, <1>6, <2>1, <2>3
<1> QED BY Zenon, <1>3, <1>8, <1>9, <1>10

(***************************************************************************)
(* sys_close does not close what a standard input or output needs.         *)
(***************************************************************************)
LEMMA CalmSysClose ==
  ASSUME Good, Calm, NEW p \in Procs, Lone(p), NEW fd \in LocalFds, sys_close(p, fd)
  PROVE  Calm'
<1>1. /\ TypeOK /\ FdsOK /\ StdOK /\ p \in alive /\ alive \subseteq Procs /\ call[p] = NoCall
      /\ fd_table \in [Procs -> FdTable] /\ fd_table[p] \in FdTable
      /\ UNCHANGED <<alive, used, named, call>>
      /\ fd_table[p][fd] \notin {fd_table[p][0], fd_table[p][1]}
      /\ close_fd(p, fd, [fd_table[p] EXCEPT ![fd] = -1])
  BY Zenon DEF Good, Calm, TypeOK, FdTable, sys_close, Enters
<1>2. \A q \in Procs : call[q].op = "none" /\ call'[q].op = "none"  BY <1>1 DEF Lone, NoCall
<1>3. NoFileCall  BY <1>2 DEF NoFileCall
<1>4. PICK fds : fds = [fd_table[p] EXCEPT ![fd] = -1]  OBVIOUS
<1>5. (fd_table' = [fd_table EXCEPT ![p] = fds]) => Drops(p, fd)  BY Zenon, <1>1, <1>4 DEF Drops
<1>6. close_fd(p, fd, fds)  BY Zenon, <1>1, <1>4
<1>7. /\ RefsOK' /\ PipesOK' /\ SlotsOK' /\ InodesOK' /\ NamesOK'
      /\ fd_table' = [fd_table EXCEPT ![p] = fds]
      /\ \A s \in GlobalFds : file_table'[s].fd_flag = file_table[s].fd_flag
  BY Zenon, <1>1, <1>3, <1>5, <1>6, CalmClose
<1>8. /\ \A q \in Procs : q # p => fd_table'[q] = fd_table[q]
      /\ \A x \in LocalFds : x # fd => fd_table'[p][x] = fd_table[p][x]
      /\ \A x \in {0, 1} : fd_table'[p][x] = fd_table[p][x]
  <2>1. \A q \in Procs : q # p => fd_table'[q] = fd_table[q]  BY Zenon, <1>1, <1>7
  <2>2. fd_table'[p] = [fd_table[p] EXCEPT ![fd] = -1]  BY Zenon, <1>1, <1>4, <1>7
  <2>3. /\ {0, 1} \subseteq 0 .. (MAX_FILES_OPEN_PER_PROC - 1) /\ fd \notin {0, 1}
        /\ LocalFds \subseteq 0 .. (MAX_FILES_OPEN_PER_PROC - 1)
    BY FilesAssumption DEF LocalFds
  <2>4. \A x \in 0 .. (MAX_FILES_OPEN_PER_PROC - 1) : x # fd => fd_table'[p][x] = fd_table[p][x]
    BY Zenon, <1>1, <2>2 DEF FdTable
  <2> QED BY Zenon, <2>1, <2>3, <2>4
<1>9. StdOK'
  <2> SUFFICES ASSUME NEW q \in alive, NEW x \in {0, 1}, fd_table'[q][x] # x
               PROVE  \E y \in LocalFds : /\ fd_table'[q][y] = fd_table'[q][x] /\ fd_table'[q][y] # -1
                                          /\ is_pipe(q, y)'
    BY Zenon, <1>1 DEF StdOK
  <2>1. fd_table'[q][x] = fd_table[q][x] /\ q \in Procs  BY Zenon, <1>1, <1>8
  <2>2. PICK y \in LocalFds : fd_table[q][y] = fd_table[q][x] /\ fd_table[q][y] # -1 /\ is_pipe(q, y)
    <3>1. call[q].op # "exit"  BY <1>2, <2>1
    <3> QED BY Zenon, <1>1, <2>1, <3>1 DEF StdOK
  <2>3. q = p => y # fd  BY Zenon, <1>1, <2>2
  <2>4. fd_table'[q][y] = fd_table[q][y] /\ fd_table[q][y] \in GlobalFds
    BY Zenon, <1>1, <1>8, <2>1, <2>2, <2>3 DEF FdsOK
  <2>5. is_pipe(q, y)'  BY Zenon, <1>7, <2>2, <2>4 DEF is_pipe
  <2> QED BY Zenon, <2>1, <2>2, <2>4, <2>5
<1>10. ExitsOK'  BY <1>1, <1>2 DEF ExitsOK
<1> QED BY Zenon, <1>7, <1>9, <1>10 DEF Calm

(***************************************************************************)
(* An exit closes the descriptors in order; when the process is gone, all  *)
(* are closed.                                                             *)
(***************************************************************************)
LEMMA CalmExit ==
  ASSUME Good, Calm, NEW p \in Procs, Lone(p), sys_exit(p) \/ exit_next(p)
  PROVE  Calm'
<1>1. /\ TypeOK /\ FdsOK /\ CallsOK /\ StdOK /\ ExitsOK /\ alive \subseteq Procs /\ call \in [Procs -> Call]
      /\ fd_table \in [Procs -> FdTable] /\ fd_table[p] \in FdTable
  BY Zenon DEF Good, Calm, TypeOK, FdTable
<1>2. PICK fd \in LocalFds : /\ exit_close(p, fd) /\ (call[p] = NoCall => fd = 3)
                             /\ (call[p] # NoCall => call[p].op = "exit" /\ fd = call[p].slot)
  BY Zenon, ExitTurn
<1>3. p \in alive /\ call[p].op \in {"none", "exit"}  BY Zenon, ExitTurn
<1>4. \A x \in LocalFds : x < fd => fd_table[p][x] = -1
  <2>1. CASE call[p] = NoCall  BY <1>2, <2>1 DEF LocalFds
  <2>2. CASE call[p] # NoCall  BY Zenon, <1>1, <1>2, <1>3, <2>2 DEF ExitsOK
  <2> QED BY Zenon, <2>1, <2>2
<1>5. PICK last \in BOOLEAN : last <=> fd = MAX_FILES_OPEN_PER_PROC - 1  BY Zenon
<1>6. PICK fds : fds = IF last THEN new_fd_table ELSE [fd_table[p] EXCEPT ![fd] = -1]  OBVIOUS
<1>7. /\ close_fd(p, fd, fds) /\ UNCHANGED <<used, named>>
      /\ alive' = IF last THEN alive \ {p} ELSE alive
      /\ call' = [call EXCEPT ![p] = IF last THEN NoCall ELSE [NoCall EXCEPT !.op = "exit", !.slot = fd + 1]]
  BY Zenon, <1>2, <1>5, <1>6 DEF exit_close
<1>8. /\ ~last => call'[p].op = "exit" /\ call'[p].slot = fd + 1
      /\ last => call'[p].op = "none"
      /\ \A q \in Procs : q # p => call[q].op = "none" /\ call'[q].op = "none"
  BY <1>1, <1>7 DEF Lone, NoCall
<1>9. NoFileCall  BY <1>3, <1>8 DEF NoFileCall
<1>10. (fd_table' = [fd_table EXCEPT ![p] = fds]) => Drops(p, fd)
  <2> SUFFICES ASSUME fd_table' = [fd_table EXCEPT ![p] = fds] PROVE Drops(p, fd)  OBVIOUS
  <2>1. CASE last
    <3>1. \A x \in LocalFds : x # fd => x < fd  BY <1>5, <2>1, FilesAssumption DEF LocalFds
    <3>2. \A x \in LocalFds : x # fd => fd_table[p][x] = -1  BY Zenon, <1>4, <3>1
    <3>3. \A q \in Procs : q # p => fd_table'[q] = fd_table[q]  BY Zenon, <1>1
    <3> QED BY Zenon, <1>7, <2>1, <3>2, <3>3 DEF Drops
  <2>2. CASE ~last  BY Zenon, <1>6, <1>7, <2>2 DEF Drops
  <2> QED BY Zenon, <2>1, <2>2
<1>11. /\ RefsOK' /\ PipesOK' /\ SlotsOK' /\ InodesOK' /\ NamesOK'
       /\ fd_table' = [fd_table EXCEPT ![p] = fds]
       /\ \A s \in GlobalFds : file_table'[s].fd_flag = file_table[s].fd_flag
  BY Zenon, <1>3, <1>7, <1>9, <1>10, CalmClose
<1>12. \A q \in Procs : q # p => fd_table'[q] = fd_table[q]  BY Zenon, <1>1, <1>11
<1>13. StdOK'
  <2> SUFFICES ASSUME NEW q \in alive', NEW x \in {0, 1}, fd_table'[q][x] # x, call'[q].op # "exit"
               PROVE  \E y \in LocalFds : /\ fd_table'[q][y] = fd_table'[q][x] /\ fd_table'[q][y] # -1
                                          /\ is_pipe(q, y)'
    BY Zenon DEF StdOK
  <2>1. q # p /\ q \in alive /\ q \in Procs  BY Zenon, <1>1, <1>7, <1>8
  <2>2. fd_table'[q] = fd_table[q] /\ call[q].op # "exit"  BY <1>8, <1>12, <2>1
  <2>3. PICK y \in LocalFds : fd_table[q][y] = fd_table[q][x] /\ fd_table[q][y] # -1 /\ is_pipe(q, y)
    BY Zenon, <1>1, <2>1, <2>2 DEF StdOK
  <2>4. fd_table[q][y] \in GlobalFds  BY Zenon, <1>1, <2>1, <2>3 DEF FdsOK
  <2>5. is_pipe(q, y)'  BY Zenon, <1>11, <2>2, <2>3, <2>4 DEF is_pipe
  <2> QED BY Zenon, <2>2, <2>3, <2>5
<1>14. ExitsOK'
  <2> SUFFICES ASSUME NEW q \in alive', call'[q].op = "exit", NEW x \in LocalFds, x < call'[q].slot
               PROVE  fd_table'[q][x] = -1
    BY Zenon DEF ExitsOK
  <2>1. q \in Procs  BY Zenon, <1>1, <1>7
  <2>2. q = p /\ ~last  BY <1>8, <2>1
  <2>3. x = fd \/ x < fd  BY <1>8, <2>2 DEF LocalFds
  <2>4. fd_table'[p] = [fd_table[p] EXCEPT ![fd] = -1]  BY Zenon, <1>1, <1>6, <1>11, <2>2
  <2>5. fd_table'[p][x] = IF x = fd THEN -1 ELSE fd_table[p][x]
    BY Zenon, <1>1, <2>4, Constants DEF FdTable
  <2> QED BY Zenon, <1>4, <2>2, <2>3, <2>5
<1> QED BY Zenon, <1>11, <1>13, <1>14 DEF Calm

(***************************************************************************)
(* sys_fd_redirect: a descriptor past standard error is not changed.       *)
(***************************************************************************)
LEMMA CalmRedirect ==
  ASSUME Good, Calm, NEW p \in Procs, Lone(p), NEW old \in StdFds, NEW new \in StdFds \cup LocalFds,
         sys_fd_redirect(p, old, new)
  PROVE  Calm'
<1>1. /\ TypeOK /\ FdsOK /\ RefsOK /\ PipesOK /\ StdOK /\ SlotsOK /\ InodesOK /\ NamesOK /\ p \in alive
      /\ alive \subseteq Procs /\ fd_table \in [Procs -> FdTable] /\ fd_table[p] \in FdTable
      /\ call[p] = NoCall
      /\ UNCHANGED <<alive, file_table, inode, open_inodes, used, named, call, stopped>>
      /\ IF new < 3 THEN new = old ELSE fd_table[p][new] # -1 /\ is_pipe(p, new)
      /\ fd_table' = [fd_table EXCEPT ![p][old] = IF new < 3 THEN new ELSE fd_table[p][new]]
  BY Zenon DEF Good, Calm, TypeOK, FdTable, sys_fd_redirect, Enters
<1>2. \A q \in Procs : call[q].op = "none" /\ call'[q].op = "none"  BY <1>1 DEF Lone, NoCall
<1>3. /\ old \in {0, 1} /\ old \notin LocalFds /\ {0, 1} \subseteq 0 .. (MAX_FILES_OPEN_PER_PROC - 1)
      /\ LocalFds \subseteq 0 .. (MAX_FILES_OPEN_PER_PROC - 1)
      /\ new >= 3 => new \in LocalFds
      /\ new \in Int
  BY FilesAssumption DEF LocalFds
<1>4. PICK v : v = IF new < 3 THEN new ELSE fd_table[p][new]  OBVIOUS
<1>5. /\ \A q \in Procs : q # p => fd_table'[q] = fd_table[q]
      /\ \A x \in 0 .. (MAX_FILES_OPEN_PER_PROC - 1) : fd_table'[p][x] = IF x = old THEN v ELSE fd_table[p][x]
  <2>1. fd_table' = [fd_table EXCEPT ![p] = [fd_table[p] EXCEPT ![old] = v]]  BY Zenon, <1>1, <1>4
  <2>2. fd_table'[p] = [fd_table[p] EXCEPT ![old] = v]  BY Zenon, <1>1, <2>1
  <2> QED BY Zenon, <1>1, <2>1, <2>2 DEF FdTable
<1>6. \A q \in Procs : \A x \in LocalFds : fd_table'[q][x] = fd_table[q][x]  BY Zenon, <1>3, <1>5
<1>7. \A s : Refs(s)' = Refs(s)
  <2>1. \A q \in alive, x \in LocalFds : fd_table'[q][x] = fd_table[q][x]  BY Zenon, <1>1, <1>6
  <2> QED BY <1>1, <2>1 DEF Refs
<1>8. RefsOK' /\ PipesOK'  BY Zenon, <1>1, <1>7 DEF RefsOK, PipesOK
<1>9. SlotsOK' /\ ExitsOK'  BY <1>1, <1>2 DEF SlotsOK, ExitsOK
<1>10. InodesOK' /\ NamesOK'  BY ZenonT(30), <1>1 DEF InodesOK, NamesOK, Holders
<1>11. StdOK'
  <2> SUFFICES ASSUME NEW q \in alive, NEW x \in {0, 1}, fd_table'[q][x] # x
               PROVE  \E y \in LocalFds : /\ fd_table'[q][y] = fd_table'[q][x] /\ fd_table'[q][y] # -1
                                          /\ is_pipe(q, y)'
    BY Zenon, <1>1 DEF StdOK
  <2>1. q \in Procs  BY Zenon, <1>1
  <2>2. PICK y \in LocalFds : fd_table[q][y] = fd_table'[q][x] /\ fd_table[q][y] # -1 /\ is_pipe(q, y)
    <3>1. CASE q = p /\ x = old
      <4>1. fd_table'[p][old] = v  BY Zenon, <1>3, <1>5
      <4>2. ~(new < 3)  BY Zenon, <1>1, <1>4, <3>1, <4>1
      <4>3. new \in LocalFds  BY <1>3, <4>2
      <4> QED BY Zenon, <1>1, <1>4, <3>1, <4>1, <4>2, <4>3
    <3>2. CASE ~(q = p /\ x = old)
      <4>1. fd_table'[q][x] = fd_table[q][x]  BY Zenon, <1>3, <1>5, <2>1, <3>2
      <4>2. call[q].op # "exit"  BY <1>2, <2>1
      <4> QED BY Zenon, <1>1, <4>1, <4>2 DEF StdOK
    <3> QED BY Zenon, <3>1, <3>2
  <2>3. fd_table'[q][y] = fd_table[q][y]  BY Zenon, <1>6, <2>1
  <2>4. is_pipe(q, y)'  BY Zenon, <1>1, <2>2, <2>3 DEF is_pipe
  <2> QED BY Zenon, <2>2, <2>3, <2>4
<1> QED BY Zenon, <1>8, <1>9, <1>10, <1>11 DEF Calm

-----------------------------------------------------------------------------
\* The descriptors of p that refer to this entry.
Own(p, s) == {fd \in LocalFds : fd_table[p][fd] = s}

(***************************************************************************)
(* What a fork of a process that has only pipes open counts.               *)
(***************************************************************************)
LEMMA OnlyPipes ==
  ASSUME TypeOK, NEW p \in Procs, \A fd \in LocalFds : fd_table[p][fd] # -1 => is_pipe(p, fd)
  PROVE  /\ NullFds(p) = {}
         /\ \A obj \in Objects : NewOpens(p, obj) = {}
         /\ \A s \in GlobalFds : NewRefs(p, s) = Own(p, s)
<1>1. NullFds(p) = {}  BY Zenon DEF NullFds
<1>2. CountedFds(p) = {fd \in LocalFds : fd_table[p][fd] # -1}  BY Zenon, <1>1 DEF CountedFds
<1>3. \A fd \in CountedFds(p) : is_pipe(p, fd)  BY Zenon, <1>2
<1>4. \A obj \in Objects : NewOpens(p, obj) = {}  BY Zenon, <1>3 DEF NewOpens
<1>5. ASSUME NEW s \in GlobalFds PROVE NewRefs(p, s) = Own(p, s)
  <2>1. s # -1  BY Zenon, Constants
  <2> QED BY Zenon, <1>2, <1>3, <2>1 DEF NewRefs, Own
<1> QED BY Zenon, <1>1, <1>4, <1>5

\* q is a copy of p.
Copies(p, q) == /\ q \notin alive /\ alive' = alive \cup {q}
                /\ fd_table' = [fd_table EXCEPT ![q] = fd_table[p]]

(***************************************************************************)
(* The descriptors that the child of a fork adds.                          *)
(***************************************************************************)
LEMMA RefsForked ==
  ASSUME TypeOK, NEW p \in alive, NEW q \in Procs, NEW s, Copies(p, q)
  PROVE  /\ Refs(s)' = Refs(s) \cup ({q} \X Own(p, s))
         /\ Cardinality(Refs(s)') = Cardinality(Refs(s)) + Cardinality(Own(p, s))
<1> USE DEF Copies
<1>0. PICK S : S = Own(p, s) /\ S = {fd \in LocalFds : fd_table[p][fd] = s}  BY Zenon DEF Own
<1>1. /\ p \in Procs /\ alive \subseteq Procs /\ fd_table \in [Procs -> FdTable]  BY Zenon DEF TypeOK, FdTable
<1>2. fd_table'[q] = fd_table[p] /\ \A r \in alive : fd_table'[r] = fd_table[r]  BY Zenon, <1>1
<1>3. \A y \in Refs(s)' : y \in Refs(s) \cup ({q} \X S)
  <2> TAKE y \in Refs(s)'
  <2>1. PICK r \in alive', x \in LocalFds : y = <<r, x>>  BY Zenon, RefsAfter
  <2>2. fd_table'[r][x] = s  BY Zenon, <2>1, RefsAfter
  <2>3. CASE r = q
    <3>1. x \in S  BY Zenon, <1>0, <1>2, <2>2, <2>3
    <3> QED BY <2>1, <2>3, <3>1
  <2>4. CASE r # q
    <3>1. r \in alive /\ fd_table[r][x] = s  BY Zenon, <1>2, <2>2, <2>4
    <3> QED BY Zenon, <2>1, <3>1, RefsAre
  <2> QED BY Zenon, <2>3, <2>4
<1>4. \A y \in Refs(s) \cup ({q} \X S) : y \in Refs(s)'
  <2> TAKE y \in Refs(s) \cup ({q} \X S)
  <2>1. CASE y \in Refs(s)
    <3>1. PICK r \in alive, x \in LocalFds : y = <<r, x>>  BY Zenon, <2>1, RefsAre
    <3>2. <<r, x>> \in Refs(s)  BY <2>1, <3>1
    <3>3. fd_table[r][x] = s  BY ZenonT(30), <3>2, RefsAre
    <3>4. fd_table'[r][x] = s /\ r \in alive'  BY Zenon, <1>2, <3>3
    <3> QED BY Zenon, <3>1, <3>4, RefsAfter
  <2>2. CASE y \in {q} \X S
    <3>1. PICK x \in S : y = <<q, x>>  BY <2>2
    <3>2. x \in LocalFds /\ fd_table'[q][x] = s /\ q \in alive'  BY Zenon, <1>0, <1>2, <3>1
    <3> QED BY Zenon, <3>1, <3>2, RefsAfter
  <2> QED BY Zenon, <2>1, <2>2
<1>5. Refs(s)' = Refs(s) \cup ({q} \X S)  BY Zenon, <1>3, <1>4
<1>6. IsFiniteSet(S) /\ Cardinality(S) \in Nat
  <2>1. S \subseteq LocalFds  BY Zenon, <1>0
  <2> QED BY Zenon, <2>1, FdsFinite
<1>7. IsFiniteSet({q} \X S) /\ Cardinality({q} \X S) = Cardinality(S)
  <2>1. IsFiniteSet({q}) /\ Cardinality({q}) = 1  BY Zenon, FS_Singleton
  <2>2. IsFiniteSet({q} \X S) /\ Cardinality({q} \X S) = Cardinality({q}) * Cardinality(S)
    BY Zenon, <1>6, <2>1, FS_Product
  <2> QED BY <1>6, <2>1, <2>2
<1>8. IsFiniteSet(Refs(s)) /\ Cardinality(Refs(s)) \in Nat  BY Zenon, RefsFinite
<1>9. Refs(s) \cap ({q} \X S) = {}
  <2> SUFFICES ASSUME NEW y \in Refs(s) PROVE y \notin {q} \X S  BY Zenon
  <2>1. PICK r \in alive, x \in LocalFds : y = <<r, x>>  BY Zenon, RefsAre
  <2>2. r # q  BY Zenon
  <2> QED BY <2>1, <2>2
<1>10. Cardinality(Refs(s) \cup ({q} \X S)) =
         Cardinality(Refs(s)) + Cardinality({q} \X S) - Cardinality(Refs(s) \cap ({q} \X S))
  BY Zenon, <1>7, <1>8, FS_Union
<1>11. Cardinality({}) = 0  BY Zenon, FS_EmptySet
<1>12. Cardinality(Refs(s) \cup ({q} \X S)) = Cardinality(Refs(s)) + Cardinality(S)
  <2>1. Cardinality(Refs(s) \cup ({q} \X S)) = Cardinality(Refs(s)) + Cardinality(S) - 0
    BY Zenon, <1>7, <1>9, <1>10, <1>11
  <2>2. \A a, b \in Nat : a + b - 0 = a + b  OBVIOUS
  <2> QED BY Zenon, <1>6, <1>8, <2>1, <2>2
<1> QED BY Zenon, <1>0, <1>5, <1>12

(***************************************************************************)
(* sys_fork of a process that has no file open.                            *)
(***************************************************************************)
LEMMA CalmFork ==
  ASSUME Good, Calm, NEW p \in Procs, Lone(p), NEW q \in Procs, sys_fork(p, q), ~shared'
  PROVE  Calm'
<1>1. /\ TypeOK /\ FdsOK /\ FlagsOK /\ RefsOK /\ PipesOK /\ StdOK /\ InodesOK /\ NamesOK
      /\ p \in alive /\ q \notin alive /\ alive \subseteq Procs
      /\ call[p] = NoCall /\ inode \in [Objects -> Inode] /\ fd_table \in [Procs -> FdTable]
      /\ fd_table' = [fd_table EXCEPT ![q] = fd_table[p]] /\ alive' = alive \cup {q}
      /\ file_table' = count_pipes(p) /\ inode' = count_inodes(p) /\ stopped' = (NullFds(p) # {})
      /\ UNCHANGED <<open_inodes, used, named, call>>
  BY Zenon DEF Good, Calm, TypeOK, FdTable, sys_fork, Enters
<1>2. \A fd \in LocalFds : fd_table[p][fd] # -1 => is_pipe(p, fd)  BY Zenon DEF sys_fork
<1>3. /\ NullFds(p) = {}
      /\ \A obj \in Objects : NewOpens(p, obj) = {}
      /\ \A s \in GlobalFds : NewRefs(p, s) = Own(p, s)
  BY Zenon, <1>1, <1>2, OnlyPipes
<1>4. \A r \in Procs : call'[r] = NoCall /\ call[r].op = "none" /\ call'[r].op = "none"
  BY <1>1 DEF Lone, NoCall
<1>5. /\ \A s \in GlobalFds :
           /\ file_table'[s].fd_inode = file_table[s].fd_inode
           /\ file_table'[s].fd_flag = file_table[s].fd_flag
           /\ file_table'[s].fd_pos = file_table[s].fd_pos + Cardinality(NewRefs(p, s))
      /\ \A obj \in Objects :
           /\ inode'[obj].i_no = inode[obj].i_no
           /\ inode'[obj].i_open_cnts = inode[obj].i_open_cnts + Cardinality(NewOpens(p, obj))
  BY Zenon, <1>1, ForkCounts
<1>6. \A s \in GlobalFds : /\ Refs(s)' = Refs(s) \cup ({q} \X NewRefs(p, s))
                           /\ Cardinality(Refs(s)') = Cardinality(Refs(s)) + Cardinality(NewRefs(p, s))
  <2> TAKE s \in GlobalFds
  <2>1. Copies(p, q) /\ NewRefs(p, s) = Own(p, s)  BY Zenon, <1>1, <1>3 DEF Copies
  <2>2. /\ Refs(s)' = Refs(s) \cup ({q} \X Own(p, s))
        /\ Cardinality(Refs(s)') = Cardinality(Refs(s)) + Cardinality(Own(p, s))
    BY Zenon, <1>1, <2>1, RefsForked
  <2> QED BY Zenon, <2>1, <2>2
<1>7. ASSUME NEW s \in GlobalFds, NewRefs(p, s) # {}
      PROVE  Refs(s) # {} /\ file_table[s].fd_flag = PIPE_FLAG
  <2>1. PICK x \in LocalFds : fd_table[p][x] = s  BY Zenon, <1>3, <1>7 DEF Own
  <2>2. s # -1  BY Zenon, Constants
  <2>3. <<p, x>> \in Refs(s)  BY Zenon, <1>1, <2>1, RefsAre
  <2> QED BY Zenon, <1>2, <2>1, <2>2, <2>3 DEF is_pipe
<1>8. RefsOK'
  <2>1. ~stopped'  BY <1>1, <1>3
  <2>2. ASSUME NEW s \in GlobalFds
        PROVE  /\ Refs(s)' # {} => file_table'[s].fd_inode # NULL
               /\ file_table'[s].fd_inode \in Objects => \A x, y \in Refs(s)' : x = y
    <3>1. CASE NewRefs(p, s) = {}
      <4>1. {q} \X NewRefs(p, s) = {}  BY <3>1
      <4>2. Refs(s)' = Refs(s)  BY Zenon, <1>6, <4>1
      <4> QED BY ZenonT(30), <1>1, <1>5, <4>2 DEF RefsOK
    <3>2. CASE NewRefs(p, s) # {}
      <4>1. Refs(s) # {} /\ file_table[s].fd_flag = PIPE_FLAG  BY Zenon, <1>7, <3>2
      <4>2. file_table[s].fd_inode \in {NULL, RING}  BY Zenon, <1>1, <4>1 DEF FlagsOK
      <4>3. file_table[s].fd_inode # NULL  BY Zenon, <1>1, <4>1 DEF RefsOK
      <4> QED BY Zenon, <1>5, <4>2, <4>3, Constants
    <3> QED BY Zenon, <3>1, <3>2
  <2> QED BY Zenon, <2>1, <2>2 DEF RefsOK
<1>9. PipesOK'  BY Zenon, <1>1, <1>5, <1>6 DEF PipesOK
<1>10. SlotsOK' /\ ExitsOK'
  <2>1. SlotsOK'  BY Zenon, <1>4, NoSlots
  <2>2. alive' \subseteq Procs  BY Zenon, <1>1
  <2>3. \A r \in alive' : call'[r].op # "exit"  BY <1>4, <2>2
  <2> QED BY Zenon, <2>1, <2>3 DEF ExitsOK
<1>11. StdOK'
  <2> SUFFICES ASSUME NEW r \in alive', NEW x \in {0, 1}, fd_table'[r][x] # x
               PROVE  \E y \in LocalFds : /\ fd_table'[r][y] = fd_table'[r][x] /\ fd_table'[r][y] # -1
                                          /\ is_pipe(r, y)'
    BY Zenon DEF StdOK
  <2>1. PICK o \in alive : fd_table'[r] = fd_table[o]
    <3>1. CASE r = q  BY Zenon, <1>1, <3>1
    <3>2. CASE r # q  BY Zenon, <1>1, <3>2
    <3> QED BY Zenon, <3>1, <3>2
  <2>2. o \in Procs /\ call[o].op # "exit"  BY <1>1, <1>4
  <2>3. PICK y \in LocalFds : fd_table[o][y] = fd_table[o][x] /\ fd_table[o][y] # -1 /\ is_pipe(o, y)
    BY Zenon, <1>1, <2>1, <2>2 DEF StdOK
  <2>4. fd_table[o][y] \in GlobalFds  BY Zenon, <1>1, <2>2, <2>3 DEF FdsOK
  <2>5. is_pipe(r, y)'  BY Zenon, <1>5, <2>1, <2>3, <2>4 DEF is_pipe
  <2> QED BY Zenon, <2>1, <2>3, <2>5
<1>12. SameInodes
  <2>1. \A x \in Objects : Holders(x)' = Holders(x)  BY Zenon, <1>5 DEF Holders
  <2>2. Cardinality({}) = 0  BY Zenon, FS_EmptySet
  <2>3. \A x \in Objects : inode[x].i_open_cnts \in Int  BY <1>1 DEF Inode
  <2>4. \A x \in Objects : inode'[x].i_open_cnts = inode[x].i_open_cnts + 0  BY Zenon, <1>3, <1>5, <2>2
  <2>5. \A x \in Objects : inode'[x].i_open_cnts = inode[x].i_open_cnts  BY <2>3, <2>4
  <2> QED BY Zenon, <1>1, <1>5, <2>1, <2>5 DEF SameInodes
<1>13. InodesOK'
  <2>1. \A x \in Objects : elem_find(open_inodes, x) =>
          /\ inode[x].i_no \in named'
          /\ \A r \in Procs : call'[r].op \in {"open", "create", "unlink"} => inode[x].i_no # call'[r].no
    BY Zenon, <1>1 DEF InodesOK
  <2> QED BY Zenon, <1>1, <1>12, <2>1, InodesStay
<1>14. NamesOK'  BY Zenon, <1>1 DEF NamesOK
<1> QED BY Zenon, <1>8, <1>9, <1>10, <1>11, <1>13, <1>14 DEF Calm

FreeFds(fds) == {fd \in LocalFds : fds[fd] = -1}

\* Two descriptors that are free in fds refer to slot in new.
Ends(fds, new, slot, a, b) ==
  /\ a # b /\ fds[a] = -1 /\ fds[b] = -1
  /\ \A x \in 0 .. (MAX_FILES_OPEN_PER_PROC - 1) : new[x] = IF x = a \/ x = b THEN slot ELSE fds[x]

(***************************************************************************)
(* sys_pipe finds two free descriptors and gives both to its entry.        *)
(***************************************************************************)
LEMMA TwoInstalled ==
  ASSUME NEW fds \in FdTable, NEW slot \in GlobalFds,
         Cardinality(FreeFds(fds)) >= 2
  PROVE  \E a, b \in LocalFds : Ends(fds, pcb_fd_install(pcb_fd_install(fds, slot), slot), slot, a, b)
<1>1. slot \in Int /\ slot # -1 /\ LocalFds \subseteq 0 .. (MAX_FILES_OPEN_PER_PROC - 1)
  BY DEF GlobalFds, LocalFds
<1>2. PICK free \in SUBSET LocalFds : free = FreeFds(fds) /\ free = {fd \in LocalFds : fds[fd] = -1}
  BY Zenon DEF FreeFds
<1>3. Cardinality(free) >= 2  BY Zenon, <1>2
<1>4. ASSUME NEW a, free \subseteq {a} PROVE FALSE
  <2>1. free = {} \/ free = {a}  BY Zenon, <1>4
  <2>2. Cardinality(free) \in {0, 1}  BY <2>1, FS_EmptySet, FS_Singleton
  <2> QED BY <1>3, <2>2
<1>5. PICK a \in LocalFds : fds[a] = -1 /\ pcb_fd_install(fds, slot) = [fds EXCEPT ![a] = slot]
  <2>1. \E fd \in LocalFds : fds[fd] = -1  BY Zenon, <1>2, <1>4
  <2> QED BY Zenon, <1>1, <2>1, Install
<1>6. PICK fds1 : fds1 = pcb_fd_install(fds, slot)  OBVIOUS
<1>7. /\ fds1 \in FdTable
      /\ \A x \in 0 .. (MAX_FILES_OPEN_PER_PROC - 1) : fds1[x] = IF x = a THEN slot ELSE fds[x]
  <2>1. fds1 = [fds EXCEPT ![a] = slot]  BY Zenon, <1>5, <1>6
  <2> QED BY Zenon, <1>1, <2>1 DEF FdTable
<1>8. PICK b \in LocalFds : fds1[b] = -1 /\ pcb_fd_install(fds1, slot) = [fds1 EXCEPT ![b] = slot]
  <2>0. ~(free \subseteq {a})  BY Zenon, <1>4
  <2>1. PICK fd \in free : fd # a  BY <2>0
  <2>2. fds1[fd] = -1 /\ fd \in LocalFds  BY Zenon, <1>1, <1>2, <1>7, <2>1
  <2> QED BY Zenon, <1>1, <1>7, <2>2, Install
<1>9. a # b /\ fds[b] = -1
  <2>1. fds1[b] = IF b = a THEN slot ELSE fds[b]  BY Zenon, <1>1, <1>7
  <2> QED BY <1>1, <1>5, <1>8, <2>1
<1>10. PICK fds2 : fds2 = pcb_fd_install(pcb_fd_install(fds, slot), slot)  OBVIOUS
<1>11. fds2 = [fds1 EXCEPT ![b] = slot]  BY Zenon, <1>6, <1>8, <1>10
<1>12. /\ fds2 \in FdTable
       /\ \A x \in 0 .. (MAX_FILES_OPEN_PER_PROC - 1) : fds2[x] = IF x = b THEN slot ELSE fds1[x]
  BY Zenon, <1>1, <1>7, <1>11 DEF FdTable
<1>13. \A x \in 0 .. (MAX_FILES_OPEN_PER_PROC - 1) : fds2[x] = IF x = a \/ x = b THEN slot ELSE fds[x]
  BY <1>7, <1>12
<1> QED BY ZenonT(30), <1>5, <1>9, <1>10, <1>13 DEF Ends

(***************************************************************************)
(* A new pipe counts its two ends.                                         *)
(***************************************************************************)
LEMMA CalmPipe ==
  ASSUME Good, Calm, NEW p \in Procs, Lone(p), sys_pipe(p)
  PROVE  Calm'
<1>1. /\ TypeOK /\ RefsOK /\ InodesOK /\ NamesOK /\ p \in alive /\ call[p] = NoCall
      /\ file_table \in [0 .. (MAX_FILE_OPEN - 1) -> File]
      /\ fd_table \in [Procs -> FdTable] /\ fd_table[p] \in FdTable
      /\ UNCHANGED <<alive, inode, open_inodes, used, named, call, stopped>> /\ FreeSlots # {}
      /\ Cardinality({fd \in LocalFds : fd_table[p][fd] = -1}) >= 2
  BY Zenon DEF Good, Calm, TypeOK, FdTable, sys_pipe, Enters
<1>2. \A q \in Procs : call'[q] = NoCall /\ call[q].op = "none" /\ call'[q].op = "none"
  BY <1>1 DEF Lone, NoCall
<1>3. NobodyExits  BY <1>2 DEF NobodyExits
<1>4. PICK slot \in GlobalFds : slot = get_free_slot_in_global /\ file_table[slot].fd_inode = NULL
  BY Zenon, <1>1, FreeFound
<1>5. /\ file_table' = [file_table EXCEPT ![slot] = [fd_inode |-> RING, fd_flag |-> PIPE_FLAG, fd_pos |-> 2]]
      /\ fd_table' = [fd_table EXCEPT ![p] = pcb_fd_install(pcb_fd_install(fd_table[p], slot), slot)]
  BY Zenon, <1>1, <1>4 DEF sys_pipe
<1>6. /\ file_table'[slot].fd_inode = RING /\ file_table'[slot].fd_pos = 2
      /\ \A s \in GlobalFds : s # slot => file_table'[s] = file_table[s]
  BY <1>1, <1>5, Constants
<1>7. Refs(slot) = {}  BY Zenon, <1>1, <1>4 DEF RefsOK
<1>8. PICK a, b \in LocalFds :
        /\ a # b /\ fd_table[p][a] = -1 /\ fd_table[p][b] = -1
        /\ \A x \in 0 .. (MAX_FILES_OPEN_PER_PROC - 1) :
             fd_table'[p][x] = IF x = a \/ x = b THEN slot ELSE fd_table[p][x]
  <2>1. PICK fds : fds = fd_table[p]  OBVIOUS
  <2>2. fds \in FdTable /\ Cardinality(FreeFds(fds)) >= 2  BY Zenon, <1>1, <2>1 DEF FreeFds
  <2>3. PICK a, b \in LocalFds : Ends(fds, pcb_fd_install(pcb_fd_install(fds, slot), slot), slot, a, b)
    BY Zenon, <2>2, TwoInstalled
  <2>4. fd_table'[p] = pcb_fd_install(pcb_fd_install(fds, slot), slot)  BY Zenon, <1>1, <1>5, <2>1
  <2>5. Ends(fd_table[p], fd_table'[p], slot, a, b)  BY Zenon, <2>1, <2>3, <2>4
  <2> QED BY Zenon, <2>5 DEF Ends
<1>9. Takes(p, slot)
  <2>1. \A q \in Procs : q # p => fd_table'[q] = fd_table[q]  BY Zenon, <1>1, <1>5
  <2>2. \A x \in LocalFds : \/ fd_table'[p][x] = fd_table[p][x]
                            \/ fd_table[p][x] = -1 /\ fd_table'[p][x] = slot
    BY Zenon, <1>8, Constants
  <2>3. {0, 1} \subseteq 0 .. (MAX_FILES_OPEN_PER_PROC - 1) /\ a \notin {0, 1} /\ b \notin {0, 1}
    BY FilesAssumption DEF LocalFds
  <2>4. \A x \in {0, 1} : fd_table'[p][x] = fd_table[p][x]  BY Zenon, <1>8, <2>3
  <2> QED BY Zenon, <1>1, <2>1, <2>2, <2>4 DEF Takes
<1>10. Cardinality(Refs(slot)') = 2
  <2>1. \A y \in Refs(slot)' : y \in {<<p, a>>, <<p, b>>}
    <3> TAKE y \in Refs(slot)'
    <3>1. PICK x \in LocalFds : y = <<p, x>> /\ fd_table[p][x] = -1 /\ fd_table'[p][x] = slot
      BY Zenon, <1>1, <1>7, <1>9, RefsTaken
    <3>2. x = a \/ x = b  BY Zenon, <1>8, <3>1, Constants
    <3> QED BY Zenon, <3>1, <3>2
  <2>2. <<p, a>> \in Refs(slot)' /\ <<p, b>> \in Refs(slot)'
    <3>1. fd_table'[p][a] = slot /\ fd_table'[p][b] = slot  BY Zenon, <1>8, Constants
    <3> QED BY Zenon, <1>1, <3>1, RefsAfter
  <2>3. Refs(slot)' = {<<p, a>>} \cup {<<p, b>>}  BY Zenon, <2>1, <2>2
  <2>4. <<p, b>> \notin {<<p, a>>}  BY <1>8
  <2>5. IsFiniteSet({<<p, a>>}) /\ Cardinality({<<p, a>>}) = 1  BY Zenon, FS_Singleton
  <2>6. Cardinality({<<p, a>>} \cup {<<p, b>>}) = 1 + 1  BY Zenon, <2>4, <2>5, FS_AddElement
  <2>7. 1 + 1 = 2  OBVIOUS
  <2> QED BY Zenon, <2>3, <2>6, <2>7
<1>11. RefsOK' /\ PipesOK' /\ StdOK' /\ ExitsOK'
  BY Zenon, <1>1, <1>3, <1>6, <1>7, <1>9, <1>10, EntryOpened, Constants
<1>12. SlotsOK'  BY Zenon, <1>2, NoSlots
<1>13. SameInodes
  <2>1. \A x \in Objects : Holders(x)' = Holders(x)
    <3>1. \A s \in GlobalFds : s = slot \/ file_table'[s] = file_table[s]  BY Zenon, <1>6
    <3> QED BY Zenon, <1>4, <1>6, <3>1, Constants DEF Holders
  <2> QED BY Zenon, <1>1, <2>1 DEF SameInodes
<1>14. InodesOK'
  <2>1. \A x \in Objects : elem_find(open_inodes, x) =>
          /\ inode[x].i_no \in named'
          /\ \A r \in Procs : call'[r].op \in {"open", "create", "unlink"} => inode[x].i_no # call'[r].no
    BY Zenon, <1>1 DEF InodesOK
  <2> QED BY Zenon, <1>1, <1>13, <2>1, InodesStay
<1>15. NamesOK'  BY Zenon, <1>1 DEF NamesOK
<1> QED BY Zenon, <1>11, <1>12, <1>14, <1>15 DEF Calm

-----------------------------------------------------------------------------
(***************************************************************************)
(* Every step of a process that is alone, and shares no file, leaves       *)
(* descriptors, entries, inodes and names in agreement.                    *)
(***************************************************************************)
LEMMA CalmStep ==
  ASSUME Good, Calm, NEW p \in Procs, Lone(p), Step(p), ~shared'
  PROVE  Calm'
<1>1. CASE file_create(p)  BY Zenon, <1>1, CalmCreate
<1>2. CASE create_done(p)  BY Zenon, <1>2, CalmCreateDone
<1>3. CASE inode_read(p)  BY Zenon, <1>3, CalmRead
<1>4. CASE entry_written(p) \/ entry_deleted(p) \/ inode_released(p)  BY Zenon, <1>4, CalmWrites
<1>5. CASE sys_exit(p) \/ exit_next(p)  BY Zenon, <1>5, CalmExit
<1>6. CASE sys_pipe(p)  BY Zenon, <1>6, CalmPipe
<1>7. ASSUME NEW no \in Inodes, sys_unlink(p, no) PROVE Calm'  BY Zenon, <1>7, CalmUnlink
<1>8. ASSUME NEW no \in Inodes, NEW flag \in Flags, sys_open(p, no, flag) PROVE Calm'
  BY Zenon, <1>8, CalmOpen
<1>9. ASSUME NEW fd \in LocalFds, sys_close(p, fd) PROVE Calm'  BY Zenon, <1>9, CalmSysClose
<1>10. ASSUME NEW q \in Procs, sys_fork(p, q) PROVE Calm'  BY Zenon, <1>10, CalmFork
<1>11. ASSUME NEW old \in StdFds, NEW new \in StdFds \cup LocalFds, sys_fd_redirect(p, old, new)
       PROVE  Calm'
  BY Zenon, <1>11, CalmRedirect
<1> QED BY Zenon, <1>1, <1>2, <1>3, <1>4, <1>5, <1>6, <1>7, <1>8, <1>9, <1>10, <1>11 DEF Step

(***************************************************************************)
(* At the start no entry is in use and there is no file.                   *)
(***************************************************************************)
LEMMA CalmInit ==
  ASSUME Init
  PROVE  Calm
<1>1. /\ \A p \in Procs : call[p].op = "none"
      /\ \A p \in Procs, fd \in LocalFds : fd_table[p][fd] = -1
      /\ \A p \in Procs, fd \in {0, 1} : fd_table[p][fd] = fd
  <2>1. \A p \in Procs : call[p] = NoCall /\ fd_table[p] = new_fd_table  BY Zenon DEF Init
  <2>2. NoCall.op = "none" /\ \A fd \in {0, 1} : new_fd_table[fd] = fd
    BY FilesAssumption DEF NoCall, new_fd_table
  <2> QED BY Zenon, <2>1, <2>2, Constants
<1>2. \A slot \in GlobalFds : file_table[slot].fd_inode = NULL
  <2>1. EMPTY_FILE.fd_inode = NULL  BY DEF EMPTY_FILE
  <2> QED BY Zenon, <2>1, Constants DEF Init
<1>3. alive \subseteq Procs /\ ~stopped /\ named = {} /\ used = {}  BY FilesAssumption DEF Init
<1>4. \A x : ~elem_find(open_inodes, x)  BY DEF Init, elem_find
<1>5. \A slot \in GlobalFds : Refs(slot) = {}
  <2> SUFFICES ASSUME NEW slot \in GlobalFds, NEW y \in Refs(slot) PROVE FALSE  BY Zenon
  <2>1. PICK q \in alive, fd \in LocalFds : y = <<q, fd>>  BY Zenon, RefsAre
  <2>2. fd_table[q][fd] = slot  BY Zenon, <2>1, RefsAre
  <2> QED BY Zenon, <1>1, <1>3, <2>2, Constants
<1>6. RefsOK  BY Zenon, <1>2, <1>3, <1>5 DEF RefsOK
<1>7. SlotsOK /\ ExitsOK  BY <1>1, <1>3 DEF SlotsOK, ExitsOK
<1>8. PipesOK  BY Zenon, <1>2, Constants DEF PipesOK
<1>9. StdOK  BY Zenon, <1>1, <1>3 DEF StdOK
<1>10. InodesOK  BY Zenon, <1>4 DEF InodesOK
<1>11. NamesOK  BY <1>1, <1>3 DEF NamesOK
<1> QED BY Zenon, <1>6, <1>7, <1>8, <1>9, <1>10, <1>11 DEF Calm

(***************************************************************************)
(* The invariant of descriptors, pipes and inodes is inductive.            *)
(***************************************************************************)
LEMMA IInvNext ==
  ASSUME IInv, [Next]_vars
  PROVE  IInv'
<1>1. Inv'  BY Zenon, InvNext DEF IInv
<1>2. CASE UNCHANGED vars
  <2>1. /\ UNCHANGED <<alive, fd_table, file_table, inode, open_inodes, used>>
        /\ UNCHANGED <<named, call, stopped, overlapped, shared>>
    BY Zenon, <1>2 DEF vars
  <2>2. \A s : Refs(s)' = Refs(s)  BY Zenon, <2>1 DEF Refs
  <2>3. \A x : Holders(x)' = Holders(x)  BY Zenon, <2>1 DEF Holders
  <2>4. RefsOK => RefsOK'  BY Zenon, <2>1, <2>2 DEF RefsOK
  <2>5. SlotsOK => SlotsOK'  BY Zenon, <2>1 DEF SlotsOK, Refs
  <2>6. PipesOK => PipesOK'  BY Zenon, <2>1, <2>2 DEF PipesOK
  <2>7. (StdOK => StdOK') /\ (ExitsOK => ExitsOK')  BY Zenon, <2>1 DEF StdOK, ExitsOK, is_pipe
  <2>8. (InodesOK => InodesOK') /\ (NamesOK => NamesOK')  BY Zenon, <2>1, <2>3 DEF InodesOK, NamesOK
  <2> QED BY Zenon, <1>1, <2>1, <2>4, <2>5, <2>6, <2>7, <2>8 DEF IInv, Calm
<1>3. ASSUME NEW p \in Procs, Step(p) PROVE IInv'
  <2> SUFFICES ASSUME ~overlapped', ~shared' PROVE Calm'  BY Zenon, <1>1 DEF IInv
  <2>1. Good /\ Alone  BY Zenon DEF IInv, Inv
  <2>2. Calm
    <3>1. ~overlapped /\ ~shared  BY Zenon, <1>3, <2>1, StepFrame
    <3> QED BY Zenon, <3>1 DEF IInv
  <2>3. Lone(p)  BY Zenon, <1>3, <2>1, Solo DEF Lone
  <2> QED BY Zenon, <1>3, <2>1, <2>2, <2>3, CalmStep
<1> QED BY Zenon, <1>2, <1>3 DEF Next, Step

(***************************************************************************)
(* IInv holds in every state.                                              *)
(***************************************************************************)
LEMMA IInvHolds == Spec => []IInv
<1>1. Init => IInv  BY Zenon, GoodInit, CalmInit DEF IInv, Inv
<1>2. IInv /\ [Next]_vars => IInv'  BY Zenon, IInvNext
<1> QED BY <1>1, <1>2, PTL DEF Spec

(***************************************************************************)
(* Without overlap and sharing no call follows a NULL fd_inode, every      *)
(* descriptor has an entry of the file table in use, and an entry of a     *)
(* file has one descriptor, for any number of processes and entries.       *)
(***************************************************************************)
THEOREM DescriptorsStayOpen == Spec => []DescriptorsOpen
<1>1. IInv => DescriptorsOpen
  <2> SUFFICES ASSUME IInv, ~overlapped, ~shared
               PROVE  /\ ~stopped
                      /\ \A slot \in GlobalFds :
                           /\ Refs(slot) # {} => file_table[slot].fd_inode # NULL
                           /\ file_table[slot].fd_inode \in Objects => Cardinality(Refs(slot)) <= 1
    BY Zenon DEF DescriptorsOpen
  <2>1. TypeOK /\ RefsOK  BY Zenon DEF IInv, Inv, Good, Calm
  <2>2. ASSUME NEW slot \in GlobalFds, \A x, y \in Refs(slot) : x = y PROVE Cardinality(Refs(slot)) <= 1
    <3>1. Refs(slot) = {} \/ \E y : Refs(slot) = {y}
      <4>1. CASE Refs(slot) # {}
        <5>1. PICK y \in Refs(slot) : TRUE  BY Zenon, <4>1
        <5>2. Refs(slot) = {y}  BY Zenon, <2>2, <5>1
        <5> QED BY Zenon, <5>2
      <4> QED BY Zenon, <4>1
    <3>2. Cardinality(Refs(slot)) = 0 \/ Cardinality(Refs(slot)) = 1
      BY Zenon, <3>1, FS_EmptySet, FS_Singleton
    <3> QED BY <3>2
  <2> QED BY Zenon, <2>1, <2>2 DEF RefsOK
<1> QED BY <1>1, IInvHolds, PTL

(***************************************************************************)
(* The fd_pos of a pipe is the number of its descriptors in all processes, *)
(* and a redirected standard input or output has its pipe, through every   *)
(* fork, redirection, close and exit.                                      *)
(***************************************************************************)
THEOREM PipesStayCounted == Spec => []PipesCounted
<1>1. IInv => PipesCounted
  <2> SUFFICES ASSUME IInv, ~overlapped, ~shared
               PROVE  /\ \A slot \in GlobalFds : file_table[slot].fd_inode = RING =>
                           file_table[slot].fd_pos = Cardinality(Refs(slot))
                      /\ \A p \in alive, fd \in {0, 1} :
                           (fd_table[p][fd] # fd /\ call[p].op # "exit") =>
                             file_table[fd_table[p][fd]].fd_inode = RING
    BY Zenon DEF PipesCounted
  <2>1. TypeOK /\ FdsOK /\ FlagsOK /\ RefsOK /\ PipesOK /\ StdOK  BY Zenon DEF IInv, Inv, Good, Calm
  <2>2. ASSUME NEW p \in alive, NEW fd \in {0, 1}, fd_table[p][fd] # fd, call[p].op # "exit"
        PROVE  file_table[fd_table[p][fd]].fd_inode = RING
    <3>1. PICK x \in LocalFds : fd_table[p][x] = fd_table[p][fd] /\ fd_table[p][x] # -1 /\ is_pipe(p, x)
      BY Zenon, <2>1, <2>2 DEF StdOK
    <3>2. p \in Procs  BY Zenon, <2>1 DEF TypeOK
    <3>3. PICK slot \in GlobalFds : slot = fd_table[p][x]  BY Zenon, <2>1, <3>1, <3>2 DEF FdsOK
    <3>4. file_table[slot].fd_flag = PIPE_FLAG  BY Zenon, <3>1, <3>3 DEF is_pipe
    <3>5. file_table[slot].fd_inode \in {NULL, RING}  BY Zenon, <2>1, <3>4 DEF FlagsOK
    <3>6. <<p, x>> \in Refs(slot)  BY Zenon, <3>3, RefsAre
    <3>7. file_table[slot].fd_inode # NULL  BY Zenon, <2>1, <3>6 DEF RefsOK
    <3> QED BY Zenon, <3>1, <3>3, <3>5, <3>7
  <2> QED BY Zenon, <2>1, <2>2 DEF PipesOK
<1> QED BY <1>1, IInvHolds, PTL

(***************************************************************************)
(* Between calls that do not overlap a file has at most one inode in       *)
(* memory, which is counted for exactly the entries that hold it, and the  *)
(* bitmap of inodes has the files of the directory.                        *)
(***************************************************************************)
THEOREM FilesHaveOneInode == Spec => []OneInodePerFile
<1>1. IInv => OneInodePerFile
  <2> SUFFICES ASSUME IInv, ~overlapped, ~shared, \A p \in Procs : call[p] = NoCall
               PROVE  /\ \A no \in Inodes : Cardinality(Cached(no)) <= 1
                      /\ \A obj \in Objects : elem_find(open_inodes, obj) =>
                           /\ inode[obj].i_no \in named
                           /\ inode[obj].i_open_cnts = Cardinality(Holders(obj))
                      /\ named = used
    BY Zenon DEF OneInodePerFile
  <2>1. TypeOK /\ ListOK /\ InodesOK /\ NamesOK  BY Zenon DEF IInv, Inv, Good, Calm
  <2>2. named = used
    <3>1. \A q \in Procs : call[q].op \notin {"create", "unlink"}  BY DEF NoCall
    <3> QED BY Zenon, <2>1, <3>1, AllNamed
  <2>3. ASSUME NEW no \in Inodes PROVE Cardinality(Cached(no)) <= 1
    <3>1. ASSUME NEW i \in Cached(no), NEW j \in Cached(no) PROVE i = j
      <4>1. /\ i \in DOMAIN open_inodes /\ j \in DOMAIN open_inodes
            /\ inode[open_inodes[i]].i_no = no /\ inode[open_inodes[j]].i_no = no
        BY Zenon DEF Cached
      <4>2. open_inodes \in Seq(Objects) /\ Distinct(open_inodes)  BY Zenon, <2>1 DEF TypeOK, ListOK
      <4>3. open_inodes[i] \in Objects /\ open_inodes[j] \in Objects  BY <4>1, <4>2
      <4>4. elem_find(open_inodes, open_inodes[i]) /\ elem_find(open_inodes, open_inodes[j])
        BY <4>1 DEF elem_find
      <4>5. open_inodes[i] = open_inodes[j]  BY Zenon, <2>1, <4>1, <4>3, <4>4 DEF InodesOK
      <4> QED BY <4>1, <4>2, <4>5 DEF Distinct
    <3>2. Cached(no) = {} \/ \E i : Cached(no) = {i}
      <4>1. CASE Cached(no) # {}
        <5>1. PICK i \in Cached(no) : TRUE  BY Zenon, <4>1
        <5>2. Cached(no) = {i}  BY Zenon, <3>1, <5>1
        <5> QED BY Zenon, <5>2
      <4> QED BY Zenon, <4>1
    <3>3. Cardinality(Cached(no)) = 0 \/ Cardinality(Cached(no)) = 1
      BY Zenon, <3>2, FS_EmptySet, FS_Singleton
    <3> QED BY <3>3
  <2> QED BY Zenon, <2>1, <2>2, <2>3 DEF InodesOK
<1> QED BY <1>1, IInvHolds, PTL
=============================================================================
