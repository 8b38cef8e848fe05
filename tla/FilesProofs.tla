---------------------------- MODULE FilesProofs -----------------------------
(***************************************************************************)
(* Open files and pipes for any number of processes, files, entries of the *)
(* file table and descriptors: no inode that is in use is freed.           *)
(*                                                                         *)
(* Inv is inductive.  Good says where every pointer may point: an inode on *)
(* the list of open inodes is counted at least once for every entry of the *)
(* file table that holds it, one that is not listed is held by no entry    *)
(* (ListOK), but for the inode of a file_create that sleeps on the disk,   *)
(* which has it for itself and at most in its own entry (CreatingOK).      *)
(* Alone says that without an overlap at most one process is inside a      *)
(* call.                                                                   *)
(***************************************************************************)
EXTENDS Files, FiniteSetTheorems, WellFoundedInduction, TLAPS

Inode == [i_no : Inodes \cup {0}, i_open_cnts : Int, write_deny : BOOLEAN]
File == [fd_inode : Objects \cup {NULL, RING}, fd_flag : {O_RDONLY, O_WRONLY, PIPE_FLAG}, fd_pos : Int]
Call == [op : {"none", "open", "create", "unlink", "exit"}, no : Inodes \cup {0},
         slot : Nat, flag : {0, 1}, obj : Objects \cup {NULL}]

\* Where the fields of the state lie, and how op tells what the others mean.
TypeOK ==
  /\ alive \subseteq Procs /\ IsFiniteSet(alive) /\ shell \in alive
  /\ fd_table \in [Procs -> [0 .. (MAX_FILES_OPEN_PER_PROC - 1) -> Int]]
  /\ file_table \in [0 .. (MAX_FILE_OPEN - 1) -> File]
  /\ inode \in [Objects -> Inode]
  /\ open_inodes \in Seq(Objects)
  /\ used \subseteq Inodes /\ named \subseteq Inodes
  /\ call \in [Procs -> Call]
  /\ stopped \in BOOLEAN /\ overlapped \in BOOLEAN /\ shared \in BOOLEAN

\* A descriptor is free or refers to an entry past the first three.
FdsOK ==
  \A p \in Procs : \A fd \in LocalFds : fd_table[p][fd] \in GlobalFds \cup {-1}

\* An entry with the flag of a pipe has a ring or nothing, any other an inode or nothing.
FlagsOK ==
  \A slot \in GlobalFds :
    LET file == file_table[slot]
    IN  file.fd_inode \in {NULL} \cup (IF file.fd_flag = PIPE_FLAG THEN {RING} ELSE Objects)

\* What a process in the middle of a call has got.
CallsOK ==
  \A p \in Procs :
    LET c == call[p]
    IN  /\ c.op = "none" => c = NoCall
        /\ c.op # "none" => p \in alive
        /\ c.op \in {"open", "create", "unlink"} => c.no \in Inodes
        /\ c.op \in {"open", "create"} => c.slot \in GlobalFds
        /\ c.op = "exit" => c.slot \in LocalFds /\ c.slot > 3 /\ p # shell
        /\ (c.op = "create") = (c.obj # NULL)

\* file_create has an inode of its own, which it has not listed.
CreatingOK ==
  /\ \A p \in Procs : call[p].op = "create" =>
       /\ ~elem_find(open_inodes, call[p].obj)
       /\ inode[call[p].obj].i_no # 0
       /\ Holders(call[p].obj) \subseteq {call[p].slot}
  /\ \A p, q \in Procs : call[p].obj = call[q].obj /\ call[p].obj # NULL => p = q

\* A listed inode is counted for every entry; what is not listed is held by none.
ListOK ==
  /\ Distinct(open_inodes)
  /\ \A obj \in Objects : elem_find(open_inodes, obj) =>
       inode[obj].i_no # 0 /\ Cardinality(Holders(obj)) <= inode[obj].i_open_cnts
  /\ \A obj \in Objects : ~elem_find(open_inodes, obj) /\ ~Creating(obj) => Holders(obj) = {}

\* Without an overlap one process is in a call.
Alone == ~overlapped => \A p, q \in Procs : call[p] # NoCall /\ call[q] # NoCall => p = q

Good == TypeOK /\ FdsOK /\ FlagsOK /\ CallsOK /\ CreatingOK /\ ListOK

Inv == Alone /\ Good

-----------------------------------------------------------------------------
(***************************************************************************)
(* A set of numbers that is not empty has a least one: what the searches   *)
(* for a free entry, descriptor or object, which stop at the first, rest   *)
(* on.                                                                     *)
(***************************************************************************)
LEMMA LeastNumber ==
  ASSUME NEW T, T \subseteq Nat, T # {}
  PROVE  \E x \in T : \A y \in T : x <= y
<1>1. PICK x \in T : \A y \in T : ~(<<y, x>> \in OpToRel(<, Nat))
  BY Zenon, NatLessThanWellFounded, WFMin
<1>2. \A y \in T : ~(y < x)
  BY Zenon, <1>1 DEF OpToRel
<1> QED BY <1>2

(***************************************************************************)
(* list_push puts one element in front: the list gains exactly it, and     *)
(* stays free of duplicates if it was not there.                           *)
(***************************************************************************)
LEMMA PushList ==
  ASSUME NEW S, NEW list \in Seq(S), NEW t \in S
  PROVE  /\ list_push(list, t) \in Seq(S)
         /\ \A u : elem_find(list_push(list, t), u) <=> u = t \/ elem_find(list, u)
         /\ Distinct(list) /\ ~elem_find(list, t) => Distinct(list_push(list, t))
<1> DEFINE l == list_push(list, t)
<1>1. /\ l \in Seq(S) /\ Len(l) = Len(list) + 1 /\ l[1] = t
      /\ \A i \in 2 .. Len(l) : l[i] = list[i - 1]
  BY DEF list_push
<1>2. \A i \in 1 .. Len(list) : list[i] = l[i + 1]
  BY <1>1
<1>3. DOMAIN l = 1 .. Len(l) /\ DOMAIN list = 1 .. Len(list) /\ Len(list) \in Nat
  BY <1>1
<1> HIDE DEF l
<1>4. \A u : elem_find(l, u) <=> u = t \/ elem_find(list, u)
  <2> TAKE u
  <2>1. ASSUME elem_find(l, u) PROVE u = t \/ elem_find(list, u)
    <3>1. PICK i \in 1 .. Len(l) : l[i] = u  BY <2>1, <1>3 DEF elem_find
    <3>2. i = 1 \/ (i - 1 \in 1 .. Len(list) /\ list[i - 1] = u)  BY <3>1, <1>1, <1>3
    <3> QED BY <3>2, <3>1, <1>1, <1>3 DEF elem_find
  <2>2. ASSUME elem_find(list, u) PROVE elem_find(l, u)
    <3>1. PICK i \in 1 .. Len(list) : list[i] = u  BY <2>2, <1>3 DEF elem_find
    <3>2. i + 1 \in 1 .. Len(l) /\ l[i + 1] = u  BY <3>1, <1>1, <1>2
    <3> QED BY <3>2, <1>3 DEF elem_find
  <2>3. 1 \in 1 .. Len(l)  BY <1>1
  <2> QED BY <2>1, <2>2, <2>3, <1>1, <1>3 DEF elem_find
<1>5. ASSUME Distinct(list), ~elem_find(list, t) PROVE Distinct(l)
  <2> SUFFICES ASSUME NEW i \in 1 .. Len(l), NEW j \in 1 .. Len(l), l[i] = l[j]
               PROVE  i = j
    BY <1>3 DEF Distinct
  <2>1. \A m \in 2 .. Len(l) : m - 1 \in 1 .. Len(list) /\ l[m] = list[m - 1] /\ l[m] # t
    BY <1>1, <1>3, <1>5 DEF elem_find
  <2>2. \A m, n \in 1 .. Len(list) : list[m] = list[n] => m = n
    BY <1>3, <1>5 DEF Distinct
  <2>3. CASE i = 1 \/ j = 1
    <3>1. \A m \in 1 .. Len(l) : m = 1 \/ m \in 2 .. Len(l)  BY <1>1, <1>3
    <3> QED BY <3>1, <2>3, <2>1, <1>1
  <2>4. CASE i \in 2 .. Len(l) /\ j \in 2 .. Len(l) 
    <3>1. i - 1 = j - 1 BY Zenon, <2>4, <2>1, <2>2
    <3> QED BY <3>1
  <2> QED BY <2>3, <2>4, <1>1, <1>3
<1> QED BY <1>1, <1>4, <1>5 DEF l

(***************************************************************************)
(* list_remove of an element takes out that one and nothing else.          *)
(***************************************************************************)
LEMMA RemoveList ==
  ASSUME NEW S, NEW list \in Seq(S), NEW t, elem_find(list, t), Distinct(list)
  PROVE  /\ list_remove(list, t) \in Seq(S) /\ Distinct(list_remove(list, t))
         /\ \A u : elem_find(list_remove(list, t), u) <=> u # t /\ elem_find(list, u)
<1> DEFINE at == CHOOSE i \in DOMAIN list : list[i] = t
           l == [i \in 1 .. (Len(list) - 1) |-> IF i < at THEN list[i] ELSE list[i + 1]]
<1>1. DOMAIN list = 1 .. Len(list) /\ Len(list) \in Nat
      /\ \A i \in DOMAIN list : list[i] \in S
  OBVIOUS
<1>2. at \in DOMAIN list /\ list[at] = t
  BY DEF elem_find
<1>3. list_remove(list, t) = l  BY DEF list_remove
<1> HIDE DEF at
<1>4. Len(list) - 1 \in Nat /\ at \in Nat /\ at <= Len(list)
  BY <1>1, <1>2
<1>5. /\ l \in Seq(S) /\ DOMAIN l = 1 .. (Len(list) - 1)
      /\ \A i \in 1 .. (Len(list) - 1) : l[i] = IF i < at THEN list[i] ELSE list[i + 1]
  BY <1>1, <1>4
<1> HIDE DEF l
<1>6. \A i, j \in 1 .. Len(list) : list[i] = list[j] => i = j
  BY <1>1 DEF Distinct
<1>7. \A i \in 1 .. (Len(list) - 1) : l[i] # t
  BY <1>1, <1>2, <1>4, <1>5, <1>6
<1>8. Distinct(l)
  BY <1>4, <1>5, <1>6 DEF Distinct
<1>9. ASSUME NEW u, elem_find(l, u) PROVE u # t /\ elem_find(list, u)
  <2>1. PICK i \in 1 .. (Len(list) - 1) : l[i] = u  BY Zenon, <1>5, <1>9 DEF elem_find
  <2>2. l[i] = list[i] \/ l[i] = list[i + 1]  BY <1>5, <2>1
  <2>3. i \in DOMAIN list /\ i + 1 \in DOMAIN list  BY <1>1, <2>1
  <2> QED BY <1>7, <2>1, <2>2, <2>3 DEF elem_find
<1>10. ASSUME NEW u, u # t, elem_find(list, u) PROVE elem_find(l, u)
  <2>1. PICK i \in 1 .. Len(list) : list[i] = u  BY Zenon, <1>1, <1>10 DEF elem_find
  <2>2. CASE i < at
    <3>1. i \in 1 .. (Len(list) - 1) /\ l[i] = u  BY <1>4, <1>5, <2>1, <2>2
    <3> QED BY <1>5, <3>1 DEF elem_find
  <2>3. CASE i > at
    <3>1. i - 1 \in 1 .. (Len(list) - 1) /\ ~(i - 1 < at) /\ (i - 1) + 1 = i
      BY <1>1, <1>2, <1>4, <2>1, <2>3
    <3>2. l[i - 1] = u  BY Zenon, <1>5, <2>1, <3>1
    <3> QED BY Zenon, <1>5, <3>1, <3>2 DEF elem_find
  <2>4. i # at  BY Zenon, <1>2, <1>10, <2>1
  <2> QED BY <1>4, <2>1, <2>2, <2>3, <2>4
<1> QED BY <1>3, <1>5, <1>8, <1>9, <1>10

(***************************************************************************)
(* Each search for the first free thing finds one, if there is one.        *)
(***************************************************************************)
LEMMA MinIn ==
  ASSUME NEW S, S \subseteq Nat, S # {}
  PROVE  Min(S) \in S
<1>1. \E x \in S : \A y \in S : x <= y  BY Zenon, LeastNumber
<1> QED BY Zenon, <1>1 DEF Min

(***************************************************************************)
(* What get_free_slot_in_global and sys_malloc return is free.             *)
(***************************************************************************)
LEMMA FreeFound ==
  /\ FreeSlots # {} => /\ get_free_slot_in_global \in GlobalFds
                       /\ file_table[get_free_slot_in_global].fd_inode = NULL
  /\ FreeObjects # {} => sys_malloc \in Objects /\ inode[sys_malloc] = FREE_INODE
<1>1. FreeSlots \subseteq Nat  BY FilesAssumption DEF FreeSlots, GlobalFds
<1>2. FreeObjects \subseteq Nat  BY FilesAssumption DEF FreeObjects
<1>3. FreeSlots # {} => get_free_slot_in_global \in FreeSlots
  BY Zenon, <1>1, MinIn DEF get_free_slot_in_global
<1>4. FreeObjects # {} => sys_malloc \in FreeObjects
  BY Zenon, <1>2, MinIn DEF sys_malloc
<1> QED BY Zenon, <1>3, <1>4 DEF FreeSlots, FreeObjects

\* The descriptors of one process.
FdTable == [0 .. (MAX_FILES_OPEN_PER_PROC - 1) -> Int]

(***************************************************************************)
(* pcb_fd_install fills in one free descriptor, or none if all are taken.  *)
(***************************************************************************)
LEMMA Install ==
  ASSUME NEW fds \in FdTable, NEW slot \in Int
  PROVE  \/ pcb_fd_install(fds, slot) = fds /\ \A fd \in LocalFds : fds[fd] # -1
         \/ \E free \in LocalFds : fds[free] = -1 /\ pcb_fd_install(fds, slot) = [fds EXCEPT ![free] = slot]
<1> DEFINE free == {fd \in LocalFds : fds[fd] = -1}
<1>1. free \subseteq Nat  BY DEF LocalFds
<1>2. CASE free = {}  BY <1>2 DEF pcb_fd_install
<1>3. CASE free # {}
  <2>1. Min(free) \in free
    <3> HIDE DEF free
    <3> QED BY Zenon, <1>1, <1>3, MinIn
  <2>2. pcb_fd_install(fds, slot) = [fds EXCEPT ![Min(free)] = slot]
    BY Zenon, <1>3 DEF pcb_fd_install
  <2> QED BY Zenon, <2>1, <2>2
<1> QED BY Zenon, <1>2, <1>3

(***************************************************************************)
(* What pcb_fd_install makes of a table of descriptors is one again.       *)
(***************************************************************************)
LEMMA InstallType ==
  ASSUME NEW fds \in FdTable, NEW slot \in GlobalFds,
         \A fd \in LocalFds : fds[fd] \in GlobalFds \cup {-1}
  PROVE  /\ pcb_fd_install(fds, slot) \in FdTable
         /\ \A fd \in LocalFds : pcb_fd_install(fds, slot)[fd] \in GlobalFds \cup {-1}
<1>1. slot \in Int  BY DEF GlobalFds
<1>2. LocalFds \subseteq 0 .. (MAX_FILES_OPEN_PER_PROC - 1)  BY FilesAssumption DEF LocalFds
<1>3. CASE pcb_fd_install(fds, slot) = fds  BY Zenon, <1>3
<1>4. ASSUME NEW free \in LocalFds, pcb_fd_install(fds, slot) = [fds EXCEPT ![free] = slot]
      PROVE  /\ pcb_fd_install(fds, slot) \in FdTable
             /\ \A fd \in LocalFds : pcb_fd_install(fds, slot)[fd] \in GlobalFds \cup {-1}
  BY <1>1, <1>2, <1>4 DEF FdTable
<1> QED BY Zenon, <1>1, <1>3, <1>4, Install

-----------------------------------------------------------------------------
(***************************************************************************)
(* Types.  First the constants of the model.                               *)
(***************************************************************************)
LEMMA Constants ==
  /\ NoCall \in Call /\ FREE_INODE \in Inode /\ EMPTY_FILE \in File
  /\ new_fd_table \in FdTable /\ \A fd \in LocalFds : new_fd_table[fd] = -1
  /\ LocalFds \subseteq 0 .. (MAX_FILES_OPEN_PER_PROC - 1) /\ LocalFds \subseteq Nat
  /\ GlobalFds \subseteq 0 .. (MAX_FILE_OPEN - 1) /\ GlobalFds \subseteq Nat
  /\ 0 \notin Inodes /\ NULL \notin Objects /\ RING \notin Objects /\ RING # NULL
  /\ -1 \notin GlobalFds
<1> USE FilesAssumption
<1>1. NoCall \in Call /\ FREE_INODE \in Inode /\ EMPTY_FILE \in File
  BY DEF NoCall, Call, FREE_INODE, Inode, EMPTY_FILE, File, NULL, O_RDONLY
<1>2. new_fd_table \in FdTable /\ \A fd \in LocalFds : new_fd_table[fd] = -1
  BY DEF new_fd_table, FdTable, LocalFds
<1>3. /\ LocalFds \subseteq 0 .. (MAX_FILES_OPEN_PER_PROC - 1) /\ LocalFds \subseteq Nat
      /\ GlobalFds \subseteq 0 .. (MAX_FILE_OPEN - 1) /\ GlobalFds \subseteq Nat
      /\ -1 \notin GlobalFds
  BY DEF LocalFds, GlobalFds
<1>4. 0 \notin Inodes /\ NULL \notin Objects /\ RING \notin Objects /\ RING # NULL
  BY DEF NULL, RING
<1> QED BY Zenon, <1>1, <1>2, <1>3, <1>4

Types == TypeOK /\ FdsOK /\ FlagsOK /\ CallsOK

(***************************************************************************)
(* A file gets an entry of the file table: the end of file_open.           *)
(***************************************************************************)
LEMMA TypesFinishOpen ==
  ASSUME TypeOK, FdsOK, FlagsOK, NEW p \in Procs, NEW slot \in GlobalFds, NEW obj \in Objects,
         NEW flag \in {0, 1}, NEW inodes \in [Objects -> Inode],
         finish_open(p, slot, obj, flag, inodes)
  PROVE  /\ file_table' \in [0 .. (MAX_FILE_OPEN - 1) -> File]
         /\ fd_table' \in [Procs -> FdTable]
         /\ inode' \in [Objects -> Inode]
         /\ FdsOK' /\ FlagsOK'
<1>1. flag \in {O_RDONLY, O_WRONLY} /\ flag # PIPE_FLAG
  BY DEF O_RDONLY, O_WRONLY, PIPE_FLAG
<1>2. file_table' = [file_table EXCEPT ![slot] = [fd_inode |-> obj, fd_flag |-> flag, fd_pos |-> 0]]
  BY DEF finish_open
<1>3. file_table' \in [0 .. (MAX_FILE_OPEN - 1) -> File]
  BY <1>1, <1>2, Constants DEF TypeOK, File
<1>4. FlagsOK'
  BY <1>1, <1>2, Constants DEF TypeOK, FlagsOK
<1>5. inode' \in [Objects -> Inode]
  BY DEF finish_open, Inode
<1>6. PICK denied \in BOOLEAN :
        fd_table' = [fd_table EXCEPT ![p] = IF denied THEN @ ELSE pcb_fd_install(@, slot)]
  BY DEF finish_open
<1>7. fd_table[p] \in FdTable /\ \A fd \in LocalFds : fd_table[p][fd] \in GlobalFds \cup {-1}
  BY DEF TypeOK, FdsOK, FdTable
<1>8. /\ pcb_fd_install(fd_table[p], slot) \in FdTable
      /\ \A fd \in LocalFds : pcb_fd_install(fd_table[p], slot)[fd] \in GlobalFds \cup {-1}
  BY <1>7, InstallType
<1>9. fd_table' \in [Procs -> FdTable] /\ FdsOK'
  BY <1>6, <1>7, <1>8 DEF TypeOK, FdsOK, FdTable
<1> QED BY Zenon, <1>3, <1>4, <1>5, <1>9

(***************************************************************************)
(* Steps that only move a call along.                                      *)
(***************************************************************************)
LEMMA TypesCall ==
  ASSUME Types, UNCHANGED <<alive, fd_table, file_table, inode, open_inodes, stopped, shared>>,
         overlapped' \in BOOLEAN, used' \subseteq Inodes, named' \subseteq Inodes,
         call' \in [Procs -> Call], CallsOK'
  PROVE  Types'
BY DEF Types, TypeOK, FdsOK, FlagsOK

(***************************************************************************)
(* A call begins: everything but overlapped is as before.                  *)
(***************************************************************************)
LEMMA EntersType ==
  ASSUME TypeOK, NEW p \in Procs, Enters(p) \/ (\E op : Resumes(p, op))
  PROVE  overlapped' \in BOOLEAN
BY DEF Enters, Resumes, TypeOK

(***************************************************************************)
(* sys_open, whether or not the inode is in memory.                        *)
(***************************************************************************)
LEMMA TypesOpen ==
  ASSUME Types, NEW p \in Procs, NEW no \in Inodes, NEW flag \in Flags, sys_open(p, no, flag)
  PROVE  Types'
<1> DEFINE slot == get_free_slot_in_global
<1>1. slot \in GlobalFds /\ overlapped' \in BOOLEAN /\ p \in alive /\ call[p] = NoCall
  BY FreeFound, EntersType DEF sys_open, Types, Enters
<1>2. TypeOK /\ FdsOK /\ FlagsOK /\ CallsOK  BY DEF Types
<1>3. UNCHANGED <<alive, open_inodes, used, named, stopped, shared>>
  BY DEF sys_open
<1> HIDE DEF slot
<1>4. CASE Cached(no) # {}
  <2> DEFINE obj == open_inodes[Min(Cached(no))]
             inodes == [inode EXCEPT ![obj].i_open_cnts = @ + 1]
  <2>1. obj \in Objects
    <3>1. Cached(no) \subseteq DOMAIN open_inodes /\ DOMAIN open_inodes \subseteq Nat
      BY <1>2 DEF Cached, TypeOK
    <3>2. Min(Cached(no)) \in DOMAIN open_inodes
      BY Zenon, <1>4, <3>1, MinIn
    <3> QED BY <1>2, <3>2 DEF TypeOK
  <2>2. finish_open(p, slot, obj, flag, inodes) /\ UNCHANGED call
    BY <1>4 DEF sys_open, slot
  <2> HIDE DEF obj
  <2>3. inodes \in [Objects -> Inode]
    <3>1. inode \in [Objects -> Inode]  BY Zenon, <1>2 DEF TypeOK
    <3> QED BY <2>1, <3>1 DEF Inode
  <2> HIDE DEF inodes
  <2>4. /\ file_table' \in [0 .. (MAX_FILE_OPEN - 1) -> File]
        /\ fd_table' \in [Procs -> FdTable] /\ inode' \in [Objects -> Inode]
        /\ FdsOK' /\ FlagsOK'
    <3>1. flag \in {0, 1}  BY FilesAssumption
    <3> QED BY Zenon, <1>1, <1>2, <2>1, <2>2, <2>3, <3>1, TypesFinishOpen
  <2>5. CallsOK'  BY Zenon, <1>2, <1>3, <2>2 DEF CallsOK
  <2> QED BY Zenon, <1>1, <1>2, <1>3, <2>2, <2>4, <2>5 DEF Types, TypeOK, FdTable
<1>5. CASE Cached(no) = {}
  <2>1. /\ call' = [call EXCEPT ![p] = [NoCall EXCEPT !.op = "open", !.no = no, !.flag = flag, !.slot = slot]]
        /\ UNCHANGED <<file_table, inode, fd_table>>
    BY <1>5 DEF sys_open, slot
  <2>2. call' \in [Procs -> Call]
    <3>1. slot \in Nat /\ flag \in {0, 1}  BY <1>1, Constants, FilesAssumption DEF GlobalFds
    <3>2. [NoCall EXCEPT !.op = "open", !.no = no, !.flag = flag, !.slot = slot] \in Call
      BY Zenon, <3>1 DEF Call, NoCall
    <3>3. call \in [Procs -> Call]  BY Zenon, <1>2 DEF TypeOK
    <3> QED BY Zenon, <2>1, <3>2, <3>3
  <2>3. CallsOK'
    BY <1>1, <1>2, <1>3, <2>1 DEF TypeOK, CallsOK, NoCall, NULL
  <2> QED BY Zenon, <1>1, <1>2, <1>3, <2>1, <2>2, <2>3, TypesCall DEF TypeOK
<1> QED BY Zenon, <1>4, <1>5

(***************************************************************************)
(* Its end after the read, which enters the inode in the list.             *)
(***************************************************************************)
LEMMA TypesRead ==
  ASSUME Types, NEW p \in Procs, inode_read(p)
  PROVE  Types'
<1> DEFINE obj == sys_malloc
           inodes == [inode EXCEPT ![obj] = [i_no |-> call[p].no, i_open_cnts |-> 1, write_deny |-> FALSE]]
<1>1. /\ obj \in Objects /\ overlapped' \in BOOLEAN /\ call[p].op = "open"
      /\ finish_open(p, call[p].slot, obj, call[p].flag, inodes)
      /\ open_inodes' = list_push(open_inodes, obj)
      /\ call' = [call EXCEPT ![p] = NoCall]
      /\ UNCHANGED <<alive, used, named, stopped, shared>>
  BY FreeFound, EntersType DEF inode_read, Types, Resumes
<1>2. TypeOK /\ FdsOK /\ FlagsOK /\ CallsOK  BY DEF Types
<1>3. call[p].slot \in GlobalFds /\ call[p].no \in Inodes
  BY <1>1, <1>2 DEF CallsOK
<1>4. call[p].flag \in {0, 1}  BY <1>2 DEF TypeOK, Call
<1>5. inodes \in [Objects -> Inode]
  BY <1>1, <1>2, <1>3 DEF TypeOK, Inode
<1> HIDE DEF obj, inodes
<1>6. /\ file_table' \in [0 .. (MAX_FILE_OPEN - 1) -> File]
      /\ fd_table' \in [Procs -> FdTable] /\ inode' \in [Objects -> Inode]
      /\ FdsOK' /\ FlagsOK'
  BY Zenon, <1>1, <1>2, <1>3, <1>4, <1>5, TypesFinishOpen
<1>7. open_inodes' \in Seq(Objects)
  BY <1>1, <1>2, PushList DEF TypeOK
<1>8. call' \in [Procs -> Call]
  BY <1>1, <1>2, Constants DEF TypeOK
<1>9. CallsOK'
  BY <1>1, <1>2 DEF TypeOK, CallsOK, NoCall, NULL
<1> QED BY Zenon, <1>1, <1>2, <1>6, <1>7, <1>8, <1>9 DEF Types, TypeOK, FdTable

(***************************************************************************)
(* file_create takes an inode number, a place in memory and an entry.      *)
(***************************************************************************)
LEMMA TypesCreate ==
  ASSUME Types, NEW p \in Procs, file_create(p)
  PROVE  Types'
<1> DEFINE obj == sys_malloc
           no == Min(Inodes \ used)
           slot == get_free_slot_in_global
<1>1. /\ obj \in Objects /\ slot \in GlobalFds /\ overlapped' \in BOOLEAN
      /\ p \in alive /\ call[p] = NoCall
      /\ used' = used \cup {no}
      /\ inode' = [inode EXCEPT ![obj] = [FREE_INODE EXCEPT !.i_no = no]]
      /\ file_table' = [file_table EXCEPT ![slot] =
                          [fd_inode |-> obj, fd_flag |-> O_RDONLY, fd_pos |-> 0]]
      /\ call' = [call EXCEPT ![p] = [NoCall EXCEPT !.op = "create", !.no = no,
                                                        !.slot = slot, !.obj = obj]]
      /\ UNCHANGED <<alive, fd_table, open_inodes, named, stopped, shared>>
  BY FreeFound, EntersType DEF file_create, Types, Enters
<1>2. TypeOK /\ FdsOK /\ FlagsOK /\ CallsOK  BY DEF Types
<1>3. no \in Inodes
  <2>1. Inodes \ used \subseteq Nat /\ Inodes \ used # {}  BY FilesAssumption DEF file_create
  <2> DEFINE S == Inodes \ used
  <2> HIDE DEF S
  <2>2. Min(S) \in S  BY Zenon, <2>1, MinIn DEF S
  <2> QED BY <2>2 DEF S
<1> HIDE DEF obj, no, slot
<1>4. inode' \in [Objects -> Inode]
  <2>1. inode \in [Objects -> Inode]  BY Zenon, <1>2 DEF TypeOK
  <2>2. [FREE_INODE EXCEPT !.i_no = no] \in Inode  BY <1>3, Constants DEF Inode
  <2> QED BY Zenon, <1>1, <2>1, <2>2
<1>5. file_table' \in [0 .. (MAX_FILE_OPEN - 1) -> File] /\ FlagsOK'
  BY <1>1, <1>2, Constants DEF TypeOK, File, FlagsOK, O_RDONLY, PIPE_FLAG
<1>6. call' \in [Procs -> Call]
  BY <1>1, <1>2, <1>3, Constants DEF TypeOK, Call, NoCall
<1>7. CallsOK'
  BY <1>1, <1>2, <1>3, Constants DEF TypeOK, CallsOK, NoCall
<1> QED BY <1>1, <1>2, <1>3, <1>4, <1>5, <1>6, <1>7 DEF Types, TypeOK, FdsOK

(***************************************************************************)
(* Its end, which enters the inode in the list and installs a descriptor.  *)
(***************************************************************************)
LEMMA TypesCreateDone ==
  ASSUME Types, NEW p \in Procs, create_done(p)
  PROVE  Types'
<1>1. /\ overlapped' \in BOOLEAN /\ call[p].op = "create"
      /\ open_inodes' = list_push(open_inodes, call[p].obj)
      /\ inode' = [inode EXCEPT ![call[p].obj].i_open_cnts = 1]
      /\ fd_table' = [fd_table EXCEPT ![p] = pcb_fd_install(@, call[p].slot)]
      /\ call' = [call EXCEPT ![p] = NoCall]
      /\ UNCHANGED <<alive, file_table, used, named, stopped, shared>>
  BY EntersType DEF create_done, Types, Resumes
<1>2. TypeOK /\ FdsOK /\ FlagsOK /\ CallsOK  BY DEF Types
<1>3. call[p].slot \in GlobalFds /\ call[p].obj \in Objects
  BY <1>1, <1>2 DEF CallsOK, TypeOK, Call
<1>4. open_inodes' \in Seq(Objects)
  BY <1>1, <1>2, <1>3, PushList DEF TypeOK
<1>5. inode' \in [Objects -> Inode]
  <2>1. inode \in [Objects -> Inode]  BY Zenon, <1>2 DEF TypeOK
  <2>2. [inode[call[p].obj] EXCEPT !.i_open_cnts = 1] \in Inode  BY <1>3, <2>1 DEF Inode
  <2> QED BY Zenon, <1>1, <1>3, <2>1, <2>2
<1>6. fd_table[p] \in FdTable /\ \A fd \in LocalFds : fd_table[p][fd] \in GlobalFds \cup {-1}
  BY <1>2 DEF TypeOK, FdsOK, FdTable
<1>7. /\ pcb_fd_install(fd_table[p], call[p].slot) \in FdTable
      /\ \A fd \in LocalFds : pcb_fd_install(fd_table[p], call[p].slot)[fd] \in GlobalFds \cup {-1}
  BY <1>3, <1>6, InstallType
<1>8. fd_table' \in [Procs -> FdTable] /\ FdsOK'
  BY <1>1, <1>2, <1>7 DEF TypeOK, FdsOK, FdTable
<1>9. call' \in [Procs -> Call]
  BY <1>1, <1>2, Constants DEF TypeOK
<1>10. CallsOK'
  BY <1>1, <1>2 DEF TypeOK, CallsOK, NoCall, NULL
<1> QED BY <1>1, <1>2, <1>4, <1>5, <1>8, <1>9, <1>10 DEF Types, TypeOK, FdTable, FlagsOK

(***************************************************************************)
(* An entry of a file is among the holders of its inode.                   *)
(***************************************************************************)
LEMMA EntryHolds ==
  ASSUME TypeOK, NEW slot \in GlobalFds, NEW obj \in Objects, file_table[slot].fd_inode = obj
  PROVE  slot \in Holders(obj) /\ inode[obj].i_open_cnts \in Int
<1>1. slot \in Holders(obj)  BY DEF Holders
<1>2. inode[obj].i_open_cnts \in Int  BY DEF TypeOK, Inode
<1> QED BY <1>1, <1>2

(***************************************************************************)
(* A descriptor is closed: four things can happen.  It was free; it was a  *)
(* pipe's; a NULL pointer stops the system; or it was a file's,            *)
(* whose inode loses a count or leaves the list.                           *)
(***************************************************************************)
ClosesNothing(p, fd) ==
  /\ fd_table[p][fd] = -1 /\ UNCHANGED <<file_table, inode, open_inodes, stopped>>

ClosesPipe(p, fd) ==
  LET slot == fd_table[p][fd]
  IN  /\ slot \in GlobalFds /\ file_table[slot].fd_flag = PIPE_FLAG
      /\ close_pipe(slot) /\ UNCHANGED stopped

ClosesFile(p, fd) ==
  LET slot == fd_table[p][fd]
  IN  /\ slot \in GlobalFds /\ file_table[slot].fd_flag # PIPE_FLAG
      /\ file_table[slot].fd_inode \in Objects /\ ~StopsAt(slot)
      /\ file_close(slot) /\ UNCHANGED stopped

Faults(p, fd) ==
  LET slot == fd_table[p][fd]
  IN  /\ slot \in GlobalFds /\ file_table[slot].fd_flag # PIPE_FLAG /\ StopsAt(slot)
      /\ stopped' = TRUE /\ UNCHANGED <<fd_table, file_table, inode, open_inodes>>

(***************************************************************************)
(* Closing a descriptor finds nothing to close, the entry of a pipe, that  *)
(* of a file, or a NULL pointer, and then the kernel faults.               *)
(***************************************************************************)
LEMMA CloseCases ==
  ASSUME TypeOK, FdsOK, FlagsOK, NEW p \in Procs, NEW fd \in LocalFds, NEW fds, close_fd(p, fd, fds)
  PROVE  \/ Faults(p, fd)
         \/ /\ fd_table' = [fd_table EXCEPT ![p] = fds]
            /\ ClosesNothing(p, fd) \/ ClosesPipe(p, fd) \/ ClosesFile(p, fd)
<1> DEFINE slot == fd_table[p][fd]
<1>1. slot \in GlobalFds \cup {-1}  BY DEF FdsOK
<1>2. slot # -1 => slot \in GlobalFds  BY <1>1
<1>3. slot # -1 /\ file_table[slot].fd_flag # PIPE_FLAG =>
        file_table[slot].fd_inode = NULL \/ file_table[slot].fd_inode \in Objects
  BY <1>2 DEF FlagsOK
<1>4. file_table[slot].fd_inode = NULL => StopsAt(slot)  BY Zenon DEF StopsAt
<1> QED BY Zenon, <1>2, <1>3, <1>4 DEF close_fd, is_pipe, Faults, ClosesNothing, ClosesPipe, ClosesFile

(***************************************************************************)
(* The tables that closing a file leaves.                                  *)
(***************************************************************************)
LEMMA FileClosed ==
  ASSUME Good, NEW slot \in GlobalFds, NEW obj \in Objects, file_table[slot].fd_inode = obj,
         ~StopsAt(slot), file_close(slot)
  PROVE  /\ file_table' = [file_table EXCEPT ![slot].fd_inode = NULL]
         /\ file_table' \in [0 .. (MAX_FILE_OPEN - 1) -> File]
         /\ inode' \in [Objects -> Inode]
         /\ open_inodes' \in Seq(Objects) /\ Distinct(open_inodes')
         /\ \A o \in Objects : o # obj => inode'[o] = inode[o]
         /\ \/ /\ inode[obj].i_open_cnts = 1 /\ inode' = [inode EXCEPT ![obj] = FREE_INODE]
               /\ elem_find(open_inodes, obj)
               /\ \A o : elem_find(open_inodes', o) <=> o # obj /\ elem_find(open_inodes, o)
            \/ /\ inode[obj].i_open_cnts # 1 /\ UNCHANGED open_inodes
               /\ inode'[obj].i_no = inode[obj].i_no
               /\ inode'[obj].i_open_cnts = inode[obj].i_open_cnts - 1
<1>1. /\ TypeOK /\ CallsOK /\ CreatingOK /\ ListOK /\ inode \in [Objects -> Inode]
      /\ open_inodes \in Seq(Objects) /\ Distinct(open_inodes)
      /\ file_table \in [0 .. (MAX_FILE_OPEN - 1) -> File]
  BY Zenon DEF Good, TypeOK, ListOK
<1> DEFINE inodes == [inode EXCEPT ![obj].write_deny = FALSE]
<1>2. inode_close(inodes, obj) /\ file_table' = [file_table EXCEPT ![slot].fd_inode = NULL]
  BY DEF file_close
<1>3. file_table' \in [0 .. (MAX_FILE_OPEN - 1) -> File]
  <2>1. [file_table[slot] EXCEPT !.fd_inode = NULL] \in File  BY <1>1, Constants DEF File
  <2> QED BY Zenon, <1>1, <1>2, <2>1
<1>4. /\ inodes \in [Objects -> Inode] /\ \A o \in Objects : o # obj => inodes[o] = inode[o]
      /\ inodes[obj].i_no = inode[obj].i_no /\ inodes[obj].i_open_cnts = inode[obj].i_open_cnts
      /\ [inodes EXCEPT ![obj] = FREE_INODE] = [inode EXCEPT ![obj] = FREE_INODE]
  BY <1>1 DEF Inode
<1>5. inode[obj].i_open_cnts = 1 => elem_find(open_inodes, obj)
  BY Zenon DEF StopsAt
<1> HIDE DEF inodes
<1>6. CASE inode[obj].i_open_cnts = 1
  <2>1. /\ inode' = [inodes EXCEPT ![obj] = FREE_INODE]
        /\ open_inodes' = list_remove(open_inodes, obj)
    BY Zenon, <1>2, <1>4, <1>6 DEF inode_close
  <2>2. /\ open_inodes' \in Seq(Objects) /\ Distinct(open_inodes')
        /\ \A o : elem_find(open_inodes', o) <=> o # obj /\ elem_find(open_inodes, o)
    BY Zenon, <1>1, <1>5, <1>6, <2>1, RemoveList
  <2>3. inode' \in [Objects -> Inode] /\ \A o \in Objects : o # obj => inode'[o] = inode[o]
    BY Zenon, <1>4, <2>1, Constants
  <2> QED BY Zenon, <1>2, <1>3, <1>4, <1>5, <1>6, <2>1, <2>2, <2>3
<1>7. CASE inode[obj].i_open_cnts # 1
  <2>1. inode' = [inodes EXCEPT ![obj].i_open_cnts = @ - 1] /\ open_inodes' = open_inodes
    BY Zenon, <1>2, <1>4, <1>7 DEF inode_close
  <2>2. /\ inode' \in [Objects -> Inode] /\ \A o \in Objects : o # obj => inode'[o] = inode[o]
        /\ inode'[obj].i_no = inode[obj].i_no
        /\ inode'[obj].i_open_cnts = inode[obj].i_open_cnts - 1
    BY <1>4, <2>1 DEF Inode
  <2> QED BY Zenon, <1>1, <1>2, <1>3, <1>7, <2>1, <2>2
<1> QED BY Zenon, <1>6, <1>7

\* The entry of a pipe after one of its descriptors is closed.
PipeLess(f) == [f EXCEPT !.fd_pos = @ - 1, !.fd_inode = IF f.fd_pos = 1 THEN NULL ELSE @]

(***************************************************************************)
(* Closing one descriptor of a pipe takes one off its count and gives the  *)
(* entry up with the last.                                                 *)
(***************************************************************************)
LEMMA PipeEntry ==
  ASSUME NEW f \in File
  PROVE  /\ PipeLess(f) \in File /\ PipeLess(f).fd_flag = f.fd_flag
         /\ PipeLess(f).fd_pos = f.fd_pos - 1
         /\ PipeLess(f).fd_inode = IF f.fd_pos = 1 THEN NULL ELSE f.fd_inode
<1>1. f.fd_pos \in Int /\ f.fd_inode \in Objects \cup {NULL, RING}  BY DEF File
<1> DEFINE r == [f EXCEPT !.fd_pos = @ - 1, !.fd_inode = IF f.fd_pos = 1 THEN NULL ELSE @]
           less == [f EXCEPT !.fd_pos = f.fd_pos - 1]
           at == IF f.fd_pos = 1 THEN NULL ELSE f.fd_inode
<1>2. r.fd_flag = f.fd_flag  BY DEF File
<1>3. r.fd_pos = f.fd_pos - 1  BY DEF File
<1>4. r.fd_inode = at  BY DEF File
<1>5. less \in File  BY <1>1 DEF File
<1>6. r = [less EXCEPT !.fd_inode = at]  BY DEF File
<1> HIDE DEF less, r
<1>7. [less EXCEPT !.fd_inode = at] \in File  BY <1>1, <1>5 DEF File
<1>8. r \in File  BY <1>6, <1>7
<1> QED BY <1>2, <1>3, <1>4, <1>8 DEF PipeLess, r

(***************************************************************************)
(* The types after a descriptor is closed.                                 *)
(***************************************************************************)
LEMMA TypesClose ==
  ASSUME Good, NEW p \in Procs, NEW fd \in LocalFds, NEW fds \in FdTable,
         \A x \in LocalFds : fds[x] \in GlobalFds \cup {-1}, close_fd(p, fd, fds)
  PROVE  /\ file_table' \in [0 .. (MAX_FILE_OPEN - 1) -> File]
         /\ fd_table' \in [Procs -> FdTable] /\ inode' \in [Objects -> Inode]
         /\ open_inodes' \in Seq(Objects) /\ stopped' \in BOOLEAN
         /\ FdsOK' /\ FlagsOK'
<1>1. /\ TypeOK /\ FdsOK /\ FlagsOK /\ inode \in [Objects -> Inode]
      /\ open_inodes \in Seq(Objects) /\ stopped \in BOOLEAN
      /\ file_table \in [0 .. (MAX_FILE_OPEN - 1) -> File]
      /\ fd_table \in [Procs -> FdTable]
  BY Zenon DEF Good, TypeOK, FdTable
<1>2. CASE Faults(p, fd)
  BY Zenon, <1>1, <1>2 DEF Faults, FdsOK, FlagsOK
<1>3. CASE fd_table' = [fd_table EXCEPT ![p] = fds]
  <2>1. fd_table' \in [Procs -> FdTable]  BY Zenon, <1>1, <1>3
  <2>2. FdsOK'
    <3>1. \A q \in Procs : fd_table'[q] = IF q = p THEN fds ELSE fd_table[q]  BY Zenon, <1>1, <1>3
    <3> QED BY Zenon, <1>1, <3>1 DEF FdsOK
  <2>3. CASE ClosesNothing(p, fd)
    BY Zenon, <1>1, <2>1, <2>2, <2>3 DEF ClosesNothing, FlagsOK
  <2>4. CASE ClosesPipe(p, fd)
    <3> DEFINE slot == fd_table[p][fd]
               file == PipeLess(file_table[slot])
    <3>1. /\ slot \in GlobalFds /\ file_table[slot].fd_flag = PIPE_FLAG
          /\ file_table' = [file_table EXCEPT ![slot] = file]
          /\ UNCHANGED <<inode, open_inodes, stopped>>
      BY Zenon, <2>4 DEF ClosesPipe, close_pipe, PipeLess
    <3>2. slot \in 0 .. (MAX_FILE_OPEN - 1)  BY <3>1, Constants
    <3> HIDE DEF slot
    <3>3. file_table[slot] \in File  BY Zenon, <1>1, <3>2
    <3>4. /\ file \in File /\ file.fd_flag = PIPE_FLAG
          /\ file.fd_inode \in {NULL, file_table[slot].fd_inode}
      BY Zenon, <3>1, <3>3, PipeEntry
    <3> HIDE DEF file
    <3>5. file_table' \in [0 .. (MAX_FILE_OPEN - 1) -> File]
      BY Zenon, <1>1, <3>1, <3>4
    <3>6. \A s \in GlobalFds : file_table'[s] = IF s = slot THEN file ELSE file_table[s]
      <4>1. GlobalFds \subseteq 0 .. (MAX_FILE_OPEN - 1)  BY Zenon, Constants
      <4> QED BY Zenon, <1>1, <3>1, <4>1
    <3>7. FlagsOK'
      BY Zenon, <1>1, <3>1, <3>4, <3>6 DEF FlagsOK
    <3> QED BY Zenon, <1>1, <2>1, <2>2, <3>1, <3>5, <3>7
  <2>5. CASE ClosesFile(p, fd)
    <3> DEFINE slot == fd_table[p][fd]
               obj == file_table[slot].fd_inode
    <3>1. /\ slot \in GlobalFds /\ obj \in Objects /\ ~StopsAt(slot)
          /\ file_close(slot) /\ UNCHANGED stopped
      BY Zenon, <2>5 DEF ClosesFile
    <3> HIDE DEF slot
    <3>2. /\ file_table' = [file_table EXCEPT ![slot].fd_inode = NULL]
          /\ file_table' \in [0 .. (MAX_FILE_OPEN - 1) -> File]
          /\ inode' \in [Objects -> Inode] /\ open_inodes' \in Seq(Objects)
      <4> HIDE DEF obj
      <4>1. file_table[slot].fd_inode = obj  BY DEF obj
      <4> QED BY Zenon, <3>1, <4>1, FileClosed
    <3>3. FlagsOK'
      BY <1>1, <3>1, <3>2, Constants DEF FlagsOK, File
    <3> QED BY Zenon, <1>1, <2>1, <2>2, <3>1, <3>2, <3>3
  <2>6. ClosesNothing(p, fd) \/ ClosesPipe(p, fd) \/ ClosesFile(p, fd) \/ Faults(p, fd)
    BY Zenon, <1>1, CloseCases
  <2> QED BY Zenon, <1>2, <2>3, <2>4, <2>5, <2>6
<1> QED BY Zenon, <1>1, <1>2, <1>3, CloseCases

(***************************************************************************)
(* sys_close keeps the types and what the descriptors refer to.            *)
(***************************************************************************)
LEMMA TypesSysClose ==
  ASSUME Good, NEW p \in Procs, NEW fd \in LocalFds, sys_close(p, fd)
  PROVE  Types'
<1>1. /\ TypeOK /\ CallsOK /\ FdsOK /\ overlapped' \in BOOLEAN
      /\ UNCHANGED <<alive, used, named, call, shared>>
      /\ close_fd(p, fd, [fd_table[p] EXCEPT ![fd] = -1])
  BY EntersType DEF Good, sys_close
<1> DEFINE fds == [fd_table[p] EXCEPT ![fd] = -1]
<1>2. fds \in FdTable /\ \A x \in LocalFds : fds[x] \in GlobalFds \cup {-1}
  <2>1. fd_table[p] \in FdTable  BY <1>1 DEF TypeOK, FdTable
  <2> QED BY <1>1, <2>1, Constants DEF FdTable, FdsOK
<1> HIDE DEF fds
<1>3. close_fd(p, fd, fds)  BY <1>1 DEF fds
<1>4. /\ file_table' \in [0 .. (MAX_FILE_OPEN - 1) -> File]
      /\ fd_table' \in [Procs -> FdTable] /\ inode' \in [Objects -> Inode]
      /\ open_inodes' \in Seq(Objects) /\ stopped' \in BOOLEAN
      /\ FdsOK' /\ FlagsOK'
  BY Zenon, <1>2, <1>3, TypesClose
<1>5. CallsOK'  BY Zenon, <1>1 DEF CallsOK
<1> QED BY Zenon, <1>1, <1>4, <1>5 DEF Types, TypeOK, FdTable

(***************************************************************************)
(* A turn of the loop of release_prog_resource.                            *)
(***************************************************************************)
LEMMA TypesExit ==
  ASSUME Good, NEW p \in Procs, sys_exit(p) \/ exit_next(p)
  PROVE  Types'
<1>1. /\ TypeOK /\ CallsOK /\ FdsOK /\ overlapped' \in BOOLEAN
  BY EntersType DEF Good, sys_exit, exit_next
<1>2. PICK fd \in LocalFds : exit_close(p, fd) /\ p \in alive /\ p # shell
  <2>1. CASE sys_exit(p)
    <3>1. 3 \in LocalFds  BY FilesAssumption DEF LocalFds
    <3> QED BY <2>1, <3>1 DEF sys_exit, Enters
  <2>2. CASE exit_next(p)
    <3>1. call[p].op = "exit" /\ exit_close(p, call[p].slot)
      BY <2>2 DEF exit_next, Resumes
    <3> QED BY <1>1, <3>1 DEF CallsOK
  <2> QED BY <2>1, <2>2
<1> DEFINE last == fd = MAX_FILES_OPEN_PER_PROC - 1
           fds == IF last THEN new_fd_table ELSE [fd_table[p] EXCEPT ![fd] = -1]
<1>3. fds \in FdTable /\ \A x \in LocalFds : fds[x] \in GlobalFds \cup {-1}
  <2>1. fd_table[p] \in FdTable  BY <1>1 DEF TypeOK, FdTable
  <2> QED BY <1>1, <2>1, Constants DEF FdTable, FdsOK
<1>4. /\ close_fd(p, fd, fds)
      /\ call' = [call EXCEPT ![p] = IF last THEN NoCall
                                     ELSE [NoCall EXCEPT !.op = "exit", !.slot = fd + 1]]
      /\ alive' = IF last THEN alive \ {p} ELSE alive
      /\ UNCHANGED <<used, named, shared>>
  BY Zenon, <1>2 DEF exit_close
<1> HIDE DEF fds
<1>5. /\ file_table' \in [0 .. (MAX_FILE_OPEN - 1) -> File]
      /\ fd_table' \in [Procs -> FdTable] /\ inode' \in [Objects -> Inode]
      /\ open_inodes' \in Seq(Objects) /\ stopped' \in BOOLEAN
      /\ FdsOK' /\ FlagsOK'
  BY Zenon, <1>3, <1>4, TypesClose
<1>6. alive' \subseteq Procs /\ IsFiniteSet(alive') /\ shell \in alive'
  BY <1>1, <1>2, <1>4, FS_RemoveElement DEF TypeOK
<1>7. call' \in [Procs -> Call]
  <2>1. fd + 1 \in Nat  BY DEF LocalFds
  <2> QED BY <1>1, <1>4, <2>1, Constants DEF TypeOK, Call, NoCall
<1>8. CallsOK'
  <2>1. ~last => fd + 1 \in LocalFds /\ fd + 1 > 3  BY FilesAssumption DEF LocalFds
  <2>2. \A q \in Procs : q # p => (q \in alive' <=> q \in alive)  BY <1>4
  <2> QED BY <1>1, <1>2, <1>4, <2>1, <2>2 DEF CallsOK, TypeOK, NoCall, NULL
<1> QED BY Zenon, <1>1, <1>4, <1>5, <1>6, <1>7, <1>8 DEF Types, TypeOK, FdTable

(***************************************************************************)
(* A set of descriptors or of entries can be counted.                      *)
(***************************************************************************)
LEMMA FdsFinite ==
  ASSUME NEW S, S \subseteq LocalFds \/ S \subseteq GlobalFds
  PROVE  IsFiniteSet(S) /\ Cardinality(S) \in Nat
<1>1. IsFiniteSet(LocalFds) /\ IsFiniteSet(GlobalFds)
  BY FilesAssumption, FS_Interval DEF LocalFds, GlobalFds
<1>2. IsFiniteSet(S)  BY <1>1, FS_Subset
<1> QED BY <1>2, FS_CardinalityType

(***************************************************************************)
(* update_inode_open_cnts only adds to counts.                             *)
(***************************************************************************)
NewRefs(p, slot) == {fd \in CountedFds(p) : fd_table[p][fd] = slot /\ is_pipe(p, fd)}

NewOpens(p, obj) ==
  {fd \in CountedFds(p) : ~is_pipe(p, fd) /\ file_table[fd_table[p][fd]].fd_inode = obj}

(***************************************************************************)
(* What sys_fork counts: one more for each of the copied descriptors that  *)
(* it does not skip, and nothing else of the entries and inodes changes.   *)
(***************************************************************************)
LEMMA ForkCounts ==
  ASSUME TypeOK, NEW p \in Procs
  PROVE  /\ count_pipes(p) \in [0 .. (MAX_FILE_OPEN - 1) -> File]
         /\ count_inodes(p) \in [Objects -> Inode]
         /\ \A slot \in GlobalFds :
              /\ count_pipes(p)[slot].fd_inode = file_table[slot].fd_inode
              /\ count_pipes(p)[slot].fd_flag = file_table[slot].fd_flag
              /\ count_pipes(p)[slot].fd_pos = file_table[slot].fd_pos + Cardinality(NewRefs(p, slot))
         /\ \A obj \in Objects :
              /\ count_inodes(p)[obj].i_no = inode[obj].i_no
              /\ count_inodes(p)[obj].i_open_cnts =
                   inode[obj].i_open_cnts + Cardinality(NewOpens(p, obj))
<1>1. /\ file_table \in [0 .. (MAX_FILE_OPEN - 1) -> File] /\ inode \in [Objects -> Inode]
      /\ GlobalFds \subseteq 0 .. (MAX_FILE_OPEN - 1)
  BY Zenon, Constants DEF TypeOK
<1>2. \A x : Cardinality(NewRefs(p, x)) \in Nat /\ Cardinality(NewOpens(p, x)) \in Nat
  <2> TAKE x
  <2>1. NewRefs(p, x) \subseteq LocalFds /\ NewOpens(p, x) \subseteq LocalFds
    BY Zenon DEF NewRefs, NewOpens, CountedFds
  <2> QED BY Zenon, <2>1, FdsFinite
<1>3. /\ count_pipes(p) = [slot \in 0 .. (MAX_FILE_OPEN - 1) |->
           [file_table[slot] EXCEPT !.fd_pos = @ + Cardinality(NewRefs(p, slot))]]
      /\ count_inodes(p) = [obj \in Objects |->
           [inode[obj] EXCEPT !.i_open_cnts = @ + Cardinality(NewOpens(p, obj))]]
  BY <1>1 DEF count_pipes, count_inodes, NewRefs, NewOpens
<1>4. ASSUME NEW f \in File, NEW n \in Nat
      PROVE  LET r == [f EXCEPT !.fd_pos = @ + n]
             IN r \in File /\ r.fd_inode = f.fd_inode /\ r.fd_flag = f.fd_flag /\ r.fd_pos = f.fd_pos + n
  BY DEF File
<1>5. ASSUME NEW i \in Inode, NEW n \in Nat
      PROVE  LET r == [i EXCEPT !.i_open_cnts = @ + n]
             IN r \in Inode /\ r.i_no = i.i_no /\ r.i_open_cnts = i.i_open_cnts + n
  BY DEF Inode
<1>6. ASSUME NEW slot \in 0 .. (MAX_FILE_OPEN - 1)
      PROVE  /\ count_pipes(p)[slot] \in File
             /\ count_pipes(p)[slot].fd_inode = file_table[slot].fd_inode
             /\ count_pipes(p)[slot].fd_flag = file_table[slot].fd_flag
             /\ count_pipes(p)[slot].fd_pos = file_table[slot].fd_pos + Cardinality(NewRefs(p, slot))
  <2>1. file_table[slot] \in File  BY Zenon, <1>1
  <2>2. count_pipes(p)[slot] = [file_table[slot] EXCEPT !.fd_pos = @ + Cardinality(NewRefs(p, slot))]
    BY Zenon, <1>3
  <2> DEFINE n == Cardinality(NewRefs(p, slot))
  <2>3. n \in Nat  BY Zenon, <1>2
  <2> HIDE DEF n
  <2>4. count_pipes(p)[slot] = [file_table[slot] EXCEPT !.fd_pos = @ + n]  BY Zenon, <2>2 DEF n
  <2> QED BY <1>4, <2>1, <2>3, <2>4 DEF n
<1>7. ASSUME NEW obj \in Objects
      PROVE  /\ count_inodes(p)[obj] \in Inode
             /\ count_inodes(p)[obj].i_no = inode[obj].i_no
             /\ count_inodes(p)[obj].i_open_cnts =
                  inode[obj].i_open_cnts + Cardinality(NewOpens(p, obj))
  <2>1. inode[obj] \in Inode  BY Zenon, <1>1
  <2>2. count_inodes(p)[obj] = [inode[obj] EXCEPT !.i_open_cnts = @ + Cardinality(NewOpens(p, obj))]
    BY Zenon, <1>3
  <2> DEFINE n == Cardinality(NewOpens(p, obj))
  <2>3. n \in Nat  BY Zenon, <1>2
  <2> HIDE DEF n
  <2>4. count_inodes(p)[obj] = [inode[obj] EXCEPT !.i_open_cnts = @ + n]  BY Zenon, <2>2 DEF n
  <2> QED BY <1>5, <2>1, <2>3, <2>4 DEF n
<1> QED BY Zenon, <1>1, <1>3, <1>6, <1>7

(***************************************************************************)
(* sys_fork keeps them too: the child has the descriptors of its parent.   *)
(***************************************************************************)
LEMMA TypesFork ==
  ASSUME Types, NEW p \in Procs, NEW q \in Procs, sys_fork(p, q)
  PROVE  Types'
<1>1. /\ TypeOK /\ CallsOK /\ FdsOK /\ FlagsOK /\ overlapped' \in BOOLEAN
      /\ q \notin alive
      /\ fd_table' = [fd_table EXCEPT ![q] = fd_table[p]]
      /\ file_table' = count_pipes(p) /\ inode' = count_inodes(p)
      /\ alive' = alive \cup {q}
      /\ UNCHANGED <<open_inodes, used, named, call>>
  BY Zenon, EntersType DEF Types, sys_fork
<1>2. stopped' \in BOOLEAN /\ shared' \in BOOLEAN  BY DEF sys_fork
<1>3. file_table' \in [0 .. (MAX_FILE_OPEN - 1) -> File] /\ inode' \in [Objects -> Inode] /\ FlagsOK'
  BY Zenon, <1>1, ForkCounts DEF FlagsOK
<1>4. alive' \subseteq Procs /\ IsFiniteSet(alive') /\ shell \in alive'
  BY <1>1, FS_AddElement DEF TypeOK
<1>5. fd_table' \in [Procs -> FdTable] /\ FdsOK'
  <2>1. fd_table \in [Procs -> FdTable]  BY Zenon, <1>1 DEF TypeOK, FdTable
  <2>2. fd_table' \in [Procs -> FdTable]  BY Zenon, <1>1, <2>1
  <2>3. \A x \in Procs : fd_table'[x] = IF x = q THEN fd_table[p] ELSE fd_table[x]
    BY Zenon, <1>1, <2>1
  <2> QED BY Zenon, <1>1, <2>2, <2>3 DEF FdsOK
<1>6. CallsOK'
  BY Zenon, <1>1 DEF CallsOK
<1> QED BY Zenon, <1>1, <1>2, <1>3, <1>4, <1>5, <1>6 DEF Types, TypeOK, FdTable

(***************************************************************************)
(* sys_pipe keeps them too: its entry has a ring and the flag of a pipe.   *)
(***************************************************************************)
LEMMA TypesPipe ==
  ASSUME Types, NEW p \in Procs, sys_pipe(p)
  PROVE  Types'
<1> DEFINE slot == get_free_slot_in_global
           once == pcb_fd_install(fd_table[p], slot)
           file == [fd_inode |-> RING, fd_flag |-> PIPE_FLAG, fd_pos |-> 2]
<1>1. /\ TypeOK /\ CallsOK /\ FdsOK /\ FlagsOK /\ overlapped' \in BOOLEAN
      /\ slot \in GlobalFds
      /\ file_table' = [file_table EXCEPT ![slot] = file]
      /\ fd_table' = [fd_table EXCEPT ![p] = pcb_fd_install(pcb_fd_install(@, slot), slot)]
      /\ UNCHANGED <<alive, inode, open_inodes, used, named, call, stopped, shared>>
  BY EntersType, FreeFound DEF Types, sys_pipe
<1>2. slot \in 0 .. (MAX_FILE_OPEN - 1) /\ file \in File
  BY <1>1, Constants DEF File
<1> HIDE DEF slot, file
<1>3. file_table' \in [0 .. (MAX_FILE_OPEN - 1) -> File]
  BY Zenon, <1>1, <1>2 DEF TypeOK
<1>4. FlagsOK'
  <2>1. \A s \in GlobalFds : file_table'[s] = IF s = slot THEN file ELSE file_table[s]
    BY Zenon, <1>1, Constants DEF TypeOK
  <2>2. file.fd_inode = RING /\ file.fd_flag = PIPE_FLAG  BY DEF file
  <2> QED BY <1>1, <2>1, <2>2 DEF FlagsOK
<1>5. fd_table \in [Procs -> FdTable]  BY Zenon, <1>1 DEF TypeOK, FdTable
<1>6. fd_table[p] \in FdTable /\ \A fd \in LocalFds : fd_table[p][fd] \in GlobalFds \cup {-1}
  BY Zenon, <1>1, <1>5 DEF FdsOK
<1>7. once \in FdTable /\ \A fd \in LocalFds : once[fd] \in GlobalFds \cup {-1}
  BY Zenon, <1>1, <1>6, InstallType
<1> HIDE DEF once
<1>8. /\ pcb_fd_install(once, slot) \in FdTable
      /\ \A fd \in LocalFds : pcb_fd_install(once, slot)[fd] \in GlobalFds \cup {-1}
  BY Zenon, <1>1, <1>7, InstallType
<1> DEFINE fds == pcb_fd_install(once, slot)
<1>9. fd_table' = [fd_table EXCEPT ![p] = fds]  BY Zenon, <1>1 DEF once
<1> HIDE DEF fds
<1>10. fd_table' \in [Procs -> FdTable]  BY Zenon, <1>5, <1>8, <1>9 DEF fds
<1>11. FdsOK'
  <2>1. \A x \in Procs : fd_table'[x] = IF x = p THEN fds ELSE fd_table[x]
    BY Zenon, <1>5, <1>9
  <2> QED BY Zenon, <1>1, <1>8, <2>1 DEF FdsOK, fds
<1>12. CallsOK'  BY Zenon, <1>1 DEF CallsOK
<1> QED BY Zenon, <1>1, <1>3, <1>4, <1>10, <1>11, <1>12 DEF Types, TypeOK, FdTable

(***************************************************************************)
(* The rest of the steps.                                                  *)
(***************************************************************************)
LEMMA TypesRedirect ==
  ASSUME Types, NEW p \in Procs, NEW old \in StdFds, NEW new \in StdFds \cup LocalFds,
         sys_fd_redirect(p, old, new)
  PROVE  Types'
<1>1. /\ TypeOK /\ CallsOK /\ FdsOK /\ FlagsOK /\ overlapped' \in BOOLEAN
      /\ fd_table' = [fd_table EXCEPT ![p][old] = IF new < 3 THEN new ELSE fd_table[p][new]]
      /\ UNCHANGED <<alive, file_table, inode, open_inodes, used, named, call, stopped, shared>>
  BY EntersType DEF Types, sys_fd_redirect
<1>2. fd_table \in [Procs -> FdTable]  BY Zenon, <1>1 DEF TypeOK, FdTable
<1>3. /\ old \in 0 .. (MAX_FILES_OPEN_PER_PROC - 1) /\ new \in 0 .. (MAX_FILES_OPEN_PER_PROC - 1)
      /\ old \notin LocalFds /\ new \in Int
  BY FilesAssumption DEF LocalFds
<1> DEFINE to == IF new < 3 THEN new ELSE fd_table[p][new]
           fds == [fd_table[p] EXCEPT ![old] = to]
<1>4. to \in Int /\ fd_table[p] \in FdTable
  <2>1. fd_table[p] \in FdTable  BY Zenon, <1>2
  <2>2. fd_table[p][new] \in Int  BY <1>3, <2>1 DEF FdTable
  <2> QED BY <1>3, <2>1, <2>2
<1> HIDE DEF to
<1>5. fds \in FdTable /\ \A fd \in LocalFds : fds[fd] = fd_table[p][fd]
  BY <1>3, <1>4, Constants DEF FdTable
<1>6. fd_table' = [fd_table EXCEPT ![p] = fds]  BY <1>1 DEF to
<1> HIDE DEF fds
<1>7. fd_table' \in [Procs -> FdTable]  BY Zenon, <1>2, <1>5, <1>6
<1>8. FdsOK'
  <2>1. \A x \in Procs : fd_table'[x] = IF x = p THEN fds ELSE fd_table[x]
    BY Zenon, <1>2, <1>6
  <2> QED BY ZenonT(30), <1>1, <1>5, <2>1 DEF FdsOK
<1>9. CallsOK' /\ FlagsOK'  BY Zenon, <1>1 DEF CallsOK, FlagsOK
<1> QED BY Zenon, <1>1, <1>7, <1>8, <1>9 DEF Types, TypeOK, FdTable

(***************************************************************************)
(* sys_unlink only starts a call.                                          *)
(***************************************************************************)
LEMMA TypesUnlink ==
  ASSUME Types, NEW p \in Procs, NEW no \in Inodes, sys_unlink(p, no)
  PROVE  Types'
<1>1. /\ TypeOK /\ CallsOK /\ overlapped' \in BOOLEAN /\ p \in alive
      /\ call' = [call EXCEPT ![p] = [NoCall EXCEPT !.op = "unlink", !.no = no]]
      /\ UNCHANGED <<alive, fd_table, file_table, inode, open_inodes, used, named, stopped, shared>>
  BY EntersType DEF Types, sys_unlink, Enters
<1>2. call' \in [Procs -> Call]
  BY <1>1, Constants DEF TypeOK, Call, NoCall
<1>3. CallsOK'
  BY <1>1 DEF TypeOK, CallsOK, NoCall, NULL
<1> QED BY Zenon, <1>1, <1>2, <1>3, TypesCall DEF TypeOK

(***************************************************************************)
(* The writes of create and unlink to the disk change bitmap and directory *)
(* only.                                                                   *)
(***************************************************************************)
LEMMA TypesDisk ==
  ASSUME Types, NEW p \in Procs, entry_written(p) \/ entry_deleted(p) \/ inode_released(p)
  PROVE  Types'
<1>1. /\ TypeOK /\ CallsOK /\ overlapped' \in BOOLEAN
      /\ UNCHANGED <<alive, fd_table, file_table, inode, open_inodes, stopped, shared>>
  BY EntersType DEF Types, entry_written, entry_deleted, inode_released
<1>2. CASE entry_written(p)
  <2>1. call[p].no \in Inodes  BY <1>1, <1>2 DEF CallsOK, entry_written, Resumes
  <2>2. named' \subseteq Inodes /\ used' \subseteq Inodes /\ call' = call
    BY <1>1, <1>2, <2>1 DEF entry_written, TypeOK
  <2>3. CallsOK' /\ call' \in [Procs -> Call]  BY Zenon, <1>1, <2>2 DEF CallsOK, TypeOK
  <2> QED BY Zenon, <1>1, <2>2, <2>3, TypesCall
<1>3. CASE entry_deleted(p)
  <2>2. named' \subseteq Inodes /\ used' \subseteq Inodes /\ call' = call
    BY <1>1, <1>3 DEF entry_deleted, TypeOK
  <2>3. CallsOK' /\ call' \in [Procs -> Call]  BY Zenon, <1>1, <2>2 DEF CallsOK, TypeOK
  <2> QED BY Zenon, <1>1, <2>2, <2>3, TypesCall
<1>4. CASE inode_released(p)
  <2>2. named' \subseteq Inodes /\ used' \subseteq Inodes /\ call' = [call EXCEPT ![p] = NoCall]
    BY <1>1, <1>4 DEF inode_released, TypeOK
  <2>3. call' \in [Procs -> Call]  BY Zenon, <1>1, <2>2, Constants DEF TypeOK
  <2>4. CallsOK'  BY <1>1, <2>2 DEF CallsOK, TypeOK, NoCall, NULL
  <2> QED BY Zenon, <1>1, <2>2, <2>3, <2>4, TypesCall
<1> QED BY Zenon, <1>2, <1>3, <1>4

-----------------------------------------------------------------------------
(***************************************************************************)
(* The inodes.  A step that changes no entry that has a file, no list and  *)
(* no file_create keeps what is known of them; a count may grow, but not   *)
(* that of an inode that file_create has not listed yet.                   *)
(***************************************************************************)
SameCreate(q) ==
  /\ call'[q].obj = call[q].obj
  /\ call'[q].op = "create" <=> call[q].op = "create"
  /\ call[q].op = "create" => call'[q].slot = call[q].slot

SameCreates == \A q \in Procs : SameCreate(q)

SameHolders ==
  \A slot \in GlobalFds : \A obj \in Objects :
    file_table'[slot].fd_inode = obj <=> file_table[slot].fd_inode = obj

(***************************************************************************)
(* A step that moves no inode between entries, calls and the list, and     *)
(* takes nothing off a count, keeps what is known of the inodes.           *)
(***************************************************************************)
LEMMA HeldSame ==
  ASSUME TypeOK, TypeOK', CallsOK, CreatingOK, ListOK, UNCHANGED open_inodes,
         SameCreates, SameHolders,
         \A obj \in Objects : /\ inode'[obj].i_no = inode[obj].i_no
                              /\ inode'[obj].i_open_cnts >= inode[obj].i_open_cnts
  PROVE  CreatingOK' /\ ListOK'
<1>1. \A obj \in Objects : Holders(obj)' = Holders(obj)
  BY Zenon DEF SameHolders, Holders
<1>2. \A obj : Creating(obj)' <=> Creating(obj)
  BY Zenon DEF SameCreates, SameCreate, Creating
<1>3. \A q \in Procs : call[q].op = "create" => call[q].obj \in Objects /\ Creating(call[q].obj)
  BY DEF TypeOK, Call, CallsOK, Creating
<1>4. CreatingOK'
  <2>1. ASSUME NEW q \in Procs, call'[q].op = "create"
        PROVE  /\ ~elem_find(open_inodes', call'[q].obj)
               /\ inode'[call'[q].obj].i_no # 0
               /\ Holders(call[q].obj)' \subseteq {call'[q].slot}
    <3>1. /\ call[q].op = "create" /\ call'[q].obj = call[q].obj /\ call'[q].slot = call[q].slot
          /\ call[q].obj \in Objects /\ Creating(call[q].obj)
      BY Zenon, <1>3, <2>1 DEF SameCreates, SameCreate
    <3>2. /\ ~elem_find(open_inodes, call[q].obj)
          /\ inode[call[q].obj].i_no # 0
          /\ Holders(call[q].obj) \subseteq {call[q].slot}
      BY Zenon, <3>1 DEF CreatingOK
    <3>3. Holders(call[q].obj)' = Holders(call[q].obj)
      <4>1. PICK o \in Objects : o = call[q].obj  BY Zenon, <3>1
      <4>2. Holders(call[q].obj)' = Holders(o)'  BY Zenon, <3>1, <4>1 DEF Holders
      <4> QED BY Zenon, <1>1, <4>1, <4>2
    <3> QED BY Zenon, <3>1, <3>2, <3>3
  <2>2. \A r, q \in Procs : call'[r].obj = call'[q].obj /\ call'[r].obj # NULL => r = q
    <3>1. \A q \in Procs : call'[q].obj = call[q].obj  BY Zenon DEF SameCreates, SameCreate
    <3>2. \A r, q \in Procs : call[r].obj = call[q].obj /\ call[r].obj # NULL => r = q
      BY Zenon DEF CreatingOK
    <3> QED BY <3>1, <3>2
  <2> QED BY Zenon, <2>1, <2>2 DEF CreatingOK
<1>5. ListOK'
  <2>1. \A obj \in Objects : elem_find(open_inodes', obj) =>
          inode'[obj].i_no # 0 /\ Cardinality(Holders(obj)') <= inode'[obj].i_open_cnts
    <3> SUFFICES ASSUME NEW obj \in Objects, elem_find(open_inodes, obj)
                 PROVE  inode'[obj].i_no # 0 /\ Cardinality(Holders(obj)) <= inode'[obj].i_open_cnts
      BY <1>1
    <3>1. Cardinality(Holders(obj)) \in Nat
      <4>1. Holders(obj) \subseteq GlobalFds  BY DEF Holders
      <4> QED BY Zenon, <4>1, FdsFinite
    <3>2. inode[obj].i_no # 0 /\ Cardinality(Holders(obj)) <= inode[obj].i_open_cnts
      BY Zenon DEF ListOK
    <3>3. inode[obj].i_open_cnts \in Int /\ inode'[obj].i_open_cnts \in Int
      BY DEF TypeOK, Inode
    <3>4. inode'[obj].i_no = inode[obj].i_no /\ inode'[obj].i_open_cnts >= inode[obj].i_open_cnts
      BY Zenon
    <3> QED BY <3>1, <3>2, <3>3, <3>4
  <2>2. \A obj \in Objects : ~elem_find(open_inodes', obj) /\ ~Creating(obj)' => Holders(obj)' = {}
    BY Zenon, <1>1, <1>2 DEF ListOK
  <2>3. Distinct(open_inodes')  BY Zenon DEF ListOK
  <2> QED BY Zenon, <2>1, <2>2, <2>3 DEF ListOK
<1> QED BY Zenon, <1>4, <1>5

OneInode(p, o) ==
  /\ \A x \in Objects : x # o =>
       /\ inode'[x].i_no = inode[x].i_no
       /\ inode'[x].i_open_cnts = inode[x].i_open_cnts
       /\ Holders(x)' \subseteq Holders(x)
       /\ elem_find(open_inodes', x) <=> elem_find(open_inodes, x)
  /\ Distinct(open_inodes')
  /\ \A q \in Procs : q # p => SameCreate(q) /\ call[q].obj # o
  /\ call[p].obj \in {NULL, o} /\ call'[p].obj \in {NULL, o}
  /\ call'[p].op = "create" => /\ ~elem_find(open_inodes', o)
                               /\ inode'[o].i_no # 0
                               /\ Holders(o)' \subseteq {call'[p].slot}
  /\ elem_find(open_inodes', o) =>
       inode'[o].i_no # 0 /\ Cardinality(Holders(o)') <= inode'[o].i_open_cnts
  /\ ~elem_find(open_inodes', o) /\ call'[p].obj # o => Holders(o)' = {}

(***************************************************************************)
(* A step of one process that is about one inode: nothing is lost for the  *)
(* other inodes and for the other calls.                                   *)
(***************************************************************************)
LEMMA HeldOthers ==
  ASSUME TypeOK, CallsOK, CallsOK', CreatingOK, ListOK, NEW p \in Procs, NEW o \in Objects,
         OneInode(p, o)
  PROVE  CreatingOK' /\ ListOK'
<1>0. \A q \in Procs : call[q].op = "create" => call[q].obj \in Objects
  BY DEF TypeOK, Call, CallsOK
<1> USE <1>0 DEF OneInode
<1>1. CreatingOK'
  <2>1. ASSUME NEW q \in Procs, call'[q].op = "create"
        PROVE  /\ ~elem_find(open_inodes', call'[q].obj)
               /\ inode'[call'[q].obj].i_no # 0
               /\ Holders(call[q].obj)' \subseteq {call'[q].slot}
    <3>1. CASE q = p
      <4>1. call'[p].obj = o  BY Zenon, <2>1, <3>1 DEF CallsOK
      <4>2. Holders(call[p].obj)' = Holders(o)'  BY Zenon, <4>1 DEF Holders
      <4> QED BY Zenon, <2>1, <3>1, <4>1, <4>2
    <3>2. CASE q # p
      <4>1. PICK x \in Objects : x = call[q].obj /\ x # o  BY Zenon, <2>1, <3>2 DEF SameCreate
      <4>2. call'[q].obj = call[q].obj /\ call[q].op = "create" /\ call'[q].slot = call[q].slot
        BY Zenon, <2>1, <3>2 DEF SameCreate
      <4>3. Holders(call[q].obj)' = Holders(x)'  BY Zenon, <4>1, <4>2 DEF Holders
      <4>4. /\ ~elem_find(open_inodes, x) /\ inode[x].i_no # 0
            /\ Holders(x) \subseteq {call[q].slot}
        BY Zenon, <2>1, <4>1, <4>2 DEF CreatingOK
      <4>5. /\ ~elem_find(open_inodes', x) /\ inode'[x].i_no # 0
            /\ Holders(x)' \subseteq {call[q].slot}
        BY Zenon, <4>1, <4>4
      <4> QED BY Zenon, <4>1, <4>2, <4>3, <4>5
    <3> QED BY Zenon, <3>1, <3>2
  <2>2. ASSUME NEW r \in Procs, NEW q \in Procs, call'[r].obj = call'[q].obj, call'[r].obj # NULL
        PROVE  r = q
    <3>1. CASE r # p /\ q # p
      <4>1. call'[r].obj = call[r].obj /\ call'[q].obj = call[q].obj  BY Zenon, <3>1 DEF SameCreate
      <4>2. call[r].obj = call[q].obj /\ call[r].obj # NULL  BY Zenon, <2>2, <4>1
      <4> QED BY Zenon, <4>2 DEF CreatingOK
    <3>2. CASE r = p /\ q # p
      <4>1. call'[r].obj = o /\ call'[q].obj # o  BY Zenon, <2>2, <3>2 DEF SameCreate
      <4> QED BY Zenon, <2>2, <4>1
    <3>3. CASE r # p /\ q = p
      <4>1. call'[q].obj = o /\ call'[r].obj # o  BY Zenon, <2>2, <3>3 DEF SameCreate
      <4> QED BY Zenon, <2>2, <4>1
    <3> QED BY Zenon, <3>1, <3>2, <3>3
  <2> QED BY Zenon, <2>1, <2>2 DEF CreatingOK
<1>2. ListOK'
  <2>1. ASSUME NEW x \in Objects, elem_find(open_inodes', x)
        PROVE  inode'[x].i_no # 0 /\ Cardinality(Holders(x)') <= inode'[x].i_open_cnts
    <3>1. CASE x = o  BY Zenon, <2>1, <3>1
    <3>2. CASE x # o
      <4>1. Holders(x)' \subseteq Holders(x) /\ Holders(x) \subseteq GlobalFds
        BY Zenon, <3>2 DEF Holders
      <4> DEFINE S == Holders(x)
                 T == Holders(x)'
      <4>2. IsFiniteSet(S) /\ Cardinality(S) \in Nat /\ Cardinality(T) \in Nat
        <5>1. S \subseteq GlobalFds /\ T \subseteq GlobalFds  BY Zenon, <4>1
        <5> HIDE DEF S, T
        <5> QED BY Zenon, <5>1, FdsFinite
      <4>3. Cardinality(T) <= Cardinality(S)
        <5>1. T \in SUBSET S  BY Zenon, <4>1
        <5> HIDE DEF S, T
        <5> QED BY Zenon, <4>2, <5>1, FS_Subset
      <4>4. inode[x].i_no # 0 /\ Cardinality(S) <= inode[x].i_open_cnts
        BY Zenon, <2>1, <3>2 DEF ListOK
      <4>5. inode[x].i_open_cnts \in Int  BY DEF TypeOK, Inode
      <4>6. inode'[x].i_no = inode[x].i_no /\ inode'[x].i_open_cnts = inode[x].i_open_cnts
        BY Zenon, <3>2
      <4> HIDE DEF S, T
      <4>7. inode'[x].i_no # 0 /\ Cardinality(T) <= inode'[x].i_open_cnts
        BY <4>2, <4>3, <4>4, <4>5, <4>6
      <4> QED BY Zenon, <4>7 DEF T
    <3> QED BY Zenon, <3>1, <3>2
  <2>2. ASSUME NEW x \in Objects, ~elem_find(open_inodes', x), ~Creating(x)'
        PROVE  Holders(x)' = {}
    <3>1. CASE x = o
      <4>1. call'[p].obj # o  BY Zenon, <2>2, <3>1 DEF Creating
      <4> QED BY Zenon, <2>2, <3>1, <4>1
    <3>2. CASE x # o
      <4>1. ~Creating(x)
        <5> SUFFICES ASSUME NEW q \in Procs, call[q].obj = x PROVE FALSE  BY Zenon DEF Creating
        <5>1. q # p  BY Zenon, <3>2, Constants
        <5>2. call'[q].obj = x  BY Zenon, <5>1 DEF SameCreate
        <5> QED BY Zenon, <2>2, <5>2 DEF Creating
      <4>2. Holders(x) = {}  BY Zenon, <2>2, <3>2, <4>1 DEF ListOK
      <4>3. Holders(x)' \subseteq Holders(x)  BY Zenon, <3>2
      <4> QED BY Zenon, <4>2, <4>3
    <3> QED BY Zenon, <3>1, <3>2
  <2> QED BY Zenon, <2>1, <2>2 DEF ListOK
<1> QED BY Zenon, <1>1, <1>2

(***************************************************************************)
(* An entry of the file table is given to an inode.                        *)
(***************************************************************************)
LEMMA EntryTaken ==
  ASSUME NEW slot \in GlobalFds, NEW o,
         \A s \in GlobalFds : file_table'[s].fd_inode = IF s = slot THEN o ELSE file_table[s].fd_inode
  PROVE  \A x : Holders(x)' = IF x = o THEN Holders(x) \cup {slot} ELSE Holders(x) \ {slot}
BY DEF Holders

(***************************************************************************)
(* What file_create has is not on the list, and what is free is held by no *)
(* entry and by no file_create.                                            *)
(***************************************************************************)
LEMMA OwnObject ==
  ASSUME Good, NEW q \in Procs, NEW obj \in Objects, call[q].obj = obj
  PROVE  ~elem_find(open_inodes, obj) /\ inode[obj].i_no # 0
<1>1. call[q].op = "create"  BY Zenon, Constants DEF Good, CallsOK
<1> QED BY Zenon, <1>1 DEF Good, CreatingOK

(***************************************************************************)
(* The object that sys_malloc returns belongs to no call, no entry and no  *)
(* list.                                                                   *)
(***************************************************************************)
LEMMA FreeObject ==
  ASSUME Good, FreeObjects # {}
  PROVE  /\ sys_malloc \in Objects /\ inode[sys_malloc] = FREE_INODE
         /\ ~elem_find(open_inodes, sys_malloc)
         /\ \A q \in Procs : call[q].obj # sys_malloc
         /\ Holders(sys_malloc) = {}
<1>1. sys_malloc \in Objects /\ inode[sys_malloc] = FREE_INODE  BY Zenon, FreeFound
<1>2. inode[sys_malloc].i_no = 0  BY <1>1 DEF FREE_INODE
<1>3. ~elem_find(open_inodes, sys_malloc)  BY Zenon, <1>1, <1>2 DEF Good, ListOK
<1>4. \A q \in Procs : call[q].obj # sys_malloc  BY Zenon, <1>1, <1>2, OwnObject
<1>5. Holders(sys_malloc) = {}  BY Zenon, <1>1, <1>3, <1>4 DEF Good, ListOK, Creating
<1> QED BY Zenon, <1>1, <1>3, <1>4, <1>5

(***************************************************************************)
(* Where sys_open finds an inode that is in memory.                        *)
(***************************************************************************)
LEMMA CachedFound ==
  ASSUME TypeOK, NEW no \in Inodes, Cached(no) # {}
  PROVE  LET obj == open_inodes[Min(Cached(no))]
         IN  obj \in Objects /\ elem_find(open_inodes, obj) /\ inode[obj].i_no = no
<1>1. open_inodes \in Seq(Objects)  BY Zenon DEF TypeOK
<1>2. Cached(no) \subseteq DOMAIN open_inodes /\ DOMAIN open_inodes \subseteq Nat
  BY <1>1 DEF Cached
<1>3. Min(Cached(no)) \in Cached(no)  BY Zenon, <1>2, MinIn
<1>4. PICK i \in DOMAIN open_inodes : i = Min(Cached(no)) /\ inode[open_inodes[i]].i_no = no
  BY Zenon, <1>3 DEF Cached
<1>5. open_inodes[i] \in Objects  BY <1>1
<1> QED BY Zenon, <1>4, <1>5 DEF elem_find

(***************************************************************************)
(* Adding an entry to those that hold an inode.                            *)
(***************************************************************************)
LEMMA OneMoreHolder ==
  ASSUME NEW obj, NEW slot \in GlobalFds
  PROVE  /\ IsFiniteSet(Holders(obj)) /\ Cardinality(Holders(obj)) \in Nat
         /\ Cardinality(Holders(obj) \cup {slot}) =
              IF slot \in Holders(obj) THEN Cardinality(Holders(obj)) ELSE Cardinality(Holders(obj)) + 1
         /\ Cardinality(Holders(obj) \ {slot}) =
              IF slot \in Holders(obj) THEN Cardinality(Holders(obj)) - 1 ELSE Cardinality(Holders(obj))
<1>1. Holders(obj) \subseteq GlobalFds  BY Zenon DEF Holders
<1>2. IsFiniteSet(Holders(obj)) /\ Cardinality(Holders(obj)) \in Nat  BY Zenon, <1>1, FdsFinite
<1> QED BY Zenon, <1>2, FS_AddElement, FS_RemoveElement

\* The entry slot is given to obj, and the others stay.
Entry(slot, obj) ==
  /\ file_table'[slot].fd_inode = obj
  /\ \A s \in GlobalFds : s # slot => file_table'[s] = file_table[s]
  /\ \A x : Holders(x)' = IF x = obj THEN Holders(x) \cup {slot} ELSE Holders(x) \ {slot}

\* The number and the count of an inode, and those of the others.
Counts(obj, no, n) ==
  /\ inode'[obj].i_no = no /\ inode'[obj].i_open_cnts = n
  /\ \A x \in Objects : x # obj => /\ inode'[x].i_no = inode[x].i_no
                                   /\ inode'[x].i_open_cnts = inode[x].i_open_cnts

Installs(p, slot) ==
  UNCHANGED fd_table \/ fd_table' = [fd_table EXCEPT ![p] = pcb_fd_install(@, slot)]

Lists(obj) ==
  /\ Distinct(open_inodes')
  /\ \A x : elem_find(open_inodes', x) <=> x = obj \/ elem_find(open_inodes, x)

(***************************************************************************)
(* What the end of file_open does to the tables.                           *)
(***************************************************************************)
LEMMA FinishOpened ==
  ASSUME TypeOK, NEW p \in Procs, NEW slot \in GlobalFds, NEW obj \in Objects,
         NEW flag, NEW inodes \in [Objects -> Inode], finish_open(p, slot, obj, flag, inodes)
  PROVE  /\ Entry(slot, obj) /\ Installs(p, slot)
         /\ \A x \in Objects : /\ inode'[x].i_no = inodes[x].i_no
                               /\ inode'[x].i_open_cnts = inodes[x].i_open_cnts
<1>1. file_table \in [0 .. (MAX_FILE_OPEN - 1) -> File]  BY Zenon DEF TypeOK
<1>2. file_table' = [file_table EXCEPT ![slot] = [fd_inode |-> obj, fd_flag |-> flag, fd_pos |-> 0]]
  BY Zenon DEF finish_open
<1>3. \A s \in GlobalFds : file_table'[s] =
        IF s = slot THEN [fd_inode |-> obj, fd_flag |-> flag, fd_pos |-> 0] ELSE file_table[s]
  BY Zenon, <1>1, <1>2, Constants
<1>4. \A s \in GlobalFds :
        file_table'[s].fd_inode = IF s = slot THEN obj ELSE file_table[s].fd_inode
  BY <1>3
<1>5. Entry(slot, obj)
  <2>1. \A x : Holders(x)' = IF x = obj THEN Holders(x) \cup {slot} ELSE Holders(x) \ {slot}
    BY Zenon, <1>4, EntryTaken
  <2> QED BY Zenon, <1>3, <1>4, <2>1 DEF Entry
<1>6. \A x \in Objects : /\ inode'[x].i_no = inodes[x].i_no
                         /\ inode'[x].i_open_cnts = inodes[x].i_open_cnts
  BY DEF finish_open, Inode
<1>7. Installs(p, slot)
  <2>1. fd_table \in [Procs -> FdTable]  BY Zenon DEF TypeOK, FdTable
  <2>2. PICK denied \in BOOLEAN :
          fd_table' = [fd_table EXCEPT ![p] = IF denied THEN @ ELSE pcb_fd_install(@, slot)]
    BY DEF finish_open
  <2> QED BY Zenon, <2>1, <2>2 DEF Installs
<1> QED BY Zenon, <1>5, <1>6, <1>7

(***************************************************************************)
(* sys_open counts an inode that is in memory once more and gives it a     *)
(* free entry.                                                             *)
(***************************************************************************)
LEMMA CachedOpened ==
  ASSUME TypeOK, NEW p \in Procs, NEW no \in Inodes, NEW flag, sys_open(p, no, flag), Cached(no) # {}
  PROVE  \E obj \in Objects, slot \in GlobalFds :
           /\ elem_find(open_inodes, obj) /\ inode[obj].i_no = no /\ file_table[slot].fd_inode = NULL
           /\ inode[obj].i_open_cnts \in Int
           /\ Entry(slot, obj) /\ Counts(obj, no, inode[obj].i_open_cnts + 1) /\ Installs(p, slot)
<1>1. inode \in [Objects -> Inode] /\ FreeSlots # {}  BY Zenon DEF TypeOK, sys_open
<1>2. PICK obj \in Objects : /\ obj = open_inodes[Min(Cached(no))]
                             /\ elem_find(open_inodes, obj) /\ inode[obj].i_no = no
  BY Zenon, CachedFound
<1>3. PICK slot \in GlobalFds : slot = get_free_slot_in_global /\ file_table[slot].fd_inode = NULL
  BY Zenon, <1>1, FreeFound
<1>4. PICK inodes \in [Objects -> Inode] :
        /\ inodes = [inode EXCEPT ![obj].i_open_cnts = @ + 1]
        /\ inodes[obj].i_no = inode[obj].i_no
        /\ inodes[obj].i_open_cnts = inode[obj].i_open_cnts + 1
        /\ inode[obj].i_open_cnts \in Int
        /\ \A x \in Objects : x # obj => inodes[x] = inode[x]
  <2> DEFINE i == [inode[obj] EXCEPT !.i_open_cnts = @ + 1]
  <2>1. /\ i \in Inode /\ i.i_no = inode[obj].i_no /\ inode[obj].i_open_cnts \in Int
        /\ i.i_open_cnts = inode[obj].i_open_cnts + 1
    BY <1>1 DEF Inode
  <2> HIDE DEF i
  <2>2. [inode EXCEPT ![obj] = i] \in [Objects -> Inode]  BY Zenon, <1>1, <2>1
  <2> QED BY Zenon, <1>1, <2>1, <2>2 DEF i
<1>5. finish_open(p, slot, obj, flag, inodes)  BY Zenon, <1>2, <1>3, <1>4 DEF sys_open
<1>6. /\ Entry(slot, obj) /\ Installs(p, slot)
      /\ \A x \in Objects : /\ inode'[x].i_no = inodes[x].i_no
                            /\ inode'[x].i_open_cnts = inodes[x].i_open_cnts
  BY Zenon, <1>5, FinishOpened
<1>7. Counts(obj, no, inode[obj].i_open_cnts + 1)  BY Zenon, <1>2, <1>4, <1>6 DEF Counts
<1> QED BY Zenon, <1>2, <1>3, <1>4, <1>6, <1>7

(***************************************************************************)
(* inode_read takes a free place for the inode and enters it in the list.  *)
(***************************************************************************)
LEMMA InodeRead ==
  ASSUME Good, NEW p \in Procs, inode_read(p)
  PROVE  \E obj \in Objects, slot \in GlobalFds :
           /\ ~elem_find(open_inodes, obj) /\ Holders(obj) = {} /\ \A q \in Procs : call[q].obj # obj
           /\ slot = call[p].slot /\ call[p].no \in Inodes /\ call[p].op = "open" /\ call[p].obj = NULL
           /\ call' = [call EXCEPT ![p] = NoCall]
           /\ Entry(slot, obj) /\ Counts(obj, call[p].no, 1) /\ Installs(p, slot) /\ Lists(obj)
<1>1. /\ TypeOK /\ CallsOK /\ ListOK /\ inode \in [Objects -> Inode] /\ open_inodes \in Seq(Objects)
  BY Zenon DEF Good, TypeOK
<1>2. FreeObjects # {} /\ call' = [call EXCEPT ![p] = NoCall] /\ call[p].op = "open"
  BY Zenon DEF inode_read, Resumes
<1>3. PICK obj \in Objects : /\ obj = sys_malloc /\ ~elem_find(open_inodes, obj)
                            /\ \A q \in Procs : call[q].obj # obj
                            /\ Holders(obj) = {}
  BY Zenon, <1>2, FreeObject
<1>4. PICK slot \in GlobalFds : slot = call[p].slot /\ call[p].no \in Inodes /\ call[p].obj = NULL
  BY <1>1, <1>2 DEF CallsOK
<1>5. PICK inodes \in [Objects -> Inode] :
        /\ inodes = [inode EXCEPT ![obj] = [i_no |-> call[p].no, i_open_cnts |-> 1, write_deny |-> FALSE]]
        /\ inodes[obj].i_no = call[p].no /\ inodes[obj].i_open_cnts = 1
        /\ \A x \in Objects : x # obj => inodes[x] = inode[x]
  <2> DEFINE i == [i_no |-> call[p].no, i_open_cnts |-> 1, write_deny |-> FALSE]
  <2>1. i \in Inode /\ i.i_no = call[p].no /\ i.i_open_cnts = 1  BY <1>4 DEF Inode
  <2> HIDE DEF i
  <2>2. [inode EXCEPT ![obj] = i] \in [Objects -> Inode]  BY Zenon, <1>1, <2>1
  <2> QED BY Zenon, <1>1, <2>1, <2>2 DEF i
<1>6. PICK flag : /\ open_inodes' = list_push(open_inodes, obj)
                  /\ finish_open(p, slot, obj, flag, inodes)
  BY Zenon, <1>3, <1>4, <1>5 DEF inode_read
<1>7. /\ Entry(slot, obj) /\ Installs(p, slot)
      /\ \A x \in Objects : /\ inode'[x].i_no = inodes[x].i_no
                            /\ inode'[x].i_open_cnts = inodes[x].i_open_cnts
  BY Zenon, <1>1, <1>6, FinishOpened
<1>8. Counts(obj, call[p].no, 1)  BY Zenon, <1>5, <1>7 DEF Counts
<1>9. Lists(obj)  BY Zenon, <1>1, <1>3, <1>6, PushList DEF ListOK, Lists
<1> QED BY Zenon, <1>2, <1>3, <1>4, <1>7, <1>8, <1>9

(***************************************************************************)
(* file_create takes a free place and a free entry, and lists nothing yet. *)
(***************************************************************************)
LEMMA CreateStarted ==
  ASSUME Good, NEW p \in Procs, file_create(p)
  PROVE  \E obj \in Objects, slot \in GlobalFds, no \in Inodes :
           /\ ~elem_find(open_inodes, obj) /\ Holders(obj) = {} /\ \A q \in Procs : call[q].obj # obj
           /\ file_table[slot].fd_inode = NULL /\ no \notin used /\ used' = used \cup {no}
           /\ call[p] = NoCall /\ p \in alive /\ \A q \in Procs : q # p => call'[q] = call[q]
           /\ call'[p].op = "create" /\ call'[p].obj = obj /\ call'[p].slot = slot /\ call'[p].no = no
           /\ Entry(slot, obj) /\ Counts(obj, no, 0)
<1>1. /\ inode \in [Objects -> Inode] /\ call \in [Procs -> Call]
      /\ file_table \in [0 .. (MAX_FILE_OPEN - 1) -> File]
  BY Zenon DEF Good, TypeOK
<1>2. FreeObjects # {} /\ FreeSlots # {} /\ call[p] = NoCall /\ p \in alive
  BY Zenon DEF file_create, Enters
<1>3. PICK obj \in Objects : /\ obj = sys_malloc /\ ~elem_find(open_inodes, obj)
                            /\ \A q \in Procs : call[q].obj # obj
                            /\ Holders(obj) = {}
  BY Zenon, <1>2, FreeObject
<1>4. PICK slot \in GlobalFds : slot = get_free_slot_in_global /\ file_table[slot].fd_inode = NULL
  BY Zenon, <1>2, FreeFound
<1>5. PICK no \in Inodes : no = Min(Inodes \ used) /\ no \notin used
  <2>1. Inodes \ used \subseteq Nat /\ Inodes \ used # {}  BY FilesAssumption DEF file_create
  <2> DEFINE S == Inodes \ used
  <2> HIDE DEF S
  <2>2. Min(S) \in S  BY Zenon, <2>1, MinIn DEF S
  <2> QED BY <2>2 DEF S
<1>6. /\ used' = used \cup {no}
      /\ inode' = [inode EXCEPT ![obj] = [FREE_INODE EXCEPT !.i_no = no]]
      /\ file_table' = [file_table EXCEPT ![slot] =
                          [fd_inode |-> obj, fd_flag |-> O_RDONLY, fd_pos |-> 0]]
      /\ call' = [call EXCEPT ![p] = [NoCall EXCEPT !.op = "create", !.no = no,
                                                        !.slot = slot, !.obj = obj]]
  BY Zenon, <1>3, <1>4, <1>5 DEF file_create
<1>7. Counts(obj, no, 0)  BY <1>1, <1>6 DEF Counts, FREE_INODE
<1>8. /\ call'[p].op = "create" /\ call'[p].obj = obj /\ call'[p].slot = slot /\ call'[p].no = no
      /\ \A q \in Procs : q # p => call'[q] = call[q]
  BY <1>1, <1>6 DEF NoCall
<1>9. Entry(slot, obj)
  <2>1. \A s \in GlobalFds : file_table'[s].fd_inode = IF s = slot THEN obj ELSE file_table[s].fd_inode
    BY <1>1, <1>6, Constants
  <2>2. \A s \in GlobalFds : s # slot => file_table'[s] = file_table[s]  BY Zenon, <1>1, <1>6, Constants
  <2>3. \A x : Holders(x)' = IF x = obj THEN Holders(x) \cup {slot} ELSE Holders(x) \ {slot}
    BY Zenon, <2>1, EntryTaken
  <2> QED BY Zenon, <2>1, <2>2, <2>3 DEF Entry
<1> QED BY Zenon, <1>2, <1>3, <1>4, <1>5, <1>6, <1>7, <1>8, <1>9

(***************************************************************************)
(* Its end lists the inode and counts it once.                             *)
(***************************************************************************)
LEMMA CreateEnded ==
  ASSUME Good, NEW p \in Procs, create_done(p)
  PROVE  \E obj \in Objects, slot \in GlobalFds :
           /\ call[p].op = "create" /\ call[p].obj = obj /\ call[p].slot = slot /\ call[p].no \in named
           /\ ~elem_find(open_inodes, obj) /\ inode[obj].i_no # 0 /\ Holders(obj) \subseteq {slot}
           /\ \A q \in Procs : q # p => call[q].obj # obj
           /\ call' = [call EXCEPT ![p] = NoCall]
           /\ Counts(obj, inode[obj].i_no, 1) /\ Installs(p, slot) /\ Lists(obj)
<1>1. /\ TypeOK /\ CallsOK /\ CreatingOK /\ ListOK
      /\ inode \in [Objects -> Inode] /\ call \in [Procs -> Call] /\ open_inodes \in Seq(Objects)
  BY Zenon DEF Good, TypeOK
<1>2. call[p].op = "create" /\ call' = [call EXCEPT ![p] = NoCall] /\ call[p].no \in named
  BY Zenon DEF create_done, Resumes
<1>3. PICK obj \in Objects : obj = call[p].obj  BY <1>1, <1>2 DEF CallsOK, Call
<1>4. PICK slot \in GlobalFds : slot = call[p].slot  BY Zenon, <1>1, <1>2 DEF CallsOK
<1>5. /\ open_inodes' = list_push(open_inodes, obj) /\ inode' = [inode EXCEPT ![obj].i_open_cnts = 1]
      /\ fd_table' = [fd_table EXCEPT ![p] = pcb_fd_install(@, slot)]
  BY Zenon, <1>3, <1>4 DEF create_done
<1>6. /\ ~elem_find(open_inodes, obj) /\ inode[obj].i_no # 0 /\ Holders(obj) \subseteq {slot}
      /\ \A q \in Procs : q # p => call[q].obj # obj
  BY Zenon, <1>1, <1>2, <1>3, <1>4, Constants DEF CreatingOK
<1>7. Counts(obj, inode[obj].i_no, 1)  BY <1>1, <1>5 DEF Inode, Counts
<1>8. Lists(obj)  BY Zenon, <1>1, <1>5, <1>6, PushList DEF ListOK, Lists
<1> QED BY Zenon, <1>2, <1>3, <1>4, <1>5, <1>6, <1>7, <1>8 DEF Installs

(***************************************************************************)
(* The inodes after each step.  A file that is opened once more has one    *)
(* more entry and one more count.                                          *)
(***************************************************************************)
LEMMA HeldOpen ==
  ASSUME Good, Types', NEW p \in Procs, NEW no \in Inodes, NEW flag \in Flags, sys_open(p, no, flag)
  PROVE  CreatingOK' /\ ListOK'
<1>1. TypeOK /\ TypeOK' /\ CallsOK /\ CallsOK' /\ CreatingOK /\ ListOK  BY Zenon DEF Good, Types
<1>2. UNCHANGED open_inodes /\ call[p] = NoCall  BY Zenon DEF sys_open, Enters
<1>3. NoCall.obj = NULL /\ NoCall.op # "create"  BY DEF NoCall
<1>4. CASE Cached(no) # {}
  <2>1. PICK obj \in Objects, slot \in GlobalFds :
          /\ elem_find(open_inodes, obj) /\ inode[obj].i_no = no /\ file_table[slot].fd_inode = NULL
          /\ inode[obj].i_open_cnts \in Int
          /\ Entry(slot, obj) /\ Counts(obj, no, inode[obj].i_open_cnts + 1)
    BY Zenon, <1>1, <1>4, CachedOpened
  <2>2. UNCHANGED call  BY Zenon, <1>4 DEF sys_open
  <2>3. \A x \in Objects : x # obj =>
           /\ inode'[x].i_no = inode[x].i_no
           /\ inode'[x].i_open_cnts = inode[x].i_open_cnts
           /\ Holders(x)' \subseteq Holders(x)
           /\ elem_find(open_inodes', x) <=> elem_find(open_inodes, x)
    BY Zenon, <1>2, <2>1 DEF Entry, Counts
  <2>4. \A q \in Procs : q # p => SameCreate(q) /\ call[q].obj # obj
    BY Zenon, <2>1, <2>2, OwnObject DEF SameCreate
  <2>5. Cardinality(Holders(obj)') <= inode'[obj].i_open_cnts /\ inode'[obj].i_no # 0
    <3>1. /\ Cardinality(Holders(obj)) <= inode[obj].i_open_cnts /\ inode[obj].i_no # 0
      BY Zenon, <1>1, <2>1 DEF ListOK
    <3>2. slot \notin Holders(obj)  BY Zenon, <2>1, Constants DEF Holders
    <3>3. Cardinality(Holders(obj)) \in Nat
          /\ Cardinality(Holders(obj) \cup {slot}) = Cardinality(Holders(obj)) + 1
      BY Zenon, <3>2, OneMoreHolder
    <3>4. /\ Holders(obj)' = Holders(obj) \cup {slot} /\ inode'[obj].i_no = inode[obj].i_no
          /\ inode'[obj].i_open_cnts = inode[obj].i_open_cnts + 1
      BY Zenon, <2>1 DEF Entry, Counts
    <3> QED BY <2>1, <3>1, <3>3, <3>4
  <2>6. /\ Distinct(open_inodes') /\ elem_find(open_inodes', obj)
        /\ call[p].obj = NULL /\ call'[p].obj = NULL /\ call'[p].op # "create"
    BY Zenon, <1>1, <1>2, <1>3, <2>1, <2>2 DEF ListOK
  <2>7. OneInode(p, obj)  BY Zenon, <2>3, <2>4, <2>5, <2>6 DEF OneInode
  <2> QED BY Zenon, <1>1, <2>7, HeldOthers
<1>5. CASE Cached(no) = {}
  <2>1. /\ call' = [call EXCEPT ![p] = [NoCall EXCEPT !.op = "open", !.no = no, !.flag = flag,
                                                      !.slot = get_free_slot_in_global]]
        /\ UNCHANGED <<file_table, inode, fd_table>>
    BY Zenon, <1>5 DEF sys_open
  <2>2. SameCreates
    BY <1>1, <1>2, <1>3, <2>1 DEF SameCreates, SameCreate, TypeOK, NoCall
  <2>3. SameHolders  BY Zenon, <2>1 DEF SameHolders
  <2>4. \A x \in Objects : inode[x].i_open_cnts >= inode[x].i_open_cnts  BY <1>1 DEF TypeOK, Inode
  <2> QED BY Zenon, <1>1, <1>2, <2>1, <2>2, <2>3, <2>4, HeldSame
<1> QED BY Zenon, <1>4, <1>5

(***************************************************************************)
(* An inode that is read has one entry and one count; if the entry was     *)
(* taken by someone else meanwhile, another inode loses a holder.          *)
(***************************************************************************)
LEMMA HeldRead ==
  ASSUME Good, Types', NEW p \in Procs, inode_read(p)
  PROVE  CreatingOK' /\ ListOK'
<1>1. /\ TypeOK /\ CallsOK /\ CallsOK' /\ CreatingOK /\ ListOK /\ call \in [Procs -> Call]
  BY Zenon DEF Good, Types, TypeOK
<1>2. PICK obj \in Objects, slot \in GlobalFds :
        /\ Holders(obj) = {} /\ \A q \in Procs : call[q].obj # obj
        /\ call[p].no \in Inodes /\ call[p].obj = NULL /\ call' = [call EXCEPT ![p] = NoCall]
        /\ Entry(slot, obj) /\ Counts(obj, call[p].no, 1) /\ Lists(obj)
  BY Zenon, InodeRead
<1>3. \A x \in Objects : x # obj =>
         /\ inode'[x].i_no = inode[x].i_no
         /\ inode'[x].i_open_cnts = inode[x].i_open_cnts
         /\ Holders(x)' \subseteq Holders(x)
         /\ elem_find(open_inodes', x) <=> elem_find(open_inodes, x)
  BY Zenon, <1>2 DEF Entry, Counts, Lists
<1>4. /\ call'[p] = NoCall /\ \A q \in Procs : q # p => SameCreate(q) /\ call[q].obj # obj
  BY Zenon, <1>1, <1>2 DEF SameCreate
<1>5. Cardinality(Holders(obj)') <= inode'[obj].i_open_cnts /\ inode'[obj].i_no # 0
  <2>1. Holders(obj)' = {slot}  BY Zenon, <1>2 DEF Entry
  <2>2. Cardinality({slot}) = 1  BY Zenon, FS_Singleton
  <2>3. inode'[obj].i_open_cnts = 1 /\ inode'[obj].i_no # 0  BY Zenon, <1>2, Constants DEF Counts
  <2> QED BY <2>1, <2>2, <2>3
<1>6. call'[p].obj = NULL /\ call'[p].op # "create"  BY <1>4 DEF NoCall
<1>7. OneInode(p, obj)  BY Zenon, <1>2, <1>3, <1>4, <1>5, <1>6 DEF OneInode, Lists
<1> QED BY Zenon, <1>1, <1>7, HeldOthers

(***************************************************************************)
(* What file_create has taken is held by its entry and not counted.        *)
(***************************************************************************)
LEMMA HeldCreate ==
  ASSUME Good, Types', NEW p \in Procs, file_create(p)
  PROVE  CreatingOK' /\ ListOK'
<1>1. TypeOK /\ CallsOK /\ CallsOK' /\ CreatingOK /\ ListOK  BY Zenon DEF Good, Types
<1>2. UNCHANGED open_inodes  BY Zenon DEF file_create
<1>3. PICK obj \in Objects, slot \in GlobalFds, no \in Inodes :
        /\ ~elem_find(open_inodes, obj) /\ Holders(obj) = {} /\ \A q \in Procs : call[q].obj # obj
        /\ call[p] = NoCall /\ \A q \in Procs : q # p => call'[q] = call[q]
        /\ call'[p].obj = obj /\ call'[p].slot = slot
        /\ Entry(slot, obj) /\ Counts(obj, no, 0)
  BY Zenon, CreateStarted
<1>4. \A x \in Objects : x # obj =>
         /\ inode'[x].i_no = inode[x].i_no
         /\ inode'[x].i_open_cnts = inode[x].i_open_cnts
         /\ Holders(x)' \subseteq Holders(x)
         /\ elem_find(open_inodes', x) <=> elem_find(open_inodes, x)
  BY Zenon, <1>2, <1>3 DEF Entry, Counts
<1>5. \A q \in Procs : q # p => SameCreate(q) /\ call[q].obj # obj  BY Zenon, <1>3 DEF SameCreate
<1>6. Holders(obj)' \subseteq {call'[p].slot}  BY Zenon, <1>3 DEF Entry
<1>7. Distinct(open_inodes') /\ ~elem_find(open_inodes', obj)  BY Zenon, <1>1, <1>2, <1>3 DEF ListOK
<1>8. inode'[obj].i_no # 0  BY <1>3, Constants DEF Counts
<1>9. call[p].obj = NULL /\ call'[p].obj = obj  BY <1>3 DEF NoCall
<1>10. OneInode(p, obj)  BY Zenon, <1>4, <1>5, <1>6, <1>7, <1>8, <1>9 DEF OneInode
<1> QED BY Zenon, <1>1, <1>10, HeldOthers

(***************************************************************************)
(* At its end the inode has one count and one entry at most.               *)
(***************************************************************************)
LEMMA HeldCreateDone ==
  ASSUME Good, Types', NEW p \in Procs, create_done(p)
  PROVE  CreatingOK' /\ ListOK'
<1>1. /\ TypeOK /\ CallsOK /\ CallsOK' /\ CreatingOK /\ ListOK /\ call \in [Procs -> Call]
  BY Zenon DEF Good, Types, TypeOK
<1>2. PICK obj \in Objects, slot \in GlobalFds :
        /\ call[p].obj = obj /\ inode[obj].i_no # 0 /\ Holders(obj) \subseteq {slot}
        /\ \A q \in Procs : q # p => call[q].obj # obj
        /\ call' = [call EXCEPT ![p] = NoCall]
        /\ Counts(obj, inode[obj].i_no, 1) /\ Lists(obj)
  BY Zenon, CreateEnded
<1>3. \A x : Holders(x)' = Holders(x)  BY Zenon DEF Holders, create_done
<1>4. \A x \in Objects : x # obj =>
         /\ inode'[x].i_no = inode[x].i_no
         /\ inode'[x].i_open_cnts = inode[x].i_open_cnts
         /\ Holders(x)' \subseteq Holders(x)
         /\ elem_find(open_inodes', x) <=> elem_find(open_inodes, x)
  BY Zenon, <1>2, <1>3 DEF Counts, Lists
<1>5. /\ call'[p] = NoCall /\ \A q \in Procs : q # p => SameCreate(q) /\ call[q].obj # obj
  BY Zenon, <1>1, <1>2 DEF SameCreate
<1>6. Cardinality(Holders(obj)') <= inode'[obj].i_open_cnts /\ inode'[obj].i_no # 0
  <2>1. IsFiniteSet({slot}) /\ Cardinality({slot}) = 1  BY Zenon, FS_Singleton
  <2>2. Holders(obj)' \in SUBSET {slot}  BY Zenon, <1>2, <1>3
  <2>3. Cardinality(Holders(obj)') <= Cardinality({slot})  BY Zenon, <2>1, <2>2, FS_Subset
  <2> QED BY Zenon, <1>2, <2>1, <2>3 DEF Counts
<1>7. call'[p].obj = NULL /\ call'[p].op # "create"  BY <1>5 DEF NoCall
<1>8. OneInode(p, obj)  BY Zenon, <1>2, <1>4, <1>5, <1>6, <1>7 DEF OneInode, Lists
<1> QED BY Zenon, <1>1, <1>8, HeldOthers

(***************************************************************************)
(* Closing the descriptor of a pipe changes no entry that has a file.      *)
(***************************************************************************)
LEMMA PipeClosed ==
  ASSUME TypeOK, FlagsOK, NEW p \in Procs, NEW fd \in LocalFds, ClosesPipe(p, fd)
  PROVE  SameHolders
<1>1. PICK slot \in GlobalFds : slot = fd_table[p][fd] /\ file_table[slot].fd_flag = PIPE_FLAG /\ close_pipe(slot)
  BY Zenon DEF ClosesPipe
<1>2. file_table \in [0 .. (MAX_FILE_OPEN - 1) -> File] /\ file_table[slot] \in File
  BY Zenon, Constants DEF TypeOK
<1>3. file_table' = [file_table EXCEPT ![slot] = PipeLess(file_table[slot])]
  BY Zenon, <1>1 DEF close_pipe, PipeLess
<1>4. \A s \in GlobalFds : file_table'[s] = IF s = slot THEN PipeLess(file_table[slot]) ELSE file_table[s]
  BY Zenon, <1>2, <1>3, Constants
<1>5. PipeLess(file_table[slot]).fd_inode = NULL \/ PipeLess(file_table[slot]).fd_inode = file_table[slot].fd_inode
  BY Zenon, <1>2, PipeEntry
<1>6. file_table[slot].fd_inode \in {NULL, RING}  BY Zenon, <1>1 DEF FlagsOK
<1>7. file_table[slot].fd_inode \notin Objects /\ PipeLess(file_table[slot]).fd_inode \notin Objects
  BY Zenon, <1>5, <1>6, Constants
<1> QED BY Zenon, <1>4, <1>7 DEF SameHolders

(***************************************************************************)
(* Closing the descriptor of a file takes one entry and one count from its *)
(* inode; the last of them frees it.                                       *)
(***************************************************************************)
LEMMA HeldCloseFile ==
  ASSUME Good, Types', SameCreates, NEW p \in Procs, call[p].obj = NULL,
         NEW slot \in GlobalFds, NEW obj \in Objects,
         file_table[slot].fd_inode = obj, ~StopsAt(slot), file_close(slot)
  PROVE  CreatingOK' /\ ListOK'
<1>1. /\ TypeOK /\ CallsOK /\ CallsOK' /\ CreatingOK /\ ListOK
      /\ file_table \in [0 .. (MAX_FILE_OPEN - 1) -> File]
  BY Zenon DEF Good, Types, TypeOK
<1>2. /\ file_table' = [file_table EXCEPT ![slot].fd_inode = NULL]
      /\ Distinct(open_inodes') /\ \A o \in Objects : o # obj => inode'[o] = inode[o]
      /\ \/ /\ inode[obj].i_open_cnts = 1 /\ elem_find(open_inodes, obj)
            /\ \A o : elem_find(open_inodes', o) <=> o # obj /\ elem_find(open_inodes, o)
         \/ /\ inode[obj].i_open_cnts # 1 /\ UNCHANGED open_inodes
            /\ inode'[obj].i_no = inode[obj].i_no
            /\ inode'[obj].i_open_cnts = inode[obj].i_open_cnts - 1
  BY Zenon, FileClosed
<1>3. slot \in Holders(obj) /\ inode[obj].i_open_cnts \in Int  BY Zenon, <1>1, EntryHolds
<1>4. \A x \in Objects : Holders(x)' = Holders(x) \ {slot}
  <2>1. \A s \in GlobalFds : file_table'[s].fd_inode = IF s = slot THEN NULL ELSE file_table[s].fd_inode
    BY <1>1, <1>2, Constants DEF File
  <2>2. \A x : Holders(x)' = IF x = NULL THEN Holders(x) \cup {slot} ELSE Holders(x) \ {slot}
    BY Zenon, <2>1, EntryTaken
  <2> QED BY Zenon, <2>2, Constants
<1>5. /\ Cardinality(Holders(obj)) \in Nat /\ IsFiniteSet(Holders(obj)')
      /\ Cardinality(Holders(obj)') = Cardinality(Holders(obj)) - 1
  <2>1. /\ IsFiniteSet(Holders(obj)) /\ Cardinality(Holders(obj)) \in Nat
        /\ Cardinality(Holders(obj) \ {slot}) = Cardinality(Holders(obj)) - 1
    BY Zenon, <1>3, OneMoreHolder
  <2>2. IsFiniteSet(Holders(obj) \ {slot})  BY Zenon, <2>1, FS_RemoveElement
  <2> QED BY Zenon, <1>4, <2>1, <2>2
<1>6. /\ \A x \in Objects : x # obj =>
           /\ inode'[x].i_no = inode[x].i_no
           /\ inode'[x].i_open_cnts = inode[x].i_open_cnts
           /\ Holders(x)' \subseteq Holders(x)
           /\ elem_find(open_inodes', x) <=> elem_find(open_inodes, x)
      /\ Distinct(open_inodes')
  BY Zenon, <1>2, <1>4
<1>7. CASE elem_find(open_inodes, obj)
  <2>1. Cardinality(Holders(obj)) <= inode[obj].i_open_cnts /\ inode[obj].i_no # 0
    BY Zenon, <1>1, <1>7 DEF ListOK
  <2>2. \A q \in Procs : q # p => SameCreate(q) /\ call[q].obj # obj
    BY Zenon, <1>7, OwnObject DEF SameCreates
  <2>3. call[p].obj = NULL /\ call'[p].obj = NULL /\ call'[p].op # "create"
    BY Zenon, <1>1 DEF SameCreates, SameCreate, CallsOK
  <2>4. CASE inode[obj].i_open_cnts = 1
    <3>1. Cardinality(Holders(obj)') = 0
      <4>1. Holders(obj) # {} /\ IsFiniteSet(Holders(obj))  BY Zenon, <1>3, OneMoreHolder
      <4>2. Cardinality(Holders(obj)) # 0  BY Zenon, <4>1, FS_EmptySet
      <4> QED BY <1>5, <2>1, <2>4, <4>2
    <3>2. Holders(obj)' = {}  BY Zenon, <1>5, <3>1, FS_EmptySet
    <3>3. ~elem_find(open_inodes', obj)  BY Zenon, <1>2, <2>4
    <3>4. OneInode(p, obj)  BY Zenon, <1>6, <2>2, <2>3, <3>2, <3>3 DEF OneInode
    <3> QED BY Zenon, <1>1, <3>4, HeldOthers
  <2>5. CASE inode[obj].i_open_cnts # 1
    <3>1. /\ elem_find(open_inodes', obj) /\ inode'[obj].i_no # 0
          /\ inode'[obj].i_open_cnts = inode[obj].i_open_cnts - 1
      BY Zenon, <1>2, <1>7, <2>1, <2>5
    <3>2. Cardinality(Holders(obj)') <= inode'[obj].i_open_cnts  BY <1>3, <1>5, <2>1, <3>1
    <3>3. OneInode(p, obj)  BY Zenon, <1>6, <2>2, <2>3, <3>1, <3>2 DEF OneInode
    <3> QED BY Zenon, <1>1, <3>3, HeldOthers
  <2> QED BY Zenon, <2>4, <2>5
<1>8. CASE ~elem_find(open_inodes, obj)
  <2>1. PICK q \in Procs : call[q].obj = obj
    BY Zenon, <1>1, <1>3, <1>8 DEF ListOK, Creating
  <2>2. call[q].op = "create"  BY Zenon, <1>1, <2>1, Constants DEF CallsOK
  <2>3. /\ inode[obj].i_no # 0 /\ Holders(obj) \subseteq {call[q].slot}
        /\ \A r \in Procs : r # q => call[r].obj # obj
    BY Zenon, <1>1, <2>1, <2>2, Constants DEF CreatingOK
  <2>4. call'[q].obj = obj /\ call'[q].slot = call[q].slot /\ \A r \in Procs : SameCreate(r)
    BY Zenon, <2>1, <2>2 DEF SameCreates, SameCreate
  <2>5. ~elem_find(open_inodes', obj) /\ inode'[obj].i_no # 0
    BY Zenon, <1>2, <1>8, <2>3
  <2>6. Holders(obj)' \subseteq {call'[q].slot}  BY Zenon, <1>4, <2>3, <2>4
  <2>7. OneInode(q, obj)
    BY Zenon, <1>6, <2>1, <2>3, <2>4, <2>5, <2>6 DEF OneInode
  <2> QED BY Zenon, <1>1, <2>7, HeldOthers
<1> QED BY Zenon, <1>7, <1>8

(***************************************************************************)
(* A descriptor is closed, by sys_close or on the way out.                 *)
(***************************************************************************)
LEMMA HeldClose ==
  ASSUME Good, Types', SameCreates, NEW p \in Procs, call[p].obj = NULL,
         NEW fd \in LocalFds, NEW fds, close_fd(p, fd, fds)
  PROVE  CreatingOK' /\ ListOK'
<1>1. /\ TypeOK /\ TypeOK' /\ CallsOK /\ CreatingOK /\ ListOK /\ FdsOK /\ FlagsOK
  BY Zenon DEF Good, Types
<1>2. \A x \in Objects : inode[x].i_open_cnts >= inode[x].i_open_cnts  BY <1>1 DEF TypeOK, Inode
<1>3. CASE Faults(p, fd) \/ ClosesNothing(p, fd)
  <2>1. UNCHANGED <<file_table, inode, open_inodes>>  BY Zenon, <1>3 DEF Faults, ClosesNothing
  <2>2. SameHolders  BY Zenon, <2>1 DEF SameHolders
  <2> QED BY Zenon, <1>1, <1>2, <2>1, <2>2, HeldSame
<1>4. CASE ClosesPipe(p, fd)
  <2>1. UNCHANGED <<inode, open_inodes>>  BY Zenon, <1>4 DEF ClosesPipe, close_pipe
  <2>2. SameHolders  BY Zenon, <1>1, <1>4, PipeClosed
  <2> QED BY Zenon, <1>1, <1>2, <2>1, <2>2, HeldSame
<1>5. CASE ClosesFile(p, fd)
  <2>1. PICK slot \in GlobalFds :
          file_table[slot].fd_inode \in Objects /\ ~StopsAt(slot) /\ file_close(slot)
    BY Zenon, <1>5 DEF ClosesFile
  <2>2. PICK obj \in Objects : file_table[slot].fd_inode = obj  BY Zenon, <2>1
  <2> QED BY Zenon, <2>1, <2>2, HeldCloseFile
<1> QED BY Zenon, <1>1, <1>3, <1>4, <1>5, CloseCases

(***************************************************************************)
(* A fork counts the inodes of the files it shares once more.              *)
(***************************************************************************)
LEMMA HeldFork ==
  ASSUME Good, Types', NEW p \in Procs, NEW q \in Procs, sys_fork(p, q)
  PROVE  CreatingOK' /\ ListOK'
<1>1. /\ TypeOK /\ TypeOK' /\ CallsOK /\ CreatingOK /\ ListOK /\ inode \in [Objects -> Inode]
  BY Zenon DEF Good, Types, TypeOK
<1>2. /\ file_table' = count_pipes(p) /\ inode' = count_inodes(p) /\ UNCHANGED <<open_inodes, call>>
  BY Zenon DEF sys_fork, Enters
<1>3. /\ \A slot \in GlobalFds : count_pipes(p)[slot].fd_inode = file_table[slot].fd_inode
      /\ \A obj \in Objects :
           /\ count_inodes(p)[obj].i_no = inode[obj].i_no
           /\ count_inodes(p)[obj].i_open_cnts = inode[obj].i_open_cnts + Cardinality(NewOpens(p, obj))
  BY Zenon, <1>1, ForkCounts
<1>4. SameCreates /\ SameHolders  BY Zenon, <1>2, <1>3 DEF SameCreates, SameCreate, SameHolders
<1>5. ASSUME NEW obj \in Objects
      PROVE  /\ inode'[obj].i_no = inode[obj].i_no
             /\ inode'[obj].i_open_cnts >= inode[obj].i_open_cnts
  <2>1. NewOpens(p, obj) \subseteq LocalFds  BY Zenon DEF NewOpens, CountedFds
  <2>2. Cardinality(NewOpens(p, obj)) \in Nat  BY Zenon, <2>1, FdsFinite
  <2>3. inode[obj].i_open_cnts \in Int  BY <1>1 DEF Inode
  <2> QED BY <1>2, <1>3, <2>2, <2>3
<1> QED BY Zenon, <1>1, <1>2, <1>4, <1>5, HeldSame

(***************************************************************************)
(* The entry that sys_pipe takes was free, so that no inode loses it.      *)
(***************************************************************************)
LEMMA HeldPipe ==
  ASSUME Good, Types', NEW p \in Procs, sys_pipe(p)
  PROVE  CreatingOK' /\ ListOK'
<1>1. /\ TypeOK /\ TypeOK' /\ CallsOK /\ CreatingOK /\ ListOK
      /\ file_table \in [0 .. (MAX_FILE_OPEN - 1) -> File]
  BY Zenon DEF Good, Types, TypeOK
<1>2. UNCHANGED <<inode, open_inodes, call>> /\ FreeSlots # {}  BY Zenon DEF sys_pipe
<1>3. PICK slot \in GlobalFds : slot = get_free_slot_in_global /\ file_table[slot].fd_inode = NULL
  BY Zenon, <1>2, FreeFound
<1>4. file_table' = [file_table EXCEPT ![slot] = [fd_inode |-> RING, fd_flag |-> PIPE_FLAG, fd_pos |-> 2]]
  BY Zenon, <1>3 DEF sys_pipe
<1>5. \A s \in GlobalFds : file_table'[s].fd_inode = IF s = slot THEN RING ELSE file_table[s].fd_inode
  BY <1>1, <1>4, Constants
<1>6. SameHolders  BY Zenon, <1>3, <1>5, Constants DEF SameHolders
<1>7. SameCreates  BY Zenon, <1>2 DEF SameCreates, SameCreate
<1>8. \A x \in Objects : inode[x].i_open_cnts >= inode[x].i_open_cnts  BY <1>1 DEF TypeOK, Inode
<1> QED BY Zenon, <1>1, <1>2, <1>6, <1>7, <1>8, HeldSame

(***************************************************************************)
(* The steps that leave the file table, the inodes and the list alone.     *)
(***************************************************************************)
LEMMA HeldCall ==
  ASSUME Good, Types', SameCreates, UNCHANGED <<file_table, inode, open_inodes>>
  PROVE  CreatingOK' /\ ListOK'
<1>1. TypeOK /\ TypeOK' /\ CallsOK /\ CreatingOK /\ ListOK  BY Zenon DEF Good, Types
<1>2. SameHolders  BY Zenon DEF SameHolders
<1>3. \A x \in Objects : inode[x].i_open_cnts >= inode[x].i_open_cnts  BY <1>1 DEF TypeOK, Inode
<1> QED BY Zenon, <1>1, <1>2, <1>3, HeldSame

(***************************************************************************)
(* A call that is not file_create begins, goes on or ends.                 *)
(***************************************************************************)
LEMMA OtherCall ==
  ASSUME Good, NEW p \in Procs, call[p].op # "create", NEW c, c.obj = NULL, c.op # "create",
         call' = [call EXCEPT ![p] = c]
  PROVE  SameCreates
<1>1. call \in [Procs -> Call] /\ CallsOK  BY Zenon DEF Good, TypeOK
<1>2. call[p].obj = NULL  BY Zenon, <1>1 DEF CallsOK
<1>3. \A q \in Procs : call'[q] = IF q = p THEN c ELSE call[q]  BY Zenon, <1>1
<1> QED BY Zenon, <1>2, <1>3 DEF SameCreates, SameCreate

(***************************************************************************)
(* A turn of release_prog_resource's loop, and what precedes it.           *)
(***************************************************************************)
LEMMA ExitTurn ==
  ASSUME Good, NEW p \in Procs, sys_exit(p) \/ exit_next(p)
  PROVE  /\ \E fd \in LocalFds : exit_close(p, fd) /\ (call[p] = NoCall => fd = 3)
                                 /\ (call[p] # NoCall => call[p].op = "exit" /\ fd = call[p].slot)
         /\ p \in alive /\ p # shell /\ call[p].op \in {"none", "exit"} /\ call[p].obj = NULL
         /\ SameCreates
<1>1. TypeOK /\ CallsOK  BY Zenon DEF Good
<1>2. PICK fd \in LocalFds : /\ exit_close(p, fd) /\ (call[p] = NoCall => fd = 3)
                             /\ (call[p] # NoCall => call[p].op = "exit" /\ fd = call[p].slot)
                             /\ p \in alive /\ p # shell /\ call[p].op \in {"none", "exit"}
  <2>1. CASE sys_exit(p)
    <3>1. 3 \in LocalFds  BY FilesAssumption DEF LocalFds
    <3>2. p \in alive /\ p # shell /\ exit_close(p, 3) /\ call[p] = NoCall  BY Zenon, <2>1 DEF sys_exit, Enters
    <3>3. NoCall.op = "none"  BY DEF NoCall
    <3> QED BY Zenon, <3>1, <3>2, <3>3
  <2>2. CASE exit_next(p)
    <3>1. call[p].op = "exit" /\ exit_close(p, call[p].slot)
      BY Zenon, <2>2 DEF exit_next, Resumes
    <3>2. call[p] # NoCall  BY <3>1 DEF NoCall
    <3>3. call[p].slot \in LocalFds /\ p # shell /\ p \in alive  BY <1>1, <3>1 DEF CallsOK
    <3> QED BY Zenon, <3>1, <3>2, <3>3
  <2> QED BY Zenon, <2>1, <2>2
<1>3. call[p].op # "create" /\ call[p].obj = NULL  BY <1>1, <1>2 DEF CallsOK
<1>4. SameCreates
  <2>1. PICK c : /\ c = IF fd = MAX_FILES_OPEN_PER_PROC - 1 THEN NoCall
                        ELSE [NoCall EXCEPT !.op = "exit", !.slot = fd + 1]
                 /\ call' = [call EXCEPT ![p] = c]
    BY Zenon, <1>2 DEF exit_close
  <2>2. c.obj = NULL /\ c.op # "create"
    BY <2>1 DEF NoCall
  <2> QED BY Zenon, <1>3, <2>1, <2>2, OtherCall
<1> QED BY Zenon, <1>2, <1>3, <1>4

Step(p) ==
  \/ file_create(p) \/ entry_written(p) \/ create_done(p)
  \/ inode_read(p)
  \/ sys_exit(p) \/ exit_next(p) \/ sys_pipe(p)
  \/ entry_deleted(p) \/ inode_released(p)
  \/ \E no \in Inodes : sys_unlink(p, no) \/ \E flag \in Flags : sys_open(p, no, flag)
  \/ \E fd \in LocalFds : sys_close(p, fd)
  \/ \E q \in Procs : sys_fork(p, q)
  \/ \E old \in StdFds, new \in StdFds \cup LocalFds : sys_fd_redirect(p, old, new)

(***************************************************************************)
(* Every step keeps what is known of the inodes.                           *)
(***************************************************************************)
LEMMA GoodStep ==
  ASSUME Good, NEW p \in Procs, Step(p)
  PROVE  Good'
<1>1. Types  BY Zenon DEF Good, Types
<1>2. Types' /\ CreatingOK' /\ ListOK' => Good'  BY Zenon DEF Good, Types
<1>3. CASE file_create(p)
  <2>1. Types'  BY Zenon, <1>1, <1>3, TypesCreate
  <2> QED BY Zenon, <1>2, <1>3, <2>1, HeldCreate
<1>4. CASE create_done(p)
  <2>1. Types'  BY Zenon, <1>1, <1>4, TypesCreateDone
  <2> QED BY Zenon, <1>2, <1>4, <2>1, HeldCreateDone
<1>5. CASE inode_read(p)
  <2>1. Types'  BY Zenon, <1>1, <1>5, TypesRead
  <2> QED BY Zenon, <1>2, <1>5, <2>1, HeldRead
<1>6. CASE entry_written(p) \/ entry_deleted(p) \/ inode_released(p)
  <2>1. Types'  BY Zenon, <1>1, <1>6, TypesDisk
  <2>2. UNCHANGED <<file_table, inode, open_inodes>>
    BY Zenon, <1>6 DEF entry_written, entry_deleted, inode_released
  <2>3. CASE entry_written(p) \/ entry_deleted(p)
    <3>1. UNCHANGED call  BY Zenon, <2>3 DEF entry_written, entry_deleted
    <3>2. SameCreates  BY Zenon, <3>1 DEF SameCreates, SameCreate
    <3> QED BY Zenon, <1>2, <2>1, <2>2, <3>2, HeldCall
  <2>4. CASE inode_released(p)
    <3>1. call' = [call EXCEPT ![p] = NoCall] /\ call[p].op = "unlink"
      BY Zenon, <2>4 DEF inode_released, Resumes
    <3>2. NoCall.obj = NULL /\ NoCall.op # "create" /\ call[p].op # "create"
      BY <3>1 DEF NoCall
    <3>3. SameCreates  BY Zenon, <3>1, <3>2, OtherCall
    <3> QED BY Zenon, <1>2, <2>1, <2>2, <3>3, HeldCall
  <2> QED BY Zenon, <1>6, <2>3, <2>4
<1>7. CASE sys_exit(p) \/ exit_next(p)
  <2>1. Types'  BY Zenon, <1>7, TypesExit
  <2>2. PICK fd \in LocalFds : exit_close(p, fd)  BY Zenon, <1>7, ExitTurn
  <2>3. SameCreates /\ call[p].obj = NULL  BY Zenon, <1>7, ExitTurn
  <2>4. PICK fds : close_fd(p, fd, fds)  BY Zenon, <2>2 DEF exit_close
  <2> QED BY Zenon, <1>2, <2>1, <2>3, <2>4, HeldClose
<1>8. CASE sys_pipe(p)
  <2>1. Types'  BY Zenon, <1>1, <1>8, TypesPipe
  <2> QED BY Zenon, <1>2, <1>8, <2>1, HeldPipe
<1>9. ASSUME NEW no \in Inodes, sys_unlink(p, no) PROVE Good'
  <2>1. Types'  BY Zenon, <1>1, <1>9, TypesUnlink
  <2>2. /\ UNCHANGED <<file_table, inode, open_inodes>> /\ call[p] = NoCall
        /\ call' = [call EXCEPT ![p] = [NoCall EXCEPT !.op = "unlink", !.no = no]]
    BY Zenon, <1>9 DEF sys_unlink, Enters
  <2>3. PICK c : c = [NoCall EXCEPT !.op = "unlink", !.no = no]  OBVIOUS
  <2>4. c.obj = NULL /\ c.op # "create" /\ NoCall.op # "create"
    BY <2>3 DEF NoCall
  <2>5. SameCreates  BY Zenon, <2>2, <2>3, <2>4, OtherCall
  <2> QED BY Zenon, <1>2, <2>1, <2>2, <2>5, HeldCall
<1>10. ASSUME NEW no \in Inodes, NEW flag \in Flags, sys_open(p, no, flag) PROVE Good'
  <2>1. Types'  BY Zenon, <1>1, <1>10, TypesOpen
  <2> QED BY Zenon, <1>2, <1>10, <2>1, HeldOpen
<1>11. ASSUME NEW fd \in LocalFds, sys_close(p, fd) PROVE Good'
  <2>1. Types'  BY Zenon, <1>11, TypesSysClose
  <2>2. UNCHANGED call /\ call[p] = NoCall /\ \E fds : close_fd(p, fd, fds)
    BY Zenon, <1>11 DEF sys_close, Enters
  <2>3. SameCreates /\ call[p].obj = NULL
    <3>1. NoCall.obj = NULL  BY DEF NoCall
    <3> QED BY Zenon, <2>2, <3>1 DEF SameCreates, SameCreate
  <2> QED BY Zenon, <1>2, <2>1, <2>2, <2>3, HeldClose
<1>12. ASSUME NEW q \in Procs, sys_fork(p, q) PROVE Good'
  <2>1. Types'  BY Zenon, <1>1, <1>12, TypesFork
  <2> QED BY Zenon, <1>2, <1>12, <2>1, HeldFork
<1>13. ASSUME NEW old \in StdFds, NEW new \in StdFds \cup LocalFds, sys_fd_redirect(p, old, new)
       PROVE  Good'
  <2>1. Types'  BY Zenon, <1>1, <1>13, TypesRedirect
  <2>2. UNCHANGED <<file_table, inode, open_inodes, call>>  BY Zenon, <1>13 DEF sys_fd_redirect
  <2>3. SameCreates  BY Zenon, <2>2 DEF SameCreates, SameCreate
  <2> QED BY Zenon, <1>2, <2>1, <2>2, <2>3, HeldCall
<1> QED BY Zenon, <1>3, <1>4, <1>5, <1>6, <1>7, <1>8, <1>9, <1>10, <1>11, <1>12, <1>13 DEF Step

(***************************************************************************)
(* A step of a process begins a call or goes on with one, and leaves the   *)
(* calls of the others alone.                                              *)
(***************************************************************************)
LEMMA StepFrame ==
  ASSUME Good, NEW p \in Procs, Step(p)
  PROVE  /\ Enters(p) \/ (UNCHANGED overlapped /\ call[p] # NoCall)
         /\ ~stopped
         /\ \A q \in Procs : q # p => call'[q] = call[q]
         /\ (overlapped => overlapped') /\ (shared => shared')
<1>1. call \in [Procs -> Call]  BY Zenon DEF Good, TypeOK
<1>2. \/ Enters(p)
      \/ Resumes(p, "open") \/ Resumes(p, "create") \/ Resumes(p, "unlink") \/ Resumes(p, "exit")
  BY Zenon DEF Step, file_create, entry_written, create_done, inode_read, sys_exit, exit_next,
               sys_pipe, entry_deleted, inode_released, sys_unlink, sys_open, sys_close, sys_fork,
               sys_fd_redirect
<1>3. Enters(p) \/ (UNCHANGED overlapped /\ call[p] # NoCall)
  BY <1>2 DEF Resumes, NoCall
<1>4. ~stopped  BY Zenon, <1>2 DEF Enters, Resumes, Runs
<1>5. UNCHANGED call \/ \E c : call' = [call EXCEPT ![p] = c]
  BY Zenon DEF Step, file_create, entry_written, create_done, inode_read, sys_exit, exit_next,
               exit_close, sys_pipe, entry_deleted, inode_released, sys_unlink, sys_open, sys_close,
               sys_fork, sys_fd_redirect
<1>6. \A q \in Procs : q # p => call'[q] = call[q]  BY Zenon, <1>1, <1>5
<1>7. overlapped => overlapped'  BY Zenon, <1>3 DEF Enters
<1>8. shared => shared'
  BY Zenon DEF Step, file_create, entry_written, create_done, inode_read, sys_exit, exit_next,
               exit_close, sys_pipe, entry_deleted, inode_released, sys_unlink, sys_open, sys_close,
               sys_fork, sys_fd_redirect
<1> QED BY Zenon, <1>3, <1>4, <1>6, <1>7, <1>8

(***************************************************************************)
(* As long as calls do not overlap, a process that makes a step is the     *)
(* only one in a call.                                                     *)
(***************************************************************************)
LEMMA Solo ==
  ASSUME Good, Alone, NEW p \in Procs, Step(p), ~overlapped'
  PROVE  \A q \in Procs : q # p => call[q] = NoCall /\ call'[q] = NoCall
<1>1. \A q \in Procs : q # p => call'[q] = call[q]  BY Zenon, StepFrame
<1>2. CASE Enters(p)  BY Zenon, <1>1, <1>2 DEF Enters
<1>3. CASE UNCHANGED overlapped /\ call[p] # NoCall  BY Zenon, <1>1, <1>3 DEF Alone
<1> QED BY Zenon, <1>2, <1>3, StepFrame

(***************************************************************************)
(* At the start there is the shell, and nothing is open.                   *)
(***************************************************************************)
LEMMA GoodInit ==
  ASSUME Init
  PROVE  Good /\ Alone
<1>1. \A p \in Procs : call[p] = NoCall  BY Zenon DEF Init
<1>2. NoCall.obj = NULL /\ NoCall.op = "none"  BY DEF NoCall
<1>3. \A p \in Procs : fd_table[p] = new_fd_table  BY Zenon DEF Init
<1>4. \A slot \in GlobalFds : file_table[slot] = EMPTY_FILE
  BY Zenon, Constants DEF Init
<1>5. EMPTY_FILE.fd_inode = NULL  BY DEF EMPTY_FILE
<1>6. open_inodes = <<>> /\ open_inodes \in Seq(Objects) /\ \A x : ~elem_find(open_inodes, x)
  BY DEF Init, elem_find
<1>7. TypeOK
  <2>1. /\ alive \subseteq Procs /\ IsFiniteSet(alive) /\ shell \in alive
    BY FilesAssumption, FS_Singleton DEF Init
  <2>2. fd_table \in [Procs -> FdTable] /\ file_table \in [0 .. (MAX_FILE_OPEN - 1) -> File]
        /\ inode \in [Objects -> Inode] /\ call \in [Procs -> Call]
    BY Zenon, Constants DEF Init
  <2>3. used \subseteq Inodes /\ named \subseteq Inodes
        /\ stopped \in BOOLEAN /\ overlapped \in BOOLEAN /\ shared \in BOOLEAN
    BY DEF Init
  <2> QED BY Zenon, <1>6, <2>1, <2>2, <2>3 DEF TypeOK, FdTable
<1>8. FdsOK  BY <1>3, Constants DEF FdsOK
<1>9. FlagsOK  BY Zenon, <1>4, <1>5 DEF FlagsOK
<1>10. CallsOK  BY <1>1, <1>2 DEF CallsOK
<1>11. CreatingOK  BY <1>1, <1>2 DEF CreatingOK
<1>12. ListOK
  <2>1. \A obj \in Objects : Holders(obj) = {}
    BY Zenon, <1>4, <1>5, Constants DEF Holders
  <2>2. Distinct(open_inodes)  BY <1>6 DEF Distinct
  <2> QED BY Zenon, <1>6, <2>1, <2>2 DEF ListOK
<1>13. Alone  BY Zenon, <1>1 DEF Alone
<1> QED BY Zenon, <1>7, <1>8, <1>9, <1>10, <1>11, <1>12, <1>13 DEF Good

(***************************************************************************)
(* The invariant of the inodes is inductive.                               *)
(***************************************************************************)
LEMMA InvNext ==
  ASSUME Inv, [Next]_vars
  PROVE  Inv'
<1>1. CASE UNCHANGED vars
  <2>1. /\ UNCHANGED <<alive, fd_table, file_table, inode, open_inodes, used>>
        /\ UNCHANGED <<named, call, stopped, overlapped, shared>>
    BY Zenon, <1>1 DEF vars
  <2> QED BY Zenon, <2>1 DEF Inv, Alone, Good, TypeOK, FdsOK, FlagsOK, CallsOK, CreatingOK, ListOK,
                             Holders, Creating
<1>2. ASSUME NEW p \in Procs, Step(p) PROVE Inv'
  <2>1. Good /\ Alone  BY Zenon DEF Inv
  <2>2. Good'  BY Zenon, <1>2, <2>1, GoodStep
  <2>3. Alone'
    <3>1. ~overlapped' => \A q \in Procs : q # p => call'[q] = NoCall  BY Zenon, <1>2, <2>1, Solo
    <3> QED BY Zenon, <3>1 DEF Alone
  <2> QED BY Zenon, <2>2, <2>3 DEF Inv
<1> QED BY Zenon, <1>1, <1>2 DEF Next, Step

(***************************************************************************)
(* inode_close never frees an inode that an entry of the file table points *)
(* to: it is on the list, and counted for every entry, for any number of   *)
(* processes, files and entries, and whatever overlaps or is shared.       *)
(***************************************************************************)
THEOREM InodesStayAlive == Spec => []InodesAlive
<1>1. Init => Inv  BY Zenon, GoodInit DEF Inv
<1>2. Inv /\ [Next]_vars => Inv'  BY Zenon, InvNext
<1>3. Inv => InodesAlive
  <2> SUFFICES ASSUME Inv, NEW obj \in Objects, Holders(obj) # {}, ~Creating(obj)
               PROVE  elem_find(open_inodes, obj) /\ Cardinality(Holders(obj)) <= inode[obj].i_open_cnts
    BY Zenon DEF InodesAlive
  <2>1. ListOK  BY Zenon DEF Inv, Good
  <2> QED BY Zenon, <2>1 DEF ListOK
<1> QED BY <1>1, <1>2, <1>3, PTL DEF Spec
=============================================================================
