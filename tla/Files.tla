------------------------------- MODULE Files --------------------------------
(***************************************************************************)
(* Open files and pipes: the descriptors of the processes, the file table  *)
(* and the list open_inodes of inodes in memory.  A call runs with         *)
(* interrupts off and gives up the processor only while it waits for the   *)
(* disk; there another process may run, and there is no lock.  The files   *)
(* are in the root directory, which is never closed.                       *)
(***************************************************************************)
EXTENDS Integers, FiniteSetsExt, Functions, List

CONSTANTS
  Procs,                     \* user processes
  shell,                     \* the one that runs at the start
  Inodes,                    \* inode numbers of files: 0 is the root directory
  Objects,                   \* the places of the heap where inodes are put
  MAX_FILE_OPEN,             \* entries of the file table (32)
  MAX_FILES_OPEN_PER_PROC,   \* descriptors of a process (8)
  Flags,                     \* how files are opened
  StdFds,                    \* what is redirected: standard input, output
  MaxOpens                   \* a bound on i_open_cnts

ASSUME FilesAssumption ==
  /\ shell \in Procs
  /\ Inodes \subseteq Nat \ {0} /\ Objects \subseteq Nat \ {0}
  /\ MAX_FILE_OPEN \in Nat /\ MAX_FILE_OPEN > 3
  /\ MAX_FILES_OPEN_PER_PROC \in Nat /\ MAX_FILES_OPEN_PER_PROC > 4
  /\ MaxOpens \in Nat
  /\ Flags \subseteq {0, 1} /\ StdFds \subseteq {0, 1}

VARIABLES
  alive,        \* the processes that exist
  fd_table,     \* the descriptors of each process
  file_table,
  inode,        \* the inodes in memory
  open_inodes,  \* the list of the inodes in memory, by their place
  used,         \* the inode bitmap: the files that have an inode
  named,        \* the files that have a directory entry
  call,         \* what a process that waits for the disk, or exits, is doing
  stopped,      \* a NULL pointer was followed: the page fault stops the system
  overlapped,   \* history: a call ran while another one waited for the disk
  shared        \* history: a process with an open file has forked

vars == <<alive, fd_table, file_table, inode, open_inodes, used, named, call,
          stopped, overlapped, shared>>

NULL == 0
RING == -1            \* stands for the page that holds the ring of a pipe
O_RDONLY == 0
O_WRONLY == 1
PIPE_FLAG == 65535

LocalFds == 3 .. (MAX_FILES_OPEN_PER_PROC - 1)
GlobalFds == 3 .. (MAX_FILE_OPEN - 1)

NoCall == [op |-> "none", no |-> 0, slot |-> 0, flag |-> 0, obj |-> NULL]
FREE_INODE == [i_no |-> 0, i_open_cnts |-> 0, write_deny |-> FALSE]
EMPTY_FILE == [fd_inode |-> NULL, fd_flag |-> O_RDONLY, fd_pos |-> 0]

\* init_thread: standard input, output and error, the rest is free.
new_fd_table == [fd \in 0 .. (MAX_FILES_OPEN_PER_PROC - 1) |-> IF fd < 3 THEN fd ELSE -1]

Init ==
  /\ alive = {shell}
  /\ fd_table = [p \in Procs |-> new_fd_table]
  /\ file_table = [slot \in 0 .. (MAX_FILE_OPEN - 1) |-> EMPTY_FILE]
  /\ inode = [obj \in Objects |-> FREE_INODE]
  /\ open_inodes = <<>>
  /\ used = {} /\ named = {}
  /\ call = [p \in Procs |-> NoCall]
  /\ stopped = FALSE
  /\ overlapped = FALSE /\ shared = FALSE

-----------------------------------------------------------------------------
\* Who exits is not interrupted.
Runs(p) == ~stopped /\ \A q \in Procs : call[q].op = "exit" => q = p

\* A process begins a call; others may be waiting for the disk.
Enters(p) ==
  /\ Runs(p) /\ p \in alive /\ call[p] = NoCall
  /\ overlapped' = (overlapped \/ \E q \in Procs : call[q] # NoCall)

\* The bound on the calls that count an inode once more.
Bounded == \A obj \in Objects : inode[obj].i_open_cnts < MaxOpens

\* A process comes back from the disk, or goes on to exit.
Resumes(p, op) ==
  /\ Runs(p) /\ call[p].op = op
  /\ UNCHANGED overlapped

FreeSlots == {slot \in GlobalFds : file_table[slot].fd_inode = NULL}

get_free_slot_in_global == Min(FreeSlots)

\* pcb_fd_install: a descriptor table that is full stays as it is.
pcb_fd_install(fds, slot) ==
  LET free == {fd \in LocalFds : fds[fd] = -1}
  IN  IF free = {} THEN fds ELSE [fds EXCEPT ![Min(free)] = slot]

is_pipe(p, fd) == file_table[fd_table[p][fd]].fd_flag = PIPE_FLAG

\* Where on the list there are inodes with this number.
Cached(no) == {i \in DOMAIN open_inodes : inode[open_inodes[i]].i_no = no}

FreeObjects == {obj \in Objects : inode[obj] = FREE_INODE}

sys_malloc == Min(FreeObjects)

\* The end of file_open: the inode obj is there, counted and listed in inodes.
finish_open(p, slot, obj, flag, inodes) ==
  /\ file_table' = [file_table EXCEPT ![slot] = [fd_inode |-> obj, fd_flag |-> flag,
                                                 fd_pos |-> 0]]
  /\ LET denied == flag = O_WRONLY /\ inodes[obj].write_deny
     IN  /\ inode' = [inodes EXCEPT ![obj].write_deny = @ \/ flag = O_WRONLY]
         /\ fd_table' = [fd_table EXCEPT ![p] = IF denied THEN @ ELSE pcb_fd_install(@, slot)]

\* sys_open of a file that exists.  An inode that is not in memory is read.
sys_open(p, no, flag) ==
  /\ Enters(p) /\ Bounded
  /\ no \in named /\ FreeSlots # {}
  /\ IF Cached(no) # {}
     THEN LET obj == open_inodes[Min(Cached(no))]
          IN  /\ finish_open(p, get_free_slot_in_global, obj, flag,
                             [inode EXCEPT ![obj].i_open_cnts = @ + 1])
              /\ UNCHANGED call
     ELSE /\ call' = [call EXCEPT ![p] = [NoCall EXCEPT !.op = "open", !.no = no, !.flag = flag,
                                                          !.slot = get_free_slot_in_global]]
          /\ UNCHANGED <<file_table, inode, fd_table>>
  /\ UNCHANGED <<alive, open_inodes, used, named, stopped, shared>>

\* The rest of inode_open and file_open, after ide_read.
inode_read(p) ==
  /\ Resumes(p, "open")
  /\ FreeObjects # {}
  /\ open_inodes' = list_push(open_inodes, sys_malloc)
  /\ finish_open(p, call[p].slot, sys_malloc, call[p].flag,
                 [inode EXCEPT ![sys_malloc] = [i_no |-> call[p].no, i_open_cnts |-> 1,
                                                write_deny |-> FALSE]])
  /\ call' = [call EXCEPT ![p] = NoCall]
  /\ UNCHANGED <<alive, used, named, stopped, shared>>

\* sys_open with O_CREAT: file_create up to the write of the directory entry.
\* The entry of the file table is taken before, the list is entered after it.
file_create(p) ==
  /\ Enters(p)
  /\ FreeSlots # {} /\ Inodes \ used # {}
  /\ FreeObjects # {}
  /\ LET obj  == sys_malloc
         no   == Min(Inodes \ used)
         slot == get_free_slot_in_global
     IN  /\ used' = used \cup {no}
         /\ inode' = [inode EXCEPT ![obj] = [FREE_INODE EXCEPT !.i_no = no]]
         /\ file_table' = [file_table EXCEPT ![slot] =
                             [fd_inode |-> obj, fd_flag |-> O_RDONLY, fd_pos |-> 0]]
         /\ call' = [call EXCEPT ![p] = [NoCall EXCEPT !.op = "create", !.no = no,
                                                           !.slot = slot, !.obj = obj]]
  /\ UNCHANGED <<alive, fd_table, open_inodes, named, stopped, shared>>

\* The entry is on the disk: from now on the file is found.
entry_written(p) ==
  /\ Resumes(p, "create") /\ call[p].no \notin named
  /\ named' = named \cup {call[p].no}
  /\ UNCHANGED <<alive, fd_table, file_table, inode, open_inodes, used, call, stopped, shared>>

\* The end of file_create: its last writes have been made.
create_done(p) ==
  /\ Resumes(p, "create") /\ call[p].no \in named
  /\ open_inodes' = list_push(open_inodes, call[p].obj)
  /\ inode' = [inode EXCEPT ![call[p].obj].i_open_cnts = 1]
  /\ fd_table' = [fd_table EXCEPT ![p] = pcb_fd_install(@, call[p].slot)]
  /\ call' = [call EXCEPT ![p] = NoCall]
  /\ UNCHANGED <<alive, file_table, used, named, stopped, shared>>

-----------------------------------------------------------------------------
\* Mutated: whoever closes an inode frees it.
inode_close_frees(inodes, obj) ==
  /\ inode' = [inodes EXCEPT ![obj] = FREE_INODE]
  /\ open_inodes' = list_remove(open_inodes, obj)

\* inode_close: the last one to close it takes the inode off the list.
inode_close(inodes, obj) ==
  IF inodes[obj].i_open_cnts = 1
  THEN /\ inode' = [inodes EXCEPT ![obj] = FREE_INODE]
       /\ open_inodes' = list_remove(open_inodes, obj)
  ELSE /\ inode' = [inodes EXCEPT ![obj].i_open_cnts = @ - 1]
       /\ UNCHANGED open_inodes

file_close(slot) ==
  LET obj == file_table[slot].fd_inode
  IN  /\ inode_close([inode EXCEPT ![obj].write_deny = FALSE], obj)
      /\ file_table' = [file_table EXCEPT ![slot].fd_inode = NULL]

close_pipe(slot) ==
  /\ LET file == file_table[slot]
     IN  file_table' = [file_table EXCEPT ![slot] =
           [file EXCEPT !.fd_pos = @ - 1,
                        !.fd_inode = IF file.fd_pos = 1 THEN NULL ELSE @]]
  /\ UNCHANGED <<inode, open_inodes>>

\* Closing this entry follows a NULL pointer: the entry is free, or its inode is
\* to leave the list and was never put there, and sys_malloc has cleared its tag.
StopsAt(slot) ==
  LET obj == file_table[slot].fd_inode
  IN  obj = NULL \/ (inode[obj].i_open_cnts = 1 /\ ~elem_find(open_inodes, obj))

\* Mutated: the descriptor of a file is not marked as free.
close_fd_keeps(p, fd, fds) ==
  LET slot == fd_table[p][fd]
  IN  IF slot # -1 /\ ~is_pipe(p, fd) /\ StopsAt(slot)
      THEN stopped' = TRUE /\ UNCHANGED <<fd_table, file_table, inode, open_inodes>>
      ELSE /\ \/ slot = -1 /\ UNCHANGED <<file_table, inode, open_inodes>>
              \/ slot # -1 /\ is_pipe(p, fd) /\ close_pipe(slot)
              \/ slot # -1 /\ ~is_pipe(p, fd) /\ file_close(slot)
           /\ fd_table' = [fd_table EXCEPT ![p] = IF slot = -1 \/ is_pipe(p, fd) THEN fds ELSE @]
           /\ UNCHANGED stopped

\* A descriptor is closed, if it is open, as sys_close and
\* release_prog_resource both do; fds is what becomes of the descriptors.
close_fd(p, fd, fds) ==
  LET slot == fd_table[p][fd]
  IN  IF slot # -1 /\ ~is_pipe(p, fd) /\ StopsAt(slot)
      THEN stopped' = TRUE /\ UNCHANGED <<fd_table, file_table, inode, open_inodes>>
      ELSE /\ \/ slot = -1 /\ UNCHANGED <<file_table, inode, open_inodes>>
              \/ slot # -1 /\ is_pipe(p, fd) /\ close_pipe(slot)
              \/ slot # -1 /\ ~is_pipe(p, fd) /\ file_close(slot)
           /\ fd_table' = [fd_table EXCEPT ![p] = fds]
           /\ UNCHANGED stopped

\* A program closes what it has open and is not its standard input or output.
sys_close(p, fd) ==
  /\ Enters(p)
  /\ fd_table[p][fd] # -1
  /\ fd_table[p][fd] \notin {fd_table[p][0], fd_table[p][1]}
  /\ close_fd(p, fd, [fd_table[p] EXCEPT ![fd] = -1])
  /\ UNCHANGED <<alive, used, named, call, shared>>

\* One turn of the loop of release_prog_resource; after the last one the
\* process is gone.
exit_close(p, fd) ==
  LET last == fd = MAX_FILES_OPEN_PER_PROC - 1
  IN  /\ close_fd(p, fd, IF last THEN new_fd_table ELSE [fd_table[p] EXCEPT ![fd] = -1])
      /\ call' = [call EXCEPT ![p] = IF last THEN NoCall
                                     ELSE [NoCall EXCEPT !.op = "exit", !.slot = fd + 1]]
      /\ alive' = IF last THEN alive \ {p} ELSE alive
      /\ UNCHANGED <<used, named, shared>>

sys_exit(p) == Enters(p) /\ p # shell /\ exit_close(p, 3)

exit_next(p) == Resumes(p, "exit") /\ exit_close(p, call[p].slot)

-----------------------------------------------------------------------------
\* update_inode_open_cnts stops the system at an entry that has no inode.
NullFds(p) ==
  {fd \in LocalFds : /\ fd_table[p][fd] # -1 /\ ~is_pipe(p, fd)
                     /\ file_table[fd_table[p][fd]].fd_inode = NULL}

CountedFds(p) ==
  {fd \in LocalFds : fd_table[p][fd] # -1 /\ \A null \in NullFds(p) : fd < null}

\* Mutated: a fork does not count the descriptors of a pipe.
count_no_pipes(p) == file_table

count_pipes(p) ==
  [slot \in DOMAIN file_table |->
     [file_table[slot] EXCEPT !.fd_pos = @ +
        Cardinality({fd \in CountedFds(p) : fd_table[p][fd] = slot /\ is_pipe(p, fd)})]]

count_inodes(p) ==
  [obj \in Objects |->
     [inode[obj] EXCEPT !.i_open_cnts = @ +
        Cardinality({fd \in CountedFds(p) : /\ ~is_pipe(p, fd)
                                            /\ file_table[fd_table[p][fd]].fd_inode = obj})]]

sys_fork(p, q) ==
  /\ Enters(p) /\ Bounded /\ q \notin alive
  /\ fd_table' = [fd_table EXCEPT ![q] = fd_table[p]]
  /\ file_table' = count_pipes(p)
  /\ inode' = count_inodes(p)
  /\ stopped' = (NullFds(p) # {})
  /\ alive' = alive \cup {q}
  /\ shared' = (shared \/ \E fd \in LocalFds : fd_table[p][fd] # -1 /\ ~is_pipe(p, fd))
  /\ UNCHANGED <<open_inodes, used, named, call>>

\* sys_pipe: two descriptors of one entry, which counts them in fd_pos.
sys_pipe(p) ==
  /\ Enters(p)
  /\ FreeSlots # {}
  /\ Cardinality({fd \in LocalFds : fd_table[p][fd] = -1}) >= 2
  /\ LET slot == get_free_slot_in_global
     IN  /\ file_table' = [file_table EXCEPT ![slot] = [fd_inode |-> RING, fd_flag |-> PIPE_FLAG,
                                                        fd_pos |-> 2]]
         /\ fd_table' = [fd_table EXCEPT ![p] = pcb_fd_install(pcb_fd_install(@, slot), slot)]
  /\ UNCHANGED <<alive, inode, open_inodes, used, named, call, stopped, shared>>

\* my_shell redirects its standard input and output to a pipe and back.
sys_fd_redirect(p, old, new) ==
  /\ Enters(p) /\ p = shell
  /\ IF new < 3 THEN new = old ELSE fd_table[p][new] # -1 /\ is_pipe(p, new)
  /\ fd_table' = [fd_table EXCEPT ![p][old] = IF new < 3 THEN new ELSE fd_table[p][new]]
  /\ UNCHANGED <<alive, file_table, inode, open_inodes, used, named, call, stopped, shared>>

-----------------------------------------------------------------------------
\* Mutated: a file that is open is deleted.
unlink_open(p, no) ==
  /\ Enters(p)
  /\ no \in named
  /\ call' = [call EXCEPT ![p] = [NoCall EXCEPT !.op = "unlink", !.no = no]]
  /\ UNCHANGED <<alive, fd_table, file_table, inode, open_inodes, used, named, stopped, shared>>

\* sys_unlink finds the file and sees that no entry of the table has it.
sys_unlink(p, no) ==
  /\ Enters(p)
  /\ no \in named
  /\ \A slot \in GlobalFds : LET obj == file_table[slot].fd_inode
                             IN  obj \in Objects => inode[obj].i_no # no
  /\ call' = [call EXCEPT ![p] = [NoCall EXCEPT !.op = "unlink", !.no = no]]
  /\ UNCHANGED <<alive, fd_table, file_table, inode, open_inodes, used, named, stopped, shared>>

entry_deleted(p) ==
  /\ Resumes(p, "unlink") /\ call[p].no \in named
  /\ named' = named \ {call[p].no}
  /\ UNCHANGED <<alive, fd_table, file_table, inode, open_inodes, used, call, stopped, shared>>

\* The end of inode_release: the inode it opened has been closed again.
inode_released(p) ==
  /\ Resumes(p, "unlink") /\ call[p].no \notin named
  /\ used' = used \ {call[p].no}
  /\ call' = [call EXCEPT ![p] = NoCall]
  /\ UNCHANGED <<alive, fd_table, file_table, inode, open_inodes, named, stopped, shared>>

Next ==
  \E p \in Procs :
    \/ file_create(p) \/ entry_written(p) \/ create_done(p)
    \/ inode_read(p)
    \/ sys_exit(p) \/ exit_next(p) \/ sys_pipe(p)
    \/ entry_deleted(p) \/ inode_released(p)
    \/ \E no \in Inodes : sys_unlink(p, no) \/ \E flag \in Flags : sys_open(p, no, flag)
    \/ \E fd \in LocalFds : sys_close(p, fd)
    \/ \E q \in Procs : sys_fork(p, q)
    \/ \E old \in StdFds, new \in StdFds \cup LocalFds : sys_fd_redirect(p, old, new)

Spec == Init /\ [][Next]_vars

-----------------------------------------------------------------------------
\* The entries of the file table that hold this inode.
Holders(obj) == {slot \in GlobalFds : file_table[slot].fd_inode = obj}

\* The descriptors past standard error that refer to this entry.
Refs(slot) == {x \in alive \X LocalFds : fd_table[x[1]][x[2]] = slot}

Creating(obj) == \E p \in Procs : call[p].obj = obj

(***************************************************************************)
(* An inode that an entry of the file table points to is still on the list *)
(* open_inodes, and is counted for every entry that points to it, so that  *)
(* inode_close never frees an inode that is in use: whatever calls run     *)
(* while others wait for the disk, and whoever shares a file after fork.   *)
(***************************************************************************)
InodesAlive ==
  \A obj \in Objects :
    (Holders(obj) # {} /\ ~Creating(obj)) =>
      elem_find(open_inodes, obj) /\ Cardinality(Holders(obj)) <= inode[obj].i_open_cnts

(***************************************************************************)
(* As long as calls do not overlap and no process forks with a file open,  *)
(* no call follows a NULL fd_inode, every descriptor has an entry of the   *)
(* file table, and an entry of a file is the entry of one descriptor.      *)
(***************************************************************************)
DescriptorsOpen ==
  (~overlapped /\ ~shared) =>
    /\ ~stopped
    /\ \A slot \in GlobalFds :
         LET file == file_table[slot]
         IN  /\ Refs(slot) # {} => file.fd_inode # NULL
             /\ file.fd_inode \in Objects => Cardinality(Refs(slot)) <= 1

(***************************************************************************)
(* The fd_pos of a pipe is the number of descriptors that refer to it, in  *)
(* all processes, through every fork, redirection, close and exit; so the  *)
(* page of its ring is freed by the last of them, and until a process      *)
(* exits its standard input or output is never a pipe that is gone.        *)
(***************************************************************************)
PipesCounted ==
  (~overlapped /\ ~shared) =>
    /\ \A slot \in GlobalFds :
         file_table[slot].fd_inode = RING => file_table[slot].fd_pos = Cardinality(Refs(slot))
    /\ \A p \in alive, fd \in {0, 1} :
         (fd_table[p][fd] # fd /\ call[p].op # "exit") => file_table[fd_table[p][fd]].fd_inode = RING

(***************************************************************************)
(* As long as calls do not overlap, between calls a file has at most one   *)
(* inode in memory, counted for exactly the entries that hold it, and the  *)
(* file exists: sys_unlink deletes no file that is open.                   *)
(***************************************************************************)
OneInodePerFile ==
  (~overlapped /\ ~shared /\ \A p \in Procs : call[p] = NoCall) =>
    /\ \A no \in Inodes : Cardinality(Cached(no)) <= 1
    /\ \A obj \in Objects : elem_find(open_inodes, obj) =>
         /\ inode[obj].i_no \in named
         /\ inode[obj].i_open_cnts = Cardinality(Holders(obj))
    /\ named = used

(***************************************************************************)
(* A file is written by one process at a time, which file_open is to see   *)
(* to with write_deny, as long as calls do not overlap.                    *)
(***************************************************************************)
Writes(p, no) ==
  {slot \in Range(fd_table[p]) \cap GlobalFds :
     /\ file_table[slot].fd_flag = O_WRONLY
     /\ file_table[slot].fd_inode \in Objects
     /\ inode[file_table[slot].fd_inode].i_no = no}

OneWriter ==
  (~overlapped /\ ~shared) =>
    \A p, q \in alive, no \in Inodes :
      Writes(p, no) # {} /\ Writes(q, no) # {} => p = q
=============================================================================
