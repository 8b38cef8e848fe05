------------------------------ MODULE FileSys -------------------------------
(***************************************************************************)
(* The system calls of fs/fs.c that change the disk, one after the other,  *)
(* and a reset of the machine at any moment.  A call is worked out at once *)
(* and its writes then reach the disk one by one, in the order in which    *)
(* the code sends them; a reset loses those that are still to come and     *)
(* mounts what is on the disk.  One file is open at a time; the file table *)
(* and calls that overlap are the subject of module Files.                 *)
(***************************************************************************)
EXTENDS File

CONSTANTS
  Paths,      \* the paths used, as sequences of names
  Counts,     \* how many bytes a program writes at a time
  MaxBytes,   \* a bound on the bytes of all files
  NoData      \* stands for the contents of a directory

ASSUME FileSysAssumption ==
  /\ \A path \in Paths : path # <<>> /\ {".", "..", ""} \cap Range(path) = {}
  /\ Counts \subseteq Nat \ {0}
  /\ MaxBytes \in Nat

MaxDepth == Max({Len(path) : path \in Paths})

(***************************************************************************)
(* What is on the disk d, read from the root down: the paths that exist,   *)
(* each with its directory entry, and the contents of the files.           *)
(***************************************************************************)
RootEntry == [name |-> "", i_no |-> 0, f_type |-> FT_DIRECTORY]

EntriesOf(d, no) == {e \in Range(slots(d, d.inode[no])) : Named(e)}

Below(d, x) ==
  IF x[2].f_type = FT_DIRECTORY
  THEN {<<Append(x[1], e.name), e>> : e \in EntriesOf(d, x[2].i_no)}
  ELSE {}

Listing(d) ==
  FoldLeft(LAMBDA list, n : list \cup UNION {Below(d, x) : x \in {y \in list : Len(y[1]) = n}},
           {<<<<>>, RootEntry>>}, Indexes(0, MaxDepth))

Contents(d, e) ==
  IF e.f_type = FT_DIRECTORY THEN NoData
  ELSE file_read(d, d.inode[e.i_no], 0, d.inode[e.i_no].i_size)

TreeOf(d) ==
  FoldSet(LAMBDA x, t : IF x[1] = <<>> THEN t ELSE t @@ (x[1] :> Contents(d, x[2])),
          <<>>, Listing(d))

VARIABLES
  disk,     \* what is on the disk
  mem,      \* the bitmaps of the partition in memory
  todo,     \* the writes of the running call that have not reached the disk
  fd,       \* the inode number of the open file, 0 if there is none
  stopped,  \* where the call ends in a panic, if it does
  torn,     \* a reset has interrupted a call: no call follows
  tree      \* what is on the disk, read as a tree: a history variable

vars == <<disk, mem, todo, fd, stopped, torn, tree>>

\* filesys_init formats the partition and mounts it.
Init ==
  /\ disk = formatted
  /\ mem = mount_partition(formatted)
  /\ todo = <<>>
  /\ fd = 0
  /\ stopped = NoPanic
  /\ torn = FALSE
  /\ tree = TreeOf(formatted)

Idle == todo = <<>> /\ stopped = NoPanic /\ ~torn

\* The record on which the operators of a call work.
Start ==
  [mem |-> mem, inode |-> disk.inode, disk |-> disk, log |-> <<>>, panic |-> NoPanic,
   ret |-> 0, table |-> ZERO_BLOCK]

Begin(s) ==
  /\ mem' = s.mem
  /\ todo' = s.log
  /\ stopped' = s.panic
  /\ UNCHANGED <<disk, torn, tree>>

-----------------------------------------------------------------------------
\* file_create: the entry, the parent, the inode, the inode bitmap.
create_entry(s, dir, name, no, type) ==
  Unless(sync_dir_entry(s, dir, create_dir_entry(name, no, type)),
         LAMBDA t : [bitmap_sync(inode_sync(inode_sync(t, dir), no), no, "ibm")
                       EXCEPT !.ret = no])

file_create(s, dir, name) ==
  Unless(inode_bitmap_alloc(s),
         LAMBDA t : create_entry([t EXCEPT !.inode[t.ret] = inode_init(t.ret)],
                                 dir, name, t.ret, FT_REGULAR))

\* sys_open with O_CREAT: the path is missing, and only its last name is.
sys_open_create(path) ==
  /\ Idle
  /\ fd = 0
  /\ LET r == search_file(disk, path)
     IN  /\ r.no = NotFound
         /\ r.depth = Len(path)
         /\ \E s \in {file_create(Start, r.dir, path[Len(path)])} :
              Begin(s) /\ fd' = s.ret

sys_open(path) ==
  /\ Idle
  /\ fd = 0
  /\ LET r == search_file(disk, path)
     IN  /\ r.type = FT_REGULAR
         /\ r.depth = Len(path)
         /\ fd' = r.no
  /\ UNCHANGED <<disk, mem, todo, stopped, torn, tree>>

sys_close ==
  /\ Idle
  /\ fd # 0
  /\ fd' = 0
  /\ UNCHANGED <<disk, mem, todo, stopped, torn, tree>>

\* A program numbers the bytes of a file, so that every byte is different.
bytes(size, count) == [i \in 1 .. count |-> size + i]

TotalBytes ==
  FoldSet(LAMBDA p, sum : IF tree[p] = NoData THEN sum ELSE sum + Len(tree[p]), 0, DOMAIN tree)

sys_write(count) ==
  /\ Idle
  /\ fd # 0
  /\ TotalBytes + count <= MaxBytes
  /\ \E s \in {file_write(Start, fd, bytes(disk.inode[fd].i_size, count))} : Begin(s)
  /\ UNCHANGED fd

\* sys_read from any position that reads, writes and sys_lseek can lead to.
sys_read(pos, count) ==
  /\ Idle
  /\ fd # 0
  /\ pos \in 0 .. disk.inode[fd].i_size
  /\ LET size == read_size(disk.inode[fd], pos, count)
     IN  /\ size # 0
         /\ stopped' = IF read_asserts(pos, size) THEN NoPanic ELSE "file_read: last block"
  /\ UNCHANGED <<disk, mem, todo, fd, torn, tree>>

-----------------------------------------------------------------------------
\* Mutated: the inode is released before the entry is deleted.
unlink_release_first(s, dir, no) ==
  Unless(inode_release(s, no), LAMBDA t : delete_dir_entry(t, dir, no))

unlink(s, dir, no) ==
  Unless(delete_dir_entry(s, dir, no), LAMBDA t : inode_release(t, no))

\* sys_unlink looks at the inode it found and not at how far it came.
sys_unlink(path) ==
  /\ Idle
  /\ LET r == search_file(disk, path)
     IN  /\ r.type = FT_REGULAR
         /\ r.no # fd
         /\ \E s \in {unlink(Start, r.dir, r.no)} : Begin(s)
  /\ UNCHANGED fd

\* sys_mkdir: the block of the new directory is written first.
mkdir_block(s, dir, no, lba) ==
  ide_write([s EXCEPT !.inode[no] = [inode_init(no) EXCEPT !.i_size = 2,
                                                           !.i_sectors[0] = lba]],
            Write("block", lba, dot_entries(no, dir)))

mkdir(s, dir, name) ==
  Unless(inode_bitmap_alloc(s), LAMBDA t :
    Unless(block_bitmap_alloc(t), LAMBDA u :
      IF u.ret = data_start THEN Panic(u, "sys_mkdir")
      ELSE create_entry(mkdir_block(bitmap_sync(u, u.ret - data_start, "bbm"),
                                    dir, t.ret, u.ret),
                        dir, name, t.ret, FT_DIRECTORY)))

sys_mkdir(path) ==
  /\ Idle
  /\ LET r == search_file(disk, path)
     IN  /\ r.no = NotFound
         /\ r.depth = Len(path)
         /\ \E s \in {mkdir(Start, r.dir, path[Len(path)])} : Begin(s)
  /\ UNCHANGED fd

sys_rmdir(path) ==
  /\ Idle
  /\ LET r == search_file(disk, path)
     IN  /\ r.type = FT_DIRECTORY
         /\ dir_is_empty(disk.inode[r.no])
         /\ \E s \in {dir_remove(Start, r.dir, r.no)} : Begin(s)
  /\ UNCHANGED fd

-----------------------------------------------------------------------------
(***************************************************************************)
(* The next write reaches the disk.  After the last one of a call what the *)
(* free blocks hold is forgotten: JUNK stands for it.                      *)
(***************************************************************************)
JUNK == [ZERO_BLOCK EXCEPT !.byte = [b \in 1 .. BLOCK_SIZE |-> -1]]

Marked(d) == {data_start + bit : bit \in mount_partition(d).bbm}

Forget(d) == [d EXCEPT !.block = [lba \in Blocks |->
                                    IF lba \in Marked(d) THEN d.block[lba] ELSE JUNK]]

DiskWrite ==
  /\ todo # <<>>
  /\ \E d \in {Apply(disk, Head(todo))} :
       /\ disk' = IF Len(todo) = 1 THEN Forget(d) ELSE d
       /\ tree' = TreeOf(d)
  /\ todo' = Tail(todo)
  /\ UNCHANGED <<mem, fd, stopped, torn>>

\* A reset: the partition is mounted again, no file is open.
Reset ==
  /\ mem' = mount_partition(disk)
  /\ torn' = (torn \/ todo # <<>> \/ stopped # NoPanic)
  /\ todo' = <<>>
  /\ fd' = 0
  /\ stopped' = NoPanic
  /\ UNCHANGED <<disk, tree>>

Calls ==
  \/ sys_close
  \/ \E count \in Counts : sys_write(count)
  \/ \E pos \in 0 .. (BLOCK_SIZE * MAX_BLOCKS), count \in 1 .. (2 * BLOCK_SIZE) :
       sys_read(pos, count)
  \/ \E path \in Paths :
       \/ sys_open_create(path)
       \/ sys_open(path)
       \/ sys_unlink(path)
       \/ sys_mkdir(path)
       \/ sys_rmdir(path)

Next == Calls \/ DiskWrite \/ Reset

Spec == Init /\ [][Next]_vars

-----------------------------------------------------------------------------
T == INSTANCE Tree WITH tree <- tree

(***************************************************************************)
(* The disk, read as a tree of paths and contents, changes by whole        *)
(* operations only.  No write of a system call but one changes what is     *)
(* there, and that one does all of it; so whatever the moment of a reset,  *)
(* a create, mkdir, unlink, rmdir or write has happened or has not.        *)
(***************************************************************************)
ImplementsTree == T!Spec

\* The size of an inode agrees with the blocks and entries it has.
SizeOK(d, e) ==
  LET inode == d.inode[e.i_no]
  IN  IF e.f_type = FT_DIRECTORY
      THEN inode.i_size = Cardinality(EntriesOf(d, e.i_no)) + 2
      ELSE Len(addresses(d, inode)) =
             IF inode.i_sectors[0] = 0 THEN 0
             ELSE used_blocks(inode.i_size)
                    + (IF used_blocks(inode.i_size) > DIRECT THEN 1 ELSE 0)

\* list is the listing of d, used the addresses of all its inodes.
Sound(d, list, used) ==
  /\ mount_partition(d).ibm = {x[2].i_no : x \in list}
  /\ Cardinality(list) = Cardinality({x[2].i_no : x \in list})
  /\ mount_partition(d).bbm =
       {lba - data_start : lba \in Range(used)} \cup formatted_block_bits(SEC_CNT)
  /\ IsInjective(used)
  /\ \A x \in list : SizeOK(d, x[2])

AddressesIn(d, list) ==
  FoldSet(LAMBDA x, seq : seq \o addresses(d, d.inode[x[2].i_no]), <<>>, list)

(***************************************************************************)
(* Between calls nothing is lost and nothing is used twice: the inodes and *)
(* blocks that are marked are those that a path leads to, each once; the   *)
(* bitmaps in memory are those on the disk; i_size and i_sectors agree     *)
(* with what an inode holds.                                               *)
(***************************************************************************)
Consistent ==
  Idle =>
    /\ mem = mount_partition(disk)
    /\ \E list \in {Listing(disk)} :
         \E used \in {AddressesIn(disk, list)} : Sound(disk, list, used)

(***************************************************************************)
(* No sequence of calls makes an ASSERT of the file system fail or a loop  *)
(* of it run for ever, but for three: bitmap_scan when every bit is taken, *)
(* file_write when a file would fill its last block, file_read in it.      *)
(***************************************************************************)
StopsOnlyAtLimits ==
  /\ stopped \in {NoPanic, "bitmap_scan", "file_write: last block", "file_read: last block"}
  /\ stopped = "bitmap_scan" => mem.bbm = BlockBits \/ mem.ibm = InodeBits

(***************************************************************************)
(* A reset in the middle of a call harms no file that has data: its inode  *)
(* and its blocks are marked on the disk that is mounted again, and no     *)
(* other inode that a path leads to uses one of them, so that no later     *)
(* call is given them.                                                     *)
(***************************************************************************)
FilesSurvive ==
  (torn /\ todo = <<>>) =>
    \E list \in {Listing(disk)} :
      \A x \in {y \in list : y[2].f_type = FT_REGULAR /\ disk.inode[y[2].i_no].i_size > 0} :
        LET mine == Range(addresses(disk, disk.inode[x[2].i_no]))
        IN  /\ x[2].i_no \in mem.ibm
            /\ mine \subseteq Marked(disk)
            /\ \A y \in list \ {x} :
                 Range(addresses(disk, disk.inode[y[2].i_no])) \cap mine = {}

(***************************************************************************)
(* Between calls every directory can be read and named: dir_read, called   *)
(* until it returns NULL, gives each of its entries once, and sys_getcwd   *)
(* finds the path that leads to it.                                        *)
(***************************************************************************)
DirectoriesRead ==
  Idle =>
    \A x \in {y \in Listing(disk) : y[2].f_type = FT_DIRECTORY} :
      LET inode == disk.inode[x[2].i_no]
          read  == [pos \in 1 .. inode.i_size |-> dir_read(disk, inode, pos - 1)]
      IN  /\ sys_getcwd(disk, x[2].i_no) = x[1]
          /\ IsInjective(read)
          /\ {e \in Range(read) : Named(e)} = EntriesOf(disk, x[2].i_no)
          /\ dir_read(disk, inode, inode.i_size) = FREE_ENTRY

(***************************************************************************)
(* The i_size of a directory is the size of all its entries (dir.c:130),   *)
(* however many blocks they take.                                          *)
(***************************************************************************)
DirectoriesCounted ==
  Idle => \A x \in {y \in Listing(disk) : y[2].f_type = FT_DIRECTORY} :
            disk.inode[x[2].i_no].i_size = Cardinality(EntriesOf(disk, x[2].i_no)) + 2
=============================================================================
