-------------------------------- MODULE Disk --------------------------------
(***************************************************************************)
(* What the file system keeps on the disk, and the operations of           *)
(* fs/file.c and fs/inode.c that change it.  A system call is an operator  *)
(* on a record s:                                                          *)
(*   mem    the bitmaps of the partition in memory, as sets of bits,       *)
(*   inode  the inodes in memory,                                          *)
(*   disk   the disk as the call sees it,                                  *)
(*   log    the writes it has sent to the disk, in order,                  *)
(*   panic  the ASSERT that has failed, or the loop that never ends,       *)
(*   ret    what the last function returned.                               *)
(* A sector is read and written as a whole.  A block is seen as directory  *)
(* entries, as bytes or as block addresses; the other two views are empty. *)
(***************************************************************************)
EXTENDS Layout, Sequences, SequencesExt, FiniteSetsExt

CONSTANTS
  SEC_CNT,      \* sectors of the partition
  DIRECT,       \* direct blocks of an inode (12)
  INDIRECT,     \* addresses in an indirect table (128)
  ENTRIES       \* directory entries in a block (512 / 24)

ASSUME DiskAssumption ==
  /\ {SEC_CNT, DIRECT, INDIRECT} \subseteq Nat \ {0}
  /\ ENTRIES \in Nat \ {0, 1}
  /\ block_bitmap_bit_len(SEC_CNT) >= 8

BLOCK_SIZE == SECTOR_SIZE
FT_UNKNOWN == 0
FT_REGULAR == 1
FT_DIRECTORY == 2

data_start == data_start_lba(SEC_CNT)

BlockBits == 0 .. (BITS_PER_SECTOR * block_bitmap_sects(SEC_CNT) - 1)
\* The inode bitmap fills its sectors (fs.c:167), so it has no bits to spare.
InodeBits == 0 .. (MAX_FILES_PER_PART - 1)

\* The sectors that a bit of the block bitmap can stand for.
Blocks == {data_start + bit : bit \in BlockBits \ (formatted_block_bits(SEC_CNT) \ {0})}

FREE_ENTRY == [name |-> "", i_no |-> 0, f_type |-> FT_UNKNOWN]
ZERO_INODE == [i_no |-> 0, i_size |-> 0, i_sectors |-> [k \in 0 .. DIRECT |-> 0]]
ZERO_BLOCK == [entry |-> [e \in 1 .. ENTRIES |-> FREE_ENTRY],
               byte |-> [b \in 1 .. BLOCK_SIZE |-> 0],
               addr |-> [a \in 1 .. INDIRECT |-> 0]]

\* The block of a new directory: "." and "..".
dot_entries(no, parent) ==
  [ZERO_BLOCK EXCEPT
     !.entry[1] = [name |-> ".", i_no |-> no, f_type |-> FT_DIRECTORY],
     !.entry[2] = [name |-> "..", i_no |-> parent, f_type |-> FT_DIRECTORY]]

SectorOf(bit) == bit \div BITS_PER_SECTOR
InSector(bits, sec) == {bit \in bits : SectorOf(bit) = sec}

\* What partition_format leaves on the disk: an empty root directory.
formatted ==
  [bbm |-> [sec \in {SectorOf(bit) : bit \in BlockBits} |->
              InSector(formatted_block_bits(SEC_CNT), sec)],
   ibm |-> [sec \in {SectorOf(bit) : bit \in InodeBits} |-> InSector({0}, sec)],
   inode |-> [no \in InodeBits |->
                IF no = 0 THEN [ZERO_INODE EXCEPT !.i_size = 2, !.i_sectors[0] = data_start]
                          ELSE ZERO_INODE],
   block |-> [lba \in Blocks |->
                IF lba = data_start THEN dot_entries(0, 0) ELSE ZERO_BLOCK]]

\* mount_partition reads the two bitmaps.
mount_partition(disk) ==
  [bbm |-> UNION {disk.bbm[sec] : sec \in DOMAIN disk.bbm},
   ibm |-> UNION {disk.ibm[sec] : sec \in DOMAIN disk.ibm}]

\* A write of the log: the part of the disk, the place in it, what is written.
Write(part, at, val) == [part |-> part, at |-> at, val |-> val]

Apply(disk, w) == [disk EXCEPT ![w.part][w.at] = w.val]

ide_write(s, w) ==
  [s EXCEPT !.disk = Apply(s.disk, w), !.log = Append(s.log, w)]

NoPanic == "none"

Panic(s, where) == [s EXCEPT !.panic = where]

\* Goes on with Then(s) unless an ASSERT has failed.
Unless(s, Then(_)) == IF s.panic # NoPanic THEN s ELSE Then(s)

bitmap_sync(s, bit, map) ==
  ide_write(s, Write(map, SectorOf(bit), InSector(s.mem[map], SectorOf(bit))))

\* bitmap_scan asserts that there is a free bit: a full bitmap is a panic.
inode_bitmap_alloc(s) ==
  LET free == InodeBits \ s.mem.ibm
  IN  IF free = {} THEN Panic(s, "bitmap_scan")
      ELSE [s EXCEPT !.mem.ibm = @ \cup {Min(free)}, !.ret = Min(free)]

block_bitmap_alloc(s) ==
  LET free == BlockBits \ s.mem.bbm
  IN  IF free = {} THEN Panic(s, "bitmap_scan")
      ELSE [s EXCEPT !.mem.bbm = @ \cup {Min(free)}, !.ret = data_start + Min(free)]

\* Allocates a block and writes the bitmap, as most callers do.
alloc_and_sync(s) ==
  Unless(block_bitmap_alloc(s), LAMBDA t : bitmap_sync(t, t.ret - data_start, "bbm"))

free_block(s, lba) ==
  bitmap_sync([s EXCEPT !.mem.bbm = @ \ {lba - data_start}], lba - data_start, "bbm")

inode_init(no) == [ZERO_INODE EXCEPT !.i_no = no]

\* inode_sync keeps the number of the inode in a uint8_t.
inode_sync(s, no) == ide_write(s, Write("inode", no % 256, s.inode[no]))

inode_delete(s, no) == ide_write(s, Write("inode", no, ZERO_INODE))

\* The addresses of the blocks of an inode, with those of its indirect table.
all_blocks(disk, inode) ==
  [k \in 0 .. (DIRECT + INDIRECT - 1) |->
     IF k < DIRECT THEN inode.i_sectors[k]
     ELSE IF inode.i_sectors[DIRECT] # 0
          THEN disk.block[inode.i_sectors[DIRECT]].addr[k - DIRECT + 1]
          ELSE 0]

\* The addresses of inode_release, in the order in which it frees them.
addresses(disk, inode) ==
  LET blocks == all_blocks(disk, inode)
  IN  SelectSeq(<<inode.i_sectors[DIRECT]>> \o
                  [k \in 1 .. (DIRECT + INDIRECT) |-> blocks[k - 1]],
                LAMBDA lba : lba # 0)

\* inode_release asserts that it does not free the block of the root.
release_block(s, lba) ==
  Unless(s, LAMBDA t : IF lba = data_start THEN Panic(t, "inode_release") ELSE free_block(t, lba))

release_inode(s, no) ==
  inode_delete(bitmap_sync([s EXCEPT !.mem.ibm = @ \ {no}], no, "ibm"), no)

inode_release(s, no) ==
  IF s.inode[no].i_no # no THEN Panic(s, "inode_release")
  ELSE Unless(FoldLeft(release_block, s, addresses(s.disk, s.inode[no])),
              LAMBDA t : release_inode(t, no))
=============================================================================
