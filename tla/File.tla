-------------------------------- MODULE File --------------------------------
(***************************************************************************)
(* The contents of regular files: file_write and file_read of fs/file.c.   *)
(***************************************************************************)
EXTENDS Dir

MAX_BLOCKS == DIRECT + INDIRECT

\* The blocks a file of this size has: one is added when the last is full.
used_blocks(size) == size \div BLOCK_SIZE + 1

Indexes(from, to) == [i \in 1 .. (to - from) |-> from + i - 1]

\* The first block of a file that has none.
first_block(s, no) ==
  IF s.inode[no].i_sectors[0] # 0 THEN s
  ELSE Unless(alloc_and_sync(s),
              LAMBDA t : IF t.ret = data_start THEN Panic(t, "file_write")
                         ELSE [t EXCEPT !.inode[no].i_sectors[0] = t.ret])

\* A new block k: in the inode, or in the table that is being put together.
add_block(s, no, k) ==
  Unless(s, LAMBDA r :
    Unless(block_bitmap_alloc(r), LAMBDA t :
      IF k < DIRECT /\ t.inode[no].i_sectors[k] # 0 THEN Panic(t, "file_write")
      ELSE bitmap_sync(IF k < DIRECT
                       THEN [t EXCEPT !.inode[no].i_sectors[k] = t.ret]
                       ELSE [t EXCEPT !.table.addr[k - DIRECT + 1] = t.ret],
                       t.ret - data_start, "bbm")))

add_blocks(s, no, has, will) ==
  FoldLeft(LAMBDA t, k : add_block(t, no, k), s, Indexes(has, will))

\* The table is written once, after the last of the new blocks is allocated.
write_table(s, no) ==
  Unless(s, LAMBDA t : ide_write(t, Write("block", t.inode[no].i_sectors[DIRECT], t.table)))

\* The block of a new table is marked in memory; its bit is not written here.
new_table(s, no) ==
  Unless(block_bitmap_alloc(s),
         LAMBDA t : IF t.inode[no].i_sectors[DIRECT] # 0 THEN Panic(t, "file_write")
                    ELSE [t EXCEPT !.inode[no].i_sectors[DIRECT] = t.ret,
                                   !.table = ZERO_BLOCK])

load_table(s, no) ==
  IF s.inode[no].i_sectors[DIRECT] = 0 THEN Panic(s, "file_write")
  ELSE [s EXCEPT !.table = s.disk.block[s.inode[no].i_sectors[DIRECT]]]

\* The three cases in which blocks are added, and the two in which none is.
grow(s, no, has, will) ==
  IF will = has
  THEN IF has <= DIRECT THEN s ELSE load_table(s, no)
  ELSE IF will <= DIRECT
  THEN IF s.inode[no].i_sectors[has - 1] = 0 THEN Panic(s, "file_write") ELSE add_blocks(s, no, has, will)
  ELSE IF has <= DIRECT
  THEN write_table(add_blocks(new_table(s, no), no, has, will), no)
  ELSE write_table(add_blocks(load_table(s, no), no, has, will), no)

block_lba(s, no, k) ==
  IF k < DIRECT THEN s.inode[no].i_sectors[k] ELSE s.table.addr[k - DIRECT + 1]

\* Mutated: the first block is not read before it is written.
write_chunk_blind(s, no, buf, start, k) ==
  LET size == s.inode[no].i_size
      end  == Min({start + Len(buf), (k + 1) * BLOCK_SIZE})
  IN  ide_write([s EXCEPT !.inode[no].i_size = end],
                Write("block", block_lba(s, no, k),
                      [ZERO_BLOCK EXCEPT !.byte =
                         [b \in 1 .. BLOCK_SIZE |->
                            LET at == k * BLOCK_SIZE + b
                            IN  IF at \in (size + 1) .. end THEN buf[at - start] ELSE 0]]))

\* One turn of the loop that writes the data: a block is filled up from the
\* end of the file; only the first one is read before it is written.
write_chunk(s, no, buf, start, k) ==
  LET size  == s.inode[no].i_size
      end   == Min({start + Len(buf), (k + 1) * BLOCK_SIZE})
      lba   == block_lba(s, no, k)
      io_buf == IF size = start THEN s.disk.block[lba].byte ELSE ZERO_BLOCK.byte
  IN  ide_write([s EXCEPT !.inode[no].i_size = end],
                Write("block", lba,
                      [ZERO_BLOCK EXCEPT !.byte =
                         [b \in 1 .. BLOCK_SIZE |->
                            LET at == k * BLOCK_SIZE + b
                            IN  IF at \in (size + 1) .. end THEN buf[at - start] ELSE io_buf[b]]]))

write_data(s, no, buf, start) ==
  FoldLeft(LAMBDA t, k : write_chunk(t, no, buf, start, k), s,
           Indexes(start \div BLOCK_SIZE, (start + Len(buf) - 1) \div BLOCK_SIZE + 1))

\* file_write appends: fd_pos is not looked at.
file_write(s, no, buf) ==
  LET size == s.inode[no].i_size
  IN  IF size + Len(buf) > BLOCK_SIZE * MAX_BLOCKS THEN [s EXCEPT !.ret = -1]
      ELSE Unless(first_block(s, no), LAMBDA t :
             IF used_blocks(size + Len(buf)) > MAX_BLOCKS THEN Panic(t, "file_write: last block")
             ELSE Unless(grow(t, no, used_blocks(size), used_blocks(size + Len(buf))),
                         LAMBDA u : [inode_sync(write_data(u, no, buf, size), no)
                                       EXCEPT !.ret = Len(buf)]))

\* What file_read would read: clipped to the file; 0 is the end of the file.
read_size(inode, pos, count) ==
  IF pos + count > inode.i_size THEN inode.i_size - pos ELSE count

\* file_read asserts that no block it looks at is the last a file can have.
read_asserts(pos, size) ==
  /\ pos \div BLOCK_SIZE < MAX_BLOCKS - 1
  /\ (pos + size) \div BLOCK_SIZE < MAX_BLOCKS - 1

file_read(disk, inode, pos, count) ==
  LET blocks == all_blocks(disk, inode)
  IN  [i \in 1 .. read_size(inode, pos, count) |->
         LET at == pos + i - 1
         IN  disk.block[blocks[at \div BLOCK_SIZE]].byte[(at % BLOCK_SIZE) + 1]]
=============================================================================
