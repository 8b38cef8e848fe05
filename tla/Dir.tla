-------------------------------- MODULE Dir ---------------------------------
(***************************************************************************)
(* The directories: fs/dir.c, and the search of a path in fs/fs.c.  The    *)
(* i_size of a directory is counted in entries.  A path is the sequence of *)
(* its names, as path_parse takes them off one by one.                     *)
(***************************************************************************)
EXTENDS Disk, Integers

NotFound == -1

\* The entries of a directory, block after block, empty slots included.
slots(disk, inode) ==
  LET blocks == all_blocks(disk, inode)
  IN  FoldLeft(LAMBDA seq, k : IF blocks[k] = 0 THEN seq
                               ELSE seq \o disk.block[blocks[k]].entry,
               <<>>, [k \in 1 .. (DIRECT + INDIRECT) |-> k - 1])

search_dir_entry(disk, inode, name) ==
  SelectSeq(slots(disk, inode), LAMBDA e : e.name = name)

create_dir_entry(name, no, type) == [name |-> name, i_no |-> no, f_type |-> type]

(***************************************************************************)
(* search_file: goes down the path until it ends, a name is missing or a   *)
(* regular file is met.  no is the inode found or NotFound, dir the        *)
(* directory it was looked up in, depth the number of names tried.         *)
(***************************************************************************)
search_step(disk, r, name) ==
  IF r.done THEN r
  ELSE LET found == search_dir_entry(disk, disk.inode[r.no], name)
       IN  IF found = <<>>
           THEN [no |-> NotFound, type |-> FT_UNKNOWN, dir |-> r.no,
                 depth |-> r.depth + 1, done |-> TRUE]
           ELSE [no |-> found[1].i_no, type |-> found[1].f_type, dir |-> r.no,
                 depth |-> r.depth + 1, done |-> found[1].f_type # FT_DIRECTORY]

search_file(disk, path) ==
  FoldLeft(LAMBDA r, name : search_step(disk, r, name),
           [no |-> 0, type |-> FT_DIRECTORY, dir |-> 0, depth |-> 0, done |-> FALSE],
           path)

FreeSlots(disk, lba) ==
  {e \in 1 .. ENTRIES : disk.block[lba].entry[e].f_type = FT_UNKNOWN}

\* The entry goes into a new block, whose address is already in the inode.
new_dir_block(s, dir, lba, entry) ==
  ide_write([s EXCEPT !.inode[dir].i_size = @ + 1],
            Write("block", lba, [ZERO_BLOCK EXCEPT !.entry[1] = entry]))

add_direct(s, dir, k, entry) ==
  Unless(alloc_and_sync(s),
         LAMBDA t : new_dir_block([t EXCEPT !.inode[dir].i_sectors[k] = t.ret],
                                  dir, t.ret, entry))

\* A new indirect table, with the new block as its first: all the table holds.
add_indirect(s, dir, entry) ==
  Unless(alloc_and_sync(s),
         LAMBDA t :
           Unless(alloc_and_sync([t EXCEPT !.inode[dir].i_sectors[DIRECT] = t.ret]),
                  LAMBDA u :
                    new_dir_block(
                      ide_write(u, Write("block", t.ret, [ZERO_BLOCK EXCEPT !.addr[1] = u.ret])),
                      dir, u.ret, entry)))

add_to_block(s, dir, lba, entry) ==
  ide_write([s EXCEPT !.inode[dir].i_size = @ + 1],
            Write("block", lba,
                  [s.disk.block[lba] EXCEPT !.entry[Min(FreeSlots(s.disk, lba))] = entry]))

(***************************************************************************)
(* sync_dir_entry takes the first block that is missing or has a free      *)
(* slot.  It collects the direct blocks only, so past them it always       *)
(* starts a new indirect table, also when there is one.                    *)
(***************************************************************************)
sync_dir_entry(s, dir, entry) ==
  LET sectors == s.inode[dir].i_sectors
      usable  == {k \in 0 .. (DIRECT - 1) :
                    IF sectors[k] = 0 THEN TRUE ELSE FreeSlots(s.disk, sectors[k]) # {}}
  IN  IF usable = {} THEN add_indirect(s, dir, entry)
      ELSE IF sectors[Min(usable)] = 0 THEN add_direct(s, dir, Min(usable), entry)
      ELSE add_to_block(s, dir, sectors[Min(usable)], entry)

Named(entry) == entry.f_type # FT_UNKNOWN /\ entry.name \notin {".", ".."}

\* Mutated: the size of the directory stays as it was.
drop_uncounted(s, dir) == inode_sync(s, dir)

\* The inode of the directory is written at the end of delete_dir_entry.
drop_entry(s, dir) ==
  IF s.inode[dir].i_size < 1 THEN Panic(s, "delete_dir_entry")
  ELSE inode_sync([s EXCEPT !.inode[dir].i_size = @ - 1], dir)

(***************************************************************************)
(* Deletes the entry from block k.  A block that holds no other entry is   *)
(* given back, unless it is the first; for a block of the indirect table   *)
(* the loop that counts the addresses never ends.                          *)
(***************************************************************************)
delete_from(s, dir, k, lba, no) ==
  LET entry == s.disk.block[lba].entry
      named == {e \in 1 .. ENTRIES : Named(entry[e])}
      found == {e \in named : entry[e].i_no = no}
      first == \E e \in 1 .. ENTRIES : entry[e].name = "."
  IN  IF Cardinality(found) > 1 THEN Panic(s, "delete_dir_entry")
      ELSE IF Cardinality(named) = 1 /\ ~first
      THEN IF k < DIRECT
           THEN drop_entry([free_block(s, lba) EXCEPT !.inode[dir].i_sectors[k] = 0], dir)
           ELSE Panic(free_block(s, lba), "delete_dir_entry")
      ELSE drop_entry(
             ide_write(s, Write("block", lba,
                                [s.disk.block[lba] EXCEPT !.entry[Min(found)] = FREE_ENTRY])),
             dir)

delete_dir_entry(s, dir, no) ==
  LET blocks  == all_blocks(s.disk, s.inode[dir])
      holding == {k \in DOMAIN blocks :
                    IF blocks[k] = 0 THEN FALSE
                    ELSE \E e \in 1 .. ENTRIES :
                           /\ Named(s.disk.block[blocks[k]].entry[e])
                           /\ s.disk.block[blocks[k]].entry[e].i_no = no}
  IN  IF holding = {} THEN s
      ELSE delete_from(s, dir, Min(holding), blocks[Min(holding)], no)

\* Mutated: every directory passes for empty.
dir_has_dots(inode) == inode.i_size >= 2

dir_is_empty(inode) == inode.i_size = 2

\* dir_remove asserts that an empty directory has its first block only.
dir_remove(s, dir, no) ==
  IF \E k \in 1 .. DIRECT : s.inode[no].i_sectors[k] # 0 THEN Panic(s, "dir_remove")
  ELSE Unless(delete_dir_entry(s, dir, no), LAMBDA t : inode_release(t, no))

\* Mutated: empty slots are counted.
dir_read_counts_empty(disk, inode, dir_pos) ==
  IF dir_pos >= inode.i_size \/ dir_pos >= Len(slots(disk, inode)) THEN FREE_ENTRY
  ELSE slots(disk, inode)[dir_pos + 1]

\* dir_read returns the entry at dir_pos, counted in entries, and moves on.
dir_read(disk, inode, dir_pos) ==
  LET used == SelectSeq(slots(disk, inode), LAMBDA e : e.f_type # FT_UNKNOWN)
  IN  IF dir_pos >= inode.i_size \/ dir_pos >= Len(used) THEN FREE_ENTRY
      ELSE used[dir_pos + 1]

\* ".." is the second entry of the first block.
get_parent_dir_inode_nr(disk, no) ==
  disk.block[disk.inode[no].i_sectors[0]].entry[2].i_no

\* The entries of the parent that have the number of the child.
get_child_dir_name(disk, parent, no) ==
  SelectSeq(slots(disk, disk.inode[parent]), LAMBDA e : e.i_no = no)

NoPath == <<"">>

\* sys_getcwd goes up from the directory until it is at the root.
sys_getcwd(disk, no) ==
  LET up[path \in Seq(STRING), at \in InodeBits] ==
        IF at = 0 THEN path
        ELSE LET parent == get_parent_dir_inode_nr(disk, at)
                 found  == get_child_dir_name(disk, parent, at)
             IN  IF found = <<>> THEN NoPath ELSE up[<<found[1].name>> \o path, parent]
  IN  up[<<>>, no]
=============================================================================
