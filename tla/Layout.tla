------------------------------- MODULE Layout -------------------------------
(***************************************************************************)
(* The layout of a partition: partition_format of fs/fs.c.  A partition is *)
(* a boot sector, the super block, the bitmap of blocks, the bitmap of     *)
(* inodes, the table of inodes and the data blocks, in this order.  All    *)
(* addresses are sectors counted from the start of the partition.          *)
(***************************************************************************)
EXTENDS Naturals

CONSTANTS
  SECTOR_SIZE,          \* bytes of a sector, and of a block (512)
  MAX_FILES_PER_PART,   \* inodes of a partition (4096)
  INODE_SIZE            \* sizeof(struct inode)

ASSUME LayoutAssumption ==
  /\ SECTOR_SIZE \in Nat \ {0}
  /\ MAX_FILES_PER_PART \in Nat \ {0}
  /\ INODE_SIZE \in Nat \ {0}

BITS_PER_SECTOR == 8 * SECTOR_SIZE

DIV_ROUND_UP(x, step) == (x + step - 1) \div step

inode_bitmap_sects == DIV_ROUND_UP(MAX_FILES_PER_PART, BITS_PER_SECTOR)

inode_table_sects == DIV_ROUND_UP(INODE_SIZE * MAX_FILES_PER_PART, SECTOR_SIZE)

\* The boot sector, the super block, the inode bitmap and the inode table.
used_sects == 1 + 1 + inode_bitmap_sects + inode_table_sects

free_sects(sec_cnt) == sec_cnt - used_sects

\* The number of data blocks: the bitmap is first taken to cover itself too.
block_bitmap_bit_len(sec_cnt) ==
  free_sects(sec_cnt) - DIV_ROUND_UP(free_sects(sec_cnt), BITS_PER_SECTOR)

block_bitmap_sects(sec_cnt) ==
  DIV_ROUND_UP(block_bitmap_bit_len(sec_cnt), BITS_PER_SECTOR)

block_bitmap_lba == 2

inode_bitmap_lba(sec_cnt) == block_bitmap_lba + block_bitmap_sects(sec_cnt)

inode_table_lba(sec_cnt) == inode_bitmap_lba(sec_cnt) + inode_bitmap_sects

data_start_lba(sec_cnt) == inode_table_lba(sec_cnt) + inode_table_sects

(***************************************************************************)
(* The bits that formatting marks in the block bitmap: the block of the    *)
(* root directory, then memset(0xff) from the last byte to the end of its  *)
(* sector, then the loop that clears the bits 0 .. last_bit of that byte.  *)
(***************************************************************************)
formatted_block_bits(sec_cnt) ==
  LET last_byte == block_bitmap_bit_len(sec_cnt) \div 8
      last_bit  == block_bitmap_bit_len(sec_cnt) % 8
      last_size == SECTOR_SIZE - (last_byte % SECTOR_SIZE)
  IN  ({0} \cup ((8 * last_byte) .. (8 * (last_byte + last_size) - 1)))
        \ ((8 * last_byte) .. (8 * last_byte + last_bit))
=============================================================================
