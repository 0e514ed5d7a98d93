------------------------------- MODULE Layout -------------------------------
(***************************************************************************)
(* Where things are on a volume: the geometry the superblock describes     *)
(* (ext4_super.c), the addresses of blocks and groups (ext4_balloc.c,      *)
(* ext4_fs.h), what mkfs writes (ext4_mkfs.c, which turns META_BG, FLEX_BG *)
(* and 64BIT off and reserves no descriptor blocks), and the block bitmap  *)
(* of a group that was never used (ext4_fs.c).                             *)
(***************************************************************************)
EXTENDS Bitmap, FiniteSets

CONSTANTS
  DeviceLen,       \* mkfs: the device's length in blocks
  BlocksPerGroup,  \* blocks_per_group
  BitsPerBlock,    \* bits of one bitmap block, block_size * 8
  FirstDataBlock,  \* first_data_block: 1 when blocks have 1024 bytes, else 0
  InodesPerGroup,  \* inodes_per_group, a multiple of InodesPerBlock
  InodesPerBlock,  \* block_size / inode_size
  DescPerBlock,    \* group descriptors in one block
  SparseSuper,     \* EXT4_FRO_COM_SPARSE_SUPER
  Word             \* 2^32, the range of a uint32_t

ASSUME LayoutAssumption ==
  /\ {DeviceLen, BlocksPerGroup, BitsPerBlock, InodesPerGroup, InodesPerBlock, DescPerBlock, Word} \subseteq Nat \ {0}
  /\ FirstDataBlock \in {0, 1}
  /\ BlocksPerGroup \in 2 .. BitsPerBlock
  /\ BitsPerBlock % 8 = 0
  /\ InodesPerGroup <= BitsPerBlock
  /\ InodesPerGroup % InodesPerBlock = 0
  /\ SparseSuper \in BOOLEAN

DivUp(a, b) == (a + b - 1) \div b

-----------------------------------------------------------------------------
(* ext4_super.c: groups that hold a copy of the superblock.                  *)

is_power_of(a, p) == a > 1 /\ \A d \in 2 .. a : a % d = 0 => d % p = 0

ext4_sb_sparse(g) == g <= 1 \/ \E p \in {3, 5, 7} : is_power_of(g, p)

ext4_sb_is_super_in_bg(g) == SparseSuper => ext4_sb_sparse(g)

-----------------------------------------------------------------------------
(* create_fs_aux_info: how many groups and blocks mkfs formats.  A last      *)
(* group too small for its own header is left out.                           *)

InodeTableBlocks == DivUp(InodesPerGroup, InodesPerBlock)

FormatGroups == DivUp(DeviceLen - FirstDataBlock, BlocksPerGroup)
DescBlocks == DivUp(FormatGroups, DescPerBlock)

LastTooSmall ==
  LET size == DeviceLen % BlocksPerGroup
      header == 2 + InodeTableBlocks
                  + (IF ext4_sb_is_super_in_bg(FormatGroups - 1) THEN 1 + DescBlocks ELSE 0)
  IN size > 0 /\ size < header

Groups == IF LastTooSmall THEN FormatGroups - 1 ELSE FormatGroups
LenBlocks == IF LastTooSmall THEN DeviceLen - (DeviceLen % BlocksPerGroup) ELSE DeviceLen

(* What the superblock then says. *)
ext4_block_group_cnt == DivUp(LenBlocks, BlocksPerGroup)

ext4_blocks_in_group_cnt(g) ==
  IF g < ext4_block_group_cnt - 1 THEN BlocksPerGroup
  ELSE LenBlocks - (ext4_block_group_cnt - 1) * BlocksPerGroup

ext4_inodes_in_group_cnt(g) ==
  IF g < ext4_block_group_cnt - 1 THEN InodesPerGroup
  ELSE InodesPerGroup * Groups - (ext4_block_group_cnt - 1) * InodesPerGroup

(* mkfs leaves block 0 out when it divides the volume into groups, the driver
   does not: they count the same groups unless one block is left over. *)
OneGroupCount == FirstDataBlock = 1 => DeviceLen % BlocksPerGroup # 1

Group == 0 .. ext4_block_group_cnt - 1

(* The blocks of the volume; with first_data_block = 1 block 0 is outside
   every group. *)
Block == FirstDataBlock .. LenBlocks - 1

-----------------------------------------------------------------------------
(* Addresses: a block is index "idx" of group "bgid".                        *)

InGroups(baddr) == IF FirstDataBlock # 0 /\ baddr # 0 THEN baddr - 1 ELSE baddr

ext4_balloc_get_bgid_of_block(baddr) == (InGroups(baddr) \div BlocksPerGroup) % Word
ext4_fs_addr_to_idx_bg(baddr) == InGroups(baddr) % BlocksPerGroup
ext4_balloc_get_block_of_bgid(bgid) == FirstDataBlock + ((bgid * BlocksPerGroup) % Word)
ext4_fs_bg_idx_to_addr(idx, bgid) == (BlocksPerGroup * bgid + idx + FirstDataBlock) % Word

-----------------------------------------------------------------------------
(* write_bgroups: the blocks of the bitmaps and of the inode table, and the  *)
(* free blocks mkfs counts, of group g.  The header of a group is followed   *)
(* by one block nothing uses (two with first_data_block = 1).                *)

MetaStart(g) ==
  2 * FirstDataBlock + g * BlocksPerGroup + DescBlocks + (IF ext4_sb_is_super_in_bg(g) THEN 1 ELSE 0)

BlockBitmap(g) == MetaStart(g) + 1
InodeBitmap(g) == MetaStart(g) + 2
InodeTable(g) == MetaStart(g) + 3

MkfsFreeBlocks(g) ==
  BlocksPerGroup - InodeTableBlocks - 2
    - (IF g = Groups - 1 THEN FirstDataBlock ELSE 0)
    - (IF ext4_sb_is_super_in_bg(g) THEN 1 + DescBlocks ELSE 0)

(* ext4_bg_num_gdb of a volume without META_BG *)
ext4_bg_num_gdb(g) ==
  IF ext4_sb_is_super_in_bg(g) THEN DivUp(ext4_block_group_cnt, DescPerBlock) ELSE 0

(* ext4_fs_init_block_bitmap: the superblock and descriptors, the bitmaps and
   the inode table, and the bits behind the end of the group. *)
ext4_fs_init_block_bitmap(g) ==
  LET first == ext4_balloc_get_block_of_bgid(g)
      header == IF ext4_sb_is_super_in_bg(g) THEN 1 + ext4_bg_num_gdb(g) ELSE 0
      size == IF g = ext4_block_group_cnt - 1
              THEN LenBlocks - FirstDataBlock - BlocksPerGroup * (ext4_block_group_cnt - 1)
              ELSE BlocksPerGroup
      table == InodeTable(g) .. InodeTable(g) + InodesPerGroup \div InodesPerBlock - 1
  IN (0 .. header - 1)
       \cup {b - first : b \in {BlockBitmap(g), InodeBitmap(g)} \cup table}
       \cup (size .. BitsPerBlock - 1)

(* ext4_fs_init_inode_bitmap: no inode, and the bits behind the last. *)
ext4_fs_init_inode_bitmap == InodesPerGroup .. BitsPerBlock - 1
=============================================================================
