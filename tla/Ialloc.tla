------------------------------- MODULE Ialloc -------------------------------
(***************************************************************************)
(* The inode allocator (ext4_ialloc.c) and its caller ext4_fs_alloc_inode: *)
(* the inode bitmaps, the counts of free inodes, directories and unused    *)
(* inodes of each group, the superblock's count of free inodes and the     *)
(* group where the next search starts.  A group is referenced through      *)
(* ext4_fs_get_block_group_ref, which initialises its inode bitmap the     *)
(* first time.                                                             *)
(*                                                                         *)
(* An operation can fail where it reads a descriptor or a bitmap, where it *)
(* gives one back, and where the new inode is read; what it changed before *)
(* stays changed in the cache.                                             *)
(***************************************************************************)
EXTENDS Layout

CONSTANT Faults  \* TRUE: an operation may fail, and one of them half-way

(* The driver mounts no volume without inodes, whose number is 32 bits wide
   (ext4_sb_check); mkfs and the driver count the same groups. *)
ASSUME IallocAssumption ==
  /\ Faults \in BOOLEAN
  /\ Groups > 0
  /\ InodesPerGroup * Groups < Word
  /\ OneGroupCount

VARIABLES
  used,    \* inode bitmap of each group
  uninit,  \* groups with EXT4_BLOCK_GROUP_INODE_UNINIT
  free,    \* free_inodes_count of each group
  dirs,    \* used_dirs_count of each group
  unused,  \* itable_unused of each group
  sbFree,  \* free_inodes_count of the superblock
  last,    \* last_inode_bg_id
  own,     \* ghost: the inodes handed out, TRUE for a directory
  unread,  \* the inode just allocated whose record could not be read
  ret,     \* what the last operation returned
  failed   \* ghost: an operation has failed half-way

vars == <<used, uninit, free, dirs, unused, sbFree, last, own, unread, ret, failed>>

(* ext4_ialloc_inode_to_bgidx, ext4_ialloc_bgidx_to_inode and
   ext4_ialloc_get_bgid_of_inode; inode numbers start at 1. *)
Index(ino) == (ino - 1) % InodesPerGroup
Home(ino) == (ino - 1) \div InodesPerGroup
Number(bg, idx) == bg * InodesPerGroup + idx + 1

TypeOK ==
  /\ used \in [Group -> SUBSET (0 .. BitsPerBlock - 1)]
  /\ uninit \in SUBSET Group
  /\ free \in [Group -> 0 .. Word - 1]
  /\ dirs \in [Group -> 0 .. Word - 1]
  /\ unused \in [Group -> 0 .. Word - 1]
  /\ sbFree \in 0 .. Word - 1
  /\ last \in Group
  /\ own \in [DOMAIN own -> BOOLEAN]
  /\ unread \subseteq DOMAIN own
  /\ ret \in {"EOK", "ENOSPC", "EIO"}
  /\ failed \in BOOLEAN

(* A volume without inodes: mkfs leaves itable_unused at 0, other formatters
   set it to the whole table. *)
Init ==
  /\ used = [g \in Group |-> {}]
  /\ uninit = Group
  /\ free = [g \in Group |-> InodesPerGroup]
  /\ dirs = [g \in Group |-> 0]
  /\ \E n \in {0, InodesPerGroup} : unused = [g \in Group |-> n]
  /\ sbFree = InodesPerGroup * ext4_block_group_cnt
  /\ last = 0
  /\ own = <<>>
  /\ unread = {}
  /\ ret = "EOK"
  /\ failed = FALSE

-----------------------------------------------------------------------------
(* ext4_fs_get_block_group_ref: the inode bitmap of group g as every         *)
(* operation that references the group finds it.                             *)
Bits(g) == IF g \in uninit THEN ext4_fs_init_inode_bitmap ELSE used[g]

(* The groups of S are referenced; in the second form the bitmap of g, one of
   them, becomes bits. *)
Referenced(S) ==
  /\ used' = [g \in Group |-> IF g \in S THEN Bits(g) ELSE used[g]]
  /\ uninit' = uninit \ S

Rewritten(S, g, bits) ==
  /\ used' = [k \in Group |-> IF k = g THEN bits ELSE IF k \in S THEN Bits(k) ELSE used[k]]
  /\ uninit' = uninit \ S

(* n inodes, d directories among them, leave the free inodes of group g
   (negative: come back). *)
GroupCounted(g, n, d) ==
  /\ free' = [free EXCEPT ![g] = (@ - n) % Word]
  /\ dirs' = [dirs EXCEPT ![g] = (@ + d) % Word]

SbCounted(n) == sbFree' = (sbFree - n) % Word

NotCounted == UNCHANGED <<free, dirs, sbFree>>

Dirs(dir) == IF dir THEN 1 ELSE 0

(* f: the operation broke off after its first change. *)
Returns(r, f) ==
  /\ ret' = r
  /\ failed' = (failed \/ f)

MayFail == Faults /\ ~failed

-----------------------------------------------------------------------------
(* ext4_ialloc_alloc_inode                                                   *)

(* Mutant: the search does not go back to the groups before the first. *)
OrderShort == [k \in 0 .. ext4_block_group_cnt - 1 - last |-> last + k]

(* The groups in the order of the search, which starts at last_inode_bg_id,
   and those among them with free inodes. *)
Order == [k \in 0 .. ext4_block_group_cnt - 1 |-> (last + k) % ext4_block_group_cnt]
Candidates == {k \in DOMAIN Order : free[Order[k]] > 0}

FirstFree(g) == ext4_bmap_bit_find_clr(Bits(g), 0, ext4_inodes_in_group_cnt(g))

(* Mutant: compares the index, which starts at 0, as if it started at 1. *)
UnusedLate(g, idx) ==
  LET n == ext4_inodes_in_group_cnt(g)
  IN IF idx > n - unused[g] THEN [unused EXCEPT ![g] = n - (idx + 1)] ELSE unused

(* itable_unused counts the inodes behind the last that was ever used. *)
UnusedAfter(g, idx) ==
  LET n == ext4_inodes_in_group_cnt(g)
  IN IF idx >= n - unused[g] THEN [unused EXCEPT ![g] = n - (idx + 1)] ELSE unused

(* Mutant: the count of free inodes is not decremented. *)
TakesUncounted(seen, g, idx, dir) ==
  /\ Rewritten(seen, g, Bits(g) \cup {idx})
  /\ GroupCounted(g, 0, Dirs(dir))
  /\ unused' = UnusedAfter(g, idx)

(* The bit is taken and the group's counts follow; an error in giving back the
   bitmap is not looked at. *)
Takes(seen, g, idx, dir) ==
  /\ Rewritten(seen, g, Bits(g) \cup {idx})
  /\ GroupCounted(g, 1, Dirs(dir))
  /\ unused' = UnusedAfter(g, idx)

(* When __ext4_fs_get_inode_ref fails, the call goes on with
   ext4_ialloc_free_inode on the inode it has just allocated. *)
ext4_fs_alloc_inode(dir) ==
  LET seen == {Order[k] : k \in {j \in DOMAIN Order : \A c \in Candidates : j <= c}}
      g == Order[Min(Candidates)]
      idx == FirstFree(g)
  IN /\ unread = {}
     /\ \/ /\ Candidates = {}
           /\ Referenced(seen)
           /\ NotCounted
           /\ Returns("ENOSPC", FALSE)
           /\ UNCHANGED <<unused, last, own, unread>>
        \/ /\ Candidates # {} /\ idx # None
           /\ Takes(seen, g, idx, dir)
           /\ SbCounted(1)
           /\ last' = g
           /\ own' = [i \in DOMAIN own \cup {Number(g, idx)} |->
                        IF i = Number(g, idx) THEN dir ELSE own[i]]
           /\ \/ Returns("EOK", FALSE) /\ UNCHANGED unread
              \/ Faults /\ Returns("EIO", FALSE) /\ unread' = {Number(g, idx)}
        \/ /\ MayFail /\ Candidates # {} /\ idx # None
           /\ Takes(seen, g, idx, dir)
           /\ Returns("EIO", TRUE)
           /\ UNCHANGED <<sbFree, last, own, unread>>
        \/ /\ MayFail
           /\ \E S \in SUBSET seen : Referenced(S)
           /\ NotCounted
           /\ Returns("EIO", TRUE)
           /\ UNCHANGED <<unused, last, own, unread>>

-----------------------------------------------------------------------------
(* ext4_ialloc_free_inode                                                    *)

(* Mutant: the count of directories stays as it is. *)
ReleasedFlat(ino, dir) ==
  LET g == Home(ino)
  IN Rewritten({g}, g, Bits(g) \ {Index(ino)}) /\ GroupCounted(g, -1, 0)

Released(ino, dir) ==
  LET g == Home(ino)
  IN Rewritten({g}, g, Bits(g) \ {Index(ino)}) /\ GroupCounted(g, -1, -Dirs(dir))

(* As roll-back it releases the inode that was just allocated, and
   ext4_fs_alloc_inode returns its own error. *)
ext4_ialloc_free_inode(ino) ==
  LET g == Home(ino)
  IN /\ ino \in DOMAIN own
     /\ unread \subseteq {ino}
     /\ unread' = {}
     /\ own' = [i \in DOMAIN own \ {ino} |-> own[i]]
     /\ UNCHANGED <<unused, last>>
     /\ \/ /\ Released(ino, own[ino])
           /\ SbCounted(-1)
           /\ Returns(IF unread = {} THEN "EOK" ELSE "EIO", FALSE)
        \/ /\ MayFail
           /\ Returns("EIO", TRUE)
           /\ \/ Referenced({g}) /\ NotCounted
              \/ Rewritten({g}, g, Bits(g) \ {Index(ino)}) /\ NotCounted
              \/ Released(ino, own[ino]) /\ UNCHANGED sbFree

Next ==
  \/ \E dir \in BOOLEAN : ext4_fs_alloc_inode(dir)
  \/ \E ino \in DOMAIN own : ext4_ialloc_free_inode(ino)

Spec == Init /\ [][Next]_vars

-----------------------------------------------------------------------------
Owned(g) == {i \in DOMAIN own : Home(i) = g}

(* An inode that was handed out is marked, exists, and is outside the part of
   the table that itable_unused declares unused (ext4_ialloc_alloc_inode moves
   that border; a checker of the volume does not read behind it), whatever
   failed before. *)
OwnedIsMarked ==
  \A i \in DOMAIN own :
    /\ i \in 1 .. InodesPerGroup * Groups
    /\ Index(i) \in Bits(Home(i))
    /\ Index(i) < ext4_inodes_in_group_cnt(Home(i)) - unused[Home(i)]

(* The counts of the groups and of the superblock agree with the bitmaps and
   with the inodes handed out, after rollbacks too. *)
CountsMatch ==
  ~failed => /\ \A g \in Group : /\ free[g] = ext4_inodes_in_group_cnt(g) - Cardinality(Owned(g))
                                 /\ dirs[g] = Cardinality({i \in Owned(g) : own[i]})
                                 /\ Bits(g) = ext4_fs_init_inode_bitmap \cup {Index(i) : i \in Owned(g)}
             /\ sbFree = InodesPerGroup * Groups - Cardinality(DOMAIN own)

(* A group that counts a free inode has a clear bit, whatever failed before:
   otherwise ext4_ialloc_alloc_inode, which goes on to the next group only when
   the count is 0, would search the same group for ever. *)
SearchEnds == \A g \in Group : free[g] > 0 => FirstFree(g) # None

(* An allocation fails for want of inodes only when none is free. *)
NoSpaceMeansFull ==
  ret = "ENOSPC" => Cardinality(DOMAIN own) = InodesPerGroup * Groups \/ failed
=============================================================================
