------------------------------- MODULE Balloc -------------------------------
(***************************************************************************)
(* The block allocator (ext4_balloc.c) on a volume as mkfs made it: the    *)
(* block bitmaps, the free block counts of the groups and of the           *)
(* superblock, and the block counts of the inodes.  A group is referenced  *)
(* through ext4_fs_get_block_group_ref, which initialises its bitmap the   *)
(* first time.                                                             *)
(*                                                                         *)
(* An operation can fail where it reads a descriptor or a bitmap, where it *)
(* gives back the bitmap it changed, where it revokes the block and where  *)
(* it gives back the descriptor; what it changed before stays changed in   *)
(* the cache.  One operation of a behaviour fails at most.                 *)
(***************************************************************************)
EXTENDS Layout

CONSTANTS
  Inode,   \* the inodes that blocks are allocated for
  Goals,   \* goals the callers ask for
  Near,    \* the search near the goal ends at a multiple of this, 64
  Faults   \* TRUE: a transfer or an allocation of memory may fail

ASSUME BallocAssumption ==
  /\ Goals \subseteq Nat
  /\ Near \in Nat \ {0}
  /\ Near % 8 = 0
  /\ Faults \in BOOLEAN
  /\ Groups > 0
  /\ BlocksPerGroup = BitsPerBlock  \* compute_blocks_per_group
  /\ LenBlocks <= Word /\ BlocksPerGroup < Word  \* uint32_t: mkfs turns 64BIT off
  /\ \A goal \in Goals : LET bg == ext4_balloc_get_bgid_of_block(goal)
                         IN bg < DescBlocks * DescPerBlock \/ bg \div DescPerBlock >= DeviceLen

VARIABLES
  used,    \* block bitmap of each group
  uninit,  \* groups with EXT4_BLOCK_GROUP_BLOCK_UNINIT
  free,    \* free_blocks_count of each group
  sbFree,  \* free_blocks_count of the superblock
  blocks,  \* blocks_count of each inode, in blocks
  own,     \* ghost: the blocks each inode holds
  ret,     \* what the last operation returned
  failed   \* ghost: an operation has failed half-way

vars == <<used, uninit, free, sbFree, blocks, own, ret, failed>>

TypeOK ==
  /\ used \in [Group -> SUBSET (0 .. BitsPerBlock - 1)]
  /\ uninit \in SUBSET Group
  /\ free \in [Group -> 0 .. Word - 1]
  /\ sbFree \in 0 .. Word - 1
  /\ blocks \in [Inode -> 0 .. Word - 1]
  /\ own \in [Inode -> SUBSET Nat]
  /\ ret \in {"EOK", "ENOSPC", "EIO", "ASSERT"}
  /\ failed \in BOOLEAN

Init ==
  /\ used = [g \in Group |-> {}]
  /\ uninit = {g \in Group : g < Groups}
  /\ free = [g \in Group |-> IF g < Groups THEN MkfsFreeBlocks(g) ELSE 0]
  /\ sbFree = MapThenSumSet(LAMBDA g : free[g], Group)
  /\ blocks = [o \in Inode |-> 0]
  /\ own = [o \in Inode |-> {}]
  /\ ret = "EOK"
  /\ failed = FALSE

-----------------------------------------------------------------------------
(* ext4_fs_get_block_group_ref: the bitmap of group g, as every operation    *)
(* that references the group finds it.                                       *)
Bits(g) == IF g \in uninit THEN ext4_fs_init_block_bitmap(g) ELSE used[g]

(* The groups of S are referenced, and the bitmap of g becomes bits. *)
Referenced(S) ==
  /\ used' = [g \in Group |-> IF g \in S THEN Bits(g) ELSE used[g]]
  /\ uninit' = uninit \ S

Rewritten(S, g, bits) ==
  /\ used' = [k \in Group |-> IF k = g THEN bits ELSE IF k \in S THEN Bits(k) ELSE used[k]]
  /\ uninit' = uninit \ (S \cup {g})

(* Mutant: the superblock keeps its count. *)
CountedLate(o, g, n) ==
  /\ free' = [free EXCEPT ![g] = (@ - n) % Word]
  /\ UNCHANGED sbFree
  /\ blocks' = [blocks EXCEPT ![o] = (@ + n) % Word]

(* n blocks of group g move from the free blocks to inode o (n < 0: back). *)
Counted(o, g, n) ==
  /\ free' = [free EXCEPT ![g] = (@ - n) % Word]
  /\ sbFree' = (sbFree - n) % Word
  /\ blocks' = [blocks EXCEPT ![o] = (@ + n) % Word]

NotCounted == UNCHANGED <<free, sbFree, blocks>>

(* How an operation ends: r is what it returns, f whether it broke off after
   its first change. *)
Returns(r, f) ==
  /\ ret' = r
  /\ failed' = (failed \/ f)

MayFail == Faults /\ ~failed

-----------------------------------------------------------------------------
(* ext4_balloc_alloc_block *)

(* Mutant: the search near the goal starts one bit late and is the last. *)
GoalHitSkips(g, idx) ==
  LET near == FirstClear(Bits(g), idx + 2, Min({RoundUp(idx, Near), ext4_blocks_in_group_cnt(g)}))
  IN IF idx \notin Bits(g) THEN {idx} ELSE {near}

(* The search near the goal, idx of group g: the goal itself, the bits up to
   the next multiple of Near, the rest of the group.  The last search counts
   the bits of "idx to the end of the group" in an unsigned integer: for an
   idx behind the end it runs on through the bitmap and the memory after it,
   here by one byte at most. *)
GoalHit(g, idx) ==
  LET n == ext4_blocks_in_group_cnt(g)
      near == FirstClear(Bits(g), idx + 1, Min({RoundUp(idx, Near), n}))
  IN IF idx \notin Bits(g) THEN {idx}
     ELSE IF near # None THEN {near}
     ELSE IF idx <= n THEN {ext4_bmap_bit_find_clr(Bits(g), idx, n)}
     ELSE IF FirstClear(Bits(g), idx, BitsPerBlock) # None
          THEN {ext4_bmap_bit_find_clr(Bits(g), idx, BitsPerBlock)}
     ELSE {None} \cup (BitsPerBlock .. BitsPerBlock + 7)

(* The groups after that of the goal, in order; the goal's own comes last. *)
Ring(bg, k) == (bg + k) % ext4_block_group_cnt

RingHit(g) ==
  IF free[g] = 0 THEN None
  ELSE ext4_bmap_bit_find_clr(Bits(g), 0, ext4_blocks_in_group_cnt(g))

(* Mutant: the search leaves out the last group, the goal's own. *)
SearchesShort(bg, idx) ==
  LET goalHits == IF bg \notin Group \/ free[bg] = 0 THEN {None} ELSE GoalHit(bg, idx)
      hits == {k \in 1 .. ext4_block_group_cnt - 1 : RingHit(Ring(bg, k)) # None}
      last == IF hits = {} THEN ext4_block_group_cnt - 1 ELSE Min(hits)
  IN {IF hit # None THEN [bg |-> bg, idx |-> hit, seen |-> {bg}]
      ELSE [bg |-> Ring(bg, last), idx |-> RingHit(Ring(bg, last)), seen |-> {}] : hit \in goalHits}

(* What a search with a goal finds: group, bit, and the groups it has
   referenced; idx is None when there is no free block. *)
Searches(bg, idx) ==
  LET goalHits == IF bg \notin Group \/ free[bg] = 0 THEN {None} ELSE GoalHit(bg, idx)
      steps == {k \in 1 .. ext4_block_group_cnt : RingHit(Ring(bg, k)) # None}
      last == IF steps = {} THEN ext4_block_group_cnt ELSE Min(steps)
      seen == ({bg} \cap Group) \cup {Ring(bg, k) : k \in 1 .. last}
  IN {IF hit # None THEN [bg |-> bg, idx |-> hit, seen |-> {bg}]
      ELSE [bg |-> Ring(bg, last), idx |-> RingHit(Ring(bg, last)), seen |-> seen]
        : hit \in goalHits}

(* Mutant: the bit is found but not set. *)
MarkedNot(h) == Referenced(h.seen)

Marked(h) == Rewritten(h.seen, h.bg, Bits(h.bg) \cup ({h.idx} \cap (0 .. BitsPerBlock - 1)))

ext4_balloc_alloc_block(o, goal) ==
  LET bg == ext4_balloc_get_bgid_of_block(goal)
      readable == bg < DescBlocks * DescPerBlock
  IN \/ /\ readable
        /\ \E h \in Searches(bg, ext4_fs_addr_to_idx_bg(goal)) :
             \/ /\ h.idx = None
                /\ Referenced(h.seen)
                /\ NotCounted
                /\ Returns("ENOSPC", FALSE)
                /\ UNCHANGED own
             \/ /\ h.idx # None
                /\ Marked(h)
                /\ Counted(o, h.bg, 1)
                /\ \/ /\ Returns("EOK", FALSE)
                      /\ own' = [own EXCEPT ![o] = @ \cup {ext4_fs_bg_idx_to_addr(h.idx, h.bg)}]
                   \/ MayFail /\ Returns("EIO", TRUE) /\ UNCHANGED own
             \/ /\ MayFail
                /\ h.idx # None
                /\ Marked(h)
                /\ NotCounted
                /\ Returns("EIO", TRUE)
                /\ UNCHANGED own
             \/ /\ MayFail
                /\ \E S \in SUBSET h.seen : Referenced(S)
                /\ NotCounted
                /\ Returns("EIO", TRUE)
                /\ UNCHANGED own
     \/ /\ ~readable
        /\ Returns("EIO", FALSE)
        /\ UNCHANGED <<used, uninit, free, sbFree, blocks, own>>

-----------------------------------------------------------------------------
(* ext4_balloc_try_alloc_block *)
ext4_balloc_try_alloc_block(o, b) ==
  LET bg == ext4_balloc_get_bgid_of_block(b)
      idx == ext4_fs_addr_to_idx_bg(b)
      h == [bg |-> bg, idx |-> idx, seen |-> {bg}]
  IN \/ /\ idx \notin Bits(bg)
        /\ Marked(h)
        /\ \/ /\ Counted(o, bg, 1)
              /\ \/ Returns("EOK", FALSE) /\ own' = [own EXCEPT ![o] = @ \cup {b}]
                 \/ MayFail /\ Returns("EIO", TRUE) /\ UNCHANGED own
           \/ MayFail /\ NotCounted /\ Returns("EIO", TRUE) /\ UNCHANGED own
     \/ /\ idx \in Bits(bg)
        /\ Referenced({bg})
        /\ NotCounted
        /\ Returns("EOK", FALSE)
        /\ UNCHANGED own
     \/ /\ MayFail
        /\ \E S \in SUBSET {bg} : Referenced(S)
        /\ NotCounted
        /\ Returns("EIO", TRUE)
        /\ UNCHANGED own

-----------------------------------------------------------------------------
(* ext4_balloc_free_block of a block the caller has taken from its inode.    *)
ext4_balloc_free_block(o, b) ==
  LET bg == ext4_balloc_get_bgid_of_block(b)
      cleared == Rewritten({bg}, bg, Bits(bg) \ {ext4_fs_addr_to_idx_bg(b)})
  IN /\ b \in own[o]
     /\ own' = [own EXCEPT ![o] = @ \ {b}]
     /\ \/ cleared /\ Counted(o, bg, -1) /\ Returns("EOK", FALSE)
        \/ /\ MayFail
           /\ Returns("EIO", TRUE)
           /\ \/ Referenced({bg}) /\ NotCounted
              \/ cleared /\ NotCounted
              \/ cleared /\ Counted(o, bg, -1)

-----------------------------------------------------------------------------
(* ext4_balloc_free_blocks: how many blocks of each group go, from which bit;
   a group gives up to the end of its bitmap block. *)
Chunks(first, count) ==
  LET start == ext4_balloc_get_bgid_of_block(first)
      take(b, n) == [first |-> b, left |-> n, idx |-> ext4_fs_addr_to_idx_bg(b),
                     n |-> Min({BitsPerBlock - ext4_fs_addr_to_idx_bg(b), n})]
      chunk[g \in start .. ext4_balloc_get_bgid_of_block(first + count - 1)] ==
        IF g = start THEN take(first, count)
        ELSE LET p == chunk[g - 1] IN take(p.first + p.n, p.left - p.n)
  IN chunk

(* The bitmaps of the groups of B are changed and the blocks of the groups of
   C are counted. *)
Freed(o, chunk, B, C) ==
  LET n == MapThenSumSet(LAMBDA g : chunk[g].n, C)
  IN /\ used' = [g \in Group |-> IF g \in B THEN ext4_bmap_bits_free(Bits(g), chunk[g].idx, chunk[g].n)
                                 ELSE used[g]]
     /\ uninit' = uninit \ B
     /\ free' = [g \in Group |-> IF g \in C THEN (free[g] + chunk[g].n) % Word ELSE free[g]]
     /\ sbFree' = (sbFree + n) % Word
     /\ blocks' = [blocks EXCEPT ![o] = (@ - n) % Word]

(* The descriptor of group g cannot be given back: the loop is left, revoking
   the blocks overwrites the error, and then it is asserted that no block is
   left, which is true if g is the last group. *)
Unreported(chunk, g) == IF g = Max(DOMAIN chunk) THEN "EOK" ELSE "ASSERT"

ext4_balloc_free_blocks(o, first, count) ==
  LET last == first + count - 1
      chunk == Chunks(first, count)
      upTo(g) == {k \in DOMAIN chunk : k <= g}
  IN /\ first .. last \subseteq own[o]
     /\ own' = [own EXCEPT ![o] = @ \ (first .. last)]
     /\ \/ /\ Freed(o, chunk, DOMAIN chunk, DOMAIN chunk)
           /\ Returns("EOK", FALSE) \/ (MayFail /\ Returns("EIO", TRUE))
        \/ /\ MayFail
           /\ \E g \in DOMAIN chunk :
                \/ /\ Returns("EIO", TRUE)
                   /\ \/ Freed(o, chunk, upTo(g) \ {g}, upTo(g) \ {g})
                      \/ Freed(o, chunk, upTo(g), upTo(g) \ {g})
                \/ Returns(Unreported(chunk, g), TRUE) /\ Freed(o, chunk, upTo(g), upTo(g))

(* An assertion that fails never returns (ext4_assert loops). *)
Next ==
  /\ ret # "ASSERT"
  /\ \E o \in Inode :
    \/ \E goal \in Goals : ext4_balloc_alloc_block(o, goal)
    \/ \E b \in Block : ext4_balloc_try_alloc_block(o, b)
    \/ \E b \in own[o] : ext4_balloc_free_block(o, b)
    \/ \E first \in own[o], count \in 1 .. Cardinality(own[o]) : ext4_balloc_free_blocks(o, first, count)

Spec == Init /\ [][Next]_vars

-----------------------------------------------------------------------------
Index(b) == ext4_fs_addr_to_idx_bg(b)
Home(b) == ext4_balloc_get_bgid_of_block(b)

(* A block belongs to one inode at most, lies on the volume and is no block
   of the file system's own (ext4_balloc_alloc_block "allocates" it once),
   whatever failed before. *)
NoSharing ==
  \A o \in Inode : \A b \in own[o] :
    /\ b \in Block
    /\ Index(b) \in Bits(Home(b)) \ ext4_fs_init_block_bitmap(Home(b))
    /\ \A p \in Inode \ {o} : b \notin own[p]

(* Unless an operation failed half-way no block is lost: a bit of a bitmap is
   set for the file system's own blocks and those of the inodes only. *)
NoLeak ==
  ~failed => \A g \in Group : Bits(g) = ext4_fs_init_block_bitmap(g)
               \cup {Index(b) : b \in {x \in UNION {own[o] : o \in Inode} : Home(x) = g}}

(* The counts agree with the bitmaps: each group's, the superblock's and
   those of the inodes. *)
CountsMatch ==
  ~failed => /\ \A g \in Group : free[g] = IF g < Groups THEN BitsPerBlock - Cardinality(Bits(g)) ELSE 0
             /\ sbFree = MapThenSumSet(LAMBDA g : free[g], Group)
             /\ \A o \in Inode : blocks[o] = Cardinality(own[o])

(* An allocation fails for want of space only when every block is in use. *)
NoSpaceMeansFull ==
  ret = "ENOSPC" /\ ~failed => \A g \in Group : g < Groups => Bits(g) = 0 .. BitsPerBlock - 1

(* The order of the search, whatever it is split into (ext4_balloc_alloc_block):
   the first free block of the goal's group that is not before the goal; else
   the first of the next group, cyclically, that has one, the goal's own group
   coming last. *)
Nearest(goal) ==
  LET bg == Home(goal)
      bitmap(g) == Bits(g) \cap (0 .. BlocksPerGroup - 1)
      at(g, from) == FirstClear(bitmap(g), from, BlocksPerGroup)
      next == Min({k \in 1 .. ext4_block_group_cnt : at(Ring(bg, k), 0) # None})
  IN IF at(bg, Index(goal)) # None THEN ext4_fs_bg_idx_to_addr(at(bg, Index(goal)), bg)
     ELSE ext4_fs_bg_idx_to_addr(at(Ring(bg, next), 0), Ring(bg, next))

NearestFirst ==
  [][\A o \in Inode, goal \in Goals :
       /\ ~failed' /\ Home(goal) \in Group
       /\ ext4_balloc_alloc_block(o, goal)
       /\ ret' = "EOK"
       => own'[o] \ own[o] = {Nearest(goal)}]_vars
=============================================================================
