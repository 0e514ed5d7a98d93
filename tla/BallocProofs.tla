---------------------------- MODULE BallocProofs ----------------------------
(***************************************************************************)
(* The block allocator gives a block to one inode at most and loses none,  *)
(* through every failure it handles; it says that there is no space only   *)
(* when there is none, and takes the block the order of its search names;  *)
(* its free counts agree with what it gave.                                *)
(*                                                                         *)
(* The invariant that carries the first two (IInv) says that a group's     *)
(* bitmap, as the driver finds it, always holds the file system's own      *)
(* blocks and the bits behind the end of the volume: no search then leaves *)
(* the volume, and no release clears a bit it does not own.  The next two  *)
(* also need the free counts of the groups to agree with their bitmaps     *)
(* (CountInv), since a group whose count is 0 is not searched.  SumInv     *)
(* adds the sums over the groups and the inodes.                           *)
(***************************************************************************)
EXTENDS Balloc, LayoutTheorems

(* Goals behind the end of the last group send the search of
   ext4_balloc_alloc_block past the bitmap. *)
GoalsInside ==
  \A goal \in Goals : Home(goal) \in Group => Index(goal) <= ext4_blocks_in_group_cnt(Home(goal))

(* The bits of group g that stand for a block of the volume. *)
Size(g) ==
  IF g = Groups - 1 THEN LenBlocks - FirstDataBlock - (Groups - 1) * BlocksPerGroup ELSE BlocksPerGroup

HeaderMarked == \A g \in Group : ext4_fs_init_block_bitmap(g) \subseteq Bits(g)

-----------------------------------------------------------------------------
(* What the assumptions say about the volume. *)
LEMMA Volume ==
  ASSUME OneGroupCount
  PROVE  /\ Groups \in Nat \ {0} /\ ext4_block_group_cnt = Groups /\ Group = 0 .. Groups - 1
         /\ BlocksPerGroup \in Nat \ {0} /\ BitsPerBlock = BlocksPerGroup
         /\ LenBlocks \in Nat /\ Word \in Nat \ {0} /\ LenBlocks <= Word
         /\ FirstDataBlock \in {0, 1}
         /\ (Groups - 1) * BlocksPerGroup \in Nat
         /\ (Groups - 1) * BlocksPerGroup < LenBlocks
         /\ LenBlocks <= (Groups - 1) * BlocksPerGroup + BlocksPerGroup
<1>1. Groups \in Nat \ {0} /\ ext4_block_group_cnt = Groups /\ Group = 0 .. Groups - 1
      /\ LenBlocks \in Nat /\ (Groups - 1) * BlocksPerGroup < LenBlocks
      /\ LenBlocks <= Groups * BlocksPerGroup
  BY BallocAssumption, GroupCount DEF Group
<1>2. BlocksPerGroup \in Nat \ {0} /\ BitsPerBlock = BlocksPerGroup /\ LenBlocks <= Word
      /\ Word \in Nat \ {0} /\ FirstDataBlock \in {0, 1}
  BY LayoutAssumption, BallocAssumption
<1>3. Groups * BlocksPerGroup = (Groups - 1) * BlocksPerGroup + BlocksPerGroup
      /\ (Groups - 1) * BlocksPerGroup \in Nat
  BY <1>1, <1>2
<1> QED
  BY <1>1, <1>2, <1>3

(* Numbers below Word are themselves modulo Word. *)
LEMMA ModSmall ==
  ASSUME OneGroupCount, NEW n \in Nat, n < Word
  PROVE  n % Word = n
<1>1. Word \in Nat \ {0} /\ 0 \in Nat /\ n \in 0 .. Word - 1 /\ 0 * Word + n = n
  BY Volume
<1>2. (0 * Word + n) % Word = n
  BY <1>1, DivModUnique
<1> QED
  BY <1>1, <1>2

(* Group g begins at the address g * BlocksPerGroup + FirstDataBlock, which is
   a block of the volume, and its bits up to Size(g) are blocks. *)
LEMMA GroupSpan ==
  ASSUME OneGroupCount, NEW g \in Group
  PROVE  /\ g * BlocksPerGroup \in Nat
         /\ Size(g) \in 0 .. BlocksPerGroup
         /\ g * BlocksPerGroup + FirstDataBlock + Size(g) <= LenBlocks
         /\ g # Groups - 1 => g * BlocksPerGroup + BlocksPerGroup <= (Groups - 1) * BlocksPerGroup
         /\ ext4_blocks_in_group_cnt(g) \in 1 .. BlocksPerGroup
         /\ Size(g) <= ext4_blocks_in_group_cnt(g)
<1>1. g \in Nat /\ g < Groups /\ Groups \in Nat \ {0}
  BY Volume
<1>2. g * BlocksPerGroup \in Nat
  BY <1>1, Volume
<1>3. CASE g = Groups - 1
  <2>1. ext4_blocks_in_group_cnt(g) = LenBlocks - (Groups - 1) * BlocksPerGroup
    BY <1>1, <1>3, Volume DEF ext4_blocks_in_group_cnt
  <2>2. Size(g) = LenBlocks - FirstDataBlock - (Groups - 1) * BlocksPerGroup
    BY <1>3 DEF Size
  <2>3. /\ (Groups - 1) * BlocksPerGroup \in Nat /\ BlocksPerGroup \in Nat \ {0}
        /\ FirstDataBlock \in {0, 1} /\ LenBlocks \in Nat
        /\ (Groups - 1) * BlocksPerGroup < LenBlocks
        /\ LenBlocks <= (Groups - 1) * BlocksPerGroup + BlocksPerGroup
        /\ g * BlocksPerGroup = (Groups - 1) * BlocksPerGroup
    BY <1>3, Volume
  <2> QED
    BY <1>2, <1>3, <2>1, <2>2, <2>3
<1>4. CASE g # Groups - 1
  <2>1. g < Groups - 1 /\ Groups - 1 \in Nat
    BY <1>1, <1>4
  <2>2. g * BlocksPerGroup + BlocksPerGroup <= (Groups - 1) * BlocksPerGroup
    BY <1>1, <2>1, Volume, ProductOrder
  <2>3. ext4_blocks_in_group_cnt(g) = BlocksPerGroup /\ Size(g) = BlocksPerGroup
    <3>1. ext4_block_group_cnt = Groups
      BY Volume
    <3>2. g < ext4_block_group_cnt - 1
      BY <2>1, <3>1
    <3> QED
      BY <1>4, <3>2 DEF ext4_blocks_in_group_cnt, Size
  <2>4. /\ (Groups - 1) * BlocksPerGroup \in Nat /\ BlocksPerGroup \in Nat \ {0}
        /\ FirstDataBlock \in {0, 1} /\ LenBlocks \in Nat
        /\ (Groups - 1) * BlocksPerGroup < LenBlocks
    BY Volume
  <2>5. g * BlocksPerGroup + FirstDataBlock + BlocksPerGroup <= LenBlocks
    <3> DEFINE a == g * BlocksPerGroup
               c == (Groups - 1) * BlocksPerGroup
    <3>1. a \in Nat /\ c \in Nat /\ a + BlocksPerGroup <= c /\ c < LenBlocks
      BY <1>2, <2>2, <2>4
    <3> HIDE DEF a, c
    <3>2. a + FirstDataBlock + BlocksPerGroup <= LenBlocks
      BY <2>4, <3>1
    <3> QED
      BY <3>2 DEF a
  <2>6. Size(g) \in 0 .. BlocksPerGroup /\ ext4_blocks_in_group_cnt(g) \in 1 .. BlocksPerGroup
        /\ Size(g) <= ext4_blocks_in_group_cnt(g)
    BY <2>3, <2>4
  <2> QED
    BY <1>2, <2>2, <2>3, <2>5, <2>6
<1> QED
  BY <1>3, <1>4

(* What is left of a group lies in front of a block of a later group. *)
LEMMA RestOfGroup ==
  ASSUME NEW n \in Nat, NEW p \in Nat, NEW q \in Nat, p + n <= q, NEW d \in Nat,
         NEW x \in Nat, NEW y \in Nat, NEW f, f = p + x + d, NEW last, last = q + y + d
  PROVE  n - x <= last + 1 - f
OBVIOUS

(* A block in front of the end of a range of blocks of one group, as a bit. *)
LEMMA LastOfRange ==
  ASSUME NEW p \in Nat, NEW d \in Nat, NEW i \in Nat, NEW x \in Nat, NEW last \in Int,
         NEW f, f = p + i + d, NEW b, b = p + x + d, b <= last, NEW n, n = last + 1 - f
  PROVE  x <= i + n - 1
OBVIOUS

(* A bit that stands for a block is one of its group. *)
LEMMA SlotInGroup ==
  ASSUME OneGroupCount, NEW g \in Group, NEW idx \in 0 .. Size(g) - 1
  PROVE  idx \in 0 .. BlocksPerGroup - 1
<1>1. Size(g) \in 0 .. BlocksPerGroup
  BY GroupSpan
<1>2. BlocksPerGroup \in Nat
  BY Volume
<1> QED
  BY <1>1, <1>2

(* A bit that stands for a block: its address, and back. *)
LEMMA AddressOf ==
  ASSUME OneGroupCount, NEW g \in Group, NEW idx \in 0 .. Size(g) - 1
  PROVE  LET b == g * BlocksPerGroup + idx + FirstDataBlock
         IN /\ b \in Block /\ Home(b) = g /\ Index(b) = idx
            /\ ext4_fs_bg_idx_to_addr(idx, g) = b
<1> DEFINE b == g * BlocksPerGroup + idx + FirstDataBlock
<1>1. /\ g * BlocksPerGroup \in Nat /\ Size(g) \in 0 .. BlocksPerGroup
      /\ g * BlocksPerGroup + FirstDataBlock + Size(g) <= LenBlocks
  BY GroupSpan
<1>2. /\ g \in Nat /\ g < Groups /\ idx \in Nat /\ idx < Size(g) /\ FirstDataBlock \in {0, 1}
      /\ LenBlocks \in Nat /\ LenBlocks <= Word /\ Word \in Nat /\ BlocksPerGroup \in Nat \ {0}
  <2>1. FirstDataBlock \in {0, 1} /\ LenBlocks \in Nat /\ LenBlocks <= Word /\ Word \in Nat
        /\ BlocksPerGroup \in Nat \ {0} /\ Groups \in Nat /\ Group = 0 .. Groups - 1
    BY Volume
  <2> QED
    BY <1>1, <2>1
<1>3. b \in Nat /\ b >= FirstDataBlock /\ b < LenBlocks
  BY <1>1, <1>2
<1>4. InGroups(b) = g * BlocksPerGroup + idx
  BY <1>1, <1>2 DEF InGroups
<1>5. (g * BlocksPerGroup + idx) \div BlocksPerGroup = g
      /\ (g * BlocksPerGroup + idx) % BlocksPerGroup = idx
  <2>1. idx \in 0 .. BlocksPerGroup - 1
    BY <1>1, <1>2
  <2> QED
    BY <1>2, <2>1, DivModUnique
<1>6. g < Word
  <2>1. g <= g * BlocksPerGroup
    BY <1>2, ProductAtLeast
  <2> QED
    BY <1>1, <1>2, <1>3, <2>1
<1>7. g % Word = g /\ b % Word = b
  BY <1>2, <1>3, <1>6, ModSmall
<1>8. BlocksPerGroup * g + idx + FirstDataBlock = b
  BY <1>1, <1>2
<1>9. b \in Block
  BY <1>2, <1>3 DEF Block
<1>10. Home(b) = g /\ Index(b) = idx
  BY <1>4, <1>5, <1>7 DEF Home, Index, ext4_balloc_get_bgid_of_block, ext4_fs_addr_to_idx_bg
<1>11. ext4_fs_bg_idx_to_addr(idx, g) = b
  BY <1>7, <1>8 DEF ext4_fs_bg_idx_to_addr
<1> QED
  BY <1>9, <1>10, <1>11

(* A block of the volume: its group and its bit. *)
LEMMA PlaceOf ==
  ASSUME OneGroupCount, NEW b \in Block
  PROVE  /\ Home(b) \in Group /\ Index(b) \in 0 .. Size(Home(b)) - 1
         /\ b = Home(b) * BlocksPerGroup + Index(b) + FirstDataBlock
         /\ b \in Nat
<1> DEFINE a == b - FirstDataBlock
           q == a \div BlocksPerGroup
           r == a % BlocksPerGroup
<1>1. b \in Nat /\ a \in Nat /\ a < LenBlocks - FirstDataBlock /\ InGroups(b) = a
  BY Volume DEF Block, InGroups
<1>2. q \in Nat /\ r \in 0 .. BlocksPerGroup - 1 /\ a = q * BlocksPerGroup + r
  BY <1>1, Volume, DivMod
<1>3. q < Groups
  <2>1. a < Groups * BlocksPerGroup
    <3>1. Groups * BlocksPerGroup = (Groups - 1) * BlocksPerGroup + BlocksPerGroup
      BY Volume
    <3> QED
      BY <1>1, <3>1, Volume
  <2> QED
    BY <1>1, <2>1, Volume, DivBound
<1>4. q < Word
  <2>1. BlocksPerGroup \in Nat \ {0}
    BY Volume
  <2>2. q <= q * BlocksPerGroup /\ q * BlocksPerGroup \in Nat
    BY <1>2, <2>1, ProductAtLeast
  <2>3. a < Word /\ Word \in Nat
    BY <1>1, Volume
  <2> HIDE DEF a, q, r
  <2> QED
    BY <1>1, <1>2, <2>2, <2>3
<1>5. q % Word = q
  BY <1>2, <1>4, ModSmall
<1>6. Home(b) = q /\ Index(b) = r
  BY <1>1, <1>5 DEF Home, Index, ext4_balloc_get_bgid_of_block, ext4_fs_addr_to_idx_bg
<1>7. q \in Group
  BY <1>2, <1>3, Volume
<1> HIDE DEF q, r
<1>8. r \in 0 .. Size(q) - 1
  <2>1. Size(q) = IF q = Groups - 1 THEN LenBlocks - FirstDataBlock - (Groups - 1) * BlocksPerGroup
                  ELSE BlocksPerGroup
    BY DEF Size
  <2>2. (Groups - 1) * BlocksPerGroup \in Nat /\ BlocksPerGroup \in Nat /\ FirstDataBlock \in {0, 1}
        /\ LenBlocks \in Nat
    BY Volume
  <2> QED
    BY <1>1, <1>2, <2>1, <2>2
<1>9. b = q * BlocksPerGroup + r + FirstDataBlock
  <2>1. BlocksPerGroup \in Nat /\ FirstDataBlock \in Nat
    BY Volume
  <2>2. q * BlocksPerGroup \in Nat
    BY <1>2, <2>1
  <2>3. a = b - FirstDataBlock
    BY <1>1, Volume DEF InGroups, Block
  <2>4. r \in Nat
    BY <1>2, <2>1
  <2> HIDE DEF a
  <2> QED
    BY <1>1, <1>2, <2>1, <2>2, <2>3, <2>4
<1> QED
  BY <1>1, <1>6, <1>7, <1>8, <1>9

(* Two blocks with the same group and bit are one. *)
LEMMA SamePlace ==
  ASSUME OneGroupCount, NEW b \in Block, NEW c \in Block, Home(b) = Home(c), Index(b) = Index(c)
  PROVE  b = c
BY PlaceOf

-----------------------------------------------------------------------------
(* A clear bit stands for a block that belongs to no header. *)
LEMMA ClearIsBlock ==
  ASSUME OneGroupCount, HeaderMarked, NEW g \in Group, NEW idx \in 0 .. BlocksPerGroup - 1,
         idx \notin Bits(g)
  PROVE  idx \in 0 .. Size(g) - 1 /\ idx \notin ext4_fs_init_block_bitmap(g)
<1>1. idx \notin ext4_fs_init_block_bitmap(g)
  BY DEF HeaderMarked
<1>2. Size(g) .. BitsPerBlock - 1 \subseteq ext4_fs_init_block_bitmap(g)
  <2>1. Size(g) = IF g = ext4_block_group_cnt - 1
                  THEN LenBlocks - FirstDataBlock - BlocksPerGroup * (ext4_block_group_cnt - 1)
                  ELSE BlocksPerGroup
    <3>1. BlocksPerGroup * (Groups - 1) = (Groups - 1) * BlocksPerGroup
      BY Volume
    <3> QED
      BY <3>1, Volume DEF Size
  <2> QED
    BY <2>1 DEF ext4_fs_init_block_bitmap
<1>3. Size(g) \in 0 .. BlocksPerGroup /\ BitsPerBlock = BlocksPerGroup /\ BlocksPerGroup \in Nat
  BY GroupSpan, Volume
<1> QED
  BY <1>1, <1>2, <1>3

(* The search near the goal finds a clear bit of the group or none. *)
LEMMA GoalHitFinds ==
  ASSUME OneGroupCount, NEW g \in Group, NEW idx \in 0 .. BlocksPerGroup - 1,
         idx <= ext4_blocks_in_group_cnt(g),
         NEW hit \in GoalHit(g, idx), hit # None
  PROVE  hit \in 0 .. BlocksPerGroup - 1 /\ hit \notin Bits(g)
<1> DEFINE n == ext4_blocks_in_group_cnt(g)
           end == Min({RoundUp(idx, Near), n})
           near == FirstClear(Bits(g), idx + 1, end)
<1>1. n \in 1 .. BlocksPerGroup /\ BlocksPerGroup \in Nat \ {0} /\ idx \in Nat /\ idx <= n
  BY GroupSpan, Volume
<1>2. Near \in Nat \ {0} /\ Near % 8 = 0
  BY BallocAssumption
<1>3. RoundUp(idx, Near) \in Nat /\ RoundUp(idx, 8) \in Nat /\ idx <= RoundUp(idx, 8)
      /\ RoundUp(idx, 8) <= RoundUp(idx, Near)
  BY <1>1, <1>2, RoundUpOf, RoundUpBytes, 8 \in Nat \ {0}
<1>4. end = IF RoundUp(idx, Near) <= n THEN RoundUp(idx, Near) ELSE n
  BY <1>1, <1>3, LeastOfTwo
<1>5. GoalHit(g, idx) = IF idx \notin Bits(g) THEN {idx}
                        ELSE IF near # None THEN {near}
                        ELSE {ext4_bmap_bit_find_clr(Bits(g), idx, n)}
  BY <1>1 DEF GoalHit
<1> HIDE DEF n, end
<1>6. CASE idx \notin Bits(g)
  BY <1>5, <1>6
<1>7. end \in Nat /\ end <= n
  BY <1>1, <1>3, <1>4
<1>8. CASE idx \in Bits(g) /\ near # None
  <2>1. near \in (idx + 1 .. end - 1) \ Bits(g)
    <3>1. idx + 1 \in Nat /\ end \in Int
      BY <1>1, <1>7
    <3> QED
      BY <1>8, <3>1, FirstClearFinds
  <2>2. hit = near
    BY <1>5, <1>8
  <2> HIDE DEF near
  <2> QED
    BY <1>1, <1>7, <2>1, <2>2
<1>9. CASE idx \in Bits(g) /\ near = None
  <2>1. idx + 1 .. end - 1 \subseteq Bits(g)
    <3>1. idx + 1 \in Nat /\ end \in Int
      BY <1>1, <1>7
    <3> QED
      BY <1>9, <3>1, FirstClearFinds
  <2>2. \A k \in idx .. n - 1 : k < RoundUp(idx, 8) => k \in Bits(g)
    <3>1. ASSUME NEW k \in idx .. n - 1, k < RoundUp(idx, 8)
          PROVE  k = idx \/ k \in idx + 1 .. end - 1
      BY <1>1, <1>3, <1>4, <3>1
    <3> QED
      BY <1>9, <2>1, <3>1
  <2>3. ext4_bmap_bit_find_clr(Bits(g), idx, n) = FirstClear(Bits(g), RoundUp(idx, 8), n)
    BY <1>1, <2>2, SearchFromByte
  <2>4. hit = FirstClear(Bits(g), RoundUp(idx, 8), n)
    BY <1>5, <1>9, <2>3
  <2>5. hit \in (RoundUp(idx, 8) .. n - 1) \ Bits(g)
    <3>1. n \in Int
      BY <1>1
    <3> QED
      BY <1>3, <2>4, <3>1, FirstClearFinds
  <2> QED
    BY <1>1, <1>3, <2>5
<1> QED
  BY <1>6, <1>8, <1>9

(* So does the search of a group from its beginning. *)
LEMMA RingHitFinds ==
  ASSUME OneGroupCount, NEW g \in Group, RingHit(g) # None
  PROVE  RingHit(g) \in 0 .. BlocksPerGroup - 1 /\ RingHit(g) \notin Bits(g)
<1> DEFINE n == ext4_blocks_in_group_cnt(g)
<1>1. n \in 1 .. BlocksPerGroup /\ BlocksPerGroup \in Nat /\ n \in Nat
  BY GroupSpan, Volume
<1> HIDE DEF n
<1>2. RingHit(g) = FirstClear(Bits(g), 0, n)
  <2>1. RingHit(g) = ext4_bmap_bit_find_clr(Bits(g), 0, n)
    BY DEF RingHit, n
  <2> QED
    BY <1>1, <2>1, SearchFromZero
<1>3. RingHit(g) \in (0 .. n - 1) \ Bits(g)
  <2>1. n \in Int /\ 0 \in Nat /\ FirstClear(Bits(g), 0, n) # None
    BY <1>1, <1>2
  <2>2. FirstClear(Bits(g), 0, n) \in (0 .. n - 1) \ Bits(g)
    BY <2>1, FirstClearFinds
  <2> QED
    BY <1>2, <2>2
<1> QED
  BY <1>1, <1>3

(* The groups after that of the goal are groups. *)
LEMMA RingType ==
  ASSUME OneGroupCount, NEW bg \in Nat, NEW k \in Nat
  PROVE  Ring(bg, k) \in Group
<1>1. bg + k \in Nat /\ Groups \in Nat \ {0} /\ ext4_block_group_cnt = Groups /\ Group = 0 .. Groups - 1
  BY Volume
<1>2. (bg + k) % Groups \in 0 .. Groups - 1
  BY <1>1, DivMod
<1> QED
  BY <1>1, <1>2 DEF Ring

(* Where the search goes on after the group of the goal. *)
LastStep(bg) ==
  LET steps == {k \in 1 .. ext4_block_group_cnt : RingHit(Ring(bg, k)) # None}
  IN IF steps = {} THEN ext4_block_group_cnt ELSE Min(steps)

(* The search stops at the first group where it finds a clear bit, or at the
   goal's own when there is none. *)
LEMMA LastStepOf ==
  ASSUME OneGroupCount, NEW bg \in Nat
  PROVE  /\ LastStep(bg) \in 1 .. Groups
         /\ RingHit(Ring(bg, LastStep(bg))) = None =>
              \A k \in 1 .. Groups : RingHit(Ring(bg, k)) = None
         /\ \A k \in 1 .. LastStep(bg) - 1 : RingHit(Ring(bg, k)) = None
<1> DEFINE steps == {k \in 1 .. Groups : RingHit(Ring(bg, k)) # None}
<1>1. Groups \in Nat \ {0} /\ LastStep(bg) = IF steps = {} THEN Groups ELSE Min(steps)
  BY Volume DEF LastStep
<1>2. CASE steps = {}
  BY <1>1, <1>2
<1>3. CASE steps # {}
  <2>1. steps \in SUBSET Nat
    BY <1>1
  <2>2. Min(steps) \in steps /\ \A k \in steps : Min(steps) <= k
    BY <1>3, <2>1, LeastNatural
  <2>3. LastStep(bg) = Min(steps)
    BY <1>1, <1>3
  <2>4. LastStep(bg) \in 1 .. Groups /\ RingHit(Ring(bg, LastStep(bg))) # None
    BY <2>2, <2>3
  <2>5. ASSUME NEW k \in 1 .. LastStep(bg) - 1
        PROVE  RingHit(Ring(bg, k)) = None
    <3>1. k \in 1 .. Groups /\ ~(LastStep(bg) <= k)
      BY <1>1, <2>4
    <3> QED
      BY <2>2, <2>3, <3>1
  <2> QED
    BY <2>4, <2>5
<1> QED
  BY <1>2, <1>3

(* What a search finds is a clear bit of a group. *)
LEMMA SearchFinds ==
  ASSUME OneGroupCount, NEW bg \in Nat, NEW idx \in 0 .. BlocksPerGroup - 1,
         bg \in Group => idx <= ext4_blocks_in_group_cnt(bg),
         NEW h \in Searches(bg, idx), h.idx # None
  PROVE  h.bg \in Group /\ h.idx \in 0 .. BlocksPerGroup - 1 /\ h.idx \notin Bits(h.bg)
<1> DEFINE goalHits == IF bg \notin Group \/ free[bg] = 0 THEN {None} ELSE GoalHit(bg, idx)
           last == LastStep(bg)
           seen == ({bg} \cap Group) \cup {Ring(bg, k) : k \in 1 .. last}
<1>1. PICK hit \in goalHits :
        h = IF hit # None THEN [bg |-> bg, idx |-> hit, seen |-> {bg}]
            ELSE [bg |-> Ring(bg, last), idx |-> RingHit(Ring(bg, last)), seen |-> seen]
  BY DEF Searches, LastStep
<1>2. CASE hit # None
  <2>1. h.bg = bg /\ h.idx = hit
    BY <1>1, <1>2
  <2>2. bg \in Group /\ hit \in GoalHit(bg, idx)
    BY <1>2
  <2> QED
    BY <1>2, <2>1, <2>2, GoalHitFinds
<1>3. CASE hit = None
  <2>1. h.bg = Ring(bg, last) /\ h.idx = RingHit(Ring(bg, last))
    BY <1>1, <1>3
  <2>2. last \in Nat
    BY LastStepOf, Volume
  <2>3. Ring(bg, last) \in Group
    BY <2>2, RingType
  <2> QED
    BY <2>1, <2>3, RingHitFinds
<1> QED
  BY <1>2, <1>3

-----------------------------------------------------------------------------
(* Referencing and rewriting bitmaps, seen through Bits. *)
LEMMA BitsReferenced ==
  ASSUME NEW S, Referenced(S), NEW k \in Group
  PROVE  Bits(k)' = Bits(k)
<1>1. CASE k \in uninit \ S
  BY <1>1 DEF Bits, Referenced
<1>2. CASE k \in S
  BY <1>2 DEF Bits, Referenced
<1>3. CASE k \notin S /\ k \notin uninit
  BY <1>3 DEF Bits, Referenced
<1> QED
  BY <1>1, <1>2, <1>3

(* The same for a bitmap that is rewritten. *)
LEMMA BitsRewritten ==
  ASSUME NEW S, NEW g, NEW bits, Rewritten(S, g, bits), NEW k \in Group
  PROVE  Bits(k)' = IF k = g THEN bits ELSE Bits(k)
<1>1. CASE k = g
  BY <1>1 DEF Bits, Rewritten
<1>2. CASE k # g /\ k \in uninit \ S
  BY <1>2 DEF Bits, Rewritten
<1>3. CASE k # g /\ k \in S
  BY <1>3 DEF Bits, Rewritten
<1>4. CASE k # g /\ k \notin S /\ k \notin uninit
  BY <1>4 DEF Bits, Rewritten
<1> QED
  BY <1>1, <1>2, <1>3, <1>4

-----------------------------------------------------------------------------
(* The blocks inodes hold, and the bits in group g of the blocks of a set. *)
Held == UNION {own[o] : o \in Inode}
Indices(S, g) == {Index(b) : b \in {x \in S : Home(x) = g}}

(* Every bit is a header's or that of a block someone holds. *)
Tight == \A g \in Group : Bits(g) = ext4_fs_init_block_bitmap(g) \cup Indices(Held, g)

IInv ==
  /\ own \in [Inode -> SUBSET Block]
  /\ failed \in BOOLEAN
  /\ HeaderMarked
  /\ NoSharing
  /\ ~failed => Tight

(* A step may mark further bits. *)
LEMMA MarkedMore ==
  ASSUME OneGroupCount, HeaderMarked, NoSharing, UNCHANGED own,
         \A k \in Group : Bits(k) \subseteq Bits(k)'
  PROVE  HeaderMarked' /\ NoSharing'
<1>1. HeaderMarked'
  BY DEF HeaderMarked, ext4_fs_init_block_bitmap
<1>2. ASSUME NEW o \in Inode, NEW b \in own'[o]
      PROVE  /\ b \in Block
             /\ Index(b) \in Bits(Home(b))' \ ext4_fs_init_block_bitmap(Home(b))
             /\ \A p \in Inode \ {o} : b \notin own'[p]
  <2>1. /\ b \in Block
        /\ Index(b) \in Bits(Home(b)) \ ext4_fs_init_block_bitmap(Home(b))
        /\ \A p \in Inode \ {o} : b \notin own[p]
    BY DEF NoSharing
  <2>2. Home(b) \in Group
    BY <2>1, PlaceOf
  <2> QED
    BY <2>1, <2>2
<1>3. NoSharing'
  BY <1>2 DEF NoSharing, Index, Home
<1> QED
  BY <1>1, <1>3

(* A block whose bit was clear is marked and given to an inode. *)
LEMMA BlockGiven ==
  ASSUME OneGroupCount, own \in [Inode -> SUBSET Block], HeaderMarked, NoSharing,
         NEW o \in Inode, NEW b \in Block, Index(b) \notin Bits(Home(b)),
         own' = [own EXCEPT ![o] = @ \cup {b}],
         \A k \in Group : Bits(k)' = IF k = Home(b) THEN Bits(k) \cup {Index(b)} ELSE Bits(k)
  PROVE  /\ own' \in [Inode -> SUBSET Block] /\ HeaderMarked' /\ NoSharing'
         /\ Tight => Tight'
<1>1. own' \in [Inode -> SUBSET Block]
  OBVIOUS
<1>2. Home(b) \in Group /\ Index(b) \in 0 .. Size(Home(b)) - 1
  BY PlaceOf
<1>3. Index(b) \in 0 .. BlocksPerGroup - 1
  BY <1>2, SlotInGroup
<1>4. Index(b) \notin ext4_fs_init_block_bitmap(Home(b))
  BY <1>2, <1>3, ClearIsBlock
<1>5. HeaderMarked'
  BY DEF HeaderMarked, ext4_fs_init_block_bitmap
<1>6. \A p \in Inode : b \notin own[p]
  BY DEF NoSharing
<1>7. ASSUME NEW p \in Inode, NEW c \in own'[p]
      PROVE  /\ c \in Block
             /\ Index(c) \in Bits(Home(c))' \ ext4_fs_init_block_bitmap(Home(c))
             /\ \A q \in Inode \ {p} : c \notin own'[q]
  <2>1. CASE c = b
    <3>1. p = o
      BY <1>6, <2>1
    <3> QED
      BY <1>2, <1>4, <1>6, <2>1, <3>1
  <2>2. CASE c # b
    <3>1. c \in own[p]
      BY <2>2
    <3>2. /\ c \in Block
          /\ Index(c) \in Bits(Home(c)) \ ext4_fs_init_block_bitmap(Home(c))
          /\ \A q \in Inode \ {p} : c \notin own[q]
      BY <3>1 DEF NoSharing
    <3>3. Home(c) \in Group
      BY <3>2, PlaceOf
    <3> QED
      BY <2>2, <3>2, <3>3
  <2> QED
    BY <2>1, <2>2
<1>8. NoSharing'
  BY <1>7 DEF NoSharing, Index, Home
<1>9. ASSUME Tight
      PROVE  Tight'
  <2>1. Held' = Held \cup {b}
    <3>1. \A p \in Inode : own'[p] = IF p = o THEN own[p] \cup {b} ELSE own[p]
      OBVIOUS
    <3>2. o \in Inode
      OBVIOUS
    <3> QED
      BY <3>1, <3>2 DEF Held
  <2>2. ASSUME NEW k \in Group
        PROVE  Bits(k)' = ext4_fs_init_block_bitmap(k) \cup Indices(Held', k)
    <3>1. Indices(Held', k) = Indices(Held, k) \cup (IF k = Home(b) THEN {Index(b)} ELSE {})
      BY <2>1 DEF Indices
    <3>2. Bits(k) = ext4_fs_init_block_bitmap(k) \cup Indices(Held, k)
      BY <1>9 DEF Tight
    <3> QED
      BY <3>1, <3>2
  <2> QED
    BY <2>2 DEF Tight, Indices, ext4_fs_init_block_bitmap, Index, Home
<1> QED
  BY <1>1, <1>5, <1>8, <1>9

(* Blocks leave an inode; no bit is cleared but theirs. *)
LEMMA BlocksTaken ==
  ASSUME OneGroupCount, own \in [Inode -> SUBSET Block], HeaderMarked, NoSharing,
         NEW o \in Inode, NEW gone \in SUBSET own[o],
         own' = [own EXCEPT ![o] = @ \ gone],
         \A k \in Group : Bits(k) \ Indices(gone, k) \subseteq Bits(k)'
  PROVE  /\ own' \in [Inode -> SUBSET Block] /\ HeaderMarked' /\ NoSharing'
         /\ Tight /\ (\A k \in Group : Bits(k)' = Bits(k) \ Indices(gone, k)) => Tight'
<1>1. own' \in [Inode -> SUBSET Block]
  OBVIOUS
<1>2. ASSUME NEW b \in gone
      PROVE  /\ b \in Block /\ Index(b) \notin ext4_fs_init_block_bitmap(Home(b))
             /\ \A p \in Inode \ {o} : b \notin own[p]
  BY DEF NoSharing
<1>3. ASSUME NEW k \in Group
      PROVE  Indices(gone, k) \cap ext4_fs_init_block_bitmap(k) = {}
  BY <1>2 DEF Indices
<1>4. HeaderMarked'
  BY <1>3 DEF HeaderMarked, ext4_fs_init_block_bitmap
<1>5. ASSUME NEW p \in Inode, NEW c \in own'[p]
      PROVE  c \in own[p] /\ c \notin gone
  BY <1>2
<1>6. ASSUME NEW c \in Block, c \notin gone
      PROVE  Index(c) \notin Indices(gone, Home(c))
  BY <1>2, <1>6, SamePlace DEF Indices
<1>7. ASSUME NEW p \in Inode, NEW c \in own'[p]
      PROVE  /\ c \in Block
             /\ Index(c) \in Bits(Home(c))' \ ext4_fs_init_block_bitmap(Home(c))
             /\ \A q \in Inode \ {p} : c \notin own'[q]
  <2>1. c \in own[p] /\ c \notin gone
    BY <1>5
  <2>2. /\ c \in Block
        /\ Index(c) \in Bits(Home(c)) \ ext4_fs_init_block_bitmap(Home(c))
        /\ \A q \in Inode \ {p} : c \notin own[q]
    BY <2>1 DEF NoSharing
  <2>3. Home(c) \in Group
    BY <2>2, PlaceOf
  <2>4. Index(c) \notin Indices(gone, Home(c))
    BY <1>6, <2>1, <2>2
  <2>5. Index(c) \in Bits(Home(c))'
    BY <2>2, <2>3, <2>4
  <2>6. \A q \in Inode : own'[q] \subseteq own[q]
    OBVIOUS
  <2> QED
    BY <2>2, <2>5, <2>6
<1>8. NoSharing'
  BY <1>7 DEF NoSharing, Index, Home
<1>9. ASSUME Tight, \A k \in Group : Bits(k)' = Bits(k) \ Indices(gone, k)
      PROVE  Tight'
  <2>1. Held' = Held \ gone
    <3>1. \A p \in Inode : own'[p] = IF p = o THEN own[p] \ gone ELSE own[p]
      OBVIOUS
    <3> QED
      BY <1>2, <3>1 DEF Held
  <2>2. Held \subseteq Block
    BY DEF Held
  <2>3. ASSUME NEW k \in Group
        PROVE  Bits(k)' = ext4_fs_init_block_bitmap(k) \cup Indices(Held', k)
    <3>1. Indices(Held \ gone, k) = Indices(Held, k) \ Indices(gone, k)
      <4>1. Indices(Held \ gone, k) \subseteq Indices(Held, k)
        BY DEF Indices
      <4>2. ASSUME NEW x \in Indices(Held \ gone, k)
            PROVE  x \notin Indices(gone, k)
        <5>1. PICK c \in Held \ gone : Home(c) = k /\ Index(c) = x
          BY <4>2 DEF Indices
        <5> QED
          BY <1>6, <2>2, <5>1
      <4>3. Indices(Held, k) \ Indices(gone, k) \subseteq Indices(Held \ gone, k)
        BY DEF Indices
      <4> QED
        BY <4>1, <4>2, <4>3
    <3>2. Bits(k) = ext4_fs_init_block_bitmap(k) \cup Indices(Held, k)
      BY <1>9 DEF Tight
    <3> QED
      BY <1>3, <1>9, <2>1, <3>1, <3>2
  <2> QED
    BY <2>3 DEF Tight, Indices, ext4_fs_init_block_bitmap, Index, Home
<1> QED
  BY <1>1, <1>4, <1>8, <1>9

-----------------------------------------------------------------------------
(* ext4_balloc_free_blocks goes through the groups from the first block on.  *)
(* In closed form: where it is when it comes to group g.                     *)
Begins(first, g) == IF g = Home(first) THEN first ELSE g * BlocksPerGroup + FirstDataBlock

Take(b, n) == [first |-> b, left |-> n, idx |-> Index(b), n |-> Min({BitsPerBlock - Index(b), n})]

Closed(first, count) ==
  [g \in Home(first) .. Home(first + count - 1) |->
     Take(Begins(first, g), first + count - Begins(first, g))]

(* The first block of the range in group g, and how many the group gives up. *)
LEMMA ClosedOf ==
  ASSUME OneGroupCount, NEW first \in Block, NEW count \in Nat \ {0}, first + count - 1 \in Block,
         NEW g \in Home(first) .. Home(first + count - 1)
  PROVE  LET f == Begins(first, g)
             n == Closed(first, count)[g].n
         IN /\ g \in Group /\ f \in Block /\ Home(f) = g /\ f \in first .. first + count - 1
            /\ Closed(first, count)[g].idx = Index(f)
            /\ n = IF BlocksPerGroup - Index(f) <= first + count - f
                   THEN BlocksPerGroup - Index(f) ELSE first + count - f
            /\ g < Home(first + count - 1) =>
                 /\ n = BlocksPerGroup - Index(f)
                 /\ Begins(first, g + 1) = f + n
            /\ g # Home(first) => Index(f) = 0
<1> DEFINE last == first + count - 1
           f == Begins(first, g)
           s == Home(first)
           e == Home(last)
<1>1. /\ first \in Nat /\ last \in Nat /\ first <= last /\ last \in Block
      /\ s \in Group /\ e \in Group /\ g \in s .. e
      /\ first = s * BlocksPerGroup + Index(first) + FirstDataBlock
      /\ last = e * BlocksPerGroup + Index(last) + FirstDataBlock
      /\ Index(first) \in 0 .. Size(s) - 1 /\ Index(last) \in 0 .. Size(e) - 1
  BY PlaceOf
<1>2. /\ Group = 0 .. Groups - 1 /\ Groups \in Nat /\ BlocksPerGroup \in Nat \ {0} /\ FirstDataBlock \in {0, 1}
      /\ BitsPerBlock = BlocksPerGroup
  BY Volume
<1>3. g \in Group /\ g \in Nat /\ s \in Nat /\ e \in Nat /\ s <= g /\ g <= e
  BY <1>1, <1>2
<1>4. Size(s) \in 0 .. BlocksPerGroup /\ Size(e) \in 0 .. BlocksPerGroup /\ Size(g) \in 0 .. BlocksPerGroup
  BY <1>1, <1>3, GroupSpan
<1> DEFINE P(k) == k * BlocksPerGroup
           i == Index(first)
           j == Index(last)
<1>0. i \in Nat /\ i < BlocksPerGroup /\ j \in Nat /\ j < BlocksPerGroup
  <2>1. i \in 0 .. Size(s) - 1 /\ j \in 0 .. Size(e) - 1 /\ BlocksPerGroup \in Nat
    BY <1>1, <1>2
  <2>2. i \in Nat /\ i < BlocksPerGroup
    BY <1>4, <2>1
  <2>3. j \in Nat /\ j < BlocksPerGroup
    BY <1>4, <2>1
  <2> QED
    BY <2>2, <2>3
<1>5. /\ P(s) \in Nat /\ P(e) \in Nat /\ P(g) \in Nat
      /\ g < e => P(g) + BlocksPerGroup <= P(e)
      /\ s < g => P(s) + BlocksPerGroup <= P(g)
      /\ P(g + 1) = P(g) + BlocksPerGroup
      /\ first = P(s) + i + FirstDataBlock
      /\ last = P(e) + j + FirstDataBlock
  <2>1. P(s) \in Nat /\ P(e) \in Nat /\ P(g) \in Nat
    BY <1>2, <1>3, ProductAtLeast
  <2>2. g < e => P(g) + BlocksPerGroup <= P(e)
    BY <1>2, <1>3, ProductOrder
  <2>3. s < g => P(s) + BlocksPerGroup <= P(g)
    BY <1>2, <1>3, ProductOrder
  <2>4. P(g + 1) = P(g) + BlocksPerGroup
    BY <1>2, <1>3
  <2> QED
    BY <1>1, <2>1, <2>2, <2>3, <2>4
<1>6. Closed(first, count)[g] = Take(f, first + count - f)
  BY DEF Closed
<1>7. first + count = last + 1 /\ last = first + count - 1
  BY <1>1
<1>8. /\ g = s => f = first
      /\ g # s => f = P(g) + FirstDataBlock
      /\ g < e => Begins(first, g + 1) = P(g + 1) + FirstDataBlock
  BY <1>3 DEF Begins
<1> HIDE DEF last, f, P, i, j
<1>9. /\ f \in Block /\ Home(f) = g /\ f \in first .. last
      /\ f = P(g) + Index(f) + FirstDataBlock
      /\ Index(f) \in 0 .. BlocksPerGroup - 1
      /\ g # s => Index(f) = 0
  <2>1. CASE g = s
    <3>1. f = first /\ Home(f) = g
      BY <1>8, <2>1
    <3>2. f \in Block /\ f \in first .. last
      BY <1>1, <3>1
    <3>3. Index(f) = i /\ f = P(g) + Index(f) + FirstDataBlock
      BY <1>5, <2>1, <3>1 DEF i
    <3>4. Index(f) \in 0 .. BlocksPerGroup - 1
      BY <1>0, <1>2, <3>3
    <3> QED
      BY <2>1, <3>1, <3>2, <3>3, <3>4
  <2>2. CASE g # s
    <3>1. f = P(g) + FirstDataBlock /\ f \in Nat
      BY <1>2, <1>5, <1>8, <2>2
    <3>2. s < g /\ g <= e
      BY <1>3, <2>2
    <3> HIDE DEF s, e
    <3>3. first <= f
      <4>1. first = P(s) + i + FirstDataBlock /\ P(s) + BlocksPerGroup <= P(g) /\ P(s) \in Nat /\ P(g) \in Nat
        BY <1>5, <3>2
      <4> HIDE DEF i
      <4> QED
        BY <1>0, <1>2, <3>1, <4>1
    <3>4. P(g) <= P(e)
      <4>1. g = e \/ P(g) + BlocksPerGroup <= P(e)
        BY <1>3, <1>5
      <4> QED
        BY <1>2, <1>5, <4>1
    <3>5. f <= last
      <4>1. last = P(e) + j + FirstDataBlock /\ P(e) \in Nat /\ P(g) \in Nat
        BY <1>5
      <4> HIDE DEF j
      <4> QED
        BY <1>0, <1>2, <3>1, <3>4, <4>1
    <3>6. 0 \in 0 .. Size(g) - 1
      <4>1. CASE g < e
        <5>1. g # Groups - 1
          BY <1>1, <1>2, <1>3, <4>1
        <5> QED
          BY <1>2, <5>1 DEF Size
      <4>2. CASE g = e
        BY <1>1, <1>4, <4>2
      <4> QED
        BY <1>3, <4>1, <4>2
    <3>7. f = g * BlocksPerGroup + 0 + FirstDataBlock
      BY <1>2, <1>5, <3>1 DEF P
    <3>8. f \in Block /\ Home(f) = g /\ Index(f) = 0
      BY <1>3, <3>6, <3>7, AddressOf
    <3>9. f \in first .. last
      BY <1>1, <3>1, <3>3, <3>5
    <3>10. f = P(g) + Index(f) + FirstDataBlock /\ Index(f) \in 0 .. BlocksPerGroup - 1
      <4>1. f = P(g) + 0 + FirstDataBlock
        BY <1>2, <1>5, <3>1
      <4>2. 0 \in 0 .. BlocksPerGroup - 1
        BY <1>2
      <4> QED
        BY <3>8, <4>1, <4>2, Zenon
    <3> QED
      BY <3>8, <3>9, <3>10
  <2> QED
    BY <2>1, <2>2
<1>10. f \in Nat
  BY <1>1, <1>9
<1> HIDE DEF s, e
<1>11. Closed(first, count)[g].idx = Index(f)
       /\ Closed(first, count)[g].n = Min({BlocksPerGroup - Index(f), last + 1 - f})
  <2>1. first + count - f = last + 1 - f
    <3>1. first \in Nat /\ last \in Nat /\ f \in Nat /\ count \in Nat
      BY <1>1, <1>10
    <3> QED
      BY <1>7, <3>1
  <2>2. BitsPerBlock - Index(f) = BlocksPerGroup - Index(f)
    BY <1>2
  <2> QED
    BY <1>6, <2>1, <2>2 DEF Take
<1>12. Min({BlocksPerGroup - Index(f), last + 1 - f}) =
         IF BlocksPerGroup - Index(f) <= last + 1 - f THEN BlocksPerGroup - Index(f) ELSE last + 1 - f
  <2>1. BlocksPerGroup - Index(f) \in Nat
    BY <1>2, <1>9
  <2>2. f <= last /\ last \in Nat
    BY <1>1, <1>9
  <2>3. last + 1 - f \in Nat
    BY <1>10, <2>2
  <2> QED
    BY <2>1, <2>3, LeastOfTwo
<1>13. ASSUME g < e
       PROVE  /\ Closed(first, count)[g].n = BlocksPerGroup - Index(f)
              /\ Begins(first, g + 1) = f + (BlocksPerGroup - Index(f))
  <2>1. f = P(g) + Index(f) + FirstDataBlock /\ Index(f) \in Nat
    BY <1>9
  <2>2. P(g) \in Nat /\ P(e) \in Nat /\ P(g) + BlocksPerGroup <= P(e)
        /\ P(g + 1) = P(g) + BlocksPerGroup /\ last = P(e) + j + FirstDataBlock
    BY <1>5, <1>13
  <2>3. BlocksPerGroup - Index(f) <= last + 1 - f
    <3> HIDE DEF j
    <3> QED
      <4>1. BlocksPerGroup \in Nat /\ FirstDataBlock \in Nat /\ j \in Nat
        BY <1>0, <1>2
      <4> QED
        BY <2>1, <2>2, <4>1, RestOfGroup, Zenon
  <2>4. Begins(first, g + 1) = f + (BlocksPerGroup - Index(f))
    BY <1>2, <1>8, <1>13, <2>1, <2>2
  <2> QED
    BY <1>11, <1>12, <2>3, <2>4
<1>14. Closed(first, count)[g].n = IF BlocksPerGroup - Index(f) <= first + count - f
                                   THEN BlocksPerGroup - Index(f) ELSE first + count - f
  <2>1. first + count - f = last + 1 - f
    <3>1. first \in Nat /\ last \in Nat /\ f \in Nat /\ count \in Nat
      BY <1>1, <1>10
    <3> QED
      BY <1>7, <3>1
  <2> QED
    BY <1>11, <1>12, <2>1
<1> QED
  BY <1>3, <1>9, <1>11, <1>13, <1>14 DEF f, last, s, e

(* The groups come in the order of their blocks. *)
LEMMA HomeOrder ==
  ASSUME OneGroupCount, NEW x \in Block, NEW y \in Block, x <= y
  PROVE  Home(x) <= Home(y)
<1> DEFINE p == Home(x)
           q == Home(y)
           i == Index(x)
           j == Index(y)
<1>1. /\ p \in Group /\ q \in Group
      /\ i \in 0 .. Size(p) - 1 /\ j \in 0 .. Size(q) - 1
      /\ x = p * BlocksPerGroup + i + FirstDataBlock
      /\ y = q * BlocksPerGroup + j + FirstDataBlock
  BY PlaceOf
<1>2. /\ p \in Nat /\ q \in Nat /\ BlocksPerGroup \in Nat /\ FirstDataBlock \in {0, 1}
      /\ Size(p) \in 0 .. BlocksPerGroup /\ Size(q) \in 0 .. BlocksPerGroup
      /\ p * BlocksPerGroup \in Nat /\ q * BlocksPerGroup \in Nat
  BY <1>1, GroupSpan, Volume
<1> HIDE DEF p, q, i, j
<1>3. i \in Nat /\ j \in Nat /\ j < BlocksPerGroup
  BY <1>1, <1>2
<1>4. ASSUME q < p
      PROVE  FALSE
  <2>1. q * BlocksPerGroup + BlocksPerGroup <= p * BlocksPerGroup
    BY <1>2, <1>4, ProductOrder
  <2> QED
    BY <1>1, <1>2, <1>3, <2>1
<1>5. p <= q
  BY <1>2, <1>4
<1> QED
  BY <1>5 DEF p, q

(* Chunks is a recursive function: the closed form satisfies its equation, and
   nothing else does, because the first group where another function differs
   follows one where it does not. *)
LEMMA ChunksOf ==
  ASSUME OneGroupCount, NEW first \in Block, NEW count \in Nat \ {0}, first + count - 1 \in Block
  PROVE  Chunks(first, count) = Closed(first, count)
<1> DEFINE s == Home(first)
           e == Home(first + count - 1)
           Next1(p) == Take(p.first + p.n, p.left - p.n)
           closed == Closed(first, count)
<1>1. s \in Nat /\ e \in Nat /\ first \in Nat /\ count \in Nat
  BY PlaceOf, Volume
<1>2. Chunks(first, count) =
        CHOOSE c : c = [g \in s .. e |-> IF g = s THEN Take(first, count) ELSE Next1(c[g - 1])]
  BY DEF Chunks, Take, Index, Home
<1>3. closed = [g \in s .. e |-> Take(Begins(first, g), first + count - Begins(first, g))]
  BY DEF Closed
<1>4. ASSUME NEW g \in s .. e
      PROVE  closed[g] = IF g = s THEN Take(first, count) ELSE Next1(closed[g - 1])
  <2>1. CASE g = s
    <3>1. Begins(first, g) = first /\ first + count - first = count
      BY <1>1, <2>1 DEF Begins
    <3> QED
      BY <1>3, <2>1, <3>1
  <2>2. CASE g # s
    <3> DEFINE p == closed[g - 1]
               f == Begins(first, g - 1)
    <3>1. g - 1 \in s .. e /\ g - 1 < e /\ (g - 1) + 1 = g
      BY <1>1, <2>2
    <3>2. p.first = f /\ p.left = first + count - f
      BY <1>3, <3>1 DEF Take
    <3>3. Begins(first, g) = f + p.n /\ f \in Nat /\ p.n = BlocksPerGroup - Index(f)
          /\ Index(f) \in Int
      <4>1. /\ f \in Block
            /\ p.n = BlocksPerGroup - Index(f)
            /\ Begins(first, (g - 1) + 1) = f + p.n
        BY <3>1, ClosedOf
      <4> QED
        BY <3>1, <4>1, PlaceOf
    <3>4. first + count - Begins(first, g) = (first + count - f) - p.n
      <4>1. p.n \in Int /\ f \in Int /\ first \in Int /\ count \in Int
        <5>1. BlocksPerGroup \in Int
          BY Volume
        <5> HIDE DEF p, f
        <5> QED
          BY <1>1, <3>3, <5>1
      <4> HIDE DEF p, f
      <4>2. first + count - (f + p.n) = (first + count - f) - p.n
        BY <4>1
      <4> QED
        BY <3>3, <4>2
    <3>5. closed[g] = Take(p.first + p.n, p.left - p.n)
      <4>1. closed[g] = Take(Begins(first, g), first + count - Begins(first, g))
        BY <1>3
      <4> HIDE DEF closed, p, f
      <4> QED
        BY <3>2, <3>3, <3>4, <4>1
    <3> QED
      BY <2>2, <3>5
  <2> QED
    BY <2>1, <2>2
<1>5. closed = [g \in s .. e |-> IF g = s THEN Take(first, count) ELSE Next1(closed[g - 1])]
  BY <1>3, <1>4
<1>6. ASSUME NEW c, c = [g \in s .. e |-> IF g = s THEN Take(first, count) ELSE Next1(c[g - 1])]
      PROVE  c = closed
  <2> DEFINE differ == {g \in s .. e : c[g] # closed[g]}
  <2>1. ASSUME differ # {}
        PROVE  FALSE
    <3>1. differ \in SUBSET Nat
      BY <1>1
    <3>2. Min(differ) \in differ /\ \A g \in differ : Min(differ) <= g
      BY <2>1, <3>1, LeastNatural
    <3> DEFINE g == Min(differ)
    <3>3. g \in s .. e /\ c[g] # closed[g]
      BY <3>2
    <3>4. g # s
      <4>1. s \in s .. e => c[s] = Take(first, count)
        BY <1>6
      <4> QED
        BY <1>4, <3>3, <4>1
    <3>5. g - 1 \in s .. e /\ ~(g <= g - 1)
      BY <1>1, <3>3, <3>4
    <3>6. c[g - 1] = closed[g - 1]
      BY <3>2, <3>5
    <3>7. c[g] = Next1(c[g - 1])
      BY <1>6, <3>3, <3>4
    <3>8. closed[g] = Next1(closed[g - 1])
      BY <1>4, <3>3, <3>4
    <3> QED
      BY <3>3, <3>6, <3>7, <3>8
  <2>2. \A g \in s .. e : c[g] = closed[g]
    BY <2>1
  <2>3. c = [g \in s .. e |-> c[g]]
    BY <1>6
  <2>4. closed = [g \in s .. e |-> closed[g]]
    BY <1>3
  <2> HIDE DEF closed
  <2> QED
    BY <2>2, <2>3, <2>4
<1> HIDE DEF closed, Next1, s, e
<1>7. \E c : c = [g \in s .. e |-> IF g = s THEN Take(first, count) ELSE Next1(c[g - 1])]
  BY <1>5, Zenon
<1> QED
  BY <1>2, <1>6, <1>7 DEF closed

(* The bits a group gives up are those of the blocks of the range. *)
LEMMA ChunkBits ==
  ASSUME OneGroupCount, NEW first \in Block, NEW count \in Nat \ {0},
         first .. first + count - 1 \subseteq Block
  PROVE  LET c == Chunks(first, count)
             S == first .. first + count - 1
         IN /\ DOMAIN c = Home(first) .. Home(first + count - 1)
            /\ DOMAIN c \subseteq Group
            /\ \A g \in DOMAIN c : c[g].idx .. c[g].idx + c[g].n - 1 = Indices(S, g)
            /\ \A g \in Group \ DOMAIN c : Indices(S, g) = {}
<1> DEFINE S == first .. first + count - 1
           last == first + count - 1
           c == Chunks(first, count)
<1>1. first \in Nat /\ last \in Block /\ last \in Nat /\ first <= last
  <2>1. first \in Nat
    BY PlaceOf
  <2>2. last \in S
    BY <2>1
  <2> QED
    BY <2>1, <2>2, PlaceOf
<1>2. c = Closed(first, count)
  BY <1>1, ChunksOf
<1>3. DOMAIN c = Home(first) .. Home(last)
  BY <1>2 DEF Closed
<1>4. Home(first) \in Nat /\ Home(last) \in Nat /\ Home(first) \in Group /\ Home(last) \in Group
      /\ BlocksPerGroup \in Nat \ {0} /\ FirstDataBlock \in {0, 1}
  BY <1>1, PlaceOf, Volume
<1>5. Home(first) .. Home(last) \subseteq Group
  BY <1>4, Volume
<1>6. ASSUME NEW b \in S
      PROVE  Home(b) \in Home(first) .. Home(last)
  <2>1. b \in Block /\ b \in Nat /\ first <= b /\ b <= last
    BY <1>1
  <2>2. \A x, y \in Block : x <= y => Home(x) <= Home(y)
    BY HomeOrder
  <2>3. Home(first) <= Home(b) /\ Home(b) <= Home(last) /\ Home(b) \in Nat
    BY <1>1, <2>1, <2>2, PlaceOf, Volume
  <2> QED
    BY <1>4, <2>3
<1>7. \A g \in Group \ DOMAIN c : Indices(S, g) = {}
  BY <1>3, <1>6 DEF Indices
<1>8. ASSUME NEW g \in DOMAIN c
      PROVE  c[g].idx .. c[g].idx + c[g].n - 1 = Indices(S, g)
  <2> DEFINE f == Begins(first, g)
             n == c[g].n
             P == g * BlocksPerGroup
  <2>1. /\ g \in Group /\ f \in Block /\ Home(f) = g /\ f \in first .. last
        /\ c[g].idx = Index(f)
        /\ n = IF BlocksPerGroup - Index(f) <= first + count - f
               THEN BlocksPerGroup - Index(f) ELSE first + count - f
        /\ g # Home(first) => Index(f) = 0
    <3>1. g \in Home(first) .. Home(first + count - 1) /\ first + count - 1 \in Block
      BY <1>1, <1>3
    <3>2. /\ g \in Group /\ f \in Block /\ Home(f) = g /\ f \in first .. first + count - 1
          /\ Closed(first, count)[g].idx = Index(f)
          /\ Closed(first, count)[g].n = IF BlocksPerGroup - Index(f) <= first + count - f
                                         THEN BlocksPerGroup - Index(f) ELSE first + count - f
          /\ g # Home(first) => Index(f) = 0
      BY <3>1, ClosedOf
    <3> HIDE DEF f, c
    <3> QED
      BY <1>2, <3>2
  <2>2. f = P + Index(f) + FirstDataBlock /\ Index(f) \in Nat /\ P \in Nat /\ f \in Nat
        /\ Index(f) < BlocksPerGroup
    <3>1. f = P + Index(f) + FirstDataBlock /\ Index(f) \in 0 .. Size(g) - 1 /\ f \in Nat
      BY <2>1, PlaceOf
    <3>2. P \in Nat /\ Size(g) \in 0 .. BlocksPerGroup
      BY <2>1, GroupSpan
    <3> QED
      BY <1>4, <3>1, <3>2
  <2>3. g = Home(first) => f = first
    BY DEF Begins
  <2>4. first + count - f = last + 1 - f /\ last + 1 - f \in Nat
    BY <1>1, <2>1, <2>2
  <2> HIDE DEF f, P, last
  <2>5. n \in Nat /\ n <= BlocksPerGroup - Index(f) /\ n <= last + 1 - f
        /\ (n = BlocksPerGroup - Index(f) \/ n = last + 1 - f)
    BY <1>4, <2>1, <2>2, <2>4
  <2> HIDE DEF n
  <2>6. ASSUME NEW x \in Index(f) .. Index(f) + n - 1
        PROVE  x \in Indices(S, g)
    <3> DEFINE b == P + x + FirstDataBlock
    <3>1. x \in Nat /\ Index(f) <= x /\ x < Index(f) + n /\ x < BlocksPerGroup
      BY <1>4, <2>2, <2>5
    <3>2. b \in Nat /\ f <= b /\ b <= last
      BY <1>1, <1>4, <2>2, <2>5, <3>1
    <3>3. b \in S /\ b \in Block
      <4>1. first <= f
        BY <1>1, <2>1, <2>2
      <4>2. b \in S
        BY <1>1, <2>2, <3>2, <4>1 DEF last
      <4> QED
        BY <4>2
    <3>4. Home(b) = g /\ Index(b) = x
      <4>1. b = Home(b) * BlocksPerGroup + Index(b) + FirstDataBlock /\ Home(b) \in Group
            /\ Index(b) \in 0 .. Size(Home(b)) - 1
        BY <3>3, PlaceOf
      <4>2. Index(b) \in 0 .. BlocksPerGroup - 1 /\ Home(b) \in Nat /\ g \in Nat
        <5>1. Size(Home(b)) \in 0 .. BlocksPerGroup
          BY <4>1, GroupSpan
        <5>2. Group \subseteq Nat
          BY Volume
        <5>3. Home(b) \in Nat /\ g \in Nat
          BY <2>1, <4>1, <5>2
        <5>4. Index(b) \in 0 .. BlocksPerGroup - 1
          <6> HIDE DEF b
          <6> QED
            BY <1>4, <4>1, <5>1
        <5> QED
          BY <5>3, <5>4
      <4>3. Home(b) * BlocksPerGroup + Index(b) = P + x
        <5>1. Home(b) * BlocksPerGroup \in Nat
          BY <1>4, <4>2
        <5> HIDE DEF b
        <5>2. b = P + x + FirstDataBlock
          BY DEF b
        <5> QED
          BY <1>4, <2>2, <3>1, <4>1, <4>2, <5>1, <5>2
      <4>4. (Home(b) * BlocksPerGroup + Index(b)) \div BlocksPerGroup = Home(b)
            /\ (Home(b) * BlocksPerGroup + Index(b)) % BlocksPerGroup = Index(b)
        BY <1>4, <4>2, DivModUnique
      <4>5. (P + x) \div BlocksPerGroup = g /\ (P + x) % BlocksPerGroup = x
        <5>1. x \in 0 .. BlocksPerGroup - 1
          BY <1>4, <3>1
        <5> QED
          BY <1>4, <4>2, <5>1, DivModUnique DEF P
      <4> QED
        BY <4>3, <4>4, <4>5
    <3> QED
      BY <3>3, <3>4 DEF Indices
  <2>7. ASSUME NEW x \in Indices(S, g)
        PROVE  x \in Index(f) .. Index(f) + n - 1
    <3>1. PICK b \in S : Home(b) = g /\ Index(b) = x
      BY <2>7 DEF Indices
    <3>2. b \in Block /\ b \in Nat /\ first <= b /\ b <= last
      BY <1>1, <3>1 DEF last
    <3>3. b = P + x + FirstDataBlock /\ x \in Nat /\ x < BlocksPerGroup
      <4>1. b = P + x + FirstDataBlock /\ x \in 0 .. Size(g) - 1
        BY <3>1, <3>2, PlaceOf DEF P
      <4>2. Size(g) \in 0 .. BlocksPerGroup
        BY <2>1, GroupSpan
      <4> QED
        BY <1>4, <4>1, <4>2
    <3>4. Index(f) <= x
      <4>1. CASE g = Home(first)
        BY <1>1, <1>4, <2>2, <2>3, <3>2, <3>3, <4>1
      <4>2. CASE g # Home(first)
        BY <2>1, <3>3, <4>2
      <4> QED
        BY <4>1, <4>2
    <3>5. x <= Index(f) + n - 1
      <4>1. n = BlocksPerGroup - Index(f) \/ n = last + 1 - f
        BY <2>5
      <4>2. CASE n = BlocksPerGroup - Index(f)
        <5>1. Index(f) \in Nat /\ BlocksPerGroup \in Nat
          BY <1>4, <2>2
        <5>2. Index(f) + (BlocksPerGroup - Index(f)) - 1 = BlocksPerGroup - 1
          BY <5>1
        <5> QED
          BY <3>3, <4>2, <5>1, <5>2
      <4>3. CASE n = last + 1 - f
        <5>1. P \in Nat /\ Index(f) \in Nat /\ f = P + Index(f) + FirstDataBlock
              /\ FirstDataBlock \in Nat /\ last \in Int
          BY <1>1, <1>4, <2>2
        <5> QED
          BY <3>2, <3>3, <4>3, <5>1, LastOfRange, Zenon
      <4> QED
        BY <4>1, <4>2, <4>3
    <3> QED
      BY <2>2, <2>5, <3>3, <3>4, <3>5
  <2> QED
    BY <2>1, <2>6, <2>7 DEF n, f
<1> QED
  BY <1>3, <1>5, <1>7, <1>8

-----------------------------------------------------------------------------
(* The steps.  One that hands out nothing keeps the invariant when it marks
   bits only where it reports a failure. *)
LEMMA NothingGiven ==
  ASSUME OneGroupCount, IInv, UNCHANGED own, failed' \in BOOLEAN, failed => failed',
         \A k \in Group : Bits(k) \subseteq Bits(k)',
         ~failed' => \A k \in Group : Bits(k)' = Bits(k)
  PROVE  IInv'
<1>1. own' \in [Inode -> SUBSET Block]
  BY DEF IInv
<1>2. HeaderMarked' /\ NoSharing'
  BY MarkedMore DEF IInv
<1>3. ASSUME ~failed'
      PROVE  Tight'
  <2>1. Tight /\ Held' = Held /\ \A k \in Group : Bits(k)' = Bits(k)
    BY <1>3 DEF IInv, Held
  <2> QED
    BY <2>1 DEF Tight, Indices, ext4_fs_init_block_bitmap, Index, Home
<1> QED
  BY <1>1, <1>2, <1>3 DEF IInv, Block, NoSharing

(* A block whose bit was clear goes to an inode. *)
LEMMA OneGiven ==
  ASSUME OneGroupCount, IInv, UNCHANGED failed,
         NEW o \in Inode, NEW b \in Block, Index(b) \notin Bits(Home(b)),
         own' = [own EXCEPT ![o] = @ \cup {b}],
         \A k \in Group : Bits(k)' = IF k = Home(b) THEN Bits(k) \cup {Index(b)} ELSE Bits(k)
  PROVE  IInv'
<1>1. own \in [Inode -> SUBSET Block] /\ HeaderMarked /\ NoSharing /\ (~failed => Tight) /\ failed \in BOOLEAN
  BY DEF IInv
<1>2. own' \in [Inode -> SUBSET Block] /\ HeaderMarked' /\ NoSharing' /\ (Tight => Tight')
  BY <1>1, BlockGiven
<1>3. ~failed' => Tight'
  BY <1>1, <1>2
<1> QED
  BY <1>1, <1>2, <1>3 DEF IInv, Block

(* Blocks leave an inode, and their bits are cleared unless the step fails. *)
LEMMA SomeTaken ==
  ASSUME OneGroupCount, IInv, failed' \in BOOLEAN, failed => failed',
         NEW o \in Inode, NEW gone \in SUBSET own[o],
         own' = [own EXCEPT ![o] = @ \ gone],
         \A k \in Group : Bits(k) \ Indices(gone, k) \subseteq Bits(k)',
         ~failed' => \A k \in Group : Bits(k)' = Bits(k) \ Indices(gone, k)
  PROVE  IInv'
<1>1. own \in [Inode -> SUBSET Block] /\ HeaderMarked /\ NoSharing /\ (~failed => Tight)
  BY DEF IInv
<1>2. /\ own' \in [Inode -> SUBSET Block] /\ HeaderMarked' /\ NoSharing'
      /\ Tight /\ (\A k \in Group : Bits(k)' = Bits(k) \ Indices(gone, k)) => Tight'
  BY <1>1, BlocksTaken
<1>3. ~failed' => Tight'
  BY <1>1, <1>2
<1> QED
  BY <1>2, <1>3 DEF IInv, Block

(* The group and the bit the search begins at. *)
LEMMA GoalPlace ==
  ASSUME OneGroupCount, NEW goal \in Goals
  PROVE  Home(goal) \in Nat /\ Index(goal) \in 0 .. BlocksPerGroup - 1
<1>1. InGroups(goal) \in Nat
  BY BallocAssumption, Volume DEF InGroups
<1>2. /\ InGroups(goal) \div BlocksPerGroup \in Nat
      /\ InGroups(goal) % BlocksPerGroup \in 0 .. BlocksPerGroup - 1
  BY <1>1, Volume, DivMod
<1>3. (InGroups(goal) \div BlocksPerGroup) % Word \in 0 .. Word - 1
  BY <1>2, Volume, DivMod
<1>4. (InGroups(goal) \div BlocksPerGroup) % Word \in Nat
  BY <1>3, Volume
<1> QED
  BY <1>2, <1>4 DEF Home, Index, ext4_balloc_get_bgid_of_block, ext4_fs_addr_to_idx_bg

(* What marking a found bit does. *)
LEMMA MarkedBits ==
  ASSUME OneGroupCount, NEW h, Marked(h), h.idx \in 0 .. BlocksPerGroup - 1, NEW k \in Group
  PROVE  Bits(k)' = IF k = h.bg THEN Bits(k) \cup {h.idx} ELSE Bits(k)
<1>1. {h.idx} \cap (0 .. BitsPerBlock - 1) = {h.idx}
  BY Volume
<1>2. Bits(k)' = IF k = h.bg THEN Bits(h.bg) \cup ({h.idx} \cap (0 .. BitsPerBlock - 1)) ELSE Bits(k)
  BY BitsRewritten DEF Marked
<1> QED
  BY <1>1, <1>2

(* ext4_balloc_alloc_block hands out a block nobody has, on each of its
   outcomes. *)
LEMMA AllocKeeps ==
  ASSUME OneGroupCount, GoalsInside, IInv, NEW o \in Inode, NEW goal \in Goals,
         ext4_balloc_alloc_block(o, goal)
  PROVE  IInv'
<1> DEFINE bg == Home(goal)
           idx == Index(goal)
<1>0. failed \in BOOLEAN
  BY DEF IInv
<1>1. bg \in Nat /\ idx \in 0 .. BlocksPerGroup - 1 /\ (bg \in Group => idx <= ext4_blocks_in_group_cnt(bg))
  BY GoalPlace DEF GoalsInside
<1>2. ASSUME NEW S, Referenced(S), UNCHANGED own, failed' \in BOOLEAN, failed => failed'
      PROVE  IInv'
  BY <1>2, BitsReferenced, NothingGiven
<1>3. ASSUME NEW h \in Searches(bg, idx), h.idx # None, Marked(h), UNCHANGED own, failed' = TRUE
      PROVE  IInv'
  <2>1. h.idx \in 0 .. BlocksPerGroup - 1
    BY <1>1, <1>3, SearchFinds
  <2>2. \A k \in Group : Bits(k) \subseteq Bits(k)'
    BY <1>3, <2>1, MarkedBits
  <2> QED
    BY <1>3, <2>2, NothingGiven
<1>4. ASSUME NEW h \in Searches(bg, idx), h.idx # None, Marked(h), UNCHANGED failed,
             own' = [own EXCEPT ![o] = @ \cup {ext4_fs_bg_idx_to_addr(h.idx, h.bg)}]
      PROVE  IInv'
  <2> DEFINE b == ext4_fs_bg_idx_to_addr(h.idx, h.bg)
  <2>1. h.bg \in Group /\ h.idx \in 0 .. BlocksPerGroup - 1 /\ h.idx \notin Bits(h.bg)
    BY <1>1, <1>4, SearchFinds
  <2>2. HeaderMarked
    BY DEF IInv
  <2>3. h.idx \in 0 .. Size(h.bg) - 1
    BY <2>1, <2>2, ClearIsBlock
  <2>4. b \in Block /\ Home(b) = h.bg /\ Index(b) = h.idx
    BY <2>1, <2>3, AddressOf
  <2>5. \A k \in Group : Bits(k)' = IF k = Home(b) THEN Bits(k) \cup {Index(b)} ELSE Bits(k)
    BY <1>4, <2>1, <2>4, MarkedBits
  <2>6. own' = [own EXCEPT ![o] = @ \cup {b}] /\ Index(b) \notin Bits(Home(b))
    BY <1>4, <2>1, <2>4
  <2> HIDE DEF b
  <2> QED
    BY <1>4, <2>4, <2>5, <2>6, OneGiven
<1>5. CASE UNCHANGED <<used, uninit, free, sbFree, blocks, own>> /\ Returns("EIO", FALSE)
  <2>1. \A k \in Group : Bits(k)' = Bits(k)
    BY <1>5 DEF Bits
  <2> QED
    BY <1>0, <1>5, <2>1, NothingGiven DEF Returns
<1>6. CASE \E h \in Searches(bg, idx) :
             \/ h.idx = None /\ Referenced(h.seen) /\ Returns("ENOSPC", FALSE) /\ UNCHANGED own
             \/ /\ h.idx # None
                /\ Marked(h)
                /\ \/ /\ Returns("EOK", FALSE)
                      /\ own' = [own EXCEPT ![o] = @ \cup {ext4_fs_bg_idx_to_addr(h.idx, h.bg)}]
                   \/ Returns("EIO", TRUE) /\ UNCHANGED own
             \/ (\E S \in SUBSET h.seen : Referenced(S)) /\ Returns("EIO", TRUE) /\ UNCHANGED own
  <2>1. PICK h \in Searches(bg, idx) :
             \/ h.idx = None /\ Referenced(h.seen) /\ Returns("ENOSPC", FALSE) /\ UNCHANGED own
             \/ /\ h.idx # None
                /\ Marked(h)
                /\ \/ /\ Returns("EOK", FALSE)
                      /\ own' = [own EXCEPT ![o] = @ \cup {ext4_fs_bg_idx_to_addr(h.idx, h.bg)}]
                   \/ Returns("EIO", TRUE) /\ UNCHANGED own
             \/ (\E S \in SUBSET h.seen : Referenced(S)) /\ Returns("EIO", TRUE) /\ UNCHANGED own
    BY <1>6
  <2>2. CASE h.idx = None /\ Referenced(h.seen) /\ Returns("ENOSPC", FALSE) /\ UNCHANGED own
    <3>1. (failed' <=> failed) /\ failed' \in BOOLEAN
      BY <1>0, <2>2 DEF Returns
    <3> QED
      BY <1>2, <2>2, <3>1
  <2>3. CASE h.idx # None /\ Marked(h) /\ Returns("EIO", TRUE) /\ UNCHANGED own
    BY <1>3, <2>3 DEF Returns
  <2>4. CASE /\ h.idx # None /\ Marked(h) /\ Returns("EOK", FALSE)
             /\ own' = [own EXCEPT ![o] = @ \cup {ext4_fs_bg_idx_to_addr(h.idx, h.bg)}]
    <3>1. failed' = failed
      BY <1>0, <2>4 DEF Returns
    <3> QED
      BY <1>4, <2>4, <3>1
  <2>5. CASE (\E S \in SUBSET h.seen : Referenced(S)) /\ Returns("EIO", TRUE) /\ UNCHANGED own
    <3>1. failed' = TRUE
      BY <2>5 DEF Returns
    <3> QED
      BY <1>2, <2>5, <3>1
  <2> QED
    BY <2>1, <2>2, <2>3, <2>4, <2>5
<1> QED
  BY <1>5, <1>6 DEF ext4_balloc_alloc_block, Home, Index

(* ext4_balloc_try_alloc_block hands out the block asked for only if nobody
   has it. *)
LEMMA TryAllocKeeps ==
  ASSUME OneGroupCount, IInv, NEW o \in Inode, NEW b \in Block, ext4_balloc_try_alloc_block(o, b)
  PROVE  IInv'
<1> DEFINE h == [bg |-> Home(b), idx |-> Index(b), seen |-> {Home(b)}]
<1>0. failed \in BOOLEAN
  BY DEF IInv
<1>1. Home(b) \in Group /\ Index(b) \in 0 .. BlocksPerGroup - 1
  <2>1. Home(b) \in Group /\ Index(b) \in 0 .. Size(Home(b)) - 1
    BY PlaceOf
  <2> QED
    BY <2>1, SlotInGroup
<1>2. ASSUME NEW S, Referenced(S), UNCHANGED own, failed' \in BOOLEAN, failed => failed'
      PROVE  IInv'
  BY <1>2, BitsReferenced, NothingGiven
<1>3. ASSUME Marked(h), NEW k \in Group
      PROVE  Bits(k)' = IF k = Home(b) THEN Bits(k) \cup {Index(b)} ELSE Bits(k)
  <2>1. h.bg = Home(b) /\ h.idx = Index(b) /\ h.idx \in 0 .. BlocksPerGroup - 1
    BY <1>1
  <2> HIDE DEF h
  <2> QED
    BY <1>3, <2>1, MarkedBits
<1>4. \/ /\ Index(b) \notin Bits(Home(b)) /\ Marked(h)
         /\ \/ Returns("EOK", FALSE) /\ own' = [own EXCEPT ![o] = @ \cup {b}]
            \/ Returns("EIO", TRUE) /\ UNCHANGED own
      \/ Referenced({Home(b)}) /\ Returns("EOK", FALSE) /\ UNCHANGED own
      \/ (\E S \in SUBSET {Home(b)} : Referenced(S)) /\ Returns("EIO", TRUE) /\ UNCHANGED own
  BY DEF ext4_balloc_try_alloc_block, Home, Index
<1> HIDE DEF h
<1>5. CASE /\ Index(b) \notin Bits(Home(b)) /\ Marked(h)
           /\ Returns("EOK", FALSE) /\ own' = [own EXCEPT ![o] = @ \cup {b}]
  <2>1. failed' = failed
    BY <1>0, <1>5 DEF Returns
  <2> QED
    BY <1>3, <1>5, <2>1, OneGiven
<1>6. CASE Index(b) \notin Bits(Home(b)) /\ Marked(h) /\ Returns("EIO", TRUE) /\ UNCHANGED own
  <2>1. failed' = TRUE
    BY <1>6 DEF Returns
  <2>2. \A k \in Group : Bits(k) \subseteq Bits(k)'
    BY <1>3, <1>6
  <2> QED
    BY <1>6, <2>1, <2>2, NothingGiven
<1>7. CASE Referenced({Home(b)}) /\ Returns("EOK", FALSE) /\ UNCHANGED own
  <2>1. (failed' <=> failed) /\ failed' \in BOOLEAN
    BY <1>0, <1>7 DEF Returns
  <2> QED
    BY <1>2, <1>7, <2>1
<1>8. CASE (\E S \in SUBSET {Home(b)} : Referenced(S)) /\ Returns("EIO", TRUE) /\ UNCHANGED own
  <2>1. failed' = TRUE
    BY <1>8 DEF Returns
  <2> QED
    BY <1>2, <1>8, <2>1
<1> QED
  BY <1>4, <1>5, <1>6, <1>7, <1>8

(* ext4_balloc_free_block clears the bit of the block and no other. *)
LEMMA FreeBlockKeeps ==
  ASSUME OneGroupCount, IInv, NEW o \in Inode, NEW b \in own[o], ext4_balloc_free_block(o, b)
  PROVE  IInv'
<1> DEFINE bg == Home(b)
<1>0. failed \in BOOLEAN /\ b \in Block
  BY DEF IInv
<1>1. own' = [own EXCEPT ![o] = @ \ {b}] /\ {b} \in SUBSET own[o]
  BY DEF ext4_balloc_free_block
<1>2. \A k : Indices({b}, k) = IF k = bg THEN {Index(b)} ELSE {}
  BY DEF Indices
<1>3. \/ /\ Rewritten({bg}, bg, Bits(bg) \ {Index(b)})
         /\ (Returns("EOK", FALSE) \/ Returns("EIO", TRUE))
      \/ Referenced({bg}) /\ Returns("EIO", TRUE)
  BY DEF ext4_balloc_free_block, Home, Index
<1> HIDE DEF bg
<1>4. CASE Rewritten({bg}, bg, Bits(bg) \ {Index(b)}) /\ (Returns("EOK", FALSE) \/ Returns("EIO", TRUE))
  <2>1. failed' \in BOOLEAN /\ (failed => failed')
    BY <1>0, <1>4 DEF Returns
  <2>2. \A k \in Group : Bits(k)' = Bits(k) \ Indices({b}, k)
    BY <1>2, <1>4, BitsRewritten
  <2> QED
    BY <1>1, <2>1, <2>2, SomeTaken
<1>5. CASE Referenced({bg}) /\ Returns("EIO", TRUE)
  <2>1. failed' = TRUE
    BY <1>5 DEF Returns
  <2>2. \A k \in Group : Bits(k)' = Bits(k)
    BY <1>5, BitsReferenced
  <2> QED
    BY <1>1, <2>1, <2>2, SomeTaken
<1> QED
  BY <1>3, <1>4, <1>5

(* The bitmaps after Freed: those of the groups of B have lost their part. *)
LEMMA FreedBits ==
  ASSUME NEW o, NEW chunk, NEW B, NEW C, Freed(o, chunk, B, C), NEW k \in Group
  PROVE  Bits(k)' = IF k \in B THEN Bits(k) \ (chunk[k].idx .. chunk[k].idx + chunk[k].n - 1) ELSE Bits(k)
<1>1. used' = [g \in Group |-> IF g \in B THEN ext4_bmap_bits_free(Bits(g), chunk[g].idx, chunk[g].n)
                               ELSE used[g]]
      /\ uninit' = uninit \ B
  BY DEF Freed
<1>2. CASE k \in B
  <2>1. Bits(k)' = ext4_bmap_bits_free(Bits(k), chunk[k].idx, chunk[k].n)
    BY <1>1, <1>2 DEF Bits
  <2> QED
    BY <1>2, <2>1 DEF ext4_bmap_bits_free
<1>3. CASE k \notin B
  BY <1>1, <1>3 DEF Bits, ext4_fs_init_block_bitmap
<1> QED
  BY <1>2, <1>3

(* How ext4_balloc_free_blocks ends: all chunks are freed, or some and the
   failure is remembered. *)
BrokeOff == ret' # "ENOSPC" /\ failed' = TRUE

LEMMA FreeBlocksEnds ==
  ASSUME NEW o, NEW first, NEW count, ext4_balloc_free_blocks(o, first, count),
         NEW c, c = Chunks(first, count)
  PROVE  \/ Freed(o, c, DOMAIN c, DOMAIN c) /\ Returns("EOK", FALSE)
         \/ BrokeOff /\ \E B \in SUBSET DOMAIN c, C \in SUBSET DOMAIN c : Freed(o, c, B, C)
<1> DEFINE upTo(g) == {k \in DOMAIN c : k <= g}
<1>1. \A g \in DOMAIN c : upTo(g) \in SUBSET DOMAIN c /\ upTo(g) \ {g} \in SUBSET DOMAIN c
  OBVIOUS
<1>2. \/ Freed(o, c, DOMAIN c, DOMAIN c) /\ (Returns("EOK", FALSE) \/ Returns("EIO", TRUE))
      \/ \E g \in DOMAIN c :
           \/ Returns("EIO", TRUE) /\ (\/ Freed(o, c, upTo(g) \ {g}, upTo(g) \ {g})
                                      \/ Freed(o, c, upTo(g), upTo(g) \ {g}))
           \/ Returns(Unreported(c, g), TRUE) /\ Freed(o, c, upTo(g), upTo(g))
  BY DEF ext4_balloc_free_blocks
<1>3. ASSUME NEW r, r # "ENOSPC", Returns(r, TRUE)
      PROVE  BrokeOff
  BY <1>3 DEF Returns, BrokeOff
<1>4. \A g : Unreported(c, g) # "ENOSPC"
  BY DEF Unreported
<1> HIDE DEF upTo
<1>5. CASE Freed(o, c, DOMAIN c, DOMAIN c) /\ (Returns("EOK", FALSE) \/ Returns("EIO", TRUE))
  <2>1. CASE Returns("EIO", TRUE)
    BY <1>3, <1>5, <2>1
  <2> QED
    BY <1>5, <2>1
<1>6. CASE \E g \in DOMAIN c :
             \/ Returns("EIO", TRUE) /\ (\/ Freed(o, c, upTo(g) \ {g}, upTo(g) \ {g})
                                        \/ Freed(o, c, upTo(g), upTo(g) \ {g}))
             \/ Returns(Unreported(c, g), TRUE) /\ Freed(o, c, upTo(g), upTo(g))
  <2>1. BrokeOff
    BY <1>3, <1>4, <1>6
  <2>2. \E B \in SUBSET DOMAIN c, C \in SUBSET DOMAIN c : Freed(o, c, B, C)
    BY <1>1, <1>6
  <2> QED
    BY <2>1, <2>2
<1> QED
  BY <1>2, <1>5, <1>6

(* ext4_balloc_free_blocks clears the bits of its range and no other, chunk
   after chunk, until one fails. *)
LEMMA FreeBlocksKeeps ==
  ASSUME OneGroupCount, IInv, NEW o \in Inode, NEW first \in own[o],
         NEW count \in 1 .. Cardinality(own[o]), count \in Nat,
         ext4_balloc_free_blocks(o, first, count)
  PROVE  IInv'
<1> DEFINE S == first .. first + count - 1
           c == Chunks(first, count)
<1>0. failed \in BOOLEAN /\ first \in Block /\ own[o] \subseteq Block /\ count \in Nat \ {0}
  <2>1. count # 0
    <3>1. \A n \in Int : 0 \notin 1 .. n
      OBVIOUS
    <3> QED
      BY DEF IInv
  <2> QED
    BY <2>1 DEF IInv
<1>1. S \in SUBSET own[o] /\ own' = [own EXCEPT ![o] = @ \ S]
  BY DEF ext4_balloc_free_blocks
<1>2. /\ \A g \in DOMAIN c : c[g].idx .. c[g].idx + c[g].n - 1 = Indices(S, g)
      /\ \A g \in Group \ DOMAIN c : Indices(S, g) = {}
  BY <1>0, <1>1, ChunkBits
<1>3. \/ Freed(o, c, DOMAIN c, DOMAIN c) /\ Returns("EOK", FALSE)
      \/ BrokeOff /\ \E B \in SUBSET DOMAIN c, C \in SUBSET DOMAIN c : Freed(o, c, B, C)
  BY FreeBlocksEnds
<1> HIDE DEF c, S
<1>4. CASE Freed(o, c, DOMAIN c, DOMAIN c) /\ Returns("EOK", FALSE)
  <2>1. failed' = failed
    BY <1>0, <1>4 DEF Returns
  <2>2. ASSUME NEW k \in Group
        PROVE  Bits(k)' = Bits(k) \ Indices(S, k)
    <3>1. Bits(k)' = IF k \in DOMAIN c THEN Bits(k) \ (c[k].idx .. c[k].idx + c[k].n - 1) ELSE Bits(k)
      BY <1>4, FreedBits
    <3>2. CASE k \in DOMAIN c
      <4>1. c[k].idx .. c[k].idx + c[k].n - 1 = Indices(S, k)
        BY <1>2, <3>2
      <4> QED
        BY <3>1, <3>2, <4>1
    <3>3. CASE k \notin DOMAIN c
      <4>1. Indices(S, k) = {}
        BY <1>2, <3>3
      <4> QED
        BY <3>1, <3>3, <4>1
    <3> QED
      BY <3>2, <3>3
  <2> QED
    BY <1>0, <1>1, <2>1, <2>2, SomeTaken
<1>5. CASE BrokeOff /\ \E B \in SUBSET DOMAIN c, C \in SUBSET DOMAIN c : Freed(o, c, B, C)
  <2>1. failed' = TRUE
    BY <1>5 DEF BrokeOff
  <2>2. PICK B \in SUBSET DOMAIN c, C \in SUBSET DOMAIN c : Freed(o, c, B, C)
    BY <1>5
  <2>3. ASSUME NEW k \in Group
        PROVE  Bits(k) \ Indices(S, k) \subseteq Bits(k)'
    <3>1. Bits(k)' = IF k \in B THEN Bits(k) \ (c[k].idx .. c[k].idx + c[k].n - 1) ELSE Bits(k)
      BY <2>2, FreedBits
    <3>2. CASE k \in B
      <4>1. c[k].idx .. c[k].idx + c[k].n - 1 = Indices(S, k)
        BY <1>2, <2>2, <3>2
      <4> QED
        BY <3>1, <3>2, <4>1
    <3> QED
      BY <3>1, <3>2
  <2> QED
    BY <1>1, <2>1, <2>3, SomeTaken
<1> QED
  BY <1>3, <1>4, <1>5

-----------------------------------------------------------------------------
(* After mkfs the bitmap of every group is as the driver makes it up. *)
LEMMA InitKeeps ==
  ASSUME OneGroupCount, Init
  PROVE  IInv
<1>1. ASSUME NEW g \in Group
      PROVE  Bits(g) = ext4_fs_init_block_bitmap(g)
  <2>1. g < Groups
    BY Volume
  <2> QED
    BY <2>1 DEF Init, Bits
<1>2. own = [o \in Inode |-> {}] /\ failed = FALSE
  BY DEF Init
<1>3. HeaderMarked
  BY <1>1 DEF HeaderMarked
<1>4. Held = {}
  BY <1>2 DEF Held
<1>5. Tight
  BY <1>1, <1>4 DEF Tight, Indices
<1>6. NoSharing
  BY <1>2 DEF NoSharing
<1> QED
  BY <1>2, <1>3, <1>5, <1>6 DEF IInv

(* Every step keeps the invariant. *)
LEMMA NextKeeps ==
  ASSUME OneGroupCount, GoalsInside, IInv, [Next]_vars
  PROVE  IInv'
<1>1. CASE Next
  <2>1. PICK o \in Inode :
          \/ \E goal \in Goals : ext4_balloc_alloc_block(o, goal)
          \/ \E b \in Block : ext4_balloc_try_alloc_block(o, b)
          \/ \E b \in own[o] : ext4_balloc_free_block(o, b)
          \/ \E first \in own[o], count \in 1 .. Cardinality(own[o]) : ext4_balloc_free_blocks(o, first, count)
    BY <1>1 DEF Next
  <2>2. CASE \E goal \in Goals : ext4_balloc_alloc_block(o, goal)
    BY <2>2, AllocKeeps
  <2>3. CASE \E b \in Block : ext4_balloc_try_alloc_block(o, b)
    BY <2>3, TryAllocKeeps
  <2>4. CASE \E b \in own[o] : ext4_balloc_free_block(o, b)
    BY <2>4, FreeBlockKeeps
  <2>5. CASE \E first \in own[o], count \in 1 .. Cardinality(own[o]) : ext4_balloc_free_blocks(o, first, count)
    <3>1. own[o] \subseteq Block
      BY DEF IInv
    <3>2. IsFiniteSet(Block)
      <4>1. FirstDataBlock \in Int /\ LenBlocks - 1 \in Int
        BY Volume
      <4>2. IsFiniteSet(FirstDataBlock .. LenBlocks - 1)
        BY <4>1, FS_Interval
      <4> QED
        BY <4>2 DEF Block
    <3>3. Cardinality(own[o]) \in Nat
      BY <3>1, <3>2, FS_Subset, FS_CardinalityType
    <3>4. \A count \in 1 .. Cardinality(own[o]) : count \in Nat
      BY <3>3
    <3> QED
      BY <2>5, <3>4, FreeBlocksKeeps
  <2> QED
    BY <2>1, <2>2, <2>3, <2>4, <2>5
<1>2. CASE UNCHANGED vars
  <2>1. UNCHANGED own /\ UNCHANGED failed /\ \A k \in Group : Bits(k)' = Bits(k)
    BY <1>2 DEF vars, Bits
  <2>2. failed' \in BOOLEAN
    BY <2>1 DEF IInv
  <2> QED
    BY <2>1, <2>2, NothingGiven
<1> QED
  BY <1>1, <1>2

(* Whatever fails half-way, no block of the volume is ever in two inodes or in
   an inode and the file system's own, on any volume mkfs makes and for any
   goals but those behind the end of the last group (ext4_balloc_alloc_block,
   ext4_balloc_try_alloc_block, ext4_balloc_free_block,
   ext4_balloc_free_blocks). *)
THEOREM BlocksNotShared ==
  ASSUME OneGroupCount, GoalsInside
  PROVE  Spec => []NoSharing
<1>1. Init => IInv
  BY InitKeeps
<1>2. IInv /\ [Next]_vars => IInv'
  BY NextKeeps
<1>3. IInv => NoSharing
  BY DEF IInv
<1> QED
  BY <1>1, <1>2, <1>3, PTL DEF Spec

(* No block is lost either, until an operation fails half-way: a bit of a
   bitmap is set for the file system's own blocks and those of the inodes
   only; ext4_balloc_free_blocks clears the bits of every group its range
   reaches into, and no others. *)
THEOREM BlocksNotLost ==
  ASSUME OneGroupCount, GoalsInside
  PROVE  Spec => []NoLeak
<1>1. Init => IInv
  BY InitKeeps
<1>2. IInv /\ [Next]_vars => IInv'
  BY NextKeeps
<1>3. IInv => NoLeak
  BY DEF IInv, NoLeak, Tight, Indices, Held
<1> QED
  BY <1>1, <1>2, <1>3, PTL DEF Spec

-----------------------------------------------------------------------------
(* The free counts.  mkfs counts the blocks of a last group that is not whole
   as if it were, so they are right only on a volume of whole groups, each of
   which has room for its header and inode table. *)
WholeGroups ==
  /\ DeviceLen % BlocksPerGroup = 0
  /\ 2 * FirstDataBlock + DescBlocks + 4 + InodeTableBlocks <= BlocksPerGroup

(* Three runs of bits, one behind the other. *)
Runs(a, b, c, d, n) == (0 .. a - 1) \cup (b .. c - 1) \cup (d .. n - 1)

(* How many bits they have. *)
LEMMA ThreeRuns ==
  ASSUME NEW a \in Nat, NEW b \in Nat, NEW c \in Nat, NEW d \in Nat, NEW n \in Nat,
         a <= b, b <= c, c <= d, d <= n
  PROVE  Cardinality(Runs(a, b, c, d, n)) = a + (c - b) + (n - d)
<1> DEFINE A == 0 .. a - 1
           M == b .. c - 1
           Z == d .. n - 1
<1>1. ASSUME NEW x \in Nat, NEW y \in Nat, x <= y
      PROVE  IsFiniteSet(x .. y - 1) /\ Cardinality(x .. y - 1) = y - x
  <2>1. x \in Int /\ y - 1 \in Int
    OBVIOUS
  <2>2. IsFiniteSet(x .. y - 1) /\ Cardinality(x .. y - 1) = IF x > y - 1 THEN 0 ELSE (y - 1) - x + 1
    BY <2>1, FS_Interval
  <2>3. (IF x > y - 1 THEN 0 ELSE (y - 1) - x + 1) = y - x
    BY <1>1
  <2> QED
    BY <2>2, <2>3
<1>2. IsFiniteSet(A) /\ Cardinality(A) = a
  <2>1. 0 \in Nat /\ 0 <= a /\ a - 0 = a
    OBVIOUS
  <2>2. IsFiniteSet(A) /\ Cardinality(A) = a - 0
    BY <1>1, <2>1
  <2> QED
    BY <2>1, <2>2
<1>3. IsFiniteSet(M) /\ Cardinality(M) = c - b /\ IsFiniteSet(Z) /\ Cardinality(Z) = n - d
  BY <1>1
<1>4. A \cap M = {} /\ (A \cup M) \cap Z = {}
  OBVIOUS
<1> HIDE DEF A, M, Z
<1>5. IsFiniteSet(A \cup M) /\ Cardinality(A \cup M) = a + (c - b)
  <2>1. IsFiniteSet(A \cup M) /\ Cardinality(A \cup M) = Cardinality(A) + Cardinality(M) - Cardinality(A \cap M)
    BY <1>2, <1>3, FS_Union
  <2>2. Cardinality(A \cap M) = 0
    BY <1>4, FS_EmptySet
  <2>3. Cardinality(A) \in Nat /\ c - b \in Nat
    BY <1>2
  <2> QED
    BY <1>2, <1>3, <2>1, <2>2, <2>3
<1>6. Cardinality((A \cup M) \cup Z) = a + (c - b) + (n - d)
  <2>1. Cardinality((A \cup M) \cup Z) = Cardinality(A \cup M) + Cardinality(Z) - Cardinality((A \cup M) \cap Z)
    BY <1>3, <1>5, FS_Union
  <2>2. Cardinality((A \cup M) \cap Z) = 0
    BY <1>4, FS_EmptySet
  <2>3. n - d \in Nat /\ a + (c - b) \in Nat
    OBVIOUS
  <2> QED
    BY <1>3, <1>5, <2>1, <2>2, <2>3
<1> QED
  BY <1>6 DEF A, M, Z, Runs

(* On such a volume the groups of mkfs are those of the driver. *)
LEMMA WholeVolume ==
  ASSUME WholeGroups
  PROVE  /\ OneGroupCount
         /\ ~LastTooSmall
         /\ LenBlocks = (Groups - 1) * BlocksPerGroup + BlocksPerGroup
         /\ \A g \in Group : ext4_blocks_in_group_cnt(g) = BlocksPerGroup
         /\ GoalsInside
<1>1. OneGroupCount /\ ~LastTooSmall
  BY DEF WholeGroups, OneGroupCount, LastTooSmall
<1> DEFINE q == DeviceLen \div BlocksPerGroup
           G == Groups - 1
<1>2. LenBlocks = DeviceLen /\ DeviceLen \in Nat /\ BlocksPerGroup \in Nat \ {0} /\ G \in Nat /\ Groups = G + 1
  <2>1. LenBlocks = DeviceLen
    BY <1>1 DEF LenBlocks
  <2>2. DeviceLen \in Nat /\ BlocksPerGroup \in Nat \ {0}
    BY LayoutAssumption
  <2>3. Groups \in Nat \ {0}
    BY <1>1, Volume
  <2> QED
    BY <2>1, <2>2, <2>3
<1>3. q \in Nat /\ DeviceLen = q * BlocksPerGroup
  <2>1. q \in Nat /\ DeviceLen = q * BlocksPerGroup + (DeviceLen % BlocksPerGroup)
    BY <1>2, DivMod
  <2>2. DeviceLen % BlocksPerGroup = 0
    BY DEF WholeGroups
  <2>3. q * BlocksPerGroup \in Nat
    BY <1>2, <2>1, ProductAtLeast
  <2> HIDE DEF q
  <2> QED
    BY <2>1, <2>2, <2>3
<1>4. G * BlocksPerGroup \in Nat /\ q * BlocksPerGroup \in Nat
  BY <1>2, <1>3, ProductAtLeast
<1>5. G * BlocksPerGroup < q * BlocksPerGroup /\ q * BlocksPerGroup <= G * BlocksPerGroup + BlocksPerGroup
  BY <1>1, <1>2, <1>3, Volume
<1> HIDE DEF q, G
<1>6. ~(q <= G)
  <2>1. q < G => q * BlocksPerGroup + BlocksPerGroup <= G * BlocksPerGroup
    BY <1>2, <1>3, ProductOrder
  <2> QED
    BY <1>2, <1>3, <1>4, <1>5, <2>1
<1>7. ~(G + 1 < q)
  <2>1. G + 1 < q => (G + 1) * BlocksPerGroup + BlocksPerGroup <= q * BlocksPerGroup
    BY <1>2, <1>3, ProductOrder
  <2>2. (G + 1) * BlocksPerGroup = G * BlocksPerGroup + BlocksPerGroup
    BY <1>2
  <2> QED
    BY <1>2, <1>4, <1>5, <2>1, <2>2
<1>8. q = G + 1
  BY <1>2, <1>3, <1>6, <1>7
<1>9. LenBlocks = G * BlocksPerGroup + BlocksPerGroup
  BY <1>2, <1>3, <1>8
<1>10. \A g \in Group : ext4_blocks_in_group_cnt(g) = BlocksPerGroup
  <2>1. G * BlocksPerGroup \in Nat /\ ext4_block_group_cnt - 1 = G
    BY <1>1, <1>4, Volume DEF G
  <2> QED
    BY <1>2, <1>9, <2>1 DEF ext4_blocks_in_group_cnt
<1>11. ASSUME NEW goal \in Goals, Home(goal) \in Group
       PROVE  Index(goal) <= ext4_blocks_in_group_cnt(Home(goal))
  <2>1. Index(goal) \in 0 .. BlocksPerGroup - 1
    BY <1>1, GoalPlace
  <2> QED
    BY <1>2, <1>10, <1>11, <2>1
<1> QED
  BY <1>1, <1>9, <1>10, <1>11 DEF G, GoalsInside

(* Its free counts are right from the beginning (write_bgroups). *)
LEMMA MkfsCounts ==
  ASSUME WholeGroups, NEW g \in Group
  PROVE  /\ ext4_fs_init_block_bitmap(g) \subseteq 0 .. BitsPerBlock - 1
         /\ MkfsFreeBlocks(g) = BitsPerBlock - Cardinality(ext4_fs_init_block_bitmap(g))
<1> DEFINE super == ext4_sb_is_super_in_bg(g)
           D == DescBlocks
           T == InodeTableBlocks
           F == FirstDataBlock
           P == g * BlocksPerGroup
           header == IF super THEN 1 + ext4_bg_num_gdb(g) ELSE 0
           size == IF g = ext4_block_group_cnt - 1
                   THEN LenBlocks - FirstDataBlock - BlocksPerGroup * (ext4_block_group_cnt - 1)
                   ELSE BlocksPerGroup
           m == F + D + (IF super THEN 1 ELSE 0)
           first == ext4_balloc_get_block_of_bgid(g)
           table == InodeTable(g) .. InodeTable(g) + InodesPerGroup \div InodesPerBlock - 1
           middle == {b - first : b \in {BlockBitmap(g), InodeBitmap(g)} \cup table}
<1>0. OneGroupCount /\ ~LastTooSmall /\ LenBlocks = (Groups - 1) * BlocksPerGroup + BlocksPerGroup
  BY WholeVolume
<1>1. /\ F \in {0, 1} /\ BlocksPerGroup \in Nat \ {0} /\ BitsPerBlock = BlocksPerGroup
      /\ ext4_block_group_cnt = Groups /\ Groups \in Nat \ {0} /\ (Groups - 1) * BlocksPerGroup \in Nat
      /\ g \in Nat /\ g < Groups /\ P \in Nat
  BY <1>0, Volume, GroupSpan
<1>2. D \in Nat /\ ext4_bg_num_gdb(g) = IF super THEN D ELSE 0
  <2>1. Groups = FormatGroups
    BY <1>0 DEF Groups
  <2>2. DescBlocks = DivUp(Groups, DescPerBlock)
    BY <2>1 DEF DescBlocks
  <2>3. DivUp(Groups, DescPerBlock) \in Nat
    <3>1. Groups + DescPerBlock - 1 \in Nat /\ DescPerBlock \in Nat \ {0}
      BY <1>1, LayoutAssumption
    <3> QED
      BY <3>1, DivMod DEF DivUp
  <2> QED
    BY <1>1, <2>2, <2>3 DEF ext4_bg_num_gdb
<1>3. T \in Nat /\ InodesPerGroup \div InodesPerBlock = T
  <2>1. InodesPerGroup \in Nat /\ InodesPerBlock \in Nat \ {0} /\ InodesPerGroup % InodesPerBlock = 0
    BY LayoutAssumption
  <2> DEFINE k == InodesPerGroup \div InodesPerBlock
  <2>2. k \in Nat /\ InodesPerGroup = k * InodesPerBlock + 0 /\ 0 \in 0 .. InodesPerBlock - 1
    BY <2>1, DivMod
  <2> HIDE DEF k
  <2>3. DivUp(k * InodesPerBlock + 0, InodesPerBlock) = k
    BY <2>1, <2>2, DivUpOf
  <2> QED
    BY <2>2, <2>3 DEF InodeTableBlocks, k
<1>4. 2 * F + D + 4 + T <= BlocksPerGroup
  BY DEF WholeGroups
<1>5. size = IF g = Groups - 1 THEN BlocksPerGroup - F ELSE BlocksPerGroup
  <2>1. BlocksPerGroup * (Groups - 1) = (Groups - 1) * BlocksPerGroup
    BY <1>1
  <2> QED
    BY <1>0, <1>1, <2>1
<1>6. first = F + P
  <2>1. P < Word
    <3>1. P <= (Groups - 1) * BlocksPerGroup
      <4>1. g # Groups - 1 => P + BlocksPerGroup <= (Groups - 1) * BlocksPerGroup
        BY <1>0, GroupSpan
      <4>2. g = Groups - 1 => P = (Groups - 1) * BlocksPerGroup
        OBVIOUS
      <4> HIDE DEF P
      <4> QED
        BY <1>1, <4>1, <4>2
    <3> HIDE DEF P
    <3> QED
      BY <1>0, <1>1, <3>1, Volume
  <2>2. P % Word = P
    BY <1>0, <1>1, <2>1, ModSmall
  <2> QED
    BY <2>2 DEF ext4_balloc_get_block_of_bgid
<1>7. MetaStart(g) = first + m
  <2>1. MetaStart(g) = 2 * F + P + D + (IF super THEN 1 ELSE 0)
    BY DEF MetaStart
  <2> HIDE DEF P, D, super
  <2> QED
    BY <1>1, <1>2, <1>6, <2>1
<1>8. first \in Nat /\ m \in Nat
  BY <1>1, <1>2, <1>6
<1>9. middle = m + 1 .. m + 3 + T - 1
  <2>1. /\ BlockBitmap(g) = first + m + 1 /\ InodeBitmap(g) = first + m + 2
        /\ table = first + m + 3 .. first + m + 3 + T - 1
    BY <1>3, <1>7 DEF BlockBitmap, InodeBitmap, InodeTable
  <2> HIDE DEF first, m, T, table
  <2>2. {BlockBitmap(g), InodeBitmap(g)} \cup table = first + m + 1 .. first + m + 3 + T - 1
    BY <1>3, <1>8, <2>1
  <2>3. middle = {b - first : b \in first + m + 1 .. first + m + 3 + T - 1}
    BY <2>2
  <2>4. ASSUME NEW x \in m + 1 .. m + 3 + T - 1
        PROVE  x \in {b - first : b \in first + m + 1 .. first + m + 3 + T - 1}
    <3>1. x + first \in first + m + 1 .. first + m + 3 + T - 1 /\ (x + first) - first = x
      BY <1>3, <1>8
    <3> QED
      BY <3>1
  <2>5. ASSUME NEW b \in first + m + 1 .. first + m + 3 + T - 1
        PROVE  b - first \in m + 1 .. m + 3 + T - 1
    BY <1>3, <1>8
  <2> QED
    BY <2>3, <2>4, <2>5
<1>10. ext4_fs_init_block_bitmap(g) = (0 .. header - 1) \cup middle \cup (size .. BitsPerBlock - 1)
  BY DEF ext4_fs_init_block_bitmap
<1>11. header = IF super THEN 1 + D ELSE 0
  BY <1>2
<1>12. MkfsFreeBlocks(g) = BlocksPerGroup - T - 2 - (IF g = Groups - 1 THEN F ELSE 0)
                             - (IF super THEN 1 + D ELSE 0)
  BY DEF MkfsFreeBlocks
<1> HIDE DEF middle, header, size, m, D, T, F, super
<1>13. /\ header \in Nat /\ m + 1 \in Nat /\ m + 3 + T \in Nat /\ size \in Nat
       /\ header <= m + 1 /\ m + 1 <= m + 3 + T /\ m + 3 + T <= size /\ size <= BlocksPerGroup
  <2>1. m = F + D + (IF super THEN 1 ELSE 0)
    BY DEF m
  <2> QED
    BY <1>1, <1>2, <1>3, <1>4, <1>5, <1>11, <2>1
<1> DEFINE low == m + 1
           high == m + 3 + T
<1>14. ext4_fs_init_block_bitmap(g) = Runs(header, low, high, size, BlocksPerGroup)
  <2>1. high - 1 = m + 3 + T - 1
    BY <1>3, <1>8
  <2>2. ext4_fs_init_block_bitmap(g) = (0 .. header - 1) \cup (low .. high - 1) \cup (size .. BlocksPerGroup - 1)
    BY <1>1, <1>9, <1>10, <2>1
  <2> HIDE DEF low, high
  <2> QED
    BY <2>2 DEF Runs
<1>15. Cardinality(ext4_fs_init_block_bitmap(g)) = header + (T + 2) + (BlocksPerGroup - size)
  <2>1. high - low = T + 2
    BY <1>3, <1>8
  <2>2. header \in Nat /\ low \in Nat /\ high \in Nat /\ size \in Nat /\ BlocksPerGroup \in Nat
    BY <1>1, <1>13
  <2>3. header <= low /\ low <= high /\ high <= size /\ size <= BlocksPerGroup
    BY <1>13
  <2> HIDE DEF low, high
  <2>4. Cardinality(Runs(header, low, high, size, BlocksPerGroup)) =
          header + (high - low) + (BlocksPerGroup - size)
    BY <2>2, <2>3, ThreeRuns
  <2> QED
    BY <1>14, <2>1, <2>4
<1>16. MkfsFreeBlocks(g) = BitsPerBlock - Cardinality(ext4_fs_init_block_bitmap(g))
  BY <1>1, <1>2, <1>3, <1>5, <1>11, <1>12, <1>15
<1>17. ext4_fs_init_block_bitmap(g) \subseteq 0 .. BitsPerBlock - 1
  <2>1. 0 .. header - 1 \subseteq 0 .. BlocksPerGroup - 1
    BY <1>1, <1>13
  <2>2. m + 1 .. m + 3 + T - 1 \subseteq 0 .. BlocksPerGroup - 1
    BY <1>1, <1>3, <1>8, <1>13
  <2>3. size .. BlocksPerGroup - 1 \subseteq 0 .. BlocksPerGroup - 1
    BY <1>1, <1>13
  <2> QED
    BY <1>1, <1>9, <1>10, <2>1, <2>2, <2>3
<1> QED
  BY <1>16, <1>17

-----------------------------------------------------------------------------
(* The bitmaps have no bits but those of a bitmap block, and what a group
   counts as free is what its bitmap leaves free. *)
Inside == \A g \in Group : Bits(g) \subseteq 0 .. BitsPerBlock - 1
FreeMatch == \A g \in Group : free[g] = BitsPerBlock - Cardinality(Bits(g))
Full == \A g \in Group : Bits(g) = 0 .. BitsPerBlock - 1

CountInv ==
  /\ IInv
  /\ free = [k \in Group |-> free[k]]
  /\ Inside
  /\ ~failed => FreeMatch /\ (ret = "ENOSPC" => Full)

(* The size of a bitmap. *)
LEMMA BitmapSize ==
  ASSUME NEW X \in SUBSET (0 .. BitsPerBlock - 1)
  PROVE  /\ IsFiniteSet(X) /\ Cardinality(X) \in 0 .. BitsPerBlock
         /\ Cardinality(X) = BitsPerBlock <=> X = 0 .. BitsPerBlock - 1
<1>1. BitsPerBlock \in Nat \ {0} /\ 0 \in Int /\ BitsPerBlock - 1 \in Int
  BY LayoutAssumption
<1>2. IsFiniteSet(0 .. BitsPerBlock - 1) /\ Cardinality(0 .. BitsPerBlock - 1) = BitsPerBlock
  <2>1. IsFiniteSet(0 .. BitsPerBlock - 1)
        /\ Cardinality(0 .. BitsPerBlock - 1) =
             IF 0 > BitsPerBlock - 1 THEN 0 ELSE (BitsPerBlock - 1) - 0 + 1
    BY <1>1, FS_Interval
  <2> QED
    BY <1>1, <2>1
<1>3. IsFiniteSet(X) /\ Cardinality(X) <= BitsPerBlock
      /\ (Cardinality(X) = BitsPerBlock => X = 0 .. BitsPerBlock - 1)
  <2>1. /\ IsFiniteSet(X) /\ Cardinality(X) <= Cardinality(0 .. BitsPerBlock - 1)
        /\ (Cardinality(0 .. BitsPerBlock - 1) = Cardinality(X) => 0 .. BitsPerBlock - 1 = X)
    BY <1>2, FS_Subset
  <2> QED
    BY <1>2, <2>1
<1>4. Cardinality(X) \in Nat
  BY <1>3, FS_CardinalityType
<1> QED
  BY <1>1, <1>2, <1>3, <1>4

(* One bit is set and counted. *)
LEMMA CountedOne ==
  ASSUME WholeGroups, Inside, FreeMatch, free = [k \in Group |-> free[k]],
         NEW g \in Group, NEW i \in 0 .. BitsPerBlock - 1, i \notin Bits(g),
         free' = [free EXCEPT ![g] = (free[g] - 1) % Word],
         \A k \in Group : Bits(k)' = IF k = g THEN Bits(k) \cup {i} ELSE Bits(k)
  PROVE  FreeMatch'
<1>1. OneGroupCount
  BY WholeVolume
<1>2. BitsPerBlock < Word /\ Word \in Nat \ {0} /\ BitsPerBlock \in Nat
  BY BallocAssumption, LayoutAssumption
<1>3. /\ IsFiniteSet(Bits(g)) /\ Cardinality(Bits(g)) \in 0 .. BitsPerBlock
      /\ Cardinality(Bits(g)) # BitsPerBlock
      /\ free[g] = BitsPerBlock - Cardinality(Bits(g))
  <2>1. Bits(g) \in SUBSET (0 .. BitsPerBlock - 1)
    BY DEF Inside
  <2>2. IsFiniteSet(Bits(g)) /\ Cardinality(Bits(g)) \in 0 .. BitsPerBlock
        /\ (Cardinality(Bits(g)) = BitsPerBlock => Bits(g) = 0 .. BitsPerBlock - 1)
    BY <2>1, BitmapSize
  <2> QED
    BY <2>2 DEF FreeMatch
<1>4. Cardinality(Bits(g) \cup {i}) = Cardinality(Bits(g)) + 1
  BY <1>3, FS_AddElement
<1>5. free[g] - 1 \in Nat /\ free[g] - 1 < Word
  BY <1>2, <1>3
<1>6. (free[g] - 1) % Word = free[g] - 1
  BY <1>1, <1>5, ModSmall
<1>7. free'[g] = BitsPerBlock - Cardinality(Bits(g) \cup {i})
  BY <1>2, <1>3, <1>4, <1>6
<1>8. \A k \in Group \ {g} : free'[k] = free[k]
  OBVIOUS
<1> QED
  BY <1>7, <1>8 DEF FreeMatch

(* Bits that were set are cleared and counted. *)
LEMMA CountedBack ==
  ASSUME WholeGroups, Inside, FreeMatch, NEW R,
         \A k \in Group :
           /\ R[k] \subseteq Bits(k)
           /\ Bits(k)' = Bits(k) \ R[k]
           /\ (free'[k] = free[k] /\ R[k] = {}) \/ free'[k] = (free[k] + Cardinality(R[k])) % Word
  PROVE  FreeMatch'
<1>1. OneGroupCount
  BY WholeVolume
<1>2. BitsPerBlock < Word /\ Word \in Nat \ {0} /\ BitsPerBlock \in Nat
  BY BallocAssumption, LayoutAssumption
<1>3. ASSUME NEW k \in Group
      PROVE  free'[k] = BitsPerBlock - Cardinality(Bits(k)')
  <2>1. Bits(k) \in SUBSET (0 .. BitsPerBlock - 1) /\ Bits(k) \ R[k] \in SUBSET (0 .. BitsPerBlock - 1)
        /\ free[k] = BitsPerBlock - Cardinality(Bits(k))
    BY DEF Inside, FreeMatch
  <2>2. /\ IsFiniteSet(Bits(k)) /\ Cardinality(Bits(k)) \in 0 .. BitsPerBlock
        /\ Cardinality(Bits(k) \ R[k]) \in 0 .. BitsPerBlock
    BY <2>1, BitmapSize
  <2>3. Cardinality(Bits(k) \ R[k]) = Cardinality(Bits(k)) - Cardinality(R[k]) /\ Cardinality(R[k]) \in Nat
    <3>1. Bits(k) \cap R[k] = R[k]
      OBVIOUS
    <3>2. Cardinality(Bits(k) \ R[k]) = Cardinality(Bits(k)) - Cardinality(Bits(k) \cap R[k])
      BY <2>2, FS_Difference
    <3>3. IsFiniteSet(R[k])
      BY <2>2, FS_Subset
    <3> QED
      BY <3>1, <3>2, <3>3, FS_CardinalityType
  <2>4. CASE R[k] = {} /\ free'[k] = free[k]
    BY <2>1, <2>4
  <2>5. CASE free'[k] = (free[k] + Cardinality(R[k])) % Word
    <3>1. free[k] + Cardinality(R[k]) = BitsPerBlock - Cardinality(Bits(k) \ R[k])
      BY <1>2, <2>1, <2>2, <2>3
    <3>2. free[k] + Cardinality(R[k]) \in Nat /\ free[k] + Cardinality(R[k]) < Word
      BY <1>2, <2>2, <3>1
    <3>3. (free[k] + Cardinality(R[k])) % Word = free[k] + Cardinality(R[k])
      BY <1>1, <3>2, ModSmall
    <3> QED
      BY <2>5, <3>1, <3>3
  <2> QED
    BY <2>4, <2>5
<1> QED
  BY <1>3 DEF FreeMatch

(* The groups the search goes through are all of them. *)
LEMMA RingOnto ==
  ASSUME OneGroupCount, NEW bg \in Nat, NEW g \in Group
  PROVE  \E k \in 1 .. Groups : Ring(bg, k) = g
<1> DEFINE q == bg \div Groups
           r == bg % Groups
<1>1. Groups \in Nat \ {0} /\ ext4_block_group_cnt = Groups /\ g \in 0 .. Groups - 1
  BY Volume
<1>2. q \in Nat /\ r \in 0 .. Groups - 1 /\ bg = q * Groups + r
  BY <1>1, DivMod
<1>3. q * Groups \in Nat /\ (q + 1) * Groups = q * Groups + Groups /\ q + 1 \in Nat
  BY <1>1, <1>2, ProductAtLeast
<1> HIDE DEF q, r
<1>4. CASE g > r
  <2>1. g - r \in 1 .. Groups /\ bg + (g - r) = q * Groups + g
    BY <1>1, <1>2, <1>3, <1>4
  <2>2. (q * Groups + g) % Groups = g
    BY <1>1, <1>2, DivModUnique
  <2> QED
    BY <1>1, <2>1, <2>2 DEF Ring
<1>5. CASE ~(g > r)
  <2>1. (g - r) + Groups \in 1 .. Groups /\ bg + ((g - r) + Groups) = (q + 1) * Groups + g
    BY <1>1, <1>2, <1>3, <1>5
  <2>2. ((q + 1) * Groups + g) % Groups = g
    BY <1>1, <1>3, DivModUnique
  <2> QED
    BY <1>1, <2>1, <2>2 DEF Ring
<1> QED
  BY <1>4, <1>5

(* A group whose search finds nothing has no clear bit. *)
LEMMA RingHitNone ==
  ASSUME WholeGroups, Inside, FreeMatch, NEW g \in Group, RingHit(g) = None
  PROVE  Bits(g) = 0 .. BitsPerBlock - 1
<1>1. Bits(g) \in SUBSET (0 .. BitsPerBlock - 1) /\ free[g] = BitsPerBlock - Cardinality(Bits(g))
  BY DEF Inside, FreeMatch
<1>2. ext4_blocks_in_group_cnt(g) = BitsPerBlock /\ BitsPerBlock \in Nat
  BY WholeVolume, Volume
<1>3. CASE free[g] = 0
  <2>1. Cardinality(Bits(g)) \in 0 .. BitsPerBlock
        /\ (Cardinality(Bits(g)) = BitsPerBlock => Bits(g) = 0 .. BitsPerBlock - 1)
    BY <1>1, BitmapSize
  <2> QED
    BY <1>1, <1>2, <1>3, <2>1
<1>4. CASE free[g] # 0
  <2>1. FirstClear(Bits(g), 0, BitsPerBlock) = None
    BY <1>2, <1>4, SearchFromZero DEF RingHit
  <2>2. 0 .. BitsPerBlock - 1 \subseteq Bits(g)
    <3>1. 0 \in Nat /\ BitsPerBlock \in Int
      BY <1>2
    <3> QED
      BY <2>1, <3>1, FirstClearFinds
  <2> QED
    BY <1>1, <2>2
<1> QED
  BY <1>3, <1>4

(* A search that finds nothing has been through every group. *)
LEMMA NothingLeft ==
  ASSUME WholeGroups, Inside, FreeMatch, NEW bg \in Nat, NEW idx, NEW h \in Searches(bg, idx), h.idx = None
  PROVE  Full
<1> DEFINE last == LastStep(bg)
<1>0. OneGroupCount
  BY WholeVolume
<1>1. RingHit(Ring(bg, last)) = None
  <2> DEFINE goalHits == IF bg \notin Group \/ free[bg] = 0 THEN {None} ELSE GoalHit(bg, idx)
             seen == ({bg} \cap Group) \cup {Ring(bg, k) : k \in 1 .. last}
  <2>1. PICK hit \in goalHits :
          h = IF hit # None THEN [bg |-> bg, idx |-> hit, seen |-> {bg}]
              ELSE [bg |-> Ring(bg, last), idx |-> RingHit(Ring(bg, last)), seen |-> seen]
    BY DEF Searches, LastStep
  <2> HIDE DEF goalHits, seen, last
  <2>2. CASE hit # None
    BY <2>1, <2>2
  <2>3. CASE hit = None
    BY <2>1, <2>3
  <2> QED
    BY <2>2, <2>3
<1>2. \A k \in 1 .. Groups : RingHit(Ring(bg, k)) = None
  BY <1>0, <1>1, LastStepOf
<1>3. \A g \in Group : RingHit(g) = None
  <2>1. \A g \in Group : \E k \in 1 .. Groups : Ring(bg, k) = g
    BY <1>0, RingOnto
  <2> QED
    BY <1>2, <2>1
<1> QED
  BY <1>3, RingHitNone DEF Full

(* A step that changes no bit and no count. *)
LEMMA CountsKept ==
  ASSUME CountInv, IInv', UNCHANGED free, \A k \in Group : Bits(k)' = Bits(k),
         failed => failed', ret' = "ENOSPC" /\ ~failed' => Full \/ ret = "ENOSPC"
  PROVE  CountInv'
<1>1. Inside'
  BY DEF CountInv, Inside
<1>2. ASSUME ~failed'
      PROVE  FreeMatch' /\ (ret' = "ENOSPC" => Full')
  BY <1>2 DEF CountInv, FreeMatch, Full
<1> QED
  BY <1>1, <1>2 DEF CountInv

(* A step that fails half-way, or one that reports success. *)
LEMMA CountsDone ==
  ASSUME CountInv, IInv', free' = [k \in Group |-> free'[k]], Inside',
         ret' # "ENOSPC", ~failed' => FreeMatch'
  PROVE  CountInv'
BY DEF CountInv

(* A bit that an inode holds is set and one of its bitmap block. *)
LEMMA HeldBit ==
  ASSUME OneGroupCount, IInv, NEW o \in Inode, NEW b \in own[o]
  PROVE  b \in Block /\ Home(b) \in Group /\ Index(b) \in Bits(Home(b))
<1>1. b \in Block /\ Index(b) \in Bits(Home(b))
  BY DEF IInv, NoSharing
<1> QED
  BY <1>1, PlaceOf

(* ext4_balloc_alloc_block takes one from the count of the group it takes the
   block from, and gives up only when every group is full. *)
LEMMA AllocCounts ==
  ASSUME WholeGroups, CountInv, IInv', NEW o \in Inode, NEW goal \in Goals,
         ext4_balloc_alloc_block(o, goal)
  PROVE  CountInv'
<1> DEFINE bg == Home(goal)
           idx == Index(goal)
<1>0. OneGroupCount /\ GoalsInside /\ IInv /\ failed \in BOOLEAN /\ Inside
  BY WholeVolume DEF CountInv, IInv
<1>1. bg \in Nat /\ idx \in 0 .. BlocksPerGroup - 1 /\ (bg \in Group => idx <= ext4_blocks_in_group_cnt(bg))
  BY <1>0, GoalPlace DEF GoalsInside
<1>2. ASSUME NEW S, Referenced(S), NotCounted, Returns("EIO", TRUE)
      PROVE  CountInv'
  <2>1. UNCHANGED free /\ (failed => failed') /\ ret' # "ENOSPC"
    BY <1>2 DEF NotCounted, Returns
  <2> QED
    BY <1>2, <2>1, BitsReferenced, CountsKept
<1>3. ASSUME NEW h \in Searches(bg, idx), h.idx = None, Referenced(h.seen), NotCounted, Returns("ENOSPC", FALSE)
      PROVE  CountInv'
  <2>1. UNCHANGED free /\ (failed' <=> failed)
    BY <1>0, <1>3 DEF NotCounted, Returns
  <2>2. ASSUME ~failed
        PROVE  Full
    BY <1>1, <1>3, <2>2, NothingLeft DEF CountInv
  <2> QED
    BY <1>3, <2>1, <2>2, BitsReferenced, CountsKept
<1>4. ASSUME NEW h \in Searches(bg, idx), h.idx # None, Marked(h),
             \/ Counted(o, h.bg, 1) /\ (Returns("EOK", FALSE) \/ Returns("EIO", TRUE))
             \/ NotCounted /\ Returns("EIO", TRUE)
      PROVE  CountInv'
  <2>1. h.bg \in Group /\ h.idx \in 0 .. BlocksPerGroup - 1 /\ h.idx \notin Bits(h.bg)
    BY <1>0, <1>1, <1>4, SearchFinds
  <2>2. BitsPerBlock = BlocksPerGroup
    BY <1>0, Volume
  <2>3. \A k \in Group : Bits(k)' = IF k = h.bg THEN Bits(k) \cup {h.idx} ELSE Bits(k)
    BY <1>0, <1>4, <2>1, MarkedBits
  <2>4. Inside'
    BY <1>0, <2>1, <2>2, <2>3 DEF Inside
  <2>5. ret' # "ENOSPC"
    BY <1>4 DEF Returns
  <2>6. CASE NotCounted /\ Returns("EIO", TRUE)
    <3>1. free' = free /\ failed' = TRUE
      BY <2>6 DEF NotCounted, Returns
    <3>2. free' = [k \in Group |-> free'[k]]
      BY <3>1 DEF CountInv
    <3> QED
      BY <2>4, <2>5, <3>1, <3>2, CountsDone
  <2>7. CASE Counted(o, h.bg, 1) /\ (Returns("EOK", FALSE) \/ Returns("EIO", TRUE))
    <3>1. free' = [free EXCEPT ![h.bg] = (free[h.bg] - 1) % Word] /\ (failed => failed')
      BY <2>7 DEF Counted, Returns
    <3>2. free' = [k \in Group |-> free'[k]]
      BY <3>1 DEF CountInv
    <3>3. ASSUME ~failed'
          PROVE  FreeMatch'
      <4>1. FreeMatch /\ free = [k \in Group |-> free[k]]
        BY <3>1, <3>3 DEF CountInv
      <4>2. h.idx \in 0 .. BitsPerBlock - 1
        BY <2>1, <2>2
      <4> QED
        BY <1>0, <2>1, <2>3, <3>1, <4>1, <4>2, CountedOne
    <3> QED
      BY <2>4, <2>5, <3>2, <3>3, CountsDone
  <2> QED
    BY <1>4, <2>6, <2>7
<1>5. CASE UNCHANGED <<used, uninit, free, sbFree, blocks, own>> /\ Returns("EIO", FALSE)
  <2>1. \A k \in Group : Bits(k)' = Bits(k)
    BY <1>5 DEF Bits
  <2>2. UNCHANGED free /\ (failed' <=> failed) /\ ret' # "ENOSPC"
    BY <1>0, <1>5 DEF Returns
  <2> QED
    BY <2>1, <2>2, CountsKept
<1>6. CASE \E h \in Searches(bg, idx) :
             \/ h.idx = None /\ Referenced(h.seen) /\ NotCounted /\ Returns("ENOSPC", FALSE)
             \/ /\ h.idx # None
                /\ Marked(h)
                /\ \/ Counted(o, h.bg, 1) /\ (Returns("EOK", FALSE) \/ Returns("EIO", TRUE))
                   \/ NotCounted /\ Returns("EIO", TRUE)
             \/ (\E S \in SUBSET h.seen : Referenced(S)) /\ NotCounted /\ Returns("EIO", TRUE)
  <2>1. PICK h \in Searches(bg, idx) :
             \/ h.idx = None /\ Referenced(h.seen) /\ NotCounted /\ Returns("ENOSPC", FALSE)
             \/ /\ h.idx # None
                /\ Marked(h)
                /\ \/ Counted(o, h.bg, 1) /\ (Returns("EOK", FALSE) \/ Returns("EIO", TRUE))
                   \/ NotCounted /\ Returns("EIO", TRUE)
             \/ (\E S \in SUBSET h.seen : Referenced(S)) /\ NotCounted /\ Returns("EIO", TRUE)
    BY <1>6
  <2>2. CASE h.idx = None /\ Referenced(h.seen) /\ NotCounted /\ Returns("ENOSPC", FALSE)
    BY <1>3, <2>2
  <2>3. CASE /\ h.idx # None
             /\ Marked(h)
             /\ \/ Counted(o, h.bg, 1) /\ (Returns("EOK", FALSE) \/ Returns("EIO", TRUE))
                \/ NotCounted /\ Returns("EIO", TRUE)
    BY <1>4, <2>3
  <2>4. CASE (\E S \in SUBSET h.seen : Referenced(S)) /\ NotCounted /\ Returns("EIO", TRUE)
    BY <1>2, <2>4
  <2> QED
    BY <2>1, <2>2, <2>3, <2>4
<1> QED
  BY <1>5, <1>6 DEF ext4_balloc_alloc_block, Home, Index

(* ext4_balloc_try_alloc_block takes one from the count of the block's group. *)
LEMMA TryAllocCounts ==
  ASSUME WholeGroups, CountInv, IInv', NEW o \in Inode, NEW b \in Block,
         ext4_balloc_try_alloc_block(o, b)
  PROVE  CountInv'
<1> DEFINE h == [bg |-> Home(b), idx |-> Index(b), seen |-> {Home(b)}]
<1>0. OneGroupCount /\ IInv /\ failed \in BOOLEAN /\ Inside /\ BitsPerBlock = BlocksPerGroup
  BY WholeVolume, Volume DEF CountInv, IInv
<1>1. Home(b) \in Group /\ Index(b) \in 0 .. BlocksPerGroup - 1
  <2>1. Home(b) \in Group /\ Index(b) \in 0 .. Size(Home(b)) - 1
    BY <1>0, PlaceOf
  <2> QED
    BY <1>0, <2>1, SlotInGroup
<1>2. ASSUME Marked(h), NEW k \in Group
      PROVE  Bits(k)' = IF k = Home(b) THEN Bits(k) \cup {Index(b)} ELSE Bits(k)
  <2>1. h.bg = Home(b) /\ h.idx = Index(b) /\ h.idx \in 0 .. BlocksPerGroup - 1
    BY <1>1
  <2> HIDE DEF h
  <2> QED
    BY <1>0, <1>2, <2>1, MarkedBits
<1>3. \/ /\ Index(b) \notin Bits(Home(b)) /\ Marked(h)
         /\ \/ Counted(o, Home(b), 1) /\ (Returns("EOK", FALSE) \/ Returns("EIO", TRUE))
            \/ NotCounted /\ Returns("EIO", TRUE)
      \/ /\ \E S : Referenced(S)
         /\ NotCounted /\ (Returns("EOK", FALSE) \/ Returns("EIO", TRUE))
  BY DEF ext4_balloc_try_alloc_block, Home, Index
<1> HIDE DEF h
<1>4. ret' # "ENOSPC" /\ (failed => failed')
  BY <1>3 DEF Returns
<1>5. CASE (\E S : Referenced(S)) /\ NotCounted
  <2>1. UNCHANGED free
    BY <1>5 DEF NotCounted
  <2> QED
    BY <1>4, <1>5, <2>1, BitsReferenced, CountsKept
<1>6. CASE /\ Index(b) \notin Bits(Home(b)) /\ Marked(h)
           /\ Counted(o, Home(b), 1) \/ (NotCounted /\ Returns("EIO", TRUE))
  <2>1. Inside'
    BY <1>0, <1>1, <1>2, <1>6 DEF Inside
  <2>2. CASE NotCounted /\ Returns("EIO", TRUE)
    <3>1. free' = free /\ failed' = TRUE
      BY <2>2 DEF NotCounted, Returns
    <3>2. free' = [k \in Group |-> free'[k]]
      BY <3>1 DEF CountInv
    <3> QED
      BY <1>4, <2>1, <3>1, <3>2, CountsDone
  <2>3. CASE Counted(o, Home(b), 1)
    <3>1. free' = [free EXCEPT ![Home(b)] = (free[Home(b)] - 1) % Word]
      BY <2>3 DEF Counted
    <3>2. free' = [k \in Group |-> free'[k]]
      BY <3>1 DEF CountInv
    <3>3. ASSUME ~failed'
          PROVE  FreeMatch'
      <4>1. FreeMatch /\ free = [k \in Group |-> free[k]]
        BY <1>4, <3>3 DEF CountInv
      <4>2. Index(b) \in 0 .. BitsPerBlock - 1
        BY <1>0, <1>1
      <4>3. \A k \in Group : Bits(k)' = IF k = Home(b) THEN Bits(k) \cup {Index(b)} ELSE Bits(k)
        BY <1>2, <1>6
      <4> QED
        BY <1>0, <1>1, <1>6, <3>1, <4>1, <4>2, <4>3, CountedOne
    <3> QED
      BY <1>4, <2>1, <3>2, <3>3, CountsDone
  <2> QED
    BY <1>6, <2>2, <2>3
<1> QED
  BY <1>3, <1>5, <1>6

(* ext4_balloc_free_block adds one to the count of the block's group. *)
LEMMA FreeBlockCounts ==
  ASSUME WholeGroups, CountInv, IInv', NEW o \in Inode, NEW b \in own[o],
         ext4_balloc_free_block(o, b)
  PROVE  CountInv'
<1> DEFINE bg == Home(b)
           R == [k \in Group |-> IF k = bg THEN {Index(b)} ELSE {}]
<1>0. OneGroupCount /\ IInv /\ failed \in BOOLEAN /\ Inside
  BY WholeVolume DEF CountInv, IInv
<1>1. bg \in Group /\ Index(b) \in Bits(bg)
  BY <1>0, HeldBit
<1>2. \/ /\ Rewritten({bg}, bg, Bits(bg) \ {Index(b)})
         /\ \/ Counted(o, bg, -1) /\ (Returns("EOK", FALSE) \/ Returns("EIO", TRUE))
            \/ NotCounted /\ Returns("EIO", TRUE)
      \/ Referenced({bg}) /\ NotCounted /\ Returns("EIO", TRUE)
  BY DEF ext4_balloc_free_block, Home, Index
<1> HIDE DEF bg
<1>3. ret' # "ENOSPC" /\ (failed => failed')
  BY <1>2 DEF Returns
<1>4. CASE Referenced({bg}) /\ NotCounted
  <2>1. UNCHANGED free
    BY <1>4 DEF NotCounted
  <2> QED
    BY <1>3, <1>4, <2>1, BitsReferenced, CountsKept
<1>5. CASE /\ Rewritten({bg}, bg, Bits(bg) \ {Index(b)})
           /\ Counted(o, bg, -1) \/ (NotCounted /\ Returns("EIO", TRUE))
  <2>1. \A k \in Group : Bits(k)' = Bits(k) \ R[k]
    BY <1>5, BitsRewritten
  <2>2. Inside'
    BY <1>0, <2>1 DEF Inside
  <2>3. CASE NotCounted /\ Returns("EIO", TRUE)
    <3>1. free' = free /\ failed' = TRUE
      BY <2>3 DEF NotCounted, Returns
    <3>2. free' = [k \in Group |-> free'[k]]
      BY <3>1 DEF CountInv
    <3> QED
      BY <1>3, <2>2, <3>1, <3>2, CountsDone
  <2>4. CASE Counted(o, bg, -1)
    <3>1. free' = [free EXCEPT ![bg] = (free[bg] - (-1)) % Word]
      BY <2>4 DEF Counted
    <3>2. free' = [k \in Group |-> free'[k]]
      BY <3>1 DEF CountInv
    <3>3. ASSUME ~failed'
          PROVE  FreeMatch'
      <4>1. FreeMatch /\ free = [k \in Group |-> free[k]]
        BY <1>3, <3>3 DEF CountInv
      <4>2. \A k \in Group \ {bg} : free'[k] = free[k] /\ R[k] = {}
        BY <3>1, <4>1
      <4>3. free'[bg] = (free[bg] + Cardinality(R[bg])) % Word
        <5>1. R[bg] = {Index(b)} /\ Cardinality({Index(b)}) = 1
          BY <1>1, FS_Singleton
        <5>2. Cardinality(Bits(bg)) \in Nat /\ BitsPerBlock \in Nat /\ free[bg] = BitsPerBlock - Cardinality(Bits(bg))
          <6>1. Bits(bg) \in SUBSET (0 .. BitsPerBlock - 1)
            BY <1>0, <1>1 DEF Inside
          <6>2. Cardinality(Bits(bg)) \in 0 .. BitsPerBlock
            BY <6>1, BitmapSize
          <6> QED
            BY <1>1, <4>1, <6>2, LayoutAssumption DEF FreeMatch
        <5>3. free[bg] - (-1) = free[bg] + 1
          BY <5>2
        <5>4. free'[bg] = (free[bg] - (-1)) % Word
          BY <1>1, <3>1, <4>1
        <5> QED
          BY <5>1, <5>3, <5>4
      <4>4. \A k \in Group :
              /\ R[k] \subseteq Bits(k)
              /\ Bits(k)' = Bits(k) \ R[k]
              /\ (free'[k] = free[k] /\ R[k] = {}) \/ free'[k] = (free[k] + Cardinality(R[k])) % Word
        BY <1>1, <2>1, <4>2, <4>3
      <4> HIDE DEF R
      <4> QED
        BY <1>0, <4>1, <4>4, CountedBack
    <3> QED
      BY <1>3, <2>2, <3>2, <3>3, CountsDone
  <2> QED
    BY <1>5, <2>3, <2>4
<1> QED
  BY <1>2, <1>4, <1>5

(* A group counts as many blocks as the range has in it. *)
LEMMA ChunkSize ==
  ASSUME OneGroupCount, NEW first \in Block, NEW count \in Nat \ {0},
         first .. first + count - 1 \subseteq Block,
         NEW g \in DOMAIN Chunks(first, count)
  PROVE  Cardinality(Indices(first .. first + count - 1, g)) = Chunks(first, count)[g].n
<1> DEFINE S == first .. first + count - 1
           last == first + count - 1
           c == Chunks(first, count)
           f == Begins(first, g)
<1>1. first \in Nat /\ last \in Block /\ last \in Nat
  <2>1. first \in Nat
    BY PlaceOf
  <2>2. last \in S
    BY <2>1
  <2> QED
    BY <2>1, <2>2, PlaceOf
<1>2. c = Closed(first, count)
  BY <1>1, ChunksOf
<1>3. DOMAIN c = Home(first) .. Home(last)
      /\ c[g].idx .. c[g].idx + c[g].n - 1 = Indices(S, g)
  BY ChunkBits
<1>4. /\ f \in Block /\ f \in first .. last
      /\ c[g].idx = Index(f)
      /\ c[g].n = IF BlocksPerGroup - Index(f) <= first + count - f
                  THEN BlocksPerGroup - Index(f) ELSE first + count - f
  <2>1. g \in Home(first) .. Home(first + count - 1)
    BY <1>3
  <2>2. /\ f \in Block /\ f \in first .. first + count - 1
        /\ Closed(first, count)[g].idx = Index(f)
        /\ Closed(first, count)[g].n = IF BlocksPerGroup - Index(f) <= first + count - f
                                       THEN BlocksPerGroup - Index(f) ELSE first + count - f
    BY <1>1, <2>1, ClosedOf
  <2> HIDE DEF c, f
  <2> QED
    BY <1>2, <2>2
<1>5. Index(f) \in Nat /\ BlocksPerGroup - Index(f) \in Nat
  <2>1. Index(f) \in 0 .. Size(Home(f)) - 1 /\ Home(f) \in Group
    BY <1>4, PlaceOf
  <2>2. Size(Home(f)) \in 0 .. BlocksPerGroup /\ BlocksPerGroup \in Nat
    BY <2>1, GroupSpan, Volume
  <2> HIDE DEF f
  <2> QED
    BY <2>1, <2>2
<1>6. first + count - f \in Nat
  BY <1>1, <1>4
<1> HIDE DEF c, f, S, last
<1>7. c[g].n \in Nat /\ c[g].idx \in Nat
  BY <1>4, <1>5, <1>6
<1> DEFINE i == c[g].idx
           n == c[g].n
<1>8. Cardinality(i .. i + n - 1) = n
  <2>1. i \in Nat /\ n \in Nat
    BY <1>7
  <2> HIDE DEF i, n
  <2>2. i \in Int /\ i + n - 1 \in Int
    BY <2>1
  <2>3. Cardinality(i .. i + n - 1) = IF i > i + n - 1 THEN 0 ELSE (i + n - 1) - i + 1
    BY <2>2, FS_Interval
  <2> QED
    BY <2>1, <2>3
<1> QED
  BY <1>3, <1>8 DEF c, S

(* ext4_balloc_free_blocks adds to the count of each group as many blocks as
   it clears there. *)
LEMMA FreeBlocksCounts ==
  ASSUME WholeGroups, CountInv, IInv', NEW o \in Inode, NEW first \in own[o],
         NEW count \in Nat \ {0}, ext4_balloc_free_blocks(o, first, count)
  PROVE  CountInv'
<1> DEFINE S == first .. first + count - 1
           c == Chunks(first, count)
           R == [k \in Group |-> Indices(S, k)]
<1>0. OneGroupCount /\ IInv /\ failed \in BOOLEAN /\ Inside /\ first \in Block /\ own[o] \subseteq Block
  BY WholeVolume DEF CountInv, IInv
<1>1. S \in SUBSET own[o] /\ S \subseteq Block
  BY <1>0 DEF ext4_balloc_free_blocks
<1>2. /\ DOMAIN c \subseteq Group
      /\ \A g \in DOMAIN c : c[g].idx .. c[g].idx + c[g].n - 1 = Indices(S, g)
      /\ \A g \in Group \ DOMAIN c : Indices(S, g) = {}
  BY <1>0, <1>1, ChunkBits
<1>3. \A g \in DOMAIN c : Cardinality(Indices(S, g)) = c[g].n
  BY <1>0, <1>1, ChunkSize
<1>4. \A k \in Group : Indices(S, k) \subseteq Bits(k)
  BY <1>0, <1>1, HeldBit DEF Indices
<1>5. \/ Freed(o, c, DOMAIN c, DOMAIN c) /\ Returns("EOK", FALSE)
      \/ BrokeOff /\ \E B, C : Freed(o, c, B, C)
  BY FreeBlocksEnds
<1> HIDE DEF c, S
<1>6. ret' # "ENOSPC" /\ (failed => failed')
  BY <1>5 DEF Returns, BrokeOff
<1>7. ASSUME NEW B, NEW C, Freed(o, c, B, C)
      PROVE  Inside' /\ free' = [k \in Group |-> free'[k]]
  <2>1. \A k \in Group : Bits(k)' \subseteq Bits(k)
    BY <1>7, FreedBits
  <2>2. Inside'
    BY <1>0, <2>1 DEF Inside
  <2>3. free' = [g \in Group |-> IF g \in C THEN (free[g] + c[g].n) % Word ELSE free[g]]
    BY <1>7 DEF Freed
  <2> QED
    BY <2>2, <2>3
<1>8. CASE BrokeOff /\ \E B, C : Freed(o, c, B, C)
  <2>1. failed' = TRUE
    BY <1>8 DEF BrokeOff
  <2> QED
    BY <1>6, <1>7, <1>8, <2>1, CountsDone
<1>9. CASE Freed(o, c, DOMAIN c, DOMAIN c) /\ Returns("EOK", FALSE)
  <2>1. ASSUME ~failed'
        PROVE  FreeMatch'
    <3>1. FreeMatch
      BY <1>6, <2>1 DEF CountInv
    <3>2. free' = [g \in Group |-> IF g \in DOMAIN c THEN (free[g] + c[g].n) % Word ELSE free[g]]
      BY <1>9 DEF Freed
    <3>3. ASSUME NEW k \in Group
          PROVE  /\ R[k] \subseteq Bits(k)
                 /\ Bits(k)' = Bits(k) \ R[k]
                 /\ (free'[k] = free[k] /\ R[k] = {}) \/ free'[k] = (free[k] + Cardinality(R[k])) % Word
      <4>1. R[k] = Indices(S, k) /\ R[k] \subseteq Bits(k)
        BY <1>4
      <4>2. Bits(k)' = IF k \in DOMAIN c THEN Bits(k) \ (c[k].idx .. c[k].idx + c[k].n - 1) ELSE Bits(k)
        BY <1>9, FreedBits
      <4> HIDE DEF R
      <4>3. CASE k \in DOMAIN c
        <5>1. Bits(k)' = Bits(k) \ R[k]
          BY <1>2, <4>1, <4>2, <4>3
        <5>2. free'[k] = (free[k] + Cardinality(R[k])) % Word
          BY <1>3, <3>2, <4>1, <4>3
        <5> QED
          BY <4>1, <5>1, <5>2
      <4>4. CASE k \notin DOMAIN c
        <5>1. R[k] = {}
          BY <1>2, <4>1, <4>4
        <5>2. Bits(k)' = Bits(k) \ R[k] /\ free'[k] = free[k]
          BY <3>2, <4>2, <4>4, <5>1
        <5> QED
          BY <4>1, <5>1, <5>2
      <4> QED
        BY <4>3, <4>4
    <3> HIDE DEF R
    <3> QED
      BY <1>0, <3>1, <3>3, CountedBack
  <2> QED
    BY <1>6, <1>7, <1>9, <2>1, CountsDone
<1> QED
  BY <1>5, <1>8, <1>9

(* The counts are right from the beginning. *)
LEMMA InitCounts ==
  ASSUME WholeGroups, Init
  PROVE  CountInv
<1>0. OneGroupCount
  BY WholeVolume
<1>1. IInv
  BY <1>0, InitKeeps
<1>2. ASSUME NEW g \in Group
      PROVE  /\ Bits(g) = ext4_fs_init_block_bitmap(g)
             /\ free[g] = MkfsFreeBlocks(g)
  <2>1. g < Groups
    BY <1>0, Volume
  <2> QED
    BY <2>1 DEF Init, Bits
<1>3. Inside /\ FreeMatch
  BY <1>2, MkfsCounts DEF Inside, FreeMatch
<1>4. free = [k \in Group |-> free[k]] /\ ret = "EOK"
  BY DEF Init
<1> QED
  BY <1>1, <1>3, <1>4 DEF CountInv

(* Every step keeps them. *)
LEMMA NextCounts ==
  ASSUME WholeGroups, CountInv, [Next]_vars
  PROVE  CountInv'
<1>0. OneGroupCount /\ GoalsInside /\ IInv
  BY WholeVolume DEF CountInv
<1>1. IInv'
  BY <1>0, NextKeeps
<1>2. CASE Next
  <2>1. PICK o \in Inode :
          \/ \E goal \in Goals : ext4_balloc_alloc_block(o, goal)
          \/ \E b \in Block : ext4_balloc_try_alloc_block(o, b)
          \/ \E b \in own[o] : ext4_balloc_free_block(o, b)
          \/ \E first \in own[o], count \in 1 .. Cardinality(own[o]) : ext4_balloc_free_blocks(o, first, count)
    BY <1>2 DEF Next
  <2>2. CASE \E goal \in Goals : ext4_balloc_alloc_block(o, goal)
    BY <1>1, <2>2, AllocCounts
  <2>3. CASE \E b \in Block : ext4_balloc_try_alloc_block(o, b)
    BY <1>1, <2>3, TryAllocCounts
  <2>4. CASE \E b \in own[o] : ext4_balloc_free_block(o, b)
    BY <1>1, <2>4, FreeBlockCounts
  <2>5. CASE \E first \in own[o], count \in 1 .. Cardinality(own[o]) : ext4_balloc_free_blocks(o, first, count)
    <3>1. own[o] \subseteq Block
      BY <1>0 DEF IInv
    <3>2. IsFiniteSet(Block)
      <4>1. FirstDataBlock \in Int /\ LenBlocks - 1 \in Int
        BY <1>0, Volume
      <4>2. IsFiniteSet(FirstDataBlock .. LenBlocks - 1)
        BY <4>1, FS_Interval
      <4> QED
        BY <4>2 DEF Block
    <3>3. Cardinality(own[o]) \in Nat
      BY <3>1, <3>2, FS_Subset, FS_CardinalityType
    <3>4. \A count \in 1 .. Cardinality(own[o]) : count \in Nat \ {0}
      BY <3>3
    <3> QED
      BY <1>1, <2>5, <3>4, FreeBlocksCounts
  <2> QED
    BY <2>1, <2>2, <2>3, <2>4, <2>5
<1>3. CASE UNCHANGED vars
  <2>1. UNCHANGED <<free, ret, failed>> /\ \A k \in Group : Bits(k)' = Bits(k)
    BY <1>3 DEF vars, Bits
  <2> QED
    BY <1>1, <2>1, CountsKept
<1> QED
  BY <1>2, <1>3

(* An allocation reports ENOSPC only when every block is in use, on every
   volume of whole groups: the counts that make the search skip a group agree
   with its bitmap, and the search goes through every group, that of the goal
   a second time (ext4_balloc_alloc_block). *)
THEOREM NoSpaceIsFull ==
  ASSUME WholeGroups
  PROVE  Spec => []NoSpaceMeansFull
<1>1. Init => CountInv
  BY InitCounts
<1>2. CountInv /\ [Next]_vars => CountInv'
  BY NextCounts
<1>3. CountInv => NoSpaceMeansFull
  BY DEF CountInv, NoSpaceMeansFull, Full
<1> QED
  BY <1>1, <1>2, <1>3, PTL DEF Spec

-----------------------------------------------------------------------------
(* The order of the search.  The first clear bit of group g from a bit on. *)
At(g, from) == FirstClear(Bits(g), from, BlocksPerGroup)

(* There is one such bit at most. *)
LEMMA FirstClearIs ==
  ASSUME NEW bits, NEW from \in Nat, NEW to \in Nat, NEW x \in from .. to - 1, x \notin bits,
         from .. x - 1 \subseteq bits
  PROVE  FirstClear(bits, from, to) = x
<1> DEFINE found == FirstClear(bits, from, to)
<1>1. found # None => found \in (from .. to - 1) \ bits /\ from .. found - 1 \subseteq bits
  BY FirstClearFinds
<1>2. found # None
  <2>1. found = None <=> from .. to - 1 \subseteq bits
    BY to \in Int, FirstClearFinds
  <2>2. ~(from .. to - 1 \subseteq bits)
    OBVIOUS
  <2> HIDE DEF found
  <2> QED
    BY <2>1, <2>2
<1>3. found \in Nat /\ x \in Nat /\ from <= found /\ found \notin bits /\ from <= x
  BY <1>1, <1>2
<1> HIDE DEF found
<1>4. ~(found < x) /\ ~(x < found)
  BY <1>1, <1>2, <1>3
<1> QED
  BY <1>3, <1>4 DEF found

(* However the search near the goal is split up, it finds that bit. *)
LEMMA GoalHitNearest ==
  ASSUME WholeGroups, NEW g \in Group, NEW idx \in 0 .. BlocksPerGroup - 1
  PROVE  GoalHit(g, idx) = {At(g, idx)}
<1> DEFINE n == BlocksPerGroup
           end == Min({RoundUp(idx, Near), n})
           near == FirstClear(Bits(g), idx + 1, end)
<1>0. OneGroupCount /\ ext4_blocks_in_group_cnt(g) = n
  BY WholeVolume
<1>1. n \in Nat \ {0} /\ idx \in Nat /\ idx < n /\ idx <= n
  BY <1>0, Volume
<1>2. Near \in Nat \ {0} /\ Near % 8 = 0
  BY BallocAssumption
<1>3. RoundUp(idx, Near) \in Nat /\ RoundUp(idx, 8) \in Nat /\ idx <= RoundUp(idx, 8)
      /\ RoundUp(idx, 8) <= RoundUp(idx, Near)
  BY <1>1, <1>2, RoundUpOf, RoundUpBytes, 8 \in Nat \ {0}
<1>4. end = IF RoundUp(idx, Near) <= n THEN RoundUp(idx, Near) ELSE n
  BY <1>1, <1>3, LeastOfTwo
<1>5. GoalHit(g, idx) = IF idx \notin Bits(g) THEN {idx}
                        ELSE IF near # None THEN {near}
                        ELSE {ext4_bmap_bit_find_clr(Bits(g), idx, n)}
  BY <1>0, <1>1 DEF GoalHit
<1> HIDE DEF n, end
<1>6. end \in Nat /\ end <= n
  BY <1>1, <1>3, <1>4
<1>7. At(g, idx) = FirstClear(Bits(g), idx, n)
  BY DEF At, n
<1>8. CASE idx \notin Bits(g)
  <2>1. idx \in idx .. n - 1 /\ idx .. idx - 1 \subseteq Bits(g)
    BY <1>1
  <2>2. At(g, idx) = idx
    BY <1>1, <1>7, <1>8, <2>1, FirstClearIs
  <2> QED
    BY <1>5, <1>8, <2>2
<1>9. CASE idx \in Bits(g) /\ near # None
  <2>1. near \in (idx + 1 .. end - 1) \ Bits(g) /\ idx + 1 .. near - 1 \subseteq Bits(g)
    <3>1. idx + 1 \in Nat /\ end \in Int
      BY <1>1, <1>6
    <3> QED
      BY <1>9, <3>1, FirstClearFinds
  <2> HIDE DEF near
  <2>2. near \in idx .. n - 1 /\ near \notin Bits(g) /\ near \in Nat
    BY <1>1, <1>6, <2>1
  <2>3. idx .. near - 1 \subseteq Bits(g)
    <3>1. \A k \in idx .. near - 1 : k = idx \/ k \in idx + 1 .. near - 1
      BY <1>1, <2>2
    <3> QED
      BY <1>9, <2>1, <3>1
  <2>4. At(g, idx) = near
    BY <1>1, <1>7, <2>2, <2>3, FirstClearIs
  <2> QED
    BY <1>5, <1>9, <2>4
<1>10. CASE idx \in Bits(g) /\ near = None
  <2> DEFINE up == RoundUp(idx, 8)
             rest == FirstClear(Bits(g), up, n)
  <2>1. idx + 1 .. end - 1 \subseteq Bits(g)
    <3>1. idx + 1 \in Nat /\ end \in Int
      BY <1>1, <1>6
    <3> QED
      BY <1>10, <3>1, FirstClearFinds
  <2>2. \A k \in idx .. n - 1 : k < up => k \in Bits(g)
    <3>1. ASSUME NEW k \in idx .. n - 1, k < up
          PROVE  k = idx \/ k \in idx + 1 .. end - 1
      BY <1>1, <1>3, <1>4, <3>1
    <3> QED
      BY <1>10, <2>1, <3>1
  <2>3. ext4_bmap_bit_find_clr(Bits(g), idx, n) = rest
    BY <1>1, <2>2, SearchFromByte
  <2>4. up \in Nat /\ idx <= up /\ n \in Nat /\ n \in Int
    BY <1>1, <1>3
  <2> HIDE DEF up
  <2>5. CASE rest = None
    <3>1. up .. n - 1 \subseteq Bits(g)
      BY <2>4, <2>5, FirstClearFinds
    <3>2. \A k \in idx .. n - 1 : k < up \/ k \in up .. n - 1
      BY <1>1, <2>4
    <3>3. idx .. n - 1 \subseteq Bits(g)
      BY <2>2, <3>1, <3>2
    <3>4. At(g, idx) = None
      BY <1>1, <1>7, <2>4, <3>3, FirstClearFinds
    <3> QED
      BY <1>5, <1>10, <2>3, <2>5, <3>4
  <2>6. CASE rest # None
    <3>1. rest \in (up .. n - 1) \ Bits(g) /\ up .. rest - 1 \subseteq Bits(g)
      BY <2>4, <2>6, FirstClearFinds
    <3> HIDE DEF rest
    <3>2. rest \in idx .. n - 1 /\ rest \notin Bits(g) /\ rest \in Nat
      BY <1>1, <2>4, <3>1
    <3>3. \A k \in idx .. rest - 1 : (k \in idx .. n - 1 /\ k < up) \/ k \in up .. rest - 1
      BY <1>1, <2>4, <3>1, <3>2
    <3>4. idx .. rest - 1 \subseteq Bits(g)
      BY <2>2, <3>1, <3>3
    <3>5. At(g, idx) = rest
      BY <1>1, <1>7, <2>4, <3>2, <3>4, FirstClearIs
    <3> QED
      BY <1>5, <1>10, <2>3, <3>5
  <2> QED
    BY <2>5, <2>6
<1> QED
  BY <1>8, <1>9, <1>10

(* Nor does it matter that a group counted as full is skipped. *)
LEMMA FullHasNone ==
  ASSUME WholeGroups, Inside, FreeMatch, NEW g \in Group, free[g] = 0, NEW from \in Nat
  PROVE  At(g, from) = None
<1>1. Bits(g) \in SUBSET (0 .. BitsPerBlock - 1) /\ Cardinality(Bits(g)) = BitsPerBlock - 0
      /\ BitsPerBlock \in Nat /\ BitsPerBlock = BlocksPerGroup
  <2>1. Bits(g) \in SUBSET (0 .. BitsPerBlock - 1) /\ free[g] = BitsPerBlock - Cardinality(Bits(g))
    BY DEF Inside, FreeMatch
  <2>2. Cardinality(Bits(g)) \in 0 .. BitsPerBlock
    BY <2>1, BitmapSize
  <2>3. BitsPerBlock \in Nat /\ BitsPerBlock = BlocksPerGroup
    BY WholeVolume, Volume
  <2> QED
    BY <2>1, <2>2, <2>3
<1>2. Bits(g) = 0 .. BlocksPerGroup - 1
  BY <1>1, BitmapSize
<1>3. from .. BlocksPerGroup - 1 \subseteq Bits(g) /\ BlocksPerGroup \in Int
  BY <1>1, <1>2
<1> QED
  <2>1. FirstClear(Bits(g), from, BlocksPerGroup) = None
    <3>1. (from .. BlocksPerGroup - 1) \ Bits(g) = {}
      BY <1>3
    <3> QED
      BY <3>1 DEF FirstClear
  <2> QED
    BY <2>1 DEF At

(* The same for the search of a whole group. *)
LEMMA RingHitIs ==
  ASSUME WholeGroups, Inside, FreeMatch, NEW g \in Group
  PROVE  RingHit(g) = At(g, 0)
<1>1. CASE free[g] = 0
  <2>1. At(g, 0) = None
    BY <1>1, FullHasNone, 0 \in Nat
  <2> QED
    BY <1>1, <2>1 DEF RingHit
<1>2. CASE free[g] # 0
  <2>1. ext4_blocks_in_group_cnt(g) = BlocksPerGroup /\ BlocksPerGroup \in Nat
    BY WholeVolume, Volume
  <2> QED
    BY <1>2, <2>1, SearchFromZero DEF RingHit, At
<1> QED
  BY <1>1, <1>2

(* What a search with a goal finds, said without the counts. *)
LEMMA SearchNearest ==
  ASSUME WholeGroups, Inside, FreeMatch, NEW goal \in Goals, Home(goal) \in Group,
         NEW h \in Searches(Home(goal), Index(goal)), h.idx # None
  PROVE  ext4_fs_bg_idx_to_addr(h.idx, h.bg) = Nearest(goal)
<1> DEFINE bg == Home(goal)
           idx == Index(goal)
           last == LastStep(bg)
           goalHits == IF bg \notin Group \/ free[bg] = 0 THEN {None} ELSE GoalHit(bg, idx)
           seen == ({bg} \cap Group) \cup {Ring(bg, k) : k \in 1 .. last}
           steps == {k \in 1 .. ext4_block_group_cnt : RingHit(Ring(bg, k)) # None}
           next == Min({k \in 1 .. ext4_block_group_cnt : At(Ring(bg, k), 0) # None})
<1>0. OneGroupCount /\ bg \in Nat /\ idx \in 0 .. BlocksPerGroup - 1 /\ idx \in Nat
  BY WholeVolume, GoalPlace
<1>1. goalHits = {At(bg, idx)}
  <2>1. CASE free[bg] = 0
    BY <1>0, <2>1, FullHasNone
  <2>2. CASE free[bg] # 0
    BY <1>0, <2>2, GoalHitNearest
  <2> QED
    BY <2>1, <2>2
<1>2. \A k \in 1 .. ext4_block_group_cnt : RingHit(Ring(bg, k)) = At(Ring(bg, k), 0)
  <2>1. \A k \in 1 .. ext4_block_group_cnt : Ring(bg, k) \in Group
    <3>1. \A k \in 1 .. ext4_block_group_cnt : k \in Nat
      BY <1>0, Volume
    <3> QED
      BY <1>0, <3>1, RingType
  <2> QED
    BY <2>1, RingHitIs
<1>3. steps = {k \in 1 .. ext4_block_group_cnt : At(Ring(bg, k), 0) # None}
  BY <1>2
<1>4. Nearest(goal) = IF At(bg, idx) # None THEN ext4_fs_bg_idx_to_addr(At(bg, idx), bg)
                      ELSE ext4_fs_bg_idx_to_addr(At(Ring(bg, next), 0), Ring(bg, next))
  <2> DEFINE bitmap(g) == Bits(g) \cap (0 .. BlocksPerGroup - 1)
             at(g, from) == FirstClear(bitmap(g), from, BlocksPerGroup)
  <2>1. ASSUME NEW g, NEW from \in Nat
        PROVE  at(g, from) = At(g, from)
    <3>1. (from .. BlocksPerGroup - 1) \ bitmap(g) = (from .. BlocksPerGroup - 1) \ Bits(g)
      BY <1>0, Volume
    <3> QED
      BY <3>1 DEF FirstClear, At
  <2>2. /\ \A g : at(g, idx) = At(g, idx)
        /\ \A g : at(g, 0) = At(g, 0)
    BY <1>0, <2>1
  <2>3. Nearest(goal) =
          LET after == Min({k \in 1 .. ext4_block_group_cnt : at(Ring(bg, k), 0) # None})
          IN IF at(bg, idx) # None THEN ext4_fs_bg_idx_to_addr(at(bg, idx), bg)
             ELSE ext4_fs_bg_idx_to_addr(at(Ring(bg, after), 0), Ring(bg, after))
    BY DEF Nearest
  <2> HIDE DEF at, bg, idx
  <2>4. Min({k \in 1 .. ext4_block_group_cnt : at(Ring(bg, k), 0) # None}) = next
    BY <2>2
  <2> HIDE DEF next
  <2> QED
    BY <2>2, <2>3, <2>4
<1>5. PICK hit \in goalHits :
        h = IF hit # None THEN [bg |-> bg, idx |-> hit, seen |-> {bg}]
            ELSE [bg |-> Ring(bg, last), idx |-> RingHit(Ring(bg, last)), seen |-> seen]
  BY DEF Searches, LastStep
<1>6. hit = At(bg, idx)
  BY <1>1, <1>5
<1>7. CASE hit # None
  <2>1. h.bg = bg /\ h.idx = At(bg, idx)
    BY <1>5, <1>6, <1>7
  <2> QED
    BY <1>4, <1>6, <1>7, <2>1
<1>8. CASE hit = None
  <2>1. h.bg = Ring(bg, last) /\ h.idx = RingHit(Ring(bg, last))
    BY <1>5, <1>8
  <2>2. last = IF steps = {} THEN ext4_block_group_cnt ELSE Min(steps)
    BY DEF LastStep
  <2>3. last \in 1 .. ext4_block_group_cnt
    BY <1>0, LastStepOf, Volume
  <2>4. last \in steps
    BY <2>1, <2>3
  <2>5. last = next
    BY <1>3, <2>2, <2>4
  <2>6. h.idx = At(Ring(bg, last), 0)
    BY <1>2, <2>1, <2>3
  <2> HIDE DEF last, next, bg, idx
  <2> QED
    BY <1>4, <1>6, <1>8, <2>1, <2>5, <2>6
<1> QED
  BY <1>7, <1>8

(* An allocation with a goal takes the first free block of the goal's group
   that is not before the goal, else the first of the next group that has one:
   splitting the search into the bits up to the next 64 and the rest, byte by
   byte, and leaving out groups whose count is 0 changes nothing
   (ext4_balloc_alloc_block, ext4_bmap_bit_find_clr). *)
THEOREM NearestIsTaken ==
  ASSUME WholeGroups
  PROVE  Spec => NearestFirst
<1>1. Init => CountInv
  BY InitCounts
<1>2. CountInv /\ [Next]_vars => CountInv'
  BY NextCounts
<1> DEFINE Step == \A o \in Inode, goal \in Goals :
                     /\ ~failed' /\ Home(goal) \in Group
                     /\ ext4_balloc_alloc_block(o, goal)
                     /\ ret' = "EOK"
                     => own'[o] \ own[o] = {Nearest(goal)}
<1>3. ASSUME CountInv
      PROVE  Step
  <2> SUFFICES ASSUME NEW o \in Inode, NEW goal \in Goals, ~failed', Home(goal) \in Group,
                      ext4_balloc_alloc_block(o, goal), ret' = "EOK"
               PROVE  own'[o] \ own[o] = {Nearest(goal)}
    OBVIOUS
  <2>1. OneGroupCount /\ GoalsInside /\ IInv /\ Inside /\ (~failed => FreeMatch) /\ HeaderMarked
        /\ own \in [Inode -> SUBSET Block] /\ NoSharing
    BY <1>3, WholeVolume DEF CountInv, IInv
  <2>2. PICK h \in Searches(Home(goal), Index(goal)) :
          /\ h.idx # None
          /\ Returns("EOK", FALSE)
          /\ own' = [own EXCEPT ![o] = @ \cup {ext4_fs_bg_idx_to_addr(h.idx, h.bg)}]
    BY DEF ext4_balloc_alloc_block, Home, Index, Returns
  <2>3. ~failed
    BY <2>2 DEF Returns
  <2> DEFINE b == ext4_fs_bg_idx_to_addr(h.idx, h.bg)
  <2>4. b = Nearest(goal)
    BY <2>1, <2>2, <2>3, SearchNearest
  <2>5. h.bg \in Group /\ h.idx \in 0 .. BlocksPerGroup - 1 /\ h.idx \notin Bits(h.bg)
    BY <2>1, <2>2, GoalPlace, SearchFinds DEF GoalsInside
  <2>6. h.idx \in 0 .. Size(h.bg) - 1
    BY <2>1, <2>5, ClearIsBlock
  <2>7. Home(b) = h.bg /\ Index(b) = h.idx
    BY <2>1, <2>5, <2>6, AddressOf
  <2>8. b \notin own[o]
    <3>1. b \in own[o] => Index(b) \in Bits(Home(b))
      BY <2>1 DEF NoSharing
    <3> QED
      BY <2>5, <2>7, <3>1
  <2> HIDE DEF b
  <2>9. own'[o] = own[o] \cup {b}
    BY <2>1, <2>2 DEF b
  <2> QED
    BY <2>4, <2>8, <2>9
<1>4. CountInv /\ [Next]_vars => [Step]_vars
  BY <1>3
<1>5. NearestFirst <=> [][Step]_vars
  BY DEF NearestFirst
<1> HIDE DEF Step
<1> QED
  BY <1>1, <1>2, <1>4, <1>5, PTL DEF Spec

-----------------------------------------------------------------------------
(* What the superblock and the inodes count. *)
SbMatch == sbFree = Total(free, Group)
InodeMatch == \A o \in Inode : blocks[o] = Cardinality(own[o])
SumInv ==
  /\ CountInv
  /\ blocks = [o \in Inode |-> blocks[o]]
  /\ ~failed => SbMatch /\ InodeMatch

(* The bit of the superblock. *)
LEMMA SuperInit ==
  ASSUME OneGroupCount
  PROVE  0 \in ext4_fs_init_block_bitmap(0)
<1>0. Groups \in Nat \ {0}
  BY Volume
<1>1. ext4_sb_is_super_in_bg(0)
  BY DEF ext4_sb_is_super_in_bg, ext4_sb_sparse
<1>2. DescPerBlock \in Nat \ {0}
  BY LayoutAssumption
<1>3. ext4_bg_num_gdb(0) = DivUp(Groups, DescPerBlock)
  BY <1>1, Volume DEF ext4_bg_num_gdb
<1>4. DivUp(Groups, DescPerBlock) \in Nat
  <2>1. Groups + DescPerBlock - 1 \in Nat
    BY <1>0, <1>2
  <2> QED
    BY <1>2, <2>1, DivMod DEF DivUp
<1>5. 0 \in 0 .. (1 + ext4_bg_num_gdb(0)) - 1
  BY <1>3, <1>4
<1> QED
  BY <1>1, <1>5 DEF ext4_fs_init_block_bitmap

(* Block FirstDataBlock is the superblock: its bit is always set and no inode
   holds it. *)
LEMMA SuperHeld ==
  ASSUME OneGroupCount, HeaderMarked, NoSharing
  PROVE  /\ 0 \in Group /\ 0 \in Bits(0)
         /\ \A b \in Block : Index(b) \notin Bits(Home(b)) => b # FirstDataBlock
         /\ \A o \in Inode : FirstDataBlock \notin own[o]
<1>1. 0 \in Group /\ Groups \in Nat \ {0} /\ BlocksPerGroup \in Nat \ {0} /\ Word \in Nat \ {0} /\ FirstDataBlock \in {0, 1}
  BY Volume
<1>2. 0 \in ext4_fs_init_block_bitmap(0)
  BY SuperInit
<1>3. Home(FirstDataBlock) = 0 /\ Index(FirstDataBlock) = 0
  <2>1. InGroups(FirstDataBlock) = 0
    BY <1>1 DEF InGroups
  <2>2. 0 \div BlocksPerGroup = 0 /\ 0 % BlocksPerGroup = 0
    <3>1. 0 \in 0 .. BlocksPerGroup - 1 /\ 0 * BlocksPerGroup + 0 = 0
      BY <1>1
    <3> QED
      BY <1>1, <3>1, DivModUnique
  <2>3. 0 % Word = 0
    BY <1>1, ModSmall
  <2> QED
    BY <2>1, <2>2, <2>3 DEF Home, Index, ext4_balloc_get_bgid_of_block, ext4_fs_addr_to_idx_bg
<1>4. 0 \in Bits(0)
  BY <1>1, <1>2 DEF HeaderMarked
<1> QED
  BY <1>1, <1>2, <1>3, <1>4 DEF NoSharing

(* So an inode has less than 2^32 blocks. *)
LEMMA HeldSmall ==
  ASSUME OneGroupCount, NEW X \in SUBSET Block, FirstDataBlock \notin X
  PROVE  IsFiniteSet(X) /\ Cardinality(X) \in 0 .. Word - 1
<1>1. FirstDataBlock \in {0, 1} /\ LenBlocks \in Nat /\ LenBlocks <= Word /\ LenBlocks > 0 /\ Word \in Nat
  BY Volume
<1> DEFINE I == FirstDataBlock + 1 .. LenBlocks - 1
<1>2. X \subseteq I
  BY <1>1 DEF Block
<1>3. IsFiniteSet(I) /\ Cardinality(I) = IF FirstDataBlock + 1 > LenBlocks - 1 THEN 0 ELSE LenBlocks - 1 - (FirstDataBlock + 1) + 1
  <2>1. FirstDataBlock + 1 \in Int /\ LenBlocks - 1 \in Int
    BY <1>1
  <2> QED
    BY <2>1, FS_Interval
<1> HIDE DEF I
<1>4. IsFiniteSet(X) /\ Cardinality(X) <= Cardinality(I) /\ Cardinality(X) \in Nat
  BY <1>2, <1>3, FS_Subset, FS_CardinalityType
<1> QED
  BY <1>1, <1>3, <1>4

(* And the volume less than 2^32 free blocks. *)
LEMMA FreeSmall ==
  ASSUME WholeGroups, NEW f, \A g \in Group : f[g] \in 0 .. BitsPerBlock, f[0] # BitsPerBlock
  PROVE  Total(f, Group) \in 0 .. Word - 1
<1>1. /\ Group = 0 .. Groups - 1 /\ Groups \in Nat \ {0} /\ BitsPerBlock = BlocksPerGroup /\ BlocksPerGroup \in Nat
      /\ LenBlocks = (Groups - 1) * BlocksPerGroup + BlocksPerGroup /\ LenBlocks <= Word /\ Word \in Nat
  BY WholeVolume, Volume
<1>2. IsFiniteSet(Group) /\ Cardinality(Group) = Groups /\ 0 \in Group
  <2>1. Groups - 1 \in Int
    BY <1>1
  <2>2. IsFiniteSet(0 .. Groups - 1) /\ Cardinality(0 .. Groups - 1) = IF 0 > Groups - 1 THEN 0 ELSE Groups - 1 - 0 + 1
    BY <2>1, FS_Interval
  <2> QED
    BY <1>1, <2>2
<1> DEFINE m == [g \in Group |-> IF g = 0 THEN f[g] + 1 ELSE f[g]]
<1>3. \A g \in Group : f[g] \in Int /\ m[g] \in Int /\ m[g] \in 0 .. BlocksPerGroup
  BY <1>1
<1>4. \A g \in Group \ {0} : m[g] = f[g]
  OBVIOUS
<1>5. m[0] - f[0] = 1
  BY <1>2, <1>3
<1> HIDE DEF m
<1>6. Total(m, Group) = Total(f, Group) + (m[0] - f[0]) /\ Total(f, Group) \in Int
  <2>1. \A g \in Group : f[g] \in Int /\ m[g] \in Int
    BY <1>3
  <2> QED
    BY ONLY <1>2, <2>1, <1>4, TotalChanged
<1>7. Total(m, Group) \in Nat /\ Total(m, Group) <= Cardinality(Group) * BlocksPerGroup
  BY <1>1, <1>2, <1>3, TotalBounded
<1>8. Total(f, Group) \in Nat
  BY <1>1, <1>2, TotalBounded
<1>9. Groups * BlocksPerGroup = (Groups - 1) * BlocksPerGroup + BlocksPerGroup
  BY <1>1
<1>10. Total(m, Group) <= Word
  <2>1. Total(m, Group) <= LenBlocks
    BY <1>1, <1>2, <1>7, <1>9
  <2> QED
    BY <1>1, <1>7, <2>1
<1> QED
  BY <1>1, <1>5, <1>6, <1>8, <1>10

(* The counts of a volume whose bitmaps they match. *)
LEMMA FreeIs ==
  ASSUME WholeGroups, HeaderMarked, NoSharing, Inside, FreeMatch
  PROVE  /\ \A g \in Group : free[g] \in 0 .. BitsPerBlock
         /\ Total(free, Group) \in 0 .. Word - 1
<1>0. OneGroupCount /\ BitsPerBlock \in Nat
  BY WholeVolume, Volume
<1>1. ASSUME NEW g \in Group
      PROVE  /\ free[g] = BitsPerBlock - Cardinality(Bits(g))
             /\ Cardinality(Bits(g)) \in 0 .. BitsPerBlock
             /\ IsFiniteSet(Bits(g))
  BY BitmapSize DEF FreeMatch, Inside
<1>2. 0 \in Group /\ 0 \in Bits(0)
  BY <1>0, SuperHeld
<1>3. Cardinality(Bits(0)) # 0
  BY <1>1, <1>2, FS_EmptySet
<1>4. \A g \in Group : free[g] \in 0 .. BitsPerBlock
  BY <1>0, <1>1
<1>5. free[0] # BitsPerBlock
  BY <1>0, <1>1, <1>2, <1>3
<1> QED
  BY <1>4, <1>5, FreeSmall

(* The same after a step. *)
LEMMA FreeNext ==
  ASSUME WholeGroups, CountInv', ~failed'
  PROVE  /\ \A g \in Group : free'[g] \in 0 .. BitsPerBlock
         /\ Total(free', Group) \in 0 .. Word - 1
<1>0. OneGroupCount /\ BitsPerBlock \in Nat /\ HeaderMarked' /\ Inside' /\ FreeMatch'
  BY WholeVolume, Volume DEF CountInv, IInv
<1>1. ASSUME NEW g \in Group
      PROVE  /\ free'[g] = BitsPerBlock - Cardinality((Bits(g))')
             /\ Cardinality((Bits(g))') \in 0 .. BitsPerBlock
             /\ IsFiniteSet((Bits(g))')
  <2>1. (Bits(g))' \in SUBSET (0 .. BitsPerBlock - 1) /\ free'[g] = BitsPerBlock - Cardinality((Bits(g))')
    BY <1>0 DEF FreeMatch, Inside
  <2> QED
    BY <2>1, BitmapSize
<1>2. 0 \in Group
  BY <1>0, Volume
<1>3. 0 \in (Bits(0))'
  BY <1>0, <1>2, SuperInit DEF HeaderMarked
<1>4. Cardinality((Bits(0))') # 0
  BY <1>1, <1>2, <1>3, FS_EmptySet
<1>5. \A g \in Group : free'[g] \in 0 .. BitsPerBlock
  BY <1>0, <1>1
<1>6. free'[0] # BitsPerBlock
  BY <1>0, <1>1, <1>2, <1>4
<1> QED
  BY <1>5, <1>6, FreeSmall

(* A step that keeps bitmaps, counts and holders, or breaks off. *)
LEMMA SumsKept ==
  ASSUME SumInv, CountInv', blocks' = [o \in Inode |-> blocks'[o]],
         failed' \/ (~failed /\ UNCHANGED <<free, sbFree, blocks, own>>)
  PROVE  SumInv'
<1>1. ASSUME ~failed'
      PROVE  SbMatch' /\ InodeMatch'
  <2>1. UNCHANGED <<free, sbFree, blocks, own>> /\ ~failed
    BY <1>1
  <2> QED
    BY <2>1 DEF SumInv, SbMatch, InodeMatch
<1> QED
  BY <1>1 DEF SumInv

(* The groups are finitely many. *)
LEMMA GroupTotal ==
  ASSUME OneGroupCount, NEW g \in Group, NEW p, NEW q,
         \A k \in Group : p[k] \in Int /\ q[k] \in Int,
         \A k \in Group \ {g} : q[k] = p[k]
  PROVE  Total(q, Group) = Total(p, Group) + (q[g] - p[g]) /\ Total(p, Group) \in Int
<1>1. Groups - 1 \in Int /\ 0 \in Int /\ Group = 0 .. Groups - 1
  BY Volume
<1>2. IsFiniteSet(0 .. Groups - 1)
  BY ONLY <1>1, FS_Interval
<1>3. IsFiniteSet(Group)
  BY <1>1, <1>2
<1>4. Total(q, Group) = Total(p, Group) + (q[g] - p[g])
  BY <1>3, TotalChanged
<1>5. Total(p, Group) \in Int
  BY <1>3, TotalChanged
<1> QED
  BY <1>4, <1>5

(* A group's count and the superblock's change by n, and so does the inode's. *)
LEMMA SumsCounted ==
  ASSUME WholeGroups, SumInv, CountInv', ~failed, ~failed',
         NEW o \in Inode, NEW g \in Group, NEW n \in Int, Counted(o, g, n),
         free[g] - n \in 0 .. BitsPerBlock,
         own' = [own EXCEPT ![o] = own'[o]],
         Cardinality(own'[o]) = Cardinality(own[o]) + n, Cardinality(own'[o]) \in 0 .. Word - 1
  PROVE  SumInv'
<1>0. /\ OneGroupCount /\ HeaderMarked /\ NoSharing /\ Inside /\ FreeMatch
      /\ HeaderMarked' /\ NoSharing' /\ Inside' /\ FreeMatch'
      /\ SbMatch /\ InodeMatch /\ own \in [Inode -> SUBSET Block]
      /\ free = [k \in Group |-> free[k]] /\ blocks = [p \in Inode |-> blocks[p]]
  BY WholeVolume DEF SumInv, CountInv, IInv
<1>1. /\ free' = [free EXCEPT ![g] = (free[g] - n) % Word]
      /\ sbFree' = (sbFree - n) % Word
      /\ blocks' = [blocks EXCEPT ![o] = (blocks[o] + n) % Word]
  BY DEF Counted
<1>2. BitsPerBlock \in Nat /\ BitsPerBlock < Word /\ Word \in Nat
  BY <1>0, Volume, BallocAssumption
<1>3. free'[g] = free[g] - n
  <2>1. (free[g] - n) % Word = free[g] - n
    BY <1>0, <1>2, ModSmall
  <2> QED
    BY <1>0, <1>1, <2>1
<1>4. \A k \in Group \ {g} : free'[k] = free[k]
  BY <1>0, <1>1
<1>5. \A k \in Group : free[k] \in 0 .. BitsPerBlock
  BY <1>0, FreeIs
<1>6. \A k \in Group : free'[k] \in 0 .. BitsPerBlock
  BY <1>3, <1>4, <1>5
<1>8. Total(free', Group) = Total(free, Group) + (free'[g] - free[g]) /\ Total(free, Group) \in Int
  <2>1. \A k \in Group : free[k] \in Int /\ free'[k] \in Int
    BY <1>2, <1>5, <1>6
  <2> DEFINE p == free
             q == free'
  <2>2. \A k \in Group : p[k] \in Int /\ q[k] \in Int
    BY <2>1
  <2>3. \A k \in Group \ {g} : q[k] = p[k]
    BY <1>4
  <2> HIDE DEF p, q
  <2>4. Total(q, Group) = Total(p, Group) + (q[g] - p[g]) /\ Total(p, Group) \in Int
    BY <1>0, <2>2, <2>3, GroupTotal
  <2> QED
    BY <2>4 DEF p, q
<1>9. Total(free', Group) \in 0 .. Word - 1
  BY FreeNext
<1>10. SbMatch'
  <2>1. sbFree - n = Total(free', Group)
    BY <1>0, <1>3, <1>5, <1>8 DEF SbMatch
  <2>2. Total(free', Group) % Word = Total(free', Group)
    BY <1>0, <1>2, <1>9, ModSmall
  <2> QED
    BY <1>1, <2>1, <2>2 DEF SbMatch
<1>11. InodeMatch'
  <2>1. blocks'[o] = Cardinality(own'[o])
    <3>1. Cardinality(own'[o]) % Word = Cardinality(own'[o])
      BY <1>0, <1>2, ModSmall
    <3>2. blocks[o] + n = Cardinality(own'[o])
      BY <1>0 DEF InodeMatch
    <3> QED
      BY <1>0, <1>1, <3>1, <3>2
  <2>2. \A p \in Inode \ {o} : own'[p] = own[p] /\ blocks'[p] = blocks[p]
    BY <1>0, <1>1
  <2> QED
    BY <1>0, <2>1, <2>2 DEF InodeMatch
<1>12. blocks' = [p \in Inode |-> blocks'[p]]
  BY <1>0, <1>1
<1> QED
  BY <1>10, <1>11, <1>12 DEF SumInv

(* A clear bit of a group leaves a count above zero; a block that is handed out
   makes its inode one larger. *)
LEMMA SumsGiven ==
  ASSUME WholeGroups, SumInv, CountInv', ~failed, ~failed',
         NEW o \in Inode, NEW b \in Block, Index(b) \notin Bits(Home(b)), Counted(o, Home(b), 1),
         own' = [own EXCEPT ![o] = own[o] \cup {b}]
  PROVE  SumInv'
<1> DEFINE g == Home(b)
<1>0. /\ OneGroupCount /\ HeaderMarked /\ NoSharing /\ Inside /\ FreeMatch
      /\ own \in [Inode -> SUBSET Block]
  BY WholeVolume DEF SumInv, CountInv, IInv
<1>1. g \in Group /\ Index(b) \in 0 .. BitsPerBlock - 1 /\ BitsPerBlock \in Nat
  <2>1. Home(b) \in Group /\ Index(b) \in 0 .. Size(Home(b)) - 1
    BY <1>0, PlaceOf
  <2>2. Index(b) \in 0 .. BlocksPerGroup - 1
    BY <1>0, <2>1, SlotInGroup
  <2> QED
    BY <1>0, <2>1, <2>2, Volume
<1>2. free[g] - 1 \in 0 .. BitsPerBlock
  <2>1. Bits(g) \in SUBSET (0 .. BitsPerBlock - 1) /\ Bits(g) # 0 .. BitsPerBlock - 1
    BY <1>0, <1>1 DEF Inside
  <2>2. Cardinality(Bits(g)) \in 0 .. BitsPerBlock /\ Cardinality(Bits(g)) # BitsPerBlock
    BY <2>1, BitmapSize
  <2>3. free[g] = BitsPerBlock - Cardinality(Bits(g))
    BY <1>0, <1>1 DEF FreeMatch
  <2> QED
    BY <1>1, <2>2, <2>3
<1>3. own'[o] = own[o] \cup {b} /\ own' = [own EXCEPT ![o] = own'[o]]
  BY <1>0
<1>4. b \notin own[o] /\ FirstDataBlock \notin own[o] /\ b # FirstDataBlock
  <2>1. b \notin own[o]
    BY DEF NoSharing, SumInv, CountInv, IInv
  <2> QED
    BY <1>0, <2>1, SuperHeld
<1>5. IsFiniteSet(own[o]) /\ Cardinality(own[o]) \in 0 .. Word - 1
  <2>1. own[o] \in SUBSET Block
    BY <1>0
  <2> QED
    BY <1>0, <1>4, <2>1, HeldSmall
<1>6. Cardinality(own'[o]) = Cardinality(own[o]) + 1
  BY <1>3, <1>4, <1>5, FS_AddElement
<1>7. Cardinality(own'[o]) \in 0 .. Word - 1
  <2>1. own'[o] \in SUBSET Block /\ FirstDataBlock \notin own'[o]
    BY <1>0, <1>3, <1>4
  <2> QED
    BY <1>0, <2>1, HeldSmall
<1>8. g \in Group /\ Counted(o, g, 1) /\ 1 \in Int
  BY <1>1
<1> HIDE DEF g
<1> QED
  BY ONLY <1>2, <1>3, <1>6, <1>7, <1>8, WholeGroups, SumInv, CountInv', ~failed, ~failed', o \in Inode, SumsCounted

(* ext4_balloc_alloc_block counts what it hands out. *)
LEMMA AllocSums ==
  ASSUME WholeGroups, SumInv, CountInv', NEW o \in Inode, NEW goal \in Goals,
         ext4_balloc_alloc_block(o, goal)
  PROVE  SumInv'
<1> DEFINE bg == Home(goal)
           idx == Index(goal)
<1>0. /\ OneGroupCount /\ GoalsInside /\ IInv /\ failed \in BOOLEAN /\ CountInv
      /\ blocks = [p \in Inode |-> blocks[p]]
  BY WholeVolume DEF SumInv, CountInv, IInv
<1>1. bg \in Nat /\ idx \in 0 .. BlocksPerGroup - 1 /\ (bg \in Group => idx <= ext4_blocks_in_group_cnt(bg))
  BY <1>0, GoalPlace DEF GoalsInside
<1>2. \/ NotCounted /\ UNCHANGED own /\ (Returns("EIO", TRUE) \/ Returns("ENOSPC", FALSE) \/ Returns("EIO", FALSE))
      \/ \E h \in Searches(bg, idx) :
           /\ h.idx # None
           /\ Counted(o, h.bg, 1)
           /\ \/ Returns("EIO", TRUE)
              \/ Returns("EOK", FALSE) /\ own' = [own EXCEPT ![o] = @ \cup {ext4_fs_bg_idx_to_addr(h.idx, h.bg)}]
  BY DEF ext4_balloc_alloc_block, Home, Index, NotCounted
<1> HIDE DEF bg, idx
<1>3. CASE NotCounted /\ UNCHANGED own /\ (Returns("EIO", TRUE) \/ Returns("ENOSPC", FALSE) \/ Returns("EIO", FALSE))
  <2>1. UNCHANGED <<free, sbFree, blocks, own>> /\ (failed' = TRUE \/ failed' = failed)
    BY <1>0, <1>3 DEF NotCounted, Returns
  <2> QED
    BY <1>0, <2>1, SumsKept
<1>4. ASSUME NEW h \in Searches(bg, idx), h.idx # None, Counted(o, h.bg, 1),
             \/ Returns("EIO", TRUE)
             \/ Returns("EOK", FALSE) /\ own' = [own EXCEPT ![o] = @ \cup {ext4_fs_bg_idx_to_addr(h.idx, h.bg)}]
      PROVE  SumInv'
  <2>1. blocks' = [p \in Inode |-> blocks'[p]]
    BY <1>0, <1>4 DEF Counted
  <2>2. CASE failed'
    BY <2>1, <2>2, SumsKept
  <2>3. CASE ~failed'
    <3> DEFINE b == ext4_fs_bg_idx_to_addr(h.idx, h.bg)
    <3>1. ~failed /\ own' = [own EXCEPT ![o] = own[o] \cup {b}]
      BY <1>0, <1>4, <2>3 DEF Returns
    <3>2. h.bg \in Group /\ h.idx \in 0 .. BlocksPerGroup - 1 /\ h.idx \notin Bits(h.bg)
      BY <1>0, <1>1, <1>4, SearchFinds DEF IInv
    <3>3. h.idx \in 0 .. Size(h.bg) - 1
      BY <1>0, <3>2, ClearIsBlock DEF IInv
    <3>4. b \in Block /\ Home(b) = h.bg /\ Index(b) = h.idx
      BY <1>0, <3>2, <3>3, AddressOf
    <3> HIDE DEF b
    <3> QED
      BY <1>4, <2>3, <3>1, <3>2, <3>4, SumsGiven
  <2> QED
    BY <2>2, <2>3
<1> QED
  BY <1>2, <1>3, <1>4

(* So does ext4_balloc_try_alloc_block. *)
LEMMA TryAllocSums ==
  ASSUME WholeGroups, SumInv, CountInv', NEW o \in Inode, NEW b \in Block,
         ext4_balloc_try_alloc_block(o, b)
  PROVE  SumInv'
<1>0. failed \in BOOLEAN /\ own \in [Inode -> SUBSET Block] /\ blocks = [p \in Inode |-> blocks[p]]
  BY DEF SumInv, CountInv, IInv
<1>1. \/ NotCounted /\ UNCHANGED own /\ (Returns("EIO", TRUE) \/ Returns("EOK", FALSE))
      \/ NotCounted /\ Returns("EIO", TRUE)
      \/ /\ Index(b) \notin Bits(Home(b)) /\ Counted(o, Home(b), 1)
         /\ Returns("EIO", TRUE) \/ (Returns("EOK", FALSE) /\ own' = [own EXCEPT ![o] = @ \cup {b}])
  BY DEF ext4_balloc_try_alloc_block, Home, Index
<1>2. CASE NotCounted /\ (Returns("EIO", TRUE) \/ (Returns("EOK", FALSE) /\ UNCHANGED own))
  <2>1. UNCHANGED <<free, sbFree, blocks>> /\ (failed' = TRUE \/ (failed' = failed /\ UNCHANGED own))
    BY <1>0, <1>2 DEF NotCounted, Returns
  <2> QED
    BY <1>0, <2>1, SumsKept
<1>3. CASE /\ Index(b) \notin Bits(Home(b)) /\ Counted(o, Home(b), 1)
           /\ Returns("EIO", TRUE) \/ (Returns("EOK", FALSE) /\ own' = [own EXCEPT ![o] = @ \cup {b}])
  <2>1. blocks' = [p \in Inode |-> blocks'[p]]
    BY <1>0, <1>3 DEF Counted
  <2>2. CASE failed'
    BY <2>1, <2>2, SumsKept
  <2>3. CASE ~failed'
    <3>1. ~failed /\ own' = [own EXCEPT ![o] = own[o] \cup {b}]
      BY <1>0, <1>3, <2>3 DEF Returns
    <3> QED
      BY <1>3, <2>3, <3>1, SumsGiven
  <2> QED
    BY <2>2, <2>3
<1> QED
  BY <1>1, <1>2, <1>3

(* ext4_balloc_free_block takes back what it frees. *)
LEMMA FreeBlockSums ==
  ASSUME WholeGroups, SumInv, CountInv', NEW o \in Inode, NEW b \in own[o],
         ext4_balloc_free_block(o, b)
  PROVE  SumInv'
<1> DEFINE g == Home(b)
<1>0. /\ OneGroupCount /\ IInv /\ HeaderMarked /\ NoSharing /\ Inside /\ failed \in BOOLEAN
      /\ own \in [Inode -> SUBSET Block] /\ blocks = [p \in Inode |-> blocks[p]]
  BY WholeVolume DEF SumInv, CountInv, IInv
<1>1. /\ own' = [own EXCEPT ![o] = own[o] \ {b}]
      /\ Returns("EIO", TRUE) \/ (Returns("EOK", FALSE) /\ Counted(o, g, -1))
      /\ NotCounted \/ Counted(o, g, -1)
  BY DEF ext4_balloc_free_block, Home
<1>2. g \in Group /\ Index(b) \in Bits(g)
  BY <1>0, HeldBit
<1> HIDE DEF g
<1>3. blocks' = [p \in Inode |-> blocks'[p]]
  BY <1>0, <1>1 DEF Counted, NotCounted
<1>4. CASE failed'
  BY <1>3, <1>4, SumsKept
<1>5. CASE ~failed'
  <2>1. ~failed /\ Counted(o, g, -1) /\ FreeMatch
    BY <1>0, <1>1, <1>5 DEF Returns, SumInv, CountInv
  <2>2. free[g] - (-1) \in 0 .. BitsPerBlock
    <3>1. Bits(g) \in SUBSET (0 .. BitsPerBlock - 1)
      BY <1>0, <1>2 DEF Inside
    <3>2. IsFiniteSet(Bits(g)) /\ Cardinality(Bits(g)) \in 0 .. BitsPerBlock
      BY <3>1, BitmapSize
    <3>3. Cardinality(Bits(g)) # 0
      BY <1>2, <3>2, FS_EmptySet
    <3>4. free[g] = BitsPerBlock - Cardinality(Bits(g))
      BY <1>2, <2>1 DEF FreeMatch
    <3>5. BitsPerBlock \in Nat
      BY <1>0, Volume
    <3> QED
      BY <3>2, <3>3, <3>4, <3>5
  <2>3. own'[o] = own[o] \ {b} /\ own' = [own EXCEPT ![o] = own'[o]]
    BY <1>0, <1>1
  <2>4. IsFiniteSet(own[o]) /\ Cardinality(own[o]) \in 0 .. Word - 1
    <3>1. own[o] \in SUBSET Block /\ FirstDataBlock \notin own[o]
      BY <1>0, SuperHeld
    <3> QED
      BY <1>0, <3>1, HeldSmall
  <2>5. Cardinality(own'[o]) = Cardinality(own[o]) - 1 /\ Cardinality(own[o]) # 0
    <3>1. Cardinality(own[o] \ {b}) = Cardinality(own[o]) - 1
      BY <2>4, FS_RemoveElement
    <3>2. Cardinality(own[o]) # 0
      BY <2>4, FS_EmptySet
    <3> QED
      BY <2>3, <3>1, <3>2
  <2>6. Cardinality(own'[o]) = Cardinality(own[o]) + (-1) /\ Cardinality(own'[o]) \in 0 .. Word - 1 /\ -1 \in Int
    <3>1. Word \in Nat
      BY <1>0, Volume
    <3> QED
      BY <2>4, <2>5, <3>1
  <2> QED
    BY ONLY <1>2, <1>5, <2>1, <2>2, <2>3, <2>6, WholeGroups, SumInv, CountInv', o \in Inode, SumsCounted
<1> QED
  BY <1>4, <1>5

-----------------------------------------------------------------------------
(* ext4_balloc_free_blocks adds what the chunks hold. *)
Many(chunk, C) == [g \in C |-> chunk[g].n]
LEMMA ManyOf ==
  ASSUME NEW C, IsFiniteSet(C), NEW chunk, \A g \in C : chunk[g].n \in Int
  PROVE  MapThenSumSet(LAMBDA g : chunk[g].n, C) = Total(Many(chunk, C), C)
<1> DEFINE f == Many(chunk, C)
           Ok(F) == F = [s \in SUBSET C |-> IF s = {} THEN 0
                                            ELSE chunk[Picked(s)].n + F[s \ {Picked(s)}]]
           K == CHOOSE F : Ok(F)
<1>1. MapThenSumSet(LAMBDA g : chunk[g].n, C) = K[C]
  BY DEF MapThenSumSet, MapThenFoldSet, Picked
<1>2. \A x \in C : f[x] = chunk[x].n /\ f[x] \in Int
  BY DEF Many
<1> HIDE DEF f
<1>3. ASSUME NEW F
      PROVE  Ok(F) <=> Added(f, C, F)
  <2>1. ASSUME NEW s \in SUBSET C, s # {}
        PROVE  chunk[Picked(s)].n = f[Picked(s)]
    <3>1. Picked(s) \in s
      BY <2>1 DEF Picked
    <3> QED
      BY <1>2, <3>1
  <2>2. [s \in SUBSET C |-> IF s = {} THEN 0 ELSE chunk[Picked(s)].n + F[s \ {Picked(s)}]]
        = [s \in SUBSET C |-> IF s = {} THEN 0 ELSE f[Picked(s)] + F[s \ {Picked(s)}]]
    BY <2>1
  <2> QED
    BY <2>2 DEF Added
<1>4. Added(f, C, Sums(f, C))
  BY <1>2, SumsExist
<1>5. Ok(K)
  <2>1. Ok(Sums(f, C))
    BY <1>3, <1>4
  <2> HIDE DEF Ok
  <2> QED
    BY <2>1
<1> HIDE DEF K
<1>6. Added(f, C, K)
  BY <1>3, <1>5
<1> HIDE DEF Ok
<1>7. K = Sums(f, C)
  BY <1>2, <1>4, <1>6, AddedOnce
<1> QED
  BY <1>1, <1>7, TotalOf DEF f

(* The blocks of a range that are in one group are as many as its chunk says. *)
LEMMA ChunkBlocks ==
  ASSUME OneGroupCount, NEW first \in Block, NEW count \in Nat \ {0},
         first .. first + count - 1 \subseteq Block,
         NEW g \in DOMAIN Chunks(first, count)
  PROVE  LET B == {b \in first .. first + count - 1 : Home(b) = g}
         IN  /\ IsFiniteSet(B)
             /\ Cardinality(B) = Chunks(first, count)[g].n
             /\ Chunks(first, count)[g].n \in Nat
<1> DEFINE S == first .. first + count - 1
           B == {b \in S : Home(b) = g}
           f == [b \in B |-> Index(b)]
<1>1. IsFiniteSet(S)
  <2>1. first \in Int /\ first + count - 1 \in Int
    BY PlaceOf
  <2> QED
    BY <2>1, FS_Interval
<1>2. IsFiniteSet(B)
  <2>1. B \subseteq S
    OBVIOUS
  <2> QED
    BY <1>1, <2>1, FS_Subset
<1>3. f \in Bijection(B, Indices(S, g))
  <2>1. \A b, c \in B : f[b] = f[c] => b = c
    <3>1. \A b \in B : b \in Block /\ Home(b) = g /\ f[b] = Index(b)
      OBVIOUS
    <3> HIDE DEF B, f
    <3> QED
      BY <3>1, SamePlace
  <2>2. f \in [B -> Indices(S, g)]
    BY DEF Indices
  <2>3. \A t \in Indices(S, g) : \E b \in B : f[b] = t
    BY DEF Indices
  <2> HIDE DEF B, f
  <2>4. f \in Injection(B, Indices(S, g))
    BY ONLY <2>1, <2>2 DEF Injection, IsInjective
  <2>5. f \in Surjection(B, Indices(S, g))
    BY ONLY <2>2, <2>3 DEF Surjection
  <2> QED
    BY ONLY <2>4, <2>5 DEF Bijection
<1> HIDE DEF f
<1>4. Cardinality(B) = Cardinality(Indices(S, g))
  BY <1>2, <1>3, FS_Bijection DEF ExistsBijection
<1>5. Cardinality(B) \in Nat
  BY <1>2, FS_CardinalityType
<1>6. Cardinality(Indices(S, g)) = Chunks(first, count)[g].n
  BY ChunkSize
<1> QED
  BY <1>2, <1>4, <1>5, <1>6

(* So the chunks together hold as many blocks as the range. *)
LEMMA ManyCount ==
  ASSUME OneGroupCount, NEW first \in Block, NEW count \in Nat \ {0},
         first .. first + count - 1 \subseteq Block
  PROVE  LET c == Chunks(first, count)
         IN  /\ IsFiniteSet(DOMAIN c)
             /\ Total(Many(c, DOMAIN c), DOMAIN c) = Cardinality(first .. first + count - 1)
<1> DEFINE S == first .. first + count - 1
           c == Chunks(first, count)
           C == DOMAIN c
           f == Many(c, C)
           F == Sums(f, C)
           Part(s) == {b \in S : Home(b) \in s}
           P == {s \in SUBSET C : F[s] = Cardinality(Part(s))}
<1>1. C = Home(first) .. Home(first + count - 1) /\ C \subseteq Group
  BY ChunkBits
<1>2. IsFiniteSet(C)
  <2>1. first + count - 1 \in S
    <3>1. first \in Nat
      BY PlaceOf
    <3> QED
      BY <3>1
  <2>2. Home(first) \in Group /\ Home(first + count - 1) \in Group /\ Group = 0 .. Groups - 1 /\ Groups \in Nat
    BY <2>1, PlaceOf, Volume
  <2>3. Home(first) \in Int /\ Home(first + count - 1) \in Int
    BY <2>2
  <2>4. IsFiniteSet(Home(first) .. Home(first + count - 1))
    BY ONLY <2>3, FS_Interval
  <2> QED
    BY <1>1, <2>4
<1>3. IsFiniteSet(S)
  <2>1. first \in Int /\ first + count - 1 \in Int
    BY PlaceOf
  <2> QED
    BY <2>1, FS_Interval
<1>4. \A g \in C : LET B == {b \in S : Home(b) = g}
                   IN  IsFiniteSet(B) /\ Cardinality(B) = c[g].n /\ c[g].n \in Nat
  BY ChunkBlocks
<1>5. \A b \in S : Home(b) \in C
  <2>1. ASSUME NEW b \in S
        PROVE  Home(b) \in C
    <3>1. b \in Block /\ first + count - 1 \in S /\ first \in Nat /\ b \in Nat /\ first <= b /\ b <= first + count - 1
      BY PlaceOf
    <3>2. first + count - 1 \in Block
      BY <3>1
    <3>3. Home(first) <= Home(b) /\ Home(b) <= Home(first + count - 1)
      BY <3>1, <3>2, HomeOrder
    <3>4. Home(b) \in Group /\ Home(first) \in Group /\ Home(first + count - 1) \in Group /\ Group = 0 .. Groups - 1 /\ Groups \in Nat
      BY <3>1, <3>2, PlaceOf, Volume
    <3> HIDE DEF C
    <3> QED
      BY <1>1, <3>3, <3>4
  <2> QED
    BY <2>1
<1> HIDE DEF S, c, C
<1>6. \A g \in C : f[g] \in Int /\ f[g] = c[g].n
  <2>1. \A g \in C : c[g].n \in Nat
    BY <1>4
  <2>2. f = [g \in C |-> c[g].n]
    BY DEF Many
  <2> HIDE DEF f
  <2> QED
    BY ONLY <2>1, <2>2
<1> HIDE DEF f
<1>7. \A s \in SUBSET C : /\ F[s] \in Int
                          /\ s = {} => F[s] = 0
                          /\ s # {} => Picked(s) \in s /\ F[s] = f[Picked(s)] + F[s \ {Picked(s)}]
  BY <1>2, <1>6, SumsOf
<1> HIDE DEF F
<1>8. {} \in P
  <2>1. Part({}) = {} /\ Cardinality({}) = 0 /\ {} \in SUBSET C
    BY FS_EmptySet
  <2>2. F[{}] = 0
    BY <1>7, <2>1
  <2> HIDE DEF Part
  <2> QED
    BY <2>1, <2>2
<1>9. ASSUME NEW s \in SUBSET C, s # {}, s \ {Picked(s)} \in P
      PROVE  s \in P
  <2> DEFINE x == Picked(s)
             r == s \ {x}
             B == {b \in S : Home(b) = x}
  <2>1. x \in s /\ x \in C /\ x \notin r /\ s = r \cup {x}
    BY <1>7, <1>9
  <2>2. F[s] = f[x] + F[r] /\ F[r] = Cardinality(Part(r))
    BY <1>7, <1>9
  <2> HIDE DEF x, r
  <2>3. IsFiniteSet(B) /\ Cardinality(B) = f[x]
    BY <1>4, <1>6, <2>1
  <2>4. Part(s) = Part(r) \cup B /\ Part(r) \cap B = {}
    BY <2>1
  <2>5. IsFiniteSet(Part(r))
    <3>1. Part(r) \subseteq S
      OBVIOUS
    <3> QED
      BY <1>3, <3>1, FS_Subset
  <2> HIDE DEF Part, B
  <2>6. Cardinality(Part(s)) = Cardinality(Part(r)) + Cardinality(B)
    <3>1. Cardinality(Part(r) \cup B) = Cardinality(Part(r)) + Cardinality(B) - Cardinality(Part(r) \cap B)
      BY <2>3, <2>5, FS_Union
    <3>2. Cardinality({}) = 0 /\ Cardinality(Part(r)) \in Nat /\ Cardinality(B) \in Nat
      BY <2>3, <2>5, FS_EmptySet, FS_CardinalityType
    <3>3. Cardinality(Part(r) \cap B) = 0
      BY ONLY <2>4, <3>2
    <3>4. Cardinality(Part(s)) = Cardinality(Part(r) \cup B)
      BY ONLY <2>4
    <3> QED
      BY ONLY <3>1, <3>2, <3>3, <3>4
  <2>7. Cardinality(Part(r)) \in Nat /\ Cardinality(B) \in Nat
    BY <2>3, <2>5, FS_CardinalityType
  <2> QED
    BY <2>2, <2>3, <2>6, <2>7
<1>10. P = SUBSET C
  <2>1. P \in SUBSET SUBSET C
    OBVIOUS
  <2> HIDE DEF P
  <2> QED
    BY <1>2, <1>8, <1>9, <2>1, PickInduction
<1>11. F[C] = Cardinality(Part(C)) /\ Part(C) = S
  BY <1>5, <1>10
<1> HIDE DEF P, Part
<1>12. Total(f, C) = F[C]
  BY TotalOf DEF F
<1>13. Total(f, C) = Cardinality(S)
  BY <1>11, <1>12
<1> QED
  BY <1>2, <1>13 DEF f, S, c, C

(* ext4_balloc_free_blocks takes back what it frees. *)
LEMMA FreeBlocksSums ==
  ASSUME WholeGroups, SumInv, CountInv', NEW o \in Inode, NEW first \in own[o],
         NEW count \in Nat \ {0}, ext4_balloc_free_blocks(o, first, count)
  PROVE  SumInv'
<1> DEFINE S == first .. first + count - 1
           c == Chunks(first, count)
           C == DOMAIN c
           n == Total(Many(c, C), C)
<1>0. /\ OneGroupCount /\ IInv /\ HeaderMarked /\ NoSharing /\ Inside /\ failed \in BOOLEAN
      /\ own \in [Inode -> SUBSET Block] /\ blocks = [p \in Inode |-> blocks[p]]
      /\ first \in Block
  BY WholeVolume DEF SumInv, CountInv, IInv
<1>1. /\ S \in SUBSET own[o] /\ S \subseteq Block
      /\ own' = [own EXCEPT ![o] = own[o] \ S]
      /\ \/ Freed(o, c, C, C) /\ Returns("EOK", FALSE)
         \/ BrokeOff /\ \E X, Y : Freed(o, c, X, Y)
  <2>1. /\ S \in SUBSET own[o] /\ S \subseteq Block
        /\ own' = [own EXCEPT ![o] = own[o] \ S]
    BY <1>0 DEF ext4_balloc_free_blocks
  <2>2. \/ Freed(o, c, C, C) /\ Returns("EOK", FALSE)
        \/ BrokeOff /\ \E X, Y : Freed(o, c, X, Y)
    BY FreeBlocksEnds
  <2> HIDE DEF c, S
  <2> QED
    BY <2>1, <2>2
<1>2. blocks' = [p \in Inode |-> blocks'[p]]
  BY <1>0, <1>1 DEF Freed
<1>3. CASE failed'
  BY <1>2, <1>3, SumsKept
<1>4. CASE ~failed'
  <2>1. ~failed /\ Freed(o, c, C, C)
    BY <1>0, <1>1, <1>4 DEF Returns, BrokeOff
  <2>2. FreeMatch /\ SbMatch /\ InodeMatch
    BY <2>1 DEF SumInv, CountInv
  <2>3. C \subseteq Group
    BY <1>0, <1>1, ChunkBits
  <2>4. IsFiniteSet(C) /\ n = Cardinality(S)
    BY <1>0, <1>1, ManyCount
  <2>5. \A g \in C : c[g].n = Cardinality(Indices(S, g)) /\ c[g].n \in Nat
    BY <1>0, <1>1, ChunkSize, ChunkBlocks
  <2>6. MapThenSumSet(LAMBDA g : c[g].n, C) = n
    <3>1. \A g \in C : c[g].n \in Int
      BY <2>5
    <3> HIDE DEF c, C
    <3> QED
      BY <2>4, <3>1, ManyOf
  <2>7. /\ free' = [g \in Group |-> IF g \in C THEN (free[g] + c[g].n) % Word ELSE free[g]]
        /\ sbFree' = (sbFree + n) % Word
        /\ blocks' = [blocks EXCEPT ![o] = (blocks[o] - n) % Word]
    <3> HIDE DEF c, C, n
    <3> QED
      BY <2>1, <2>6 DEF Freed
  <2>8. \A k \in Group : Indices(S, k) \subseteq Bits(k)
    BY <1>0, <1>1, HeldBit DEF Indices
  <2>9. /\ BitsPerBlock \in Nat /\ BitsPerBlock < Word /\ Word \in Nat
        /\ \A k \in Group : free[k] \in 0 .. BitsPerBlock /\ free'[k] \in 0 .. BitsPerBlock
        /\ Total(free', Group) \in 0 .. Word - 1 /\ Total(free, Group) \in 0 .. Word - 1
    BY <1>0, <1>4, <2>2, Volume, BallocAssumption, FreeIs, FreeNext
  <2> HIDE DEF c, C, n, S
  <2>10. ASSUME NEW g \in C
         PROVE  free'[g] = free[g] + c[g].n
    <3>1. Bits(g) \in SUBSET (0 .. BitsPerBlock - 1) /\ g \in Group
      BY <1>0, <2>3 DEF Inside
    <3>2. IsFiniteSet(Bits(g)) /\ Cardinality(Bits(g)) \in 0 .. BitsPerBlock
      BY <3>1, BitmapSize
    <3>3. Cardinality(Indices(S, g)) <= Cardinality(Bits(g))
      BY <2>8, <3>1, <3>2, FS_Subset
    <3>4. free[g] = BitsPerBlock - Cardinality(Bits(g))
      BY <2>2, <3>1 DEF FreeMatch
    <3>5. free[g] + c[g].n \in Nat /\ free[g] + c[g].n < Word
      BY <2>5, <2>9, <3>2, <3>3, <3>4
    <3>6. (free[g] + c[g].n) % Word = free[g] + c[g].n
      BY <1>0, <3>5, ModSmall
    <3> QED
      BY <2>7, <3>1, <3>6
  <2>11. Total(free', Group) = Total(free, Group) + n
    <3> DEFINE p == free
               q == free'
               m == Many(c, C)
    <3>1. \A x \in Group : p[x] \in Int /\ q[x] \in Int
      BY <2>9
    <3>2. \A x \in C : m[x] \in Int /\ q[x] = p[x] + m[x]
      BY <2>5, <2>10 DEF Many
    <3>3. \A x \in Group \ C : q[x] = p[x]
      BY <2>7
    <3>4. IsFiniteSet(Group)
      <4>1. Groups - 1 \in Int /\ 0 \in Int /\ Group = 0 .. Groups - 1
        BY <1>0, Volume
      <4>2. IsFiniteSet(0 .. Groups - 1)
        BY ONLY <4>1, FS_Interval
      <4> QED
        BY <4>1, <4>2
    <3>5. n = Total(m, C)
      BY DEF n
    <3> HIDE DEF p, q, m
    <3>6. Total(q, Group) = Total(p, Group) + Total(m, C)
      BY <2>3, <3>1, <3>2, <3>3, <3>4, TotalAdded
    <3> QED
      BY <3>5, <3>6 DEF p, q
  <2>12. SbMatch'
    <3>1. sbFree + n = Total(free', Group)
      BY <2>2, <2>11 DEF SbMatch
    <3>2. Total(free', Group) % Word = Total(free', Group)
      BY <1>0, <2>9, ModSmall
    <3> QED
      BY <2>7, <3>1, <3>2 DEF SbMatch
  <2>13. InodeMatch'
    <3>1. IsFiniteSet(own[o]) /\ Cardinality(own[o]) \in 0 .. Word - 1
      <4>1. own[o] \in SUBSET Block /\ FirstDataBlock \notin own[o]
        BY <1>0, SuperHeld
      <4> QED
        BY <1>0, <4>1, HeldSmall
    <3>2. Cardinality(own[o] \ S) = Cardinality(own[o]) - Cardinality(S)
      <4>1. own[o] \cap S = S
        BY <1>1
      <4> QED
        BY <3>1, <4>1, FS_Difference
    <3>3. IsFiniteSet(S) /\ Cardinality(S) \in Nat /\ Cardinality(S) <= Cardinality(own[o])
      BY <1>1, <3>1, FS_Subset, FS_CardinalityType
    <3>4. Cardinality(own[o]) - Cardinality(S) \in Nat /\ Cardinality(own[o]) - Cardinality(S) < Word
      BY <2>9, <3>1, <3>3
    <3>5. (Cardinality(own[o]) - Cardinality(S)) % Word = Cardinality(own[o]) - Cardinality(S)
      BY <1>0, <3>4, ModSmall
    <3>6. blocks'[o] = Cardinality(own'[o])
      BY <1>0, <1>1, <2>2, <2>4, <2>7, <3>2, <3>5 DEF InodeMatch
    <3>7. \A p \in Inode \ {o} : own'[p] = own[p] /\ blocks'[p] = blocks[p]
      BY <1>0, <1>1, <2>7
    <3> QED
      BY <2>2, <3>6, <3>7 DEF InodeMatch
  <2> QED
    BY <1>2, <2>12, <2>13 DEF SumInv
<1> QED
  BY <1>3, <1>4

(* mkfs writes the sum of the groups' counts into the superblock. *)
LEMMA InitSums ==
  ASSUME WholeGroups, Init
  PROVE  SumInv
<1>1. CountInv
  BY InitCounts
<1>2. SbMatch
  BY DEF Init, SbMatch, Total
<1>3. InodeMatch
  BY FS_EmptySet DEF Init, InodeMatch
<1>4. blocks = [o \in Inode |-> blocks[o]]
  BY DEF Init
<1> QED
  BY <1>1, <1>2, <1>3, <1>4 DEF SumInv

(* Every step keeps the sums. *)
LEMMA NextSums ==
  ASSUME WholeGroups, SumInv, [Next]_vars
  PROVE  SumInv'
<1>0. CountInv /\ OneGroupCount /\ IInv
  BY WholeVolume DEF SumInv, CountInv
<1>1. CountInv'
  BY <1>0, NextCounts
<1>2. CASE Next
  <2>1. PICK o \in Inode :
          \/ \E goal \in Goals : ext4_balloc_alloc_block(o, goal)
          \/ \E b \in Block : ext4_balloc_try_alloc_block(o, b)
          \/ \E b \in own[o] : ext4_balloc_free_block(o, b)
          \/ \E first \in own[o], count \in 1 .. Cardinality(own[o]) : ext4_balloc_free_blocks(o, first, count)
    BY <1>2 DEF Next
  <2>2. CASE \E goal \in Goals : ext4_balloc_alloc_block(o, goal)
    BY <1>1, <2>2, AllocSums
  <2>3. CASE \E b \in Block : ext4_balloc_try_alloc_block(o, b)
    BY <1>1, <2>3, TryAllocSums
  <2>4. CASE \E b \in own[o] : ext4_balloc_free_block(o, b)
    BY <1>1, <2>4, FreeBlockSums
  <2>5. CASE \E first \in own[o], count \in 1 .. Cardinality(own[o]) : ext4_balloc_free_blocks(o, first, count)
    <3>1. own[o] \in SUBSET Block /\ FirstDataBlock \notin own[o]
      BY <1>0, SuperHeld DEF IInv
    <3>2. Cardinality(own[o]) \in Nat
      BY <1>0, <3>1, HeldSmall, Volume
    <3>3. \A count \in 1 .. Cardinality(own[o]) : count \in Nat \ {0}
      BY <3>2
    <3> QED
      BY <1>1, <2>5, <3>3, FreeBlocksSums
  <2> QED
    BY <2>1, <2>2, <2>3, <2>4, <2>5
<1>3. CASE UNCHANGED vars
  <2>1. UNCHANGED <<free, sbFree, blocks, own, failed>>
    BY <1>3 DEF vars
  <2> QED
    BY <1>1, <2>1 DEF SumInv, SbMatch, InodeMatch
<1> QED
  BY <1>2, <1>3

(* Until an operation breaks off half-way the counts agree, on every volume of
   whole groups: a group's free count with its bitmap, the superblock's with
   the sum of the groups', an inode's with the blocks it holds, in 32 bits
   (ext4_balloc_alloc_block, ext4_balloc_try_alloc_block,
   ext4_balloc_free_block, ext4_balloc_free_blocks). *)
THEOREM CountsAgree ==
  ASSUME WholeGroups
  PROVE  Spec => []CountsMatch
<1>1. Init => SumInv
  BY InitSums
<1>2. SumInv /\ [Next]_vars => SumInv'
  BY NextSums
<1>3. SumInv => CountsMatch
  <2>1. \A g \in Group : g < Groups
    BY WholeVolume, Volume
  <2> QED
    BY <2>1 DEF SumInv, CountInv, FreeMatch, SbMatch, InodeMatch, CountsMatch, Total
<1> QED
  BY <1>1, <1>2, <1>3, PTL DEF Spec
=============================================================================
