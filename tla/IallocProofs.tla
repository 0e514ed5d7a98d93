---------------------------- MODULE IallocProofs ----------------------------
(***************************************************************************)
(* The inode allocator keeps its invariants on every volume and through    *)
(* every failure it handles.  What a step does to the bitmaps is reduced   *)
(* to what it does to Bits, the bitmaps as the driver finds them, because  *)
(* a group that was never referenced has its bits from                     *)
(* ext4_fs_init_inode_bitmap, not from the variable.                       *)
(***************************************************************************)
EXTENDS Ialloc, LayoutTheorems

Slots == 0 .. InodesPerGroup - 1

(* The bits of group g that are clear and stand for an inode. *)
ClearSlots(g) == Slots \ Bits(g)

(* Strengthenings: a group never counts more free inodes than it has clear
   bits, whatever failed; while nothing failed half-way, the last allocation
   found no space only if every count is 0. *)
FreeCovered == \A g \in Group : free[g] <= Cardinality(ClearSlots(g))

EmptyCounts == ret = "ENOSPC" /\ ~failed => \A g \in Group : free[g] = 0

IInv == TypeOK /\ OwnedIsMarked /\ FreeCovered /\ CountsMatch /\ EmptyCounts

-----------------------------------------------------------------------------
(* What the assumptions say about the volume. *)
LEMMA Volume ==
  /\ Groups \in Nat \ {0} /\ ext4_block_group_cnt = Groups /\ Group = 0 .. Groups - 1
  /\ InodesPerGroup \in Nat \ {0} /\ InodesPerGroup <= BitsPerBlock
  /\ BitsPerBlock \in Nat /\ Word \in Nat \ {0}
  /\ InodesPerGroup * Groups < Word /\ InodesPerGroup * Groups \in Nat
  /\ InodesPerGroup < Word
  /\ \A g \in Group : ext4_inodes_in_group_cnt(g) = InodesPerGroup
<1>1. Groups \in Nat \ {0} /\ ext4_block_group_cnt = Groups /\ Group = 0 .. Groups - 1
  BY IallocAssumption, GroupCount DEF Group
<1>2. InodesPerGroup \in Nat \ {0} /\ InodesPerGroup <= BitsPerBlock
      /\ BitsPerBlock \in Nat /\ Word \in Nat \ {0}
  BY LayoutAssumption
<1>3. InodesPerGroup * Groups < Word /\ InodesPerGroup * Groups \in Nat
  BY <1>1, <1>2, IallocAssumption
<1>4. InodesPerGroup <= InodesPerGroup * Groups
  <2>1. 0 * InodesPerGroup + InodesPerGroup <= Groups * InodesPerGroup
    BY <1>1, <1>2, ProductOrder
  <2> QED
    BY <1>1, <1>2, <2>1
<1>5. InodesPerGroup < Word
  BY <1>1, <1>2, <1>3, <1>4
<1>6. \A g \in Group : ext4_inodes_in_group_cnt(g) = InodesPerGroup
  BY IallocAssumption, InodesInGroup
<1> QED
  BY <1>1, <1>2, <1>3, <1>5, <1>6

(* Counters stay what they are while they are below Word. *)
LEMMA ModSmall ==
  ASSUME NEW n \in Nat, n < Word
  PROVE  n % Word = n
<1>1. (0 * Word + n) % Word = n
  BY Volume, DivModUnique
<1> QED
  BY <1>1, Volume

(* A counter taken modulo Word is below Word. *)
LEMMA ModType ==
  ASSUME NEW n \in Int
  PROVE  n % Word \in 0 .. Word - 1
BY Volume

(* The inode number, its group and its index determine each other
   (ext4_ialloc_inode_to_bgidx, ext4_ialloc_bgidx_to_inode). *)
LEMMA NumberOf ==
  ASSUME NEW g \in Group, NEW idx \in Slots
  PROVE  /\ Number(g, idx) \in 1 .. InodesPerGroup * Groups
         /\ Home(Number(g, idx)) = g
         /\ Index(Number(g, idx)) = idx
<1>1. g \in Nat /\ g < Groups /\ idx \in 0 .. InodesPerGroup - 1
  BY Volume DEF Slots
<1>2. Number(g, idx) - 1 = g * InodesPerGroup + idx /\ g * InodesPerGroup \in Nat
  BY <1>1, Volume DEF Number
<1>3. g * InodesPerGroup + InodesPerGroup <= Groups * InodesPerGroup
  BY <1>1, Volume, ProductOrder
<1>4. (g * InodesPerGroup + idx) \div InodesPerGroup = g
      /\ (g * InodesPerGroup + idx) % InodesPerGroup = idx
  BY <1>1, Volume, DivModUnique
<1>5. Number(g, idx) = g * InodesPerGroup + idx + 1
  BY DEF Number
<1>6. Number(g, idx) \in 1 .. InodesPerGroup * Groups
  BY <1>1, <1>2, <1>3, <1>5, Volume
<1> QED
  BY <1>2, <1>4, <1>6 DEF Home, Index

(* The other way round. *)
LEMMA PlaceOf ==
  ASSUME NEW i \in 1 .. InodesPerGroup * Groups
  PROVE  /\ Home(i) \in Group
         /\ Index(i) \in Slots
         /\ i = Number(Home(i), Index(i))
<1>1. i - 1 \in Nat /\ i - 1 < Groups * InodesPerGroup
  BY Volume
<1>2. /\ (i - 1) \div InodesPerGroup \in Nat
      /\ (i - 1) % InodesPerGroup \in 0 .. InodesPerGroup - 1
      /\ i - 1 = ((i - 1) \div InodesPerGroup) * InodesPerGroup + ((i - 1) % InodesPerGroup)
  BY <1>1, Volume, DivMod
<1>3. (i - 1) \div InodesPerGroup < Groups
  BY <1>1, Volume, DivBound
<1>4. Home(i) \in Nat /\ Home(i) < Groups /\ Index(i) \in 0 .. InodesPerGroup - 1
      /\ i - 1 = Home(i) * InodesPerGroup + Index(i)
  BY <1>2, <1>3 DEF Home, Index
<1>5. i = Home(i) * InodesPerGroup + Index(i) + 1
  BY <1>4, Volume
<1> QED
  BY <1>4, <1>5, Volume DEF Number, Slots

-----------------------------------------------------------------------------
(* The bitmaps as the driver finds them are sets of bits. *)
LEMMA BitsType ==
  ASSUME TypeOK, NEW g \in Group
  PROVE  Bits(g) \in SUBSET (0 .. BitsPerBlock - 1)
<1>1. ext4_fs_init_inode_bitmap \in SUBSET (0 .. BitsPerBlock - 1)
  BY Volume DEF ext4_fs_init_inode_bitmap
<1> QED
  BY <1>1 DEF TypeOK, Bits

(* Referencing groups initialises bitmaps; none changes for the driver. *)
LEMMA BitsReferenced ==
  ASSUME TypeOK, NEW S, Referenced(S)
  PROVE  /\ used' \in [Group -> SUBSET (0 .. BitsPerBlock - 1)]
         /\ uninit' \in SUBSET Group
         /\ \A k \in Group : Bits(k)' = Bits(k)
<1>1. used' \in [Group -> SUBSET (0 .. BitsPerBlock - 1)] /\ uninit' \in SUBSET Group
  BY BitsType DEF TypeOK, Referenced
<1>2. ASSUME NEW k \in Group
      PROVE  Bits(k)' = Bits(k)
  <2>1. CASE k \in uninit \ S
    BY <2>1 DEF Bits, Referenced
  <2>2. CASE k \in S
    BY <2>2 DEF Bits, Referenced
  <2>3. CASE k \notin S /\ k \notin uninit
    BY <2>3 DEF Bits, Referenced
  <2> QED
    BY <2>1, <2>2, <2>3
<1> QED
  BY <1>1, <1>2

(* Rewriting the bitmap of g, which has been referenced, changes no other. *)
LEMMA BitsRewritten ==
  ASSUME TypeOK, NEW S, NEW g \in Group, g \in S,
         NEW bits \in SUBSET (0 .. BitsPerBlock - 1), Rewritten(S, g, bits)
  PROVE  /\ used' \in [Group -> SUBSET (0 .. BitsPerBlock - 1)]
         /\ uninit' \in SUBSET Group
         /\ \A k \in Group : Bits(k)' = IF k = g THEN bits ELSE Bits(k)
<1>1. used' \in [Group -> SUBSET (0 .. BitsPerBlock - 1)] /\ uninit' \in SUBSET Group
  BY BitsType DEF TypeOK, Rewritten
<1>2. ASSUME NEW k \in Group
      PROVE  Bits(k)' = IF k = g THEN bits ELSE Bits(k)
  <2>1. CASE k \in uninit \ S
    BY <2>1 DEF Bits, Rewritten
  <2>2. CASE k \in S
    BY <2>2 DEF Bits, Rewritten
  <2>3. CASE k \notin S /\ k \notin uninit
    BY <2>3 DEF Bits, Rewritten
  <2> QED
    BY <2>1, <2>2, <2>3
<1> QED
  BY <1>1, <1>2

-----------------------------------------------------------------------------
(* The search of ext4_ialloc_alloc_inode visits every group, and only groups. *)
LEMMA OrderCovers ==
  ASSUME TypeOK
  PROVE  /\ DOMAIN Order = 0 .. Groups - 1
         /\ \A k \in DOMAIN Order : Order[k] \in Group
         /\ \A g \in Group : \E k \in DOMAIN Order : Order[k] = g
<1>1. DOMAIN Order = 0 .. Groups - 1 /\ \A k \in 0 .. Groups - 1 : Order[k] = (last + k) % Groups
  BY Volume DEF Order
<1>2. last \in Nat /\ last < Groups /\ Group = 0 .. Groups - 1 /\ Groups \in Nat \ {0}
  BY Volume DEF TypeOK
<1>3. ASSUME NEW k \in 0 .. Groups - 1
      PROVE  Order[k] \in Group
  BY <1>1, <1>2, DivMod
<1>4. ASSUME NEW g \in Group
      PROVE  \E k \in 0 .. Groups - 1 : Order[k] = g
  <2>1. CASE g >= last
    <3>1. g - last \in 0 .. Groups - 1 /\ last + (g - last) = 0 * Groups + g /\ g \in 0 .. Groups - 1
      BY <1>2, <2>1
    <3>2. (0 * Groups + g) % Groups = g
      BY <1>2, <3>1, DivModUnique
    <3> QED
      BY <1>1, <3>1, <3>2
  <2>2. CASE g < last
    <3>1. g - last + Groups \in 0 .. Groups - 1 /\ last + (g - last + Groups) = 1 * Groups + g
          /\ g \in 0 .. Groups - 1
      BY <1>2, <2>2
    <3>2. (1 * Groups + g) % Groups = g
      BY <1>2, <3>1, DivModUnique
    <3> QED
      BY <1>1, <3>1, <3>2
  <2> QED
    BY <1>2, <2>1, <2>2
<1> QED
  BY <1>1, <1>3, <1>4

(* When a group has free inodes the search stops at such a group, which it has
   referenced; otherwise none has. *)
LEMMA SearchStops ==
  ASSUME TypeOK
  PROVE  /\ Candidates = {} => \A g \in Group : free[g] = 0
         /\ Candidates # {} =>
              LET g == Order[Min(Candidates)]
                  seen == {Order[k] : k \in {j \in DOMAIN Order : \A c \in Candidates : j <= c}}
              IN g \in Group /\ g \in seen /\ free[g] > 0
<1>1. /\ DOMAIN Order = 0 .. Groups - 1
      /\ \A k \in DOMAIN Order : Order[k] \in Group
      /\ \A g \in Group : \E k \in DOMAIN Order : Order[k] = g
  BY OrderCovers
<1>2. \A g \in Group : free[g] \in Nat
  BY DEF TypeOK
<1>3. ASSUME Candidates = {}, NEW g \in Group
      PROVE  free[g] = 0
  <2>1. PICK k \in DOMAIN Order : Order[k] = g
    BY <1>1
  <2>2. ~(free[Order[k]] > 0)
    BY <1>3 DEF Candidates
  <2> QED
    BY <1>2, <2>1, <2>2
<1>4. ASSUME Candidates # {}
      PROVE  LET g == Order[Min(Candidates)]
                 seen == {Order[k] : k \in {j \in DOMAIN Order : \A c \in Candidates : j <= c}}
             IN g \in Group /\ g \in seen /\ free[g] > 0
  <2>1. Candidates \in SUBSET Nat
    BY <1>1 DEF Candidates
  <2>2. Min(Candidates) \in Candidates /\ \A c \in Candidates : Min(Candidates) <= c
    BY <1>4, <2>1, LeastNatural
  <2>3. Min(Candidates) \in DOMAIN Order /\ free[Order[Min(Candidates)]] > 0
    BY <2>2 DEF Candidates
  <2> QED
    BY <1>1, <2>2, <2>3
<1> QED
  BY <1>3, <1>4

(* The bit the search takes stands for an inode and was clear. *)
LEMMA FirstFreeFinds ==
  ASSUME NEW g \in Group
  PROVE  /\ FirstFree(g) = None <=> ClearSlots(g) = {}
         /\ FirstFree(g) # None => FirstFree(g) \in ClearSlots(g)
<1>1. FirstFree(g) = FirstClear(Bits(g), 0, InodesPerGroup)
  BY Volume, SearchFromZero DEF FirstFree
<1>2. InodesPerGroup \in Int
  BY Volume
<1>3. /\ FirstFree(g) = None <=> 0 .. InodesPerGroup - 1 \subseteq Bits(g)
      /\ FirstFree(g) # None => FirstFree(g) \in (0 .. InodesPerGroup - 1) \ Bits(g)
  <2>1. LET found == FirstClear(Bits(g), 0, InodesPerGroup)
        IN /\ found = None <=> 0 .. InodesPerGroup - 1 \subseteq Bits(g)
           /\ found # None => /\ found \in (0 .. InodesPerGroup - 1) \ Bits(g)
                              /\ 0 .. found - 1 \subseteq Bits(g)
    BY <1>2, FirstClearFinds, 0 \in Nat
  <2> QED
    BY <1>1, <2>1
<1> QED
  BY <1>3 DEF ClearSlots, Slots

-----------------------------------------------------------------------------
Directories(g) == {i \in Owned(g) : own[i]}
Indices(g) == {Index(i) : i \in Owned(g)}

(* The numbers of the inodes of group g. *)
Numbers(g) == g * InodesPerGroup + 1 .. g * InodesPerGroup + InodesPerGroup

(* The inodes handed out and those of a group are finitely many. *)
LEMMA OwnedFinite ==
  ASSUME OwnedIsMarked
  PROVE  /\ IsFiniteSet(DOMAIN own) /\ Cardinality(DOMAIN own) \in 0 .. InodesPerGroup * Groups
         /\ \A g \in Group : /\ IsFiniteSet(Owned(g)) /\ Cardinality(Owned(g)) \in Nat
                             /\ Cardinality(Owned(g)) <= Cardinality(DOMAIN own)
                             /\ IsFiniteSet(Directories(g))
                             /\ Cardinality(Directories(g)) \in 0 .. Cardinality(Owned(g))
<1>1. DOMAIN own \in SUBSET (1 .. InodesPerGroup * Groups)
  BY DEF OwnedIsMarked
<1>2. IsFiniteSet(1 .. InodesPerGroup * Groups)
      /\ Cardinality(1 .. InodesPerGroup * Groups) = InodesPerGroup * Groups
  <2>1. InodesPerGroup * Groups \in Nat /\ 1 \in Int
    BY Volume
  <2>2. IsFiniteSet(1 .. InodesPerGroup * Groups)
        /\ Cardinality(1 .. InodesPerGroup * Groups) =
             IF 1 > InodesPerGroup * Groups THEN 0 ELSE InodesPerGroup * Groups - 1 + 1
    BY <2>1, FS_Interval
  <2> QED
    BY <2>1, <2>2
<1>3. IsFiniteSet(DOMAIN own) /\ Cardinality(DOMAIN own) <= InodesPerGroup * Groups
  BY <1>1, <1>2, FS_Subset
<1>4. Cardinality(DOMAIN own) \in Nat
  BY <1>3, FS_CardinalityType
<1>5. ASSUME NEW g \in Group
      PROVE  /\ IsFiniteSet(Owned(g)) /\ Cardinality(Owned(g)) \in Nat
             /\ Cardinality(Owned(g)) <= Cardinality(DOMAIN own)
             /\ IsFiniteSet(Directories(g))
             /\ Cardinality(Directories(g)) \in 0 .. Cardinality(Owned(g))
  <2>1. Owned(g) \in SUBSET DOMAIN own /\ Directories(g) \in SUBSET Owned(g)
    BY DEF Owned, Directories
  <2>2. IsFiniteSet(Owned(g)) /\ Cardinality(Owned(g)) <= Cardinality(DOMAIN own)
    BY <1>3, <2>1, FS_Subset
  <2>3. IsFiniteSet(Directories(g)) /\ Cardinality(Directories(g)) <= Cardinality(Owned(g))
    BY <2>1, <2>2, FS_Subset
  <2>4. Cardinality(Owned(g)) \in Nat /\ Cardinality(Directories(g)) \in Nat
    BY <2>2, <2>3, FS_CardinalityType
  <2> QED
    BY <2>2, <2>3, <2>4
<1> QED
  BY <1>3, <1>4, <1>5, Volume

(* The same after a step. *)
LEMMA OwnedFiniteNext ==
  ASSUME OwnedIsMarked'
  PROVE  Cardinality(DOMAIN own') \in 0 .. InodesPerGroup * Groups
<1>1. DOMAIN own' \in SUBSET (1 .. InodesPerGroup * Groups)
  BY DEF OwnedIsMarked
<1>2. InodesPerGroup * Groups \in Nat /\ 1 \in Int
  BY Volume
<1>3. IsFiniteSet(1 .. InodesPerGroup * Groups)
      /\ Cardinality(1 .. InodesPerGroup * Groups) =
           IF 1 > InodesPerGroup * Groups THEN 0 ELSE InodesPerGroup * Groups - 1 + 1
  BY <1>2, FS_Interval
<1>4. IsFiniteSet(DOMAIN own') /\ Cardinality(DOMAIN own') <= Cardinality(1 .. InodesPerGroup * Groups)
  BY <1>1, <1>3, FS_Subset
<1>5. Cardinality(DOMAIN own') \in Nat
  BY <1>4, FS_CardinalityType
<1> QED
  BY <1>2, <1>3, <1>4, <1>5

(* An inode is handed out: what its group holds afterwards. *)
LEMMA OwnedAdded ==
  ASSUME OwnedIsMarked, NEW n, n \notin DOMAIN own, NEW dir \in BOOLEAN,
         own' = [i \in DOMAIN own \cup {n} |-> IF i = n THEN dir ELSE own[i]]
  PROVE  /\ Cardinality(DOMAIN own') = Cardinality(DOMAIN own) + 1
         /\ \A g \in Group :
              IF g = Home(n)
              THEN /\ Cardinality(Owned(g)') = Cardinality(Owned(g)) + 1
                   /\ Cardinality(Directories(g)') = Cardinality(Directories(g)) + Dirs(dir)
                   /\ Indices(g)' = Indices(g) \cup {Index(n)}
              ELSE /\ Owned(g)' = Owned(g)
                   /\ Directories(g)' = Directories(g)
                   /\ Indices(g)' = Indices(g)
<1>1. DOMAIN own' = DOMAIN own \cup {n}
  OBVIOUS
<1>2. Cardinality(DOMAIN own') = Cardinality(DOMAIN own) + 1
  BY <1>1, OwnedFinite, FS_AddElement
<1>3. ASSUME NEW g \in Group, g = Home(n)
      PROVE  /\ Cardinality(Owned(g)') = Cardinality(Owned(g)) + 1
             /\ Cardinality(Directories(g)') = Cardinality(Directories(g)) + Dirs(dir)
             /\ Indices(g)' = Indices(g) \cup {Index(n)}
  <2>1. Owned(g)' = Owned(g) \cup {n} /\ n \notin Owned(g) /\ n \notin Directories(g)
    BY <1>1, <1>3 DEF Owned, Directories
  <2>2. IsFiniteSet(Owned(g)) /\ IsFiniteSet(Directories(g)) /\ Cardinality(Directories(g)) \in Int
    BY OwnedFinite
  <2>3. Cardinality(Owned(g)') = Cardinality(Owned(g)) + 1
    BY <2>1, <2>2, FS_AddElement
  <2>4. Cardinality(Directories(g)') = Cardinality(Directories(g)) + Dirs(dir)
    <3>1. CASE dir
      <4>1. Directories(g)' = Directories(g) \cup {n}
        BY <2>1, <3>1 DEF Directories, Owned
      <4>2. Cardinality(Directories(g) \cup {n}) = Cardinality(Directories(g)) + 1
        BY <2>1, <2>2, FS_AddElement
      <4> QED
        BY <3>1, <4>1, <4>2 DEF Dirs
    <3>2. CASE ~dir
      <4>1. Directories(g)' = Directories(g)
        BY <2>1, <3>2 DEF Directories, Owned
      <4> QED
        BY <2>2, <3>2, <4>1 DEF Dirs
    <3> QED
      BY <3>1, <3>2
  <2>5. Indices(g)' = Indices(g) \cup {Index(n)}
    BY <2>1 DEF Indices, Index
  <2> QED
    BY <2>3, <2>4, <2>5
<1>4. ASSUME NEW g \in Group, g # Home(n)
      PROVE  Owned(g)' = Owned(g) /\ Directories(g)' = Directories(g) /\ Indices(g)' = Indices(g)
  <2>1. Owned(g)' = Owned(g)
    BY <1>1, <1>4 DEF Owned, Home
  <2>2. Directories(g)' = Directories(g)
    BY <2>1 DEF Directories, Owned
  <2>3. Indices(g)' = Indices(g)
    BY <2>1 DEF Indices, Index
  <2> QED
    BY <2>1, <2>2, <2>3
<1> QED
  BY <1>2, <1>3, <1>4

(* An inode comes back. *)
LEMMA OwnedRemoved ==
  ASSUME OwnedIsMarked, NEW n \in DOMAIN own, own[n] \in BOOLEAN,
         own' = [i \in DOMAIN own \ {n} |-> own[i]]
  PROVE  /\ Cardinality(DOMAIN own') = Cardinality(DOMAIN own) - 1
         /\ \A g \in Group :
              IF g = Home(n)
              THEN /\ Cardinality(Owned(g)') = Cardinality(Owned(g)) - 1
                   /\ Cardinality(Directories(g)') = Cardinality(Directories(g)) - Dirs(own[n])
                   /\ Indices(g)' = Indices(g) \ {Index(n)}
              ELSE /\ Owned(g)' = Owned(g)
                   /\ Directories(g)' = Directories(g)
                   /\ Indices(g)' = Indices(g)
<1>1. DOMAIN own' = DOMAIN own \ {n} /\ \A i \in DOMAIN own \ {n} : own'[i] = own[i]
  OBVIOUS
<1>2. Cardinality(DOMAIN own') = Cardinality(DOMAIN own) - 1
  BY <1>1, OwnedFinite, FS_RemoveElement
<1>3. ASSUME NEW g \in Group, g = Home(n)
      PROVE  /\ Cardinality(Owned(g)') = Cardinality(Owned(g)) - 1
             /\ Cardinality(Directories(g)') = Cardinality(Directories(g)) - Dirs(own[n])
             /\ Indices(g)' = Indices(g) \ {Index(n)}
  <2>1. Owned(g)' = Owned(g) \ {n} /\ n \in Owned(g)
    BY <1>1, <1>3 DEF Owned
  <2>2. IsFiniteSet(Owned(g)) /\ IsFiniteSet(Directories(g)) /\ Cardinality(Directories(g)) \in Int
    BY OwnedFinite
  <2>3. Cardinality(Owned(g)') = Cardinality(Owned(g)) - 1
    BY <2>1, <2>2, FS_RemoveElement
  <2>4. Directories(g)' = Directories(g) \ {n}
    BY <1>1, <2>1 DEF Directories, Owned
  <2>5. Cardinality(Directories(g)') = Cardinality(Directories(g)) - Dirs(own[n])
    <3>1. CASE own[n]
      <4>1. n \in Directories(g)
        BY <2>1, <3>1 DEF Directories
      <4>2. Cardinality(Directories(g) \ {n}) = Cardinality(Directories(g)) - 1
        BY <2>2, <4>1, FS_RemoveElement
      <4> QED
        BY <2>4, <3>1, <4>2 DEF Dirs
    <3>2. CASE ~own[n]
      <4>1. n \notin Directories(g)
        BY <3>2 DEF Directories
      <4>2. Cardinality(Directories(g) \ {n}) = Cardinality(Directories(g))
        BY <2>2, <4>1, FS_RemoveElement
      <4> QED
        BY <2>2, <2>4, <3>2, <4>2 DEF Dirs
    <3> QED
      BY <3>1, <3>2
  <2>6. Indices(g)' = Indices(g) \ {Index(n)}
    <3>1. ASSUME NEW i \in Owned(g), Index(i) = Index(n)
          PROVE  i = n
      <4>1. i \in 1 .. InodesPerGroup * Groups /\ n \in 1 .. InodesPerGroup * Groups /\ Home(i) = Home(n)
        BY <1>3, <3>1 DEF Owned, OwnedIsMarked
      <4>2. i = Number(Home(i), Index(i)) /\ n = Number(Home(n), Index(n))
        BY <4>1, PlaceOf
      <4> QED
        BY <3>1, <4>1, <4>2
    <3>2. Indices(g)' = {Index(i) : i \in Owned(g) \ {n}}
      BY <2>1 DEF Indices, Index
    <3> QED
      BY <2>1, <3>1, <3>2 DEF Indices
  <2> QED
    BY <2>3, <2>5, <2>6
<1>4. ASSUME NEW g \in Group, g # Home(n)
      PROVE  Owned(g)' = Owned(g) /\ Directories(g)' = Directories(g) /\ Indices(g)' = Indices(g)
  <2>1. Owned(g)' = Owned(g)
    BY <1>1, <1>4 DEF Owned, Home
  <2>2. Directories(g)' = Directories(g)
    BY <1>1, <1>4, <2>1 DEF Directories, Owned
  <2>3. Indices(g)' = Indices(g)
    BY <2>1 DEF Indices, Index
  <2> QED
    BY <2>1, <2>2, <2>3
<1> QED
  BY <1>2, <1>3, <1>4

-----------------------------------------------------------------------------
(* CountsMatch, said with the operators of this module. *)
Matched ==
  /\ \A g \in Group : /\ free[g] = InodesPerGroup - Cardinality(Owned(g))
                      /\ dirs[g] = Cardinality(Directories(g))
                      /\ Bits(g) = ext4_fs_init_inode_bitmap \cup Indices(g)
  /\ sbFree = InodesPerGroup * Groups - Cardinality(DOMAIN own)

(* It says the same. *)
LEMMA CountsMeaning == (CountsMatch <=> (~failed => Matched)) /\ (CountsMatch' <=> (~failed' => Matched'))
<1>1. \A g \in Group : ext4_inodes_in_group_cnt(g) = InodesPerGroup
  BY Volume
<1>2. \A g : Directories(g) = {i \in Owned(g) : own[i]} /\ Indices(g) = {Index(i) : i \in Owned(g)}
  BY DEF Directories, Indices
<1>3. \A g : Directories(g)' = {i \in Owned(g)' : own'[i]} /\ Indices(g)' = {Index(i) : i \in Owned(g)'}
  BY DEF Directories, Indices, Index
<1>4. CountsMatch <=> (~failed => Matched)
  BY <1>1, <1>2 DEF CountsMatch, Matched
<1>5. CountsMatch' <=> (~failed' => Matched')
  BY <1>1, <1>3 DEF CountsMatch, Matched, ext4_inodes_in_group_cnt, ext4_fs_init_inode_bitmap, Index
<1> QED
  BY <1>4, <1>5

(* The border of the unused part of the table moves behind the new inode and
   in front of none. *)
LEMMA BorderMoves ==
  ASSUME TypeOK, OwnedIsMarked, NEW g \in Group, NEW idx \in Slots, unused' = UnusedAfter(g, idx)
  PROVE  /\ unused' \in [Group -> 0 .. Word - 1]
         /\ idx < InodesPerGroup - unused'[g]
         /\ \A i \in DOMAIN own : Index(i) < InodesPerGroup - unused'[Home(i)]
<1>1. /\ InodesPerGroup \in Nat /\ InodesPerGroup < Word /\ ext4_inodes_in_group_cnt(g) = InodesPerGroup
      /\ Word \in Nat /\ idx \in 0 .. InodesPerGroup - 1
  BY Volume DEF Slots
<1>2. unused' = IF idx >= InodesPerGroup - unused[g]
                THEN [unused EXCEPT ![g] = InodesPerGroup - (idx + 1)] ELSE unused
  BY <1>1 DEF UnusedAfter
<1>3. unused \in [Group -> 0 .. Word - 1]
  BY DEF TypeOK
<1>4. unused' \in [Group -> 0 .. Word - 1]
  BY <1>1, <1>2, <1>3
<1>5. idx < InodesPerGroup - unused'[g]
  BY <1>1, <1>2, <1>3
<1>6. ASSUME NEW i \in DOMAIN own
      PROVE  Index(i) < InodesPerGroup - unused'[Home(i)]
  <2>1. i \in 1 .. InodesPerGroup * Groups
    BY DEF OwnedIsMarked
  <2>2. Home(i) \in Group /\ Index(i) \in Slots /\ ext4_inodes_in_group_cnt(Home(i)) = InodesPerGroup
    BY <2>1, PlaceOf, Volume
  <2>3. Index(i) < InodesPerGroup - unused[Home(i)] /\ Index(i) \in 0 .. InodesPerGroup - 1
    BY <2>2 DEF OwnedIsMarked, Slots
  <2> QED
    BY <1>1, <1>2, <1>3, <2>2, <2>3
<1> QED
  BY <1>4, <1>5, <1>6

(* The parts of OwnedIsMarked. *)
LEMMA OwnedPlace ==
  ASSUME OwnedIsMarked, NEW i \in DOMAIN own
  PROVE  /\ i \in 1 .. InodesPerGroup * Groups
         /\ Home(i) \in Group /\ Index(i) \in Slots /\ i = Number(Home(i), Index(i))
         /\ Index(i) \in Bits(Home(i))
         /\ Index(i) < InodesPerGroup - unused[Home(i)]
<1>1. i \in 1 .. InodesPerGroup * Groups
  BY DEF OwnedIsMarked
<1>2. Home(i) \in Group /\ Index(i) \in Slots /\ i = Number(Home(i), Index(i))
  BY <1>1, PlaceOf
<1>3. ext4_inodes_in_group_cnt(Home(i)) = InodesPerGroup
  BY <1>2, Volume
<1> QED
  BY <1>1, <1>2, <1>3 DEF OwnedIsMarked

(* What has to be shown for OwnedIsMarked to hold after a step. *)
LEMMA OwnedMarkedNext ==
  ASSUME \A i \in DOMAIN own' : /\ i \in 1 .. InodesPerGroup * Groups
                                /\ Index(i) \in Bits(Home(i))'
                                /\ Index(i) < InodesPerGroup - unused'[Home(i)]
  PROVE  OwnedIsMarked'
<1>1. \A i \in DOMAIN own' : ext4_inodes_in_group_cnt(Home(i)) = InodesPerGroup
  BY PlaceOf, Volume
<1> QED
  BY <1>1 DEF OwnedIsMarked, ext4_inodes_in_group_cnt, Home, Index, Bits

(* A step that only references groups, and may move the border of an unused
   part, keeps every relation. *)
LEMMA OnlyReferenced ==
  ASSUME TypeOK, OwnedIsMarked, FreeCovered, CountsMatch,
         \A k \in Group : Bits(k)' = Bits(k),
         UNCHANGED <<free, dirs, sbFree, own>>, failed => failed',
         \A i \in DOMAIN own : Index(i) < InodesPerGroup - unused'[Home(i)]
  PROVE  OwnedIsMarked' /\ FreeCovered' /\ CountsMatch'
<1>1. OwnedIsMarked'
  BY OwnedPlace, OwnedMarkedNext
<1>2. \A k \in Group : ClearSlots(k)' = ClearSlots(k)
  BY DEF ClearSlots, Slots
<1>3. FreeCovered'
  BY <1>2 DEF FreeCovered
<1>4. \A k : Owned(k)' = Owned(k) /\ Directories(k)' = Directories(k) /\ Indices(k)' = Indices(k)
  BY DEF Owned, Directories, Indices, Home, Index
<1>5. Matched => Matched'
  BY <1>4 DEF Matched
<1>6. CountsMatch'
  BY <1>5, CountsMeaning
<1> QED
  BY <1>1, <1>3, <1>6

(* The clear bits of a group are finitely many. *)
LEMMA ClearFinite ==
  ASSUME NEW g
  PROVE  IsFiniteSet(ClearSlots(g)) /\ Cardinality(ClearSlots(g)) \in 0 .. InodesPerGroup
<1>1. IsFiniteSet(0 .. InodesPerGroup - 1) /\ Cardinality(0 .. InodesPerGroup - 1) = InodesPerGroup
  <2>1. InodesPerGroup \in Nat \ {0} /\ InodesPerGroup - 1 \in Int /\ 0 \in Int
    BY Volume
  <2>2. IsFiniteSet(0 .. InodesPerGroup - 1)
        /\ Cardinality(0 .. InodesPerGroup - 1) =
             IF 0 > InodesPerGroup - 1 THEN 0 ELSE InodesPerGroup - 1 - 0 + 1
    BY <2>1, FS_Interval
  <2> QED
    BY <2>1, <2>2
<1>2. ClearSlots(g) \in SUBSET (0 .. InodesPerGroup - 1)
  BY DEF ClearSlots, Slots
<1>3. IsFiniteSet(ClearSlots(g)) /\ Cardinality(ClearSlots(g)) <= InodesPerGroup
  <2>1. /\ IsFiniteSet(ClearSlots(g))
        /\ Cardinality(ClearSlots(g)) <= Cardinality(0 .. InodesPerGroup - 1)
    BY <1>1, <1>2, FS_Subset
  <2> QED
    BY <1>1, <2>1
<1>4. Cardinality(ClearSlots(g)) \in Nat
  BY <1>3, FS_CardinalityType
<1> QED
  BY <1>3, <1>4, Volume

-----------------------------------------------------------------------------
(* What one allocation takes from its group, whether it then fails or not. *)
LEMMA TakesKeeps ==
  ASSUME TypeOK, OwnedIsMarked, FreeCovered,
         NEW seen, NEW g \in Group, g \in seen, free[g] > 0,
         NEW idx \in ClearSlots(g), NEW dir \in BOOLEAN, Takes(seen, g, idx, dir)
  PROVE  /\ used' \in [Group -> SUBSET (0 .. BitsPerBlock - 1)] /\ uninit' \in SUBSET Group
         /\ free' = [free EXCEPT ![g] = @ - 1] /\ free' \in [Group -> 0 .. Word - 1]
         /\ dirs' = [dirs EXCEPT ![g] = (@ + Dirs(dir)) % Word] /\ dirs' \in [Group -> 0 .. Word - 1]
         /\ unused' \in [Group -> 0 .. Word - 1]
         /\ \A k \in Group : Bits(k)' = IF k = g THEN Bits(g) \cup {idx} ELSE Bits(k)
         /\ idx < InodesPerGroup - unused'[g]
         /\ \A i \in DOMAIN own : /\ Index(i) \in Bits(Home(i))'
                                  /\ Index(i) < InodesPerGroup - unused'[Home(i)]
         /\ FreeCovered'
<1>1. idx \in Slots /\ idx \notin Bits(g) /\ idx \in 0 .. BitsPerBlock - 1
  BY Volume DEF ClearSlots, Slots
<1>2. /\ used' \in [Group -> SUBSET (0 .. BitsPerBlock - 1)] /\ uninit' \in SUBSET Group
      /\ \A k \in Group : Bits(k)' = IF k = g THEN Bits(g) \cup {idx} ELSE Bits(k)
  <2>1. Bits(g) \cup {idx} \in SUBSET (0 .. BitsPerBlock - 1)
    BY <1>1, BitsType
  <2>2. Rewritten(seen, g, Bits(g) \cup {idx})
    BY DEF Takes
  <2> QED
    BY <2>1, <2>2, BitsRewritten
<1>3. free' = [free EXCEPT ![g] = @ - 1] /\ free' \in [Group -> 0 .. Word - 1]
  <2>1. free[g] - 1 \in Nat /\ free[g] - 1 < Word
    <3>1. Word \in Nat
      BY Volume
    <3>2. free[g] \in 0 .. Word - 1
      BY DEF TypeOK
    <3> QED
      BY <3>1, <3>2
  <2>2. (free[g] - 1) % Word = free[g] - 1
    BY <2>1, ModSmall
  <2>3. free' = [free EXCEPT ![g] = (@ - 1) % Word]
    BY DEF Takes, GroupCounted
  <2>4. free[g] - 1 \in 0 .. Word - 1
    BY <2>1, Volume
  <2>5. free' = [free EXCEPT ![g] = @ - 1]
    BY <2>2, <2>3
  <2> QED
    BY <2>4, <2>5 DEF TypeOK
<1>4. dirs' = [dirs EXCEPT ![g] = (@ + Dirs(dir)) % Word] /\ dirs' \in [Group -> 0 .. Word - 1]
  <2>1. dirs[g] + Dirs(dir) \in Int
    <3>1. Dirs(dir) \in Int
      BY DEF Dirs
    <3>2. dirs[g] \in 0 .. Word - 1 /\ Word \in Nat
      BY Volume DEF TypeOK
    <3> QED
      BY <3>1, <3>2
  <2>2. (dirs[g] + Dirs(dir)) % Word \in 0 .. Word - 1
    BY <2>1, ModType
  <2>3. dirs' = [dirs EXCEPT ![g] = (@ + Dirs(dir)) % Word]
    BY DEF Takes, GroupCounted
  <2> QED
    BY <2>2, <2>3 DEF TypeOK
<1>5. /\ unused' \in [Group -> 0 .. Word - 1]
      /\ idx < InodesPerGroup - unused'[g]
      /\ \A i \in DOMAIN own : Index(i) < InodesPerGroup - unused'[Home(i)]
  BY <1>1, BorderMoves DEF Takes
<1>6. \A i \in DOMAIN own : Index(i) \in Bits(Home(i))'
  BY <1>2, OwnedPlace
<1>7. FreeCovered'
  <2>1. ASSUME NEW k \in Group
        PROVE  free'[k] <= Cardinality(ClearSlots(k)')
    <3>1. free[k] <= Cardinality(ClearSlots(k))
      BY DEF FreeCovered
    <3>2. CASE k = g
      <4>1. ClearSlots(k)' = ClearSlots(k) \ {idx}
        BY <1>2, <3>2 DEF ClearSlots, Slots
      <4>2. IsFiniteSet(ClearSlots(k)) /\ Cardinality(ClearSlots(k)) \in Nat
        BY ClearFinite
      <4>3. Cardinality(ClearSlots(k) \ {idx}) = Cardinality(ClearSlots(k)) - 1
        BY <3>2, <4>2, FS_RemoveElement
      <4>4. free'[k] = free[k] - 1 /\ free[k] \in Nat
        BY <1>3, <3>2 DEF TypeOK
      <4> QED
        BY <3>1, <4>1, <4>2, <4>3, <4>4
    <3>3. CASE k # g
      <4>1. ClearSlots(k)' = ClearSlots(k)
        BY <1>2, <3>3 DEF ClearSlots, Slots
      <4>2. free'[k] = free[k]
        BY <1>3, <3>3 DEF TypeOK
      <4> QED
        BY <3>1, <4>1, <4>2
    <3> QED
      BY <3>2, <3>3
  <2> QED
    BY <2>1 DEF FreeCovered
<1> QED
  BY <1>2, <1>3, <1>4, <1>5, <1>6, <1>7

-----------------------------------------------------------------------------
(* ext4_fs_alloc_inode keeps the invariant, on each of its outcomes. *)
LEMMA AllocKeeps ==
  ASSUME IInv, NEW dir \in BOOLEAN, ext4_fs_alloc_inode(dir)
  PROVE  IInv'
<1> DEFINE seen == {Order[k] : k \in {j \in DOMAIN Order : \A c \in Candidates : j <= c}}
           g == Order[Min(Candidates)]
           idx == FirstFree(g)
<1>1. TypeOK /\ OwnedIsMarked /\ FreeCovered /\ CountsMatch
  BY DEF IInv
<1>2. /\ Candidates = {} => \A k \in Group : free[k] = 0
      /\ Candidates # {} => g \in Group /\ g \in seen /\ free[g] > 0
  BY <1>1, SearchStops
<1>3. Candidates # {} => idx \in ClearSlots(g)
  <2> SUFFICES ASSUME Candidates # {}
               PROVE  idx \in ClearSlots(g)
    OBVIOUS
  <2>1. g \in Group /\ free[g] > 0 /\ free[g] \in Nat
    BY <1>1, <1>2 DEF TypeOK
  <2>2. Cardinality(ClearSlots(g)) # 0
    BY <1>1, <2>1, ClearFinite DEF FreeCovered
  <2>3. ClearSlots(g) # {}
    BY <2>2, FS_EmptySet
  <2> QED
    BY <2>1, <2>3, FirstFreeFinds
<1>4. \A i \in DOMAIN own : Index(i) < InodesPerGroup - unused[Home(i)]
  BY <1>1, OwnedPlace
<1>5. CASE /\ Candidates = {}
           /\ Referenced(seen)
           /\ NotCounted
           /\ Returns("ENOSPC", FALSE)
           /\ UNCHANGED <<unused, last, own, unread>>
  <2> HIDE DEF seen
  <2>1. /\ used' \in [Group -> SUBSET (0 .. BitsPerBlock - 1)] /\ uninit' \in SUBSET Group
        /\ \A k \in Group : Bits(k)' = Bits(k)
    BY <1>1, <1>5, BitsReferenced
  <2>2. UNCHANGED <<free, dirs, sbFree, unused, last, own, unread>> /\ ret' = "ENOSPC" /\ failed' = failed
    BY <1>1, <1>5 DEF NotCounted, Returns, TypeOK
  <2>3. TypeOK'
    BY <1>1, <2>1, <2>2 DEF TypeOK
  <2>4. OwnedIsMarked' /\ FreeCovered' /\ CountsMatch'
    BY <1>1, <1>4, <2>1, <2>2, OnlyReferenced
  <2>5. EmptyCounts'
    BY <1>2, <1>5, <2>2 DEF EmptyCounts
  <2> QED
    BY <2>3, <2>4, <2>5 DEF IInv
<1>6. CASE /\ Candidates # {}
           /\ Takes(seen, g, idx, dir)
           /\ SbCounted(1)
           /\ last' = g
           /\ own' = [i \in DOMAIN own \cup {Number(g, idx)} |->
                        IF i = Number(g, idx) THEN dir ELSE own[i]]
           /\ \/ Returns("EOK", FALSE) /\ UNCHANGED unread
              \/ Returns("EIO", FALSE) /\ unread' = {Number(g, idx)}
  <2>1. g \in Group /\ g \in seen /\ free[g] > 0 /\ idx \in ClearSlots(g)
    BY <1>2, <1>3, <1>6
  <2> HIDE DEF seen, g, idx
  <2> DEFINE n == Number(g, idx)
  <2>2. idx \in Slots /\ idx \notin Bits(g)
    BY <2>1 DEF ClearSlots
  <2>3. n \in 1 .. InodesPerGroup * Groups /\ Home(n) = g /\ Index(n) = idx
    BY <2>1, <2>2, NumberOf
  <2>4. n \notin DOMAIN own
    BY <1>1, <2>2, <2>3, OwnedPlace
  <2>5. own' = [i \in DOMAIN own \cup {n} |-> IF i = n THEN dir ELSE own[i]]
    BY <1>6
  <2> HIDE DEF n
  <2>6. Takes(seen, g, idx, dir)
    BY <1>6
  <2>7. /\ used' \in [Group -> SUBSET (0 .. BitsPerBlock - 1)] /\ uninit' \in SUBSET Group
        /\ free' = [free EXCEPT ![g] = @ - 1] /\ free' \in [Group -> 0 .. Word - 1]
        /\ dirs' = [dirs EXCEPT ![g] = (@ + Dirs(dir)) % Word] /\ dirs' \in [Group -> 0 .. Word - 1]
        /\ unused' \in [Group -> 0 .. Word - 1]
        /\ \A k \in Group : Bits(k)' = IF k = g THEN Bits(g) \cup {idx} ELSE Bits(k)
        /\ idx < InodesPerGroup - unused'[g]
        /\ \A i \in DOMAIN own : /\ Index(i) \in Bits(Home(i))'
                                 /\ Index(i) < InodesPerGroup - unused'[Home(i)]
        /\ FreeCovered'
    BY <1>1, <2>1, <2>6, TakesKeeps
  <2>8. OwnedIsMarked'
    <3>1. ASSUME NEW i \in DOMAIN own'
          PROVE  /\ i \in 1 .. InodesPerGroup * Groups
                 /\ Index(i) \in Bits(Home(i))'
                 /\ Index(i) < InodesPerGroup - unused'[Home(i)]
      <4>1. CASE i = n
        BY <2>1, <2>3, <2>7, <4>1
      <4>2. CASE i \in DOMAIN own
        BY <1>1, <2>7, <4>2, OwnedPlace
      <4> QED
        BY <2>5, <4>1, <4>2
    <3> QED
      BY <3>1, OwnedMarkedNext
  <2>9. /\ Cardinality(DOMAIN own') = Cardinality(DOMAIN own) + 1
        /\ \A k \in Group :
             IF k = Home(n)
             THEN /\ Cardinality(Owned(k)') = Cardinality(Owned(k)) + 1
                  /\ Cardinality(Directories(k)') = Cardinality(Directories(k)) + Dirs(dir)
                  /\ Indices(k)' = Indices(k) \cup {Index(n)}
             ELSE /\ Owned(k)' = Owned(k)
                  /\ Directories(k)' = Directories(k)
                  /\ Indices(k)' = Indices(k)
    BY <1>1, <2>4, <2>5, OwnedAdded
  <2>10. sbFree' = (sbFree - 1) % Word /\ failed' = failed /\ ret' \in {"EOK", "EIO"} /\ last' = g
        /\ unread' \subseteq DOMAIN own'
    <3>1. sbFree' = (sbFree - 1) % Word /\ failed' = failed /\ ret' \in {"EOK", "EIO"} /\ last' = g
      BY <1>1, <1>6 DEF SbCounted, Returns, TypeOK
    <3>2. unread' = unread \/ unread' = {n}
      BY <1>6 DEF n
    <3> QED
      BY <1>1, <2>5, <3>1, <3>2 DEF TypeOK
  <2>11. CountsMatch'
    <3>1. ASSUME Matched
          PROVE  Matched'
      <4>1. ASSUME NEW k \in Group
            PROVE  /\ free'[k] = InodesPerGroup - Cardinality(Owned(k)')
                   /\ dirs'[k] = Cardinality(Directories(k)')
                   /\ Bits(k)' = ext4_fs_init_inode_bitmap \cup Indices(k)'
        <5>1. /\ free[k] = InodesPerGroup - Cardinality(Owned(k))
              /\ dirs[k] = Cardinality(Directories(k))
              /\ Bits(k) = ext4_fs_init_inode_bitmap \cup Indices(k)
              /\ Cardinality(Owned(k)) \in Nat
              /\ Cardinality(Directories(k)) \in 0 .. Cardinality(Owned(k))
              /\ InodesPerGroup \in Nat /\ InodesPerGroup < Word
          BY <1>1, <3>1, OwnedFinite, Volume DEF Matched
        <5>2. CASE k = g
          <6>1. free'[k] = free[k] - 1 /\ dirs'[k] = (dirs[k] + Dirs(dir)) % Word /\ free[k] > 0
            BY <1>1, <2>1, <2>7, <5>2 DEF TypeOK
          <6>2. dirs[k] + Dirs(dir) \in Nat /\ dirs[k] + Dirs(dir) < Word
            <7>1. Dirs(dir) \in {0, 1}
              BY DEF Dirs
            <7>2. dirs[k] \in Nat /\ dirs[k] < InodesPerGroup
              BY <1>1, <5>1, <6>1 DEF TypeOK
            <7>3. Word \in Nat
              BY Volume
            <7> QED
              BY <5>1, <7>1, <7>2, <7>3
          <6>3. dirs'[k] = dirs[k] + Dirs(dir)
            BY <6>1, <6>2, ModSmall
          <6>4. /\ Cardinality(Owned(k)') = Cardinality(Owned(k)) + 1
                /\ Cardinality(Directories(k)') = Cardinality(Directories(k)) + Dirs(dir)
                /\ Indices(k)' = Indices(k) \cup {idx}
            BY <2>3, <2>9, <5>2
          <6>5. Bits(k)' = Bits(k) \cup {idx}
            BY <2>7, <5>2
          <6>6. Bits(k)' = ext4_fs_init_inode_bitmap \cup Indices(k)'
            BY <5>1, <6>4, <6>5
          <6>7. free'[k] = InodesPerGroup - Cardinality(Owned(k)')
            BY <5>1, <6>1, <6>4
          <6> QED
            BY <5>1, <6>3, <6>4, <6>6, <6>7
        <5>3. CASE k # g
          <6>1. free'[k] = free[k] /\ dirs'[k] = dirs[k] /\ Bits(k)' = Bits(k)
            BY <1>1, <2>7, <5>3 DEF TypeOK
          <6>2. Owned(k)' = Owned(k) /\ Directories(k)' = Directories(k) /\ Indices(k)' = Indices(k)
            BY <2>3, <2>9, <5>3
          <6> QED
            BY <5>1, <6>1, <6>2
        <5> QED
          BY <5>2, <5>3
      <4>2. sbFree' = InodesPerGroup * Groups - Cardinality(DOMAIN own')
        <5>1. /\ sbFree = InodesPerGroup * Groups - Cardinality(DOMAIN own)
              /\ Cardinality(DOMAIN own) \in 0 .. InodesPerGroup * Groups
              /\ InodesPerGroup * Groups \in Nat /\ InodesPerGroup * Groups < Word
          BY <1>1, <3>1, OwnedFinite, Volume DEF Matched
        <5>2. Cardinality(DOMAIN own') \in 0 .. InodesPerGroup * Groups
          BY <2>8, OwnedFiniteNext
        <5>3. sbFree - 1 \in Nat /\ sbFree - 1 < Word
          <6> DEFINE total == InodesPerGroup * Groups
                     held == Cardinality(DOMAIN own)
          <6>1. sbFree = total - held /\ held \in Nat /\ held + 1 <= total /\ total \in Nat /\ total < Word
            BY <2>9, <5>1, <5>2
          <6>2. Word \in Nat
            BY Volume
          <6> HIDE DEF total, held
          <6> QED
            BY <6>1, <6>2
        <5>4. sbFree' = sbFree - 1
          BY <2>10, <5>3, ModSmall
        <5> QED
          BY <2>9, <5>1, <5>4
      <4> QED
        BY <4>1, <4>2 DEF Matched, ext4_fs_init_inode_bitmap
    <3> QED
      BY <1>1, <2>10, <3>1, CountsMeaning
  <2>12. TypeOK'
    <3>1. sbFree' \in 0 .. Word - 1
      <4>1. sbFree - 1 \in Int
        BY <1>1, Volume DEF TypeOK
      <4> QED
        BY <2>10, <4>1, ModType
    <3>2. own' \in [DOMAIN own' -> BOOLEAN]
      BY <1>1, <2>5 DEF TypeOK
    <3> QED
      BY <1>1, <2>1, <2>7, <2>10, <3>1, <3>2 DEF TypeOK
  <2> QED
    BY <2>7, <2>8, <2>10, <2>11, <2>12 DEF IInv, EmptyCounts
<1>7. CASE /\ Candidates # {}
           /\ Takes(seen, g, idx, dir)
           /\ Returns("EIO", TRUE)
           /\ UNCHANGED <<sbFree, last, own, unread>>
  <2>1. g \in Group /\ g \in seen /\ free[g] > 0 /\ idx \in ClearSlots(g)
    BY <1>2, <1>3, <1>7
  <2> HIDE DEF seen, g, idx
  <2>2. /\ used' \in [Group -> SUBSET (0 .. BitsPerBlock - 1)] /\ uninit' \in SUBSET Group
        /\ free' \in [Group -> 0 .. Word - 1]
        /\ dirs' \in [Group -> 0 .. Word - 1]
        /\ unused' \in [Group -> 0 .. Word - 1]
        /\ \A i \in DOMAIN own : /\ Index(i) \in Bits(Home(i))'
                                 /\ Index(i) < InodesPerGroup - unused'[Home(i)]
        /\ FreeCovered'
    BY <1>1, <1>7, <2>1, TakesKeeps
  <2>3. ret' = "EIO" /\ failed' = TRUE /\ UNCHANGED <<sbFree, last, own, unread>>
    BY <1>7 DEF Returns
  <2>4. TypeOK'
    BY <1>1, <2>2, <2>3 DEF TypeOK
  <2>5. OwnedIsMarked'
    BY <1>1, <2>2, <2>3, OwnedPlace, OwnedMarkedNext
  <2>6. CountsMatch'
    BY <2>3, CountsMeaning
  <2> QED
    BY <2>2, <2>3, <2>4, <2>5, <2>6 DEF IInv, EmptyCounts
<1>8. CASE /\ \E S \in SUBSET seen : Referenced(S)
           /\ NotCounted
           /\ Returns("EIO", TRUE)
           /\ UNCHANGED <<unused, last, own, unread>>
  <2> HIDE DEF seen
  <2>1. /\ used' \in [Group -> SUBSET (0 .. BitsPerBlock - 1)] /\ uninit' \in SUBSET Group
        /\ \A k \in Group : Bits(k)' = Bits(k)
    BY <1>1, <1>8, BitsReferenced
  <2>2. UNCHANGED <<free, dirs, sbFree, unused, last, own, unread>> /\ ret' = "EIO" /\ failed' = TRUE
    BY <1>1, <1>8 DEF NotCounted, Returns
  <2>3. TypeOK'
    BY <1>1, <2>1, <2>2 DEF TypeOK
  <2>4. OwnedIsMarked' /\ FreeCovered' /\ CountsMatch'
    BY <1>1, <1>4, <2>1, <2>2, OnlyReferenced
  <2> QED
    BY <2>2, <2>3, <2>4 DEF IInv, EmptyCounts
<1> QED
  BY <1>5, <1>6, <1>7, <1>8 DEF ext4_fs_alloc_inode

-----------------------------------------------------------------------------
(* An inode's bit is cleared: the other inodes stay marked, and the group may
   count one more free inode. *)
LEMMA ClearedKeeps ==
  ASSUME TypeOK, OwnedIsMarked, FreeCovered, NEW n \in DOMAIN own,
         own' = [i \in DOMAIN own \ {n} |-> own[i]], UNCHANGED unused,
         Rewritten({Home(n)}, Home(n), Bits(Home(n)) \ {Index(n)}),
         \A k \in Group : free'[k] \in Nat /\ free'[k] <= free[k] + (IF k = Home(n) THEN 1 ELSE 0)
  PROVE  /\ used' \in [Group -> SUBSET (0 .. BitsPerBlock - 1)] /\ uninit' \in SUBSET Group
         /\ \A k \in Group : Bits(k)' = IF k = Home(n) THEN Bits(k) \ {Index(n)} ELSE Bits(k)
         /\ OwnedIsMarked'
         /\ FreeCovered'
<1> DEFINE g == Home(n)
           x == Index(n)
<1>1. /\ g \in Group /\ x \in Slots /\ n = Number(g, x) /\ x \in Bits(g)
      /\ \A i \in DOMAIN own : Home(i) = g /\ Index(i) = x => i = n
  BY OwnedPlace
<1>2. Rewritten({g}, g, Bits(g) \ {x})
  OBVIOUS
<1>3. \A k \in Group : free'[k] \in Nat /\ free'[k] <= free[k] + (IF k = g THEN 1 ELSE 0)
  OBVIOUS
<1> HIDE DEF g, x
<1>4. Bits(g) \ {x} \in SUBSET (0 .. BitsPerBlock - 1)
  BY <1>1, BitsType
<1>5. /\ used' \in [Group -> SUBSET (0 .. BitsPerBlock - 1)] /\ uninit' \in SUBSET Group
      /\ \A k \in Group : Bits(k)' = IF k = g THEN Bits(g) \ {x} ELSE Bits(k)
  <2>1. g \in {g}
    OBVIOUS
  <2> QED
    BY <1>1, <1>2, <1>4, <2>1, BitsRewritten
<1>6. ASSUME NEW i \in DOMAIN own'
      PROVE  /\ i \in 1 .. InodesPerGroup * Groups
             /\ Index(i) \in Bits(Home(i))'
             /\ Index(i) < InodesPerGroup - unused'[Home(i)]
  <2>1. i \in DOMAIN own /\ i # n
    OBVIOUS
  <2>2. /\ i \in 1 .. InodesPerGroup * Groups
        /\ Home(i) \in Group /\ Index(i) \in Bits(Home(i))
        /\ Index(i) < InodesPerGroup - unused[Home(i)]
    BY <2>1, OwnedPlace
  <2>3. ~(Home(i) = g /\ Index(i) = x)
    BY <1>1, <2>1
  <2> QED
    BY <1>5, <2>2, <2>3
<1>7. OwnedIsMarked'
  BY <1>6, OwnedMarkedNext
<1>8. ASSUME NEW k \in Group
      PROVE  free'[k] <= Cardinality(ClearSlots(k)')
  <2>1. free[k] <= Cardinality(ClearSlots(k)) /\ free[k] \in Nat
    BY DEF FreeCovered, TypeOK
  <2>2. IsFiniteSet(ClearSlots(k)) /\ Cardinality(ClearSlots(k)) \in Nat
    BY ClearFinite
  <2>3. CASE k = g
    <3>1. ClearSlots(k)' = ClearSlots(k) \cup {x} /\ x \notin ClearSlots(k)
      BY <1>1, <1>5, <2>3 DEF ClearSlots, Slots
    <3>2. Cardinality(ClearSlots(k) \cup {x}) = Cardinality(ClearSlots(k)) + 1
      BY <2>2, <3>1, FS_AddElement
    <3>3. free'[k] \in Nat /\ free'[k] <= free[k] + 1
      BY <1>3, <2>3
    <3> QED
      BY <2>1, <2>2, <3>1, <3>2, <3>3
  <2>4. CASE k # g
    <3>1. ClearSlots(k)' = ClearSlots(k)
      BY <1>5, <2>4 DEF ClearSlots, Slots
    <3>2. free'[k] \in Nat /\ free'[k] <= free[k]
      BY <1>3, <2>1, <2>4
    <3> QED
      BY <2>1, <2>2, <3>1, <3>2
  <2> QED
    BY <2>3, <2>4
<1>9. FreeCovered'
  BY <1>8 DEF FreeCovered
<1> QED
  BY <1>5, <1>7, <1>9 DEF g, x

(* The counts of the group of an inode that comes back. *)
LEMMA ReleasedCounts ==
  ASSUME TypeOK, OwnedIsMarked, FreeCovered, NEW n \in DOMAIN own, Released(n, own[n])
  PROVE  /\ free' = [free EXCEPT ![Home(n)] = @ + 1] /\ free' \in [Group -> 0 .. Word - 1]
         /\ dirs' = [dirs EXCEPT ![Home(n)] = (@ - Dirs(own[n])) % Word]
         /\ dirs' \in [Group -> 0 .. Word - 1]
         /\ \A k \in Group : free'[k] \in Nat /\ free'[k] <= free[k] + (IF k = Home(n) THEN 1 ELSE 0)
<1> DEFINE g == Home(n)
           x == Index(n)
<1>1. g \in Group /\ x \in Slots /\ x \in Bits(g)
  BY OwnedPlace
<1>2. /\ free' = [free EXCEPT ![g] = (@ - (-1)) % Word]
      /\ dirs' = [dirs EXCEPT ![g] = (@ + (-Dirs(own[n]))) % Word]
  BY DEF Released, GroupCounted
<1> HIDE DEF g, x
<1>3. Dirs(own[n]) \in {0, 1}
  BY DEF Dirs
<1>4. free[g] \in Nat /\ free[g] + 1 <= InodesPerGroup
  <2>1. free[g] <= Cardinality(ClearSlots(g)) /\ free[g] \in Nat
    BY <1>1 DEF FreeCovered, TypeOK
  <2>2. IsFiniteSet(ClearSlots(g)) /\ Cardinality(ClearSlots(g)) \in Nat
    BY ClearFinite
  <2>3. x \notin ClearSlots(g)
    BY <1>1 DEF ClearSlots
  <2>4. Cardinality(ClearSlots(g) \cup {x}) = Cardinality(ClearSlots(g)) + 1
    BY <2>2, <2>3, FS_AddElement
  <2>5. 0 \in Int /\ InodesPerGroup - 1 \in Int /\ InodesPerGroup \in Nat \ {0}
    BY Volume
  <2>6. IsFiniteSet(0 .. InodesPerGroup - 1)
        /\ Cardinality(0 .. InodesPerGroup - 1) =
             IF 0 > InodesPerGroup - 1 THEN 0 ELSE InodesPerGroup - 1 - 0 + 1
    BY <2>5, FS_Interval
  <2>7. ClearSlots(g) \cup {x} \in SUBSET (0 .. InodesPerGroup - 1)
    BY <1>1 DEF ClearSlots, Slots
  <2>8. Cardinality(ClearSlots(g) \cup {x}) <= Cardinality(0 .. InodesPerGroup - 1)
    BY <2>6, <2>7, FS_Subset
  <2> QED
    BY <2>1, <2>2, <2>4, <2>5, <2>6, <2>8
<1>5. (free[g] - (-1)) % Word = free[g] + 1 /\ free[g] + 1 \in 0 .. Word - 1
  <2>1. free[g] - (-1) = free[g] + 1 /\ free[g] + 1 \in Nat /\ free[g] + 1 < Word
    BY <1>4, Volume
  <2>2. (free[g] + 1) % Word = free[g] + 1
    BY <2>1, ModSmall
  <2> QED
    BY <2>1, <2>2, Volume
<1>6. free' = [free EXCEPT ![g] = @ + 1]
  BY <1>2, <1>5
<1>7. free' \in [Group -> 0 .. Word - 1]
  BY <1>5, <1>6 DEF TypeOK
<1>8. dirs[g] + (-Dirs(own[n])) = dirs[g] - Dirs(own[n]) /\ dirs[g] - Dirs(own[n]) \in Int
  <2>1. dirs[g] \in 0 .. Word - 1 /\ Word \in Nat /\ Dirs(own[n]) \in Int
    BY <1>1, <1>3, Volume DEF TypeOK
  <2> QED
    BY <2>1
<1>9. dirs' = [dirs EXCEPT ![g] = (@ - Dirs(own[n])) % Word]
  BY <1>2, <1>8
<1>10. (dirs[g] - Dirs(own[n])) % Word \in 0 .. Word - 1
  BY <1>8, ModType
<1>11. dirs' \in [Group -> 0 .. Word - 1]
  BY <1>9, <1>10 DEF TypeOK
<1>12. \A k \in Group : free'[k] \in Nat /\ free'[k] <= free[k] + (IF k = g THEN 1 ELSE 0)
  <2>1. free \in [Group -> 0 .. Word - 1] /\ Word \in Nat
    BY Volume DEF TypeOK
  <2> QED
    BY <1>4, <1>6, <2>1
<1> QED
  BY <1>6, <1>7, <1>9, <1>11, <1>12 DEF g

(* ext4_ialloc_free_inode keeps the invariant, on each of its outcomes. *)
LEMMA FreeKeeps ==
  ASSUME IInv, NEW n \in DOMAIN own, ext4_ialloc_free_inode(n)
  PROVE  IInv'
<1> DEFINE g == Home(n)
<1>1. TypeOK /\ OwnedIsMarked /\ FreeCovered /\ CountsMatch
  BY DEF IInv
<1>2. own' = [i \in DOMAIN own \ {n} |-> own[i]] /\ UNCHANGED <<unused, last>>
      /\ unread' = {}
  BY DEF ext4_ialloc_free_inode
<1>3. g \in Group /\ own[n] \in BOOLEAN
  BY <1>1, OwnedPlace DEF TypeOK
<1>4. own' \in [DOMAIN own' -> BOOLEAN]
  BY <1>1, <1>2 DEF TypeOK
<1>5. CASE /\ Released(n, own[n]) /\ SbCounted(-1)
           /\ Returns(IF unread = {} THEN "EOK" ELSE "EIO", FALSE)
  <2>1. /\ free' = [free EXCEPT ![g] = @ + 1] /\ free' \in [Group -> 0 .. Word - 1]
        /\ dirs' = [dirs EXCEPT ![g] = (@ - Dirs(own[n])) % Word]
        /\ dirs' \in [Group -> 0 .. Word - 1]
        /\ \A k \in Group : free'[k] \in Nat /\ free'[k] <= free[k] + (IF k = g THEN 1 ELSE 0)
    BY <1>1, <1>5, ReleasedCounts
  <2>2. Rewritten({g}, g, Bits(g) \ {Index(n)})
    BY <1>5 DEF Released
  <2>3. /\ used' \in [Group -> SUBSET (0 .. BitsPerBlock - 1)] /\ uninit' \in SUBSET Group
        /\ \A k \in Group : Bits(k)' = IF k = g THEN Bits(k) \ {Index(n)} ELSE Bits(k)
        /\ OwnedIsMarked'
        /\ FreeCovered'
    BY <1>1, <1>2, <2>1, <2>2, ClearedKeeps
  <2>4. sbFree' = (sbFree - (-1)) % Word /\ failed' = failed /\ ret' \in {"EOK", "EIO"}
    BY <1>1, <1>5 DEF SbCounted, Returns, TypeOK
  <2>5. /\ Cardinality(DOMAIN own') = Cardinality(DOMAIN own) - 1
        /\ \A k \in Group :
             IF k = g
             THEN /\ Cardinality(Owned(k)') = Cardinality(Owned(k)) - 1
                  /\ Cardinality(Directories(k)') = Cardinality(Directories(k)) - Dirs(own[n])
                  /\ Indices(k)' = Indices(k) \ {Index(n)}
             ELSE /\ Owned(k)' = Owned(k)
                  /\ Directories(k)' = Directories(k)
                  /\ Indices(k)' = Indices(k)
    BY <1>1, <1>2, <1>3, OwnedRemoved
  <2>6. ASSUME Matched
        PROVE  Matched'
    <3>1. ASSUME NEW k \in Group
          PROVE  /\ free'[k] = InodesPerGroup - Cardinality(Owned(k)')
                 /\ dirs'[k] = Cardinality(Directories(k)')
                 /\ Bits(k)' = ext4_fs_init_inode_bitmap \cup Indices(k)'
      <4>1. /\ free[k] = InodesPerGroup - Cardinality(Owned(k))
            /\ dirs[k] = Cardinality(Directories(k))
            /\ Bits(k) = ext4_fs_init_inode_bitmap \cup Indices(k)
            /\ Cardinality(Owned(k)) \in Nat
            /\ Cardinality(Directories(k)) \in 0 .. Cardinality(Owned(k))
            /\ InodesPerGroup \in Nat
        BY <1>1, <2>6, OwnedFinite, Volume DEF Matched
      <4>2. CASE k = g
        <5>1. /\ Cardinality(Owned(k)') = Cardinality(Owned(k)) - 1
              /\ Cardinality(Directories(k)') = Cardinality(Directories(k)) - Dirs(own[n])
              /\ Indices(k)' = Indices(k) \ {Index(n)}
          BY <2>5, <4>2
        <5>2. free'[k] = free[k] + 1 /\ dirs'[k] = (dirs[k] - Dirs(own[n])) % Word
          BY <1>1, <2>1, <4>2 DEF TypeOK
        <5>3. dirs'[k] = dirs[k] - Dirs(own[n])
          <6>1. dirs[k] \in 0 .. Word - 1 /\ Dirs(own[n]) \in {0, 1} /\ Word \in Nat
            BY <1>1, Volume DEF TypeOK, Dirs
          <6>2. dirs[k] - Dirs(own[n]) \in Nat
            <7>1. CASE own[n]
              <8>1. n \in Directories(k)
                BY <4>2, <7>1 DEF Directories, Owned
              <8>2. IsFiniteSet(Directories(k))
                BY <1>1, OwnedFinite
              <8>3. Cardinality(Directories(k)) # 0
                BY <8>1, <8>2, FS_EmptySet
              <8> QED
                BY <4>1, <6>1, <8>3
            <7>2. CASE ~own[n]
              BY <6>1, <7>2 DEF Dirs
            <7> QED
              BY <7>1, <7>2
          <6>3. dirs[k] - Dirs(own[n]) < Word
            BY <6>1
          <6>4. (dirs[k] - Dirs(own[n])) % Word = dirs[k] - Dirs(own[n])
            BY <6>2, <6>3, ModSmall
          <6> QED
            BY <5>2, <6>4
        <5>4. Index(n) \notin ext4_fs_init_inode_bitmap
          <6>1. Index(n) \in 0 .. InodesPerGroup - 1
            BY <1>1, OwnedPlace DEF Slots
          <6> QED
            BY <4>1, <6>1, Volume DEF ext4_fs_init_inode_bitmap
        <5>5. Bits(k)' = ext4_fs_init_inode_bitmap \cup Indices(k)'
          BY <2>3, <4>1, <4>2, <5>1, <5>4
        <5>6. free'[k] = InodesPerGroup - Cardinality(Owned(k)')
          BY <4>1, <5>1, <5>2
        <5> QED
          BY <4>1, <5>1, <5>3, <5>5, <5>6
      <4>3. CASE k # g
        <5>1. free'[k] = free[k] /\ dirs'[k] = dirs[k] /\ Bits(k)' = Bits(k)
          BY <1>1, <2>1, <2>3, <4>3 DEF TypeOK
        <5>2. Owned(k)' = Owned(k) /\ Directories(k)' = Directories(k) /\ Indices(k)' = Indices(k)
          BY <2>5, <4>3
        <5> QED
          BY <4>1, <5>1, <5>2
      <4> QED
        BY <4>2, <4>3
    <3>2. sbFree' = InodesPerGroup * Groups - Cardinality(DOMAIN own')
      <4> DEFINE total == InodesPerGroup * Groups
                 held == Cardinality(DOMAIN own)
                 next == Cardinality(DOMAIN own')
      <4>1. sbFree = total - held /\ held \in 0 .. total /\ total \in Nat /\ total < Word
        BY <1>1, <2>6, OwnedFinite, Volume DEF Matched
      <4>2. next = held - 1 /\ next \in 0 .. total
        BY <2>3, <2>5, OwnedFiniteNext
      <4>3. Word \in Nat
        BY Volume
      <4>4. sbFree' = (sbFree - (-1)) % Word
        BY <2>4
      <4> HIDE DEF total, held, next
      <4>5. sbFree - (-1) \in Nat /\ sbFree - (-1) < Word /\ sbFree - (-1) = total - next
        BY <4>1, <4>2, <4>3
      <4>6. sbFree' = total - next
        BY <4>4, <4>5, ModSmall
      <4> QED
        BY <4>6 DEF total, next
    <3> QED
      BY <3>1, <3>2 DEF Matched, ext4_fs_init_inode_bitmap
  <2>7. CountsMatch'
    BY <1>1, <2>4, <2>6, CountsMeaning
  <2>8. TypeOK'
    <3>1. sbFree' \in 0 .. Word - 1
      <4>1. sbFree - (-1) \in Int
        BY <1>1, Volume DEF TypeOK
      <4> QED
        BY <2>4, <4>1, ModType
    <3> QED
      BY <1>1, <1>2, <1>4, <2>1, <2>3, <2>4, <3>1 DEF TypeOK
  <2> QED
    BY <2>3, <2>4, <2>7, <2>8 DEF IInv, EmptyCounts
<1>6. CASE Referenced({g}) /\ NotCounted /\ Returns("EIO", TRUE)
  <2>1. /\ used' \in [Group -> SUBSET (0 .. BitsPerBlock - 1)] /\ uninit' \in SUBSET Group
        /\ \A k \in Group : Bits(k)' = Bits(k)
    BY <1>1, <1>6, BitsReferenced
  <2>2. UNCHANGED <<free, dirs, sbFree>> /\ failed' = TRUE /\ ret' = "EIO"
    BY <1>6 DEF NotCounted, Returns
  <2>3. OwnedIsMarked'
    BY <1>1, <1>2, <2>1, OwnedPlace, OwnedMarkedNext
  <2>4. \A k \in Group : ClearSlots(k)' = ClearSlots(k)
    BY <2>1 DEF ClearSlots, Slots
  <2>5. FreeCovered'
    BY <1>1, <2>2, <2>4 DEF FreeCovered
  <2>6. TypeOK'
    BY <1>1, <1>2, <1>4, <2>1, <2>2 DEF TypeOK
  <2> QED
    BY <2>2, <2>3, <2>5, <2>6, CountsMeaning DEF IInv, EmptyCounts
<1>7. CASE Rewritten({g}, g, Bits(g) \ {Index(n)}) /\ NotCounted /\ Returns("EIO", TRUE)
  <2>1. UNCHANGED <<free, dirs, sbFree>> /\ failed' = TRUE /\ ret' = "EIO"
    BY <1>7 DEF NotCounted, Returns
  <2>2. \A k \in Group : free'[k] \in Nat /\ free'[k] <= free[k] + (IF k = g THEN 1 ELSE 0)
    BY <1>1, <2>1 DEF TypeOK
  <2>3. /\ used' \in [Group -> SUBSET (0 .. BitsPerBlock - 1)] /\ uninit' \in SUBSET Group
        /\ OwnedIsMarked'
        /\ FreeCovered'
    BY <1>1, <1>2, <1>7, <2>2, ClearedKeeps
  <2>4. TypeOK'
    BY <1>1, <1>2, <1>4, <2>1, <2>3 DEF TypeOK
  <2> QED
    BY <2>1, <2>3, <2>4, CountsMeaning DEF IInv, EmptyCounts
<1>8. CASE Released(n, own[n]) /\ UNCHANGED sbFree /\ Returns("EIO", TRUE)
  <2>1. /\ free' \in [Group -> 0 .. Word - 1]
        /\ dirs' \in [Group -> 0 .. Word - 1]
        /\ \A k \in Group : free'[k] \in Nat /\ free'[k] <= free[k] + (IF k = g THEN 1 ELSE 0)
    BY <1>1, <1>8, ReleasedCounts
  <2>2. Rewritten({g}, g, Bits(g) \ {Index(n)})
    BY <1>8 DEF Released
  <2>3. /\ used' \in [Group -> SUBSET (0 .. BitsPerBlock - 1)] /\ uninit' \in SUBSET Group
        /\ OwnedIsMarked'
        /\ FreeCovered'
    BY <1>1, <1>2, <2>1, <2>2, ClearedKeeps
  <2>4. failed' = TRUE /\ ret' = "EIO" /\ UNCHANGED sbFree
    BY <1>8 DEF Returns
  <2>5. TypeOK'
    BY <1>1, <1>2, <1>4, <2>1, <2>3, <2>4 DEF TypeOK
  <2> QED
    BY <2>3, <2>4, <2>5, CountsMeaning DEF IInv, EmptyCounts
<1> QED
  BY <1>5, <1>6, <1>7, <1>8 DEF ext4_ialloc_free_inode

-----------------------------------------------------------------------------
(* A volume without inodes satisfies the invariant. *)
LEMMA InitKeeps ==
  ASSUME Init
  PROVE  IInv
<1>1. DOMAIN own = {}
  BY DEF Init
<1>2. \A g \in Group : Bits(g) = ext4_fs_init_inode_bitmap
  BY DEF Init, Bits
<1>3. TypeOK
  <2>1. /\ Groups \in Nat \ {0} /\ Group = 0 .. Groups - 1 /\ ext4_block_group_cnt = Groups
        /\ InodesPerGroup \in Nat /\ Word \in Nat \ {0} /\ InodesPerGroup < Word
        /\ InodesPerGroup * Groups \in Nat /\ InodesPerGroup * Groups < Word
    BY Volume
  <2>2. InodesPerGroup \in 0 .. Word - 1 /\ 0 \in 0 .. Word - 1 /\ 0 \in Group
        /\ InodesPerGroup * Groups \in 0 .. Word - 1
    BY <2>1
  <2>3. own \in [DOMAIN own -> BOOLEAN]
    BY <1>1 DEF Init
  <2> QED
    BY <2>1, <2>2, <2>3 DEF Init, TypeOK
<1>4. OwnedIsMarked
  BY <1>1 DEF OwnedIsMarked
<1>5. FreeCovered
  <2>1. ASSUME NEW g \in Group
        PROVE  free[g] <= Cardinality(ClearSlots(g))
    <3>1. InodesPerGroup \in Nat \ {0} /\ 0 \in Int /\ InodesPerGroup - 1 \in Int /\ BitsPerBlock \in Nat
      BY Volume
    <3>2. ClearSlots(g) = 0 .. InodesPerGroup - 1
      BY <1>2, <3>1 DEF ClearSlots, Slots, ext4_fs_init_inode_bitmap
    <3>3. Cardinality(0 .. InodesPerGroup - 1) =
            IF 0 > InodesPerGroup - 1 THEN 0 ELSE InodesPerGroup - 1 - 0 + 1
      BY <3>1, FS_Interval
    <3> QED
      BY <3>1, <3>2, <3>3 DEF Init
  <2> QED
    BY <2>1 DEF FreeCovered
<1>6. CountsMatch
  <2>1. \A g : Owned(g) = {} /\ Directories(g) = {} /\ Indices(g) = {}
    BY <1>1 DEF Owned, Directories, Indices
  <2>2. Cardinality({}) = 0
    BY FS_EmptySet
  <2>3. sbFree = InodesPerGroup * Groups - 0
    BY Volume DEF Init
  <2>4. \A g \in Group : free[g] = InodesPerGroup - 0 /\ dirs[g] = 0
    BY Volume DEF Init
  <2>5. Matched
    BY <1>1, <1>2, <2>1, <2>2, <2>3, <2>4 DEF Matched
  <2> QED
    BY <2>5, CountsMeaning
<1> QED
  BY <1>3, <1>4, <1>5, <1>6 DEF IInv, EmptyCounts, Init

(* So does every state an allocation or a release leads to. *)
LEMMA InvariantHolds == Spec => []IInv
<1>1. Init => IInv
  BY InitKeeps
<1>2. IInv /\ [Next]_vars => IInv'
  <2> SUFFICES ASSUME IInv, [Next]_vars
               PROVE  IInv'
    OBVIOUS
  <2>1. CASE \E dir \in BOOLEAN : ext4_fs_alloc_inode(dir)
    BY <2>1, AllocKeeps
  <2>2. CASE \E ino \in DOMAIN own : ext4_ialloc_free_inode(ino)
    BY <2>2, FreeKeeps
  <2>3. CASE UNCHANGED vars
    <3>1. /\ \A k \in Group : Bits(k)' = Bits(k)
          /\ UNCHANGED <<used, uninit, free, dirs, unused, sbFree, last, own, unread, ret, failed>>
      BY <2>3 DEF vars, Bits
    <3>2. TypeOK'
      BY <3>1 DEF IInv, TypeOK
    <3>3. OwnedIsMarked' /\ FreeCovered' /\ CountsMatch'
      BY <3>1, OwnedPlace, OnlyReferenced DEF IInv
    <3> QED
      BY <3>1, <3>2, <3>3 DEF IInv, EmptyCounts
  <2> QED
    BY <2>1, <2>2, <2>3 DEF Next
<1> QED
  BY <1>1, <1>2, PTL DEF Spec

(* Every variable keeps its type. *)
THEOREM InodeTypes == Spec => []TypeOK
<1>1. IInv => TypeOK
  BY DEF IInv
<1> QED
  BY <1>1, InvariantHolds, PTL

(* An inode that ext4_fs_alloc_inode has handed out stays marked in the bitmap
   of its group and in front of the border itable_unused draws, until
   ext4_ialloc_free_inode takes it back, whatever fails in between. *)
THEOREM InodeMarked == Spec => []OwnedIsMarked
<1>1. IInv => OwnedIsMarked
  BY DEF IInv
<1> QED
  BY <1>1, InvariantHolds, PTL

(* Unless an operation failed half-way, the counts of free inodes and of
   directories that ext4_ialloc_alloc_inode and ext4_ialloc_free_inode keep
   agree with the bitmaps and with the inodes handed out; the rollback of
   ext4_fs_alloc_inode keeps them so. *)
THEOREM InodeCounts == Spec => []CountsMatch
<1>1. IInv => CountsMatch
  BY DEF IInv
<1> QED
  BY <1>1, InvariantHolds, PTL

(* The loop of ext4_ialloc_alloc_inode ends: a group with a count above 0 has
   a clear bit, whatever failed before. *)
THEOREM InodeSearchEnds == Spec => []SearchEnds
<1>1. IInv => SearchEnds
  <2> SUFFICES ASSUME IInv, NEW g \in Group, free[g] > 0
               PROVE  FirstFree(g) # None
    BY DEF SearchEnds
  <2>1. free[g] <= Cardinality(ClearSlots(g)) /\ free[g] \in Nat
    BY DEF IInv, FreeCovered, TypeOK
  <2>2. Cardinality(ClearSlots(g)) # 0
    BY <2>1, ClearFinite
  <2>3. ClearSlots(g) # {}
    BY <2>2, FS_EmptySet
  <2> QED
    BY <2>3, FirstFreeFinds
<1> QED
  BY <1>1, InvariantHolds, PTL

(* ext4_ialloc_alloc_inode returns ENOSPC only when every inode of the volume
   is handed out: the search visits every group, and a count of 0 means a full
   group. *)
THEOREM InodeSpace == Spec => []NoSpaceMeansFull
<1>1. IInv => NoSpaceMeansFull
  <2> SUFFICES ASSUME IInv, ret = "ENOSPC", ~failed
               PROVE  Cardinality(DOMAIN own) = InodesPerGroup * Groups
    BY DEF NoSpaceMeansFull
  <2>1. OwnedIsMarked /\ Matched /\ \A g \in Group : free[g] = 0
    BY CountsMeaning DEF IInv, EmptyCounts
  <2>2. ASSUME NEW g \in Group
        PROVE  Owned(g) = Numbers(g)
    <3>1. g \in Nat /\ InodesPerGroup \in Nat \ {0} /\ g * InodesPerGroup \in Nat
      BY Volume
    <3>2. Owned(g) \in SUBSET Numbers(g)
      <4>1. ASSUME NEW i \in Owned(g)
            PROVE  i \in Numbers(g)
        <5>1. i \in DOMAIN own /\ Home(i) = g
          BY DEF Owned
        <5>2. Index(i) \in 0 .. InodesPerGroup - 1 /\ i = Number(Home(i), Index(i))
          BY <2>1, <5>1, OwnedPlace DEF Slots
        <5>3. i = g * InodesPerGroup + Index(i) + 1
          BY <5>1, <5>2 DEF Number
        <5> QED
          BY <3>1, <5>2, <5>3 DEF Numbers
      <4> QED
        BY <4>1
    <3>3. IsFiniteSet(Numbers(g)) /\ Cardinality(Numbers(g)) = InodesPerGroup
      <4> DEFINE lo == g * InodesPerGroup + 1
                 hi == g * InodesPerGroup + InodesPerGroup
      <4>1. lo \in Int /\ hi \in Int /\ hi - lo + 1 = InodesPerGroup /\ ~(lo > hi)
        BY <3>1
      <4>2. Numbers(g) = lo .. hi
        BY DEF Numbers
      <4> HIDE DEF lo, hi
      <4>3. IsFiniteSet(lo .. hi) /\ Cardinality(lo .. hi) = IF lo > hi THEN 0 ELSE hi - lo + 1
        BY <4>1, FS_Interval
      <4> QED
        BY <4>1, <4>2, <4>3
    <3>4. Cardinality(Owned(g)) = InodesPerGroup
      <4>1. 0 = InodesPerGroup - Cardinality(Owned(g)) /\ Cardinality(Owned(g)) \in Nat
        BY <2>1, OwnedFinite DEF Matched
      <4> QED
        BY <3>1, <4>1
    <3> QED
      BY <3>2, <3>3, <3>4, FS_Subset
  <2>3. DOMAIN own = 1 .. InodesPerGroup * Groups
    <3>1. ASSUME NEW i \in 1 .. InodesPerGroup * Groups
          PROVE  i \in DOMAIN own
      <4>1. Home(i) \in Group /\ Index(i) \in 0 .. InodesPerGroup - 1
            /\ i = Number(Home(i), Index(i))
        BY PlaceOf DEF Slots
      <4>2. Home(i) * InodesPerGroup \in Int
        BY <4>1, Volume
      <4>3. i \in Numbers(Home(i))
        BY <4>1, <4>2, Volume DEF Number, Numbers
      <4>4. i \in Owned(Home(i))
        BY <2>2, <4>1, <4>3
      <4> QED
        BY <4>4 DEF Owned
    <3>2. DOMAIN own \subseteq 1 .. InodesPerGroup * Groups
      BY <2>1 DEF OwnedIsMarked
    <3> QED
      BY <3>1, <3>2
  <2>4. InodesPerGroup * Groups \in Nat /\ 1 \in Int
    BY Volume
  <2>5. Cardinality(1 .. InodesPerGroup * Groups) =
          IF 1 > InodesPerGroup * Groups THEN 0 ELSE InodesPerGroup * Groups - 1 + 1
    BY <2>4, FS_Interval
  <2> QED
    BY <2>3, <2>4, <2>5
<1> QED
  BY <1>1, InvariantHolds, PTL
=============================================================================
