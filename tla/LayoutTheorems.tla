--------------------------- MODULE LayoutTheorems ---------------------------
(***************************************************************************)
(* Facts about the arithmetic and the operators of Bitmap and Layout that  *)
(* the proofs about the allocators rest on.                                *)
(***************************************************************************)
EXTENDS Layout, DataTheorems

(* Multiplication respects the order. *)
LEMMA ProductOrder ==
  ASSUME NEW a \in Nat, NEW b \in Nat, NEW n \in Nat, a < b
  PROVE  a * n + n <= b * n
<1>1. PICK c \in Nat : b = a + 1 + c
  <2>1. b - a - 1 \in Nat /\ b = a + 1 + (b - a - 1)
    OBVIOUS
  <2> QED
    BY <2>1
<1>2. b * n = a * n + n + c * n
  BY <1>1
<1>3. c * n \in Nat
  OBVIOUS
<1> QED
  BY <1>2, <1>3

(* Multiplication by a positive number does not decrease. *)
LEMMA ProductAtLeast ==
  ASSUME NEW a \in Nat, NEW n \in Nat \ {0}
  PROVE  a * n \in Nat /\ a <= a * n
<1>1. PICK c \in Nat : n = c + 1
  <2>1. n - 1 \in Nat /\ n = (n - 1) + 1
    OBVIOUS
  <2> QED
    BY <2>1
<1>2. a * n = a * c + a /\ a * c \in Nat
  BY <1>1
<1> QED
  BY <1>2

(* Quotient and remainder by a positive number. *)
LEMMA DivMod ==
  ASSUME NEW a \in Nat, NEW n \in Nat \ {0}
  PROVE  /\ a \div n \in Nat /\ a % n \in 0 .. n - 1
         /\ a = (a \div n) * n + (a % n)
OBVIOUS

(* They are determined by where the number lies. *)
LEMMA DivModUnique ==
  ASSUME NEW n \in Nat \ {0}, NEW q \in Nat, NEW r \in 0 .. n - 1
  PROVE  (q * n + r) \div n = q /\ (q * n + r) % n = r
<1> DEFINE a == q * n + r
           d == a \div n
           m == a % n
<1>1. a \in Nat
  OBVIOUS
<1>2. d \in Nat /\ m \in 0 .. n - 1 /\ a = d * n + m
  BY <1>1, DivMod
<1>3. ~(d < q)
  <2>1. d < q => d * n + n <= q * n
    BY <1>2, ProductOrder
  <2> QED
    BY <1>2, <2>1
<1>4. ~(q < d)
  <2>1. q < d => q * n + n <= d * n
    BY <1>2, ProductOrder
  <2> QED
    BY <1>2, <2>1
<1>5. d = q
  BY <1>2, <1>3, <1>4
<1>6. m = r
  BY <1>2, <1>5
<1> QED
  BY <1>5, <1>6

(* A number below n * m has a quotient below m. *)
LEMMA DivBound ==
  ASSUME NEW a \in Nat, NEW n \in Nat \ {0}, NEW m \in Nat, a < m * n
  PROVE  a \div n < m
<1>1. a \div n \in Nat /\ a % n \in 0 .. n - 1 /\ a = (a \div n) * n + (a % n)
  BY DivMod
<1>2. ~(m < a \div n)
  <2>1. m < a \div n => m * n + n <= (a \div n) * n
    BY <1>1, ProductOrder
  <2> QED
    BY <1>1, <2>1
<1>3. m # a \div n
  BY <1>1
<1> QED
  BY <1>1, <1>2, <1>3

(* The smaller of two numbers. *)
LEMMA LeastOfTwo ==
  ASSUME NEW a \in Nat, NEW b \in Nat
  PROVE  Min({a, b}) = IF a <= b THEN a ELSE b
<1>1. Min({a, b}) \in {a, b} /\ \A k \in {a, b} : Min({a, b}) <= k
  BY LeastNatural, {a, b} \in SUBSET Nat, {a, b} # {}
<1> QED
  BY <1>1

(* FirstClear finds the first clear bit of its range, if there is one. *)
LEMMA FirstClearFinds ==
  ASSUME NEW bits, NEW from \in Nat, NEW to \in Int
  PROVE  LET found == FirstClear(bits, from, to)
         IN /\ found = None <=> from .. to - 1 \subseteq bits
            /\ found # None => /\ found \in (from .. to - 1) \ bits
                               /\ from .. found - 1 \subseteq bits
<1> DEFINE clear == (from .. to - 1) \ bits
<1>1. CASE clear = {}
  <2>1. FirstClear(bits, from, to) = None /\ from .. to - 1 \subseteq bits
    BY <1>1 DEF FirstClear
  <2> QED
    BY <2>1
<1>2. CASE clear # {}
  <2>1. clear \in SUBSET Nat
    OBVIOUS
  <2>2. Min(clear) \in clear /\ \A k \in clear : Min(clear) <= k
    BY <1>2, <2>1, LeastNatural
  <2>3. FirstClear(bits, from, to) = Min(clear)
    BY <1>2 DEF FirstClear
  <2>4. Min(clear) # None
    BY <2>2 DEF None
  <2>5. from .. Min(clear) - 1 \subseteq bits
    BY <2>2
  <2> QED
    BY <2>2, <2>3, <2>4, <2>5
<1> QED
  BY <1>1, <1>2

(* The least multiple of a that is not below n. *)
LEMMA RoundUpOf ==
  ASSUME NEW n \in Nat, NEW a \in Nat \ {0}
  PROVE  /\ RoundUp(n, a) \in Nat
         /\ n <= RoundUp(n, a)
         /\ \A k \in Nat : n <= k * a => RoundUp(n, a) <= k * a
<1> DEFINE q == (n + a - 1) \div a
           r == (n + a - 1) % a
<1>1. n + a - 1 \in Nat
  OBVIOUS
<1>2. q \in Nat /\ r \in 0 .. a - 1 /\ n + a - 1 = q * a + r
  BY <1>1, DivMod
<1>3. RoundUp(n, a) = q * a
  BY DEF RoundUp
<1> HIDE DEF q, r
<1>4. q * a \in Nat
  BY <1>2, ProductAtLeast
<1>5. n <= q * a
  BY <1>2, <1>4
<1>6. ASSUME NEW k \in Nat, n <= k * a
      PROVE  q * a <= k * a
  <2>1. k * a \in Nat
    BY ProductAtLeast
  <2>2. CASE q <= k
    <3>1. q < k => q * a + a <= k * a
      BY <1>2, ProductOrder
    <3> QED
      BY <1>2, <1>4, <2>1, <2>2, <3>1
  <2>3. CASE k < q
    <3>1. k * a + a <= q * a
      BY <1>2, <2>3, ProductOrder
    <3> QED
      BY <1>2, <1>4, <1>6, <2>1, <3>1
  <2> QED
    BY <1>2, <2>2, <2>3
<1> QED
  BY <1>3, <1>4, <1>5, <1>6

(* A byte boundary comes no later than the boundary of a number of bytes. *)
LEMMA RoundUpBytes ==
  ASSUME NEW n \in Nat, NEW a \in Nat \ {0}, a % 8 = 0
  PROVE  RoundUp(n, 8) <= RoundUp(n, a)
<1>1. a = (a \div 8) * 8 /\ a \div 8 \in Nat
  BY DivMod
<1>2. PICK q \in Nat : RoundUp(n, a) = q * a
  <2>1. (n + a - 1) \div a \in Nat
    <3>1. n + a - 1 \in Nat
      OBVIOUS
    <3> QED
      BY <3>1, DivMod
  <2> QED
    BY <2>1 DEF RoundUp
<1>3. PICK c \in Nat : a = c * 8
  BY <1>1
<1>4. q * a = (q * c) * 8 /\ q * c \in Nat
  BY <1>3
<1>5. n <= (q * c) * 8
  BY <1>2, <1>4, RoundUpOf
<1>6. RoundUp(n, 8) <= (q * c) * 8
  BY <1>4, <1>5, RoundUpOf, 8 \in Nat \ {0}
<1> QED
  BY <1>2, <1>4, <1>6

(* A search whose bits before the byte boundary are all set. *)
LEMMA SearchFromByte ==
  ASSUME NEW bits, NEW sbit \in Nat, NEW ebit \in Nat,
         \A k \in sbit .. ebit - 1 : k < RoundUp(sbit, 8) => k \in bits
  PROVE  ext4_bmap_bit_find_clr(bits, sbit, ebit) = FirstClear(bits, RoundUp(sbit, 8), ebit)
<1> DEFINE up == RoundUp(sbit, 8)
           end == Min({ebit, up})
<1>1. up \in Nat
  BY RoundUpOf, 8 \in Nat \ {0}
<1>2. end = IF ebit <= up THEN ebit ELSE up
  BY <1>1, LeastOfTwo
<1> HIDE DEF up
<1>3. end \in Int /\ sbit .. end - 1 \subseteq bits
  BY <1>1, <1>2 DEF up
<1> HIDE DEF end
<1>4. FirstClear(bits, sbit, end) = None
  BY <1>3, FirstClearFinds
<1> QED
  BY <1>4 DEF ext4_bmap_bit_find_clr, up, end

(* A search from bit 0 has no part before a byte boundary. *)
LEMMA SearchFromZero ==
  ASSUME NEW bits, NEW ebit \in Nat
  PROVE  ext4_bmap_bit_find_clr(bits, 0, ebit) = FirstClear(bits, 0, ebit)
<1>1. RoundUp(0, 8) = 0
  BY DEF RoundUp
<1>2. Min({ebit, 0}) = 0
  BY LeastOfTwo
<1>3. FirstClear(bits, 0, 0) = None
  BY FirstClearFinds
<1> QED
  BY <1>1, <1>2, <1>3 DEF ext4_bmap_bit_find_clr

-----------------------------------------------------------------------------
(* Division rounding up. *)
LEMMA DivUpOf ==
  ASSUME NEW n \in Nat \ {0}, NEW q \in Nat, NEW r \in 0 .. n - 1
  PROVE  DivUp(q * n + r, n) = IF r = 0 THEN q ELSE q + 1
<1>1. CASE r = 0
  <2>1. q * n + r + n - 1 = q * n + (n - 1) /\ n - 1 \in 0 .. n - 1
    BY <1>1
  <2>2. (q * n + (n - 1)) \div n = q
    BY <2>1, DivModUnique
  <2> QED
    BY <1>1, <2>1, <2>2 DEF DivUp
<1>2. CASE r # 0
  <2>1. q * n + r + n - 1 = (q + 1) * n + (r - 1) /\ r - 1 \in 0 .. n - 1 /\ q + 1 \in Nat
    BY <1>2
  <2>2. ((q + 1) * n + (r - 1)) \div n = q + 1
    BY <2>1, DivModUnique
  <2> QED
    BY <1>2, <2>1, <2>2 DEF DivUp
<1> QED
  BY <1>1, <1>2

(* The driver sees the groups mkfs has formatted, and the last of them is not
   empty. *)
LEMMA GroupCount ==
  ASSUME OneGroupCount, Groups > 0
  PROVE  /\ ext4_block_group_cnt = Groups
         /\ Groups \in Nat
         /\ LenBlocks \in Nat
         /\ (Groups - 1) * BlocksPerGroup < LenBlocks
         /\ LenBlocks <= Groups * BlocksPerGroup
<1> DEFINE B == BlocksPerGroup
           q == DeviceLen \div B
           r == DeviceLen % B
<1>1. B \in Nat \ {0} /\ B > 1 /\ DeviceLen \in Nat /\ DeviceLen > 0 /\ FirstDataBlock \in {0, 1}
  BY LayoutAssumption
<1>2. q \in Nat /\ r \in 0 .. B - 1 /\ DeviceLen = q * B + r
  BY <1>1, DivMod
<1> HIDE DEF q, r
<1>3. DivUp(DeviceLen, B) = IF r = 0 THEN q ELSE q + 1
  BY <1>1, <1>2, DivUpOf
<1>4. FormatGroups = DivUp(DeviceLen, B)
  <2>1. CASE FirstDataBlock = 0
    BY <1>1, <2>1 DEF FormatGroups
  <2>2. CASE FirstDataBlock = 1 /\ r # 0
    <3>1. r - 1 \in 0 .. B - 1 /\ r - 1 # 0 /\ DeviceLen - 1 = q * B + (r - 1)
      BY <1>1, <1>2, <2>2 DEF OneGroupCount, r
    <3>2. DivUp(q * B + (r - 1), B) = q + 1
      BY <1>1, <1>2, <3>1, DivUpOf
    <3> QED
      BY <1>3, <2>2, <3>1, <3>2 DEF FormatGroups
  <2>3. CASE FirstDataBlock = 1 /\ r = 0
    <3>1. q # 0
      BY <1>1, <1>2, <2>3
    <3>2. q - 1 \in Nat /\ B - 1 \in 0 .. B - 1 /\ B - 1 # 0 /\ DeviceLen - 1 = (q - 1) * B + (B - 1)
      BY <1>1, <1>2, <2>3, <3>1
    <3>3. DivUp((q - 1) * B + (B - 1), B) = (q - 1) + 1
      BY <1>1, <3>2, DivUpOf
    <3> QED
      BY <1>2, <1>3, <2>3, <3>2, <3>3 DEF FormatGroups
  <2> QED
    BY <1>1, <2>1, <2>2, <2>3
<1>5. CASE LastTooSmall
  <2>1. r > 0 /\ Groups = q /\ LenBlocks = q * B + 0
    BY <1>1, <1>2, <1>3, <1>4, <1>5 DEF LastTooSmall, Groups, LenBlocks, r
  <2>2. DivUp(q * B + 0, B) = q
    <3>1. 0 \in 0 .. B - 1
      BY <1>1
    <3> QED
      BY <1>1, <1>2, <3>1, DivUpOf
  <2> QED
    BY <1>1, <1>2, <2>1, <2>2 DEF ext4_block_group_cnt
<1>6. CASE ~LastTooSmall
  <2>1. Groups = DivUp(DeviceLen, B) /\ LenBlocks = DeviceLen
    BY <1>4, <1>6 DEF Groups, LenBlocks, r
  <2> QED
    BY <1>1, <1>2, <1>3, <2>1 DEF ext4_block_group_cnt
<1> QED
  BY <1>5, <1>6

(* Every group has InodesPerGroup inodes. *)
LEMMA InodesInGroup ==
  ASSUME OneGroupCount, Groups > 0, NEW g \in Group
  PROVE  ext4_inodes_in_group_cnt(g) = InodesPerGroup
<1>1. ext4_block_group_cnt = Groups /\ Groups \in Nat /\ InodesPerGroup \in Nat
  BY GroupCount, LayoutAssumption
<1>2. CASE g < Groups - 1
  BY <1>1, <1>2 DEF ext4_inodes_in_group_cnt
<1>3. CASE ~(g < Groups - 1)
  <2>1. InodesPerGroup * Groups - (Groups - 1) * InodesPerGroup = InodesPerGroup
    BY <1>1
  <2> QED
    BY <1>1, <1>3, <2>1 DEF ext4_inodes_in_group_cnt
<1> QED
  BY <1>2, <1>3
=============================================================================
