---------------------------- MODULE XattrProofs -----------------------------
(***************************************************************************)
(* Proofs about Xattr, in three parts.                                     *)
(*                                                                         *)
(*   Areas       what ext4_xattr_set_entry makes of an area                *)
(*   References  blocks of attributes are given back when the last         *)
(*               reference goes and not before, and an inode that shares a *)
(*               block does not notice what happens to the other one       *)
(*   Contents    both areas stay readable, and what is read of an          *)
(*               attribute is what was set last                            *)
(*                                                                         *)
(* The references need only one input left out: ext4_xattr_block_set       *)
(* copies a shared block and then writes the original, and                 *)
(* ext4_fs_free_inode frees it ("shared" in Avoid); removing an attribute  *)
(* from a shared block is not left out.  The contents need every one.      *)
(***************************************************************************)
EXTENDS Xattr, DataTheorems

-----------------------------------------------------------------------------
(* Areas. *)

(* The words of the entries under some names. *)
Lengths(C) == Total(EntryLen, C)

LEMMA LengthsOf ==
  ASSUME NEW C \in SUBSET Names
  PROVE  /\ Lengths(C) \in Nat
         /\ \A n \in Names \ C : Lengths(C \cup {n}) = Lengths(C) + EntryLen[n]
<1>1. IsFiniteSet(Names) /\ \A n \in Names : EntryLen[n] \in Nat
  BY XattrAssumption
<1>2. ASSUME NEW D \in SUBSET Names
      PROVE  Total(EntryLen, D) \in Int /\ (D = {} => Total(EntryLen, D) = 0)
  <2>1. IsFiniteSet(D) /\ D \in SUBSET D
    BY <1>1, FS_Subset
  <2>2. \A x \in D : EntryLen[x] \in Int
    BY <1>1
  <2> QED
    BY <2>1, <2>2, SumsOf, TotalOf
<1>3. ASSUME NEW D \in SUBSET Names, NEW n \in Names \ D
      PROVE  Total(EntryLen, D \cup {n}) = Total(EntryLen, D) + EntryLen[n]
  <2> DEFINE S == D \cup {n}
             z == [x \in S |-> 0]
             f == [x \in S |-> IF x = n THEN 0 ELSE EntryLen[x]]
  <2>1. IsFiniteSet(S) /\ D \in SUBSET S /\ n \in S
    <3>1. S \in SUBSET Names
      OBVIOUS
    <3> QED
      BY <1>1, <3>1, FS_Subset
  <2>2. \A x \in S : z[x] \in Int /\ f[x] \in Int /\ EntryLen[x] \in Int /\ z[x] \in 0 .. 0
    BY <1>1
  <2>3. f[n] = 0 /\ \A x \in S \ {n} : EntryLen[x] = f[x]
    OBVIOUS
  <2>4. (\A x \in D : EntryLen[x] \in Int /\ f[x] = z[x] + EntryLen[x]) /\ \A x \in S \ D : f[x] = z[x]
    BY <1>1
  <2> HIDE DEF S, z, f
  <2>5. Total(EntryLen, S) = Total(f, S) + (EntryLen[n] - f[n]) /\ Total(f, S) \in Int
    BY <2>1, <2>2, <2>3, TotalChanged
  <2>6. Total(f, S) = Total(z, S) + Total(EntryLen, D)
    BY <2>1, <2>2, <2>4, TotalAdded
  <2>7. Total(z, S) \in Nat /\ Total(z, S) <= Cardinality(S) * 0
    BY <2>1, <2>2, TotalBounded
  <2>8. Total(z, S) = 0
    BY <2>1, <2>7, FS_CardinalityType
  <2>9. Total(EntryLen, D) \in Int /\ EntryLen[n] \in Int
    BY <1>1, <1>2
  <2> QED
    BY <2>3, <2>5, <2>6, <2>8, <2>9 DEF S
<1>4. Total(EntryLen, C) \in Nat
  <2>1. IsFiniteSet(C)
    BY <1>1, FS_Subset
  <2> DEFINE P == {D \in SUBSET C : Total(EntryLen, D) \in Nat}
  <2>2. {} \in P
    BY <1>2
  <2>3. ASSUME NEW D \in SUBSET C, D # {}, D \ {Picked(D)} \in P
        PROVE  D \in P
    <3> DEFINE x == Picked(D)
               r == D \ {x}
    <3>1. x \in D
      BY <2>3 DEF Picked
    <3>2. r \in SUBSET Names /\ x \in Names \ r /\ D = r \cup {x}
      BY <3>1
    <3>3. Total(EntryLen, r) \in Nat /\ EntryLen[x] \in Nat
      BY <1>1, <2>3, <3>2
    <3> HIDE DEF x, r
    <3>4. Total(EntryLen, r \cup {x}) = Total(EntryLen, r) + EntryLen[x]
      BY <1>3, <3>2
    <3> QED
      BY <3>2, <3>3, <3>4
  <2>4. P \in SUBSET SUBSET C
    OBVIOUS
  <2> HIDE DEF P
  <2>5. P = SUBSET C
    BY <2>1, <2>2, <2>3, <2>4, PickInduction
  <2> QED
    BY <2>5 DEF P
<1> QED
  BY <1>3, <1>4 DEF Lengths

(* What an area that was written consists of. *)
LEMMA WrittenParts ==
  ASSUME NEW a, NEW kind \in {"ibody", "block"}, Written(a, kind)
  PROVE  /\ a.kind = kind /\ a.ent \in Seq(Entries) /\ Len(a.ent) \in Nat /\ DOMAIN a.ent = 1 .. Len(a.ent)
         /\ Cap[kind] \in Nat /\ NamesIn(a) \subseteq Names
         /\ Used(a) = FirstEntry(kind) + Lengths(NamesIn(a)) /\ Used(a) \in Nat /\ Used(a) < Cap[kind]
<1>1. a = [kind |-> kind, ent |-> a.ent, cell |-> a.cell] /\ a.ent \in Seq(Entries) /\ Used(a) < Cap[kind]
  BY DEF Written
<1>2. a.kind = kind
  BY <1>1
<1>3. Len(a.ent) \in Nat /\ DOMAIN a.ent = 1 .. Len(a.ent)
  BY <1>1
<1>4. ToSet(a.ent) \subseteq Entries
  BY <1>1, MembersOf
<1>5. NamesIn(a) \subseteq Names
  BY <1>4 DEF NamesIn, Entries
<1>6. Used(a) = FirstEntry(kind) + Lengths(NamesIn(a)) /\ Used(a) \in Nat
  <2>1. Used(a) = FirstEntry(kind) + Lengths(NamesIn(a))
    BY <1>2 DEF Used, Lengths, Total
  <2>2. Lengths(NamesIn(a)) \in Nat
    BY <1>5, LengthsOf
  <2> QED
    BY <2>1, <2>2 DEF FirstEntry
<1>7. Cap[kind] \in Nat
  BY XattrAssumption
<1> QED
  BY <1>1, <1>2, <1>3, <1>5, <1>6, <1>7

(* Its entries, which have distinct names, by their positions. *)
LEMMA EntriesOf ==
  ASSUME NEW a, NEW kind \in {"ibody", "block"}, Written(a, kind)
  PROVE  /\ \A i \in 1 .. Len(a.ent) : a.ent[i] \in ToSet(a.ent) /\ a.ent[i] \in Entries
         /\ \A i, j \in 1 .. Len(a.ent) : a.ent[i].n = a.ent[j].n => i = j
<1>1. a.ent \in Seq(Entries) /\ IsInjective(a.ent) /\ Packed(ToSet(a.ent), kind, Used(a) + 1)
  BY DEF Written
<1>2. DOMAIN a.ent = 1 .. Len(a.ent)
  BY <1>1
<1>3. \A i \in 1 .. Len(a.ent) : a.ent[i] \in ToSet(a.ent) /\ a.ent[i] \in Entries
  BY <1>1, MembersOf
<1>4. \A i, j \in 1 .. Len(a.ent) : a.ent[i].n = a.ent[j].n => i = j
  <2>1. \A e, f \in ToSet(a.ent) : e # f => e.n # f.n
    BY <1>1 DEF Packed
  <2>2. \A i, j \in 1 .. Len(a.ent) : a.ent[i] = a.ent[j] => i = j
    BY <1>1, <1>2 DEF IsInjective
  <2> QED
    BY <1>3, <2>1, <2>2, Zenon
<1> QED
  BY <1>3, <1>4

(* And the positions of its entries. *)
LEMMA PositionsOf ==
  ASSUME NEW a, NEW kind \in {"ibody", "block"}, Written(a, kind)
  PROVE  \A e \in ToSet(a.ent) : e \in Entries /\ \E i \in 1 .. Len(a.ent) : a.ent[i] = e
<1>1. a.ent \in Seq(Entries)
  BY DEF Written
<1> QED
  BY <1>1, MembersOf

(* ext4_xattr_find_entry: the position of the name, 0 if it is not there. *)
LEMMA FoundIs ==
  ASSUME NEW a, NEW kind \in {"ibody", "block"}, Written(a, kind), NEW n
  PROVE  /\ Found(a, n) \in 0 .. Len(a.ent)
         /\ Found(a, n) # 0 => a.ent[Found(a, n)].n = n /\ n \in NamesIn(a)
         /\ Found(a, n) = 0 => n \notin NamesIn(a)
         /\ \A i \in 1 .. Len(a.ent) : a.ent[i].n = n => i = Found(a, n)
<1> DEFINE S == {0} \cup {i \in 1 .. Len(a.ent) : a.ent[i].n = n}
<1>1. /\ Len(a.ent) \in Nat
      /\ \A i, j \in 1 .. Len(a.ent) : a.ent[i].n = a.ent[j].n => i = j
      /\ \A i \in 1 .. Len(a.ent) : a.ent[i] \in ToSet(a.ent)
      /\ \A e \in ToSet(a.ent) : \E i \in 1 .. Len(a.ent) : a.ent[i] = e
  <2>1. Len(a.ent) \in Nat
    BY WrittenParts
  <2>2. /\ \A i, j \in 1 .. Len(a.ent) : a.ent[i].n = a.ent[j].n => i = j
        /\ \A i \in 1 .. Len(a.ent) : a.ent[i] \in ToSet(a.ent)
    BY EntriesOf
  <2>3. \A e \in ToSet(a.ent) : \E i \in 1 .. Len(a.ent) : a.ent[i] = e
    BY PositionsOf, Zenon
  <2> QED
    BY ONLY <2>1, <2>2, <2>3
<1>2. S \in SUBSET (0 .. Len(a.ent)) /\ S # {}
  BY <1>1
<1>3. Max(S) \in S /\ \A k \in S : k <= Max(S)
  <2>1. Len(a.ent) \in Nat
    BY <1>1
  <2> HIDE DEF S
  <2> QED
    BY <1>2, <2>1, GreatestNatural
<1>4. Found(a, n) = Max(S)
  BY DEF Found, ext4_xattr_find_entry
<1>5. \A i \in 1 .. Len(a.ent) : a.ent[i].n = n => i = Found(a, n)
  <2> TAKE i \in 1 .. Len(a.ent)
  <2> HAVE a.ent[i].n = n
  <2>1. i \in S /\ i > 0
    BY <1>1
  <2>2. i <= Max(S) /\ Max(S) # 0
    BY <1>1, <1>3, <2>1
  <2>3. Max(S) \in 1 .. Len(a.ent) /\ a.ent[Max(S)].n = n
    BY <1>3, <2>2
  <2> QED
    BY <1>1, <1>4, <2>3
<1>6. Found(a, n) = 0 => n \notin NamesIn(a)
  BY <1>1, <1>5 DEF NamesIn
<1>7. Found(a, n) # 0 => Found(a, n) \in 1 .. Len(a.ent) /\ a.ent[Found(a, n)].n = n
  BY <1>3, <1>4
<1>8. Found(a, n) # 0 => n \in NamesIn(a)
  BY <1>1, <1>7 DEF NamesIn
<1>9. Found(a, n) \in 0 .. Len(a.ent)
  BY <1>1, <1>7
<1> QED
  BY <1>5, <1>6, <1>7, <1>8, <1>9

(* Where the first value is. *)
LEMMA LowIs ==
  ASSUME NEW a, NEW kind \in {"ibody", "block"}, Written(a, kind), NEW end \in Nat
  PROVE  /\ MinOffs(a, end) \in Nat /\ MinOffs(a, end) <= end
         /\ \A e \in ToSet(a.ent) : e.len # 0 => MinOffs(a, end) <= e.offs
         /\ MinOffs(a, end) = end \/ \E e \in ToSet(a.ent) : e.len # 0 /\ MinOffs(a, end) = e.offs
<1> DEFINE E == {x \in ToSet(a.ent) : x.len # 0}
           S == {end} \cup {e.offs : e \in E}
<1>1. \A e \in ToSet(a.ent) : e.offs \in Nat
  BY PositionsOf DEF Entries
<1>2. S \in SUBSET Nat /\ S # {}
  BY <1>1
<1>3. Min(S) \in S /\ \A k \in S : Min(S) <= k
  BY <1>2, LeastNatural
<1>4. MinOffs(a, end) = Min(S)
  BY DEF MinOffs
<1> QED
  BY <1>2, <1>3, <1>4

(* Such an area can be read if no value begins right behind the entries; a
   block also if one does. *)
LEMMA ValidIs ==
  ASSUME NEW a, NEW kind \in {"ibody", "block"}, Written(a, kind)
  PROVE  /\ kind = "block" => Valid(a)
         /\ kind = "ibody" => (Valid(a) <=> \A e \in ToSet(a.ent) : e.len # 0 => Used(a) + 2 <= e.offs)
<1> DEFINE shift == IF kind = "ibody" THEN 1 ELSE 0
           end == Cap[kind] + shift
<1>1. a.kind = kind /\ Cap[kind] \in Nat /\ Used(a) \in Nat /\ Used(a) < Cap[kind]
  BY WrittenParts
<1>2. end \in Nat /\ shift \in {0, 1} /\ end = Cap[kind] + shift
  BY <1>1
<1>3. \A e \in ToSet(a.ent) : /\ e.offs \in Nat /\ e.len \in Nat
                              /\ IF e.len = 0 THEN e.offs = 0 ELSE Used(a) + 1 <= e.offs /\ e.offs + e.len <= Cap[kind]
  BY DEF Written, Packed, Entries
<1>4. /\ MinOffs(a, end) \in Nat /\ MinOffs(a, end) <= end
      /\ \A e \in ToSet(a.ent) : e.len # 0 => MinOffs(a, end) <= e.offs
      /\ MinOffs(a, end) = end \/ \E e \in ToSet(a.ent) : e.len # 0 /\ MinOffs(a, end) = e.offs
  BY <1>2, LowIs
<1>5. Valid(a) <=> /\ \A e \in ToSet(a.ent) : (e.len = 0 => e.offs = 0) /\ e.offs + e.len <= end
                   /\ Used(a) + 1 <= Cap[kind]
                   /\ MinOffs(a, end) - shift >= Used(a) + 1
  BY <1>1 DEF Valid
<1> HIDE DEF shift, end
<1>6. \A e \in ToSet(a.ent) : (e.len = 0 => e.offs = 0) /\ e.offs + e.len <= end
  BY <1>1, <1>2, <1>3
<1>7. Valid(a) <=> MinOffs(a, end) >= Used(a) + 1 + shift
  BY <1>1, <1>2, <1>4, <1>5, <1>6
<1>8. MinOffs(a, end) >= Used(a) + 1 + shift <=> \A e \in ToSet(a.ent) : e.len # 0 => Used(a) + 1 + shift <= e.offs
  BY <1>1, <1>2, <1>3, <1>4
<1>9. kind = "block" => shift = 0
  BY DEF shift
<1>10. kind = "ibody" => shift = 1
  BY DEF shift
<1> QED
  BY <1>1, <1>3, <1>7, <1>8, <1>9, <1>10

(* An entry after the value of another one was taken out. *)
Shift(e, old) == IF e.offs < old.offs THEN [e EXCEPT !.offs = @ + old.len] ELSE e

LEMMA ShiftParts ==
  ASSUME NEW e \in Entries, NEW old \in Entries
  PROVE  /\ Shift(e, old) \in Entries /\ Shift(e, old).n = e.n /\ Shift(e, old).len = e.len
         /\ Shift(e, old).offs = IF e.offs < old.offs THEN e.offs + old.len ELSE e.offs
         /\ e.n \in Names /\ e.offs \in Nat /\ e.len \in Nat /\ old.offs \in Nat /\ old.len \in Nat
BY DEF Shift, Entries

(* The words of the values afterwards, the first of which was at lo. *)
MovedCell(cell, lo, old) ==
  [o \in DOMAIN cell |->
     IF o >= lo + old.len /\ o < old.offs + old.len THEN cell[o - old.len]
     ELSE IF o >= lo /\ o < lo + old.len THEN Blank ELSE cell[o]]

(* The values in front of it move up by its length, without touching another
   one, and can be read there. *)
LEMMA MovedUp ==
  ASSUME NEW kind, Cap[kind] \in Nat, NEW E, NEW low \in Nat \ {0}, Packed(E, kind, low),
         NEW old \in E, old.len # 0, \A e \in E \ {old} : e.len # 0,
         NEW lo \in Nat, low <= lo, \A e \in E : e.len # 0 => lo <= e.offs,
         NEW cell, DOMAIN cell = 0 .. Cap[kind] - 1,
         NEW new, new = MovedCell(cell, lo, old)
  PROVE  /\ Packed({Shift(e, old) : e \in E \ {old}}, kind, lo + old.len)
         /\ \A e \in E \ {old} : \A v : Stores(cell, e, v) => Stores(new, Shift(e, old), v)
<1>1. \A e \in E : /\ e \in Entries /\ e.offs \in Nat /\ e.len \in Nat
                   /\ IF e.len = 0 THEN e.offs = 0 ELSE low <= e.offs /\ e.offs + e.len <= Cap[kind]
  BY DEF Packed, Entries
<1>2. \A e, f \in E : e # f =>
        e.n # f.n /\ (e.len = 0 \/ f.len = 0 \/ e.offs + e.len <= f.offs \/ f.offs + f.len <= e.offs)
  BY DEF Packed
<1>3. \A e \in E \ {old} : /\ lo <= e.offs /\ e.offs + e.len <= Cap[kind] /\ e.offs \in Nat /\ e.len \in Nat /\ e.len # 0
                           /\ e.offs + e.len <= old.offs \/ old.offs + old.len <= e.offs
  BY <1>1, <1>2
<1>4. old.offs \in Nat /\ old.len \in Nat /\ lo <= old.offs /\ old.offs + old.len <= Cap[kind]
  <2>1. old.offs \in Nat /\ old.len \in Nat /\ old.offs + old.len <= Cap[kind]
    BY ONLY <1>1, old \in E, old.len # 0
  <2>2. lo <= old.offs
    BY ONLY old \in E, old.len # 0, \A e \in E : e.len # 0 => lo <= e.offs
  <2> QED
    BY <2>1, <2>2
<1>5. \A e \in E \ {old} :
        /\ Shift(e, old) \in Entries /\ Shift(e, old).n = e.n /\ Shift(e, old).len = e.len
        /\ Shift(e, old).offs = IF e.offs < old.offs THEN e.offs + old.len ELSE e.offs
  BY <1>1, ShiftParts
<1>6. \A e \in E \ {old} : /\ lo + old.len <= Shift(e, old).offs /\ Shift(e, old).offs + e.len <= Cap[kind]
                           /\ Shift(e, old).offs \in Nat
  <2> TAKE e \in E \ {old}
  <2>1. /\ lo <= e.offs /\ e.offs + e.len <= Cap[kind] /\ e.offs \in Nat /\ e.len \in Nat /\ e.len # 0
        /\ e.offs + e.len <= old.offs \/ old.offs + old.len <= e.offs
    BY <1>3
  <2>2. Shift(e, old).offs = IF e.offs < old.offs THEN e.offs + old.len ELSE e.offs
    BY <1>5
  <2> QED
    BY ONLY <1>4, <2>1, <2>2, lo \in Nat, Cap[kind] \in Nat
<1>7. \A e, f \in E \ {old} : e # f =>
        \/ Shift(e, old).offs + e.len <= Shift(f, old).offs
        \/ Shift(f, old).offs + f.len <= Shift(e, old).offs
  <2> TAKE e, f \in E \ {old}
  <2> HAVE e # f
  <2>1. e.offs + e.len <= f.offs \/ f.offs + f.len <= e.offs
    BY <1>2, <1>3
  <2>2. Shift(e, old).offs = IF e.offs < old.offs THEN e.offs + old.len ELSE e.offs
    BY <1>5
  <2>3. Shift(f, old).offs = IF f.offs < old.offs THEN f.offs + old.len ELSE f.offs
    BY <1>5
  <2>4. /\ e.offs \in Nat /\ e.len \in Nat /\ f.offs \in Nat /\ f.len \in Nat
        /\ e.offs + e.len <= old.offs \/ old.offs + old.len <= e.offs
        /\ f.offs + f.len <= old.offs \/ old.offs + old.len <= f.offs
        /\ e.len # 0 /\ f.len # 0
    BY <1>3
  <2> QED
    BY ONLY <1>4, <2>1, <2>2, <2>3, <2>4
<1>8. Packed({Shift(e, old) : e \in E \ {old}}, kind, lo + old.len)
  <2>1. \A e \in E \ {old} : /\ Shift(e, old) \in Entries
                             /\ Shift(e, old).len # 0
                             /\ lo + old.len <= Shift(e, old).offs
                             /\ Shift(e, old).offs + Shift(e, old).len <= Cap[kind]
    BY <1>3, <1>5, <1>6
  <2>2. \A e, f \in E \ {old} : Shift(e, old) # Shift(f, old) =>
          /\ Shift(e, old).n # Shift(f, old).n
          /\ \/ Shift(e, old).offs + Shift(e, old).len <= Shift(f, old).offs
             \/ Shift(f, old).offs + Shift(f, old).len <= Shift(e, old).offs
    BY <1>2, <1>5, <1>7
  <2> QED
    BY <2>1, <2>2 DEF Packed
<1>9. ASSUME NEW e \in E \ {old}, NEW v, Stores(cell, e, v)
      PROVE  Stores(new, Shift(e, old), v)
  <2>1. ValueLen[v] = e.len /\ \A i \in 0 .. e.len - 1 : cell[e.offs + i] = <<v, i>>
    BY <1>9 DEF Stores
  <2>2. ASSUME NEW i \in 0 .. e.len - 1
        PROVE  new[Shift(e, old).offs + i] = cell[e.offs + i]
    <3> DEFINE o == Shift(e, old).offs + i
    <3>1. o \in DOMAIN cell /\ o \in Int
      BY <1>3, <1>5, <1>6
    <3>2. new[o] = IF o >= lo + old.len /\ o < old.offs + old.len THEN cell[o - old.len]
                   ELSE IF o >= lo /\ o < lo + old.len THEN Blank ELSE cell[o]
      <4> HIDE DEF o
      <4> QED
        BY <3>1, Zenon DEF MovedCell
    <3>3. /\ lo <= e.offs /\ e.offs \in Nat /\ e.len \in Nat /\ i \in Nat /\ i < e.len
          /\ e.offs + e.len <= old.offs \/ old.offs + old.len <= e.offs
      BY <1>3
    <3>4. o = (IF e.offs < old.offs THEN e.offs + old.len ELSE e.offs) + i
      BY <1>5
    <3> HIDE DEF o
    <3>5. CASE e.offs < old.offs
      <4>1. o >= lo + old.len /\ o < old.offs + old.len /\ o - old.len = e.offs + i
        BY ONLY <1>4, <3>3, <3>4, <3>5, lo \in Nat
      <4> QED
        BY <3>2, <4>1 DEF o
    <3>6. CASE ~(e.offs < old.offs)
      <4>1. ~(o < old.offs + old.len) /\ ~(o < lo + old.len) /\ o = e.offs + i
        BY ONLY <1>4, <3>3, <3>4, <3>6, lo \in Nat
      <4> QED
        BY <3>2, <4>1 DEF o
    <3> QED
      BY <3>5, <3>6
  <2> QED
    BY <1>5, <2>1, <2>2 DEF Stores
<1> QED
  BY <1>8, <1>9

(* The words of the values with that of a new entry. *)
FilledCell(cell, e, v) ==
  [o \in DOMAIN cell |->
     IF e.offs # 0 /\ o >= e.offs /\ o < e.offs + e.len THEN <<v, o - e.offs>> ELSE cell[o]]

(* The value of the new entry can be read. *)
LEMMA FilledSelf ==
  ASSUME NEW kind, Cap[kind] \in Nat, NEW M \in Nat, M <= Cap[kind],
         NEW e \in Entries, NEW v, e.len = ValueLen[v], e.len < M,
         e.offs = IF e.len = 0 THEN 0 ELSE M - e.len,
         NEW cell, DOMAIN cell = 0 .. Cap[kind] - 1
  PROVE  Stores(FilledCell(cell, e, v), e, v)
<1>1. e.len \in Nat /\ e.offs \in Nat /\ (e.len # 0 => 0 < e.offs /\ e.offs + e.len = M)
  BY DEF Entries
<1> SUFFICES ASSUME NEW i \in 0 .. e.len - 1 PROVE FilledCell(cell, e, v)[e.offs + i] = <<v, i>>
  BY DEF Stores
<1>2. i \in Nat /\ i < e.len /\ e.len # 0
  BY <1>1
<1>3. 0 < e.offs /\ e.offs + e.len = M
  BY <1>1, <1>2
<1>4. e.offs + i \in 0 .. Cap[kind] - 1
  BY ONLY <1>1, <1>2, <1>3, M <= Cap[kind], M \in Nat, Cap[kind] \in Nat
<1>5. e.offs + i >= e.offs /\ e.offs + i < e.offs + e.len /\ (e.offs + i) - e.offs = i /\ e.offs # 0
  BY ONLY <1>1, <1>2, <1>3
<1> QED
  BY <1>4, <1>5 DEF FilledCell

(* An entry whose value lies in front of the others': the area stays packed. *)
LEMMA PackedIn ==
  ASSUME NEW kind, Cap[kind] \in Nat, NEW D, NEW M \in Nat, Packed(D, kind, M), M <= Cap[kind],
         NEW e \in Entries, NEW low \in Nat \ {0}, low <= M - e.len,
         e.offs = IF e.len = 0 THEN 0 ELSE M - e.len,
         \A d \in D : d.n # e.n
  PROVE  Packed(D \cup {e}, kind, low)
<1>1. \A d \in D : /\ d \in Entries /\ d.offs \in Nat /\ d.len \in Nat
                   /\ IF d.len = 0 THEN d.offs = 0 ELSE M <= d.offs /\ d.offs + d.len <= Cap[kind]
  BY DEF Packed, Entries
<1>2. \A d, f \in D : d # f =>
        d.n # f.n /\ (d.len = 0 \/ f.len = 0 \/ d.offs + d.len <= f.offs \/ f.offs + f.len <= d.offs)
  BY DEF Packed
<1>3. e.len \in Nat /\ e.offs \in Nat /\ (e.len # 0 => low <= e.offs /\ e.offs + e.len = M)
  BY DEF Entries
<1>4. \A d \in D : d.len # 0 => low <= d.offs /\ (e.len # 0 => e.offs + e.len <= d.offs)
  BY <1>1, <1>3
<1>5. \A x \in D \cup {e} : /\ x \in Entries
                            /\ IF x.len = 0 THEN x.offs = 0 ELSE low <= x.offs /\ x.offs + x.len <= Cap[kind]
  BY <1>1, <1>3, <1>4
<1>6. \A x, y \in D \cup {e} : x # y =>
        x.n # y.n /\ (x.len = 0 \/ y.len = 0 \/ x.offs + x.len <= y.offs \/ y.offs + y.len <= x.offs)
  BY <1>2, <1>4
<1> QED
  BY <1>5, <1>6, Zenon DEF Packed

(* Its value is written: those behind it stay. *)
LEMMA FilledKeeps ==
  ASSUME NEW kind, Cap[kind] \in Nat, NEW D, NEW M \in Nat, Packed(D, kind, M),
         NEW e \in Entries, e.offs = 0 \/ e.offs + e.len <= M,
         NEW v, NEW cell, DOMAIN cell = 0 .. Cap[kind] - 1
  PROVE  \A d \in D : \A w : Stores(cell, d, w) => Stores(FilledCell(cell, e, v), d, w)
<1> DEFINE new == FilledCell(cell, e, v)
<1>1. \A d \in D : /\ d \in Entries /\ d.offs \in Nat /\ d.len \in Nat
                   /\ IF d.len = 0 THEN d.offs = 0 ELSE M <= d.offs /\ d.offs + d.len <= Cap[kind]
  BY DEF Packed, Entries
<1>2. ASSUME NEW d \in D, NEW w, Stores(cell, d, w)
      PROVE  Stores(new, d, w)
  <2>1. ValueLen[w] = d.len /\ \A i \in 0 .. d.len - 1 : cell[d.offs + i] = <<w, i>>
    BY <1>2 DEF Stores
  <2>2. ASSUME NEW i \in 0 .. d.len - 1
        PROVE  new[d.offs + i] = cell[d.offs + i]
    <3>1. /\ d.offs \in Nat /\ d.len \in Nat /\ i \in Nat /\ i < d.len
          /\ d.len # 0 => M <= d.offs /\ d.offs + d.len <= Cap[kind]
      BY <1>1
    <3>2. M <= d.offs + i /\ d.offs + i \in 0 .. Cap[kind] - 1
      BY ONLY <3>1, Cap[kind] \in Nat, M \in Nat
    <3>3. ~(e.offs # 0 /\ d.offs + i < e.offs + e.len)
      <4>1. CASE e.offs = 0
        BY <4>1
      <4>2. CASE e.offs + e.len <= M
        <5>1. d.offs + i \in Int /\ M \in Int /\ e.offs + e.len \in Int
          <6>1. e.offs \in Nat /\ e.len \in Nat
            BY DEF Entries
          <6> QED
            BY ONLY <3>1, <6>1, M \in Nat
        <5> QED
          BY ONLY <3>2, <4>2, <5>1
      <4> QED
        BY <4>1, <4>2
    <3> QED
      BY <3>2, <3>3 DEF FilledCell
  <2> HIDE DEF new
  <2> QED
    BY <2>1, <2>2 DEF Stores
<1> QED
  BY <1>2

(* An area with other values: that of entry i is gone, and what is left lies
   at low or behind it. *)
Loose(a, b, kind, i, low) ==
  /\ b = [kind |-> kind, ent |-> b.ent, cell |-> b.cell]
  /\ b.ent \in Seq(Entries) /\ Len(b.ent) = Len(a.ent) /\ DOMAIN b.cell = 0 .. Cap[kind] - 1
  /\ \A j \in 1 .. Len(a.ent) : b.ent[j].n = a.ent[j].n
  /\ Packed({b.ent[j] : j \in (1 .. Len(a.ent)) \ {i}}, kind, low)
  /\ \A j \in (1 .. Len(a.ent)) \ {i} : \A w : Stores(a.cell, a.ent[j], w) => Stores(b.cell, b.ent[j], w)

(* Fewer entries lie as well, and from a lower bound on. *)
LEMMA PackedLess ==
  ASSUME NEW E, NEW D \in SUBSET E, NEW kind, NEW M \in Nat, NEW low \in Nat, Packed(E, kind, M), low <= M
  PROVE  Packed(D, kind, low)
<1>1. \A e \in D : e \in Entries /\ IF e.len = 0 THEN e.offs = 0 ELSE low <= e.offs /\ e.offs + e.len <= Cap[kind]
  BY DEF Packed, Entries
<1>2. \A e, f \in D : e # f =>
        e.n # f.n /\ (e.len = 0 \/ f.len = 0 \/ e.offs + e.len <= f.offs \/ f.offs + f.len <= e.offs)
  BY DEF Packed
<1> QED
  BY <1>1, <1>2, Zenon DEF Packed

(* The words and the entries of an area are replaced. *)
Replaced(a, cell, ent) == [a EXCEPT !.cell = cell, !.ent = ent]

LEMMA ReplacedIs ==
  ASSUME NEW a, NEW kind, NEW cell, NEW ent, a = [kind |-> kind, ent |-> a.ent, cell |-> a.cell]
  PROVE  Replaced(a, cell, ent) = [kind |-> kind, ent |-> ent, cell |-> cell]
<1> DEFINE x == a.ent
           y == a.cell
<1> HIDE DEF x, y
<1>1. a = [kind |-> kind, ent |-> x, cell |-> y]
  BY DEF x, y
<1>2. [[kind |-> kind, ent |-> x, cell |-> y] EXCEPT !.cell = cell] = [kind |-> kind, ent |-> x, cell |-> cell]
  OBVIOUS
<1>3. [[kind |-> kind, ent |-> x, cell |-> cell] EXCEPT !.ent = ent] = [kind |-> kind, ent |-> ent, cell |-> cell]
  OBVIOUS
<1> QED
  BY <1>1, <1>2, <1>3, Zenon DEF Replaced

(* The value of the entry with the name, if there is one, is taken out. *)
Without(a, i) == IF i = 0 THEN a ELSE DropValue(a, i)

LEMMA DropLoose ==
  ASSUME NEW a, NEW kind \in {"ibody", "block"}, Written(a, kind), NEW n, ~Moves(a, n),
         NEW i, i = Found(a, n)
  PROVE  /\ LowAfter(a, i) \in Nat /\ LowAfter(a, i) <= Cap[kind] /\ MinOffs(a, Cap[kind]) <= LowAfter(a, i)
         /\ LowAfter(a, i) = MinOffs(a, Cap[kind]) + (IF i # 0 THEN a.ent[i].len ELSE 0)
         /\ Loose(a, Without(a, i), kind, i, LowAfter(a, i))
<1> DEFINE E == ToSet(a.ent)
           lo == MinOffs(a, Cap[kind])
           N == Len(a.ent)
<1>1. /\ a.kind = kind /\ a.ent \in Seq(Entries) /\ N \in Nat /\ DOMAIN a.ent = 1 .. N
      /\ Cap[kind] \in Nat /\ Used(a) \in Nat /\ Used(a) < Cap[kind]
      /\ \A k \in 1 .. N : a.ent[k] \in E /\ a.ent[k] \in Entries
      /\ \A e \in E : e \in Entries /\ \E k \in 1 .. N : a.ent[k] = e
      /\ \A k, l \in 1 .. N : a.ent[k].n = a.ent[l].n => k = l
  <2>1. /\ a.kind = kind /\ a.ent \in Seq(Entries) /\ N \in Nat /\ DOMAIN a.ent = 1 .. N
        /\ Cap[kind] \in Nat /\ Used(a) \in Nat /\ Used(a) < Cap[kind]
    BY WrittenParts
  <2>2. /\ \A k \in 1 .. N : a.ent[k] \in E /\ a.ent[k] \in Entries
        /\ \A k, l \in 1 .. N : a.ent[k].n = a.ent[l].n => k = l
    BY EntriesOf
  <2>3. \A e \in E : e \in Entries /\ \E k \in 1 .. N : a.ent[k] = e
    BY PositionsOf, Zenon
  <2> HIDE DEF E, N
  <2> QED
    BY ONLY <2>1, <2>2, <2>3
<1>2. a = [kind |-> kind, ent |-> a.ent, cell |-> a.cell] /\ DOMAIN a.cell = 0 .. Cap[kind] - 1
      /\ Packed(E, kind, Used(a) + 1)
  BY Zenon DEF Written
<1>3. i \in 0 .. N
  BY FoundIs, Zenon
<1>4. lo \in Nat /\ lo <= Cap[kind] /\ \A e \in E : e.len # 0 => lo <= e.offs
  <2>1. Cap[kind] \in Nat
    BY <1>1
  <2> QED
    BY ONLY Written(a, kind), kind \in {"ibody", "block"}, <2>1, LowIs
<1>5. lo = Cap[kind] \/ Used(a) + 1 <= lo
  <2>1. lo = Cap[kind] \/ \E e \in E : e.len # 0 /\ lo = e.offs
    <3>1. Cap[kind] \in Nat
      BY <1>1
    <3> QED
      BY <3>1, LowIs, Zenon
  <2>2. \A e \in E : e.len # 0 => Used(a) + 1 <= e.offs
    BY <1>2 DEF Packed
  <2> QED
    BY <2>1, <2>2
<1>6. \A e \in E : /\ e.offs \in Nat /\ e.len \in Nat
                   /\ IF e.len = 0 THEN e.offs = 0 ELSE Used(a) + 1 <= e.offs /\ e.offs + e.len <= Cap[kind]
  BY <1>2 DEF Packed, Entries
<1>7. ASSUME i = 0 \/ a.ent[i].len = 0
      PROVE  LowAfter(a, i) = lo /\ Without(a, i) = a /\ Loose(a, a, kind, i, lo)
  <2>1. i # 0 => a.ent[i].offs = 0
    BY <1>1, <1>3, <1>6, <1>7
  <2>2. LowAfter(a, i) = lo
    BY <1>1, <1>4, <2>1 DEF LowAfter
  <2>3. Without(a, i) = a
    BY <2>1 DEF Without, DropValue
  <2>4. Packed(E, kind, lo)
    <3>1. \A e \in E : e \in Entries /\ IF e.len = 0 THEN e.offs = 0 ELSE lo <= e.offs /\ e.offs + e.len <= Cap[kind]
      BY <1>1, <1>4, <1>6
    <3>2. \A e, f \in E : e # f =>
            e.n # f.n /\ (e.len = 0 \/ f.len = 0 \/ e.offs + e.len <= f.offs \/ f.offs + f.len <= e.offs)
      BY <1>2 DEF Packed
    <3> QED
      BY <3>1, <3>2, Zenon DEF Packed
  <2>5. {a.ent[j] : j \in (1 .. N) \ {i}} \in SUBSET E
    BY <1>1
  <2>6. Packed({a.ent[j] : j \in (1 .. N) \ {i}}, kind, lo)
    BY <1>4, <2>4, <2>5, PackedLess
  <2>7. Loose(a, a, kind, i, lo)
    BY <1>1, <1>2, <2>6 DEF Loose
  <2> QED
    BY <2>2, <2>3, <2>7
<1>8. ASSUME i # 0, a.ent[i].len # 0
      PROVE  /\ LowAfter(a, i) = lo + a.ent[i].len /\ lo + a.ent[i].len <= Cap[kind]
             /\ Loose(a, DropValue(a, i), kind, i, lo + a.ent[i].len)
  <2> DEFINE old == a.ent[i]
             ent == [k \in 1 .. N |-> Shift(a.ent[k], old)]
             cell == MovedCell(a.cell, lo, old)
             b == [kind |-> kind, ent |-> ent, cell |-> cell]
  <2>1. i \in 1 .. N /\ old \in E /\ old \in Entries /\ old.offs # 0 /\ old.offs \in Nat /\ old.len \in Nat
    <3>1. i \in 1 .. N
      BY <1>1, <1>3, <1>8
    <3>2. old \in E /\ old \in Entries
      BY <1>1, <3>1, Zenon
    <3>3. old.offs \in Nat /\ old.len \in Nat /\ Used(a) + 1 <= old.offs
      BY <1>6, <1>8, <3>2
    <3>4. old.offs # 0
      BY ONLY <1>1, <3>3
    <3> QED
      BY <3>1, <3>2, <3>3, <3>4
  <2>2. lo <= old.offs /\ old.offs + old.len <= Cap[kind]
    BY <1>4, <1>6, <1>8, <2>1
  <2>3. LowAfter(a, i) = lo + old.len
    BY <1>1, <1>8, <2>1 DEF LowAfter
  <2>4. lo + old.len <= Cap[kind]
    <3>1. lo \in Nat /\ old.offs \in Nat /\ old.len \in Nat /\ Cap[kind] \in Nat
      BY <1>1, <1>4, <2>1
    <3> HIDE DEF lo, old
    <3> QED
      BY ONLY <2>2, <3>1
  <2>5. DropValue(a, i) = b
    <3>1. DropValue(a, i) = Replaced(a, cell, ent)
      BY <1>1, <2>1, Zenon DEF DropValue, Shift, MovedCell, Replaced
    <3> HIDE DEF cell, ent
    <3> QED
      BY <1>2, <3>1, ReplacedIs
  <2>6. \A e \in E \ {old} : e.len # 0
    <3>1. \A k \in 1 .. N : k # i => a.ent[k].len # 0
      BY <1>8, <2>1 DEF Moves
    <3> QED
      BY <1>1, <3>1
  <2>7. Used(a) + 1 <= lo
    BY <1>1, <1>4, <1>5, <2>1, <2>2, <1>8
  <2>8. /\ Packed({Shift(e, old) : e \in E \ {old}}, kind, lo + old.len)
        /\ \A e \in E \ {old} : \A v : Stores(a.cell, e, v) => Stores(cell, Shift(e, old), v)
    <3>1. Used(a) + 1 \in Nat \ {0} /\ old.len # 0 /\ Cap[kind] \in Nat /\ lo \in Nat
      BY <1>1, <1>4, <1>8
    <3>2. \A e \in E : e.len # 0 => lo <= e.offs
      BY <1>4
    <3>3. cell = MovedCell(a.cell, lo, old)
      OBVIOUS
    <3>4. old \in E /\ DOMAIN a.cell = 0 .. Cap[kind] - 1 /\ Packed(E, kind, Used(a) + 1)
      BY <1>2, <2>1
    <3> DEFINE u == Used(a) + 1
               c == a.cell
    <3> HIDE DEF E, lo, old, cell, u, c
    <3>5. u \in Nat \ {0} /\ Packed(E, kind, u) /\ u <= lo /\ DOMAIN c = 0 .. Cap[kind] - 1
      BY <2>7, <3>1, <3>4 DEF u, c
    <3>6. cell = MovedCell(c, lo, old)
      BY <3>3 DEF c
    <3>7. /\ Packed({Shift(e, old) : e \in E \ {old}}, kind, lo + old.len)
          /\ \A e \in E \ {old} : \A v : Stores(c, e, v) => Stores(cell, Shift(e, old), v)
      BY ONLY <2>6, <3>1, <3>2, <3>4, <3>5, <3>6, MovedUp
    <3> QED
      BY <3>7 DEF c
  <2>9. \A k \in 1 .. N : ent[k] = Shift(a.ent[k], old) /\ ent[k] \in Entries /\ ent[k].n = a.ent[k].n
    BY <1>1, <2>1, ShiftParts
  <2>10. ent \in Seq(Entries) /\ Len(ent) = N
    <3>1. ent \in [1 .. N -> Entries]
      BY <2>9
    <3>2. N \in Nat
      BY <1>1
    <3> HIDE DEF ent, N
    <3> QED
      BY <3>1, <3>2
  <2>11. \A j \in (1 .. N) \ {i} : a.ent[j] \in E \ {old}
    BY <1>1, <2>1
  <2> HIDE DEF ent, cell, old, E, lo
  <2>12. {ent[j] : j \in (1 .. N) \ {i}} \in SUBSET {Shift(e, old) : e \in E \ {old}}
    BY <2>9, <2>11
  <2>13. Packed({ent[j] : j \in (1 .. N) \ {i}}, kind, lo + old.len)
    BY <1>4, <2>1, <2>8, <2>12, PackedLess
  <2>14. \A j \in (1 .. N) \ {i} : \A w : Stores(a.cell, a.ent[j], w) => Stores(cell, ent[j], w)
    BY <2>8, <2>9, <2>11
  <2>15. DOMAIN cell = 0 .. Cap[kind] - 1
    BY <1>2 DEF cell, MovedCell
  <2>16. Loose(a, b, kind, i, lo + old.len)
    BY <2>9, <2>10, <2>13, <2>14, <2>15 DEF Loose
  <2> QED
    BY <2>3, <2>4, <2>5, <2>16 DEF old, lo
<1>9. CASE i = 0 \/ a.ent[i].len = 0
  BY <1>4, <1>7, <1>9
<1>10. CASE i # 0 /\ a.ent[i].len # 0
  <2>1. a.ent[i].len \in Nat /\ Without(a, i) = DropValue(a, i)
    BY <1>1, <1>3, <1>6, <1>10 DEF Without
  <2> QED
    BY <1>4, <1>8, <1>10, <2>1
<1> QED
  BY <1>9, <1>10

(* An entry is replaced or added. *)
LEMMA EntryPut ==
  ASSUME NEW q \in Seq(Entries), NEW i \in 0 .. Len(q), NEW e \in Entries,
         \A j, k \in 1 .. Len(q) : q[j].n = q[k].n => j = k,
         \A j \in (1 .. Len(q)) \ {i} : q[j].n # e.n,
         NEW Q, Q = IF i # 0 THEN [q EXCEPT ![i] = e] ELSE Append(q, e)
  PROVE  /\ Q \in Seq(Entries) /\ IsInjective(Q)
         /\ ToSet(Q) = {q[j] : j \in (1 .. Len(q)) \ {i}} \cup {e}
<1> DEFINE N == Len(q)
<1>1. N \in Nat /\ DOMAIN q = 1 .. N /\ \A j \in 1 .. N : q[j] \in Entries
  OBVIOUS
<1>2. CASE i # 0
  <2>1. /\ Q \in Seq(Entries) /\ Len(Q) = N /\ DOMAIN Q = 1 .. N /\ i \in 1 .. N
        /\ \A j \in 1 .. N : Q[j] = IF j = i THEN e ELSE q[j]
    BY <1>1, <1>2
  <2>2. IsInjective(Q)
    <3>1. \A j, k \in 1 .. N : Q[j] = Q[k] => j = k
      BY <2>1
    <3> QED
      BY <2>1, <3>1 DEF IsInjective
  <2>3. ToSet(Q) = {q[j] : j \in (1 .. N) \ {i}} \cup {e}
    BY <2>1 DEF ToSet
  <2> QED
    BY <2>1, <2>2, <2>3
<1>3. CASE i = 0
  <2>1. /\ Q \in Seq(Entries) /\ Len(Q) = N + 1 /\ DOMAIN Q = 1 .. N + 1
        /\ \A j \in 1 .. N + 1 : Q[j] = IF j = N + 1 THEN e ELSE q[j]
    BY <1>1, <1>3
  <2>2. IsInjective(Q)
    <3>1. \A j, k \in 1 .. N + 1 : Q[j] = Q[k] => j = k
      <4> TAKE j, k \in 1 .. N + 1
      <4>1. CASE j = N + 1 /\ k # N + 1
        BY <1>1, <1>3, <2>1, <4>1
      <4>2. CASE k = N + 1 /\ j # N + 1
        BY <1>1, <1>3, <2>1, <4>2
      <4>3. CASE j # N + 1 /\ k # N + 1
        BY <1>1, <2>1, <4>3
      <4> QED
        BY <4>1, <4>2, <4>3
    <3> QED
      BY <2>1, <3>1 DEF IsInjective
  <2>3. ToSet(Q) = {q[j] : j \in (1 .. N) \ {i}} \cup {e}
    <3>1. ToSet(Q) = {Q[j] : j \in 1 .. N + 1}
      BY <2>1 DEF ToSet
    <3>2. 1 .. N + 1 = (1 .. N) \cup {N + 1}
      BY <1>1
    <3>3. (1 .. N) \ {i} = 1 .. N
      BY <1>1, <1>3
    <3>4. \A j \in 1 .. N : Q[j] = q[j]
      BY <1>1, <2>1
    <3>5. Q[N + 1] = e
      BY <1>1, <2>1
    <3> HIDE DEF N
    <3>6. ToSet(Q) \subseteq {q[j] : j \in 1 .. N} \cup {e}
      BY ONLY <3>1, <3>2, <3>4, <3>5
    <3>7. {q[j] : j \in 1 .. N} \cup {e} \subseteq ToSet(Q)
      BY ONLY <3>1, <3>2, <3>4, <3>5
    <3> QED
      BY <3>3, <3>6, <3>7
  <2> QED
    BY <2>1, <2>2, <2>3
<1> QED
  BY <1>2, <1>3

(* An entry is removed. *)
LEMMA EntryGone ==
  ASSUME NEW q \in Seq(Entries), NEW i \in 1 .. Len(q),
         \A j, k \in 1 .. Len(q) : q[j].n = q[k].n => j = k,
         NEW Q, Q = RemoveAt(q, i)
  PROVE  /\ Q \in Seq(Entries) /\ IsInjective(Q)
         /\ ToSet(Q) = {q[j] : j \in (1 .. Len(q)) \ {i}}
<1> DEFINE N == Len(q)
           at(j) == IF j < i THEN j ELSE j + 1
<1>1. N \in Nat /\ DOMAIN q = 1 .. N /\ (\A j \in 1 .. N : q[j] \in Entries) /\ i \in 1 .. N
  OBVIOUS
<1>2. Q = SubSeq(q, 1, i - 1) \o SubSeq(q, i + 1, N)
  BY DEF RemoveAt
<1> DEFINE s == SubSeq(q, 1, i - 1)
           t == SubSeq(q, i + 1, N)
<1>3. /\ s \in Seq(Entries) /\ Len(s) = i - 1 /\ (\A j \in 1 .. i - 1 : s[j] = q[j])
      /\ t \in Seq(Entries) /\ Len(t) = N - i /\ (\A j \in 1 .. N - i : t[j] = q[i + j])
  <2>1. s \in Seq(Entries) /\ Len(s) = i - 1 /\ (\A j \in 1 .. i - 1 : s[j] = q[j])
    BY <1>1
  <2>2. t \in Seq(Entries) /\ Len(t) = N - i /\ (\A j \in 1 .. N - i : t[j] = q[i + j])
    <3>1. i + 1 \in Int /\ N \in Int /\ \A j \in i + 1 .. N : q[j] \in Entries
      BY <1>1
    <3>2. /\ t \in Seq(Entries)
          /\ Len(t) = IF i + 1 <= N THEN N - (i + 1) + 1 ELSE 0
          /\ \A j \in 1 .. N - (i + 1) + 1 : t[j] = q[i + 1 + j - 1]
      <4> DEFINE m == i + 1
      <4>1. m \in Int /\ N \in Int /\ \A j \in m .. N : q[j] \in Entries
        BY <3>1
      <4> HIDE DEF m, N
      <4>2. /\ SubSeq(q, m, N) \in Seq(Entries)
            /\ Len(SubSeq(q, m, N)) = IF m <= N THEN N - m + 1 ELSE 0
            /\ \A j \in 1 .. N - m + 1 : SubSeq(q, m, N)[j] = q[m + j - 1]
        BY ONLY <4>1, SubSeqProperties
      <4> QED
        BY <4>2 DEF m
    <3>3. N - (i + 1) + 1 = N - i /\ \A j \in 1 .. N - i : i + 1 + j - 1 = i + j
      BY <1>1
    <3>4. Len(t) = N - i
      <4>1. N \in Nat /\ i \in Int /\ i <= N
        BY <1>1
      <4> HIDE DEF t, N
      <4> QED
        BY ONLY <3>2, <4>1
    <3> HIDE DEF t
    <3>5. \A j \in 1 .. N - i : t[j] = q[i + j]
      BY <3>2, <3>3
    <3> QED
      BY <3>2, <3>4, <3>5
  <2> QED
    BY <2>1, <2>2
<1> HIDE DEF s, t
<1>31. /\ Q \in Seq(Entries) /\ Len(Q) = Len(s) + Len(t)
       /\ \A j \in 1 .. Len(s) + Len(t) : Q[j] = IF j <= Len(s) THEN s[j] ELSE t[j - Len(s)]
  <2>1. Q = s \o t
    BY <1>2 DEF s, t
  <2> QED
    BY ONLY <1>3, <2>1, ConcatProperties
<1>32. Q \in Seq(Entries) /\ Len(Q) = N - 1 /\ DOMAIN Q = 1 .. N - 1
  BY <1>1, <1>3, <1>31
<1>4. \A j \in 1 .. N - 1 : Q[j] = q[at(j)]
  <2> TAKE j \in 1 .. N - 1
  <2>1. Q[j] = IF j <= Len(s) THEN s[j] ELSE t[j - Len(s)]
    BY <1>1, <1>3, <1>31
  <2>2. CASE j < i
    BY <1>1, <1>3, <2>1, <2>2
  <2>3. CASE ~(j < i)
    <3>1. j - Len(s) \in 1 .. N - i /\ i + (j - Len(s)) = j + 1 /\ ~(j <= Len(s))
      BY <1>1, <1>3, <2>3
    <3>2. t[j - Len(s)] = q[i + (j - Len(s))]
      BY <1>3, <3>1
    <3> QED
      BY <2>1, <2>3, <3>1, <3>2
  <2> QED
    BY <2>2, <2>3
<1>5. \A j \in 1 .. N - 1 : at(j) \in (1 .. N) \ {i}
  BY <1>1
<1>6. \A k \in (1 .. N) \ {i} : \E j \in 1 .. N - 1 : at(j) = k
  <2> TAKE k \in (1 .. N) \ {i}
  <2>1. CASE k < i
    <3>1. k \in 1 .. N - 1 /\ at(k) = k
      BY <1>1, <2>1
    <3> QED
      BY <3>1
  <2>2. CASE k > i
    <3>1. k - 1 \in 1 .. N - 1 /\ at(k - 1) = k
      BY <1>1, <2>2
    <3> QED
      BY <3>1
  <2> QED
    BY <1>1, <2>1, <2>2
<1>7. \A j, k \in 1 .. N - 1 : at(j) = at(k) => j = k
  BY <1>1
<1> HIDE DEF at
<1>8. IsInjective(Q)
  <2>1. \A j, k \in 1 .. N - 1 : Q[j] = Q[k] => j = k
    BY <1>4, <1>5, <1>7
  <2> QED
    BY <1>32, <2>1 DEF IsInjective
<1>9. ToSet(Q) = {q[j] : j \in (1 .. N) \ {i}}
  <2>1. ToSet(Q) = {Q[j] : j \in 1 .. N - 1}
    BY <1>32 DEF ToSet
  <2> HIDE DEF N
  <2> QED
    BY <1>4, <1>5, <1>6, <2>1
<1> QED
  BY <1>32, <1>8, <1>9

(* What an area holds under a name. *)
Got(a, n) == IF Found(a, n) = 0 THEN NoValue ELSE ValueAt(a, a.ent[Found(a, n)])

LEMMA GotIs ==
  ASSUME NEW a, NEW kind \in {"ibody", "block"}, Written(a, kind)
  PROVE  /\ \A e \in ToSet(a.ent), v \in Values : Stores(a.cell, e, v) => Got(a, e.n) = v
         /\ \A n : n \notin NamesIn(a) => Got(a, n) = NoValue
         /\ \A n \in NamesIn(a) : Got(a, n) \in Values
<1>1. /\ \A e \in ToSet(a.ent) : e \in Entries /\ \E i \in 1 .. Len(a.ent) : a.ent[i] = e
      /\ Len(a.ent) \in Nat
  <2>1. \A e \in ToSet(a.ent) : e \in Entries /\ \E i \in 1 .. Len(a.ent) : a.ent[i] = e
    BY PositionsOf, Zenon
  <2>2. Len(a.ent) \in Nat
    BY WrittenParts
  <2> QED
    BY <2>1, <2>2
<1>2. ASSUME NEW e \in ToSet(a.ent), NEW v \in Values, Stores(a.cell, e, v)
      PROVE  Got(a, e.n) = v
  <2> DEFINE Is(w) == ValueLen[w] = e.len /\ \A i \in 0 .. e.len - 1 : a.cell[e.offs + i] = <<w, i>>
  <2>1. PICK i \in 1 .. Len(a.ent) : a.ent[i] = e
    BY <1>1
  <2>2. Found(a, e.n) = i /\ i # 0
    BY <1>1, <2>1, FoundIs
  <2>3. Got(a, e.n) = ValueAt(a, e)
    BY <2>1, <2>2 DEF Got
  <2>4. Is(v)
    BY <1>2 DEF Stores
  <2>5. \A w \in Values : Is(w) => w = v
    <3> TAKE w \in Values
    <3> HAVE Is(w)
    <3>1. CASE e.len = 0
      BY <2>4, <3>1, XattrAssumption
    <3>2. CASE e.len # 0
      <4>1. 0 \in 0 .. e.len - 1
        BY <1>1, <3>2 DEF Entries
      <4>2. a.cell[e.offs + 0] = <<v, 0>> /\ a.cell[e.offs + 0] = <<w, 0>>
        BY <2>4, <4>1
      <4> QED
        BY <4>2
    <3> QED
      BY <3>1, <3>2
  <2>6. ValueAt(a, e) = IF \E w \in Values : Is(w) THEN CHOOSE w \in Values : Is(w) ELSE "torn"
    BY DEF ValueAt
  <2> HIDE DEF Is
  <2> QED
    BY <2>3, <2>4, <2>5, <2>6
<1>3. \A n : n \notin NamesIn(a) => Got(a, n) = NoValue
  BY FoundIs DEF Got
<1>4. ASSUME NEW n \in NamesIn(a)
      PROVE  Got(a, n) \in Values
  <2>1. PICK e \in ToSet(a.ent) : e.n = n
    BY DEF NamesIn
  <2>2. PICK v \in Values : Stores(a.cell, e, v)
    BY DEF Written
  <2> QED
    BY <1>2, <2>1, <2>2
<1> QED
  BY <1>2, <1>3, <1>4

(* The entries but for entry i are still there with their values, which may
   have moved. *)
Preserved(a, i, c) ==
  \A j \in (1 .. Len(a.ent)) \ {i} :
    \E f \in ToSet(c.ent) : f.n = a.ent[j].n /\ \A w : Stores(a.cell, a.ent[j], w) => Stores(c.cell, f, w)

(* Other names keep their values then. *)
LEMMA GotKept ==
  ASSUME NEW a, NEW kind \in {"ibody", "block"}, Written(a, kind), NEW c, Written(c, kind),
         NEW n, NEW i, i = Found(a, n), Preserved(a, i, c), NamesIn(c) \subseteq NamesIn(a) \cup {n}
  PROVE  \A m : m # n => Got(c, m) = Got(a, m)
<1> SUFFICES ASSUME NEW m, m # n PROVE Got(c, m) = Got(a, m)
  OBVIOUS
<1>1. CASE m \notin NamesIn(a)
  BY <1>1, GotIs
<1>2. CASE m \in NamesIn(a)
  <2> DEFINE j == Found(a, m)
  <2>1. /\ j \in 1 .. Len(a.ent) /\ a.ent[j].n = m /\ a.ent[j] \in ToSet(a.ent)
        /\ i # 0 => a.ent[i].n = n
    <3>1. j # 0
      BY <1>2, FoundIs
    <3>2. j \in 0 .. Len(a.ent) /\ a.ent[j].n = m
      BY <3>1, FoundIs
    <3>3. i # 0 => a.ent[i].n = n
      BY FoundIs
    <3>4. Len(a.ent) \in Nat /\ \A k \in 1 .. Len(a.ent) : a.ent[k] \in ToSet(a.ent)
      BY WrittenParts, EntriesOf
    <3> QED
      BY <3>1, <3>2, <3>3, <3>4
  <2> HIDE DEF j
  <2>2. j \in (1 .. Len(a.ent)) \ {i}
    BY <2>1
  <2>3. PICK v \in Values : Stores(a.cell, a.ent[j], v)
    BY <2>1 DEF Written
  <2>4. Got(a, m) = v
    BY <2>1, <2>3, GotIs
  <2>5. PICK f \in ToSet(c.ent) : f.n = m /\ Stores(c.cell, f, v)
    BY <2>1, <2>2, <2>3 DEF Preserved
  <2>6. Got(c, m) = v
    BY <2>5, GotIs
  <2> QED
    BY <2>4, <2>6
<1> QED
  BY <1>1, <1>2

(* ext4_xattr_set_entry with a value: the area is as it was, for want of
   space, or holds the value under the name. *)
LEMMA SetPut ==
  ASSUME NEW a, NEW kind \in {"ibody", "block"}, Written(a, kind),
         NEW n \in Names, NEW v \in Values, ~Moves(a, n),
         NEW i, i = Found(a, n),
         NEW r, r = ext4_xattr_set_entry(a, i, n, v)
  PROVE  /\ r.err \in {"EOK", "ENOSPC"}
         /\ r.err = "ENOSPC" => r.a = a
         /\ r.err = "EOK" => /\ Written(r.a, kind) /\ NamesIn(r.a) = NamesIn(a) \cup {n}
                             /\ Got(r.a, n) = v /\ \A m : m # n => Got(r.a, m) = Got(a, m)
<1> DEFINE N == Len(a.ent)
           U == Used(a)
           lo == MinOffs(a, Cap[kind])
           M == LowAfter(a, i)
           V == ValueLen[v]
           free == lo - U - 1 + (IF i # 0 THEN a.ent[i].len + EntryLen[n] ELSE 0)
           offs == IF V = 0 THEN 0 ELSE M - V
           e == Entry(n, offs, V)
           b == Without(a, i)
           ent == IF i # 0 THEN [b.ent EXCEPT ![i] = e] ELSE Append(b.ent, e)
           cell == FilledCell(b.cell, e, v)
           c == [kind |-> kind, ent |-> ent, cell |-> cell]
           rest == {b.ent[j] : j \in (1 .. N) \ {i}}
<1>1. v # NoValue /\ V \in Nat /\ EntryLen[n] \in Nat \ {0}
  BY XattrAssumption
<1>2. /\ a.kind = kind /\ a.ent \in Seq(Entries) /\ N \in Nat /\ Cap[kind] \in Nat
      /\ NamesIn(a) \subseteq Names
      /\ U = FirstEntry(kind) + Lengths(NamesIn(a)) /\ U \in Nat /\ U < Cap[kind]
      /\ \A k \in 1 .. N : a.ent[k] \in ToSet(a.ent) /\ a.ent[k] \in Entries
      /\ \A k, l \in 1 .. N : a.ent[k].n = a.ent[l].n => k = l
      /\ \A x \in ToSet(a.ent) : x \in Entries /\ \E k \in 1 .. N : a.ent[k] = x
  <2>1. a.kind = kind /\ a.ent \in Seq(Entries) /\ Len(a.ent) \in Nat /\ Cap[kind] \in Nat /\ NamesIn(a) \subseteq Names
    BY WrittenParts
  <2>2. Used(a) = FirstEntry(kind) + Lengths(NamesIn(a)) /\ Used(a) \in Nat /\ Used(a) < Cap[kind]
    BY WrittenParts
  <2>3. /\ \A k \in 1 .. Len(a.ent) : a.ent[k] \in ToSet(a.ent) /\ a.ent[k] \in Entries
        /\ \A k, l \in 1 .. Len(a.ent) : a.ent[k].n = a.ent[l].n => k = l
    BY EntriesOf
  <2>4. \A x \in ToSet(a.ent) : x \in Entries /\ \E k \in 1 .. Len(a.ent) : a.ent[k] = x
    BY PositionsOf, Zenon
  <2> QED
    BY ONLY <2>1, <2>2, <2>3, <2>4
<1>3. /\ M \in Nat /\ M <= Cap[kind] /\ lo <= M /\ M = lo + (IF i # 0 THEN a.ent[i].len ELSE 0)
      /\ Loose(a, b, kind, i, M)
  BY DropLoose
<1>4. lo \in Nat
  BY <1>2, LowIs
<1>5. /\ i \in 0 .. N /\ (i # 0 => a.ent[i].n = n /\ n \in NamesIn(a)) /\ (i = 0 => n \notin NamesIn(a))
      /\ \A k \in 1 .. N : a.ent[k].n = n => k = i
  BY FoundIs
<1>6. r = IF free < V + EntryLen[n] THEN Area(a, "ENOSPC") ELSE Area(c, "EOK")
  <2>1. /\ b = [kind |-> kind, ent |-> b.ent, cell |-> b.cell]
    BY <1>3 DEF Loose
  <2>2. e.offs = offs /\ e.len = V
    BY DEF Entry
  <2>3. r = IF free < V + EntryLen[n] THEN Area(a, "ENOSPC")
            ELSE Area([b EXCEPT !.cell = [o \in DOMAIN @ |->
                                             IF offs # 0 /\ o >= offs /\ o < offs + V THEN <<v, o - offs>> ELSE @[o]],
                                !.ent = IF i # 0 THEN [@ EXCEPT ![i] = e] ELSE Append(@, e)], "EOK")
    BY <1>1, <1>2, Zenon DEF ext4_xattr_set_entry, Without
  <2>4. [b EXCEPT !.cell = [o \in DOMAIN @ |->
                               IF offs # 0 /\ o >= offs /\ o < offs + V THEN <<v, o - offs>> ELSE @[o]],
                  !.ent = IF i # 0 THEN [@ EXCEPT ![i] = e] ELSE Append(@, e)] = Replaced(b, cell, ent)
    BY <2>2, Zenon DEF Replaced, FilledCell
  <2>5. Replaced(b, cell, ent) = c
    <3> HIDE DEF b, cell, ent
    <3> QED
      BY <2>1, ReplacedIs
  <2> HIDE DEF free, c
  <2> QED
    BY <2>3, <2>4, <2>5, Zenon
<1>7. CASE free < V + EntryLen[n]
  BY <1>6, <1>7 DEF Area
<1>8. ASSUME ~(free < V + EntryLen[n])
      PROVE  /\ Written(c, kind) /\ NamesIn(c) = NamesIn(a) \cup {n}
             /\ Got(c, n) = v /\ \A m : m # n => Got(c, m) = Got(a, m)
  <2>1. /\ b.ent \in Seq(Entries) /\ Len(b.ent) = N /\ DOMAIN b.cell = 0 .. Cap[kind] - 1
        /\ \A j \in 1 .. N : b.ent[j].n = a.ent[j].n
        /\ Packed(rest, kind, M)
        /\ \A j \in (1 .. N) \ {i} : \A w : Stores(a.cell, a.ent[j], w) => Stores(b.cell, b.ent[j], w)
    BY <1>3 DEF Loose
  <2> DEFINE D == U + (IF i = 0 THEN EntryLen[n] ELSE 0)
  <2>2. D \in Nat /\ D + 1 <= M - V
    <3>1. CASE i = 0
      <4>1. M = lo /\ free = lo - U - 1 + 0 /\ D = U + EntryLen[n]
        BY <1>3, <1>4, <3>1
      <4>2. U \in Nat /\ V \in Nat /\ EntryLen[n] \in Nat
        BY <1>1, <1>2
      <4> HIDE DEF M, lo, U, V, free, D
      <4> QED
        BY ONLY <1>4, <1>8, <4>1, <4>2
    <3>2. CASE i # 0
      <4>1. a.ent[i].len \in Nat
        <5>1. i \in 1 .. N
          BY <1>2, <1>5, <3>2
        <5>2. a.ent[i] \in Entries
          BY <1>2, <5>1, Zenon
        <5> QED
          BY ONLY <5>2 DEF Entries
      <4>2. M = lo + a.ent[i].len /\ free = lo - U - 1 + (a.ent[i].len + EntryLen[n]) /\ D = U
        BY <1>2, <1>3, <3>2
      <4>3. U \in Nat /\ V \in Nat /\ EntryLen[n] \in Nat
        BY <1>1, <1>2
      <4> HIDE DEF M, lo, U, V, free, D
      <4> QED
        BY ONLY <1>4, <1>8, <4>1, <4>2, <4>3
    <3> QED
      BY <3>1, <3>2
  <2>3. /\ e = [n |-> n, offs |-> offs, len |-> V] /\ e.n = n /\ e.offs = offs /\ e.len = V
        /\ e.offs = IF V = 0 THEN 0 ELSE M - V
    BY DEF Entry
  <2>4. e \in Entries
    <3>1. offs \in Nat
      <4>1. M \in Nat /\ V \in Nat
        BY <1>1, <1>3
      <4> HIDE DEF M, V
      <4> QED
        BY <2>2, <4>1
    <3> HIDE DEF offs, V, e
    <3> QED
      BY <1>1, <2>3, <3>1 DEF Entries
  <2>5. \A d \in rest : d.n # e.n
    BY <1>5, <2>1, <2>3
  <2>6. /\ ent \in Seq(Entries) /\ IsInjective(ent) /\ ToSet(ent) = rest \cup {e}
    <3>1. i \in 0 .. Len(b.ent) /\ (\A j, k \in 1 .. Len(b.ent) : b.ent[j].n = b.ent[k].n => j = k)
          /\ (\A j \in (1 .. Len(b.ent)) \ {i} : b.ent[j].n # e.n)
      <4>1. i \in 0 .. N /\ Len(b.ent) = N /\ e.n = n
        BY <1>5, <2>1, <2>3
      <4>2. \A j \in 1 .. N : b.ent[j].n = a.ent[j].n
        BY <2>1
      <4>3. \A j, k \in 1 .. N : a.ent[j].n = a.ent[k].n => j = k
        BY <1>2
      <4>4. \A j \in 1 .. N : a.ent[j].n = n => j = i
        BY <1>5
      <4> HIDE DEF b, e, N
      <4> QED
        BY ONLY <4>1, <4>2, <4>3, <4>4
    <3> DEFINE q == b.ent
    <3>3. ent = (IF i # 0 THEN [q EXCEPT ![i] = e] ELSE Append(q, e)) /\ q \in Seq(Entries)
      BY <2>1
    <3> HIDE DEF b, e, ent
    <3>4. i \in 0 .. Len(q) /\ (\A j, k \in 1 .. Len(q) : q[j].n = q[k].n => j = k)
          /\ (\A j \in (1 .. Len(q)) \ {i} : q[j].n # e.n)
      BY <3>1
    <3> HIDE DEF q
    <3>5. /\ ent \in Seq(Entries) /\ IsInjective(ent)
          /\ ToSet(ent) = {q[j] : j \in (1 .. Len(q)) \ {i}} \cup {e}
      BY ONLY <2>4, <3>3, <3>4, EntryPut
    <3>2. /\ ent \in Seq(Entries) /\ IsInjective(ent)
          /\ ToSet(ent) = {b.ent[j] : j \in (1 .. Len(b.ent)) \ {i}} \cup {e}
      BY <3>5 DEF q
    <3> QED
      BY <2>1, <3>2
  <2>7. NamesIn(c) = NamesIn(a) \cup {n}
    <3>1. NamesIn(c) = {x.n : x \in rest} \cup {n}
      BY <2>3, <2>6 DEF NamesIn
    <3>2. {x.n : x \in rest} = {a.ent[j].n : j \in (1 .. N) \ {i}}
      BY <2>1
    <3>3. NamesIn(a) = {a.ent[j].n : j \in 1 .. N}
      BY <1>2 DEF NamesIn
    <3>4. NamesIn(c) \subseteq NamesIn(a) \cup {n}
      BY ONLY <3>1, <3>2, <3>3
    <3>5. NamesIn(a) \cup {n} \subseteq NamesIn(c)
      <4>1. \A j \in 1 .. N : j # i => a.ent[j].n \in NamesIn(c)
        BY ONLY <3>1, <3>2
      <4>2. \A j \in 1 .. N : j = i => a.ent[j].n = n
        <5>1. i \in 1 .. N => a.ent[i].n = n
          <6>1. i # 0 => a.ent[i].n = n
            BY <1>5
          <6>2. i \in 1 .. N => i # 0
            OBVIOUS
          <6> QED
            BY ONLY <6>1, <6>2
        <5> HIDE DEF N
        <5> QED
          BY ONLY <5>1, Zenon
      <4>3. n \in NamesIn(c)
        BY ONLY <3>1
      <4> HIDE DEF c, N
      <4>4. \A j \in 1 .. N : a.ent[j].n \in NamesIn(c)
        BY ONLY <4>1, <4>2, <4>3, Zenon
      <4> QED
        BY ONLY <3>3, <4>3, <4>4
    <3> QED
      BY <3>4, <3>5
  <2>8. Used(c) = D
    <3>1. Used(c) = FirstEntry(kind) + Lengths(NamesIn(a) \cup {n})
      BY <2>7 DEF Used, Lengths, Total
    <3>2. CASE i = 0
      <4>1. Lengths(NamesIn(a)) \in Nat /\ Lengths(NamesIn(a) \cup {n}) = Lengths(NamesIn(a)) + EntryLen[n]
        BY <1>2, <1>5, <3>2, LengthsOf
      <4> QED
        BY <1>1, <1>2, <3>1, <3>2, <4>1 DEF FirstEntry
    <3>3. CASE i # 0
      <4>1. NamesIn(a) \cup {n} = NamesIn(a)
        BY <1>5, <3>3
      <4>2. Used(c) = U
        BY <1>2, <3>1, <4>1, Zenon
      <4>3. U \in Nat
        BY <1>2
      <4> HIDE DEF U, c
      <4> QED
        BY <3>3, <4>2, <4>3
    <3> QED
      BY <3>2, <3>3
  <2>9. /\ Packed(rest \cup {e}, kind, D + 1)
        /\ Stores(cell, e, v)
        /\ \A d \in rest : \A w : Stores(b.cell, d, w) => Stores(cell, d, w)
    <3> DEFINE low == D + 1
               bc == b.cell
    <3>1. low \in Nat \ {0} /\ low <= M - e.len /\ e.len = ValueLen[v] /\ e.offs = IF e.len = 0 THEN 0 ELSE M - e.len
      BY <2>2, <2>3
    <3>2. DOMAIN bc = 0 .. Cap[kind] - 1 /\ cell = FilledCell(bc, e, v)
      BY <2>1
    <3>3. M \in Nat /\ M <= Cap[kind] /\ Cap[kind] \in Nat /\ Packed(rest, kind, M)
      BY <1>2, <1>3, <2>1
    <3> HIDE DEF low, M, bc, cell, rest, e
    <3>4. Packed(rest \cup {e}, kind, low)
      BY ONLY <2>4, <2>5, <3>1, <3>3, PackedIn
    <3>5. \A d \in rest : \A w : Stores(bc, d, w) => Stores(cell, d, w)
      <4>1. e.offs = 0 \/ e.offs + e.len <= M
        BY ONLY <2>4, <3>1, <3>3 DEF Entries
      <4>2. \A d \in rest : \A w : Stores(bc, d, w) => Stores(FilledCell(bc, e, v), d, w)
        BY ONLY <2>4, <3>2, <3>3, <4>1, FilledKeeps
      <4> QED
        BY ONLY <3>2, <4>2, Zenon
    <3>6. e.len < M
      BY ONLY <2>4, <3>1, <3>3 DEF Entries
    <3>7. Stores(cell, e, v)
      BY ONLY <2>4, <3>1, <3>2, <3>3, <3>6, FilledSelf
    <3> QED
      BY <3>4, <3>5, <3>7 DEF low, bc
  <2>10. \A j \in (1 .. N) \ {i} : b.ent[j] \in rest /\ \A w : Stores(a.cell, a.ent[j], w) => Stores(cell, b.ent[j], w)
    <3> HIDE DEF b, cell
    <3> QED
      BY <2>1, <2>9
  <2>11. \A x \in ToSet(ent) : \E w \in Values : Stores(cell, x, w)
    <3>1. \A j \in (1 .. N) \ {i} : \E w \in Values : Stores(a.cell, a.ent[j], w)
      BY <1>2 DEF Written
    <3>2. \A x \in rest : \E j \in (1 .. N) \ {i} : x = b.ent[j]
      BY <2>1
    <3> HIDE DEF b, cell, e, ent, rest, N
    <3>3. \A j \in (1 .. N) \ {i} : \E w \in Values : Stores(cell, b.ent[j], w)
      BY ONLY <2>10, <3>1, Zenon
    <3>4. \A x \in rest : \E w \in Values : Stores(cell, x, w)
      BY ONLY <3>2, <3>3
    <3> QED
      BY ONLY <1>1, <2>6, <2>9, <3>4
  <2>12. DOMAIN cell = 0 .. Cap[kind] - 1
    BY <2>1 DEF FilledCell
  <2>13. D < Cap[kind]
    <3> HIDE DEF M, V, D
    <3> QED
      BY <1>1, <1>2, <1>3, <2>2
  <2> HIDE DEF b, e, ent, cell, rest, D, M, V, U, lo, N
  <2>14. Written(c, kind)
    BY <2>6, <2>8, <2>9, <2>11, <2>12, <2>13 DEF Written
  <2>15. Got(c, n) = v
    BY <2>3, <2>6, <2>9, <2>14, GotIs
  <2>16. \A m : m # n => Got(c, m) = Got(a, m)
    <3>1. NamesIn(c) \subseteq NamesIn(a) \cup {n}
      BY <2>7
    <3>2. Preserved(a, i, c)
      <4>1. \A j \in (1 .. Len(a.ent)) \ {i} : b.ent[j] \in ToSet(c.ent) /\ b.ent[j].n = a.ent[j].n
        BY <2>1, <2>6, <2>10 DEF N
      <4>2. \A j \in (1 .. Len(a.ent)) \ {i} : \A w : Stores(a.cell, a.ent[j], w) => Stores(c.cell, b.ent[j], w)
        BY <2>10 DEF N
      <4> HIDE DEF c
      <4> QED
        BY <4>1, <4>2 DEF Preserved
    <3> HIDE DEF c
    <3> QED
      BY <2>14, <3>1, <3>2, GotKept
  <2> QED
    BY <2>7, <2>14, <2>15, <2>16
<1>9. CASE ~(free < V + EntryLen[n])
  <2> HIDE DEF c, free
  <2>1. r = Area(c, "EOK")
    BY <1>6, <1>9
  <2>2. r.err = "EOK" /\ r.a = c
    BY <2>1 DEF Area
  <2> QED
    BY <1>8, <1>9, <2>2
<1> QED
  BY <1>7, <1>9

(* ext4_xattr_set_entry without a value: the name is gone, the others keep
   theirs, and an area that could be read still can. *)
LEMMA SetGone ==
  ASSUME NEW a, NEW kind \in {"ibody", "block"}, Written(a, kind),
         NEW n \in Names, ~Moves(a, n),
         NEW i, i = Found(a, n),
         NEW r, r = ext4_xattr_set_entry(a, i, n, NoValue)
  PROVE  /\ r.err = "EOK" /\ Written(r.a, kind) /\ NamesIn(r.a) = NamesIn(a) \ {n}
         /\ Valid(a) => Valid(r.a)
         /\ \A m : m # n => Got(r.a, m) = Got(a, m)
<1>1. /\ i \in 0 .. Len(a.ent) /\ (i # 0 => a.ent[i].n = n /\ n \in NamesIn(a)) /\ (i = 0 => n \notin NamesIn(a))
      /\ \A k \in 1 .. Len(a.ent) : a.ent[k].n = n => k = i
  BY FoundIs
<1>2. CASE i = 0
  <2>1. r = Area(a, "EOK")
    BY <1>2 DEF ext4_xattr_set_entry
  <2>2. r.a = a /\ r.err = "EOK"
    BY <2>1 DEF Area
  <2> QED
    BY <1>1, <1>2, <2>2
<1>3. ASSUME i # 0
      PROVE  /\ r.err = "EOK" /\ Written(r.a, kind) /\ NamesIn(r.a) = NamesIn(a) \ {n}
             /\ Valid(a) => Valid(r.a)
             /\ \A m : m # n => Got(r.a, m) = Got(a, m)
  <2> DEFINE N == Len(a.ent)
             U == Used(a)
             lo == MinOffs(a, Cap[kind])
             M == LowAfter(a, i)
             b == Without(a, i)
             q == b.ent
             ent == RemoveAt(q, i)
             cell == b.cell
             c == [kind |-> kind, ent |-> ent, cell |-> cell]
             rest == {q[j] : j \in (1 .. N) \ {i}}
  <2>1. N \in Nat /\ Cap[kind] \in Nat /\ U \in Nat /\ U < Cap[kind] /\ NamesIn(a) \subseteq Names
        /\ U = FirstEntry(kind) + Lengths(NamesIn(a))
    BY WrittenParts
  <2>2. /\ \A k \in 1 .. N : a.ent[k] \in ToSet(a.ent) /\ a.ent[k] \in Entries
        /\ \A k, l \in 1 .. N : a.ent[k].n = a.ent[l].n => k = l
    BY EntriesOf
  <2>3. \A x \in ToSet(a.ent) : x \in Entries /\ \E k \in 1 .. N : a.ent[k] = x
    BY PositionsOf, Zenon
  <2>4. M \in Nat /\ M <= Cap[kind] /\ lo <= M /\ Loose(a, b, kind, i, M)
    BY DropLoose
  <2>5. /\ b = [kind |-> kind, ent |-> q, cell |-> cell]
        /\ q \in Seq(Entries) /\ Len(q) = N /\ DOMAIN cell = 0 .. Cap[kind] - 1
        /\ \A j \in 1 .. N : q[j].n = a.ent[j].n
        /\ Packed(rest, kind, M)
        /\ \A j \in (1 .. N) \ {i} : \A w : Stores(a.cell, a.ent[j], w) => Stores(cell, q[j], w)
    BY <2>4 DEF Loose
  <2>6. r.err = "EOK" /\ r.a = c
    <3>1. r = Area([b EXCEPT !.ent = RemoveAt(@, i)], "EOK")
      BY <1>3, Zenon DEF ext4_xattr_set_entry, Without
    <3>2. [b EXCEPT !.ent = RemoveAt(@, i)] = c
      <4>1. [b EXCEPT !.ent = RemoveAt(@, i)] = [b EXCEPT !.ent = ent]
        OBVIOUS
      <4> HIDE DEF b, q, ent, cell
      <4>2. [[kind |-> kind, ent |-> q, cell |-> cell] EXCEPT !.ent = ent] = [kind |-> kind, ent |-> ent, cell |-> cell]
        OBVIOUS
      <4>3. [b EXCEPT !.ent = ent] = [kind |-> kind, ent |-> ent, cell |-> cell]
        BY <2>5, <4>2, Zenon
      <4> QED
        BY <4>1, <4>3, Zenon
    <3>3. r = Area(c, "EOK")
      <4> HIDE DEF b, c
      <4> QED
        BY <3>1, <3>2, Zenon
    <3> HIDE DEF c
    <3> QED
      BY <3>3 DEF Area
  <2>7. i \in 1 .. N
    BY <1>1, <1>3
  <2>8. ent \in Seq(Entries) /\ IsInjective(ent) /\ ToSet(ent) = rest
    <3>1. \A j, k \in 1 .. Len(q) : q[j].n = q[k].n => j = k
      BY <2>2, <2>5
    <3>2. q \in Seq(Entries) /\ i \in 1 .. Len(q) /\ ent = RemoveAt(q, i)
      BY <2>5, <2>7
    <3>3. N = Len(q)
      BY <2>5
    <3> HIDE DEF q, ent, N
    <3>4. ent \in Seq(Entries) /\ IsInjective(ent) /\ ToSet(ent) = {q[j] : j \in (1 .. Len(q)) \ {i}}
      BY ONLY <3>1, <3>2, EntryGone
    <3> QED
      BY <3>3, <3>4
  <2>9. NamesIn(c) = NamesIn(a) \ {n}
    <3>1. NamesIn(c) = {q[j].n : j \in (1 .. N) \ {i}}
      <4>1. NamesIn(c) = {x.n : x \in rest}
        BY <2>8 DEF NamesIn
      <4> HIDE DEF q, c, N
      <4> QED
        BY <4>1
    <3>2. {q[j].n : j \in (1 .. N) \ {i}} = {a.ent[j].n : j \in (1 .. N) \ {i}}
      BY <2>5
    <3>3. NamesIn(a) = {a.ent[j].n : j \in 1 .. N}
      BY <2>2, <2>3 DEF NamesIn
    <3>4. a.ent[i].n = n /\ \A j \in 1 .. N : a.ent[j].n = n => j = i
      BY <1>1, <1>3
    <3> HIDE DEF N, c, q
    <3> QED
      BY ONLY <3>1, <3>2, <3>3, <3>4
  <2>10. Used(c) \in Nat /\ Used(c) <= U
    <3> DEFINE C == NamesIn(a) \ {n}
    <3>1. Used(c) = FirstEntry(kind) + Lengths(C)
      BY <2>9 DEF Used, Lengths, Total
    <3>2. C \in SUBSET Names /\ n \in Names \ C /\ C \cup {n} = NamesIn(a)
      BY <1>1, <1>3, <2>1
    <3> HIDE DEF C
    <3>3. Lengths(C) \in Nat /\ Lengths(NamesIn(a)) = Lengths(C) + EntryLen[n]
      BY <3>2, LengthsOf
    <3>4. EntryLen[n] \in Nat
      BY XattrAssumption
    <3>5. FirstEntry(kind) \in Nat
      BY DEF FirstEntry
    <3> HIDE DEF c, U
    <3> QED
      BY ONLY <2>1, <3>1, <3>3, <3>4, <3>5
  <2>11. /\ lo \in Nat /\ lo <= Cap[kind] /\ \A x \in ToSet(a.ent) : x.len # 0 => lo <= x.offs
         /\ lo = Cap[kind] \/ \E x \in ToSet(a.ent) : x.len # 0 /\ lo = x.offs
    <3>1. Cap[kind] \in Nat
      BY <2>1
    <3>2. lo \in Nat /\ lo <= Cap[kind] /\ \A x \in ToSet(a.ent) : x.len # 0 => lo <= x.offs
      BY <3>1, LowIs
    <3>3. lo = Cap[kind] \/ \E x \in ToSet(a.ent) : x.len # 0 /\ lo = x.offs
      BY <3>1, LowIs, Zenon
    <3> QED
      BY <3>2, <3>3, Zenon
  <2>12. U + 1 <= lo
    <3>1. \A x \in ToSet(a.ent) : x.len # 0 => U + 1 <= x.offs
      BY DEF Written, Packed
    <3> QED
      BY <2>1, <2>11, <3>1
  <2>13. Packed(ToSet(ent), kind, Used(c) + 1)
    <3>1. Used(c) + 1 \in Nat /\ Used(c) + 1 <= M
      <4> HIDE DEF c, U, M, lo
      <4> QED
        BY ONLY <2>1, <2>4, <2>10, <2>11, <2>12
    <3> HIDE DEF c, M, rest, ent
    <3>2. rest \in SUBSET rest
      OBVIOUS
    <3>3. Packed(rest, kind, Used(c) + 1)
      BY <2>4, <2>5, <3>1, <3>2, PackedLess
    <3> QED
      BY <2>8, <3>3
  <2>14. \A x \in ToSet(ent) : \E w \in Values : Stores(cell, x, w)
    <3>1. \A j \in (1 .. N) \ {i} : \E w \in Values : Stores(a.cell, a.ent[j], w)
      BY <2>2 DEF Written
    <3>2. \A x \in rest : \E j \in (1 .. N) \ {i} : x = q[j]
      OBVIOUS
    <3> HIDE DEF q, cell, ent, rest, N
    <3> QED
      BY <2>5, <2>8, <3>1, <3>2
  <2>15. Used(c) < Cap[kind]
    <3> HIDE DEF c, U
    <3> QED
      BY ONLY <2>1, <2>10
  <2>16. Written(c, kind)
    <3> HIDE DEF ent, cell
    <3> QED
      BY <2>5, <2>8, <2>13, <2>14, <2>15 DEF Written
  <2>17. Valid(a) => Valid(c)
    <3> SUFFICES ASSUME kind = "ibody", Valid(a) PROVE Valid(c)
      <4> HIDE DEF c
      <4> QED
        BY <2>16, ValidIs
    <3>1. \A x \in ToSet(a.ent) : x.len # 0 => U + 2 <= x.offs
      BY ValidIs
    <3>2. \A x \in ToSet(ent) : x.len # 0 => M <= x.offs /\ x.offs + x.len <= Cap[kind] /\ x.offs \in Nat /\ x.len \in Nat
      BY <2>5, <2>8 DEF Packed, Entries
    <3>3. \A x \in ToSet(ent) : x.len # 0 => Used(c) + 2 <= x.offs
      <4> TAKE x \in ToSet(ent)
      <4> HAVE x.len # 0
      <4>1. M <= x.offs /\ x.offs + x.len <= Cap[kind] /\ x.offs \in Nat /\ x.len \in Nat /\ x.len # 0
        BY <3>2
      <4>2. lo # Cap[kind]
        <5> HIDE DEF M, lo
        <5> QED
          BY ONLY <2>1, <2>4, <2>11, <4>1
      <4>3. U + 2 <= lo
        BY <2>11, <3>1, <4>2
      <4> HIDE DEF c, U, M, lo
      <4> QED
        BY ONLY <2>1, <2>4, <2>10, <2>11, <4>1, <4>3
    <3>4. c.ent = ent
      OBVIOUS
    <3> HIDE DEF c, ent
    <3> QED
      BY <2>16, <3>3, <3>4, ValidIs
  <2>18. \A m : m # n => Got(c, m) = Got(a, m)
    <3>1. NamesIn(c) \subseteq NamesIn(a) \cup {n}
      BY <2>9
    <3>2. Preserved(a, i, c)
      <4>1. c.ent = ent /\ c.cell = cell
        OBVIOUS
      <4>2. \A j \in (1 .. N) \ {i} : q[j] \in rest
        OBVIOUS
      <4> HIDE DEF c, ent, cell, q, rest, b
      <4>3. \A j \in (1 .. N) \ {i} : q[j] \in ToSet(c.ent) /\ q[j].n = a.ent[j].n
        BY <2>5, <2>8, <4>1, <4>2
      <4>4. \A j \in (1 .. N) \ {i} : \A w : Stores(a.cell, a.ent[j], w) => Stores(c.cell, q[j], w)
        BY <2>5, <4>1
      <4> QED
        BY <4>3, <4>4 DEF Preserved
    <3> HIDE DEF c
    <3> QED
      BY <2>16, <3>1, <3>2, GotKept
  <2> HIDE DEF c
  <2> QED
    BY <2>6, <2>9, <2>16, <2>17, <2>18
<1> QED
  BY <1>2, <1>3

-----------------------------------------------------------------------------
(* References. *)

(* The inductive invariant of the references, as an equation for the blocks. *)
IInv == Referred(acl, other, blk)

(* What a call leaves to be written: blocks that count their references, and
   the block of the other inode with the attributes it had. *)
Sound(s) ==
  /\ Referred(s.b, other, s.bl)
  /\ other # 0 => s.bl[other].a = blk[other].a

(* A record of what a call returns. *)
IsState(s) == s = State(s.ib, s.b, s.bl, s.err)

(* Its components. *)
LEMMA StateParts ==
  ASSUME NEW ib, NEW b, NEW bl, NEW err
  PROVE  /\ State(ib, b, bl, err).ib = ib
         /\ State(ib, b, bl, err).b = b
         /\ State(ib, b, bl, err).bl = bl
         /\ State(ib, b, bl, err).err = err
         /\ IsState(State(ib, b, bl, err))
<1>1. /\ State(ib, b, bl, err).ib = ib
      /\ State(ib, b, bl, err).b = b
      /\ State(ib, b, bl, err).bl = bl
      /\ State(ib, b, bl, err).err = err
  BY DEF State
<1> QED
  BY <1>1, Zenon DEF IsState

(* The equation for the blocks, from their domain and their records. *)
LEMMA ReferredFrom ==
  ASSUME NEW b \in Pool \cup {0}, NEW o \in Pool \cup {0}, NEW bl, NEW A,
         bl = [c \in {b, o} \ {0} |-> [ref |-> IF b = o THEN 2 ELSE 1, a |-> A[c]]]
  PROVE  Referred(b, o, bl)
<1>1. \A c \in {b, o} \ {0} : bl[c].a = A[c]
  OBVIOUS
<1>2. bl = [c \in {b, o} \ {0} |-> [ref |-> IF b = o THEN 2 ELSE 1, a |-> bl[c].a]]
  BY <1>1
<1> QED
  BY <1>2 DEF Referred

(* Nothing written is sound. *)
LEMMA NothingWritten ==
  ASSUME IInv, NEW ib, NEW err
  PROVE  Sound(State(ib, acl, blk, err))
BY StateParts DEF Sound, IInv

(* Attributes are written to the block of the inode, which is not shared. *)
LEMMA WrittenOwn ==
  ASSUME NEW b \in Pool, NEW bl, Referred(b, other, bl), b # other, NEW na, NEW ib, NEW err,
         other # 0 => bl[other].a = blk[other].a
  PROVE  Sound(State(ib, b, [bl EXCEPT ![b].a = na], err))
<1> DEFINE new == [bl EXCEPT ![b].a = na]
           A == [c \in {b, other} \ {0} |-> IF c = b THEN na ELSE bl[c].a]
<1>1. b # 0 /\ other \in Pool \cup {0}
  BY XattrVolume DEF Referred
<1>2. bl = [c \in {b, other} \ {0} |-> [ref |-> 1, a |-> bl[c].a]]
  BY DEF Referred
<1>3. DOMAIN bl = {b, other} \ {0} /\ \A c \in {b, other} \ {0} : bl[c] = [ref |-> 1, a |-> bl[c].a]
  BY <1>2
<1>4. \A r : r = [ref |-> 1, a |-> r.a] => [r EXCEPT !.a = na] = [ref |-> 1, a |-> na]
  <2> TAKE r
  <2> HAVE r = [ref |-> 1, a |-> r.a]
  <2> DEFINE t == [ref |-> 1, a |-> r.a]
  <2>1. [t EXCEPT !.a = na] = [ref |-> 1, a |-> na]
    OBVIOUS
  <2> QED
    BY <2>1, Zenon
<1>5. new = [c \in {b, other} \ {0} |-> IF c = b THEN [ref |-> 1, a |-> na] ELSE bl[c]]
  <2>1. new = [c \in DOMAIN bl |-> IF c = b THEN [bl[c] EXCEPT !.a = na] ELSE bl[c]]
    BY <1>1, <1>3, Zenon
  <2>2. \A c \in DOMAIN bl : (IF c = b THEN [bl[c] EXCEPT !.a = na] ELSE bl[c])
                               = IF c = b THEN [ref |-> 1, a |-> na] ELSE bl[c]
    BY <1>1, <1>3, <1>4, Zenon
  <2> QED
    BY <1>3, <2>1, <2>2, Zenon
<1>6. new = [c \in {b, other} \ {0} |-> [ref |-> IF b = other THEN 2 ELSE 1, a |-> A[c]]]
  BY <1>1, <1>3, <1>5
<1>7. Referred(b, other, new)
  BY <1>1, <1>6, ReferredFrom
<1>8. other # 0 => new[other].a = blk[other].a
  BY <1>1, <1>5
<1> HIDE DEF new
<1>9. Sound(State(ib, b, new, err))
  BY <1>7, <1>8, StateParts DEF Sound
<1> QED
  BY <1>9 DEF new

(* The count of the block of the inode. *)
LEMMA OwnCount ==
  ASSUME IInv, acl # 0
  PROVE  blk[acl].ref = IF acl = other THEN 2 ELSE 1
<1>1. blk = [b \in {acl, other} \ {0} |-> [ref |-> IF acl = other THEN 2 ELSE 1, a |-> blk[b].a]]
  BY DEF IInv, Referred
<1>2. blk[acl] = [ref |-> IF acl = other THEN 2 ELSE 1, a |-> blk[acl].a]
  BY <1>1, Zenon
<1> QED
  BY <1>2

(* ext4_xattr_copy_new_block: afterwards the inode has a block of its own,
   or nothing was written. *)
LEMMA CopyKeeps ==
  ASSUME IInv, acl # 0
  PROVE  LET c == ext4_xattr_copy_new_block(acl, blk)
         IN  /\ Sound(c)
             /\ c.err = "EOK" => c.b \in Pool /\ c.b # other
<1> DEFINE c == ext4_xattr_copy_new_block(acl, blk)
           new == Min(Free(blk))
<1>1. /\ acl \in Pool /\ other \in Pool \cup {0}
      /\ DOMAIN blk = {acl, other} \ {0}
      /\ \A b \in {acl, other} \ {0} : blk[b] = [ref |-> IF acl = other THEN 2 ELSE 1, a |-> blk[b].a]
  <2>1. blk = [b \in {acl, other} \ {0} |-> [ref |-> IF acl = other THEN 2 ELSE 1, a |-> blk[b].a]]
    BY DEF IInv, Referred
  <2> QED
    BY <2>1 DEF IInv, Referred
<1>2. CASE blk[acl].ref = 1
  <2>1. c = State(ibody, acl, blk, "EOK")
    BY <1>2 DEF ext4_xattr_copy_new_block
  <2>2. acl # other
    BY <1>2, OwnCount
  <2> QED
    BY <1>1, <2>1, <2>2, NothingWritten, StateParts
<1>3. CASE blk[acl].ref # 1 /\ Free(blk) = {}
  <2>1. c = State(ibody, acl, blk, "ENOSPC")
    BY <1>3 DEF ext4_xattr_copy_new_block
  <2> QED
    BY <2>1, NothingWritten, StateParts
<1>4. CASE blk[acl].ref # 1 /\ Free(blk) # {}
  <2> DEFINE bl == NewBlockIn([blk EXCEPT ![acl].ref = @ - 1], new, [blk[acl] EXCEPT !.ref = 1])
             A == [b \in {new, other} \ {0} |-> blk[acl].a]
  <2>1. c = State(ibody, new, bl, "EOK")
    BY <1>4 DEF ext4_xattr_copy_new_block
  <2>2. acl = other /\ DOMAIN blk = {acl} /\ acl # 0
    BY <1>1, <1>4, OwnCount
  <2>3. new \in Pool /\ new # acl /\ new # 0
    <3>1. Free(blk) \in SUBSET Nat
      BY XattrVolume DEF Free
    <3>2. new \in Free(blk)
      BY <1>4, <3>1, LeastNatural
    <3> QED
      BY <2>2, <3>2, XattrVolume DEF Free
  <2> HIDE DEF new
  <2>4. \A r : r = [ref |-> 2, a |-> r.a] =>
                 /\ [r EXCEPT !.ref = 1] = [ref |-> 1, a |-> r.a]
                 /\ [r EXCEPT !.ref = @ - 1] = [ref |-> 1, a |-> r.a]
    <3> TAKE r
    <3> HAVE r = [ref |-> 2, a |-> r.a]
    <3> DEFINE t == [ref |-> 2, a |-> r.a]
    <3>1. [t EXCEPT !.ref = 1] = [ref |-> 1, a |-> r.a]
      OBVIOUS
    <3>2. [t EXCEPT !.ref = @ - 1] = [ref |-> 1, a |-> r.a]
      OBVIOUS
    <3> QED
      BY <3>1, <3>2, Zenon
  <2>5. blk[acl] = [ref |-> 2, a |-> blk[acl].a]
    BY <1>1, <2>2
  <2>6. [blk EXCEPT ![acl].ref = @ - 1] = [b \in {acl} |-> [ref |-> 1, a |-> blk[acl].a]]
    <3>1. [blk EXCEPT ![acl].ref = @ - 1]
            = [b \in {acl} |-> IF b = acl THEN [blk[acl] EXCEPT !.ref = @ - 1] ELSE blk[b]]
      BY <2>2, Zenon
    <3>2. [blk[acl] EXCEPT !.ref = @ - 1] = [ref |-> 1, a |-> blk[acl].a]
      BY <2>4, <2>5, Zenon
    <3> QED
      BY <3>1, <3>2
  <2>7. [blk[acl] EXCEPT !.ref = 1] = [ref |-> 1, a |-> blk[acl].a]
    BY <2>4, <2>5, Zenon
  <2>8. bl = [b \in {new, other} \ {0} |-> [ref |-> IF new = other THEN 2 ELSE 1, a |-> A[b]]]
    <3> DEFINE one == [ref |-> 1, a |-> blk[acl].a]
    <3>1. bl = NewBlockIn([b \in {acl} |-> one], new, one)
      BY <2>6, <2>7, Zenon
    <3>2. @ = [b \in {acl, new} |-> one]
      BY DEF NewBlockIn
    <3> QED
      BY <2>2, <2>3, <3>1, <3>2
  <2>9. Referred(new, other, bl)
    BY <1>1, <2>3, <2>8, ReferredFrom
  <2>10. bl[other].a = blk[other].a
    BY <1>1, <2>2, <2>8
  <2> HIDE DEF bl
  <2> QED
    BY <2>1, <2>2, <2>3, <2>9, <2>10, StateParts DEF Sound
<1> QED
  BY <1>2, <1>3, <1>4

(* The last entry of a block is gone: the block goes with it. *)
LEMMA GivenBack ==
  ASSUME NEW b \in Pool \cup {0}, NEW bl, Referred(b, other, bl), b # other \/ b = 0, NEW ib, NEW err,
         other # 0 => bl[other].a = blk[other].a
  PROVE  Sound(State(ib, 0, FreeBlock(bl, b), err))
<1> DEFINE new == FreeBlock(bl, b)
           A == [c \in {0, other} \ {0} |-> bl[c].a]
<1>1. other \in Pool \cup {0} /\ 0 \in Pool \cup {0} /\ 0 \notin Pool
  BY XattrVolume DEF Referred
<1>2. /\ DOMAIN bl = {b, other} \ {0}
      /\ \A c \in {b, other} \ {0} : bl[c] = [ref |-> 1, a |-> bl[c].a]
  <2>1. bl = [c \in {b, other} \ {0} |-> [ref |-> IF b = other THEN 2 ELSE 1, a |-> bl[c].a]]
    BY DEF Referred
  <2> QED
    BY <2>1
<1>3. new = [c \in {0, other} \ {0} |-> [ref |-> IF 0 = other THEN 2 ELSE 1, a |-> A[c]]]
  BY <1>2 DEF FreeBlock
<1>4. Referred(0, other, new)
  BY <1>1, <1>3, ReferredFrom
<1>5. other # 0 => new[other].a = blk[other].a
  BY <1>1, <1>3
<1> HIDE DEF new
<1>6. Sound(State(ib, 0, new, err))
  BY <1>4, <1>5, StateParts DEF Sound
<1> QED
  BY <1>6 DEF new

-----------------------------------------------------------------------------
(* The block of the inode, if it has one, is not shared. *)
Unshared == acl # 0 => blk[acl].ref <= 1

(* Then no other inode refers to it, and it is not copied. *)
LEMMA UnsharedOwn ==
  ASSUME IInv, Unshared, acl # 0
  PROVE  acl \in Pool /\ acl # other /\ blk[acl].ref = 1
<1>1. acl \in Pool
  BY DEF IInv, Referred
<1> QED
  BY <1>1, OwnCount DEF Unshared

(* The result of a call with another area behind the inode. *)
LEMMA OtherBody ==
  ASSUME NEW s, IsState(s), Sound(s), NEW ib
  PROVE  /\ [s EXCEPT !.ib = ib] = State(ib, s.b, s.bl, s.err)
         /\ Sound([s EXCEPT !.ib = ib])
<1> DEFINE t == State(s.ib, s.b, s.bl, s.err)
<1>1. [t EXCEPT !.ib = ib] = State(ib, s.b, s.bl, s.err)
  BY DEF State
<1>2. [s EXCEPT !.ib = ib] = State(ib, s.b, s.bl, s.err)
  BY <1>1, Zenon DEF IsState
<1> DEFINE u == State(ib, s.b, s.bl, s.err)
<1>3. u.b = s.b /\ u.bl = s.bl
  BY DEF State
<1> HIDE DEF u
<1>4. Sound(u)
  BY <1>3 DEF Sound
<1> QED
  BY <1>2, <1>4, Zenon DEF u

(* ext4_xattr_block_set without a block. *)
LEMMA NewBlockKeeps ==
  ASSUME IInv, acl = 0, NEW n, NEW v
  PROVE  LET s == NewBlock(n, v)
         IN  IsState(s) /\ Sound(s)
<1> DEFINE b == Min(Free(blk))
           r == ext4_xattr_set_entry(EmptyArea("block"), 0, n, v)
           new == NewBlockIn(blk, b, [ref |-> 1, a |-> r.a])
           A == [c \in {b, other} \ {0} |-> IF c = b THEN r.a ELSE blk[c].a]
<1>2. CASE Free(blk) = {} \/ r.err # "EOK"
  <2>1. \E e : NewBlock(n, v) = State(ibody, acl, blk, e)
    BY <1>2, Zenon DEF NewBlock
  <2>2. PICK e : NewBlock(n, v) = State(ibody, acl, blk, e)
    BY <2>1
  <2>3. IsState(State(ibody, acl, blk, e)) /\ Sound(State(ibody, acl, blk, e))
    BY StateParts, NothingWritten, Zenon
  <2> QED
    BY <2>2, <2>3, Zenon
<1>3. CASE Free(blk) # {} /\ r.err = "EOK"
  <2>1. NewBlock(n, v) = State(ibody, b, new, "EOK")
    BY <1>3, Zenon DEF NewBlock
  <2>2. b \in Pool /\ b \notin DOMAIN blk /\ b # 0
    <3>1. Free(blk) \in SUBSET Nat
      BY XattrVolume DEF Free
    <3>2. b \in Free(blk)
      BY <1>3, <3>1, LeastNatural
    <3> QED
      BY <3>2, XattrVolume DEF Free
  <2> HIDE DEF b, r
  <2>3. /\ other \in Pool \cup {0}
        /\ DOMAIN blk = {other} \ {0}
        /\ \A c \in {other} \ {0} : blk[c] = [ref |-> 1, a |-> blk[c].a]
    <3>1. blk = [c \in {acl, other} \ {0} |-> [ref |-> IF acl = other THEN 2 ELSE 1, a |-> blk[c].a]]
      BY DEF IInv, Referred
    <3> QED
      BY <3>1 DEF IInv, Referred
  <2>4. new = [c \in {b, other} \ {0} |-> [ref |-> IF b = other THEN 2 ELSE 1, a |-> A[c]]]
    BY <2>2, <2>3 DEF NewBlockIn
  <2>5. Referred(b, other, new)
    BY <2>2, <2>3, <2>4, ReferredFrom
  <2>6. other # 0 => new[other].a = blk[other].a
    BY <2>2, <2>3, <2>4
  <2> HIDE DEF new
  <2>7. Sound(State(ibody, b, new, "EOK"))
    BY <2>5, <2>6, StateParts DEF Sound
  <2>8. IsState(State(ibody, b, new, "EOK"))
    BY StateParts, Zenon
  <2> QED
    BY <2>1, <2>7, <2>8, Zenon DEF b, r, new
<1> QED
  BY <1>2, <1>3

(* ext4_xattr_block_set with a block that is not shared writes that block. *)
LEMMA SetInBlockKeeps ==
  ASSUME IInv, Unshared, acl # 0, NEW n, NEW v, NEW no_insert
  PROVE  LET s == SetInBlock(n, v, no_insert)
         IN  IsState(s) /\ Sound(s) /\ s.b = acl
<1> DEFINE r == ext4_xattr_set_entry(blk[acl].a, Found(blk[acl].a, n), n, v)
<1>0. acl \in Pool /\ acl # other /\ blk[acl].ref = 1
  BY UnsharedOwn
<1>2. ext4_xattr_copy_new_block(acl, blk) = State(ibody, acl, blk, "EOK")
  BY <1>0, Zenon DEF ext4_xattr_copy_new_block
<1>3. \/ \E e : SetInBlock(n, v, no_insert) = State(ibody, acl, blk, e)
      \/ SetInBlock(n, v, no_insert) = State(ibody, acl, [blk EXCEPT ![acl].a = r.a], "EOK")
  <2>1. State(ibody, acl, blk, "EOK").err = "EOK"
    BY DEF State
  <2>2. ~(blk[acl].ref > 1)
    BY <1>0
  <2>3. SetInBlock(n, v, no_insert) =
          IF ~Valid(blk[acl].a) THEN State(ibody, acl, blk, "EIO")
          ELSE IF r.err # "EOK" THEN State(ibody, acl, blk, r.err)
          ELSE State(ibody, acl, [blk EXCEPT ![acl].a = r.a], "EOK")
    BY <1>2, <2>1, <2>2, Zenon DEF SetInBlock
  <2> QED
    BY <2>3, Zenon
<1>4. Sound(State(ibody, acl, [blk EXCEPT ![acl].a = r.a], "EOK"))
  <2>1. Referred(acl, other, blk)
    BY DEF IInv
  <2> QED
    BY <1>0, <2>1, WrittenOwn, Zenon
<1>5. \A e : Sound(State(ibody, acl, blk, e))
  BY NothingWritten, Zenon
<1> DEFINE s == SetInBlock(n, v, no_insert)
<1>6. \E b, e : s = State(ibody, acl, b, e) /\ Sound(State(ibody, acl, b, e))
  BY <1>3, <1>4, <1>5, Zenon
<1> HIDE DEF s
<1>7. PICK b, e : s = State(ibody, acl, b, e) /\ Sound(State(ibody, acl, b, e))
  BY <1>6
<1>8. IsState(s) /\ s.b = acl
  BY <1>7, StateParts
<1>9. Sound(s)
  BY <1>7, Zenon
<1> QED
  BY <1>8, <1>9 DEF s

(* ext4_xattr_block_set writes no block that is shared. *)
LEMMA BlockSetKeeps ==
  ASSUME IInv, Unshared, NEW n, NEW v, NEW no_insert
  PROVE  LET s == ext4_xattr_block_set(n, v, no_insert)
         IN  IsState(s) /\ Sound(s) /\ (acl # 0 => s.b = acl)
<1>1. CASE acl # 0
  BY <1>1, SetInBlockKeeps, Zenon DEF ext4_xattr_block_set
<1>2. CASE acl = 0 /\ no_insert
  <2>1. ext4_xattr_block_set(n, v, no_insert) = State(ibody, acl, blk, "ENODATA")
    BY <1>2, Zenon DEF ext4_xattr_block_set
  <2>2. IsState(State(ibody, acl, blk, "ENODATA")) /\ Sound(State(ibody, acl, blk, "ENODATA"))
    BY StateParts, NothingWritten, Zenon
  <2> QED
    BY <1>2, <2>1, <2>2, Zenon
<1>3. CASE acl = 0 /\ ~no_insert
  BY <1>3, NewBlockKeeps, Zenon DEF ext4_xattr_block_set
<1> QED
  BY <1>1, <1>2, <1>3

(* ext4_xattr_block_remove after a first attempt to write the block. *)
LEMMA BlockRemoveKeeps ==
  ASSUME IInv, Unshared, acl # 0, NEW first, Sound(first), first.b = acl,
         NEW ib, NEW n, NEW found
  PROVE  LET s == ext4_xattr_block_remove(ib, ext4_xattr_copy_new_block(first.b, first.bl), n, found)
         IN  IsState(s) /\ Sound(s)
<1> DEFINE bl == first.bl
           c == ext4_xattr_copy_new_block(acl, bl)
           na == ext4_xattr_set_entry(bl[acl].a, IF found THEN Found(bl[acl].a, n) ELSE 0, n, NoValue).a
<1>1. acl \in Pool /\ acl # other
  BY UnsharedOwn
<1>2. Referred(acl, other, bl) /\ (other # 0 => bl[other].a = blk[other].a)
  BY DEF Sound
<1>3. bl[acl].ref = 1
  <2>1. bl = [b \in {acl, other} \ {0} |-> [ref |-> IF acl = other THEN 2 ELSE 1, a |-> bl[b].a]]
    BY <1>2 DEF Referred
  <2> HIDE DEF bl
  <2>2. bl[acl] = [ref |-> 1, a |-> bl[acl].a]
    BY <1>1, <2>1, Zenon
  <2> QED
    BY <2>2
<1>4. c = State(ibody, acl, bl, "EOK")
  BY <1>3, Zenon DEF ext4_xattr_copy_new_block
<1> HIDE DEF bl
<1>5. c.err = "EOK" /\ c.b = acl /\ c.bl = bl
  BY <1>4, StateParts
<1> HIDE DEF c
<1>6. ext4_xattr_block_remove(ib, c, n, found) = State(ib, acl, [bl EXCEPT ![acl].a = na], "EOK")
  BY <1>5, Zenon DEF ext4_xattr_block_remove
<1> HIDE DEF na
<1> DEFINE new == [bl EXCEPT ![acl].a = na]
<1>7. Sound(State(ib, acl, new, "EOK"))
  BY <1>1, <1>2, WrittenOwn, Zenon
<1> HIDE DEF new
<1>8. IsState(State(ib, acl, new, "EOK"))
  BY StateParts
<1> QED
  BY <1>6, <1>7, <1>8, Zenon DEF c, bl, new, na

(* ext4_xattr_set writes no shared block and loses no reference, whatever
   fails on its way. *)
LEMMA SetKeeps ==
  ASSUME IInv, Unshared, NEW n, NEW v, NEW luck
  PROVE  Sound(ext4_xattr_set(n, v, luck))
<1> DEFINE i == Found(Usable, n)
           tried == i = 0 /\ acl # 0
           first == IF tried THEN ext4_xattr_block_set(n, v, TRUE) ELSE State(ibody, acl, blk, "ENODATA")
           r == ext4_xattr_set_entry(Usable, i, n, v)
           last == ext4_xattr_block_set(n, v, FALSE)
<1>1. IsState(first) /\ Sound(first) /\ (tried => first.b = acl)
  <2>1. CASE tried
    <3>1. LET s == ext4_xattr_block_set(n, v, TRUE)
          IN  IsState(s) /\ Sound(s) /\ (acl # 0 => s.b = acl)
      BY BlockSetKeeps, Zenon
    <3> QED
      BY <2>1, <3>1, Zenon
  <2>2. CASE ~tried
    <3>1. IsState(State(ibody, acl, blk, "ENODATA")) /\ Sound(State(ibody, acl, blk, "ENODATA"))
      BY StateParts, NothingWritten
    <3> QED
      BY <2>2, <3>1, Zenon
  <2> QED
    BY <2>1, <2>2
<1>2. IsState(last) /\ Sound(last)
  BY BlockSetKeeps, Zenon
<1>3. ext4_xattr_set(n, v, luck) =
        IF tried /\ first.err \notin {"ENOSPC", "ENODATA"} THEN [first EXCEPT !.ib = Usable]
        ELSE IF r.err = "EOK"
        THEN IF tried THEN ext4_xattr_block_remove(r.a, ext4_xattr_copy_new_block(first.b, first.bl), n, luck)
             ELSE State(r.a, acl, blk, "EOK")
        ELSE IF tried THEN State(Usable, first.b, first.bl, "ENOSPC")
        ELSE [last EXCEPT !.ib = DropOld(Usable, n)]
  BY Zenon DEF ext4_xattr_set
<1>4. Sound([first EXCEPT !.ib = Usable])
  BY <1>1, OtherBody, Zenon
<1>5. Sound([last EXCEPT !.ib = DropOld(Usable, n)])
  BY <1>2, OtherBody, Zenon
<1>6. Sound(State(r.a, acl, blk, "EOK"))
  BY NothingWritten, Zenon
<1>7. Sound(State(Usable, first.b, first.bl, "ENOSPC"))
  <2> HIDE DEF first
  <2> DEFINE t == State(Usable, first.b, first.bl, "ENOSPC")
  <2>1. t.b = first.b /\ t.bl = first.bl
    BY StateParts
  <2> HIDE DEF t
  <2>2. Sound(t)
    BY <1>1, <2>1 DEF Sound
  <2> QED
    BY <2>2 DEF t
<1>8. tried =>
        Sound(ext4_xattr_block_remove(r.a, ext4_xattr_copy_new_block(first.b, first.bl), n, luck))
  <2> HIDE DEF first, r
  <2> QED
    BY <1>1, BlockRemoveKeeps, Zenon
<1> HIDE DEF first, r, last, i
<1> QED
  BY <1>3, <1>4, <1>5, <1>6, <1>7, <1>8, Zenon

(* ext4_xattr_remove copies a block that is shared and gives one back whose
   last entry goes. *)
LEMMA RemoveKeeps ==
  ASSUME IInv, NEW n, NEW luck
  PROVE  Sound(ext4_xattr_remove(n, luck))
<1> DEFINE i == Found(ibody, n)
           c == ext4_xattr_copy_new_block(acl, blk)
           na == ext4_xattr_set_entry(c.bl[c.b].a, Found(c.bl[c.b].a, n), n, NoValue).a
           body == IF luck THEN ext4_xattr_set_entry(ibody, i, n, NoValue).a ELSE ibody
<1>1. \/ \E ib, e : ext4_xattr_remove(n, luck) = State(ib, acl, blk, e)
      \/ /\ acl # 0
         /\ \/ c.err # "EOK" /\ ext4_xattr_remove(n, luck) = c
            \/ c.err = "EOK" /\ ext4_xattr_remove(n, luck) = State(ibody, 0, FreeBlock(c.bl, c.b), "EOK")
            \/ c.err = "EOK" /\ ext4_xattr_remove(n, luck) = State(ibody, c.b, [c.bl EXCEPT ![c.b].a = na], "EOK")
  <2>1. ext4_xattr_remove(n, luck) =
          IF ~Valid(ibody) \/ (i = 0 /\ acl # 0 /\ ~Valid(blk[acl].a)) THEN State(ibody, acl, blk, "EIO")
          ELSE IF i = 0 /\ acl # 0
          THEN IF Found(blk[acl].a, n) = 0 THEN State(ibody, acl, blk, "ENODATA")
               ELSE IF c.err # "EOK" THEN c
               ELSE IF na.ent = <<>> THEN State(ibody, 0, FreeBlock(c.bl, c.b), "EOK")
               ELSE State(ibody, c.b, [c.bl EXCEPT ![c.b].a = na], "EOK")
          ELSE State(body, acl, blk, "EOK")
    BY Zenon DEF ext4_xattr_remove
  <2> HIDE DEF c, na, i, body
  <2> QED
    BY <2>1, Zenon
<1>2. \A ib, e : Sound(State(ib, acl, blk, e))
  BY NothingWritten, Zenon
<1>3. ASSUME acl # 0
      PROVE  /\ Sound(c)
             /\ c.err = "EOK" => /\ Sound(State(ibody, 0, FreeBlock(c.bl, c.b), "EOK"))
                                 /\ Sound(State(ibody, c.b, [c.bl EXCEPT ![c.b].a = na], "EOK"))
  <2>1. Sound(c) /\ (c.err = "EOK" => c.b \in Pool /\ c.b # other)
    BY <1>3, CopyKeeps, Zenon
  <2> HIDE DEF c, na
  <2>2. Referred(c.b, other, c.bl) /\ (other # 0 => c.bl[other].a = blk[other].a)
    BY <2>1 DEF Sound
  <2>3. c.err = "EOK" => Sound(State(ibody, 0, FreeBlock(c.bl, c.b), "EOK"))
    BY <2>1, <2>2, GivenBack
  <2>4. c.err = "EOK" => Sound(State(ibody, c.b, [c.bl EXCEPT ![c.b].a = na], "EOK"))
    BY <2>1, <2>2, WrittenOwn, Zenon
  <2> QED
    BY <2>1, <2>3, <2>4
<1> HIDE DEF c, na
<1> QED
  BY <1>1, <1>2, <1>3, Zenon

-----------------------------------------------------------------------------
(* What a step does to the blocks. *)
Kept ==
  /\ IInv'
  /\ other' = other
  /\ other # 0 => blk'[other].a = blk[other].a

(* A step that leaves a sound result behind. *)
LEMMA SoundKept ==
  ASSUME NEW s, Sound(s), acl' = s.b, blk' = s.bl, other' = other
  PROVE  Kept
BY DEF Sound, Kept, IInv

(* Every step keeps the references and the attributes of the other inode. *)
LEMMA StepKeeps ==
  ASSUME "shared" \in Avoid, IInv, [Next]_vars
  PROVE  Kept
<1>1. CASE UNCHANGED vars
  BY <1>1 DEF vars, Kept, IInv
<1>2. ASSUME NEW n \in Names, NEW v \in Values, ext4_setxattr(n, v)
      PROVE  Kept
  <2>1. ~(acl # 0 /\ blk[acl].ref > 1)
    BY <1>2 DEF ext4_setxattr, SetAvoided
  <2>2. Unshared
    BY <2>1, OwnCount DEF Unshared
  <2>3. PICK luck \in BOOLEAN : Put(n, v, ext4_xattr_set(n, v, luck))
    BY <1>2 DEF ext4_setxattr
  <2>4. Sound(ext4_xattr_set(n, v, luck))
    BY <2>2, SetKeeps
  <2> QED
    BY <2>3, <2>4, SoundKept DEF Put
<1>3. ASSUME NEW n \in Names, ext4_removexattr(n)
      PROVE  Kept
  <2>1. PICK luck \in BOOLEAN : Put(n, NoValue, ext4_xattr_remove(n, luck))
    BY <1>3 DEF ext4_removexattr
  <2>2. Sound(ext4_xattr_remove(n, luck))
    BY RemoveKeeps
  <2> QED
    BY <2>1, <2>2, SoundKept DEF Put
<1>4. ASSUME FreeInode
      PROVE  Kept
  <2> DEFINE s == State(ibody, 0, FreeBlock(blk, acl), "EOK")
  <2>1. acl = 0 \/ acl # other
    BY <1>4, OwnCount DEF FreeInode
  <2>2. Referred(acl, other, blk) /\ acl \in Pool \cup {0}
    BY DEF IInv, Referred
  <2>3. Sound(s)
    BY <2>1, <2>2, GivenBack
  <2>4. s.b = 0 /\ s.bl = FreeBlock(blk, acl)
    BY StateParts
  <2> HIDE DEF s
  <2> QED
    BY <1>4, <2>3, <2>4, SoundKept DEF FreeInode
<1> QED
  BY <1>1, <1>2, <1>3, <1>4 DEF Next

(* The volumes the runs start with count their references. *)
LEMMA InitReferred ==
  ASSUME Init
  PROVE  IInv
<1>1. PICK im \in Images : acl = im.acl /\ other = im.other /\ blk = im.blk
  BY DEF Init
<1> QED
  BY <1>1, XattrVolume DEF IInv

(* Unless a shared block is written or an inode freed that shares one, every
   allocated block of attributes is referred to by as many inodes as its
   h_refcount says, and one that nothing refers to has been given back:
   ext4_xattr_copy_new_block and ext4_xattr_try_free_block, on every path of
   ext4_xattr_set and ext4_xattr_remove and whatever fails there. *)
THEOREM ReferencesCounted ==
  ASSUME "shared" \in Avoid
  PROVE  Spec => []RefsMatch
<1>1. Init => IInv
  BY InitReferred
<1>2. IInv /\ [Next]_vars => IInv'
  BY StepKeeps DEF Kept
<1>3. IInv => RefsMatch
  <2> SUFFICES ASSUME IInv PROVE RefsMatch
    OBVIOUS
  <2>1. blk = [b \in {acl, other} \ {0} |-> [ref |-> IF acl = other THEN 2 ELSE 1, a |-> blk[b].a]]
    BY DEF IInv, Referred
  <2>2. DOMAIN blk = {acl, other} \ {0}
    BY <2>1
  <2>3. ASSUME NEW b \in DOMAIN blk
        PROVE  blk[b].ref = Cardinality({x \in {"acl", "other"} :
                 (x = "acl" /\ acl = b) \/ (x = "other" /\ other = b)})
    <3> DEFINE refs == {x \in {"acl", "other"} : (x = "acl" /\ acl = b) \/ (x = "other" /\ other = b)}
    <3>1. b = acl \/ b = other
      BY <2>2
    <3>2. blk[b] = [ref |-> IF acl = other THEN 2 ELSE 1, a |-> blk[b].a]
      BY <2>1, <2>2, Zenon
    <3>3. blk[b].ref = IF acl = other THEN 2 ELSE 1
      BY <3>2
    <3>4. CASE acl = other
      <4>1. refs = {"acl"} \cup {"other"} /\ "acl" # "other"
        BY <3>1, <3>4
      <4>2. IsFiniteSet({"acl"}) /\ Cardinality({"acl"}) = 1
        BY FS_Singleton
      <4>3. Cardinality({"acl"} \cup {"other"}) = Cardinality({"acl"}) + 1
        <5>1. "other" \notin {"acl"}
          OBVIOUS
        <5> QED
          BY <4>2, <5>1, FS_AddElement
      <4> QED
        BY <3>3, <3>4, <4>1, <4>2, <4>3
    <3>5. CASE acl # other
      <4>1. refs = {"acl"} \/ refs = {"other"}
        BY <3>1, <3>5
      <4>2. Cardinality(refs) = 1
        BY <4>1, FS_Singleton
      <4> QED
        BY <3>3, <3>5, <4>2
    <3> QED
      BY <3>4, <3>5
  <2> QED
    BY <2>2, <2>3 DEF RefsMatch
<1> QED
  BY <1>1, <1>2, <1>3, PTL DEF Spec

(* The same steps leave what can be read of the other inode alone, also when
   both share a block: ext4_xattr_copy_new_block comes before the change. *)
THEOREM OtherInodeKept ==
  ASSUME "shared" \in Avoid
  PROVE  Spec => OthersUntouched
<1> DEFINE Step == \A n \in Names : other # 0 =>
                     (/\ other \in DOMAIN blk'
                      /\ ext4_xattr_get(EmptyArea("ibody"), blk', other, n) =
                           ext4_xattr_get(EmptyArea("ibody"), blk, other, n))
<1>1. Init => IInv
  BY InitReferred
<1>2. IInv /\ [Next]_vars => IInv'
  BY StepKeeps DEF Kept
<1>3. IInv /\ [Next]_vars => Step
  <2> SUFFICES ASSUME IInv, [Next]_vars, NEW n \in Names, other # 0
               PROVE  /\ other \in DOMAIN blk'
                      /\ ext4_xattr_get(EmptyArea("ibody"), blk', other, n) =
                           ext4_xattr_get(EmptyArea("ibody"), blk, other, n)
    OBVIOUS
  <2>1. Kept
    BY StepKeeps
  <2>2. other \in DOMAIN blk'
    <3>1. blk' = [b \in {acl', other'} \ {0} |->
                    [ref |-> IF acl' = other' THEN 2 ELSE 1, a |-> blk'[b].a]]
      BY <2>1 DEF Kept, IInv, Referred
    <3> QED
      BY <2>1, <3>1 DEF Kept
  <2>3. blk'[other].a = blk[other].a
    BY <2>1 DEF Kept
  <2> QED
    BY <2>2, <2>3, Zenon DEF ext4_xattr_get
<1>4. OthersUntouched <=> [][Step]_vars
  BY DEF OthersUntouched
<1> HIDE DEF Step
<1> QED
  BY <1>1, <1>2, <1>3, <1>4, PTL DEF Spec

-----------------------------------------------------------------------------
(* Contents. *)

(* What the areas of an inode hold under a name. *)
Reads(ib, b, bl, n) ==
  IF n \in NamesIn(ib) THEN Got(ib, n) ELSE IF b # 0 THEN Got(bl[b].a, n) ELSE NoValue

(* ext4_xattr_get returns it. *)
LEMMA GetReads ==
  ASSUME NEW ib, NEW b, NEW bl, Readable(ib, b, bl)
  PROVE  \A n : ext4_xattr_get(ib, bl, b, n) = Reads(ib, b, bl, n)
<1> SUFFICES ASSUME NEW n PROVE ext4_xattr_get(ib, bl, b, n) = Reads(ib, b, bl, n)
  OBVIOUS
<1> DEFINE a == bl[b].a
<1>1. Written(ib, "ibody") /\ Valid(ib) /\ (b # 0 => Written(a, "block"))
  BY DEF Readable
<1>2. b # 0 => Valid(a)
  BY <1>1, ValidIs
<1>3. n \in NamesIn(ib) <=> Found(ib, n) # 0
  BY <1>1, FoundIs
<1>4. ext4_xattr_get(ib, bl, b, n) =
        IF Found(ib, n) # 0 THEN Got(ib, n) ELSE IF b # 0 THEN Got(a, n) ELSE NoValue
  <2> DEFINE i == Found(ib, n)
             j == IF b = 0 THEN 0 ELSE Found(a, n)
  <2>1. ext4_xattr_get(ib, bl, b, n) =
          IF ~Valid(ib) \/ (i = 0 /\ b # 0 /\ ~Valid(a)) THEN "EIO"
          ELSE IF i # 0 THEN ValueAt(ib, ib.ent[i]) ELSE IF j # 0 THEN ValueAt(a, a.ent[j]) ELSE NoValue
    BY Zenon DEF ext4_xattr_get, Found
  <2>2. CASE i # 0
    BY <1>1, <2>1, <2>2 DEF Got
  <2>3. CASE i = 0 /\ b = 0
    BY <1>1, <2>1, <2>3
  <2>4. CASE i = 0 /\ b # 0
    BY <1>1, <1>2, <2>1, <2>4 DEF Got
  <2> QED
    BY <2>2, <2>3, <2>4
<1> QED
  BY <1>3, <1>4 DEF Reads

(* An empty area. *)
LEMMA EmptyIs ==
  /\ Written(EmptyArea("block"), "block") /\ NamesIn(EmptyArea("block")) = {}
  /\ \A n : Found(EmptyArea("block"), n) = 0 /\ ~Moves(EmptyArea("block"), n) /\ Got(EmptyArea("block"), n) = NoValue
<1> DEFINE a == EmptyArea("block")
<1>1. a.kind = "block" /\ a.ent = <<>> /\ DOMAIN a.cell = 0 .. Cap["block"] - 1
      /\ a = [kind |-> "block", ent |-> a.ent, cell |-> a.cell]
  BY DEF EmptyArea
<1> HIDE DEF a
<1>2. ToSet(a.ent) = {}
  BY <1>1 DEF ToSet
<1>3. NamesIn(a) = {}
  BY <1>2 DEF NamesIn
<1>4. Used(a) < Cap["block"]
  <2>1. Used(a) = FirstEntry("block") + Lengths(NamesIn(a))
    BY <1>1 DEF Used, Lengths, Total
  <2>2. Lengths({}) = 0
    <3>1. IsFiniteSet({}) /\ {} \in SUBSET {} /\ \A x \in {} : EntryLen[x] \in Int
      BY FS_EmptySet
    <3> QED
      BY <3>1, SumsOf, TotalOf DEF Lengths
  <2> QED
    BY <1>3, <2>1, <2>2, XattrAssumption DEF FirstEntry
<1>5. a.ent \in Seq(Entries) /\ IsInjective(a.ent)
  BY <1>1 DEF IsInjective
<1>6. Packed(ToSet(a.ent), "block", Used(a) + 1)
  BY <1>2 DEF Packed
<1>7. Written(a, "block")
  BY <1>1, <1>2, <1>4, <1>5, <1>6 DEF Written
<1>8. \A n : Found(a, n) = 0
  <2> TAKE n
  <2>1. "block" \in {"ibody", "block"}
    OBVIOUS
  <2>2. Found(a, n) # 0 => n \in NamesIn(a)
    BY <1>7, <2>1, FoundIs
  <2> QED
    BY <1>3, <2>2
<1>9. \A n : ~Moves(a, n) /\ Got(a, n) = NoValue
  BY <1>8 DEF Moves, Got
<1> QED
  BY <1>3, <1>7, <1>8, <1>9 DEF a

(* After a call everything can be read, and as before but for one name. *)
Reading(s, n, v) ==
  /\ Readable(s.ib, s.b, s.bl)
  /\ \A m \in Names : Reads(s.ib, s.b, s.bl, m) = IF m = n THEN v ELSE Reads(ibody, acl, blk, m)

(* The name is behind the inode now. *)
LEMMA BodyChanged ==
  ASSUME Readable(ibody, acl, blk), NEW ib, Written(ib, "ibody"), Valid(ib), NEW n, NEW v,
         NamesIn(ib) = NamesIn(ibody) \cup {n}, Got(ib, n) = v, \A m : m # n => Got(ib, m) = Got(ibody, m),
         NEW bl, acl # 0 => bl[acl].a = blk[acl].a /\ n \notin NamesIn(blk[acl].a), NEW err
  PROVE  Reading(State(ib, acl, bl, err), n, v)
<1>1. Readable(ib, acl, bl)
  BY DEF Readable
<1>2. \A m \in Names : Reads(ib, acl, bl, m) = IF m = n THEN v ELSE Reads(ibody, acl, blk, m)
  BY DEF Reads
<1> DEFINE s == State(ib, acl, bl, err)
<1>3. s.ib = ib /\ s.b = acl /\ s.bl = bl
  BY DEF State
<1> HIDE DEF s
<1>4. Reading(s, n, v)
  BY <1>1, <1>2, <1>3 DEF Reading
<1> QED
  BY <1>4 DEF s

(* The name is in a block now, and not behind the inode. *)
LEMMA BlockChanged ==
  ASSUME Readable(ibody, acl, blk), NEW ib, Written(ib, "ibody"), Valid(ib), NEW n, NEW v,
         NamesIn(ib) = NamesIn(ibody) \ {n}, \A m : m # n => Got(ib, m) = Got(ibody, m),
         NEW b, b # 0, NEW bl, Written(bl[b].a, "block"),
         NamesIn(bl[b].a) = (IF acl = 0 THEN {} ELSE NamesIn(blk[acl].a)) \cup {n}, Got(bl[b].a, n) = v,
         \A m : m # n => Got(bl[b].a, m) = IF acl = 0 THEN NoValue ELSE Got(blk[acl].a, m),
         NEW err
  PROVE  Reading(State(ib, b, bl, err), n, v)
<1>1. Readable(ib, b, bl)
  BY DEF Readable
<1>2. \A m \in Names : Reads(ib, b, bl, m) = IF m = n THEN v ELSE Reads(ibody, acl, blk, m)
  BY DEF Reads
<1> DEFINE s == State(ib, b, bl, err)
<1>3. s.ib = ib /\ s.b = b /\ s.bl = bl
  BY DEF State
<1> HIDE DEF s
<1>4. Reading(s, n, v)
  BY <1>1, <1>2, <1>3 DEF Reading
<1> QED
  BY <1>4 DEF s

(* Nothing that can be read was changed. *)
LEMMA NothingChanged ==
  ASSUME Readable(ibody, acl, blk), NEW err, NEW n
  PROVE  Reading(State(ibody, acl, blk, err), n, Reads(ibody, acl, blk, n))
<1> DEFINE s == State(ibody, acl, blk, err)
<1>1. s.ib = ibody /\ s.b = acl /\ s.bl = blk
  BY DEF State
<1> HIDE DEF s
<1>2. Reading(s, n, Reads(ibody, acl, blk, n))
  BY <1>1 DEF Reading
<1> QED
  BY <1>2 DEF s

(* The area of a block that is written. *)
LEMMA AreaWritten ==
  ASSUME NEW b, NEW o, NEW bl, Referred(b, o, bl), b # 0, NEW na
  PROVE  [bl EXCEPT ![b].a = na][b].a = na
<1>1. bl = [c \in {b, o} \ {0} |-> [ref |-> IF b = o THEN 2 ELSE 1, a |-> bl[c].a]]
  BY DEF Referred
<1> DEFINE t == [ref |-> IF b = o THEN 2 ELSE 1, a |-> bl[b].a]
<1>2. b \in DOMAIN bl /\ bl[b] = t
  BY <1>1, Zenon
<1>3. [t EXCEPT !.a = na].a = na
  OBVIOUS
<1>4. [bl EXCEPT ![b].a = na][b] = [bl[b] EXCEPT !.a = na]
  BY <1>2, Zenon
<1> HIDE DEF t
<1> QED
  BY <1>2, <1>3, <1>4, Zenon

(* Every input is left out that leads to a known deviation. *)
Exclusions == {"zero", "exact", "ibody", "grown", "full", "shared"}

(* A call sets the name, or fails for want of space and changes nothing. *)
Outcome(s, n, v) ==
  \/ s.err = "EOK" /\ Reading(s, n, v)
  \/ s.err = "ENOSPC" /\ Reading(s, n, Reads(ibody, acl, blk, n))

(* A block that is not shared is written in place. *)
LEMMA SetInBlockIs ==
  ASSUME IInv, Unshared, acl # 0, Valid(blk[acl].a), NEW n, NEW v, NEW no_insert, NEW r,
         r = ext4_xattr_set_entry(blk[acl].a, Found(blk[acl].a, n), n, v)
  PROVE  ext4_xattr_block_set(n, v, no_insert) =
           IF r.err # "EOK" THEN State(ibody, acl, blk, r.err)
           ELSE State(ibody, acl, [blk EXCEPT ![acl].a = r.a], "EOK")
<1>1. acl \in Pool /\ acl # other /\ blk[acl].ref = 1
  BY UnsharedOwn
<1>2. ext4_xattr_copy_new_block(acl, blk) = State(ibody, acl, blk, "EOK")
  BY <1>1, Zenon DEF ext4_xattr_copy_new_block
<1>3. State(ibody, acl, blk, "EOK").err = "EOK"
  BY DEF State
<1>4. ~(blk[acl].ref > 1)
  BY <1>1
<1>5. SetInBlock(n, v, no_insert) =
        IF r.err # "EOK" THEN State(ibody, acl, blk, r.err)
        ELSE State(ibody, acl, [blk EXCEPT ![acl].a = r.a], "EOK")
  BY <1>2, <1>3, <1>4, Zenon DEF SetInBlock
<1>6. ext4_xattr_block_set(n, v, no_insert) = SetInBlock(n, v, no_insert)
  BY Zenon DEF ext4_xattr_block_set
<1> QED
  BY <1>5, <1>6, Zenon

(* A record of what a call returns, with another area behind the inode. *)
LEMMA BodyOf ==
  ASSUME NEW ib, NEW jb, NEW b, NEW bl, NEW err
  PROVE  [State(ib, b, bl, err) EXCEPT !.ib = jb] = State(jb, b, bl, err)
BY DEF State

(* ext4_xattr_set with a block, of a name that is not behind the inode. *)
LEMMA SetTried ==
  ASSUME IInv, Readable(ibody, acl, blk), Unshared, NEW n \in Names, NEW v \in Values, NEW luck,
         acl # 0, Found(ibody, n) = 0, ~Moves(ibody, n), ~Moves(blk[acl].a, n), ~Exact(n, v),
         ~(InBlock(n) /\ NoRoomIn(blk[acl].a, n, v) /\ ~NoRoomIn(ibody, n, v))
  PROVE  Outcome(ext4_xattr_set(n, v, luck), n, v)
<1> DEFINE B == blk[acl].a
           r == ext4_xattr_set_entry(ibody, Found(ibody, n), n, v)
           rb == ext4_xattr_set_entry(B, Found(B, n), n, v)
           s == ext4_xattr_set(n, v, luck)
           put == [blk EXCEPT ![acl].a = rb.a]
           same == [blk EXCEPT ![acl].a = B]
<1>1. /\ Written(ibody, "ibody") /\ Valid(ibody) /\ Written(B, "block") /\ Valid(B)
      /\ NamesIn(ibody) \cap NamesIn(B) = {}
  BY ValidIs DEF Readable
<1>2. n \notin NamesIn(ibody)
  BY <1>1, FoundIs
<1>3. Usable = ibody
  BY <1>1 DEF Usable
<1>4. /\ r.err \in {"EOK", "ENOSPC"}
      /\ r.err = "EOK" => /\ Written(r.a, "ibody") /\ NamesIn(r.a) = NamesIn(ibody) \cup {n}
                          /\ Got(r.a, n) = v /\ \A m : m # n => Got(r.a, m) = Got(ibody, m)
  BY <1>1, SetPut
<1>5. /\ rb.err \in {"EOK", "ENOSPC"}
      /\ rb.err = "EOK" => /\ Written(rb.a, "block") /\ NamesIn(rb.a) = NamesIn(B) \cup {n}
                           /\ Got(rb.a, n) = v /\ \A m : m # n => Got(rb.a, m) = Got(B, m)
  BY <1>1, SetPut
<1>6. r.err = "EOK" => Valid(r.a)
  BY DEF Exact
<1>7. ext4_xattr_block_set(n, v, TRUE) =
        IF rb.err # "EOK" THEN State(ibody, acl, blk, rb.err) ELSE State(ibody, acl, put, "EOK")
  BY <1>1, SetInBlockIs, Zenon
<1>8. s = LET first == ext4_xattr_block_set(n, v, TRUE)
          IN  IF first.err \notin {"ENOSPC", "ENODATA"} THEN [first EXCEPT !.ib = ibody]
              ELSE IF r.err = "EOK"
              THEN ext4_xattr_block_remove(r.a, ext4_xattr_copy_new_block(first.b, first.bl), n, luck)
              ELSE State(ibody, first.b, first.bl, "ENOSPC")
  BY <1>3, Zenon DEF ext4_xattr_set
<1>9. put[acl].a = rb.a /\ same[acl].a = B
  BY AreaWritten, Zenon DEF IInv
<1>10. CASE rb.err = "EOK"
  <2> DEFINE t == State(ibody, acl, put, "EOK")
  <2>1. ext4_xattr_block_set(n, v, TRUE) = t
    BY <1>7, <1>10, Zenon
  <2>2. t.err = "EOK" /\ t.err \notin {"ENOSPC", "ENODATA"} /\ [t EXCEPT !.ib = ibody] = t
    <3>1. t.err = "EOK"
      BY StateParts
    <3>2. [t EXCEPT !.ib = ibody] = t
      <4> HIDE DEF put
      <4> QED
        BY DEF State
    <3> HIDE DEF t
    <3> QED
      BY <3>1, <3>2
  <2> HIDE DEF t, put, s, r
  <2>3. s = [t EXCEPT !.ib = ibody]
    BY <1>8, <2>1, <2>2
  <2>4. Reading(State(ibody, acl, put, "EOK"), n, v)
    <3>1. NamesIn(put[acl].a) = (IF acl = 0 THEN {} ELSE NamesIn(blk[acl].a)) \cup {n}
      BY <1>5, <1>9, <1>10
    <3>2. \A m : m # n => Got(put[acl].a, m) = IF acl = 0 THEN NoValue ELSE Got(blk[acl].a, m)
      BY <1>5, <1>9, <1>10
    <3>3. Written(put[acl].a, "block") /\ Got(put[acl].a, n) = v
      BY <1>5, <1>9, <1>10
    <3>4. NamesIn(ibody) = NamesIn(ibody) \ {n}
      BY <1>2
    <3>5. \A m : m # n => Got(ibody, m) = Got(ibody, m)
      OBVIOUS
    <3> QED
      BY <1>1, <3>1, <3>2, <3>3, <3>4, <3>5, BlockChanged
  <2>5. s.err = "EOK" /\ Reading(s, n, v)
    BY <2>2, <2>3, <2>4, Zenon DEF t
  <2> QED
    BY <2>5 DEF Outcome, s
<1>11. ASSUME rb.err = "ENOSPC"
       PROVE  s = IF r.err = "EOK"
                  THEN ext4_xattr_block_remove(r.a, ext4_xattr_copy_new_block(acl, blk), n, luck)
                  ELSE State(ibody, acl, blk, "ENOSPC")
  <2> DEFINE t == State(ibody, acl, blk, "ENOSPC")
  <2>1. ext4_xattr_block_set(n, v, TRUE) = t
    BY <1>7, <1>11, Zenon
  <2>2. t.err = "ENOSPC" /\ t.b = acl /\ t.bl = blk
    BY StateParts
  <2> HIDE DEF t, r
  <2> QED
    BY <1>8, <2>1, <2>2, Zenon
<1>12. CASE rb.err = "ENOSPC" /\ r.err = "EOK"
  <2>1. Found(B, n) = 0
    <3>1. NoRoomIn(B, n, v) /\ ~NoRoomIn(ibody, n, v)
      BY <1>12 DEF NoRoomIn
    <3> QED
      BY <3>1 DEF InBlock
  <2>2. n \notin NamesIn(B)
    BY <1>1, <2>1, FoundIs
  <2>3. acl \in Pool /\ blk[acl].ref = 1
    BY UnsharedOwn
  <2>4. ext4_xattr_copy_new_block(acl, blk) = State(ibody, acl, blk, "EOK")
    BY <2>3, Zenon DEF ext4_xattr_copy_new_block
  <2> DEFINE c == State(ibody, acl, blk, "EOK")
             t == State(r.a, acl, same, "EOK")
  <2>5. c.err = "EOK" /\ c.b = acl /\ c.bl = blk
    BY StateParts
  <2>6. ext4_xattr_set_entry(B, 0, n, NoValue).a = B
    <3>1. ext4_xattr_set_entry(B, 0, n, NoValue) = Area(B, "EOK")
      BY DEF ext4_xattr_set_entry
    <3> HIDE DEF B
    <3> QED
      BY <3>1 DEF Area
  <2> HIDE DEF c, r
  <2>7. ext4_xattr_block_remove(r.a, c, n, luck) = t
    <3>1. (IF luck THEN Found(B, n) ELSE 0) = 0
      BY <2>1
    <3>2. ext4_xattr_block_remove(r.a, c, n, luck) =
            State(r.a, acl, [blk EXCEPT ![acl].a =
              ext4_xattr_set_entry(B, IF luck THEN Found(B, n) ELSE 0, n, NoValue).a], "EOK")
      BY <2>5, Zenon DEF ext4_xattr_block_remove
    <3> QED
      BY <2>6, <3>1, <3>2, Zenon
  <2>8. s = t
    BY <1>11, <1>12, <2>4, <2>7, Zenon DEF c
  <2>9. Reading(State(r.a, acl, same, "EOK"), n, v)
    <3>1. acl # 0 => same[acl].a = blk[acl].a /\ n \notin NamesIn(blk[acl].a)
      BY <1>9, <2>2
    <3>2. Written(r.a, "ibody") /\ Valid(r.a) /\ NamesIn(r.a) = NamesIn(ibody) \cup {n} /\ Got(r.a, n) = v
          /\ \A m : m # n => Got(r.a, m) = Got(ibody, m)
      BY <1>4, <1>6, <1>12
    <3> HIDE DEF same
    <3> QED
      BY <3>1, <3>2, BodyChanged
  <2> HIDE DEF same, s
  <2>10. s.err = "EOK"
    BY <2>8, StateParts
  <2> QED
    BY <2>8, <2>9, <2>10, Zenon DEF Outcome, s
<1>13. CASE rb.err = "ENOSPC" /\ r.err # "EOK"
  <2>1. s = State(ibody, acl, blk, "ENOSPC")
    BY <1>11, <1>13, Zenon
  <2>2. Reading(State(ibody, acl, blk, "ENOSPC"), n, Reads(ibody, acl, blk, n))
    BY NothingChanged
  <2> HIDE DEF s
  <2>3. s.err = "ENOSPC"
    BY <2>1, StateParts
  <2> QED
    BY <2>1, <2>2, <2>3, Zenon DEF Outcome, s
<1> QED
  BY <1>5, <1>10, <1>12, <1>13

(* ext4_xattr_set of a name behind the inode, or without a block. *)
LEMMA SetUntried ==
  ASSUME IInv, Readable(ibody, acl, blk), Unshared, NEW n \in Names, NEW v \in Values, NEW luck,
         Found(ibody, n) # 0 \/ acl = 0, ~Moves(ibody, n), acl # 0 => ~Moves(blk[acl].a, n), ~Exact(n, v),
         ~(/\ Found(ibody, n) # 0 /\ NoRoomIn(ibody, n, v)
           /\ IF acl = 0 THEN Free(blk) = {} \/ NoRoomIn(EmptyArea("block"), n, v) ELSE NoRoomIn(blk[acl].a, n, v))
  PROVE  Outcome(ext4_xattr_set(n, v, luck), n, v)
<1> DEFINE B == blk[acl].a
           i == Found(ibody, n)
           r == ext4_xattr_set_entry(ibody, i, n, v)
           g == ext4_xattr_set_entry(ibody, i, n, NoValue)
           rb == ext4_xattr_set_entry(B, Found(B, n), n, v)
           e == ext4_xattr_set_entry(EmptyArea("block"), 0, n, v)
           s == ext4_xattr_set(n, v, luck)
           put == [blk EXCEPT ![acl].a = rb.a]
           b == Min(Free(blk))
           new == NewBlockIn(blk, b, [ref |-> 1, a |-> e.a])
<1>1. /\ Written(ibody, "ibody") /\ Valid(ibody)
      /\ acl # 0 => Written(B, "block") /\ Valid(B) /\ NamesIn(ibody) \cap NamesIn(B) = {}
  BY ValidIs DEF Readable
<1>2. (i # 0 => n \in NamesIn(ibody)) /\ (i = 0 => n \notin NamesIn(ibody))
  BY <1>1, FoundIs
<1>3. Usable = ibody
  BY <1>1 DEF Usable
<1>4. /\ r.err \in {"EOK", "ENOSPC"}
      /\ r.err = "EOK" => /\ Written(r.a, "ibody") /\ NamesIn(r.a) = NamesIn(ibody) \cup {n}
                          /\ Got(r.a, n) = v /\ \A m : m # n => Got(r.a, m) = Got(ibody, m)
  BY <1>1, SetPut
<1>5. acl # 0 =>
        /\ rb.err \in {"EOK", "ENOSPC"}
        /\ rb.err = "EOK" => /\ Written(rb.a, "block") /\ NamesIn(rb.a) = NamesIn(B) \cup {n}
                             /\ Got(rb.a, n) = v /\ \A m : m # n => Got(rb.a, m) = Got(B, m)
  BY <1>1, SetPut
<1>6. r.err = "EOK" => Valid(r.a)
  BY DEF Exact
<1>7. /\ Written(g.a, "ibody") /\ Valid(g.a) /\ NamesIn(g.a) = NamesIn(ibody) \ {n}
      /\ \A m : m # n => Got(g.a, m) = Got(ibody, m)
  BY <1>1, SetGone
<1>8. s = IF r.err = "EOK" THEN State(r.a, acl, blk, "EOK")
          ELSE [ext4_xattr_block_set(n, v, FALSE) EXCEPT !.ib = g.a]
  <2>1. ~(i = 0 /\ acl # 0)
    OBVIOUS
  <2>2. DropOld(ibody, n) = g.a
    BY Zenon DEF DropOld
  <2> QED
    BY <1>3, <2>1, <2>2, Zenon DEF ext4_xattr_set
<1>9. CASE r.err = "EOK"
  <2>1. acl # 0 => blk[acl].a = blk[acl].a /\ n \notin NamesIn(blk[acl].a)
    BY <1>1, <1>2
  <2>2. Written(r.a, "ibody") /\ Valid(r.a) /\ NamesIn(r.a) = NamesIn(ibody) \cup {n} /\ Got(r.a, n) = v
        /\ \A m : m # n => Got(r.a, m) = Got(ibody, m)
    BY <1>4, <1>6, <1>9
  <2>3. s = State(r.a, acl, blk, "EOK")
    BY <1>8, <1>9, Zenon
  <2> HIDE DEF r, s
  <2>4. Reading(State(r.a, acl, blk, "EOK"), n, v)
    BY <2>1, <2>2, BodyChanged
  <2>5. s.err = "EOK"
    BY <2>3, StateParts
  <2> QED
    BY <2>3, <2>4, <2>5, Zenon DEF Outcome, s
<1>10. CASE r.err # "EOK" /\ acl # 0
  <2>1. i # 0 /\ NoRoomIn(ibody, n, v)
    BY <1>10 DEF NoRoomIn
  <2>2. rb.err = "EOK"
    BY <1>10, <2>1 DEF NoRoomIn
  <2>3. ext4_xattr_block_set(n, v, FALSE) = State(ibody, acl, put, "EOK")
    <3>1. ext4_xattr_block_set(n, v, FALSE) =
            IF rb.err # "EOK" THEN State(ibody, acl, blk, rb.err) ELSE State(ibody, acl, put, "EOK")
      BY <1>1, <1>10, SetInBlockIs, Zenon
    <3> QED
      BY <2>2, <3>1, Zenon
  <2>4. put[acl].a = rb.a
    <3>1. acl # 0 /\ Referred(acl, other, blk)
      BY <1>10 DEF IInv
    <3> HIDE DEF rb
    <3> QED
      BY <3>1, AreaWritten, Zenon
  <2> HIDE DEF put, g, r, rb, s
  <2>5. s = State(g.a, acl, put, "EOK")
    <3>1. [State(ibody, acl, put, "EOK") EXCEPT !.ib = g.a] = State(g.a, acl, put, "EOK")
      BY DEF State
    <3>2. s = [State(ibody, acl, put, "EOK") EXCEPT !.ib = g.a]
      BY <1>8, <1>10, <2>3, Zenon
    <3> QED
      BY <3>1, <3>2, Zenon
  <2>6. Reading(State(g.a, acl, put, "EOK"), n, v)
    <3>1. NamesIn(put[acl].a) = (IF acl = 0 THEN {} ELSE NamesIn(blk[acl].a)) \cup {n}
      BY <1>5, <1>10, <2>2, <2>4
    <3>2. \A m : m # n => Got(put[acl].a, m) = IF acl = 0 THEN NoValue ELSE Got(blk[acl].a, m)
      BY <1>5, <1>10, <2>2, <2>4
    <3>3. Written(put[acl].a, "block") /\ Got(put[acl].a, n) = v
      BY <1>5, <1>10, <2>2, <2>4
    <3> QED
      BY <1>7, <1>10, <3>1, <3>2, <3>3, BlockChanged
  <2>7. s.err = "EOK"
    BY <2>5, StateParts
  <2> QED
    BY <2>5, <2>6, <2>7, Zenon DEF Outcome, s
<1>11. CASE r.err # "EOK" /\ acl = 0
  <2>1. ext4_xattr_block_set(n, v, FALSE) = NewBlock(n, v)
    BY <1>11, Zenon DEF ext4_xattr_block_set
  <2>2. /\ e.err \in {"EOK", "ENOSPC"}
        /\ e.err = "EOK" => /\ Written(e.a, "block") /\ NamesIn(e.a) = {n}
                            /\ Got(e.a, n) = v /\ \A m : m # n => Got(e.a, m) = NoValue
    <3> DEFINE z == EmptyArea("block")
    <3>1. Written(z, "block") /\ NamesIn(z) = {} /\ Found(z, n) = 0 /\ ~Moves(z, n)
          /\ \A m : Got(z, m) = NoValue
      BY EmptyIs
    <3>2. 0 = Found(z, n)
      BY <3>1
    <3> HIDE DEF z
    <3> DEFINE f == ext4_xattr_set_entry(z, 0, n, v)
    <3>3. f = ext4_xattr_set_entry(z, 0, n, v)
      OBVIOUS
    <3> HIDE DEF f
    <3>4. /\ f.err \in {"EOK", "ENOSPC"}
          /\ f.err = "EOK" => /\ Written(f.a, "block") /\ NamesIn(f.a) = NamesIn(z) \cup {n}
                              /\ Got(f.a, n) = v /\ \A m : m # n => Got(f.a, m) = Got(z, m)
      BY <3>1, <3>2, <3>3, SetPut
    <3>5. /\ f.err \in {"EOK", "ENOSPC"}
          /\ f.err = "EOK" => /\ Written(f.a, "block") /\ NamesIn(f.a) = {n}
                              /\ Got(f.a, n) = v /\ \A m : m # n => Got(f.a, m) = NoValue
      BY <3>1, <3>4
    <3> QED
      BY <3>5 DEF f, z
  <2>3. CASE Free(blk) = {} \/ e.err # "EOK"
    <3>1. NoRoomIn(EmptyArea("block"), n, v) \/ Free(blk) = {}
      BY <2>3, EmptyIs DEF NoRoomIn
    <3>2. NoRoomIn(ibody, n, v)
      BY <1>11 DEF NoRoomIn
    <3>3. i = 0
      BY <1>11, <3>1, <3>2
    <3>4. g.a = ibody
      <4>1. g = Area(ibody, "EOK")
        BY <3>3 DEF ext4_xattr_set_entry
      <4> HIDE DEF g
      <4> QED
        BY <4>1 DEF Area
    <3>5. NewBlock(n, v) = State(ibody, acl, blk, "ENOSPC")
      <4>1. NewBlock(n, v) = IF Free(blk) = {} THEN State(ibody, 0, blk, "ENOSPC")
                             ELSE IF e.err # "EOK" THEN State(ibody, 0, blk, e.err)
                             ELSE State(ibody, b, new, "EOK")
        BY Zenon DEF NewBlock
      <4>2. e.err # "EOK" => e.err = "ENOSPC"
        BY <2>2
      <4> HIDE DEF e, b, new
      <4> QED
        BY <1>11, <2>3, <4>1, <4>2
    <3> HIDE DEF g, r, s
    <3>6. s = State(ibody, acl, blk, "ENOSPC")
      <4>1. [State(ibody, acl, blk, "ENOSPC") EXCEPT !.ib = ibody] = State(ibody, acl, blk, "ENOSPC")
        BY DEF State
      <4>2. s = [State(ibody, acl, blk, "ENOSPC") EXCEPT !.ib = ibody]
        BY <1>8, <1>11, <2>1, <3>4, <3>5, Zenon
      <4> QED
        BY <4>1, <4>2, Zenon
    <3>7. Reading(State(ibody, acl, blk, "ENOSPC"), n, Reads(ibody, acl, blk, n))
      BY NothingChanged
    <3>8. s.err = "ENOSPC"
      BY <3>6, StateParts
    <3> QED
      BY <3>6, <3>7, <3>8, Zenon DEF Outcome, s
  <2>4. CASE Free(blk) # {} /\ e.err = "EOK"
    <3>1. NewBlock(n, v) = State(ibody, b, new, "EOK")
      BY <2>4, Zenon DEF NewBlock
    <3>2. b # 0
      <4>1. Free(blk) \in SUBSET (Nat \ {0})
        BY XattrVolume DEF Free
      <4>2. b \in Free(blk)
        BY <2>4, <4>1, LeastNatural
      <4> QED
        BY <4>1, <4>2
    <3> HIDE DEF g, r, s, e, b
    <3>3. new[b].a = e.a
      BY DEF NewBlockIn
    <3> HIDE DEF new
    <3>4. s = State(g.a, b, new, "EOK")
      <4>1. [State(ibody, b, new, "EOK") EXCEPT !.ib = g.a] = State(g.a, b, new, "EOK")
        BY DEF State
      <4>2. s = [State(ibody, b, new, "EOK") EXCEPT !.ib = g.a]
        BY <1>8, <1>11, <2>1, <3>1, Zenon
      <4> QED
        BY <4>1, <4>2, Zenon
    <3>5. Reading(State(g.a, b, new, "EOK"), n, v)
      <4>1. NamesIn(new[b].a) = (IF acl = 0 THEN {} ELSE NamesIn(blk[acl].a)) \cup {n}
        BY <1>11, <2>2, <2>4, <3>3
      <4>2. \A m : m # n => Got(new[b].a, m) = IF acl = 0 THEN NoValue ELSE Got(blk[acl].a, m)
        BY <1>11, <2>2, <2>4, <3>3
      <4>3. Written(new[b].a, "block") /\ Got(new[b].a, n) = v
        BY <2>2, <2>4, <3>3
      <4> QED
        BY <1>7, <3>2, <4>1, <4>2, <4>3, BlockChanged
    <3>6. s.err = "EOK"
      BY <3>4, StateParts
    <3> QED
      BY <3>4, <3>5, <3>6, Zenon DEF Outcome, s
  <2> QED
    BY <2>3, <2>4
<1> QED
  BY <1>9, <1>10, <1>11

(* The block to be changed holds what the block of the inode did. *)
LEMMA CopyHolds ==
  ASSUME IInv, acl # 0, NEW c, c = ext4_xattr_copy_new_block(acl, blk)
  PROVE  \/ c = State(ibody, acl, blk, "ENOSPC")
         \/ c.err = "EOK" /\ c.b # 0 /\ c.bl[c.b].a = blk[acl].a /\ Referred(c.b, other, c.bl)
<1>1. c.err = "EOK" => Referred(c.b, other, c.bl) /\ c.b # 0
  <2>1. Sound(c) /\ (c.err = "EOK" => c.b \in Pool /\ c.b # other)
    BY CopyKeeps, Zenon
  <2> QED
    BY <2>1, XattrVolume DEF Sound
<1>2. CASE blk[acl].ref = 1
  <2>1. c = State(ibody, acl, blk, "EOK")
    BY <1>2, Zenon DEF ext4_xattr_copy_new_block
  <2>2. c.err = "EOK" /\ c.b = acl /\ c.bl = blk
    BY <2>1, StateParts
  <2> QED
    BY <1>1, <2>2
<1>3. CASE blk[acl].ref # 1 /\ Free(blk) = {}
  BY <1>3, Zenon DEF ext4_xattr_copy_new_block
<1>4. CASE blk[acl].ref # 1 /\ Free(blk) # {}
  <2> DEFINE new == Min(Free(blk))
             rec == [blk[acl] EXCEPT !.ref = 1]
             less == [blk EXCEPT ![acl].ref = @ - 1]
             bl == NewBlockIn(less, new, rec)
  <2>1. c = State(ibody, new, bl, "EOK")
    BY <1>4, Zenon DEF ext4_xattr_copy_new_block
  <2>2. rec.a = blk[acl].a
    <3>1. blk = [b \in {acl, other} \ {0} |-> [ref |-> IF acl = other THEN 2 ELSE 1, a |-> blk[b].a]]
      BY DEF IInv, Referred
    <3> DEFINE t == [ref |-> IF acl = other THEN 2 ELSE 1, a |-> blk[acl].a]
    <3>2. blk[acl] = t
      BY <3>1, Zenon
    <3>3. [t EXCEPT !.ref = 1].a = blk[acl].a
      OBVIOUS
    <3> HIDE DEF t
    <3> QED
      BY <3>2, <3>3, Zenon
  <2> HIDE DEF new, rec, less
  <2>3. bl[new] = rec
    BY DEF NewBlockIn
  <2> HIDE DEF bl
  <2>4. c.err = "EOK" /\ c.b = new /\ c.bl = bl
    BY <2>1, StateParts
  <2> QED
    BY <1>1, <2>2, <2>3, <2>4
<1> QED
  BY <1>2, <1>3, <1>4

(* The name is gone from the block, or the block with its last name. *)
LEMMA BlockCut ==
  ASSUME Readable(ibody, acl, blk), acl # 0, NEW n, n \notin NamesIn(ibody),
         NEW A, Written(A, "block"), NamesIn(A) = NamesIn(blk[acl].a) \ {n},
         \A m : m # n => Got(A, m) = Got(blk[acl].a, m),
         NEW b, NEW bl, (b = 0 /\ NamesIn(A) = {}) \/ (b # 0 /\ bl[b].a = A), NEW err
  PROVE  Reading(State(ibody, b, bl, err), n, NoValue)
<1>1. Readable(ibody, b, bl)
  BY DEF Readable
<1>2. \A m : m \notin NamesIn(A) => Got(A, m) = NoValue
  BY GotIs
<1>3. \A m \in Names : Reads(ibody, b, bl, m) = IF m = n THEN NoValue ELSE Reads(ibody, acl, blk, m)
  <2> TAKE m \in Names
  <2>1. CASE b = 0
    BY <1>2, <2>1 DEF Reads
  <2>2. CASE b # 0 /\ bl[b].a = A
    BY <1>2, <2>2 DEF Reads
  <2> QED
    BY <2>1, <2>2
<1> DEFINE s == State(ibody, b, bl, err)
<1>4. s.ib = ibody /\ s.b = b /\ s.bl = bl
  BY DEF State
<1> HIDE DEF s
<1>5. Reading(s, n, NoValue)
  BY <1>1, <1>3, <1>4 DEF Reading
<1> QED
  BY <1>5 DEF s

(* A call removes the name, fails because there is none, or fails for want of
   space and changes nothing. *)
Removal(s, n) ==
  \/ s.err = "EOK" /\ Reading(s, n, NoValue)
  \/ /\ s.err = "ENODATA" /\ Reads(ibody, acl, blk, n) = NoValue
     /\ Reading(s, n, NoValue)
  \/ s.err = "ENOSPC" /\ Reading(s, n, Reads(ibody, acl, blk, n))

(* ext4_xattr_remove of a name that is not behind the inode. *)
LEMMA RemoveReads ==
  ASSUME IInv, Readable(ibody, acl, blk), NEW n \in Names, NEW luck,
         acl # 0, ~Moves(blk[acl].a, n), InBlock(n) \/ Found(ibody, n) = 0
  PROVE  Removal(ext4_xattr_remove(n, luck), n)
<1> DEFINE B == blk[acl].a
           c == ext4_xattr_copy_new_block(acl, blk)
           g == ext4_xattr_set_entry(c.bl[c.b].a, Found(c.bl[c.b].a, n), n, NoValue)
           h == ext4_xattr_set_entry(B, Found(B, n), n, NoValue)
           put == [c.bl EXCEPT ![c.b].a = g.a]
           s == ext4_xattr_remove(n, luck)
<1>1. /\ Written(ibody, "ibody") /\ Valid(ibody) /\ Written(B, "block") /\ Valid(B)
      /\ NamesIn(ibody) \cap NamesIn(B) = {}
  BY ValidIs DEF Readable
<1>2. (Found(B, n) # 0 => n \in NamesIn(B)) /\ (Found(B, n) = 0 => n \notin NamesIn(B))
  BY <1>1, FoundIs
<1>3. n \notin NamesIn(ibody) /\ Found(ibody, n) = 0
  <2>1. InBlock(n) => n \in NamesIn(B)
    BY <1>2 DEF InBlock
  <2>2. Found(ibody, n) = 0 => n \notin NamesIn(ibody)
    BY <1>1, FoundIs
  <2>3. Found(ibody, n) # 0 => n \in NamesIn(ibody)
    BY <1>1, FoundIs
  <2> QED
    BY <1>1, <2>1, <2>2, <2>3
<1>4. s = IF Found(B, n) = 0 THEN State(ibody, acl, blk, "ENODATA")
          ELSE IF c.err # "EOK" THEN c
          ELSE IF g.a.ent = <<>> THEN State(ibody, 0, FreeBlock(c.bl, c.b), "EOK")
          ELSE State(ibody, c.b, put, "EOK")
  BY <1>1, <1>3, Zenon DEF ext4_xattr_remove
<1>5. CASE Found(B, n) = 0
  <2>1. Reads(ibody, acl, blk, n) = NoValue
    <3>1. Got(B, n) = NoValue
      BY <1>5 DEF Got
    <3> QED
      BY <1>3, <3>1 DEF Reads
  <2>2. s = State(ibody, acl, blk, "ENODATA")
    BY <1>4, <1>5, Zenon
  <2>3. Reading(State(ibody, acl, blk, "ENODATA"), n, Reads(ibody, acl, blk, n))
    BY NothingChanged
  <2> HIDE DEF s
  <2>4. s.err = "ENODATA"
    BY <2>2, StateParts
  <2> QED
    BY <2>1, <2>2, <2>3, <2>4, Zenon DEF Removal, s
<1>6. CASE Found(B, n) # 0 /\ c = State(ibody, acl, blk, "ENOSPC")
  <2> HIDE DEF s, c, put, g
  <2>1. c.err = "ENOSPC" /\ c.err # "EOK"
    BY <1>6, StateParts
  <2>2. s = c
    BY <1>4, <1>6, <2>1, Zenon
  <2>3. Reading(State(ibody, acl, blk, "ENOSPC"), n, Reads(ibody, acl, blk, n))
    BY NothingChanged
  <2> QED
    BY <1>6, <2>1, <2>2, <2>3, Zenon DEF Removal, s
<1>7. CASE Found(B, n) # 0 /\ c.err = "EOK" /\ c.b # 0 /\ c.bl[c.b].a = B /\ Referred(c.b, other, c.bl)
  <2>1. g = h
    BY <1>7, Zenon
  <2>2. /\ Written(h.a, "block") /\ NamesIn(h.a) = NamesIn(B) \ {n}
        /\ \A m : m # n => Got(h.a, m) = Got(B, m)
    BY <1>1, SetGone
  <2>3. put[c.b].a = g.a
    <3> DEFINE x == c.bl
               y == c.b
               z == g.a
    <3>1. Referred(y, other, x) /\ y # 0
      BY <1>7
    <3> HIDE DEF g, c, x, y, z
    <3>2. [x EXCEPT ![y].a = z][y].a = z
      BY <3>1, AreaWritten
    <3> QED
      BY <3>2 DEF x, y, z
  <2> HIDE DEF s, c, g, h
  <2>4. CASE g.a.ent = <<>>
    <3>1. NamesIn(h.a) = {}
      <4>1. h.a.ent = <<>>
        BY <2>1, <2>4, Zenon
      <4>2. ToSet(h.a.ent) = {}
        BY <4>1 DEF ToSet
      <4> QED
        BY <4>2 DEF NamesIn
    <3>2. s = State(ibody, 0, FreeBlock(c.bl, c.b), "EOK")
      BY <1>4, <1>7, <2>4, Zenon
    <3> DEFINE bl == FreeBlock(c.bl, c.b)
    <3> HIDE DEF bl
    <3>3. Reading(State(ibody, 0, bl, "EOK"), n, NoValue)
      BY <1>3, <2>2, <3>1, BlockCut
    <3>4. s.err = "EOK"
      BY <3>2, StateParts
    <3> QED
      BY <3>2, <3>3, <3>4, Zenon DEF Removal, s, bl
  <2>5. CASE g.a.ent # <<>>
    <3>1. s = State(ibody, c.b, put, "EOK")
      BY <1>4, <1>7, <2>5, Zenon
    <3> HIDE DEF put
    <3>2. c.b # 0 /\ put[c.b].a = h.a
      BY <1>7, <2>1, <2>3
    <3>3. Reading(State(ibody, c.b, put, "EOK"), n, NoValue)
      BY <1>3, <2>2, <3>2, BlockCut
    <3>4. s.err = "EOK"
      BY <3>1, StateParts
    <3> QED
      BY <3>1, <3>3, <3>4, Zenon DEF Removal, s
  <2> QED
    BY <2>4, <2>5
<1>8. \/ c = State(ibody, acl, blk, "ENOSPC")
      \/ c.err = "EOK" /\ c.b # 0 /\ c.bl[c.b].a = blk[acl].a /\ Referred(c.b, other, c.bl)
  BY CopyHolds, Zenon
<1> QED
  BY <1>5, <1>6, <1>7, <1>8

(* The inductive invariant of the contents: while the inode is there both
   areas are as the program writes them, and attrs is what can be read. *)
CInv ==
  /\ IInv
  /\ live => Readable(ibody, acl, blk) /\ attrs = [n \in Names |-> Reads(ibody, acl, blk, n)]

LEMMA AttrsIs ==
  ASSUME NEW ib, NEW b, NEW bl, Readable(ib, b, bl)
  PROVE  Attrs(ib, bl, b) = [n \in Names |-> Reads(ib, b, bl, n)]
BY GetReads DEF Attrs

(* What can be read is a value, or nothing. *)
LEMMA ReadsValue ==
  ASSUME NEW ib, NEW b, NEW bl, Readable(ib, b, bl)
  PROVE  \A n : Reads(ib, b, bl, n) \in Values \cup {NoValue}
<1>1. Written(ib, "ibody") /\ (b # 0 => Written(bl[b].a, "block"))
  BY DEF Readable
<1>2. \A n \in NamesIn(ib) : Got(ib, n) \in Values
  BY <1>1, GotIs
<1>3. b # 0 => \A n : Got(bl[b].a, n) \in Values \cup {NoValue}
  <2> SUFFICES ASSUME b # 0, NEW n PROVE Got(bl[b].a, n) \in Values \cup {NoValue}
    OBVIOUS
  <2>1. Written(bl[b].a, "block")
    BY <1>1
  <2> DEFINE a == bl[b].a
  <2> HIDE DEF a
  <2>2. Written(a, "block")
    BY <2>1 DEF a
  <2>3. n \in NamesIn(a) => Got(a, n) \in Values
    BY <2>2, GotIs
  <2>4. n \notin NamesIn(a) => Got(a, n) = NoValue
    BY <2>2, GotIs
  <2>5. Got(a, n) \in Values \cup {NoValue}
    BY <2>3, <2>4
  <2> QED
    BY <2>5 DEF a
<1> QED
  BY <1>2, <1>3 DEF Reads

(* The attributes after a call. *)
LEMMA CallReads ==
  ASSUME CInv, live, NEW n \in Names, NEW set, NEW s, Put(n, set, s), NEW v, Reading(s, n, v)
  PROVE  /\ Readable(ibody', acl', blk')
         /\ attrs' = [m \in Names |-> Reads(ibody', acl', blk', m)]
         /\ attrs' = [attrs EXCEPT ![n] = v]
         /\ result' = [name |-> n, val |-> set, err |-> s.err]
         /\ live' = live
<1>1. /\ ibody' = s.ib /\ acl' = s.b /\ blk' = s.bl
      /\ attrs' = Attrs(ibody', blk', acl')
      /\ result' = [name |-> n, val |-> set, err |-> s.err] /\ live' = live
  BY DEF Put
<1>2. Readable(s.ib, s.b, s.bl) /\ \A m \in Names : Reads(s.ib, s.b, s.bl, m) = IF m = n THEN v ELSE Reads(ibody, acl, blk, m)
  BY DEF Reading
<1>3. attrs' = [m \in Names |-> Reads(s.ib, s.b, s.bl, m)]
  BY <1>1, <1>2, AttrsIs
<1>4. attrs' = [m \in Names |-> IF m = n THEN v ELSE Reads(ibody, acl, blk, m)]
  BY <1>2, <1>3
<1>5. attrs = [m \in Names |-> Reads(ibody, acl, blk, m)]
  BY DEF CInv
<1>6. attrs' = [attrs EXCEPT ![n] = v]
  BY <1>4, <1>5
<1> QED
  BY <1>1, <1>2, <1>3, <1>6

(* Every step keeps the invariant and is a step of the map or none of its. *)
LEMMA ContentStep ==
  ASSUME Exclusions \subseteq Avoid, CInv, [Next]_vars
  PROVE  CInv' /\ [Map!Next]_(Map!vars)
<1>1. IInv'
  BY StepKeeps DEF CInv, Kept, Exclusions
<1>2. CASE UNCHANGED vars
  <2>1. CInv'
    BY <1>1, <1>2 DEF vars, CInv, Reads
  <2>2. UNCHANGED Map!vars
    BY <1>2 DEF vars, Map!vars
  <2> QED
    BY <2>1, <2>2
<1>3. ASSUME NEW n \in Names, NEW v \in Values, ext4_setxattr(n, v)
      PROVE  CInv' /\ [Map!Next]_(Map!vars)
  <2>1. live /\ IInv /\ Readable(ibody, acl, blk)
    BY <1>3 DEF ext4_setxattr, CInv
  <2>2. /\ ~Moves(ibody, n) /\ (acl # 0 => ~Moves(blk[acl].a, n)) /\ ~Exact(n, v)
        /\ ~(InBlock(n) /\ NoRoomIn(blk[acl].a, n, v) /\ ~NoRoomIn(ibody, n, v))
        /\ ~(/\ Found(ibody, n) # 0 /\ NoRoomIn(ibody, n, v)
             /\ IF acl = 0 THEN Free(blk) = {} \/ NoRoomIn(EmptyArea("block"), n, v) ELSE NoRoomIn(blk[acl].a, n, v))
        /\ ~(acl # 0 /\ blk[acl].ref > 1)
    <3>1. ~SetAvoided(n, v)
      BY <1>3 DEF ext4_setxattr
    <3> QED
      BY <3>1, Zenon DEF SetAvoided, Exclusions
  <2>3. Unshared
    BY <2>1, <2>2, OwnCount DEF Unshared
  <2>4. PICK luck \in BOOLEAN : Put(n, v, ext4_xattr_set(n, v, luck))
    BY <1>3 DEF ext4_setxattr
  <2> DEFINE s == ext4_xattr_set(n, v, luck)
  <2>5. Outcome(s, n, v)
    <3>1. CASE acl # 0 /\ Found(ibody, n) = 0
      BY <2>1, <2>2, <2>3, <3>1, SetTried
    <3>2. CASE Found(ibody, n) # 0 \/ acl = 0
      BY <2>1, <2>2, <2>3, <3>2, SetUntried
    <3> QED
      BY <3>1, <3>2
  <2> HIDE DEF s
  <2>6. CASE s.err = "EOK" /\ Reading(s, n, v)
    <3>1. /\ Readable(ibody', acl', blk')
          /\ attrs' = [m \in Names |-> Reads(ibody', acl', blk', m)]
          /\ attrs' = [attrs EXCEPT ![n] = v]
          /\ result' = [name |-> n, val |-> v, err |-> s.err] /\ live' = live
      BY <2>1, <2>4, <2>6, CallReads DEF s
    <3>2. CInv'
      BY <1>1, <3>1 DEF CInv
    <3>3. Map!Set(n, v)
      BY <2>6, <3>1 DEF Map!Set
    <3> QED
      BY <3>2, <3>3 DEF Map!Next
  <2>7. CASE s.err = "ENOSPC" /\ Reading(s, n, Reads(ibody, acl, blk, n))
    <3>1. /\ Readable(ibody', acl', blk')
          /\ attrs' = [m \in Names |-> Reads(ibody', acl', blk', m)]
          /\ attrs' = [attrs EXCEPT ![n] = Reads(ibody, acl, blk, n)]
          /\ result' = [name |-> n, val |-> v, err |-> s.err] /\ live' = live
      BY <2>1, <2>4, <2>7, CallReads DEF s
    <3>2. CInv'
      BY <1>1, <3>1 DEF CInv
    <3>3. attrs' = attrs
      BY <2>1, <3>1 DEF CInv
    <3>4. Map!SetFails(n, v)
      BY <2>7, <3>1, <3>3 DEF Map!SetFails
    <3> QED
      BY <3>2, <3>4 DEF Map!Next
  <2> QED
    BY <2>5, <2>6, <2>7 DEF Outcome
<1>4. ASSUME NEW n \in Names, ext4_removexattr(n)
      PROVE  CInv' /\ [Map!Next]_(Map!vars)
  <2>1. live /\ IInv /\ Readable(ibody, acl, blk)
    BY <1>4 DEF ext4_removexattr, CInv
  <2>2. acl # 0 /\ ~Moves(blk[acl].a, n) /\ (InBlock(n) \/ Found(ibody, n) = 0)
    <3>1. ~RemoveAvoided(n)
      BY <1>4 DEF ext4_removexattr
    <3>2. ~(acl # 0 /\ Moves(blk[acl].a, n)) /\ ~(~InBlock(n) /\ (acl = 0 \/ Found(ibody, n) # 0))
      BY <3>1, Zenon DEF RemoveAvoided, Exclusions
    <3>3. InBlock(n) => acl # 0
      BY DEF InBlock
    <3> QED
      BY <3>2, <3>3, Zenon
  <2>3. PICK luck \in BOOLEAN : Put(n, NoValue, ext4_xattr_remove(n, luck))
    BY <1>4 DEF ext4_removexattr
  <2> DEFINE s == ext4_xattr_remove(n, luck)
  <2>4. Removal(s, n)
    BY <2>1, <2>2, RemoveReads
  <2> HIDE DEF s
  <2>5. ASSUME NEW v, Reading(s, n, v)
        PROVE  /\ CInv'
               /\ attrs' = [attrs EXCEPT ![n] = v]
               /\ result' = [name |-> n, val |-> NoValue, err |-> s.err]
    <3>1. /\ Readable(ibody', acl', blk')
          /\ attrs' = [m \in Names |-> Reads(ibody', acl', blk', m)]
          /\ attrs' = [attrs EXCEPT ![n] = v]
          /\ result' = [name |-> n, val |-> NoValue, err |-> s.err] /\ live' = live
      BY <2>1, <2>3, <2>5, CallReads DEF s
    <3> QED
      BY <1>1, <3>1 DEF CInv
  <2>6. attrs = [m \in Names |-> Reads(ibody, acl, blk, m)]
    BY <2>1 DEF CInv
  <2>7. CASE s.err = "EOK" /\ Reading(s, n, NoValue)
    <3>1. CInv' /\ attrs' = [attrs EXCEPT ![n] = NoValue] /\ result' = [name |-> n, val |-> NoValue, err |-> s.err]
      BY <2>5, <2>7
    <3>2. Map!Remove(n)
      BY <2>7, <3>1 DEF Map!Remove
    <3> QED
      BY <3>1, <3>2 DEF Map!Next
  <2>8. CASE s.err = "ENODATA" /\ Reads(ibody, acl, blk, n) = NoValue /\ Reading(s, n, NoValue)
    <3>1. CInv' /\ attrs' = [attrs EXCEPT ![n] = NoValue] /\ result' = [name |-> n, val |-> NoValue, err |-> s.err]
      BY <2>5, <2>8
    <3>2. attrs[n] = NoValue /\ attrs' = attrs
      BY <2>6, <2>8, <3>1
    <3>3. Map!RemoveFails(n)
      BY <2>8, <3>1, <3>2 DEF Map!RemoveFails
    <3> QED
      BY <3>1, <3>3 DEF Map!Next
  <2>9. CASE s.err = "ENOSPC" /\ Reading(s, n, Reads(ibody, acl, blk, n))
    <3>1. CInv' /\ attrs' = [attrs EXCEPT ![n] = Reads(ibody, acl, blk, n)]
          /\ result' = [name |-> n, val |-> NoValue, err |-> s.err]
      BY <2>5, <2>9
    <3>2. attrs' = attrs
      BY <2>6, <3>1
    <3>3. Map!RemoveFails(n)
      BY <2>9, <3>1, <3>2 DEF Map!RemoveFails
    <3> QED
      BY <3>1, <3>3 DEF Map!Next
  <2> QED
    BY <2>4, <2>7, <2>8, <2>9 DEF Removal
<1>5. ASSUME FreeInode
      PROVE  CInv' /\ [Map!Next]_(Map!vars)
  <2>1. CInv'
    BY <1>1, <1>5 DEF FreeInode, CInv
  <2>2. UNCHANGED Map!vars
    BY <1>5 DEF FreeInode, Map!vars
  <2> QED
    BY <2>1, <2>2
<1> QED
  BY <1>2, <1>3, <1>4, <1>5 DEF Next

(* The volumes the runs start with. *)
LEMMA ContentInit ==
  ASSUME Init
  PROVE  CInv /\ Map!Init
<1>1. PICK im \in Images : ibody = im.ibody /\ acl = im.acl /\ other = im.other /\ blk = im.blk
  BY DEF Init
<1>2. Readable(ibody, acl, blk)
  BY <1>1, XattrVolume
<1>3. attrs = [n \in Names |-> Reads(ibody, acl, blk, n)]
  BY <1>2, AttrsIs DEF Init
<1>4. CInv
  BY <1>2, <1>3, InitReferred DEF CInv
<1>5. Map!Init
  <2>1. \A n : Reads(ibody, acl, blk, n) \in Values \cup {NoValue}
    BY <1>2, ReadsValue
  <2> QED
    BY <1>3, <2>1 DEF Map!Init
<1> QED
  BY <1>4, <1>5

(* What is read of an attribute is what was set last, whatever the calls
   moved between the inode and the block or inside them, and a call that
   fails changes nothing that can be read: ext4_xattr_set and
   ext4_xattr_remove on every path, except for the inputs of which each
   exclusion names a deviation. *)
THEOREM AttributesKept ==
  ASSUME Exclusions \subseteq Avoid
  PROVE  Spec => AttrSpec
<1>1. Init => CInv /\ Map!Init
  BY ContentInit
<1>2. CInv /\ [Next]_vars => CInv' /\ [Map!Next]_(Map!vars)
  BY ContentStep
<1> QED
  BY <1>1, <1>2, PTL DEF Spec, AttrSpec, Map!Spec

(* The areas of an inode can be read. *)
LEMMA ReadableSound ==
  ASSUME CInv
  PROVE  AreasSound
<1> SUFFICES ASSUME live PROVE AreasSound
  BY DEF AreasSound
<1> DEFINE B == blk[acl].a
           P(a) == [k \in 1 .. Len(a.ent) |-> a.ent[k].n]
           p == P(ibody)
           q == IF acl # 0 THEN P(B) ELSE <<>>
           Words(e) == e.offs .. e.offs + e.len - 1
<1>1. /\ Written(ibody, "ibody") /\ Valid(ibody)
      /\ acl # 0 => Written(B, "block") /\ Valid(B) /\ NamesIn(ibody) \cap NamesIn(B) = {}
  BY ValidIs DEF CInv, Readable
<1>2. ASSUME NEW a, NEW kind \in {"ibody", "block"}, Written(a, kind)
      PROVE  /\ Len(P(a)) = Len(a.ent) /\ Len(a.ent) \in Nat /\ P(a) \in Seq(Names)
             /\ \A k, l \in 1 .. Len(P(a)) : P(a)[k] = P(a)[l] => k = l
             /\ NamesIn(a) = {P(a)[k] : k \in 1 .. Len(P(a))}
  <2>1. Len(a.ent) \in Nat /\ \A k \in 1 .. Len(a.ent) : a.ent[k] \in ToSet(a.ent) /\ a.ent[k] \in Entries
    BY <1>2, WrittenParts, EntriesOf
  <2>2. \A k, l \in 1 .. Len(a.ent) : a.ent[k].n = a.ent[l].n => k = l
    BY <1>2, EntriesOf
  <2>3. \A e \in ToSet(a.ent) : \E k \in 1 .. Len(a.ent) : a.ent[k] = e
    BY <1>2, PositionsOf, Zenon
  <2>4. \A k \in 1 .. Len(a.ent) : a.ent[k].n \in Names
    BY <2>1 DEF Entries
  <2>5. P(a) \in [1 .. Len(a.ent) -> Names]
    BY <2>4
  <2>6. P(a) \in Seq(Names) /\ Len(P(a)) = Len(a.ent)
    BY <2>1, <2>5
  <2>7. NamesIn(a) = {a.ent[k].n : k \in 1 .. Len(a.ent)}
    BY <2>1, <2>3 DEF NamesIn
  <2> QED
    BY <2>1, <2>2, <2>6, <2>7
<1>3. ASSUME NEW a, NEW kind \in {"ibody", "block"}, Written(a, kind)
      PROVE  \A i, j \in 1 .. Len(a.ent) : i # j => Words(a.ent[i]) \cap Words(a.ent[j]) = {}
  <2>1. \A k \in 1 .. Len(a.ent) : a.ent[k] \in ToSet(a.ent) /\ a.ent[k] \in Entries
    BY <1>3, EntriesOf
  <2>2. \A k, l \in 1 .. Len(a.ent) : a.ent[k].n = a.ent[l].n => k = l
    BY <1>3, EntriesOf
  <2>3. \A e, f \in ToSet(a.ent) : e # f => e.len = 0 \/ f.len = 0 \/ e.offs + e.len <= f.offs \/ f.offs + f.len <= e.offs
    BY <1>3 DEF Written, Packed
  <2> TAKE i, j \in 1 .. Len(a.ent)
  <2> HAVE i # j
  <2> DEFINE e == a.ent[i]
             f == a.ent[j]
  <2>4. e # f /\ e \in ToSet(a.ent) /\ f \in ToSet(a.ent) /\ e \in Entries /\ f \in Entries
    BY <2>1, <2>2
  <2> HIDE DEF e, f
  <2>5. e.len = 0 \/ f.len = 0 \/ e.offs + e.len <= f.offs \/ f.offs + f.len <= e.offs
    BY <2>3, <2>4
  <2>6. e.offs \in Nat /\ e.len \in Nat /\ f.offs \in Nat /\ f.len \in Nat
    BY <2>4 DEF Entries
  <2>7. Words(e) \cap Words(f) = {}
    BY <2>5, <2>6
  <2> QED
    BY <2>7 DEF e, f
<1>4. /\ p \in Seq(Names) /\ (\A k, l \in 1 .. Len(p) : p[k] = p[l] => k = l)
      /\ NamesIn(ibody) = {p[k] : k \in 1 .. Len(p)}
  BY <1>1, <1>2
<1>5. /\ q \in Seq(Names) /\ (\A k, l \in 1 .. Len(q) : q[k] = q[l] => k = l)
      /\ (IF acl = 0 THEN {} ELSE NamesIn(B)) = {q[k] : k \in 1 .. Len(q)}
  <2>1. CASE acl = 0
    BY <2>1
  <2>2. CASE acl # 0
    <3>1. Written(B, "block")
      BY <1>1, <2>2
    <3> DEFINE b == B
               t == P(b)
    <3>2. Written(b, "block")
      BY <3>1
    <3> HIDE DEF b
    <3>3. t \in Seq(Names) /\ (\A k, l \in 1 .. Len(t) : t[k] = t[l] => k = l)
          /\ NamesIn(b) = {t[k] : k \in 1 .. Len(t)}
      BY <1>2, <3>2
    <3>4. q = t
      BY <2>2 DEF b
    <3> HIDE DEF q, t
    <3> QED
      BY <2>2, <3>3, <3>4 DEF b
  <2> QED
    BY <2>1, <2>2
<1>6. ext4_xattr_list(ibody, blk, acl) = p \o q
  BY <1>1, Zenon DEF ext4_xattr_list
<1>7. IsInjective(p \o q) /\ ToSet(p \o q) = NamesIn(ibody) \cup (IF acl = 0 THEN {} ELSE NamesIn(B))
  <2>1. NamesIn(ibody) \cap (IF acl = 0 THEN {} ELSE NamesIn(B)) = {}
    BY <1>1
  <2> DEFINE D == IF acl = 0 THEN {} ELSE NamesIn(B)
  <2> HIDE DEF p, q, D
  <2>2. p \in Seq(Names) /\ q \in Seq(Names) /\ NamesIn(ibody) \cap D = {} /\ D = {q[k] : k \in 1 .. Len(q)}
    BY <1>4, <1>5, <2>1 DEF D
  <2>3. /\ p \o q \in Seq(Names) /\ Len(p \o q) = Len(p) + Len(q) /\ DOMAIN (p \o q) = 1 .. Len(p) + Len(q)
        /\ \A k \in 1 .. Len(p) + Len(q) : (p \o q)[k] = IF k <= Len(p) THEN p[k] ELSE q[k - Len(p)]
    BY <2>2, ConcatProperties
  <2>4. Len(p) \in Nat /\ Len(q) \in Nat
    BY <2>2
  <2>5. IsInjective(p \o q)
    <3>1. \A k, l \in 1 .. Len(p) + Len(q) : (p \o q)[k] = (p \o q)[l] => k = l
      <4> TAKE k, l \in 1 .. Len(p) + Len(q)
      <4>1. CASE k <= Len(p) /\ l <= Len(p)
        BY <1>4, <2>3, <2>4, <4>1
      <4>2. CASE k > Len(p) /\ l > Len(p)
        <5>1. k - Len(p) \in 1 .. Len(q) /\ l - Len(p) \in 1 .. Len(q)
          BY <2>4, <4>2
        <5>2. (p \o q)[k] = q[k - Len(p)] /\ (p \o q)[l] = q[l - Len(p)]
          BY <2>3, <2>4, <4>2
        <5>3. q[k - Len(p)] = q[l - Len(p)] => k - Len(p) = l - Len(p)
          BY <1>5, <5>1
        <5> QED
          BY <2>4, <5>2, <5>3
      <4>3. ASSUME NEW x \in 1 .. Len(p), NEW y \in 1 .. Len(p) + Len(q), y > Len(p)
            PROVE  (p \o q)[x] # (p \o q)[y]
        <5>1. y - Len(p) \in 1 .. Len(q) /\ x \in 1 .. Len(p) + Len(q) /\ x <= Len(p)
          BY <2>4, <4>3
        <5>2. (p \o q)[x] = p[x] /\ (p \o q)[y] = q[y - Len(p)]
          BY <2>3, <2>4, <4>3, <5>1
        <5>3. p[x] \in NamesIn(ibody) /\ q[y - Len(p)] \in D
          BY <1>4, <2>2, <5>1
        <5> QED
          BY <2>2, <5>2, <5>3
      <4> QED
        BY <2>4, <4>1, <4>2, <4>3
    <3> QED
      BY <2>3, <3>1 DEF IsInjective
  <2>6. ToSet(p \o q) = NamesIn(ibody) \cup D
    <3>1. ToSet(p \o q) = {(p \o q)[k] : k \in 1 .. Len(p) + Len(q)}
      BY <2>3 DEF ToSet
    <3>2. ToSet(p \o q) \subseteq NamesIn(ibody) \cup D
      <4> SUFFICES ASSUME NEW k \in 1 .. Len(p) + Len(q) PROVE (p \o q)[k] \in NamesIn(ibody) \cup D
        BY <3>1
      <4>1. CASE k <= Len(p)
        BY <1>4, <2>3, <2>4, <4>1
      <4>2. CASE k > Len(p)
        <5>1. k - Len(p) \in 1 .. Len(q)
          BY <2>4, <4>2
        <5>2. (p \o q)[k] = q[k - Len(p)]
          BY <2>3, <2>4, <4>2
        <5> QED
          BY <2>2, <5>1, <5>2
      <4> QED
        BY <2>4, <4>1, <4>2
    <3>3. \A k \in 1 .. Len(p) : p[k] \in ToSet(p \o q)
      <4> TAKE k \in 1 .. Len(p)
      <4>1. k \in 1 .. Len(p) + Len(q) /\ (p \o q)[k] = p[k]
        BY <2>3, <2>4
      <4> QED
        BY <3>1, <4>1
    <3>4. \A k \in 1 .. Len(q) : q[k] \in ToSet(p \o q)
      <4> TAKE k \in 1 .. Len(q)
      <4>1. k + Len(p) \in 1 .. Len(p) + Len(q) /\ ~(k + Len(p) <= Len(p)) /\ (k + Len(p)) - Len(p) = k
        BY <2>4
      <4>2. (p \o q)[k + Len(p)] = q[k]
        BY <2>3, <4>1
      <4> QED
        BY <3>1, <4>1, <4>2
    <3> QED
      BY <1>4, <2>2, <3>2, <3>3, <3>4
  <2> QED
    BY <2>5, <2>6 DEF D
<1>8. NamesIn(ibody) \cup (IF acl = 0 THEN {} ELSE NamesIn(B)) = {n \in Names : attrs[n] # NoValue}
  <2>1. NamesIn(ibody) \subseteq Names /\ (acl # 0 => NamesIn(B) \subseteq Names)
    BY <1>1, WrittenParts
  <2>2. \A n \in Names : attrs[n] = Reads(ibody, acl, blk, n)
    BY DEF CInv
  <2>3. \A n \in NamesIn(ibody) : Got(ibody, n) # NoValue
    BY <1>1, GotIs, XattrAssumption
  <2>4. acl # 0 => \A n : n \in NamesIn(B) <=> Got(B, n) # NoValue
    <3> SUFFICES ASSUME acl # 0, NEW n PROVE n \in NamesIn(B) <=> Got(B, n) # NoValue
      OBVIOUS
    <3> DEFINE b == B
    <3>1. Written(b, "block")
      BY <1>1
    <3> HIDE DEF b
    <3>2. n \in NamesIn(b) => Got(b, n) \in Values
      BY <3>1, GotIs
    <3>3. n \notin NamesIn(b) => Got(b, n) = NoValue
      BY <3>1, GotIs
    <3>4. n \in NamesIn(b) <=> Got(b, n) # NoValue
      BY <3>2, <3>3, XattrAssumption
    <3> QED
      BY <3>4 DEF b
  <2> HIDE DEF B
  <2> QED
    BY <2>1, <2>2, <2>3, <2>4 DEF Reads, B
<1>9. \A a \in {ibody} \cup {blk[b].a : b \in {acl} \ {0}} :
        /\ Valid(a)
        /\ \A i, j \in 1 .. Len(a.ent) : i # j => Words(a.ent[i]) \cap Words(a.ent[j]) = {}
  <2> TAKE a \in {ibody} \cup {blk[b].a : b \in {acl} \ {0}}
  <2>1. a = ibody \/ (acl # 0 /\ a = B)
    OBVIOUS
  <2>2. Valid(a)
    BY <1>1, <2>1
  <2>3. Written(a, "ibody") \/ Written(a, "block")
    BY <1>1, <2>1
  <2> HIDE DEF Words
  <2> QED
    BY <1>3, <2>2, <2>3
<1> HIDE DEF p, q, B
<1> QED
  BY <1>6, <1>7, <1>8, <1>9 DEF AreasSound

(* Both areas stay readable, whatever was written to them and moved in them:
   ext4_xattr_is_ibody_valid and _is_block_valid hold of them,
   ext4_xattr_list gives each attribute once, and no two values share a word
   (ext4_xattr_set_entry), except for the inputs of which each exclusion
   names a deviation. *)
THEOREM AreasReadable ==
  ASSUME Exclusions \subseteq Avoid
  PROVE  Spec => []AreasSound
<1>1. Init => CInv
  BY ContentInit
<1>2. CInv /\ [Next]_vars => CInv'
  BY ContentStep
<1>3. CInv => AreasSound
  BY ReadableSound
<1> QED
  BY <1>1, <1>2, <1>3, PTL DEF Spec
=============================================================================
