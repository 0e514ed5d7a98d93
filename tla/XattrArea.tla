----------------------------- MODULE XattrArea ------------------------------
(***************************************************************************)
(* An area of extended attributes (ext4_xattr.c): the entries grow from    *)
(* its start, the values from its end.  Sizes and offsets are counted in   *)
(* words of four bytes.  An area is a record                               *)
(*                                                                         *)
(*   a.kind   "ibody" behind the inode, or "block"                         *)
(*   a.ent    the entries: name, offset and length of the value            *)
(*   a.cell   the words of the values: a value and which of its words      *)
(***************************************************************************)
EXTENDS Integers, SequencesExt

CONSTANTS
  Names, EntryLen,   \* EXT4_XATTR_LEN of each name
  Values, ValueLen,  \* EXT4_XATTR_SIZE of each value
  Cap                \* for each kind the words of the area

NoValue == "novalue"   \* a removal; also what is read where no value is

(* Offsets count from the first entry of the inode, and from the header of
   a block, which has 8 words. *)
FirstEntry(kind) == IF kind = "block" THEN 8 ELSE 0

ASSUME XattrAssumption ==
  /\ IsFiniteSet(Names)
  /\ \A n \in Names : EntryLen[n] \in Nat \ {0}
  /\ \A v \in Values : ValueLen[v] \in Nat
  /\ \A v, w \in Values : ValueLen[v] = 0 /\ ValueLen[w] = 0 => v = w
  /\ \A k \in {"ibody", "block"} : Cap[k] \in Nat
  /\ FirstEntry("block") < Cap["block"]
  /\ NoValue \notin Values

Blank == <<"blank", 0>>
EmptyArea(kind) == [kind |-> kind, ent |-> <<>>, cell |-> [o \in 0 .. Cap[kind] - 1 |-> Blank]]

Entry(n, offs, len) == [n |-> n, offs |-> offs, len |-> len]

(* The words up to the entry that ends the list (no name occurs twice), and
   the first value. *)
NamesIn(a) == {e.n : e \in ToSet(a.ent)}
Used(a) == FirstEntry(a.kind) + MapThenSumSet(LAMBDA n : EntryLen[n], NamesIn(a))
MinOffs(a, end) == Min({end} \cup {e.offs : e \in {x \in ToSet(a.ent) : x.len # 0}})

(* ext4_xattr_is_block_valid, ext4_xattr_is_ibody_valid; the latter counts
   from the header in front of the first entry, which is one word. *)
Valid(a) ==
  LET shift == IF a.kind = "ibody" THEN 1 ELSE 0
      end == Cap[a.kind] + shift
  IN  /\ \A e \in ToSet(a.ent) : (e.len = 0 => e.offs = 0) /\ e.offs + e.len <= end
      /\ Used(a) + 1 <= Cap[a.kind]
      /\ MinOffs(a, end) - shift >= Used(a) + 1

(* An area as the program writes it: under distinct names there are entries
   whose values lie between the entries and the end, apart from each other. *)
Entries == [n : Names, offs : Nat, len : Nat]
Packed(E, kind, low) ==
  /\ \A e \in E : /\ e \in Entries
                  /\ IF e.len = 0 THEN e.offs = 0
                     ELSE low <= e.offs /\ e.offs + e.len <= Cap[kind]
  /\ \A e, f \in E : e # f =>
       /\ e.n # f.n
       /\ e.len = 0 \/ f.len = 0 \/ e.offs + e.len <= f.offs \/ f.offs + f.len <= e.offs
Stores(cell, e, v) ==
  /\ ValueLen[v] = e.len
  /\ \A i \in 0 .. e.len - 1 : cell[e.offs + i] = <<v, i>>
Written(a, kind) ==
  /\ a = [kind |-> kind, ent |-> a.ent, cell |-> a.cell]
  /\ a.ent \in Seq(Entries) /\ IsInjective(a.ent) /\ DOMAIN a.cell = 0 .. Cap[kind] - 1
  /\ Used(a) < Cap[kind]
  /\ Packed(ToSet(a.ent), kind, Used(a) + 1)
  /\ \A e \in ToSet(a.ent) : \E v \in Values : Stores(a.cell, e, v)

(* The position of the entry with the name, 0 if there is none. *)
ext4_xattr_find_entry(a, n) == Max({0} \cup {i \in 1 .. Len(a.ent) : a.ent[i].n = n})

(* The value of an entry as it is read. *)
ValueAt(a, e) ==
  LET Is(v) == ValueLen[v] = e.len /\
               \A i \in 0 .. e.len - 1 : a.cell[e.offs + i] = <<v, i>>
  IN  IF \E v \in Values : Is(v) THEN CHOOSE v \in Values : Is(v) ELSE "torn"

(* Mutant: the offsets of the values that were moved stay. *)
DropKeepsOffsets(a, i) ==
  LET old == a.ent[i]
      lo == MinOffs(a, Cap[a.kind])
  IN  IF old.offs = 0 THEN a
      ELSE [a EXCEPT !.cell =
              [o \in DOMAIN a.cell |->
                 IF o >= lo + old.len /\ o < old.offs + old.len THEN a.cell[o - old.len]
                 ELSE IF o >= lo /\ o < lo + old.len THEN Blank ELSE a.cell[o]]]

(* The value of entry i is taken out: the values in front of it move up by
   its length, and so does every offset below its own, that of an entry
   without a value included. *)
DropValue(a, i) ==
  LET old == a.ent[i]
      lo == MinOffs(a, Cap[a.kind])
      moved == [o \in DOMAIN a.cell |->
                  IF o >= lo + old.len /\ o < old.offs + old.len THEN a.cell[o - old.len]
                  ELSE IF o >= lo /\ o < lo + old.len THEN Blank ELSE a.cell[o]]
  IN  IF old.offs = 0 THEN a
      ELSE [a EXCEPT
              !.cell = moved,
              !.ent = [k \in 1 .. Len(a.ent) |->
                         IF a.ent[k].offs < old.offs
                         THEN [a.ent[k] EXCEPT !.offs = @ + old.len] ELSE a.ent[k]]]

(* Where the first value is once the value of entry i is gone. *)
LowAfter(a, i) ==
  MinOffs(a, Cap[a.kind]) + (IF i # 0 /\ a.ent[i].offs # 0 THEN a.ent[i].len ELSE 0)

Area(a, err) == [a |-> a, err |-> err]

(* ext4_xattr_set_entry: entry i, which has the name unless it is 0, gets
   the value, or is removed. *)
ext4_xattr_set_entry(a, i, n, v) ==
  LET free == MinOffs(a, Cap[a.kind]) - Used(a) - 1
                + (IF i # 0 THEN a.ent[i].len + EntryLen[n] ELSE 0)
      offs == IF ValueLen[v] = 0 THEN 0 ELSE LowAfter(a, i) - ValueLen[v]
      Filled(c) == [o \in DOMAIN c |->
        IF offs # 0 /\ o >= offs /\ o < offs + ValueLen[v] THEN <<v, o - offs>> ELSE c[o]]
      Put(b) == [b EXCEPT
        !.cell = Filled(@),
        !.ent = IF i # 0 THEN [@ EXCEPT ![i] = Entry(n, offs, ValueLen[v])]
                ELSE Append(@, Entry(n, offs, ValueLen[v]))]
      Gone(b) == [b EXCEPT !.ent = RemoveAt(@, i)]
      Dropped == IF i = 0 THEN a ELSE DropValue(a, i)
  IN  CASE v = NoValue -> Area(IF i = 0 THEN a ELSE Gone(Dropped), "EOK")
        [] v # NoValue /\ free < ValueLen[v] + EntryLen[n] -> Area(a, "ENOSPC")
        [] OTHER -> Area(Put(Dropped), "EOK")
=============================================================================
