------------------------------ MODULE DirBlock ------------------------------
(***************************************************************************)
(* A block of directory entries (ext4_dir.c).  A block is a sequence of    *)
(* BSize cells of the smallest record; a cell holds the record that was    *)
(* last written at its offset.  The entries are the records reached from   *)
(* the first cell by their lengths; a cell that is not reached keeps what  *)
(* it held, and a reader that still points to it reads just that.          *)
(***************************************************************************)
EXTENDS Integers, SequencesExt

CONSTANTS
  BSize,    \* size of a block
  Names,    \* names of children
  RecLen    \* for each name the length of its record

NoName == "none"   \* an entry whose inode is 0
Dots == "dots"     \* the entries "." and "..", which stay

ASSUME DirBlockAssumption ==
  /\ BSize \in Nat \ {0, 1}
  /\ NoName \notin Names /\ Dots \notin Names
  /\ \A n \in Names : RecLen[n] \in 1 .. BSize

Record(n, len) == [n |-> n, len |-> len]
Junk == Record(NoName, 0)

(* ext4_dir_try_insert_entry, required_len and sz. *)
Needed(n) == IF n \in Names THEN RecLen[n] ELSE 1

(* A record of length len with the name n written at offset o: the bytes of
   the name cover what was there. *)
ext4_dir_write_entry(blk, o, len, n) ==
  [i \in 1 .. BSize |->
     IF i = o THEN Record(n, len)
     ELSE IF o < i /\ i < o + Needed(n) THEN Junk
     ELSE blk[i]]

EmptyBlock == [i \in 1 .. BSize |-> IF i = 1 THEN Record(NoName, BSize) ELSE Junk]
BlockOf(n) == ext4_dir_write_entry([i \in 1 .. BSize |-> Junk], 1, BSize, n)

(* The offsets of the records, in order. *)
Offsets(blk) ==
  LET from[o \in 1 .. BSize + 1] ==
        IF o > BSize \/ blk[o].len = 0 THEN <<>> ELSE <<o>> \o from[o + blk[o].len]
  IN  from[1]

(* The offset of the record with the name, 0 if there is none. *)
ext4_dir_find_in_block(blk, n) ==
  Max({0} \cup {o \in ToSet(Offsets(blk)) : blk[o].n = n})

(* Mutant: the record that is split keeps its whole length. *)
InsertNoCut(blk, n) ==
  LET Room(o) == blk[o].len - (IF blk[o].n = NoName THEN 0 ELSE Needed(blk[o].n))
      fit == {o \in ToSet(Offsets(blk)) : Room(o) >= Needed(n)}
      o == Min(fit)
  IN  IF fit = {} THEN <<>>
      ELSE IF blk[o].n = NoName THEN ext4_dir_write_entry(blk, o, blk[o].len, n)
      ELSE ext4_dir_write_entry(blk, o + Needed(blk[o].n), blk[o].len - Needed(blk[o].n), n)

(* The first record with room for the name: one that is not in use is taken
   with its whole length, one in use gives up what it does not need.  The
   empty sequence stands for ENOSPC. *)
ext4_dir_try_insert_entry(blk, n) ==
  LET Room(o) == blk[o].len - (IF blk[o].n = NoName THEN 0 ELSE Needed(blk[o].n))
      fit == {o \in ToSet(Offsets(blk)) : Room(o) >= Needed(n)}
      Split(o, used) ==
        ext4_dir_write_entry([blk EXCEPT ![o].len = used], o + used, blk[o].len - used, n)
      Take(o) == IF blk[o].n = NoName THEN ext4_dir_write_entry(blk, o, blk[o].len, n)
                 ELSE Split(o, Needed(blk[o].n))
  IN  IF fit = {} THEN <<>> ELSE Take(Min(fit))

(* Mutant: the removed record is wiped out with its length. *)
RemoveClears(blk, o) ==
  LET before == {p \in ToSet(Offsets(blk)) : p < o}
      Merged(p) == [blk EXCEPT ![o] = Junk, ![p].len = @ + blk[o].len]
  IN  IF before = {} THEN [blk EXCEPT ![o].n = NoName] ELSE Merged(Max(before))

(* ext4_dir_remove_entry on the block that holds the entry: the record
   before it takes over its length, the first one stays. *)
RemoveRecord(blk, o) ==
  LET before == {p \in ToSet(Offsets(blk)) : p < o}
      Merged(p) == [blk EXCEPT ![o].n = NoName, ![p].len = @ + blk[o].len]
  IN  IF before = {} THEN [blk EXCEPT ![o].n = NoName] ELSE Merged(Max(before))
=============================================================================
