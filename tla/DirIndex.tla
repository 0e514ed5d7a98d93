------------------------------ MODULE DirIndex ------------------------------
(***************************************************************************)
(* The blocks of a directory and the hash index over them (ext4_dir.c,     *)
(* ext4_dir_idx.c) as operators on a record                                *)
(*                                                                         *)
(*   d.indexed  the inode has the flag of an index                         *)
(*   d.blk      the blocks; logical block i is d.blk[i + 1]                *)
(*   d.levels   levels of index nodes below the root, 0 or 1               *)
(*   d.quota    how many blocks can still be appended                      *)
(*                                                                         *)
(* Block 0 of an indexed directory is the root of the index.  An index     *)
(* block is a sequence of entries with the least hash of the names they    *)
(* lead to and a block; the hash of the first entry is not used.  A path   *)
(* holds the index block and the position for each level.                  *)
(***************************************************************************)
EXTENDS DirBlock

CONSTANTS
  Hash,       \* of each name, an even number
  RootLimit,  \* entries of the root of an index
  NodeLimit   \* entries of another index block

ASSUME DirIndexAssumption ==
  /\ \A n \in Names : Hash[n] \in Nat /\ Hash[n] % 2 = 0
  /\ RootLimit \in Nat \ {0, 1} /\ NodeLimit \in Nat \ {0} /\ NodeLimit > RootLimit

Leaf(cells) == [kind |-> "leaf", cell |-> cells, ent |-> <<>>]
IndexBlock(ent) == [kind |-> "index", cell |-> <<>>, ent |-> ent]
IndexEntry(h, b) == [hash |-> h, blk |-> b]

Cells(d, b) == d.blk[b + 1].cell
Index(d, b) == d.blk[b + 1].ent
WithCells(d, b, cells) == [d EXCEPT !.blk[b + 1].cell = cells]
WithIndex(d, b, ent) == [d EXCEPT !.blk[b + 1].ent = ent]
Blocks(d) == 0 .. Len(d.blk) - 1

(* ext4_fs_append_inode_dblk: the block behind the last one. *)
Appended(d, block) == [d EXCEPT !.blk = Append(@, block), !.quota = @ - 1]

Done(d, err) == [d |-> d, err |-> err]

(* What an iterator sees at an offset of a block: an index block is one
   record, which is empty but in the root. *)
CellAt(d, b, o) ==
  IF d.blk[b + 1].kind = "leaf" THEN Cells(d, b)[o]
  ELSE Record(IF b = 0 THEN Dots ELSE NoName, BSize)

(* A new directory: linear, or as ext4_dir_dx_init makes it. *)
NewLinear == [indexed |-> FALSE, levels |-> 0, quota |-> 0, blk |-> <<Leaf(BlockOf(Dots))>>]
ext4_dir_dx_init == [indexed |-> TRUE, levels |-> 0, quota |-> 0,
                     blk |-> <<IndexBlock(<<IndexEntry(0, 1)>>), Leaf(EmptyBlock)>>]

(***************************************************************************)
(* Searching the index                                                     *)
(***************************************************************************)
(* The last entry whose hash is not greater; the first has none. *)
Position(ent, h) == Max({1} \cup {k \in 2 .. Len(ent) : ent[k].hash <= h})

At(d, p, k) == Index(d, p[k].blk)[p[k].at]
LeafOf(d, p) == At(d, p, Len(p)).blk

ext4_dir_dx_get_leaf(d, h) ==
  LET Step(b) == [blk |-> b, at |-> Position(Index(d, b), h)]
      Below(root) == IF d.levels = 0 THEN <<root>>
                     ELSE <<root, Step(Index(d, 0)[root.at].blk)>>
  IN  Below(Step(0))

(* The path to the leaf behind this one, if it may hold names of the same
   hash; else the empty path. *)
ext4_dir_dx_next_block(d, p, h) ==
  LET up == {k \in 1 .. Len(p) : p[k].at < Len(Index(d, p[k].blk))}
      Next(k) == Index(d, p[k].blk)[p[k].at + 1]
      Moved(k) == [i \in 1 .. Len(p) |->
        IF i < k THEN p[i] ELSE IF i = k THEN [p[k] EXCEPT !.at = @ + 1]
        ELSE [blk |-> Next(k).blk, at |-> 1]]
      Follow(k) == IF Next(k).hash \div 2 # h \div 2 THEN <<>> ELSE Moved(k)
  IN  IF up = {} THEN <<>> ELSE Follow(Max(up))

NotFound == [b |-> 0, o |-> 0]

ext4_dir_dx_find_entry(d, n) ==
  LET In(b) == [b |-> b, o |-> ext4_dir_find_in_block(Cells(d, b), n)]
      Look(r, p) == IF r.o # 0 THEN [r |-> r, p |-> <<>>]
                    ELSE [r |-> NotFound, p |-> ext4_dir_dx_next_block(d, p, Hash[n])]
      walk[k \in 0 .. Len(d.blk)] ==
        IF k = 0 THEN [r |-> NotFound, p |-> ext4_dir_dx_get_leaf(d, Hash[n])]
        ELSE LET prev == walk[k - 1] IN
             IF prev.p = <<>> THEN prev ELSE Look(In(LeafOf(d, prev.p)), prev.p)
  IN  walk[Len(d.blk)].r

(* The entry with the name: its block and offset, offset 0 for ENOENT. *)
ext4_dir_find_entry(d, n) ==
  LET Hits == {b \in Blocks(d) : ext4_dir_find_in_block(Cells(d, b), n) # 0}
      First(bs) == IF bs = {} THEN NotFound
                   ELSE [b |-> Min(bs), o |-> ext4_dir_find_in_block(Cells(d, Min(bs)), n)]
  IN  IF d.indexed THEN ext4_dir_dx_find_entry(d, n) ELSE First(Hits)

(***************************************************************************)
(* Growing the index                                                       *)
(***************************************************************************)
ext4_dir_dx_insert_entry(d, b, at, h, blk) ==
  WithIndex(d, b, InsertAt(Index(d, b), at + 1, IndexEntry(h, blk)))

Grown(d, p, err) == [d |-> d, p |-> p, err |-> err]

(* ext4_dir_dx_split_index: a full root gets a level of nodes below it, a
   full node is cut in two if the root has room for one more.  The path
   leads to the same leaf as before. *)
ext4_dir_dx_split_index(d, p) ==
  LET k == Len(p)
      ent == Index(d, p[k].blk)
      new == Len(d.blk)
      left == Len(ent) \div 2
      Deeper ==
        Grown([WithIndex(Appended(d, IndexBlock(ent)), 0, <<IndexEntry(0, new)>>)
                 EXCEPT !.levels = 1],
              <<[blk |-> 0, at |-> 1], [blk |-> new, at |-> p[1].at]>>, "EOK")
      Halves == WithIndex(Appended(d, IndexBlock(SubSeq(ent, left + 1, Len(ent)))),
                          p[2].blk, SubSeq(ent, 1, left))
      Wider ==
        Grown(ext4_dir_dx_insert_entry(Halves, 0, p[1].at, ent[left + 1].hash, new),
              [p EXCEPT ![2] = IF @.at > left THEN [blk |-> new, at |-> @.at - left] ELSE @],
              "EOK")
  IN  CASE Len(ent) < (IF k = 1 THEN RootLimit ELSE NodeLimit) -> Grown(d, p, "EOK")
        [] d.quota = 0 \/ (k > 1 /\ Len(Index(d, 0)) = RootLimit) -> Grown(d, p, "ENOSPC")
        [] k = 1 -> Deeper
        [] OTHER -> Wider

(* The records packed one behind the other, the last one up to the end. *)
Packed(blk, ns) ==
  LET packed[i \in 0 .. Len(ns)] ==
        IF i = 0 THEN [blk |-> blk, o |-> 1]
        ELSE LET prev == packed[i - 1]
                 len == IF i = Len(ns) THEN BSize - prev.o + 1 ELSE Needed(ns[i])
             IN  [blk |-> ext4_dir_write_entry(prev.blk, prev.o, len, ns[i]), o |-> prev.o + len]
  IN  packed[Len(ns)].blk

(* The names in a block by their hash, those of the same hash as they come;
   and how many of them make up the first half of the block. *)
Sorted(blk) ==
  LET os == {o \in ToSet(Offsets(blk)) : blk[o].n # NoName}
      by == SetToSortSeq(os, LAMBDA a, b :
              Hash[blk[a].n] < Hash[blk[b].n] \/ (Hash[blk[a].n] = Hash[blk[b].n] /\ a < b))
  IN  [i \in 1 .. Len(by) |-> blk[by[i]].n]
Size(ns) == FoldLeft(LAMBDA s, n : s + Needed(n), 0, ns)
Mid(ns) ==
  LET over == {i \in 1 .. Len(ns) : Size(SubSeq(ns, 1, i)) > BSize \div 2}
  IN  IF over = {} THEN 0 ELSE Min(over) - 1

(* Mutant: the key of the new leaf does not tell that its names continue
   those of the leaf before. *)
NeverContinued(ns, mid) == Hash[ns[mid + 1]]

(* The key of the new leaf is odd if its first hash also ends the old one;
   with nothing left of the middle the key is 0. *)
NewKey(ns, mid) ==
  IF mid = 0 THEN 0
  ELSE Hash[ns[mid + 1]] + (IF Hash[ns[mid]] = Hash[ns[mid + 1]] THEN 1 ELSE 0)

(* ext4_dir_dx_split_data: the upper half of the names, by hash, goes to a
   new leaf.  If all of them fit in half a block the middle stays 0: the old
   leaf keeps them, and the new one gets them, too. *)
ext4_dir_dx_split_data(d, p) ==
  LET b == LeafOf(d, p)
      Move(ns, mid) ==
        ext4_dir_dx_insert_entry(
          Appended(WithCells(d, b, Packed(Cells(d, b), SubSeq(ns, 1, mid))),
                   Leaf(Packed(EmptyBlock, SubSeq(ns, mid + 1, Len(ns))))),
          p[Len(p)].blk, p[Len(p)].at, NewKey(ns, mid), Len(d.blk))
      Halve(ns) == Move(ns, Mid(ns))
  IN  IF d.quota = 0 THEN Done(d, "ENOSPC") ELSE Done(Halve(Sorted(Cells(d, b))), "EOK")

(* The name goes to the leaf its hash leads to.  After a split the result of
   the second attempt is not looked at.  When the index cannot be split, the
   way out releases target_block, which is not set yet: "UNSET". *)
ext4_dir_dx_add_entry(d, n) ==
  LET Put(g, b, cells) == IF cells = <<>> THEN g ELSE WithCells(g, b, cells)
      Try(g, b) == Put(g, b, ext4_dir_try_insert_entry(Cells(g, b), n))
      Chosen(g, p, next) == IF Hash[n] >= next.hash THEN next.blk ELSE LeafOf(g, p)
      After(s, p) ==
        IF s.err # "EOK" THEN s
        ELSE Done(Try(s.d, Chosen(s.d, p, Index(s.d, p[Len(p)].blk)[p[Len(p)].at + 1])), "EOK")
      Insert(g, p, cells) ==
        IF cells # <<>> THEN Done(WithCells(g, LeafOf(g, p), cells), "EOK")
        ELSE After(ext4_dir_dx_split_data(g, p), p)
      Into(r) ==
        IF r.err # "EOK" THEN Done(r.d, "UNSET")
        ELSE Insert(r.d, r.p, ext4_dir_try_insert_entry(Cells(r.d, LeafOf(r.d, r.p)), n))
  IN  Into(ext4_dir_dx_split_index(d, ext4_dir_dx_get_leaf(d, Hash[n])))

(***************************************************************************)
(* The directory                                                           *)
(***************************************************************************)
(* The first block with room, else a new one. *)
AddLinear(d, n) ==
  LET fit == {b \in Blocks(d) : ext4_dir_try_insert_entry(Cells(d, b), n) # <<>>}
      Into(b) == WithCells(d, b, ext4_dir_try_insert_entry(Cells(d, b), n))
  IN  IF fit # {} THEN Done(Into(Min(fit)), "EOK")
      ELSE IF d.quota = 0 THEN Done(d, "ENOSPC")
      ELSE Done(Appended(d, Leaf(BlockOf(n))), "EOK")

ext4_dir_add_entry(d, n) == IF d.indexed THEN ext4_dir_dx_add_entry(d, n) ELSE AddLinear(d, n)

ext4_dir_remove_entry(d, n) ==
  LET Gone(r) ==
        IF r.o = 0 THEN Done(d, "ENOENT")
        ELSE Done(WithCells(d, r.b, RemoveRecord(Cells(d, r.b), r.o)), "EOK")
  IN  Gone(ext4_dir_find_entry(d, n))

(***************************************************************************)
(* Reading: an iterator stands at an offset of a block, or at the end      *)
(***************************************************************************)
Pos(b, o) == [b |-> b, o |-> o]
AtEnd(d, x) == x.b >= Len(d.blk)
Skip(d, x) ==
  LET o == x.o + CellAt(d, x.b, x.o).len IN
  IF o > BSize THEN Pos(x.b + 1, o - BSize) ELSE Pos(x.b, o)

(* The next record in use; a record of no length leads nowhere. *)
ext4_dir_iterator_next(d, x) ==
  LET End == Pos(Len(d.blk), 1)
      walk[k \in 0 .. Len(d.blk) * BSize] ==
        IF k = 0 THEN Skip(d, x)
        ELSE LET y == walk[k - 1] IN
             IF AtEnd(d, y) \/ CellAt(d, y.b, y.o).n # NoName THEN y ELSE Skip(d, y)
      stop == walk[Len(d.blk) * BSize]
  IN  IF AtEnd(d, stop) \/ CellAt(d, stop.b, stop.o).n = NoName THEN End ELSE stop
=============================================================================
