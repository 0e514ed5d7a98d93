---------------------------- MODULE IndirectMap -----------------------------
(***************************************************************************)
(* The classic block map of an inode (ext4_fs.c) as operators on a record  *)
(*                                                                         *)
(*   m.dir  the direct block numbers, from logical block 0                 *)
(*   m.ind  the single, double and triple indirect block                   *)
(*   m.tab  the tables of block numbers, by the block that holds them      *)
(* and the fields of BlockPool.  Block number 0 stands for a hole.         *)
(***************************************************************************)
EXTENDS BlockPool

CONSTANTS
  DirectCount,  \* EXT4_INODE_DIRECT_BLOCK_COUNT (12)
  PerBlock,     \* block numbers in a block (1024 for blocks of 4096 bytes)
  TableGoal     \* the block behind the inode table of the inode's group

ASSUME IndirectAssumption ==
  DirectCount \in Nat \ {0} /\ PerBlock \in Nat \ {0, 1} /\ TableGoal \in Nat \ {0}

inode_blocks_per_level(l) == PerBlock ^ l
inode_block_limits(l) == DirectCount + MapThenSumSet(inode_blocks_per_level, 1 .. l)

(* The level of indirection of a block, 0 for a direct one and 4 for one
   that no level reaches. *)
Level(ib) == Min({4} \cup {l \in 0 .. 3 : ib < inode_block_limits(l)})

(* The entry for the block in the table of level k on its way. *)
Offset(ib, k) ==
  ((ib - inode_block_limits(Level(ib) - 1)) % inode_blocks_per_level(k))
    \div inode_blocks_per_level(k - 1)

Unreadable == -1
NoTable == [i \in 0 .. PerBlock - 1 |-> 0]

(* The tables on the way to a block, from its topmost level down, and at 0
   the block itself; a hole or an unreadable table ends the way. *)
Way(m, ib) ==
  LET l == Level(ib)
      way[k \in 0 .. l] ==
        IF k = l THEN m.ind[l]
        ELSE LET up == way[k + 1] IN
             IF up \in {0, Unreadable} THEN up
             ELSE IF up \in m.bad THEN Unreadable
             ELSE m.tab[up][Offset(ib, k + 1)]
  IN  way

BlockAt(m, ib) ==
  CASE Level(ib) = 0 -> m.dir[ib]
    [] Level(ib) = 4 -> Unreadable
    [] OTHER -> Way(m, ib)[0]

(* The block behind the last one of the file, else behind the inode table. *)
ext4_fs_indirect_find_goal(m, size) ==
  LET Goal(last) ==
        IF last = Unreadable THEN Unreadable ELSE IF last # 0 THEN last + 1 ELSE TableGoal
  IN  Goal(IF size = 0 THEN 0 ELSE BlockAt(m, size - 1))

(* An empty table in a new block; b = 0 if there is none. *)
NewTable(m, goal) ==
  LET Cleared(a) == IF a.b = 0 THEN a ELSE [a EXCEPT !.t.tab = (a.b :> NoTable) @@ @]
  IN  Cleared(ext4_balloc_alloc_block(m, goal))

(* The step from the table of level k to what its entry refers to: the block
   itself is stored at level 1, a missing table is made. *)
SetStep(s, k, ib, fb, goal) ==
  LET off == Offset(ib, k)
      Link(a) == IF a.b = 0 THEN a ELSE [a EXCEPT !.t.tab[s.b][off] = a.b]
  IN  IF s.b = 0 \/ s.b \in s.t.bad THEN [s EXCEPT !.b = 0]
      ELSE IF k = 1 THEN [s EXCEPT !.t.tab[s.b][off] = fb, !.b = fb]
      ELSE IF s.t.tab[s.b][off] # 0 THEN [s EXCEPT !.b = s.t.tab[s.b][off]]
      ELSE Link(NewTable(s.t, goal))

SetTop(m, l, goal) ==
  LET Link(a) == IF a.b = 0 THEN a ELSE [a EXCEPT !.t.ind[l] = a.b]
  IN  IF m.ind[l] # 0 THEN [t |-> m, b |-> m.ind[l]] ELSE Link(NewTable(m, goal))

(* ext4_fs_set_inode_data_block_index: block ib of the inode becomes fb, in
   tables that are made where they are missing; b = 0 if that failed.  Tables
   made before a failure stay where they are linked. *)
ext4_fs_set_inode_data_block_index(m, size, ib, fb) ==
  LET l == Level(ib)
      Walk(goal) ==
        LET way[k \in 0 .. l] ==
              IF k = l THEN SetTop(m, l, goal) ELSE SetStep(way[k + 1], k + 1, ib, fb, goal)
        IN  way[0]
  IN  CASE l = 0 -> [t |-> [m EXCEPT !.dir[ib] = fb], b |-> fb]
        [] l = 4 -> [t |-> m, b |-> 0]
        [] OTHER -> Walk(ext4_fs_indirect_find_goal(m, size))

(* The block leaves its table or the inode and is freed; tables stay. *)
ext4_fs_release_inode_block(m, ib) ==
  LET l == Level(ib)
      Direct(b) == [t |-> ext4_balloc_free_blocks([m EXCEPT !.dir[ib] = 0], {b} \ {0}), ok |-> TRUE]
      Indirect(way) ==
        IF way[0] \in {0, Unreadable} THEN [t |-> m, ok |-> way[0] = 0]
        ELSE [t |-> ext4_balloc_free_blocks(
                      [m EXCEPT !.tab[way[1]][Offset(ib, 1)] = 0], {way[0]}),
              ok |-> TRUE]
  IN  CASE l = 0 -> Direct(m.dir[ib])
        [] l = 4 -> [t |-> m, ok |-> FALSE]
        [] OTHER -> Indirect(Way(m, ib))

(* The tables that ext4_fs_free_inode frees, one walk per indirect block. *)
Tables(m) ==
  LET Below(b) == IF b = 0 THEN {} ELSE {m.tab[b][i] : i \in 0 .. PerBlock - 1} \ {0}
      third == Below(m.ind[3])
  IN  ({m.ind[1], m.ind[2], m.ind[3]} \ {0})
        \cup Below(m.ind[2]) \cup third \cup UNION {Below(b) : b \in third}
=============================================================================
