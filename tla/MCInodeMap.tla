----------------------------- MODULE MCInodeMap -----------------------------
(* Instances of InodeMap. *)
EXTENDS InodeMap

Blocks == {4, 7, 8, 9, 11, 13, 16, 17, 20, 22, 24, 26, 28, 29, 31, 33}

Image(kd, sz, t) == [kind |-> kd, size |-> sz, map |-> t @@ NoMap]
Leaf3(ent) == [depth |-> 0, max |-> BlkMax, ent |-> ent]

(* A tree with a full root and full leaves, one extent of it allocated but
   not written; a full root and a leaf with such an extent of three blocks; a
   tree of three levels, a leaf and the node above it full; a root whose first
   extent has a free block in front of it; an empty file. *)
FullTree == Image("extents", 8,
  [root |-> [depth |-> 1, max |-> RootMax, ent |-> <<Index(0, 4), Index(4, 7)>>],
   nodes |-> (4 :> Leaf3(<<Extent(0, 8, 1), Extent(1, 11, 1), Extent(3, 13, 1)>>)) @@
             (7 :> Leaf3(<<Extent(4, 16, Unwritten(2)), Extent(6, 20, 1), Extent(7, 22, 1)>>))])
FullRoot == Image("extents", 6,
  [root |-> [depth |-> 0, max |-> RootMax, ent |-> <<Extent(1, 7, Unwritten(3)), Extent(5, 13, 1)>>]])
LongInLeaf == Image("extents", 4,
  [root |-> [depth |-> 1, max |-> RootMax, ent |-> <<Index(0, 4)>>],
   nodes |-> (4 :> Leaf3(<<Extent(0, 7, Unwritten(3)), Extent(3, 13, 1)>>))])
Deep == Image("extents", 8,
  [root |-> [depth |-> 2, max |-> RootMax, ent |-> <<Index(0, 4)>>],
   nodes |-> (4 :> [Leaf3(<<Index(0, 8), Index(5, 11), Index(7, 13)>>) EXCEPT !.depth = 1]) @@
             (8 :> Leaf3(<<Extent(0, 16, 1), Extent(1, 20, 1), Extent(3, 22, 1)>>)) @@
             (11 :> Leaf3(<<Extent(5, 24, 1)>>)) @@ (13 :> Leaf3(<<Extent(7, 26, 1)>>))])
Late == Image("extents", 4, [root |-> [depth |-> 0, max |-> RootMax, ent |-> <<Extent(2, 29, 1), Extent(3, 33, 1)>>]])
EmptyFile(kd) == Image(kd, 0, <<>>)
(* A full single indirect table, and a double one with one of its two. *)
TwoTables == Image("blockmap", 4,
  [dir |-> (0 :> 4), ind |-> <<7, 8, 0>>,
   tab |-> (7 :> (0 :> 11 @@ 1 :> 13)) @@ (8 :> (0 :> 16 @@ 1 :> 0)) @@ (16 :> (0 :> 17 @@ 1 :> 0))])

AllImages == {FullTree, FullRoot, LongInLeaf, Deep, Late, EmptyFile("extents"), EmptyFile("blockmap"), TwoTables}
AllTargets == [extents |-> 0 .. 7, blockmap |-> {0, 1, 3, 4, 5, 7}]
=============================================================================
