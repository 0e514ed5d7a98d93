----------------------------- MODULE ExtentTree -----------------------------
(***************************************************************************)
(* The extent tree of an inode (ext4_extent.c) as operators on a record    *)
(*                                                                         *)
(*   t.root   the node kept in the inode                                   *)
(*   t.nodes  the other nodes, by the block that holds them                *)
(* and the fields of BlockPool.                                            *)
(*                                                                         *)
(* A node has its depth, its capacity and its sequence of entries.  An     *)
(* entry has its first logical block lb, the physical block pb and, in a   *)
(* leaf, the 16-bit block_count cnt whose upper half marks an extent that  *)
(* is allocated but not written.  A path holds for every level from the    *)
(* root (level 1) to the leaf the block of the node and the position of    *)
(* the entry; position 0 stands for the null pointer of an empty leaf.     *)
(***************************************************************************)
EXTENDS BlockPool, SequencesExt

CONSTANTS
  RootMax,   \* entries of the node in the inode (4)
  BlkMax,    \* entries of a node in a block (340 for blocks of 4096 bytes)
  InodeGoal  \* ext4_fs_inode_to_goal_block: the number of the inode's group

ASSUME ExtentAssumption ==
  RootMax \in Nat \ {0, 1} /\ BlkMax \in Nat /\ BlkMax > RootMax /\ InodeGoal \in Nat

EXT_INIT_MAX_LEN == 32768
EXT_UNWRITTEN_MAX_LEN == EXT_INIT_MAX_LEN - 1

(* The length and the state of an extent are packed in one 16-bit field. *)
ext4_ext_get_actual_len(e) ==
  IF e.cnt <= EXT_INIT_MAX_LEN THEN e.cnt ELSE e.cnt - EXT_INIT_MAX_LEN
ext4_ext_is_unwritten(e) == e.cnt > EXT_INIT_MAX_LEN
Unwritten(cnt) == IF cnt >= EXT_INIT_MAX_LEN THEN cnt ELSE cnt + EXT_INIT_MAX_LEN
Count(n, unwritten) == IF unwritten THEN Unwritten(n % 65536) ELSE n % 65536

Extent(lb, pb, cnt) == [lb |-> lb, pb |-> pb, cnt |-> cnt]
Index(lb, pb) == [lb |-> lb, pb |-> pb, cnt |-> 0]

ext4_extent_tree_init == [depth |-> 0, max |-> RootMax, ent |-> <<>>]

Node(t, b) == IF b = 0 THEN t.root ELSE t.nodes[b]
WithNode(t, b, n) ==
  IF b = 0 THEN [t EXCEPT !.root = n] ELSE [t EXCEPT !.nodes = (b :> n) @@ @]
WithEntries(t, b, ent) == WithNode(t, b, [Node(t, b) EXCEPT !.ent = ent])
Entries(t, p, k) == Node(t, p[k].blk).ent
At(t, p, k) == Entries(t, p, k)[p[k].at]

(* The nodes kept in the blocks bs are given back. *)
FreeNodes(t, bs) ==
  [ext4_balloc_free_blocks(t, bs)
     EXCEPT !.nodes = Tabulate(LAMBDA b : t.nodes[b], DOMAIN t.nodes \ bs)]

(* ext4_ext_binsearch and ext4_ext_binsearch_idx: the last entry that does
   not start behind the block, or the first one. *)
ext4_ext_binsearch(ent, lb) ==
  IF ent = <<>> THEN 0
  ELSE Max({1} \cup {k \in 1 .. Len(ent) : ent[k].lb <= lb})

(* ext4_find_extent reads one node per level; a node that cannot be read
   ends the call and the path is dropped (<<>>). *)
ext4_find_extent(t, lb) ==
  LET Step(b) == [blk |-> b, at |-> ext4_ext_binsearch(Node(t, b).ent, lb)]
      walk[k \in 1 .. t.root.depth + 1] ==
        IF k = 1 THEN <<Step(0)>>
        ELSE LET p == walk[k - 1] IN
             IF p = <<>> \/ At(t, p, k - 1).pb \in t.bad THEN <<>>
             ELSE Append(p, Step(At(t, p, k - 1).pb))
  IN  walk[t.root.depth + 1]

(* The block that would make the file contiguous, else the leaf itself,
   else the group of the inode. *)
ext4_ext_find_goal(t, p, lb) ==
  LET d == Len(p) IN
  IF p[d].at # 0 THEN At(t, p, d).pb + (lb - At(t, p, d).lb)
  ELSE IF p[d].blk # 0 THEN p[d].blk
  ELSE InodeGoal

(***************************************************************************)
(* Insertion                                                               *)
(***************************************************************************)
Fits(e1, e2) ==
  ext4_ext_get_actual_len(e1) + ext4_ext_get_actual_len(e2) <=
    IF ext4_ext_is_unwritten(e1) THEN EXT_UNWRITTEN_MAX_LEN ELSE EXT_INIT_MAX_LEN
Follows(e1, e2) ==
  LET n == ext4_ext_get_actual_len(e1) IN
  e1.pb + n = e2.pb /\ e1.lb + n = e2.lb
ext4_ext_can_append(ex, new) == Follows(ex, new) /\ Fits(ex, new)
ext4_ext_can_prepend(ex, new) == Follows(new, ex) /\ Fits(ex, new)

Joined(ex, new) ==
  Count(ext4_ext_get_actual_len(ex) + ext4_ext_get_actual_len(new),
        ext4_ext_is_unwritten(ex))

(* The keys on the path above level k become lb, up to the first level where
   the path does not point to the first entry. *)
Rekeyed(t, p, k, lb) ==
  LET up[j \in 1 .. k] ==
        IF j = k THEN t
        ELSE IF \E i \in j + 1 .. k : p[i].at # 1 THEN up[j + 1]
        ELSE LET u == up[j + 1] IN
             WithEntries(u, p[j].blk, [Entries(u, p, j) EXCEPT ![p[j].at].lb = lb])
  IN  up[1]

(* The keys above a leaf follow its first extent. *)
ext4_ext_correct_indexes(t, p) == Rekeyed(t, p, Len(p), Entries(t, p, Len(p))[1].lb)

Inserted(t, p, err) == [t |-> t, p |-> p, err |-> err]

(* Mutant: the keys above the leaf are left as they were. *)
InsertLeafNoKeys(t, p, new, combine) ==
  LET d == Len(p)
      pos == IF p[d].at # 0 /\ new.lb > At(t, p, d).lb THEN p[d].at + 1
             ELSE Max({1, p[d].at})
      ent == Entries(t, p, d)
  IN  IF Len(ent) = Node(t, p[d].blk).max THEN Inserted(t, p, "SPLIT")
      ELSE Inserted(WithEntries(t, p[d].blk, InsertAt(ent, pos, new)),
                    [p EXCEPT ![d].at = pos], "EOK")

(* ext4_ext_insert_leaf: join the extent the path points to, or insert
   beside it; "SPLIT" is EIO with need_split.  Joining in front moves the
   first logical block and not the physical one. *)
ext4_ext_insert_leaf(t, p, new, combine) ==
  LET d == Len(p)
      at == p[d].at
      b == p[d].blk
      ent == Entries(t, p, d)
      ex == ent[at]
      Put(e) == Inserted(WithEntries(t, b, [ent EXCEPT ![at] = e]), p, "EOK")
      pos == IF at = 0 THEN 1 ELSE IF new.lb > ex.lb THEN at + 1 ELSE at
      q == [p EXCEPT ![d].at = IF at = 0 THEN 1 ELSE at]
  IN  CASE at # 0 /\ new.lb = ex.lb -> Inserted(t, p, "EIO")
        [] combine /\ at # 0 /\ ext4_ext_can_append(ex, new) ->
             Put([ex EXCEPT !.cnt = Joined(ex, new)])
        [] combine /\ at # 0 /\ ext4_ext_can_prepend(ex, new) ->
             Put([ex EXCEPT !.lb = new.lb, !.cnt = Joined(ex, new)])
        [] Len(ent) = Node(t, b).max -> Inserted(t, p, "SPLIT")
        [] OTHER ->
             LET u == WithEntries(t, b, InsertAt(ent, pos, new)) IN
             Inserted(IF q[d].at = 1 THEN ext4_ext_correct_indexes(u, q) ELSE u,
                      [p EXCEPT ![d].at = pos], "EOK")

(* A new entry of an index node, beside the one the path points to. *)
ext4_ext_insert_index(t, p, k, lb, pb, set_to_ix) ==
  LET ent == Entries(t, p, k)
      ix == At(t, p, k)
      pos == IF lb > ix.lb THEN p[k].at + 1 ELSE p[k].at
  IN  IF lb = ix.lb \/ Len(ent) = Node(t, p[k].blk).max THEN Inserted(t, p, "EIO")
      ELSE Inserted(WithEntries(t, p[k].blk, InsertAt(ent, pos, Index(lb, pb))),
                    IF set_to_ix THEN [p EXCEPT ![k].at = pos] ELSE p, "EOK")

(***************************************************************************)
(* ext4_ext_split_node: the nodes of the path from level lo down to the    *)
(* leaf are cut behind the path, the leaf first; each right half goes to a *)
(* new block, and the level above lo gets an entry for the topmost one.    *)
(* When an allocation fails the new blocks are freed; what was moved into  *)
(* them is not moved back.                                                 *)
(***************************************************************************)
(* The first logical block of the right halves. *)
InsertIndex(leaf, at, new) == IF at # Len(leaf) THEN leaf[at + 1].lb ELSE new.lb

(* What follows the path in node i goes to the block a.b. *)
CutNode(prev, a, p, i, index) ==
  LET old == Entries(prev.t, p, i)
      tail == SubSeq(old, p[i].at + 1, Len(old))
  IN  IF ~prev.ok \/ a.b = 0 THEN [prev EXCEPT !.ok = FALSE]
      ELSE [t |-> WithNode(WithEntries(a.t, p[i].blk, SubSeq(old, 1, p[i].at)), a.b,
                    [depth |-> Len(p) - i, max |-> BlkMax,
                     ent |-> IF i = Len(p) THEN tail
                             ELSE <<Index(index, Last(prev.blks))>> \o tail]),
            blks |-> Append(prev.blks, a.b), ok |-> TRUE]

CutNodes(t, p, lo, new, index) ==
  LET cut[k \in 0 .. Len(p) - lo + 1] ==
        IF k = 0 THEN [t |-> t, blks |-> <<>>, ok |-> TRUE]
        ELSE LET prev == cut[k - 1] IN
             CutNode(prev, ext4_balloc_alloc_block(prev.t, ext4_ext_find_goal(t, p, new.lb)),
                     p, Len(p) - k + 1, index)
  IN  cut[Len(p) - lo + 1]

(* The path goes on in the right halves if the new extent belongs there. *)
RightPath(p, up, lo, blks, leafmoved) ==
  [i \in 1 .. Len(p) |->
     IF i < lo THEN up[i]
     ELSE [blk |-> blks[Len(p) - i + 1], at |-> IF i = Len(p) /\ ~leafmoved THEN 0 ELSE 1]]

ext4_ext_split_node(t, p, lo, new) ==
  LET leaf == Entries(t, p, Len(p))
      at == p[Len(p)].at
      index == InsertIndex(leaf, at, new)
      right == new.lb >= index
      Undo(done, err) == Inserted(FreeNodes(done.t, ToSet(done.blks)), p, err)
      Up(done, up) ==
        IF up.err # "EOK" THEN Undo(done, up.err)
        ELSE IF right
        THEN Inserted(up.t, RightPath(p, up.p, lo, done.blks, at # Len(leaf)), "EOK")
        ELSE up
      Cut(done) ==
        IF ~done.ok THEN Undo(done, "ENOSPC")
        ELSE Up(done, ext4_ext_insert_index(done.t, p, lo - 1, index, Last(done.blks), right))
  IN  Cut(CutNodes(t, p, lo, new, index))

(* The root moves to a block of its own and gets one entry for it. *)
ext4_ext_grow_indepth(t) ==
  LET goal == IF t.root.depth > 0 THEN t.root.ent[1].pb ELSE InodeGoal
      Grown(a) ==
        IF a.b = 0 THEN Inserted(t, <<>>, "ENOSPC")
        ELSE Inserted([WithNode(a.t, a.b, [t.root EXCEPT !.max = BlkMax])
                         EXCEPT !.root = [depth |-> t.root.depth + 1, max |-> RootMax,
                                          ent |-> <<Index(t.root.ent[1].lb, a.b)>>]],
                      <<>>, "EOK")
  IN  Grown(ext4_balloc_alloc_block(t, goal))

(* The lowest level above the leaf with room gets the new entry; a tree
   full up to its root grows first, and below its new root only the old one
   has room. *)
MakeRoom(t, p, new) ==
  LET roomy == {k \in 1 .. Len(p) : Len(Entries(t, p, k)) < Node(t, p[k].blk).max}
      Place(g) ==
        IF roomy # {} THEN [t |-> t, p |-> p, lo |-> Max(roomy) + 1, err |-> "EOK"]
        ELSE [t |-> g.t, p |-> IF g.err = "EOK" THEN ext4_find_extent(g.t, new.lb) ELSE p,
              lo |-> IF Len(p) = 1 THEN 0 ELSE 3, err |-> g.err]
      Split(r) ==
        IF r.err # "EOK" \/ r.lo = 0 THEN Inserted(r.t, r.p, r.err)
        ELSE ext4_ext_split_node(r.t, r.p, r.lo, new)
  IN  Split(Place(ext4_ext_grow_indepth(t)))

ext4_ext_insert_extent(t, p, new, combine) ==
  LET Again(room) ==
        IF room.err # "EOK" THEN room ELSE ext4_ext_insert_leaf(room.t, room.p, new, combine)
      First(r) == IF r.err # "SPLIT" THEN r ELSE Again(MakeRoom(t, p, new))
  IN  First(ext4_ext_insert_leaf(t, p, new, combine))

(***************************************************************************)
(* Removal of everything from a logical block on; ext4_fs_truncate_inode,  *)
(* the only caller, always passes EXT_MAX_BLOCKS as the end.               *)
(***************************************************************************)
(* The extents of a leaf from the path's one on lose what lies at or behind
   "from" and their blocks are freed. *)
CutLeaf(t, p, from) ==
  LET d == Len(p)
      at == p[d].at
      ent == Entries(t, p, d)
      ex == ent[at]
      kept == IF ex.lb < from
              THEN <<[ex EXCEPT !.cnt = Count(from - ex.lb, ext4_ext_is_unwritten(ex))]>>
              ELSE <<>>
      Gone(k) == LET e == ent[k]
                     s == Max({e.lb, from})
                 IN  (e.pb + s - e.lb) .. (e.pb + ext4_ext_get_actual_len(e) - 1)
  IN  ext4_balloc_free_blocks(WithEntries(t, p[d].blk, SubSeq(ent, 1, at - 1) \o kept),
                              UNION {Gone(k) : k \in at .. Len(ent)})

(* The entry the path points to goes with the node below it; when it was
   the first of its node, the key above is replaced by the next entry's, or
   by its own, still in memory, if there is none. *)
ext4_ext_remove_idx(t, p, k) ==
  LET ix == At(t, p, k)
      ent == RemoveAt(Entries(t, p, k), p[k].at)
      u == FreeNodes(WithEntries(t, p[k].blk, ent), {ix.pb})
      key == IF ent = <<>> THEN ix.lb ELSE ent[1].lb
  IN  Rekeyed(u, p, k, key)

(* The path level k has been dealt with: an empty node is removed from the
   level above, else the level above goes on to its next entry. *)
Leave(t, p, k) ==
  IF k = 1 THEN Inserted(t, p, "EOK")
  ELSE IF Entries(t, p, k) = <<>> THEN Inserted(ext4_ext_remove_idx(t, p, k - 1), p, "EOK")
  ELSE Inserted(t, [p EXCEPT ![k - 1].at = @ + 1], "EOK")

ext4_ext_remove_leaf(t, p, from) ==
  LET Keyed(u) == IF p[Len(p)].at = 1 /\ Entries(u, p, Len(p)) # <<>>
                  THEN ext4_ext_correct_indexes(u, p) ELSE u
  IN  Leave(Keyed(CutLeaf(t, p, from)), p, Len(p))

(* One turn of the loop of ext4_extent_remove_space at level i: the leaf is
   cut, a node with more to remove is descended into, another is left. *)
RemoveStep(x, from) ==
  LET d == Len(x.p)
      child == At(x.t, x.p, x.i).pb
      more == x.p[x.i].at <= Len(Entries(x.t, x.p, x.i))
      Up(r) == [t |-> r.t, p |-> r.p, i |-> x.i - 1, err |-> "EOK"]
  IN  CASE x.i = 0 \/ x.err # "EOK" -> x
        [] x.i = d -> Up(ext4_ext_remove_leaf(x.t, x.p, from))
        [] x.i < d /\ more ->
             IF child \in x.t.bad THEN [x EXCEPT !.err = "EIO"]
             ELSE [x EXCEPT !.p[x.i + 1] = [blk |-> child, at |-> 1], !.i = @ + 1]
        [] OTHER -> Up(Leave(x.t, x.p, x.i))

InRange(ex, lb) == ex.lb <= lb /\ lb <= ex.lb + ext4_ext_get_actual_len(ex) - 1

(* Nothing is removed unless "from" lies in an extent. *)
ext4_extent_remove_space(t, from) ==
  LET Loop(p) ==
        LET loop[n \in 0 .. 2 * (Cardinality(DOMAIN t.nodes) + 1)] ==
              IF n = 0 THEN [t |-> t, p |-> p, i |-> Len(p), err |-> "EOK"]
              ELSE RemoveStep(loop[n - 1], from)
        IN  loop[2 * (Cardinality(DOMAIN t.nodes) + 1)]
      Reset(end) ==   \* nothing left: the root is a leaf again
        [t |-> IF end.err = "EOK" /\ end.t.root.ent = <<>>
               THEN [end.t EXCEPT !.root = ext4_extent_tree_init] ELSE end.t,
         err |-> end.err]
      Cut(p) ==
        IF p = <<>> THEN [t |-> t, err |-> "EIO"]
        ELSE IF p[Len(p)].at = 0 \/ ~InRange(At(t, p, Len(p)), from) THEN [t |-> t, err |-> "EOK"]
        ELSE Reset(Loop(p))
  IN  Cut(ext4_find_extent(t, from))

(***************************************************************************)
(* Conversion of unwritten extents                                         *)
(***************************************************************************)
(* The difference of two logical blocks has 32 bits and no sign, and is added
   to a physical block of 48 bits: below zero it leads out of the volume by
   2^32, for which stands a number of that kind that TLC can write. *)
Beyond == 2 ^ 30
Difference(n) == IF n < 0 THEN n + Beyond ELSE n

(* The extent of the path ends at split, a new one follows; un1 and un2 say
   which of them is marked unwritten.  When the new one cannot be inserted
   the old length is restored, without the mark, and the error is lost.
   Nothing checks that split lies in the extent. *)
ext4_ext_split_extent_at(t, p, split, un1, un2) ==
  LET d == Len(p)
      ex == At(t, p, d)
      n == ext4_ext_get_actual_len(ex)
      first == split - ex.lb   \* the length of the first part
      Put(u, cnt) == WithEntries(u, p[d].blk, [Node(u, p[d].blk).ent EXCEPT ![p[d].at].cnt = cnt])
      Restore(r) == IF r.err = "EOK" THEN r ELSE Inserted(Put(r.t, n), r.p, "EOK")
  IN  IF first = 0 THEN Inserted(Put(t, Count(n, un2)), p, "EOK")
      ELSE Restore(ext4_ext_insert_extent(Put(t, Count(first, un1)), p,
                     Extent(split, ex.pb + Difference(first), Count(n - first, un2)), FALSE))

(* Split off and initialize the right part, the left part, or first split off
   what follows and then the blocks in the middle.  The path points to the
   new extent after the first split, so the second one cuts that one at a
   block in front of it. *)
ext4_ext_convert_to_initialized(t, p, split, blocks) ==
  LET ex == At(t, p, Len(p))
      right == split + blocks = ex.lb + ext4_ext_get_actual_len(ex)
      left == ex.lb = split
      Then(r) == IF right \/ left \/ r.err # "EOK" THEN r
                 ELSE ext4_ext_split_extent_at(r.t, r.p, split, TRUE, FALSE)
  IN  Then(ext4_ext_split_extent_at(t, p, IF right THEN split ELSE split + blocks,
                                    right \/ ~left, ~right))

Got(t, b, err) == [t |-> t, b |-> b, err |-> err]

(* The extent that has block lb, if the path leads to one. *)
Holds(t, p, lb) == p[Len(p)].at # 0 /\ InRange(At(t, p, Len(p)), lb)

(* ext4_extent_get_blocks without "create": the block, 0 if there is none or
   it is not written yet. *)
Lookup(t, lb) ==
  LET Find(p, ex) ==
        Got(t, IF Holds(t, p, lb) /\ ~ext4_ext_is_unwritten(ex) THEN ex.pb + (lb - ex.lb) ELSE 0, "EOK")
      Path(p) == IF p = <<>> THEN Got(t, 0, "EIO") ELSE Find(p, At(t, p, Len(p)))
  IN  Path(ext4_find_extent(t, lb))

(* ext4_extent_get_blocks for one block, as ext4_fs.c calls it to write: the
   block found, allocated or converted. *)
ext4_extent_get_blocks(t, lb) ==
  LET Converted(r, b) == IF r.err = "EOK" THEN Got(r.t, b, "EOK") ELSE Got(r.t, 0, r.err)
      Insert(r, b) ==
        IF r.err # "EOK" THEN Got(ext4_balloc_free_blocks(r.t, {b}), 0, r.err)
        ELSE Got(r.t, b, "EOK")
      New(a, p) ==
        IF a.b = 0 THEN Got(t, 0, "ENOSPC")
        ELSE Insert(ext4_ext_insert_extent(a.t, p, Extent(lb, a.b, 1), TRUE), a.b)
      Find(p, ex) ==
        IF ~Holds(t, p, lb)
        THEN New(ext4_balloc_alloc_block(t, ext4_ext_find_goal(t, p, lb)), p)
        ELSE IF ~ext4_ext_is_unwritten(ex) THEN Got(t, ex.pb + (lb - ex.lb), "EOK")
        ELSE Converted(ext4_ext_convert_to_initialized(t, p, lb, 1), ex.pb + (lb - ex.lb))
      Path(p) == IF p = <<>> THEN Got(t, 0, "EIO") ELSE Find(p, At(t, p, Len(p)))
  IN  Path(ext4_find_extent(t, lb))
=============================================================================
