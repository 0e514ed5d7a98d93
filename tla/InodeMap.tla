------------------------------ MODULE InodeMap ------------------------------
(***************************************************************************)
(* The blocks of an inode (ext4_fs.c) on either kind of map: written one   *)
(* by one at, behind or before the end of the file, cut off from the end,  *)
(* freed with the inode.  The size is counted in blocks: where in a block  *)
(* a file ends is left out.                                                *)
(***************************************************************************)
EXTENDS ExtentTree, IndirectMap

CONSTANTS
  NBlk,     \* logical blocks of the file
  Pool,     \* the blocks of the file and the free ones
  Images,   \* the inodes the runs start with: kind, size and map
  MaxCalls, \* bound: calls of a run
  Targets,  \* for each kind of map, "extents" or "blockmap", the blocks that
            \* are written or cut at
  Quotas,   \* how many allocations succeed during a call
  Avoid     \* inputs left out, each because of a known deviation:
            \*   "prepend"  a block is joined to the front of an extent
            \*   "hole_cut" the file is cut in a hole
            \*   "restore"  converting an unwritten extent fails
            \*   "half"     a split of several nodes runs out of blocks
            \*              after the first
            \*   "three"    a block in the middle of an unwritten extent

VARIABLES
  kind, live,
  size,     \* of the inode, in blocks
  map,      \* the record of ExtentTree and of IndirectMap
  view,     \* what a reader finds: the block that a search returns for each block
  calls

vars == <<kind, live, size, map, view, calls>>

Blk == 0 .. NBlk - 1

ASSUME InodeMapAssumption ==
  /\ NBlk \in Nat \ {0}
  /\ Pool \subseteq Nat \ {0}
  /\ \A kd \in DOMAIN Targets : Targets[kd] \subseteq Blk
  /\ \A im \in Images : im.kind \in DOMAIN Targets
  /\ Quotas \subseteq Nat
  /\ NBlk <= inode_block_limits(3)

NoMap == [root |-> ext4_extent_tree_init, nodes |-> <<>>,
          dir |-> [n \in 0 .. DirectCount - 1 |-> 0], ind |-> [l \in 1 .. 3 |-> 0],
          tab |-> <<>>, free |-> Pool, quota |-> 0, bad |-> {}]

(* The physical blocks of an extent. *)
Run(e) == e.pb .. e.pb + ext4_ext_get_actual_len(e) - 1

(* The conditions a call meets: q allocations succeed, bs is unreadable. *)
Under(q, bs) == [map EXCEPT !.quota = q, !.bad = bs]
Nodes == DOMAIN map.nodes \cup DOMAIN map.tab

-----------------------------------------------------------------------------
(* Looking a block up; got is what a tree gives, where it may be created. *)
ext4_fs_get_inode_dblk_idx_internal(kd, t, sz, n, got) ==
  LET Mapped(b) == IF b = Unreadable THEN Got(t, 0, "EIO") ELSE Got(t, b, "EOK")
  IN  IF sz = 0 THEN Got(t, 0, "EOK")
      ELSE IF kd = "extents" THEN got
      ELSE Mapped(BlockAt(t, n))

ext4_fs_init_inode_dblk_idx(t, sz, n) ==
  ext4_fs_get_inode_dblk_idx_internal(kind, t, sz, n, ext4_extent_get_blocks(t, n))

ext4_fs_get_inode_dblk_idx(kd, t) ==
  Tabulate(LAMBDA n : ext4_fs_get_inode_dblk_idx_internal(kd, t, NBlk, n, Lookup(t, n)).b, Blk)

(* The nodes of a tree d levels below the root (0 is the root itself), and
   all extents. *)
NodesAt(t, d) ==
  LET r[k \in 0 .. d] ==
        IF k = 0 THEN {0}
        ELSE LET up == r[k - 1] IN {e.pb : e \in UNION {ToSet(Node(t, b).ent) : b \in up}}
  IN  r[d]
Extents(t) == UNION {ToSet(Node(t, b).ent) : b \in NodesAt(t, t.root.depth)}

(* The blocks of nodes or tables reached from the inode, and the file's. *)
Reached(kd, t) ==
  IF kd = "extents" THEN UNION {NodesAt(t, d) : d \in 1 .. t.root.depth} ELSE Tables(t)
Data(kd, t) ==
  IF kd = "extents" THEN UNION {Run(e) : e \in Extents(t)}
  ELSE Range(ext4_fs_get_inode_dblk_idx(kd, t)) \ {0}

Init ==
  /\ \E im \in Images :
       /\ kind = im.kind
       /\ size = im.size
       /\ map = [im.map EXCEPT !.free = Pool \ (Data(kind, im.map) \cup Reached(kind, im.map))]
  /\ live = TRUE
  /\ calls = 0
  /\ view = ext4_fs_get_inode_dblk_idx(kind, map)

(* The map a call leaves, and what is found in it. *)
Put(t) ==
  /\ calls' = calls + 1
  /\ map' = [t EXCEPT !.quota = 0, !.bad = {}]
  /\ view' = ext4_fs_get_inode_dblk_idx(kind, map')

(* Mutant: the block allocated for the file is kept when it cannot be linked. *)
LinkedOrKept(r, b) == IF r.b = 0 THEN Got(r.t, 0, "EIO") ELSE Got(r.t, b, "EOK")

(* A block that cannot be linked into the map is given back. *)
LinkedOrFreed(r, b) ==
  IF r.b = 0 THEN Got(ext4_balloc_free_blocks(r.t, {b}), 0, "EIO") ELSE Got(r.t, b, "EOK")

(* The block behind the last one; on success the size grows by one. *)
ext4_fs_append_inode_dblk(t, sz) ==
  LET New(a) ==
        IF a.b = 0 THEN Got(t, 0, "ENOSPC")
        ELSE LinkedOrFreed(ext4_fs_set_inode_data_block_index(a.t, sz, sz, a.b), a.b)
  IN  IF kind = "extents" THEN ext4_extent_get_blocks(t, sz)
      ELSE New(ext4_balloc_alloc_block(t, ext4_fs_indirect_find_goal(t, sz)))

(* The inputs left out. *)
Covers(e, n) == e.lb <= n /\ n < e.lb + ext4_ext_get_actual_len(e)
Prepends(n) ==
  LET a == ext4_balloc_alloc_block(Under(1, {}), ext4_ext_find_goal(map, ext4_find_extent(map, n), n))
  IN  \E e \in Extents(map) : e.lb = n + 1 /\ e.pb = a.b + 1
CutsHole(n) ==
  /\ \A e \in Extents(map) : ~Covers(e, n)
  /\ \E e \in Extents(map) : e.lb > n

InMiddle(e, n) ==
  ext4_ext_is_unwritten(e) /\ e.lb < n /\ n + 1 < e.lb + ext4_ext_get_actual_len(e)

(* How many nodes a new extent cuts: the full ones from the leaf up, but not
   the root, which moves down as a whole. *)
Cuts(n) ==
  LET Full(p, k) == Len(Entries(map, p, k)) = Node(map, p[k].blk).max
      Levels(p) == Cardinality({k \in 2 .. Len(p) : \A j \in k .. Len(p) : Full(p, j)})
  IN  Levels(ext4_find_extent(map, n))

(* How many blocks a write takes if there are enough. *)
Needed(n) ==
  LET last == Max(Pool)
      spare == {last + 2 * k : k \in 1 .. Cardinality(Pool)}
      t == [Under(Cardinality(spare), {}) EXCEPT !.free = @ \cup spare]
  IN  Cardinality(t.free) - Cardinality(ext4_extent_get_blocks(t, n).t.free)

WriteAvoided(n, q, need) ==
  LET covered == \E e \in Extents(map) : Covers(e, n)
      have == Min({q, Cardinality(map.free)})
  IN  /\ kind = "extents"
      /\ \/ "prepend" \in Avoid /\ ~covered /\ Prepends(n)
         \/ "restore" \in Avoid /\ covered /\ have < need
         \/ "half" \in Avoid /\ ~covered /\ have < need /\ need - have < Cuts(n)
         \/ "three" \in Avoid /\ \E e \in Extents(map) : InMiddle(e, n)

(* One block of ext4_fwrite: a file written behind its end first grows up to
   the position, then the block is looked up with "create" or appended. *)
WriteBlock(n, q, bs) ==
  LET sz == IF n > size THEN n ELSE size
  IN  /\ live
      /\ \E g \in {IF n < sz THEN ext4_fs_init_inode_dblk_idx(Under(q, bs), sz, n)
                   ELSE ext4_fs_append_inode_dblk(Under(q, bs), sz)} :
           /\ Put(g.t)
           /\ size' = IF n = sz /\ g.err = "EOK" THEN sz + 1 ELSE sz
      /\ UNCHANGED <<kind, live>>

(* Mutant: the size is changed although the blocks are still there. *)
TruncateEarly(n, bs) ==
  /\ live /\ n < size
  /\ size' = n
  /\ Put(map)
  /\ UNCHANGED <<kind, live>>

(* ext4_fs_truncate_inode of a file or directory: the blocks from n on go,
   the last ones of a block map one by one; the size follows if all went. *)
ext4_fs_truncate_inode(n, bs) ==
  LET Release(t) ==
        LET released[k \in n .. size] ==
              IF k = n THEN [t |-> t, ok |-> TRUE]
              ELSE LET s == released[k - 1] IN
                   IF s.ok THEN ext4_fs_release_inode_block(s.t, k - 1) ELSE s
        IN  released[size]
      Cut(r) == [t |-> r.t, ok |-> r.err = "EOK"]
  IN  /\ live
      /\ n < size
      /\ ~("hole_cut" \in Avoid /\ kind = "extents" /\ CutsHole(n))
      /\ \E r \in {IF kind = "extents" THEN Cut(ext4_extent_remove_space(Under(0, bs), n))
                   ELSE Release(Under(0, bs))} :
           /\ Put(r.t)
           /\ size' = IF r.ok THEN n ELSE size
      /\ UNCHANGED <<kind, live>>

(* ext4_fs_free_inode of an inode cut to nothing: an extent tree has lost its
   nodes with its extents, the tables of a block map go now. *)
ext4_fs_free_inode ==
  /\ live /\ size = 0
  /\ live' = FALSE
  /\ Put(IF kind = "extents" THEN map
         ELSE [ext4_balloc_free_blocks(map, Tables(map)) EXCEPT
                 !.ind = NoMap.ind, !.tab = <<>>])
  /\ UNCHANGED <<kind, size>>

(* ext4_fs_alloc_inode clears the inode, ext4_fs_inode_blocks_init gives it
   the root of a tree. *)
ext4_fs_alloc_inode ==
  /\ ~live
  /\ live' = TRUE
  /\ Put([map EXCEPT !.root = ext4_extent_tree_init, !.dir = NoMap.dir, !.ind = NoMap.ind])
  /\ UNCHANGED <<kind, size>>

Write ==
  \E n \in Targets[kind] : \E need \in {IF kind = "extents" THEN Needed(n) ELSE 0} :
    \E c \in (Quotas \X {{}}) \cup {<<Max(Quotas), {b}>> : b \in Nodes} :
      ~WriteAvoided(n, c[1], need) /\ WriteBlock(n, c[1], c[2])
Truncate == \E n \in Targets[kind], bs \in {{}} \cup {{b} : b \in Nodes} : ext4_fs_truncate_inode(n, bs)

Next ==
  /\ calls < MaxCalls
  /\ Write \/ Truncate \/ ext4_fs_free_inode \/ ext4_fs_alloc_inode

Spec == Init /\ [][Next]_vars

-----------------------------------------------------------------------------
DataCount ==
  IF kind = "extents" THEN MapThenSumSet(ext4_ext_get_actual_len, Extents(map))
  ELSE Cardinality({n \in Blk : view[n] # 0})

(* No block is leaked or used twice: the free blocks, the blocks of the file
   and those of its map make up the pool, and none is in two places; an inode
   that was freed (ext4_fs_free_inode) has given back all of them. *)
BlocksAccounted ==
  /\ map.free \cup Data(kind, map) \cup Reached(kind, map) = Pool
  /\ Cardinality(map.free) + DataCount + Cardinality(Reached(kind, map)) = Cardinality(Pool)
  /\ ~live => map.free = Pool

(* The searches of ext4_find_extent may rely on the tree: every node has the
   depth of its level, is not empty and not over its capacity, its entries
   are in order, each entry of an index has the first logical block of the
   node below as its key, and no two extents overlap. *)
TreeShaped ==
  kind = "extents" =>
    /\ DOMAIN map.nodes = Reached(kind, map)
    /\ \A d \in 0 .. map.root.depth : \A b \in NodesAt(map, d) :
         LET n == Node(map, b) IN
         /\ n.depth = map.root.depth - d
         /\ Len(n.ent) <= n.max
         /\ b # 0 => n.ent # <<>>
         /\ \A i \in 1 .. Len(n.ent) - 1 : n.ent[i].lb < n.ent[i + 1].lb
         /\ n.depth > 0 => \A i \in 1 .. Len(n.ent) :
              n.ent[i].lb = Node(map, n.ent[i].pb).ent[1].lb
    /\ \A e, f \in Extents(map) :
         e.lb < f.lb => e.lb + ext4_ext_get_actual_len(e) <= f.lb

(* The file keeps its blocks (ext4_fs_get_inode_dblk_idx): a write gives its
   block a physical one that no other block of the file has, a cut removes
   exactly the blocks behind it, whatever splits of nodes, splits of extents
   in two, joins at the end, growth of the tree, shortage of blocks or
   unreadable node the call met on its way, as far as Avoid admits them. *)
File == INSTANCE FileMap WITH Phys <- Pool, map <- view
MapSpec == File!Spec
=============================================================================
