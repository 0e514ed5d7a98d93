------------------------------- MODULE Xattr --------------------------------
(***************************************************************************)
(* The extended attributes of an inode (ext4_xattr.c): in the space behind *)
(* the inode and in one block, which another inode may share.  Each call   *)
(* runs under the lock of the mount point (ext4_setxattr and the others).  *)
(***************************************************************************)
EXTENDS XattrArea

CONSTANTS
  Pool,      \* the blocks that attributes can be kept in
  Images,    \* what the runs start with
  MaxCalls,  \* bound: calls of a run
  Avoid      \* inputs left out, each because of a known deviation:
             \*   "zero"    a value moves next to an entry without one
             \*   "exact"   the space behind the inode is filled exactly
             \*   "ibody"   an attribute behind the inode is removed
             \*   "grown"   a value no longer fits in the block, but behind the inode
             \*   "full"    a value behind the inode fits nowhere any more
             \*   "shared"  a shared block is written or the inode freed

VARIABLES
  ibody,   \* the area behind the inode
  acl,     \* i_file_acl: the block, or 0
  other,   \* the block of another inode, or 0
  blk,     \* the allocated blocks: references and area
  live,
  attrs,   \* what ext4_xattr_get returns for each name
  result,  \* of the last call: its name, its value (NoValue for a removal), its error
  calls

vars == <<ibody, acl, other, blk, live, attrs, result, calls>>

(* The block b of the inode and the block o of the other one, if it is not 0,
   are the allocated blocks, and each counts its references. *)
Referred(b, o, bl) ==
  /\ {b, o} \subseteq Pool \cup {0}
  /\ bl = [c \in {b, o} \ {0} |-> [ref |-> IF b = o THEN 2 ELSE 1, a |-> bl[c].a]]

(* The areas of the inode are as the program writes them, and no name is in
   both. *)
Readable(ib, b, bl) ==
  /\ Written(ib, "ibody") /\ Valid(ib)
  /\ b # 0 => Written(bl[b].a, "block") /\ NamesIn(ib) \cap NamesIn(bl[b].a) = {}

ASSUME XattrVolume ==
  /\ Pool \subseteq Nat \ {0}
  /\ \A im \in Images : Referred(im.acl, im.other, im.blk) /\ Readable(im.ibody, im.acl, im.blk)

(* ext4_xattr_get: the inode first, then the block. *)
ext4_xattr_get(ib, bl, b, n) ==
  LET In(a, i) == ValueAt(a, a.ent[i])
      i == ext4_xattr_find_entry(ib, n)
      j == IF b = 0 THEN 0 ELSE ext4_xattr_find_entry(bl[b].a, n)
  IN  IF ~Valid(ib) \/ (i = 0 /\ b # 0 /\ ~Valid(bl[b].a)) THEN "EIO"
      ELSE IF i # 0 THEN In(ib, i) ELSE IF j # 0 THEN In(bl[b].a, j) ELSE NoValue

(* ext4_xattr_list: the names behind the inode, if that area is valid, and
   those in the block. *)
ext4_xattr_list(ib, bl, b) ==
  LET NamesOf(a) == [k \in 1 .. Len(a.ent) |-> a.ent[k].n]
  IN  (IF Valid(ib) THEN NamesOf(ib) ELSE <<>>) \o (IF b # 0 THEN NamesOf(bl[b].a) ELSE <<>>)

Attrs(ib, bl, b) == [n \in Names |-> ext4_xattr_get(ib, bl, b, n)]

Init ==
  /\ \E im \in Images : ibody = im.ibody /\ acl = im.acl /\ other = im.other /\ blk = im.blk
  /\ live = TRUE
  /\ attrs = Attrs(ibody, blk, acl)
  /\ result = [name |-> "none", val |-> NoValue, err |-> "EOK"]
  /\ calls = 0

Free(bl) == Pool \ DOMAIN bl
FreeBlock(bl, b) == [c \in DOMAIN bl \ {b} |-> bl[c]]
NewBlockIn(bl, b, r) == [c \in DOMAIN bl \cup {b} |-> IF c = b THEN r ELSE bl[c]]
Found(a, n) == ext4_xattr_find_entry(a, n)

State(ib, b, bl, err) == [ib |-> ib, b |-> b, bl |-> bl, err |-> err]

(* Mutant: the copy keeps the number of references of the original. *)
CopyKeepsCount(b, bl) ==
  LET new == Min(Free(bl)) IN
  IF bl[b].ref = 1 THEN State(ibody, b, bl, "EOK")
  ELSE IF Free(bl) = {} THEN State(ibody, b, bl, "ENOSPC")
  ELSE State(ibody, new, NewBlockIn([bl EXCEPT ![b].ref = @ - 1], new, bl[b]), "EOK")

(* Mutant: a shared block is changed in place. *)
NeverCopied(b, bl) == State(ibody, b, bl, "EOK")

(* A block that others refer to is copied before it is changed. *)
ext4_xattr_copy_new_block(b, bl) ==
  LET new == Min(Free(bl)) IN
  IF bl[b].ref = 1 THEN State(ibody, b, bl, "EOK")
  ELSE IF Free(bl) = {} THEN State(ibody, b, bl, "ENOSPC")
  ELSE State(ibody, new, NewBlockIn([bl EXCEPT ![b].ref = @ - 1], new, [bl[b] EXCEPT !.ref = 1]), "EOK")

(* ext4_xattr_block_set without a block: a new one, given back if the value
   does not fit. *)
NewBlock(n, v) ==
  LET b == Min(Free(blk))
      Put(r) == IF r.err # "EOK" THEN State(ibody, 0, blk, r.err)
                ELSE State(ibody, b, NewBlockIn(blk, b, [ref |-> 1, a |-> r.a]), "EOK")
  IN  IF Free(blk) = {} THEN State(ibody, 0, blk, "ENOSPC")
      ELSE Put(ext4_xattr_set_entry(EmptyArea("block"), 0, n, v))

(* ext4_xattr_block_set with a block.  Only for a shared one no_insert keeps a
   new name out.  Once a shared block is copied, the program goes on with the
   reference to the original, which it has just given back and which holds no
   data: it stops there. *)
SetInBlock(n, v, no_insert) ==
  LET a == blk[acl].a
      shared == blk[acl].ref > 1
      c == ext4_xattr_copy_new_block(acl, blk)
      r == ext4_xattr_set_entry(a, Found(a, n), n, v)
  IN  IF shared /\ no_insert /\ ~Valid(a) THEN State(ibody, acl, blk, "EIO")
      ELSE IF shared /\ no_insert /\ Found(a, n) = 0 THEN State(ibody, acl, blk, "ENODATA")
      ELSE IF c.err # "EOK" THEN c
      ELSE IF shared THEN [c EXCEPT !.err = "STOPPED"]
      ELSE IF ~Valid(a) THEN State(ibody, acl, blk, "EIO")
      ELSE IF r.err # "EOK" THEN State(ibody, acl, blk, r.err)
      ELSE State(ibody, acl, [blk EXCEPT ![acl].a = r.a], "EOK")

ext4_xattr_block_set(n, v, no_insert) ==
  IF acl # 0 THEN SetInBlock(n, v, no_insert)
  ELSE IF no_insert THEN State(ibody, 0, blk, "ENODATA")
  ELSE NewBlock(n, v)

(* ext4_xattr_block_remove searches with a finder that was not filled in:
   it may find the name or not. *)
ext4_xattr_block_remove(ib, c, n, found) ==
  LET a == c.bl[c.b].a
      i == IF found THEN Found(a, n) ELSE 0
  IN  IF c.err # "EOK" THEN State(ib, c.b, c.bl, c.err)
      ELSE State(ib, c.b, [c.bl EXCEPT ![c.b].a = ext4_xattr_set_entry(a, i, n, NoValue).a], "EOK")

(* An area behind the inode that is not valid is cleared. *)
Usable == IF Valid(ibody) THEN ibody ELSE EmptyArea("ibody")

(* Mutant: the value behind the inode stays. *)
LeaveOld(ib, n) == ib

DropOld(ib, n) == ext4_xattr_set_entry(ib, Found(ib, n), n, NoValue).a

(* ext4_xattr_set: a name that is not behind the inode is first tried in the
   block, if there is one; then the space behind the inode, then the block.
   Once the block was written the old value behind the inode goes, also when
   writing failed. *)
ext4_xattr_set(n, v, luck) ==
  LET i == Found(Usable, n)
      tried == i = 0 /\ acl # 0
      Dropped(r) == [r EXCEPT !.ib = DropOld(Usable, n)]
      Insert(first, r) ==
        IF r.err = "EOK"
        THEN IF tried THEN ext4_xattr_block_remove(r.a, ext4_xattr_copy_new_block(first.b, first.bl), n, luck)
             ELSE State(r.a, acl, blk, "EOK")
        ELSE IF tried THEN State(Usable, first.b, first.bl, "ENOSPC")
        ELSE Dropped(ext4_xattr_block_set(n, v, FALSE))
      After(first) ==
        IF tried /\ first.err \notin {"ENOSPC", "ENODATA"} THEN [first EXCEPT !.ib = Usable]
        ELSE Insert(first, ext4_xattr_set_entry(Usable, i, n, v))
  IN  After(IF tried THEN ext4_xattr_block_set(n, v, TRUE) ELSE State(ibody, acl, blk, "ENODATA"))

(* ext4_xattr_remove: from the block, which goes with its last entry.  For
   an attribute behind the inode the search context of the block is used,
   which was not filled in: the attribute may stay. *)
ext4_xattr_remove(n, luck) ==
  LET i == Found(ibody, n)
      Emptied(c, a) == IF a.ent = <<>> THEN State(ibody, 0, FreeBlock(c.bl, c.b), "EOK")
                       ELSE State(ibody, c.b, [c.bl EXCEPT ![c.b].a = a], "EOK")
      Cut(c) == IF c.err # "EOK" THEN c
                ELSE Emptied(c, ext4_xattr_set_entry(c.bl[c.b].a, Found(c.bl[c.b].a, n), n, NoValue).a)
  IN  IF ~Valid(ibody) \/ (i = 0 /\ acl # 0 /\ ~Valid(blk[acl].a)) THEN State(ibody, acl, blk, "EIO")
      ELSE IF i = 0 /\ acl # 0
      THEN IF Found(blk[acl].a, n) = 0 THEN State(ibody, acl, blk, "ENODATA")
           ELSE Cut(ext4_xattr_copy_new_block(acl, blk))
      ELSE State(IF luck THEN ext4_xattr_set_entry(ibody, i, n, NoValue).a ELSE ibody, acl, blk, "EOK")

-----------------------------------------------------------------------------
(* The inputs left out. *)
Moves(a, n) ==
  LET i == Found(a, n) IN
  i # 0 /\ a.ent[i].len # 0 /\ \E k \in 1 .. Len(a.ent) : k # i /\ a.ent[k].len = 0
Exact(n, v) ==
  LET r == ext4_xattr_set_entry(ibody, Found(ibody, n), n, v) IN r.err = "EOK" /\ ~Valid(r.a)
InBlock(n) == acl # 0 /\ Found(blk[acl].a, n) # 0
NoRoomIn(a, n, v) == ext4_xattr_set_entry(a, Found(a, n), n, v).err # "EOK"

SetAvoided(n, v) ==
  \/ "zero" \in Avoid /\ (Moves(ibody, n) \/ (acl # 0 /\ Moves(blk[acl].a, n)))
  \/ "exact" \in Avoid /\ Exact(n, v)
  \/ "grown" \in Avoid /\ InBlock(n) /\ NoRoomIn(blk[acl].a, n, v) /\ ~NoRoomIn(ibody, n, v)
  \/ "full" \in Avoid /\ Found(ibody, n) # 0 /\ NoRoomIn(ibody, n, v) /\
       IF acl = 0 THEN Free(blk) = {} \/ NoRoomIn(EmptyArea("block"), n, v)
       ELSE NoRoomIn(blk[acl].a, n, v)
  \/ "shared" \in Avoid /\ acl # 0 /\ blk[acl].ref > 1
RemoveAvoided(n) ==
  \/ "zero" \in Avoid /\ acl # 0 /\ Moves(blk[acl].a, n)
  \/ "ibody" \in Avoid /\ ~InBlock(n) /\ (acl = 0 \/ Found(ibody, n) # 0)

-----------------------------------------------------------------------------
Put(n, v, s) ==
  /\ ibody' = s.ib /\ acl' = s.b /\ blk' = s.bl
  /\ attrs' = Attrs(ibody', blk', acl')
  /\ result' = [name |-> n, val |-> v, err |-> s.err]
  /\ calls' = calls + 1
  /\ UNCHANGED <<other, live>>

ext4_setxattr(n, v) ==
  /\ live
  /\ ~SetAvoided(n, v)
  /\ \E luck \in BOOLEAN : Put(n, v, ext4_xattr_set(n, v, luck))

ext4_removexattr(n) ==
  /\ live
  /\ ~RemoveAvoided(n)
  /\ \E luck \in BOOLEAN : Put(n, NoValue, ext4_xattr_remove(n, luck))

(* ext4_fs_free_inode gives the block back, whoever else refers to it. *)
FreeInode ==
  /\ live
  /\ ~("shared" \in Avoid /\ acl # 0 /\ blk[acl].ref > 1)
  /\ live' = FALSE
  /\ acl' = 0
  /\ blk' = FreeBlock(blk, acl)
  /\ calls' = calls + 1
  /\ UNCHANGED <<ibody, other, attrs, result>>

Next ==
  /\ calls < MaxCalls
  /\ result.err # "STOPPED"
  /\ \/ \E n \in Names, v \in Values : ext4_setxattr(n, v)
     \/ \E n \in Names : ext4_removexattr(n)
     \/ FreeInode

Spec == Init /\ [][Next]_vars

-----------------------------------------------------------------------------
(* Every block that holds attributes is referred to by as many inodes as it
   counts (h_refcount), and one that no inode refers to has been given back
   (ext4_xattr_try_free_block, ext4_fs_free_inode). *)
RefsMatch ==
  /\ DOMAIN blk = {acl, other} \ {0}
  /\ \A b \in DOMAIN blk : blk[b].ref = Cardinality({x \in {"acl", "other"} :
       (x = "acl" /\ acl = b) \/ (x = "other" /\ other = b)})

(* Both areas stay readable (ext4_xattr_is_ibody_valid and _is_block_valid
   hold of whatever the program wrote itself), ext4_xattr_list gives each
   attribute that can be read once and no other, and no two values share a
   word. *)
AreasSound ==
  live =>
    LET listed == ext4_xattr_list(ibody, blk, acl)
        Words(e) == e.offs .. e.offs + e.len - 1
    IN  /\ IsInjective(listed) /\ ToSet(listed) = {n \in Names : attrs[n] # NoValue}
        /\ \A a \in {ibody} \cup {blk[b].a : b \in {acl} \ {0}} :
             /\ Valid(a)
             /\ \A i, j \in 1 .. Len(a.ent) :
                  i # j => Words(a.ent[i]) \cap Words(a.ent[j]) = {}

(* What is read is what was set last, whatever was moved between the inode
   and the block or inside them on the way; a call that fails has changed
   nothing that can be read. *)
Map == INSTANCE AttrMap
AttrSpec == Map!Spec

(* The other inode keeps its attributes (ext4_xattr_copy_new_block). *)
OthersUntouched ==
  [][\A n \in Names : other # 0 =>
       (/\ other \in DOMAIN blk'
        /\ ext4_xattr_get(EmptyArea("ibody"), blk', other, n) =
             ext4_xattr_get(EmptyArea("ibody"), blk, other, n))]_vars
=============================================================================
