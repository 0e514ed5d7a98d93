------------------------------ MODULE NameTree ------------------------------
(***************************************************************************)
(* The tree of names of a file system and what one call of ext4.c does to  *)
(* it: which inodes there are, which names lead to them, and how many      *)
(* links they count.  A tree is a function from inodes to records          *)
(*                                                                         *)
(*   kind    "free", "dir", "file", "link" (symbolic) or "node" (mknod)    *)
(*   links   the count in the inode                                        *)
(*   ent     the entry of each name, 0 if there is none                    *)
(*   up      the inode of "..", 0 before there is one                      *)
(*   size    the blocks it holds                                           *)
(*                                                                         *)
(* How entries and blocks are kept is the matter of Directory and InodeMap.*)
(* Each call to them can fail; "fault" is the number of the one that does, *)
(* counted from the start of the call, or 0.                               *)
(***************************************************************************)
EXTENDS Integers, SequencesExt

CONSTANTS
  Names,
  Inodes,  \* inode numbers; the least is the root
  LinkMax  \* EXT4_LINK_MAX (65000)

ASSUME NameTreeAssumption ==
  /\ Names # {} /\ Inodes # {} /\ Inodes \subseteq Nat \ {0}
  /\ LinkMax \in 3 .. 65535

Root == Min(Inodes)
NoEntries == [n \in Names |-> 0]
Unused == [kind |-> "free", links |-> 0, ent |-> NoEntries, up |-> 0, size |-> 0]
EmptyTree ==
  [i \in Inodes |-> IF i = Root THEN [Unused EXCEPT !.kind = "dir", !.links = 2, !.up = Root, !.size = 1]
                    ELSE Unused]

FreeInodes(t) == {i \in Inodes : t[i].kind = "free"}
Done(t, err) == [t |-> t, err |-> err]

(* The inode a path leads to, 0 if it leads nowhere. *)
Walk(t, p) == FoldLeft(LAMBDA i, n : IF i = 0 THEN 0 ELSE t[i].ent[n], Root, p)

ext4_has_children(t, c) == t[c].ent # NoEntries

ext4_fs_alloc_inode(t, c, kind) == [t EXCEPT ![c] = [Unused EXCEPT !.kind = kind]]

(* The blocks of an inode are not freed with it: it keeps what it holds. *)
ext4_fs_free_inode(t, c) == [t EXCEPT ![c] = [Unused EXCEPT !.size = t[c].size]]

(* The count of a directory with an index that comes to LinkMax is given up:
   it becomes 1 and stays 1.  (That the superblock then gets DIR_NLINK is left
   out: nothing but a listing of the features reads it.) *)
ext4_fs_inode_links_count_inc(t, i, indexed) ==
  LET link == (t[i].links + 1) % 65536
      many == indexed /\ t[i].kind = "dir" /\ (link >= LinkMax \/ link = 2)
  IN  [t EXCEPT ![i].links = IF many THEN 1 ELSE link]

(* A directory stays at the two links of an empty one, or at its 1. *)
ext4_fs_inode_links_count_dec(t, i) ==
  [t EXCEPT ![i].links = IF @ > (IF t[i].kind = "dir" THEN 2 ELSE 0) THEN @ - 1 ELSE @]

SetEntry(t, d, n, c) == [t EXCEPT ![d].ent[n] = c]

(* A new directory gets its dots and its first block.  If that fails the
   entry is taken back only where there is no index, and then with the rest
   of the path for a name, which is the name at its end alone. *)
FillDirectory(t, d, c, n, goal, indexed, fault) ==
  CASE fault = 2 /\ indexed -> Done(t, "ENOSPC")
    [] fault = 2 /\ ~indexed -> Done(IF goal THEN SetEntry(t, d, n, 0) ELSE t, "ENOSPC")
    [] fault = 3 /\ ~indexed ->
         LET left == [t EXCEPT ![c].size = 1] IN
         Done(IF goal THEN SetEntry(left, d, n, 0) ELSE left, "ENOSPC")
    [] OTHER ->
         Done(ext4_fs_inode_links_count_inc(
                [t EXCEPT ![c].links = 2, ![c].up = d, ![c].size = 1], d, indexed), "EOK")

(* Mutant: the ".." of a directory that moves stays. *)
MoveNoParent(t, d, c, indexed, fault) ==
  IF fault = 2 THEN Done(t, "EIO") ELSE Done(ext4_fs_inode_links_count_inc(t, d, indexed), "EOK")

(* A directory that moves gets a new "..". *)
MoveDirectory(t, d, c, indexed, fault) ==
  IF fault = 2 THEN Done(t, "EIO")
  ELSE Done(ext4_fs_inode_links_count_inc([t EXCEPT ![c].up = d], d, indexed), "EOK")

ext4_link(t, d, c, n, goal, rename, indexed, fault) ==
  LET s == SetEntry(t, d, n, c) IN
  CASE fault = 1 -> Done(t, "ENOSPC")
    [] fault # 1 /\ t[c].kind = "dir" /\ ~rename -> FillDirectory(s, d, c, n, goal, indexed, fault)
    [] fault # 1 /\ t[c].kind = "dir" /\ rename -> MoveDirectory(s, d, c, indexed, fault)
    [] fault # 1 /\ t[c].kind # "dir" ->
         Done(IF rename THEN s ELSE ext4_fs_inode_links_count_inc(s, c, indexed), "EOK")

(* remove_entry, and the parent's link if it was a directory. *)
RemoveFrom(t, d, c, n) ==
  LET s == SetEntry(t, d, n, 0) IN
  IF t[c].kind = "dir" THEN ext4_fs_inode_links_count_dec(s, d) ELSE s

ext4_unlink(t, d, c, n, fault) ==
  LET s == RemoveFrom(t, d, c, n) IN
  CASE ext4_has_children(t, c) -> Done(t, "ENOTEMPTY")
    [] ~ext4_has_children(t, c) /\ fault = 1 -> Done(t, "EIO")
    [] OTHER -> Done(IF t[c].links # 0 THEN ext4_fs_inode_links_count_dec(s, c) ELSE s, "EOK")

-----------------------------------------------------------------------------
(* ext4_generic_open2 without O_CREAT; kind "any" is EXT4_DE_UNKNOWN. *)
Open(t, p, kind) ==
  LET i == Walk(t, p) IN
  IF i # 0 /\ kind \in {"any", t[i].kind} THEN i ELSE 0

(* One component of ext4_generic_open2 with O_CREAT, in every way it can
   end: s has the tree, the directory, the error, the number of inodes that
   were created and the fault.  "room" is the number of inodes there are. *)
Component(s, p, i, kind, room, indexed) ==
  LET goal == i = Len(p)
      want == IF goal THEN kind ELSE "dir"
      c == s.t[s.at].ent[p[i]]
      new == Min(FreeInodes(s.t))
      Linked(r, fault) ==
        IF r.err = "EOK" THEN [s EXCEPT !.t = r.t, !.at = new, !.new = @ + 1]
        ELSE [s EXCEPT !.t = ext4_fs_free_inode(r.t, new), !.err = r.err, !.fault = fault]
  IN  CASE s.err # "EOK" -> {s}
        [] s.err = "EOK" /\ c # 0 ->
             {IF s.t[c].kind = want THEN [s EXCEPT !.at = c] ELSE [s EXCEPT !.err = "ENOENT"]}
        [] s.err = "EOK" /\ c = 0 /\ Cardinality(Inodes) - Cardinality(FreeInodes(s.t)) >= room ->
             {[s EXCEPT !.err = "ENOSPC"]}
        [] OTHER ->
             {Linked(ext4_link(ext4_fs_alloc_inode(s.t, new, want), s.at, new, p[i], goal, FALSE,
                               indexed, fault), fault) : fault \in 0 .. 3}

(* The ways ext4_generic_open2 can end with O_CREAT; it creates the
   directories on the way. *)
OpenCreate(t, p, kind, room, indexed) ==
  LET start == [t |-> t, at |-> Root, new |-> 0, fault |-> 0,
                err |-> IF p = <<>> /\ kind # "dir" THEN "ENOENT" ELSE "EOK"]
      walk[k \in 0 .. Len(p)] ==
        IF k = 0 THEN {start}
        ELSE UNION {Component(s, p, k, kind, room, indexed) : s \in walk[k - 1]}
  IN  walk[Len(p)]

(* ext4_create_hardlink: a new entry for inode c at path q. *)
ext4_create_hardlink(t, q, c, rename, indexed, fault) ==
  LET d == Walk(t, Front(q)) IN
  CASE q = <<>> -> Done(t, "EINVAL")
    [] q # <<>> /\ (d = 0 \/ t[d].kind # "dir") -> Done(t, "ENOENT")
    [] OTHER -> IF t[d].ent[Last(q)] # 0 THEN Done(t, "EEXIST")
                ELSE ext4_link(t, d, c, Last(q), TRUE, rename, indexed, fault)

(* What ext4_frename does in its transaction, ext4_remove_orig_reference
   included.  The root has no entry that could be removed. *)
Renamed(t, p, q, indexed, fault) ==
  LET c == Walk(t, p)
      r == ext4_create_hardlink(t, q, c, TRUE, indexed, fault)
  IN  CASE r.err # "EOK" -> r
        [] r.err = "EOK" /\ (p = <<>> \/ fault = 3) -> Done(r.t, "ENOENT")
        [] OTHER -> Done(RemoveFrom(r.t, Walk(t, Front(p)), c, Last(p)), "EOK")
=============================================================================
