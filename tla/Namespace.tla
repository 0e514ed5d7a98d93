----------------------------- MODULE Namespace ------------------------------
(***************************************************************************)
(* The calls of ext4.c that change the tree of names.  A call holds the    *)
(* lock of its mount point from beginning to end, so calls do not overlap; *)
(* but truncations and recursive removals take a transaction for each of   *)
(* their steps, and the machine may stop between any two of these.  With a *)
(* journal a transaction that fails is aborted and leaves nothing (the     *)
(* modules Journal and BlockCache are about that); without one it leaves   *)
(* what it had done.                                                       *)
(***************************************************************************)
EXTENDS NameTree

CONSTANTS
  Systems,   \* the file systems a run starts with: [indexed, journaled], whether
             \* directories have an index and there is a journal; and the bounds
             \* [room, ops], the number of inodes and the calls that are made
  MaxDepth,  \* bound: names of a path
  MaxSize,   \* bound: blocks of a file; CONFIG_MAX_TRUNCATE_SIZE is one
  Avoid      \* what is left out, each because of a known deviation:
             \*   "hardlink"  dir_rm of a tree that has a file with two names
             \*   "cycle"     frename of a directory to a name below itself
             \*   "orphan"    a stop or an error in the last step of dir_rm
             \*   "halfway"   without a journal, an error after a change
             \*   "many"      dir_rm of a directory that gave up counting links

ASSUME NamespaceAssumption ==
  /\ MaxDepth \in Nat /\ MaxSize \in Nat
  /\ \A s \in Systems : s.indexed \in BOOLEAN /\ s.journaled \in BOOLEAN /\ s.room \in Nat

VARIABLES
  sys,     \* the file system, one of Systems
  tree,    \* what is committed; the same in memory between transactions
  call,    \* the call that runs, or Idle
  at,      \* how far it got: [pc, ino, name, depth]
  result,  \* of the last call
  view     \* what each path leads to

vars == <<sys, tree, call, at, result, view>>

Paths == UNION {[1 .. k -> Names] : k \in 0 .. MaxDepth}
Idle == [op |-> "idle", p |-> <<>>, q |-> <<>>, kind |-> "any", size |-> 0]
Call(op, p, kind, size) == [Idle EXCEPT !.op = op, !.p = p, !.kind = kind, !.size = size]
Calls ==
  {Call("fopen", p, "file", s) : p \in Paths, s \in {0, MaxSize}}
    \cup {Call("fsymlink", p, "link", s) : p \in Paths, s \in {0, 1}}
    \cup {Call("mknod", p, "node", 0) : p \in Paths}
    \cup {Call("dir_mk", p, "dir", 0) : p \in Paths}
    \cup {Call("fwrite", p, "file", MaxSize) : p \in Paths}
    \cup {Call("ftruncate", p, "file", s) : p \in Paths, s \in 0 .. MaxSize}
    \cup {Call("fremove", p, "any", 0) : p \in Paths}
    \cup {Call("dir_rm", p, "dir", 0) : p \in Paths}
    \cup {[Call(op, p, "any", 0) EXCEPT !.q = q] : op \in {"flink", "frename"}, p \in Paths, q \in Paths}

Nothing == [ino |-> 0, kind |-> "free", size |-> 0]
Seen(t, i) ==
  IF i = 0 THEN Nothing
  ELSE [ino |-> i, kind |-> t[i].kind, size |-> IF t[i].kind = "dir" THEN 0 ELSE t[i].size]
View(t) == [p \in Paths |-> Seen(t, Walk(t, p))]

Where(pc, i, n, d) == [pc |-> pc, ino |-> i, name |-> n, depth |-> d]
Begin == Where("begin", 0, "", 0)

Init ==
  /\ sys \in Systems
  /\ tree = EmptyTree
  /\ call = Idle
  /\ at = Begin
  /\ result = "none"
  /\ view = View(tree)

Put(t) == tree' = t /\ view' = View(tree')
Return(err) == call' = Idle /\ at' = Begin /\ result' = IF err = "EOK" THEN "ok" ELSE "error"
GoTo(w) == at' = w /\ UNCHANGED <<call, result>>

(* ext4_trans_stop, or ext4_trans_abort and the end of the call. *)
Commit(r) == Put(IF r.err = "EOK" \/ ~sys.journaled THEN r.t ELSE tree)
Finish(r) == Commit(r) /\ Return(r.err)

Missing(p) == Cardinality({k \in 1 .. Len(p) : view[SubSeq(p, 1, k)] = Nothing})

(* Without a journal an error leaves a change behind unless it is the first
   that can be met, or that of the first dot in a linear directory. *)
Halfway(new, fault) ==
  /\ "halfway" \in Avoid /\ ~sys.journaled
  /\ \/ new > 0 \/ fault = 3
     \/ fault = 2 /\ ~(call.op = "dir_mk" /\ ~sys.indexed /\ Missing(call.p) = 1)

CreatingOps == {"fopen", "fsymlink", "mknod", "dir_mk"}
Shared(p) == {q \in Paths : /\ IsStrictPrefix(p, q) /\ view[q] # Nothing
                            /\ view[q].kind # "dir" /\ tree[view[q].ino].links > 1}
Excluded(c) ==
  \/ c.op = "dir_rm" /\ "hardlink" \in Avoid /\ Shared(c.p) # {}
  \/ c.op = "dir_rm" /\ "many" \in Avoid /\ c.p # <<>> /\ view[c.p].kind = "dir"
       /\ tree[view[c.p].ino].links = 1
  \/ c.op = "frename" /\ "cycle" \in Avoid /\ IsStrictPrefix(c.p, c.q) /\ (c.p # <<>> \/ ~sys.journaled)
  \/ /\ c.op \in CreatingOps /\ "halfway" \in Avoid /\ ~sys.journaled
     /\ Missing(c.p) > sys.room - Cardinality(Inodes \ FreeInodes(tree))

(* Bound: a call that finds nothing at its first path is not made. *)
Finds(c) == c.op \in CreatingOps \/ view[c.p] # Nothing

Invoke ==
  /\ call = Idle
  /\ \E c \in Calls : c.op \in sys.ops /\ Finds(c) /\ ~Excluded(c) /\ call' = c
  /\ result' = "none"
  /\ UNCHANGED <<tree, at, view>>

Running(op, pc) == call.op = op /\ at.pc = pc

-----------------------------------------------------------------------------
(* ext4_generic_open2 with O_CREAT in a transaction.  With O_TRUNC (size 0) a
   file that has blocks is truncated next, and what was done so far is
   committed before that. *)
Create ==
  \E r \in OpenCreate(tree, call.p, call.kind, sys.room, sys.indexed) :
    /\ ~(r.err # "EOK" /\ Halfway(r.new, r.fault))
    /\ IF r.err = "EOK" /\ r.t[r.at].kind = "file" /\ r.t[r.at].size > call.size
       THEN Commit(r) /\ GoTo(Where("truncate", r.at, "", 0))
       ELSE Finish(r)

ext4_fopen == Running("fopen", "begin") /\ Create
ext4_mknod == Running("mknod", "begin") /\ Create

(* A directory that is there already is left as it is. *)
ext4_dir_mk ==
  /\ Running("dir_mk", "begin")
  /\ IF Open(tree, call.p, "dir") # 0 THEN Finish(Done(tree, "EOK")) ELSE Create

(* ext4_fsymlink: the link is created, or emptied if it has a block, and
   gets its target, in a block if that is long (size 1). *)
FilledLink(r, fault) ==
  IF r.err # "EOK" THEN r
  ELSE IF fault THEN [r EXCEPT !.err = "ENOSPC"]
  ELSE [r EXCEPT !.t[r.at].size = call.size]

ext4_fsymlink ==
  /\ Running("fsymlink", "begin")
  /\ \E r \in OpenCreate(tree, call.p, "link", sys.room, sys.indexed), full \in {FALSE, call.size = 1} :
       /\ ~((full \/ r.err # "EOK") /\ Halfway(r.new, r.fault))
       /\ IF r.err = "EOK" /\ r.t[r.at].size > 0
          THEN Commit(r) /\ GoTo(Where("truncate", r.at, "", 0))
          ELSE Finish(FilledLink(r, full))

ext4_fsymlink_set ==
  /\ Running("fsymlink", "fill")
  /\ \E full \in {FALSE, call.size = 1} :
       Finish(FilledLink([t |-> tree, at |-> at.ino, err |-> "EOK"], full))

(* ext4_fwrite at the end of a file: one block more, or none. *)
ext4_fwrite ==
  /\ Running("fwrite", "begin")
  /\ LET i == Open(tree, call.p, "file") IN
     IF i = 0 THEN Finish(Done(tree, "ENOENT"))
     ELSE \/ Finish(Done(tree, "ENOSPC"))
          \/ tree[i].size < MaxSize /\ Finish(Done([tree EXCEPT ![i].size = @ + 1], "EOK"))

ext4_ftruncate ==
  /\ Running("ftruncate", "begin")
  /\ LET i == Open(tree, call.p, "file") IN
     IF i = 0 THEN Finish(Done(tree, "ENOENT"))
     ELSE IF tree[i].size <= call.size THEN Finish(Done(tree, "EOK"))
     ELSE UNCHANGED <<tree, view>> /\ GoTo(Where("truncate", i, "", 0))

(* Mutant: a truncation is always to nothing. *)
TargetNone == 0

Target == IF call.op \in {"fopen", "ftruncate"} THEN call.size ELSE 0

(* What follows a truncation. *)
Truncated(t) ==
  CASE call.op \in {"fopen", "ftruncate"} -> Put(t) /\ Return("EOK")
    [] call.op = "fsymlink" -> Put(t) /\ GoTo([at EXCEPT !.pc = "fill"])
    [] call.op = "fremove" -> Put(t) /\ GoTo([at EXCEPT !.pc = "unlink"])
    [] call.op = "dir_rm" -> Put(t) /\ GoTo([at EXCEPT !.pc = "child"])

(* One transaction of ext4_trunc_inode. *)
ext4_trunc_inode ==
  /\ at.pc = "truncate"
  /\ LET i == IF call.op = "dir_rm" THEN tree[at.ino].ent[at.name] ELSE at.ino
         t == [tree EXCEPT ![i].size = @ - 1]
     IN  \/ UNCHANGED <<tree, view>> /\ Return("EIO")
         \/ t[i].size > Target /\ Put(t) /\ GoTo(at)
         \/ t[i].size = Target /\ Truncated(t)

-----------------------------------------------------------------------------
ext4_flink ==
  /\ Running("flink", "begin")
  /\ \E fault \in 0 .. 1 :
       LET c == Walk(tree, call.p) IN
       Finish(IF c = 0 THEN Done(tree, "ENOENT")
              ELSE IF tree[c].kind = "dir" THEN Done(tree, "EINVAL")
              ELSE ext4_create_hardlink(tree, call.q, c, FALSE, sys.indexed, fault))

ext4_frename ==
  /\ Running("frename", "begin")
  /\ \E fault \in 0 .. 3 :
       /\ ~Halfway(0, fault)
       /\ Finish(IF Walk(tree, call.p) = 0 THEN Done(tree, "ENOENT")
                 ELSE Renamed(tree, call.p, call.q, sys.indexed, fault))

(* The parent's entry goes, and the inode with its last link. *)
Unlinked(c, fault) ==
  LET r == ext4_unlink(tree, Walk(tree, Front(call.p)), c, Last(call.p), fault) IN
  IF r.err = "EOK" /\ r.t[c].links = 0
  THEN IF fault = 2 THEN Done(r.t, "EIO") ELSE Done(ext4_fs_free_inode(r.t, c), "EOK")
  ELSE r

(* ext4_fremove: a directory is left alone, without an error.  The blocks
   of the file go before its last name does. *)
ext4_fremove ==
  /\ Running("fremove", "begin")
  /\ LET c == Walk(tree, call.p) IN
     CASE c = 0 -> Finish(Done(tree, "ENOENT"))
       [] c # 0 /\ tree[c].kind = "dir" -> Finish(Done(tree, "EOK"))
       [] OTHER -> /\ UNCHANGED <<tree, view>>
                   /\ GoTo(Where(IF tree[c].links = 1 /\ tree[c].size > 0 THEN "truncate" ELSE "unlink",
                                 c, "", 0))

FinishRemove ==
  /\ Running("fremove", "unlink")
  /\ \E fault \in 0 .. 2 : ~Halfway(0, fault) /\ Finish(Unlinked(at.ino, fault))

-----------------------------------------------------------------------------
(* ext4_dir_rm walks down to the leaves and removes them one by one. *)
ext4_dir_rm ==
  /\ Running("dir_rm", "begin")
  /\ UNCHANGED <<tree, view>>
  /\ LET i == Open(tree, call.p, "dir") IN
     IF i = 0 THEN Return("ENOENT") ELSE GoTo(Where("walk", i, "", 1))

(* An entry with entries below it is gone into; another one is removed. *)
Visit ==
  /\ Running("dir_rm", "walk")
  /\ UNCHANGED <<tree, view>>
  /\ \E n \in {m \in Names : tree[at.ino].ent[m] # 0} :
       LET c == tree[at.ino].ent[n] IN
       IF ext4_has_children(tree, c) THEN GoTo(Where("walk", c, "", at.depth + 1))
       ELSE GoTo(Where(IF tree[c].kind # "dir" /\ tree[c].size > 0 THEN "truncate" ELSE "child",
                       at.ino, n, at.depth))

(* The end of a directory: up to the one above, by its "..". *)
Ascend ==
  /\ Running("dir_rm", "walk")
  /\ tree[at.ino].ent = NoEntries
  /\ UNCHANGED <<tree, view>>
  /\ GoTo(IF at.depth = 1 THEN [at EXCEPT !.pc = "last"]
          ELSE Where("walk", tree[at.ino].up, "", at.depth - 1))

(* Mutant: the blocks of a directory stay with it. *)
BlocksKept(t, c) == t

(* ext4_trunc_dir *)
Emptied(t, c) == [t EXCEPT ![c].size = 0]

(* ext4_trunc_dir on a directory, ext4_unlink, and the inode goes whatever
   its number of links. *)
RemovedChild(fault) ==
  LET c == tree[at.ino].ent[at.name]
      r == ext4_unlink(Emptied(tree, c), at.ino, c, at.name, fault)
  IN  IF r.err # "EOK" THEN r
      ELSE IF fault = 2 THEN Done(r.t, "EIO") ELSE Done(ext4_fs_free_inode(r.t, c), "EOK")

RemoveChild ==
  /\ Running("dir_rm", "child")
  /\ \E fault \in 0 .. 2 :
       LET r == RemovedChild(fault) IN
       /\ ~(fault # 0 /\ ~sys.journaled /\ "halfway" \in Avoid)
       /\ IF r.err = "EOK" THEN Put(r.t) /\ GoTo(Where("walk", at.ino, "", at.depth)) ELSE Finish(r)

(* The last transaction but one: ext4_trunc_dir commits it before the inode
   is free.  The root has no entry to remove. *)
RemoveTop ==
  /\ Running("dir_rm", "last")
  /\ \E fault \in 0 .. 1 :
       LET up == tree[at.ino].up
           r == ext4_unlink(tree, up, at.ino, Last(call.p), fault)
       IN  IF call.p = <<>> THEN Finish(Done(tree, "ENOENT"))
           ELSE IF r.err # "EOK" THEN Finish(r)
           ELSE IF r.t[at.ino].links # 2 THEN Finish(r)
           ELSE Put([r.t EXCEPT ![at.ino].links = 0]) /\ GoTo([at EXCEPT !.pc = "free"])

FreeTop ==
  /\ Running("dir_rm", "free")
  /\ \/ Finish(Done(ext4_fs_free_inode(Emptied(tree, at.ino), at.ino), "EOK"))
     \/ "orphan" \notin Avoid /\ Finish(Done(tree, "EIO"))

(* The machine stops; recovery brings the committed transactions back. *)
Crash ==
  /\ sys.journaled /\ call # Idle
  /\ ~("orphan" \in Avoid /\ at.pc = "free")
  /\ UNCHANGED <<tree, view>>
  /\ Return("crash")

Step ==
  \/ ext4_fopen \/ ext4_mknod \/ ext4_dir_mk \/ ext4_fsymlink \/ ext4_fsymlink_set
  \/ ext4_fwrite \/ ext4_ftruncate \/ ext4_trunc_inode
  \/ ext4_flink \/ ext4_frename
  \/ ext4_fremove \/ FinishRemove
  \/ ext4_dir_rm \/ Visit \/ Ascend \/ RemoveChild \/ RemoveTop \/ FreeTop

Next == UNCHANGED sys /\ (Invoke \/ Step \/ Crash)

Spec == Init /\ [][Next]_vars

-----------------------------------------------------------------------------
InUse == {i \in Inodes : tree[i].kind # "free"}
EntriesOf(i) == {<<d, n>> \in InUse \X Names : tree[d].ent[n] = i}
SubDirs(d) == {n \in Names : tree[d].ent[n] # 0 /\ tree[tree[d].ent[n]].kind = "dir"}
Going == IF at.pc = "free" THEN {at.ino} ELSE {}

(* A directory with an index may have given up counting, and else stays below
   the limit. *)
GaveUp(i) == sys.indexed /\ tree[i].links = 1
BelowLimit(i) == sys.indexed => tree[i].links < LinkMax

(* At every commit the link count of an inode is the number of entries that
   name it, for a directory its dots and those of its subdirectories unless it
   has an index and gave up counting at EXT4_LINK_MAX; and ".." leads to the
   directory with its entry (ext4_link, ext4_unlink,
   ext4_remove_orig_reference, ext4_fs_inode_links_count_inc). *)
LinksMatch ==
  \A i \in InUse \ Going :
    IF tree[i].kind = "dir"
    THEN /\ GaveUp(i) \/ tree[i].links = 2 + Cardinality(SubDirs(i))
         /\ BelowLimit(i)
         /\ IF i = Root THEN EntriesOf(i) = {} /\ tree[i].up = Root
            ELSE \E n \in Names : EntriesOf(i) = {<<tree[i].up, n>>}
    ELSE tree[i].links = Cardinality(EntriesOf(i))

(* At every commit an inode is in use exactly if a path leads to it, and one
   that is free holds no blocks (ext4_fs_free_inode does not free them). *)
NoOrphans ==
  /\ {view[p].ino : p \in Paths} \ {0} = InUse \ Going
  /\ \A i \in Inodes \ InUse : tree[i].size = 0

(* A call does what it says to the paths it names and to no other, at once
   or not at all, whatever fails and wherever the machine stops. *)
Named == INSTANCE NamedTree
TreeSpec == Named!Spec
=============================================================================
