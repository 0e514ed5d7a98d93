----------------------------- MODULE Directory ------------------------------
(***************************************************************************)
(* A directory (ext4_dir.c, ext4_dir_idx.c): entries are added and removed *)
(* while one caller reads it entry by entry, each call under the lock of   *)
(* the mount point.                                                        *)
(***************************************************************************)
EXTENDS DirIndex

CONSTANTS
  Images,    \* the directories the runs start with
  MaxCalls,  \* bound: calls of a run
  Quotas,    \* how many blocks can be appended during a call
  Avoid      \* inputs left out, each because of a known deviation:
             \*   "sparse"  a leaf is split whose names fit in half a block
             \*   "lost"    the half of a split leaf has no room for the name
             \*   "moved"   entries move while the directory is read

VARIABLES
  dir,     \* the blocks and the index
  found,   \* the names that a search finds
  result,  \* name, operation and error of the last change
  reader,  \* where the next ext4_dir_entry_next reads
  listed,  \* how often each name has been returned since opening
  stay,    \* the names that were there at opening and have been ever since
  gaps,    \* an entry was removed since opening
  calls

vars == <<dir, found, result, reader, listed, stay, gaps, calls>>

Closed == [b |-> -1, o |-> 0]

Found(d) == {n \in Names : ext4_dir_find_entry(d, n).o # 0}

Init ==
  /\ dir \in Images
  /\ found = Found(dir)
  /\ result = [name |-> NoName, op |-> "none", err |-> "EOK"]
  /\ reader = Closed
  /\ listed = [n \in Names |-> 0]
  /\ stay = {}
  /\ gaps = FALSE
  /\ calls = 0

Put(n, op, r) ==
  /\ calls' = calls + 1
  /\ dir' = [r.d EXCEPT !.quota = 0]
  /\ found' = Found(dir')
  /\ result' = [name |-> n, op |-> op, err |-> r.err]

(* The inputs left out. *)
SplitAvoided(n) ==
  LET cells == Cells(dir, LeafOf(dir, ext4_dir_dx_get_leaf(dir, Hash[n])))
      Bad(ns, mid) ==
        \/ "sparse" \in Avoid /\ mid = 0
        \/ "lost" \in Avoid /\ mid # 0 /\
             LET half == IF Hash[n] >= NewKey(ns, mid) THEN SubSeq(ns, mid + 1, Len(ns))
                         ELSE SubSeq(ns, 1, mid)
             IN  Size(half) + Needed(n) > BSize
      Check(ns) == Bad(ns, Mid(ns))
  IN  dir.indexed /\ ext4_dir_try_insert_entry(cells, n) = <<>> /\ Check(Sorted(cells))
MoveAvoided == "moved" \in Avoid /\ reader # Closed /\ (dir.indexed \/ gaps)

(* What a call that ends so may come to: releasing the block reference that was
   never set runs into an assertion or a fault, or does nothing and the call
   returns its error. *)
Outcomes(r) == IF r.err # "UNSET" THEN {r}
               ELSE {[r EXCEPT !.err = e] : e \in {"ENOSPC", "STOPPED"}}

(* A new name (the callers have looked for it before). *)
AddEntry(n, q) ==
  /\ n \notin found
  /\ ~MoveAvoided
  /\ ~SplitAvoided(n)
  /\ \E r \in Outcomes(ext4_dir_add_entry([dir EXCEPT !.quota = q], n)) : Put(n, "add", r)
  /\ stay' = stay \ {n}
  /\ UNCHANGED <<reader, listed, gaps>>

RemoveEntry(n) ==
  /\ n \in found
  /\ \E r \in {ext4_dir_remove_entry(dir, n)} : Put(n, "remove", r)
  /\ stay' = stay \ {n}
  /\ gaps' = TRUE
  /\ UNCHANGED <<reader, listed>>

(* ext4_dir_open, and ext4_dir_entry_rewind. *)
ext4_dir_open ==
  /\ reader' = Pos(0, 1)
  /\ listed' = [n \in Names |-> 0]
  /\ stay' = found
  /\ gaps' = FALSE
  /\ calls' = calls + 1
  /\ UNCHANGED <<dir, found, result>>

(* The entry at the position is returned, as it is, and the position moves
   on to the next one in use. *)
ext4_dir_entry_next ==
  LET c == CellAt(dir, reader.b, reader.o) IN
  /\ reader # Closed /\ ~AtEnd(dir, reader)
  /\ reader' = ext4_dir_iterator_next(dir, reader)
  /\ listed' = IF c.n \in Names THEN [listed EXCEPT ![c.n] = @ + 1] ELSE listed
  /\ UNCHANGED <<dir, found, result, stay, gaps, calls>>

ext4_dir_close ==
  /\ reader # Closed
  /\ reader' = Closed
  /\ listed' = [n \in Names |-> 0]
  /\ stay' = {}
  /\ gaps' = FALSE
  /\ UNCHANGED <<dir, found, result, calls>>

Change ==
  /\ calls < MaxCalls
  /\ \/ \E n \in Names, q \in Quotas : AddEntry(n, q)
     \/ \E n \in Names : RemoveEntry(n)
     \/ ext4_dir_open

Next ==
  /\ result.err # "STOPPED"
  /\ Change \/ ext4_dir_entry_next \/ ext4_dir_close

Spec == Init /\ [][Next]_vars

-----------------------------------------------------------------------------
(* The names in the records an iterator passes, as often as it does. *)
Live(n) ==
  {x \in {Pos(b, o) : b \in {c \in Blocks(dir) : dir.blk[c + 1].kind = "leaf"}, o \in 1 .. BSize} :
     x.o \in ToSet(Offsets(Cells(dir, x.b))) /\ CellAt(dir, x.b, x.o).n = n}

(* ext4_dir_find_entry and the iterators agree: a name that is found has one
   entry in the blocks and no other name has any, however often leaves and
   index nodes were split; what an iterator meets is what can be removed. *)
EntriesMatchSearch ==
  \A n \in Names : Cardinality(Live(n)) = IF n \in found THEN 1 ELSE 0

(* ext4_dir_entry_next: a reader returns no entry twice, and once it is at
   the end it has returned every entry that was there all the time, although
   others were removed, also the one it was about to read, or added behind. *)
ReadsEachOnce ==
  reader # Closed =>
    /\ \A n \in stay : listed[n] <= 1
    /\ AtEnd(dir, reader) => \A n \in stay : listed[n] = 1

(* A search finds exactly the names that were added and not removed since,
   and an operation that reports success has done what it says. *)
Set == INSTANCE NameSet WITH Children <- Names, names <- found
DirSpec == Set!Spec
=============================================================================
