------------------------------ MODULE BlockCache ------------------------------
(***************************************************************************)
(* The block cache (ext4_bcache.c) and the block device front end that     *)
(* drives it (ext4_blockdev.c).  One action per operation the rest of      *)
(* lwext4 calls; every operation runs under the mount point lock, so each  *)
(* is one atomic step.                                                     *)
(*                                                                         *)
(* Abstractions.  A block's contents are one value of Data.  A buffer is   *)
(* identified by its LBA, since lba_root never holds two buffers of one    *)
(* LBA.  lru_id is a counter that only its order is read of: the order is  *)
(* kept as the relation "older".  The dirty list is kept as the set of its *)
(* members: the order in which ext4_block_cache_flush empties it is left   *)
(* open.  read_refctr is never incremented in the code, so it is zero and  *)
(* the branch "refctr && refctr == read_refctr" of ext4_bcache_free is     *)
(* dead.  end_write callbacks belong to the journal and are modelled       *)
(* there.                                                                  *)
(***************************************************************************)
EXTENDS Integers, FiniteSets

CONSTANTS
  Lba,          \* logical block addresses of the device (0 is never cached)
  Data,         \* contents a block can have
  JLba,         \* the LBAs of the journal's own blocks
  CacheSize,    \* bcache cnt, CONFIG_BLOCK_DEV_CACHE_SIZE
  MaxRef,       \* bound: references the clients hold on one buffer
  MaxWriteBack, \* bound: nesting of ext4_block_cache_write_back(on)
  Faults        \* TRUE: a device transfer or an allocation may fail

ASSUME CacheAssumption ==
  /\ Lba \subseteq Nat \ {0}
  /\ IsFiniteSet(Lba)
  /\ Data # {}
  /\ JLba \subseteq Lba
  /\ CacheSize \in Nat \ {0}
  /\ MaxRef \in Nat
  /\ MaxWriteBack \in Nat
  /\ Faults \in BOOLEAN

VARIABLES
  disk,        \* contents of the physical device
  cached,      \* lba_root: the LBAs that have a buffer
  buf,         \* struct ext4_buf of each LBA
  dirtyList,   \* buffers with on_dirty_list set
  older,       \* <<a, b>>: lru_id of a is below lru_id of b
  writeBack    \* bdev->cache_write_back

vars == <<disk, cached, buf, dirtyList, older, writeBack>>

Flag == {"UPTODATE", "DIRTY", "FLUSH", "TMP"}

Buf == [data : Data, flags : SUBSET Flag, refctr : Nat]

(* What the model keeps for an LBA without a buffer. *)
NoBuf == [data |-> CHOOSE d \in Data : TRUE, flags |-> {}, refctr |-> 0]

TypeOK ==
  /\ disk \in [Lba -> Data]
  /\ cached \in SUBSET Lba
  /\ buf \in [Lba -> Buf]
  /\ dirtyList \in SUBSET Lba
  /\ older \in SUBSET (Lba \X Lba)
  /\ writeBack \in Nat

Init ==
  /\ disk \in [Lba -> Data]
  /\ cached = {}
  /\ buf = [l \in Lba |-> NoBuf]
  /\ dirtyList = {}
  /\ older = {}
  /\ writeBack = 0

-----------------------------------------------------------------------------
(* ext4_bcache_test_flag, and the reference counts.                          *)

UpToDate(l) == "UPTODATE" \in buf[l].flags
Dirty(l) == "DIRTY" \in buf[l].flags

(* The condition under which ext4_block_flush_buf writes a buffer. *)
Flushable(l) == Dirty(l) /\ UpToDate(l)

(* lru_root: the buffers nobody references. *)
Unreferenced == {l \in cached : buf[l].refctr = 0}

(* Mutant: the device write of a flush is lost. *)
FlushedNowhere(S) == [l \in Lba |-> disk[l]]

(* Device contents once ext4_block_flush_buf has written the buffers of S. *)
Flushed(S) == [l \in Lba |-> IF l \in S /\ Flushable(l) THEN buf[l].data ELSE disk[l]]

(* Mutant: a dropped buffer stays in the lru tree. *)
ForgetNothing(S) == {p \in older : S \subseteq Lba}

(* The lru order with the buffers of S dropped, and with l the newest of C. *)
Forget(S) == {p \in older : p[1] \notin S /\ p[2] \notin S}
Newest(R, l, C) == {p \in R : p[1] # l /\ p[2] # l} \cup {<<k, l>> : k \in C \ {l}}

-----------------------------------------------------------------------------
(* ext4_block_cache_shake: while the cache is full and some buffer is        *)
(* unreferenced, flush and drop the one with the lowest lru_id.  Excess is   *)
(* how many iterations make room for one more buffer.                        *)

(* Mutant: ext4_bcache_is_full compares with > instead of >=. *)
ExcessLate == IF Cardinality(cached) <= CacheSize THEN 0
              ELSE Cardinality(cached) - CacheSize

Excess == IF Cardinality(cached) < CacheSize THEN 0
          ELSE Cardinality(cached) - CacheSize + 1

(* V is an lru-prefix of the unreferenced buffers. *)
LowestLru(V) ==
  /\ V \subseteq Unreferenced
  /\ \A v \in V, u \in Unreferenced \ V : <<v, u>> \in older

(* The loop ran to its end and dropped the buffers of V.  The flag dont_shake
   keeps out a call from inside the loop or a flush, which only the journal's
   end_write callback makes; the buffers here have no callback. *)
Shaken(V) ==
  /\ LowestLru(V)
  /\ \/ Cardinality(V) = Excess
     \/ Cardinality(V) < Excess /\ V = Unreferenced

(* The loop dropped V, then the write of the next victim failed. *)
ShakeFailed(V) ==
  /\ Faults
  /\ LowestLru(V)
  /\ Cardinality(V) < Excess
  /\ \E x \in Unreferenced \ V : Flushable(x) /\ LowestLru(V \cup {x})

(* Mutant: victims are dropped without being flushed. *)
ShakeUnflushed(V) == [disk |-> disk,
                      cached |-> cached \ V,
                      buf |-> [l \in Lba |-> IF l \in V THEN NoBuf ELSE buf[l]],
                      dirtyList |-> dirtyList \ {l \in V : Dirty(l)},
                      older |-> Forget(V)]

(* State after the buffers of V were flushed where dirty and dropped. *)
Shake(V) == [disk |-> Flushed(V),
             cached |-> cached \ V,
             buf |-> [l \in Lba |-> IF l \in V THEN NoBuf ELSE buf[l]],
             dirtyList |-> dirtyList \ {l \in V : Dirty(l)},
             older |-> Forget(V)]

Becomes(s) ==
  /\ disk' = s.disk
  /\ cached' = s.cached
  /\ buf' = s.buf
  /\ dirtyList' = s.dirtyList
  /\ older' = s.older

(* Mutant: a buffer that is referenced again stays on the dirty list. *)
AllocStaysListed(s, l, g) ==
  LET first == s.buf[l].refctr = 0
      new == l \notin s.cached
  IN [disk |-> s.disk,
      cached |-> s.cached \cup {l},
      buf |-> [s.buf EXCEPT ![l] = [data |-> IF new THEN g ELSE s.buf[l].data,
                                    flags |-> s.buf[l].flags,
                                    refctr |-> s.buf[l].refctr + 1]],
      dirtyList |-> s.dirtyList,
      older |-> IF first THEN Newest(s.older, l, s.cached) ELSE s.older]

(* ext4_bcache_find_get and ext4_bcache_alloc on a cache in state s: one more
   reference to the buffer of l; an unreferenced one becomes the newest and
   leaves the dirty list; a new one has uninitialised contents g. *)
Alloc(s, l, g) ==
  LET first == s.buf[l].refctr = 0
      new == l \notin s.cached
  IN [disk |-> s.disk,
      cached |-> s.cached \cup {l},
      buf |-> [s.buf EXCEPT ![l] = [data |-> IF new THEN g ELSE s.buf[l].data,
                                    flags |-> s.buf[l].flags,
                                    refctr |-> s.buf[l].refctr + 1]],
      dirtyList |-> IF first /\ "DIRTY" \in s.buf[l].flags THEN s.dirtyList \ {l} ELSE s.dirtyList,
      older |-> IF first THEN Newest(s.older, l, s.cached) ELSE s.older]

(* Mutant: a buffer that is not up to date is returned without a read. *)
RefreshUnread(s, l) ==
  [s EXCEPT !.buf[l].flags = @ \cup {"UPTODATE"}]

(* The read that follows: from the device, unless the buffer is up to date. *)
Refresh(s, l) ==
  LET b == s.buf[l]
  IN [disk |-> s.disk,
      cached |-> s.cached,
      buf |-> [s.buf EXCEPT ![l] =
                 [data |-> IF "UPTODATE" \in b.flags THEN b.data ELSE s.disk[l],
                  flags |-> b.flags \cup {"UPTODATE"},
                  refctr |-> b.refctr]],
      dirtyList |-> s.dirtyList,
      older |-> s.older]

-----------------------------------------------------------------------------
(* ext4_block_get_noread *)
ext4_block_get_noread(l) ==
  /\ buf[l].refctr < MaxRef
  /\ \E V \in SUBSET Unreferenced, g \in Data :
       Shaken(V) /\ Becomes(Alloc(Shake(V), l, g))
  /\ UNCHANGED writeBack

(* ext4_block_get: get_noread, then a read of the device unless the buffer
   is up to date. *)
ext4_block_get(l) ==
  /\ buf[l].refctr < MaxRef
  /\ \E V \in SUBSET Unreferenced :
       /\ Shaken(V)
       /\ Becomes(Refresh(Alloc(Shake(V), l, disk[l]), l))
  /\ UNCHANGED writeBack

(* The ways ext4_block_get and ext4_block_get_noread return an error: a
   victim's write fails, the buffer cannot be allocated, or the read fails
   and ext4_bcache_free gives the reference back, which drops a buffer that
   is not up to date and has no other reference. *)
ext4_block_get_fails(l) ==
  /\ Faults
  /\ buf[l].refctr < MaxRef
  /\ \E V \in SUBSET Unreferenced :
       \/ ShakeFailed(V) /\ Becomes(Shake(V))
       \/ Shaken(V) /\ l \notin cached \ V /\ Becomes(Shake(V))
       \/ /\ Shaken(V)
          /\ l \in cached \ V
          /\ ~UpToDate(l)
          /\ LET drop == IF buf[l].refctr = 0 THEN V \cup {l} ELSE V
             IN Becomes([Shake(drop) EXCEPT !.disk = Flushed(V)])
  /\ UNCHANGED writeBack

-----------------------------------------------------------------------------
(* A holder of a reference changes the contents and marks the buffer dirty:
   the data write, then ext4_bcache_set_dirty (ext4_trans_set_block_dirty
   when no transaction is running). *)
ext4_bcache_set_dirty(l, v) ==
  /\ buf[l].refctr > 0
  /\ buf' = [buf EXCEPT ![l] = [data |-> v, flags |-> @.flags \cup {"UPTODATE", "DIRTY"},
                                refctr |-> @.refctr]]
  /\ UNCHANGED <<disk, cached, dirtyList, older, writeBack>>

(* jbd_block_get and jbd_block_get_noread flag a journal block they hold. *)
jbd_block_flags(l, f) ==
  /\ l \in JLba
  /\ buf[l].refctr > 0
  /\ buf' = [buf EXCEPT ![l].flags = @ \cup f]
  /\ UNCHANGED <<disk, cached, dirtyList, older, writeBack>>

-----------------------------------------------------------------------------
(* ext4_bcache_free (ext4_block_set) *)

(* Mutant: writes are delayed in write-through mode too. *)
DelayedAlways(b) == b.flags \cap {"FLUSH", "TMP"} = {}

Delayed(b) == writeBack > 0 /\ b.flags \cap {"FLUSH", "TMP"} = {}

(* The last reference is given back; ok says whether a flush succeeds. *)
LastPut(l, ok) ==
  LET b == buf[l]
      ready == {"DIRTY", "UPTODATE"} \subseteq b.flags
      wrote == ready /\ ~Delayed(b)
      flags == IF wrote THEN (IF ok THEN b.flags \ {"DIRTY", "FLUSH"} ELSE b.flags \ {"FLUSH"})
               ELSE b.flags
      drop == "UPTODATE" \notin flags \/ "TMP" \in flags
  IN /\ (~ok => Faults /\ wrote)
     /\ disk' = IF wrote /\ ok THEN [disk EXCEPT ![l] = b.data] ELSE disk
     /\ cached' = IF drop THEN cached \ {l} ELSE cached
     /\ buf' = [buf EXCEPT ![l] = IF drop THEN NoBuf
                                  ELSE [data |-> b.data, flags |-> flags, refctr |-> 0]]
     /\ dirtyList' = IF ready /\ Delayed(b) THEN dirtyList \cup {l}
                     ELSE IF (drop /\ Dirty(l)) \/ (wrote /\ ok) THEN dirtyList \ {l}
                     ELSE dirtyList
     /\ older' = IF drop THEN Forget({l}) ELSE older

(* Mutant: no check that there is a reference to give back. *)
FreeUnchecked(l) ==
  \/ /\ buf[l].refctr # 1
     /\ buf' = [buf EXCEPT ![l].refctr = @ - 1]
     /\ UNCHANGED <<disk, cached, dirtyList, older, writeBack>>
  \/ /\ buf[l].refctr = 1
     /\ \E ok \in BOOLEAN : LastPut(l, ok)
     /\ UNCHANGED writeBack

ext4_bcache_free(l) ==
  \/ /\ buf[l].refctr > 1
     /\ buf' = [buf EXCEPT ![l].refctr = @ - 1]
     /\ UNCHANGED <<disk, cached, dirtyList, older, writeBack>>
  \/ /\ buf[l].refctr = 1
     /\ \E ok \in BOOLEAN : LastPut(l, ok)
     /\ UNCHANGED writeBack

-----------------------------------------------------------------------------
(* ext4_block_flush_lba: find_get, flush_buf, ext4_bcache_free.  r1 and r2
   are the outcomes of the first write and of the write ext4_bcache_free
   tries when the first one failed. *)
FlushLba(l, r1, r2) ==
  LET b == buf[l]
      retry == b.refctr = 0 /\ ~r1 /\ ~Delayed(b)
      wrote == Flushable(l) /\ (r1 \/ (retry /\ r2))
      flags == IF Flushable(l)
               THEN (IF wrote THEN b.flags \ {"DIRTY"} ELSE b.flags)
                      \ (IF retry THEN {"FLUSH"} ELSE {})
               ELSE b.flags
      drop == b.refctr = 0 /\ ("UPTODATE" \notin flags \/ "TMP" \in flags)
  IN /\ (~r1 => Faults /\ Flushable(l))
     /\ (~r2 => ~r1)
     /\ disk' = IF wrote THEN [disk EXCEPT ![l] = b.data] ELSE disk
     /\ cached' = IF drop THEN cached \ {l} ELSE cached
     /\ buf' = [buf EXCEPT ![l] = IF drop THEN NoBuf
                                  ELSE [data |-> b.data, flags |-> flags, refctr |-> b.refctr]]
     /\ dirtyList' = IF b.refctr = 0 /\ ~wrote /\ Flushable(l) /\ Delayed(b)
                     THEN dirtyList \cup {l}
                     ELSE IF Dirty(l) THEN dirtyList \ {l} ELSE dirtyList
     /\ older' = IF drop THEN Forget({l})
                 ELSE IF b.refctr = 0 THEN Newest(older, l, cached) ELSE older

ext4_block_flush_lba(l) ==
  /\ l \in cached
  /\ \E r1, r2 \in BOOLEAN : FlushLba(l, r1, r2)
  /\ UNCHANGED writeBack

(* Mutant: a flushed buffer leaves the list and keeps its dirty flag. *)
FlushListStaysDirty(F) ==
  /\ \A l \in F : Flushable(l)
  /\ F = dirtyList
  /\ disk' = Flushed(F)
  /\ dirtyList' = dirtyList \ F
  /\ UNCHANGED <<cached, buf, older>>

(* ext4_block_cache_flush: the buffers of F were written; a proper subset of
   the list only when the write of a further member failed.  The loop only
   ends when every member of the list can be flushed: ext4_block_flush_buf
   returns EOK for another one and leaves it at the head of the list. *)
FlushList(F) ==
  /\ \A l \in F : Flushable(l)
  /\ \/ F = dirtyList
     \/ Faults /\ \E l \in dirtyList \ F : Flushable(l)
  /\ disk' = Flushed(F)
  /\ buf' = [l \in Lba |-> IF l \in F THEN [buf[l] EXCEPT !.flags = @ \ {"DIRTY"}]
                           ELSE buf[l]]
  /\ dirtyList' = dirtyList \ F
  /\ UNCHANGED <<cached, older>>

ext4_block_cache_flush ==
  /\ \E F \in SUBSET dirtyList : FlushList(F)
  /\ UNCHANGED writeBack

(* ext4_block_cache_write_back(on_off) *)
ext4_block_cache_write_back(on) ==
  LET wb == IF on THEN writeBack + 1
            ELSE IF writeBack > 0 THEN writeBack - 1 ELSE 0
  IN /\ wb <= MaxWriteBack
     /\ writeBack' = wb
     /\ IF wb > 0 THEN UNCHANGED <<disk, cached, buf, dirtyList, older>>
        ELSE \E F \in SUBSET dirtyList : FlushList(F)

(* ext4_bcache_invalidate_lba: the walk starts at the buffer of "from", and
   does nothing when that block has no buffer. *)
Invalidated(from, cnt) ==
  IF from \in cached THEN {l \in cached : from <= l /\ l <= from + cnt - 1} ELSE {}

ext4_bcache_invalidate_lba(from, cnt) ==
  LET R == Invalidated(from, cnt)
  IN /\ buf' = [l \in Lba |-> IF l \in R
                              THEN [buf[l] EXCEPT !.flags = @ \ {"DIRTY", "UPTODATE"}]
                              ELSE buf[l]]
     /\ dirtyList' = dirtyList \ {l \in R : Dirty(l)}
     /\ UNCHANGED <<disk, cached, older, writeBack>>

(* ext4_bcache_cleanup (unmount): every buffer is flushed, the outcome of
   the flush is ignored, and the buffer is dropped.  L: writes that failed. *)
ext4_bcache_cleanup ==
  /\ \E L \in SUBSET {l \in cached : Flushable(l)} :
       /\ L # {} => Faults
       /\ disk' = Flushed(cached \ L)
  /\ cached' = {}
  /\ buf' = [l \in Lba |-> NoBuf]
  /\ dirtyList' = dirtyList \ {l \in cached : Dirty(l)}
  /\ older' = {}
  /\ UNCHANGED writeBack

Next ==
  \/ \E l \in Lba :
       \/ ext4_block_get(l)
       \/ ext4_block_get_noread(l)
       \/ ext4_block_get_fails(l)
       \/ \E v \in Data : ext4_bcache_set_dirty(l, v)
       \/ \E f \in {{"FLUSH"}, {"FLUSH", "TMP"}} : jbd_block_flags(l, f)
       \/ ext4_bcache_free(l)
       \/ ext4_block_flush_lba(l)
       \/ \E cnt \in 1 .. Cardinality(Lba) : ext4_bcache_invalidate_lba(l, cnt)
  \/ ext4_block_cache_flush
  \/ \E on \in BOOLEAN : ext4_block_cache_write_back(on)
  \/ ext4_bcache_cleanup

Spec == Init /\ [][Next]_vars

-----------------------------------------------------------------------------
(* What a reader of block l sees: ext4_block_get returns the buffer's data   *)
(* when it is up to date, and what it reads from the device otherwise.       *)
Mem(l) == IF l \in cached /\ UpToDate(l) THEN buf[l].data ELSE disk[l]

Store == INSTANCE BlockStore WITH mem <- [l \in Lba |-> Mem(l)], stable <- disk

(* The cache implements a block store: caching, eviction, flushing, delayed
   writes and failed transfers never change what a reader of a block sees,
   except that a discarded write falls back to the contents of the device,
   and the device only ever receives a block's latest contents. *)
StoreSpec == Store!Spec

(* A buffer that is up to date and not dirty equals the device's block, so
   that ext4_block_cache_shake and ext4_bcache_drop_buf may drop it without
   a write. *)
CleanMatchesDisk ==
  \A l \in cached : UpToDate(l) /\ ~Dirty(l) => buf[l].data = disk[l]

(* Every member of the dirty list has a buffer, is unreferenced and can be
   flushed.  Without the first part SLIST_FIRST is a freed buffer; without
   the last ext4_block_cache_flush never ends, since ext4_block_flush_buf
   leaves such a buffer at the head of the list. *)
FlushListFlushable ==
  \A l \in dirtyList : l \in Unreferenced /\ Flushable(l)

(* The lru tree orders the buffers strictly and totally: ext4_buf_lowest_lru
   always finds exactly one victim. *)
LruTotal ==
  /\ \A p \in older : p[1] \in cached /\ p[2] \in cached /\ <<p[2], p[1]>> \notin older
  /\ \A k, l \in cached : k = l \/ <<k, l>> \in older \/ <<l, k>> \in older

(* The dirty list tracks every dirty buffer that is ready to be flushed
   (comment of ext4_bcache.c, "A singly-linked list is used to track those
   dirty buffers which are ready to be flushed"). *)
DirtyTracked == \A l \in Unreferenced : Dirty(l) => l \in dirtyList

(* In write-through mode a block nobody references is on the device: what
   ext4_block_set and ext4_block_cache_write_back(0) leave behind survives a
   power failure. *)
DurableWhenPut == writeBack = 0 => \A l \in Unreferenced : Mem(l) = disk[l]

(* Without device errors no unsaved write is lost with its buffer: eviction,
   ext4_block_set of a journal block and unmounting save it first.  Only
   ext4_bcache_invalidate_lba discards a write, and keeps the buffer. *)
EvictionSaves ==
  [][~Faults => \A l \in cached \ cached' : Flushable(l) => disk'[l] = buf[l].data]_vars

(* A step that adds a buffer leaves the cache within its size, unless every
   buffer is referenced (ext4_block_cache_shake). *)
CacheBound ==
  [][cached' \ cached # {} =>
       Cardinality(cached') <= CacheSize \/ Unreferenced' = {}]_vars

=============================================================================
