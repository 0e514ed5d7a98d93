-------------------------- MODULE BlockCacheProofs --------------------------
(***************************************************************************)
(* Proofs about the block cache, for every set of LBAs and contents, every *)
(* cache size, and with or without failing transfers.                      *)
(***************************************************************************)
EXTENDS BlockCache, FiniteSetTheorems, TLAPS

(* The strengthening that makes the safety properties inductive: a dirty
   buffer is up to date, and an LBA without a buffer has the empty one. *)
DirtyUpToDate == \A l \in Lba : Dirty(l) => UpToDate(l)

UncachedEmpty == \A l \in Lba \ cached : buf[l] = NoBuf

CacheInv ==
  /\ TypeOK
  /\ DirtyUpToDate
  /\ UncachedEmpty
  /\ CleanMatchesDisk
  /\ FlushListFlushable

(* The empty buffer is a buffer, without flags or references. *)
LEMMA NoBufType == NoBuf \in Buf /\ NoBuf.flags = {} /\ NoBuf.refctr = 0
BY CacheAssumption DEF NoBuf, Buf, Flag

(* The initial cache satisfies the invariant. *)
LEMMA InitInv == Init => CacheInv
BY NoBufType DEF Init, CacheInv, TypeOK, DirtyUpToDate, UncachedEmpty, CleanMatchesDisk,
   FlushListFlushable, Unreferenced, Dirty, UpToDate

(* The invariant, read off a cache state given as a record. *)
StateInv(s) ==
  /\ s \in [disk : [Lba -> Data], cached : SUBSET Lba, buf : [Lba -> Buf],
            dirtyList : SUBSET Lba, older : SUBSET (Lba \X Lba)]
  /\ \A l \in Lba : "DIRTY" \in s.buf[l].flags => "UPTODATE" \in s.buf[l].flags
  /\ \A l \in Lba \ s.cached : s.buf[l] = NoBuf
  /\ \A l \in s.cached : "UPTODATE" \in s.buf[l].flags /\ "DIRTY" \notin s.buf[l].flags
                           => s.buf[l].data = s.disk[l]
  /\ \A l \in s.dirtyList : l \in s.cached /\ s.buf[l].refctr = 0
                              /\ {"DIRTY", "UPTODATE"} \subseteq s.buf[l].flags

(* Flushing and dropping unreferenced buffers keeps the invariant. *)
LEMMA ShakeInv ==
  ASSUME CacheInv, NEW V \in SUBSET Lba
  PROVE  StateInv(Shake(V))
<1> DEFINE s == Shake(V)
<1>0. /\ s = [disk |-> s.disk, cached |-> s.cached, buf |-> s.buf,
               dirtyList |-> s.dirtyList, older |-> s.older]
      /\ s.disk = Flushed(V)
      /\ s.cached = cached \ V
      /\ s.buf = [l \in Lba |-> IF l \in V THEN NoBuf ELSE buf[l]]
      /\ s.dirtyList = dirtyList \ {l \in V : Dirty(l)}
      /\ s.older = Forget(V)
  BY DEF Shake
<1> HIDE DEF s
<1> SUFFICES StateInv(s)
  BY DEF s
<1>1. /\ s.disk \in [Lba -> Data]
      /\ \A l \in Lba : s.disk[l] = IF l \in V /\ Flushable(l) THEN buf[l].data ELSE disk[l]
  BY <1>0 DEF CacheInv, TypeOK, Flushed, Buf
<1>2. /\ s.buf \in [Lba -> Buf]
      /\ \A l \in Lba : s.buf[l] = IF l \in V THEN NoBuf ELSE buf[l]
  BY <1>0, NoBufType DEF CacheInv, TypeOK
<1>3. /\ s.cached = cached \ V
      /\ s.dirtyList = dirtyList \ {l \in V : Dirty(l)}
      /\ s.older \in SUBSET (Lba \X Lba)
  BY <1>0 DEF CacheInv, TypeOK, Forget
<1>4. \A l \in Lba : "DIRTY" \in s.buf[l].flags => "UPTODATE" \in s.buf[l].flags
  BY <1>2, NoBufType DEF CacheInv, DirtyUpToDate, Dirty, UpToDate
<1>5. \A l \in Lba \ s.cached : s.buf[l] = NoBuf
  BY <1>2, <1>3 DEF CacheInv, UncachedEmpty
<1>6. \A l \in s.cached : "UPTODATE" \in s.buf[l].flags /\ "DIRTY" \notin s.buf[l].flags
                            => s.buf[l].data = s.disk[l]
  BY <1>1, <1>2, <1>3 DEF CacheInv, TypeOK, CleanMatchesDisk, Dirty, UpToDate
<1>7. \A l \in s.dirtyList : l \in s.cached /\ s.buf[l].refctr = 0
                               /\ {"DIRTY", "UPTODATE"} \subseteq s.buf[l].flags
  BY <1>2, <1>3 DEF CacheInv, TypeOK, FlushListFlushable, Unreferenced, Flushable, Dirty, UpToDate
<1>8. s \in [disk : [Lba -> Data], cached : SUBSET Lba, buf : [Lba -> Buf],
              dirtyList : SUBSET Lba, older : SUBSET (Lba \X Lba)]
  BY <1>0, <1>1, <1>2, <1>3 DEF CacheInv, TypeOK
<1> QED
  BY <1>4, <1>5, <1>6, <1>7, <1>8 DEF StateInv

(* Taking a reference keeps the invariant. *)
LEMMA AllocInv ==
  ASSUME NEW s, StateInv(s), NEW l \in Lba, NEW g \in Data
  PROVE  StateInv(Alloc(s, l, g))
<1> DEFINE t == Alloc(s, l, g)
           b == [data |-> IF l \notin s.cached THEN g ELSE s.buf[l].data,
                 flags |-> s.buf[l].flags, refctr |-> s.buf[l].refctr + 1]
<1>0. /\ t = [disk |-> t.disk, cached |-> t.cached, buf |-> t.buf,
              dirtyList |-> t.dirtyList, older |-> t.older]
      /\ t.disk = s.disk
      /\ t.cached = s.cached \cup {l}
      /\ t.buf = [s.buf EXCEPT ![l] = b]
      /\ t.dirtyList = IF s.buf[l].refctr = 0 /\ "DIRTY" \in s.buf[l].flags
                       THEN s.dirtyList \ {l} ELSE s.dirtyList
      /\ t.older = IF s.buf[l].refctr = 0 THEN Newest(s.older, l, s.cached) ELSE s.older
  BY DEF Alloc, StateInv
<1>1. b \in Buf /\ b.flags = s.buf[l].flags /\ b.refctr = s.buf[l].refctr + 1
      /\ (l \in s.cached => b.data = s.buf[l].data)
  BY DEF StateInv, Buf
<1> HIDE DEF t, b
<1> SUFFICES StateInv(t)
  BY DEF t
<1>2. t.buf \in [Lba -> Buf] /\ \A k \in Lba : t.buf[k] = IF k = l THEN b ELSE s.buf[k]
  BY <1>0, <1>1 DEF StateInv
<1>3. t.older \in SUBSET (Lba \X Lba)
  BY <1>0 DEF StateInv, Newest
<1>4. \A k \in Lba : "DIRTY" \in t.buf[k].flags => "UPTODATE" \in t.buf[k].flags
  BY <1>1, <1>2 DEF StateInv
<1>5. \A k \in t.cached : "UPTODATE" \in t.buf[k].flags /\ "DIRTY" \notin t.buf[k].flags
                            => t.buf[k].data = t.disk[k]
  BY <1>0, <1>1, <1>2, NoBufType DEF StateInv
<1>6. \A k \in t.dirtyList : k \in t.cached /\ t.buf[k].refctr = 0
                               /\ {"DIRTY", "UPTODATE"} \subseteq t.buf[k].flags
  BY <1>0, <1>1, <1>2 DEF StateInv
<1>7. \A k \in Lba \ t.cached : t.buf[k] = NoBuf
  BY <1>0, <1>2 DEF StateInv
<1> QED
  BY <1>0, <1>2, <1>3, <1>4, <1>5, <1>6, <1>7 DEF StateInv

(* Reading a referenced buffer from the device keeps the invariant. *)
LEMMA RefreshInv ==
  ASSUME NEW s, StateInv(s), NEW l \in Lba, l \in s.cached
  PROVE  StateInv(Refresh(s, l))
<1> DEFINE t == Refresh(s, l)
           b == [data |-> IF "UPTODATE" \in s.buf[l].flags THEN s.buf[l].data ELSE s.disk[l],
                 flags |-> s.buf[l].flags \cup {"UPTODATE"}, refctr |-> s.buf[l].refctr]
<1>0. /\ t = [disk |-> t.disk, cached |-> t.cached, buf |-> t.buf,
              dirtyList |-> t.dirtyList, older |-> t.older]
      /\ t.disk = s.disk
      /\ t.cached = s.cached
      /\ t.buf = [s.buf EXCEPT ![l] = b]
      /\ t.dirtyList = s.dirtyList
      /\ t.older = s.older
  BY DEF Refresh, StateInv
<1>1. /\ b \in Buf
      /\ b.flags = s.buf[l].flags \cup {"UPTODATE"}
      /\ b.refctr = s.buf[l].refctr
      /\ b.data = IF "UPTODATE" \in s.buf[l].flags THEN s.buf[l].data ELSE s.disk[l]
  BY DEF StateInv, Buf, Flag
<1> HIDE DEF t, b
<1> SUFFICES StateInv(t)
  BY DEF t
<1>2. t.buf \in [Lba -> Buf] /\ \A k \in Lba : t.buf[k] = IF k = l THEN b ELSE s.buf[k]
  BY <1>0, <1>1 DEF StateInv
<1>4. \A k \in Lba : "DIRTY" \in t.buf[k].flags => "UPTODATE" \in t.buf[k].flags
  BY <1>1, <1>2 DEF StateInv
<1>5. \A k \in t.cached : "UPTODATE" \in t.buf[k].flags /\ "DIRTY" \notin t.buf[k].flags
                            => t.buf[k].data = t.disk[k]
  BY <1>0, <1>1, <1>2 DEF StateInv
<1>6. \A k \in t.dirtyList : k \in t.cached /\ t.buf[k].refctr = 0
                               /\ {"DIRTY", "UPTODATE"} \subseteq t.buf[k].flags
  BY <1>0, <1>1, <1>2 DEF StateInv
<1>7. \A k \in Lba \ t.cached : t.buf[k] = NoBuf
  BY <1>0, <1>2 DEF StateInv
<1> QED
  BY <1>0, <1>2, <1>4, <1>5, <1>6, <1>7 DEF StateInv

(* A step to a state that satisfies the invariant. *)
LEMMA BecomesInv ==
  ASSUME NEW s, StateInv(s), Becomes(s), writeBack' \in Nat
  PROVE  CacheInv'
BY DEF StateInv, Becomes, CacheInv, TypeOK, DirtyUpToDate, UncachedEmpty, CleanMatchesDisk,
   FlushListFlushable, Flushable, Unreferenced, Dirty, UpToDate

(* A step that changes one buffer, and at most its block on the device. *)
LEMMA LocalInv ==
  ASSUME CacheInv, NEW l \in Lba, NEW b \in Buf, NEW d \in Data,
         buf' = [buf EXCEPT ![l] = b],
         disk' = [disk EXCEPT ![l] = d],
         cached' = cached \/ cached' = cached \ {l},
         l \notin cached' => b = NoBuf,
         "DIRTY" \in b.flags => "UPTODATE" \in b.flags,
         "UPTODATE" \in b.flags /\ "DIRTY" \notin b.flags => b.data = d,
         dirtyList' = dirtyList \/ dirtyList' = dirtyList \ {l} \/ dirtyList' = dirtyList \cup {l},
         l \in dirtyList' => l \in cached' /\ b.refctr = 0 /\ "DIRTY" \in b.flags,
         older' \in SUBSET (Lba \X Lba),
         writeBack' \in Nat
  PROVE  CacheInv'
<1>1. /\ buf' \in [Lba -> Buf]
      /\ \A k \in Lba : buf'[k] = IF k = l THEN b ELSE buf[k]
      /\ disk' \in [Lba -> Data]
      /\ \A k \in Lba : disk'[k] = IF k = l THEN d ELSE disk[k]
  BY DEF CacheInv, TypeOK
<1>2. TypeOK'
  BY <1>1 DEF CacheInv, TypeOK
<1>3. DirtyUpToDate'
  BY <1>1 DEF CacheInv, DirtyUpToDate, Dirty, UpToDate
<1>4. UncachedEmpty'
  BY <1>1, NoBufType DEF CacheInv, UncachedEmpty
<1>5. CleanMatchesDisk'
  BY <1>1, NoBufType DEF CacheInv, TypeOK, CleanMatchesDisk, Dirty, UpToDate
<1>6. FlushListFlushable'
  BY <1>1 DEF CacheInv, TypeOK, FlushListFlushable, Flushable, Unreferenced, Dirty, UpToDate
<1> QED
  BY <1>2, <1>3, <1>4, <1>5, <1>6 DEF CacheInv

(* Every step of the block cache keeps the invariant. *)
LEMMA StepInv == CacheInv /\ [Next]_vars => CacheInv'
<1> SUFFICES ASSUME CacheInv, [Next]_vars PROVE CacheInv'
  OBVIOUS
<1>1. ASSUME NEW l \in Lba, ext4_block_get(l) PROVE CacheInv'
  <2>1. PICK V \in SUBSET Unreferenced : Becomes(Refresh(Alloc(Shake(V), l, disk[l]), l))
    BY <1>1 DEF ext4_block_get
  <2>2. StateInv(Shake(V))
    BY ShakeInv DEF Unreferenced, CacheInv, TypeOK
  <2>3. StateInv(Alloc(Shake(V), l, disk[l])) /\ l \in Alloc(Shake(V), l, disk[l]).cached
    BY <2>2, AllocInv DEF Alloc, Shake, CacheInv, TypeOK
  <2>4. StateInv(Refresh(Alloc(Shake(V), l, disk[l]), l))
    BY <2>3, RefreshInv
  <2> QED
    BY <1>1, <2>1, <2>4, BecomesInv DEF ext4_block_get, CacheInv, TypeOK
<1>2. ASSUME NEW l \in Lba, ext4_block_get_noread(l) PROVE CacheInv'
  <2>1. PICK V \in SUBSET Unreferenced, g \in Data : Becomes(Alloc(Shake(V), l, g))
    BY <1>2 DEF ext4_block_get_noread
  <2>2. StateInv(Shake(V))
    BY ShakeInv DEF Unreferenced, CacheInv, TypeOK
  <2>3. StateInv(Alloc(Shake(V), l, g))
    BY <2>2, AllocInv
  <2> QED
    BY <1>2, <2>1, <2>3, BecomesInv DEF ext4_block_get_noread, CacheInv, TypeOK
<1>3. ASSUME NEW l \in Lba, ext4_block_get_fails(l) PROVE CacheInv'
  <2>1. PICK V \in SUBSET Unreferenced :
          \/ Becomes(Shake(V))
          \/ ~UpToDate(l) /\ Becomes([Shake(V \cup {l}) EXCEPT !.disk = Flushed(V)])
          \/ Becomes([Shake(V) EXCEPT !.disk = Flushed(V)])
    BY <1>3 DEF ext4_block_get_fails
  <2>2. StateInv(Shake(V)) /\ StateInv(Shake(V \cup {l}))
    BY ShakeInv DEF Unreferenced, CacheInv, TypeOK
  <2>3. [Shake(V) EXCEPT !.disk = Flushed(V)] = Shake(V)
    BY DEF Shake
  <2>4. ~UpToDate(l) => [Shake(V \cup {l}) EXCEPT !.disk = Flushed(V)] = Shake(V \cup {l})
    <3>1. ~UpToDate(l) => Flushed(V \cup {l}) = Flushed(V)
      BY DEF Flushed, Flushable
    <3> QED
      BY <3>1 DEF Shake
  <2>5. writeBack' \in Nat
    BY <1>3 DEF ext4_block_get_fails, CacheInv, TypeOK
  <2> QED
    BY <2>1, <2>2, <2>3, <2>4, <2>5, BecomesInv
<1>4. ASSUME NEW l \in Lba, NEW v \in Data, ext4_bcache_set_dirty(l, v) PROVE CacheInv'
  <2> DEFINE b == [data |-> v, flags |-> buf[l].flags \cup {"UPTODATE", "DIRTY"}, refctr |-> buf[l].refctr]
  <2>1. b \in Buf /\ {"UPTODATE", "DIRTY"} \subseteq b.flags
    BY DEF CacheInv, TypeOK, Buf, Flag
  <2>2. l \in cached /\ l \notin dirtyList
    BY <1>4, NoBufType DEF ext4_bcache_set_dirty, CacheInv, TypeOK, UncachedEmpty, FlushListFlushable, Unreferenced
  <2>3. /\ buf' = [buf EXCEPT ![l] = b] /\ disk' = [disk EXCEPT ![l] = disk[l]]
        /\ cached' = cached /\ dirtyList' = dirtyList /\ older' \in SUBSET (Lba \X Lba)
        /\ disk[l] \in Data /\ writeBack' \in Nat
    BY <1>4 DEF ext4_bcache_set_dirty, CacheInv, TypeOK
  <2> HIDE DEF b
  <2> QED
    BY <2>1, <2>2, <2>3, LocalInv
<1>5. ASSUME NEW l \in Lba, NEW f \in {{"FLUSH"}, {"FLUSH", "TMP"}}, jbd_block_flags(l, f) PROVE CacheInv'
  <2> DEFINE b == [buf[l] EXCEPT !.flags = @ \cup f]
  <2>1. /\ b \in Buf /\ b.data = buf[l].data
        /\ "UPTODATE" \in b.flags <=> UpToDate(l)
        /\ "DIRTY" \in b.flags <=> Dirty(l)
    BY DEF CacheInv, TypeOK, Buf, Flag, UpToDate, Dirty
  <2>2. l \in cached /\ l \notin dirtyList
    BY <1>5, NoBufType DEF jbd_block_flags, CacheInv, TypeOK, UncachedEmpty, FlushListFlushable, Unreferenced
  <2>3. /\ buf' = [buf EXCEPT ![l] = b] /\ disk' = [disk EXCEPT ![l] = disk[l]]
        /\ cached' = cached /\ dirtyList' = dirtyList /\ older' \in SUBSET (Lba \X Lba)
        /\ disk[l] \in Data /\ writeBack' \in Nat
    BY <1>5 DEF jbd_block_flags, CacheInv, TypeOK
  <2>4. /\ "DIRTY" \in b.flags => "UPTODATE" \in b.flags
        /\ "UPTODATE" \in b.flags /\ "DIRTY" \notin b.flags => b.data = disk[l]
    BY <2>1, <2>2 DEF CacheInv, DirtyUpToDate, CleanMatchesDisk
  <2> HIDE DEF b
  <2> QED
    BY <2>1, <2>2, <2>3, <2>4, LocalInv
<1>6. ASSUME NEW l \in Lba, ext4_bcache_free(l) PROVE CacheInv'
  <2>1. l \in cached /\ l \notin dirtyList
    BY <1>6, NoBufType DEF ext4_bcache_free, CacheInv, TypeOK, UncachedEmpty, FlushListFlushable, Unreferenced
  <2>2. CASE buf[l].refctr > 1
    <3> DEFINE b == [buf[l] EXCEPT !.refctr = @ - 1]
    <3>1. b \in Buf /\ b.data = buf[l].data /\ b.flags = buf[l].flags
      BY <2>2 DEF CacheInv, TypeOK, Buf
    <3>3. /\ buf' = [buf EXCEPT ![l] = b] /\ disk' = [disk EXCEPT ![l] = disk[l]]
          /\ cached' = cached /\ dirtyList' = dirtyList /\ older' \in SUBSET (Lba \X Lba)
          /\ disk[l] \in Data /\ writeBack' \in Nat
      BY <1>6, <2>2 DEF ext4_bcache_free, CacheInv, TypeOK
    <3>4. /\ "DIRTY" \in b.flags => "UPTODATE" \in b.flags
          /\ "UPTODATE" \in b.flags /\ "DIRTY" \notin b.flags => b.data = disk[l]
      BY <3>1, <2>1 DEF CacheInv, DirtyUpToDate, CleanMatchesDisk, Dirty, UpToDate
    <3> HIDE DEF b
    <3> QED
      BY <2>1, <3>1, <3>3, <3>4, LocalInv
  <2>3. CASE buf[l].refctr = 1
    <3>1. PICK ok \in BOOLEAN : LastPut(l, ok)
      BY <1>6, <2>3 DEF ext4_bcache_free
    <3> DEFINE ready == {"DIRTY", "UPTODATE"} \subseteq buf[l].flags
               wrote == ready /\ ~Delayed(buf[l])
               flags == IF wrote
                        THEN (IF ok THEN buf[l].flags \ {"DIRTY", "FLUSH"} ELSE buf[l].flags \ {"FLUSH"})
                        ELSE buf[l].flags
               drop == "UPTODATE" \notin flags \/ "TMP" \in flags
               b == IF drop THEN NoBuf ELSE [data |-> buf[l].data, flags |-> flags, refctr |-> 0]
               d == IF wrote /\ ok THEN buf[l].data ELSE disk[l]
    <3>2. /\ buf' = [buf EXCEPT ![l] = b]
          /\ disk' = [disk EXCEPT ![l] = d]
          /\ cached' = IF drop THEN cached \ {l} ELSE cached
          /\ dirtyList' = IF ready /\ Delayed(buf[l]) THEN dirtyList \cup {l}
                     ELSE IF (drop /\ Dirty(l)) \/ (wrote /\ ok) THEN dirtyList \ {l}
                     ELSE dirtyList
          /\ older' \in SUBSET (Lba \X Lba)
      BY <3>1 DEF LastPut, CacheInv, TypeOK, Forget
    <3>3. flags \in SUBSET Flag /\ b \in Buf /\ d \in Data /\ disk[l] \in Data
      BY NoBufType DEF CacheInv, TypeOK, Buf, Flag
    <3>4. writeBack' \in Nat
      BY <1>6 DEF ext4_bcache_free, CacheInv, TypeOK
    <3>5. "DIRTY" \in b.flags => "UPTODATE" \in b.flags
      BY NoBufType
    <3>6. "UPTODATE" \in b.flags /\ "DIRTY" \notin b.flags => b.data = d
      BY <2>1, NoBufType DEF CacheInv, CleanMatchesDisk, Dirty, UpToDate
    <3>7. l \in dirtyList' => l \in cached' /\ b.refctr = 0 /\ "DIRTY" \in b.flags
      BY <2>1, <3>2, NoBufType DEF Delayed
    <3>8. l \notin cached' => b = NoBuf
      BY <2>1, <3>2
    <3>9. /\ cached' = cached \/ cached' = cached \ {l}
          /\ dirtyList' = dirtyList \/ dirtyList' = dirtyList \ {l} \/ dirtyList' = dirtyList \cup {l}
      BY <3>2
    <3> HIDE DEF b, d, ready, wrote, flags, drop
    <3>10. buf' = [buf EXCEPT ![l] = b] /\ disk' = [disk EXCEPT ![l] = d] /\ older' \in SUBSET (Lba \X Lba)
      BY <3>2
    <3> QED
      BY <3>3, <3>4, <3>5, <3>6, <3>7, <3>8, <3>9, <3>10, LocalInv
  <2> QED
    BY <1>6, <2>2, <2>3 DEF ext4_bcache_free
<1>7. ASSUME NEW l \in Lba, ext4_block_flush_lba(l) PROVE CacheInv'
  <2>1. l \in cached
    BY <1>7 DEF ext4_block_flush_lba
  <2>2. PICK r1, r2 \in BOOLEAN : FlushLba(l, r1, r2)
    BY <1>7 DEF ext4_block_flush_lba
  <2> DEFINE retry == buf[l].refctr = 0 /\ ~r1 /\ ~Delayed(buf[l])
             w == Flushable(l) /\ (r1 \/ (retry /\ r2))
             f == IF Flushable(l)
                  THEN (IF w THEN buf[l].flags \ {"DIRTY"} ELSE buf[l].flags)
                         \ (IF retry THEN {"FLUSH"} ELSE {})
                  ELSE buf[l].flags
             g == buf[l].refctr = 0 /\ ("UPTODATE" \notin f \/ "TMP" \in f)
             b == IF g THEN NoBuf ELSE [data |-> buf[l].data, flags |-> f, refctr |-> buf[l].refctr]
             d == IF w THEN buf[l].data ELSE disk[l]
  <2>a. /\ buf' = [buf EXCEPT ![l] = b]
        /\ disk' = IF w THEN [disk EXCEPT ![l] = buf[l].data] ELSE disk
        /\ cached' = IF g THEN cached \ {l} ELSE cached
        /\ dirtyList' = IF buf[l].refctr = 0 /\ ~w /\ Flushable(l) /\ Delayed(buf[l])
                        THEN dirtyList \cup {l}
                        ELSE IF Dirty(l) THEN dirtyList \ {l} ELSE dirtyList
    BY <2>2 DEF FlushLba
  <2>b. older' = Forget({l}) \/ older' = Newest(older, l, cached) \/ older' = older
    BY <2>2 DEF FlushLba
  <2>3. disk' = [disk EXCEPT ![l] = d]
    BY <2>a DEF CacheInv, TypeOK
  <2>c. older' \in SUBSET (Lba \X Lba)
    <3>1. Forget({l}) \in SUBSET (Lba \X Lba)
      BY DEF CacheInv, TypeOK, Forget
    <3>2. Newest(older, l, cached) \in SUBSET (Lba \X Lba)
      BY DEF CacheInv, TypeOK, Newest
    <3> QED
      BY <2>b, <3>1, <3>2 DEF CacheInv, TypeOK
  <2>d. /\ cached' = cached \/ cached' = cached \ {l}
        /\ dirtyList' = dirtyList \/ dirtyList' = dirtyList \ {l} \/ dirtyList' = dirtyList \cup {l}
    BY <2>a
  <2>4. f \in SUBSET Flag /\ b \in Buf /\ d \in Data
    BY NoBufType DEF CacheInv, TypeOK, Buf
  <2>5. writeBack' \in Nat
    BY <1>7 DEF ext4_block_flush_lba, CacheInv, TypeOK
  <2>6. /\ "UPTODATE" \in f <=> UpToDate(l)
        /\ "DIRTY" \in f <=> Dirty(l) /\ ~w
    BY DEF CacheInv, DirtyUpToDate, Flushable, Dirty, UpToDate
  <2>7. /\ ~g => b.flags = f /\ b.data = buf[l].data /\ b.refctr = buf[l].refctr
        /\ g => b = NoBuf
    BY DEF CacheInv, TypeOK, Buf
  <2>8. l \in dirtyList' => l \in cached' /\ buf[l].refctr = 0 /\ ~g /\ Dirty(l) /\ ~w
    BY <2>1, <2>a DEF CacheInv, FlushListFlushable, Unreferenced, Flushable, Delayed, Dirty, UpToDate
  <2>9. l \notin cached' => g
    BY <2>1, <2>a
  <2>10. d = IF w THEN buf[l].data ELSE disk[l]
    OBVIOUS
  <2>11. w => Dirty(l)
    BY DEF Flushable
  <2> HIDE DEF b, d, w, f, g, retry
  <2>12. "DIRTY" \in b.flags => "UPTODATE" \in b.flags
    BY <2>6, <2>7, NoBufType DEF CacheInv, DirtyUpToDate
  <2>13. "UPTODATE" \in b.flags /\ "DIRTY" \notin b.flags => b.data = d
    BY <2>1, <2>6, <2>7, <2>10, <2>11, NoBufType DEF CacheInv, CleanMatchesDisk
  <2>14. /\ l \in dirtyList' => l \in cached' /\ b.refctr = 0 /\ "DIRTY" \in b.flags
         /\ l \notin cached' => b = NoBuf
    BY <2>6, <2>7, <2>8, <2>9
  <2> QED
    BY <2>a, <2>3, <2>c, <2>d, <2>4, <2>5, <2>12, <2>13, <2>14, LocalInv
<1>8. ASSUME NEW l \in Lba, NEW cnt \in Nat, ext4_bcache_invalidate_lba(l, cnt) PROVE CacheInv'
  <2> DEFINE R == Invalidated(l, cnt)
  <2>1. R \subseteq cached
    BY DEF Invalidated
  <2>2. /\ buf' = [k \in Lba |-> IF k \in R THEN [buf[k] EXCEPT !.flags = @ \ {"DIRTY", "UPTODATE"}]
                                 ELSE buf[k]]
        /\ dirtyList' = dirtyList \ {k \in R : Dirty(k)}
        /\ UNCHANGED <<disk, cached, older, writeBack>>
    BY <1>8 DEF ext4_bcache_invalidate_lba
  <2> HIDE DEF R
  <2>3. /\ buf' \in [Lba -> Buf]
        /\ \A k \in Lba : k \in R => "DIRTY" \notin buf'[k].flags /\ "UPTODATE" \notin buf'[k].flags
        /\ \A k \in Lba : k \notin R => buf'[k] = buf[k]
    BY <2>2 DEF CacheInv, TypeOK, Buf
  <2>4. TypeOK' /\ DirtyUpToDate' /\ UncachedEmpty'
    BY <2>1, <2>2, <2>3 DEF CacheInv, TypeOK, DirtyUpToDate, UncachedEmpty, Dirty, UpToDate
  <2>5. CleanMatchesDisk'
    BY <2>2, <2>3 DEF CacheInv, TypeOK, CleanMatchesDisk, Dirty, UpToDate
  <2>6. FlushListFlushable'
    BY <2>2, <2>3 DEF CacheInv, TypeOK, FlushListFlushable, Unreferenced, Flushable, Dirty, UpToDate
  <2> QED
    BY <2>4, <2>5, <2>6 DEF CacheInv
<1>9. ASSUME NEW F \in SUBSET dirtyList, FlushList(F), writeBack' \in Nat PROVE CacheInv'
  <2>1. /\ \A l \in F : Flushable(l)
        /\ disk' = Flushed(F)
        /\ buf' = [l \in Lba |-> IF l \in F THEN [buf[l] EXCEPT !.flags = @ \ {"DIRTY"}] ELSE buf[l]]
        /\ dirtyList' = dirtyList \ F
        /\ UNCHANGED <<cached, older>>
    BY <1>9 DEF FlushList
  <2>2. disk' \in [Lba -> Data] /\ \A l \in Lba : disk'[l] = IF l \in F THEN buf[l].data ELSE disk[l]
    BY <2>1 DEF Flushed, CacheInv, TypeOK, Buf
  <2>3. /\ buf' \in [Lba -> Buf]
        /\ \A l \in F : /\ buf'[l].flags = buf[l].flags \ {"DIRTY"}
                        /\ buf'[l].data = buf[l].data
        /\ \A l \in Lba \ F : buf'[l] = buf[l]
    BY <2>1 DEF CacheInv, TypeOK, Buf
  <2>4. TypeOK'
    BY <1>9, <2>1, <2>2, <2>3 DEF CacheInv, TypeOK
  <2>5. DirtyUpToDate' /\ UncachedEmpty'
    BY <2>1, <2>3 DEF CacheInv, TypeOK, DirtyUpToDate, UncachedEmpty, FlushListFlushable, Unreferenced,
       Dirty, UpToDate
  <2>6. CleanMatchesDisk'
    BY <2>1, <2>2, <2>3 DEF CacheInv, TypeOK, CleanMatchesDisk, Dirty, UpToDate
  <2>7. FlushListFlushable'
    BY <2>1, <2>3 DEF CacheInv, TypeOK, FlushListFlushable, Unreferenced, Flushable, Dirty, UpToDate
  <2> QED
    BY <2>4, <2>5, <2>6, <2>7 DEF CacheInv
<1>10. CASE ext4_bcache_cleanup
  <2>1. PICK L \in SUBSET cached : disk' = Flushed(cached \ L)
    BY <1>10 DEF ext4_bcache_cleanup
  <2>2. disk' \in [Lba -> Data]
    BY <2>1 DEF Flushed, CacheInv, TypeOK, Buf
  <2>3. dirtyList' = {}
    BY <1>10 DEF ext4_bcache_cleanup, CacheInv, FlushListFlushable, Flushable, Unreferenced
  <2> QED
    BY <1>10, <2>2, <2>3, NoBufType DEF ext4_bcache_cleanup, CacheInv, TypeOK, DirtyUpToDate, UncachedEmpty,
       CleanMatchesDisk, FlushListFlushable, Dirty, UpToDate
<1>11. CASE UNCHANGED vars
  BY <1>11 DEF vars, CacheInv, TypeOK, DirtyUpToDate, UncachedEmpty, CleanMatchesDisk,
     FlushListFlushable, Flushable, Unreferenced, Dirty, UpToDate
<1>12. CASE ext4_block_cache_flush
  BY <1>9, <1>12 DEF ext4_block_cache_flush, CacheInv, TypeOK
<1>13. ASSUME NEW on \in BOOLEAN, ext4_block_cache_write_back(on) PROVE CacheInv'
  <2>1. writeBack' \in Nat
    BY <1>13 DEF ext4_block_cache_write_back, CacheInv, TypeOK
  <2>2. \/ UNCHANGED <<disk, cached, buf, dirtyList, older>>
        \/ \E F \in SUBSET dirtyList : FlushList(F)
    BY <1>13 DEF ext4_block_cache_write_back
  <2>3. CASE UNCHANGED <<disk, cached, buf, dirtyList, older>>
    BY <2>1, <2>3 DEF CacheInv, TypeOK, DirtyUpToDate, UncachedEmpty, CleanMatchesDisk,
       FlushListFlushable, Flushable, Unreferenced, Dirty, UpToDate
  <2> QED
    BY <1>9, <2>1, <2>2, <2>3
<1>14. \A cnt \in 1 .. Cardinality(Lba) : cnt \in Nat
  OBVIOUS
<1> QED
  BY <1>1, <1>2, <1>3, <1>4, <1>5, <1>6, <1>7, <1>8, <1>10, <1>11, <1>12, <1>13, <1>14 DEF Next

(* The block cache never confuses its bookkeeping: types hold, a clean
   buffer equals its block on the device, and the dirty list holds only
   buffers that ext4_block_cache_flush can flush. *)
THEOREM CacheSafe == Spec => [](TypeOK /\ CleanMatchesDisk /\ FlushListFlushable)
<1>1. CacheInv => TypeOK /\ CleanMatchesDisk /\ FlushListFlushable
  BY DEF CacheInv
<1> QED
  BY <1>1, InitInv, StepInv, PTL DEF Spec

(* Every variable of the cache keeps its type, whichever calls of ext4_bcache.c
   and ext4_blockdev.c follow each other and whichever of them fail. *)
THEOREM CacheTypes == Spec => []TypeOK
BY CacheSafe, PTL

(* ext4_block_cache_flush always finds a buffer it can flush at the head of
   the dirty list, so its loop shortens the list with every write that
   succeeds; this holds through device errors too. *)
THEOREM FlushListSound == Spec => []FlushListFlushable
BY CacheSafe, PTL

-----------------------------------------------------------------------------
(* The cache implements the block store. *)

(* What a reader of block k sees in a cache state given as a record. *)
MemOf(s, k) ==
  IF k \in s.cached /\ "UPTODATE" \in s.buf[k].flags THEN s.buf[k].data ELSE s.disk[k]

(* A step that saves the blocks of S and loses the unsaved contents of D. *)
LEMMA SettleStep ==
  ASSUME CacheInv, CacheInv', NEW S \in SUBSET Lba, NEW D \in SUBSET (Lba \ S),
         \A k \in Lba : disk'[k] = IF k \in S THEN Mem(k) ELSE disk[k],
         \A k \in Lba : Mem(k)' = IF k \in D THEN disk[k] ELSE Mem(k)
  PROVE  Store!Next
<1>1. disk' = [k \in Lba |-> IF k \in S THEN Mem(k) ELSE disk[k]]
  BY DEF CacheInv, TypeOK
<1>2. Store!Settle(S, D)
  BY <1>1 DEF Store!Settle
<1> QED
  BY <1>2 DEF Store!Next

(* Flushing and dropping buffers hides nothing from a reader. *)
LEMMA ShakeMem ==
  ASSUME CacheInv, NEW V \in SUBSET Lba, NEW k \in Lba
  PROVE  /\ MemOf(Shake(V), k) = Mem(k)
         /\ Shake(V).disk[k] = IF k \in {l \in V \cap cached : Flushable(l)} THEN Mem(k) ELSE disk[k]
BY NoBufType DEF CacheInv, TypeOK, DirtyUpToDate, UncachedEmpty, CleanMatchesDisk,
   Shake, Flushed, Flushable, MemOf, Mem, Dirty, UpToDate

(* Taking a reference changes neither the device nor what a reader sees. *)
LEMMA AllocMem ==
  ASSUME NEW s, StateInv(s), NEW l \in Lba, NEW g \in Data, NEW k \in Lba
  PROVE  MemOf(Alloc(s, l, g), k) = MemOf(s, k) /\ Alloc(s, l, g).disk = s.disk
BY NoBufType DEF StateInv, Alloc, MemOf

(* Nor does reading a buffer that is not up to date. *)
LEMMA RefreshMem ==
  ASSUME NEW s, StateInv(s), NEW l \in Lba, NEW k \in Lba
  PROVE  l \in s.cached => MemOf(Refresh(s, l), k) = MemOf(s, k) /\ Refresh(s, l).disk = s.disk
BY DEF StateInv, Refresh, MemOf

(* A step to a state given as a record that shows what Shake(V) shows. *)
LEMMA ShakeStep ==
  ASSUME CacheInv, CacheInv', NEW V \in SUBSET Lba, NEW s, Becomes(s),
         s.disk = Shake(V).disk,
         \A k \in Lba : MemOf(s, k) = MemOf(Shake(V), k)
  PROVE  Store!Next
<1> DEFINE S == {l \in V \cap cached : Flushable(l)}
<1>1. \A k \in Lba : disk'[k] = IF k \in S THEN Mem(k) ELSE disk[k]
  BY ShakeMem DEF Becomes
<1>2. \A k \in Lba : Mem(k)' = Mem(k)
  BY ShakeMem DEF Becomes, MemOf, Mem, UpToDate
<1>3. S \in SUBSET Lba /\ {} \in SUBSET (Lba \ S)
  OBVIOUS
<1> HIDE DEF S
<1> QED
  BY <1>1, <1>2, <1>3, SettleStep

(* A step that changes one buffer and at most its block on the device, and
   either saves the block, or loses its unsaved contents, or does neither. *)
LEMMA LocalStep ==
  ASSUME CacheInv, CacheInv', NEW l \in Lba,
         \A k \in Lba \ {l} : Mem(k)' = Mem(k) /\ disk'[k] = disk[k],
         \/ disk'[l] = disk[l] /\ Mem(l)' \in {Mem(l), disk[l]}
         \/ disk'[l] = Mem(l) /\ Mem(l)' = Mem(l)
  PROVE  Store!Next
<1> DEFINE S == IF disk'[l] = disk[l] THEN {} ELSE {l}
           D == IF Mem(l)' = Mem(l) THEN {} ELSE {l}
<1>1. \A k \in Lba : disk'[k] = IF k \in S THEN Mem(k) ELSE disk[k]
  OBVIOUS
<1>2. \A k \in Lba : Mem(k)' = IF k \in D THEN disk[k] ELSE Mem(k)
  OBVIOUS
<1>3. S \in SUBSET Lba /\ D \in SUBSET (Lba \ S)
  OBVIOUS
<1> HIDE DEF S, D
<1> QED
  BY <1>1, <1>2, <1>3, SettleStep

(* Every step of the cache is a step of the block store. *)
LEMMA StoreStep == CacheInv /\ CacheInv' /\ [Next]_vars => [Store!Next]_<<[l \in Lba |-> Mem(l)], disk>>
<1> SUFFICES ASSUME CacheInv, CacheInv', [Next]_vars
             PROVE  Store!Next \/ UNCHANGED <<[l \in Lba |-> Mem(l)], disk>>
  OBVIOUS
<1>1. ASSUME NEW l \in Lba, ext4_block_get(l) PROVE Store!Next
  <2>1. PICK V \in SUBSET Unreferenced : Becomes(Refresh(Alloc(Shake(V), l, disk[l]), l))
    BY <1>1 DEF ext4_block_get
  <2> DEFINE t == Alloc(Shake(V), l, disk[l])
  <2>2. V \in SUBSET Lba /\ disk[l] \in Data
    BY DEF Unreferenced, CacheInv, TypeOK
  <2>3. StateInv(Shake(V))
    BY <2>2, ShakeInv
  <2>4. StateInv(t) /\ l \in t.cached
    BY <2>2, <2>3, AllocInv DEF Alloc
  <2>5. \A k \in Lba : MemOf(t, k) = MemOf(Shake(V), k) /\ t.disk = Shake(V).disk
    BY <2>2, <2>3, AllocMem
  <2> HIDE DEF t
  <2>6. \A k \in Lba : MemOf(Refresh(t, l), k) = MemOf(t, k) /\ Refresh(t, l).disk = t.disk
    BY <2>4, RefreshMem
  <2>7. Becomes(Refresh(t, l))
    BY <2>1 DEF t
  <2> QED
    BY <2>2, <2>5, <2>6, <2>7, ShakeStep
<1>2. ASSUME NEW l \in Lba, ext4_block_get_noread(l) PROVE Store!Next
  <2>1. PICK V \in SUBSET Unreferenced, g \in Data : Becomes(Alloc(Shake(V), l, g))
    BY <1>2 DEF ext4_block_get_noread
  <2>2. V \in SUBSET Lba
    BY DEF Unreferenced, CacheInv, TypeOK
  <2>3. \A k \in Lba : /\ MemOf(Alloc(Shake(V), l, g), k) = MemOf(Shake(V), k)
                       /\ Alloc(Shake(V), l, g).disk = Shake(V).disk
    BY <2>2, ShakeInv, AllocMem
  <2> QED
    BY <2>1, <2>2, <2>3, ShakeStep
<1>3. ASSUME NEW l \in Lba, ext4_block_get_fails(l) PROVE Store!Next
  <2>1. PICK V \in SUBSET Unreferenced :
          \/ Becomes(Shake(V))
          \/ ~UpToDate(l) /\ Becomes([Shake(V \cup {l}) EXCEPT !.disk = Flushed(V)])
          \/ Becomes([Shake(V) EXCEPT !.disk = Flushed(V)])
    BY <1>3 DEF ext4_block_get_fails
  <2>2. V \in SUBSET Lba /\ V \cup {l} \in SUBSET Lba
    BY DEF Unreferenced, CacheInv, TypeOK
  <2>3. [Shake(V) EXCEPT !.disk = Flushed(V)] = Shake(V)
    BY DEF Shake
  <2>4. ~UpToDate(l) => [Shake(V \cup {l}) EXCEPT !.disk = Flushed(V)] = Shake(V \cup {l})
    <3>1. ~UpToDate(l) => Flushed(V \cup {l}) = Flushed(V)
      BY DEF Flushed, Flushable
    <3> QED
      BY <3>1 DEF Shake
  <2> QED
    BY <2>1, <2>2, <2>3, <2>4, ShakeStep
<1>4. ASSUME NEW l \in Lba, NEW v \in Data, ext4_bcache_set_dirty(l, v) PROVE Store!Next
  <2>1. l \in cached
    BY <1>4, NoBufType DEF ext4_bcache_set_dirty, CacheInv, UncachedEmpty
  <2>2. disk' = disk /\ \A k \in Lba : Mem(k)' = IF k = l THEN v ELSE Mem(k)
    BY <1>4, <2>1 DEF ext4_bcache_set_dirty, CacheInv, TypeOK, Mem, UpToDate
  <2>3. Store!Put(l, v)
    BY <2>2 DEF Store!Put
  <2> QED
    BY <2>3 DEF Store!Next
<1>5. ASSUME NEW l \in Lba, NEW f \in {{"FLUSH"}, {"FLUSH", "TMP"}}, jbd_block_flags(l, f) PROVE Store!Next
  <2>1. disk' = disk /\ \A k \in Lba : Mem(k)' = Mem(k)
    BY <1>5 DEF jbd_block_flags, CacheInv, TypeOK, Buf, Mem, UpToDate
  <2> QED
    BY <2>1, LocalStep
<1>6. ASSUME NEW l \in Lba, ext4_bcache_free(l) PROVE Store!Next
  <2>1. l \in cached
    BY <1>6, NoBufType DEF ext4_bcache_free, CacheInv, UncachedEmpty
  <2>2. CASE buf[l].refctr > 1
    <3>1. disk' = disk /\ \A k \in Lba : Mem(k)' = Mem(k)
      BY <1>6, <2>2 DEF ext4_bcache_free, CacheInv, TypeOK, Buf, Mem, UpToDate
    <3> QED
      BY <3>1, LocalStep
  <2>3. CASE buf[l].refctr = 1
    <3>1. PICK ok \in BOOLEAN : LastPut(l, ok)
      BY <1>6, <2>3 DEF ext4_bcache_free
    <3>2. \A k \in Lba \ {l} : Mem(k)' = Mem(k) /\ disk'[k] = disk[k]
      BY <3>1 DEF LastPut, CacheInv, TypeOK, Mem, UpToDate
    <3>3. \/ disk'[l] = disk[l] /\ Mem(l)' \in {Mem(l), disk[l]}
          \/ disk'[l] = Mem(l) /\ Mem(l)' = Mem(l)
      BY <2>1, <3>1, NoBufType DEF LastPut, CacheInv, TypeOK, Mem, UpToDate
    <3> QED
      BY <3>2, <3>3, LocalStep
  <2> QED
    BY <1>6, <2>2, <2>3 DEF ext4_bcache_free
<1>7. ASSUME NEW l \in Lba, ext4_block_flush_lba(l) PROVE Store!Next
  <2>1. l \in cached
    BY <1>7 DEF ext4_block_flush_lba
  <2>2. PICK r1, r2 \in BOOLEAN : FlushLba(l, r1, r2)
    BY <1>7 DEF ext4_block_flush_lba
  <2>3. \A k \in Lba \ {l} : Mem(k)' = Mem(k) /\ disk'[k] = disk[k]
    BY <2>2 DEF FlushLba, CacheInv, TypeOK, Mem, UpToDate
  <2>4. \/ disk'[l] = disk[l] /\ Mem(l)' \in {Mem(l), disk[l]}
        \/ disk'[l] = Mem(l) /\ Mem(l)' = Mem(l)
    BY <2>1, <2>2, NoBufType DEF FlushLba, Flushable, CacheInv, TypeOK, Mem, UpToDate
  <2> QED
    BY <2>3, <2>4, LocalStep
<1>8. ASSUME NEW l \in Lba, NEW cnt \in Nat, ext4_bcache_invalidate_lba(l, cnt) PROVE Store!Next
  <2> DEFINE R == Invalidated(l, cnt)
             N == {}
  <2>1. /\ buf' = [k \in Lba |-> IF k \in R THEN [buf[k] EXCEPT !.flags = @ \ {"DIRTY", "UPTODATE"}]
                                 ELSE buf[k]]
        /\ UNCHANGED <<disk, cached>>
    BY <1>8 DEF ext4_bcache_invalidate_lba
  <2>2. N \in SUBSET Lba /\ R \in SUBSET (Lba \ N)
    BY DEF Invalidated, CacheInv, TypeOK
  <2> HIDE DEF R
  <2>3. \A k \in Lba : disk'[k] = IF k \in N THEN Mem(k) ELSE disk[k]
    BY <2>1
  <2>4. \A k \in Lba : Mem(k)' = IF k \in R THEN disk[k] ELSE Mem(k)
    BY <2>1 DEF CacheInv, TypeOK, Buf, Mem, UpToDate
  <2> HIDE DEF N
  <2> QED
    BY <2>2, <2>3, <2>4, SettleStep
<1>9. ASSUME NEW F \in SUBSET dirtyList, FlushList(F) PROVE Store!Next
  <2>1. /\ \A l \in F : Flushable(l) /\ l \in cached
        /\ disk' = Flushed(F)
        /\ buf' = [l \in Lba |-> IF l \in F THEN [buf[l] EXCEPT !.flags = @ \ {"DIRTY"}] ELSE buf[l]]
        /\ cached' = cached
    BY <1>9 DEF FlushList, CacheInv, FlushListFlushable, Unreferenced
  <2> DEFINE N == {}
  <2>2. F \in SUBSET Lba /\ N \in SUBSET (Lba \ F)
    BY DEF CacheInv, TypeOK
  <2>3. \A k \in Lba : disk'[k] = IF k \in F THEN Mem(k) ELSE disk[k]
    BY <2>1 DEF Flushed, Flushable, CacheInv, TypeOK, Mem
  <2>4. \A k \in Lba : /\ buf'[k].data = buf[k].data
                       /\ "UPTODATE" \in buf'[k].flags <=> "UPTODATE" \in buf[k].flags
    BY <2>1 DEF CacheInv, TypeOK, Buf
  <2>5. \A k \in Lba : Mem(k)' = IF k \in N THEN disk[k] ELSE Mem(k)
    BY <2>1, <2>3, <2>4 DEF Mem, Flushable, UpToDate
  <2> HIDE DEF N
  <2> QED
    BY <2>2, <2>3, <2>5, SettleStep
<1>10. CASE ext4_bcache_cleanup
  <2>1. PICK L \in SUBSET {l \in cached : Flushable(l)} : disk' = Flushed(cached \ L)
    BY <1>10 DEF ext4_bcache_cleanup
  <2> DEFINE S == {l \in cached \ L : Flushable(l)}
  <2>2. S \in SUBSET Lba /\ L \in SUBSET (Lba \ S)
    BY DEF CacheInv, TypeOK
  <2>3. \A k \in Lba : disk'[k] = IF k \in S THEN Mem(k) ELSE disk[k]
    BY <2>1 DEF Flushed, Flushable, Mem
  <2>4. \A k \in Lba : Mem(k)' = disk'[k]
    BY <1>10 DEF ext4_bcache_cleanup, Mem
  <2>5. \A k \in Lba : k \notin S /\ k \notin L => Mem(k) = disk[k]
    BY DEF CacheInv, CleanMatchesDisk, Mem, Flushable
  <2>6. \A k \in Lba : Mem(k)' = IF k \in L THEN disk[k] ELSE Mem(k)
    BY <2>2, <2>3, <2>4, <2>5
  <2> HIDE DEF S
  <2> QED
    BY <2>2, <2>3, <2>6, SettleStep
<1>11. CASE UNCHANGED vars
  BY <1>11 DEF vars, Mem, UpToDate
<1>12. CASE ext4_block_cache_flush
  BY <1>9, <1>12 DEF ext4_block_cache_flush
<1>13. ASSUME NEW on \in BOOLEAN, ext4_block_cache_write_back(on)
       PROVE  Store!Next \/ UNCHANGED <<[l \in Lba |-> Mem(l)], disk>>
  <2>1. \/ UNCHANGED <<disk, cached, buf, dirtyList, older>>
        \/ \E F \in SUBSET dirtyList : FlushList(F)
    BY <1>13 DEF ext4_block_cache_write_back
  <2>2. CASE UNCHANGED <<disk, cached, buf, dirtyList, older>>
    BY <2>2 DEF Mem, UpToDate
  <2> QED
    BY <1>9, <2>1, <2>2
<1>14. \A cnt \in 1 .. Cardinality(Lba) : cnt \in Nat
  OBVIOUS
<1> QED
  BY <1>1, <1>2, <1>3, <1>4, <1>5, <1>6, <1>7, <1>8, <1>10, <1>11, <1>12, <1>13, <1>14 DEF Next

(* The block cache implements the block store: a block's current contents
   change only by a write of a holder, or fall back to the device's when they
   are discarded, and the device only receives current contents. *)
THEOREM CacheImplementsStore == Spec => StoreSpec
<1>1. Init => Store!Init
  BY DEF Init, Store!Init, Mem
<1> QED
  BY <1>1, InitInv, StepInv, StoreStep, PTL DEF Spec, StoreSpec, Store!Spec

-----------------------------------------------------------------------------
(* The order of the lru tree, the buffers the dirty list must not miss, what
   eviction saves, and the size of the cache. *)

(* The lru order, read off a cache state given as a record. *)
StateLru(s) ==
  /\ \A p \in s.older : p[1] \in s.cached /\ p[2] \in s.cached /\ <<p[2], p[1]>> \notin s.older
  /\ \A k, l \in s.cached : k = l \/ <<k, l>> \in s.older \/ <<l, k>> \in s.older

(* Dropping buffers keeps the order of the others. *)
LEMMA ShakeLru ==
  ASSUME CacheInv, LruTotal, NEW V \in SUBSET Lba
  PROVE  StateLru(Shake(V))
<1>1. Shake(V).cached = cached \ V /\ Shake(V).older = Forget(V)
  BY DEF Shake
<1>2. \A p \in Forget(V) : p[1] \in cached \ V /\ p[2] \in cached \ V /\ <<p[2], p[1]>> \notin Forget(V)
  BY DEF Forget, LruTotal
<1>3. \A k, l \in cached \ V : k = l \/ <<k, l>> \in Forget(V) \/ <<l, k>> \in Forget(V)
  BY DEF Forget, LruTotal
<1> QED
  BY <1>1, <1>2, <1>3 DEF StateLru

(* A buffer that is referenced first becomes the newest of all. *)
LEMMA NewestLru ==
  ASSUME NEW C \in SUBSET Lba, NEW R \in SUBSET (Lba \X Lba), NEW l \in Lba,
         \A p \in R : p[1] \in C /\ p[2] \in C /\ <<p[2], p[1]>> \notin R,
         \A k, m \in C : k = m \/ <<k, m>> \in R \/ <<m, k>> \in R
  PROVE  /\ \A p \in Newest(R, l, C) : /\ p[1] \in C \cup {l} /\ p[2] \in C \cup {l}
                                       /\ <<p[2], p[1]>> \notin Newest(R, l, C)
         /\ \A k, m \in C \cup {l} : k = m \/ <<k, m>> \in Newest(R, l, C) \/ <<m, k>> \in Newest(R, l, C)
BY DEF Newest

(* Taking a reference keeps the order total. *)
LEMMA AllocLru ==
  ASSUME NEW s, StateInv(s), StateLru(s), NEW l \in Lba, NEW g \in Data
  PROVE  StateLru(Alloc(s, l, g))
<1> DEFINE t == Alloc(s, l, g)
<1>1. /\ t.cached = s.cached \cup {l}
      /\ t.older = IF s.buf[l].refctr = 0 THEN Newest(s.older, l, s.cached) ELSE s.older
  BY DEF Alloc
<1>2. s.cached \in SUBSET Lba /\ s.older \in SUBSET (Lba \X Lba)
  BY DEF StateInv
<1> HIDE DEF t
<1> SUFFICES StateLru(t)
  BY DEF t
<1>3. CASE s.buf[l].refctr = 0
  <2> DEFINE C == s.cached
             R == s.older
  <2>1. /\ \A p \in R : p[1] \in C /\ p[2] \in C /\ <<p[2], p[1]>> \notin R
        /\ \A k, m \in C : k = m \/ <<k, m>> \in R \/ <<m, k>> \in R
        /\ C \in SUBSET Lba /\ R \in SUBSET (Lba \X Lba)
    BY <1>2 DEF StateLru
  <2>2. t.cached = C \cup {l} /\ t.older = Newest(R, l, C)
    BY <1>1, <1>3
  <2> HIDE DEF C, R
  <2>3. /\ \A p \in Newest(R, l, C) : /\ p[1] \in C \cup {l} /\ p[2] \in C \cup {l}
                                       /\ <<p[2], p[1]>> \notin Newest(R, l, C)
        /\ \A k, m \in C \cup {l} : k = m \/ <<k, m>> \in Newest(R, l, C) \/ <<m, k>> \in Newest(R, l, C)
    BY <2>1, NewestLru
  <2> QED
    BY <2>2, <2>3 DEF StateLru
<1>4. CASE s.buf[l].refctr # 0
  <2>1. l \in s.cached
    BY <1>4, NoBufType DEF StateInv
  <2> QED
    BY <1>1, <1>4, <2>1 DEF StateLru
<1> QED
  BY <1>3, <1>4

(* Reading a buffer does not touch the order. *)
LEMMA RefreshLru ==
  ASSUME NEW s, StateLru(s), NEW l \in Lba
  PROVE  StateLru(Refresh(s, l))
BY DEF StateLru, Refresh

(* A step to a state whose order is total. *)
LEMMA BecomesLru ==
  ASSUME NEW s, StateLru(s), Becomes(s)
  PROVE  LruTotal'
BY DEF StateLru, Becomes, LruTotal

(* A step that drops one buffer, makes it the newest or leaves the order. *)
LEMMA LocalLru ==
  ASSUME CacheInv, LruTotal, NEW l \in cached,
         \/ cached' = cached \ {l} /\ older' = Forget({l})
         \/ cached' = cached /\ older' = Newest(older, l, cached)
         \/ cached' = cached /\ older' = older
  PROVE  LruTotal'
<1>1. CASE cached' = cached \ {l} /\ older' = Forget({l})
  BY <1>1 DEF LruTotal, Forget
<1>2. CASE cached' = cached /\ older' = Newest(older, l, cached)
  <2>1. cached \in SUBSET Lba /\ older \in SUBSET (Lba \X Lba) /\ l \in Lba /\ cached \cup {l} = cached
    BY DEF CacheInv, TypeOK
  <2>2. /\ \A p \in Newest(older, l, cached) : /\ p[1] \in cached /\ p[2] \in cached
                                               /\ <<p[2], p[1]>> \notin Newest(older, l, cached)
        /\ \A k, m \in cached : \/ k = m \/ <<k, m>> \in Newest(older, l, cached)
                                \/ <<m, k>> \in Newest(older, l, cached)
    BY <2>1, NewestLru DEF LruTotal
  <2> QED
    BY <1>2, <2>2 DEF LruTotal
<1>3. CASE cached' = cached /\ older' = older
  BY <1>3 DEF LruTotal
<1> QED
  BY <1>1, <1>2, <1>3

(* Every step keeps the lru order total. *)
LEMMA StepLru == CacheInv /\ LruTotal /\ [Next]_vars => LruTotal'
<1> SUFFICES ASSUME CacheInv, LruTotal, [Next]_vars PROVE LruTotal'
  OBVIOUS
<1>1. ASSUME NEW l \in Lba, ext4_block_get(l) PROVE LruTotal'
  <2>1. PICK V \in SUBSET Unreferenced : Becomes(Refresh(Alloc(Shake(V), l, disk[l]), l))
    BY <1>1 DEF ext4_block_get
  <2>2. V \in SUBSET Lba /\ disk[l] \in Data
    BY DEF Unreferenced, CacheInv, TypeOK
  <2>3. StateInv(Shake(V)) /\ StateLru(Shake(V))
    BY <2>2, ShakeInv, ShakeLru
  <2>4. StateLru(Alloc(Shake(V), l, disk[l]))
    BY <2>2, <2>3, AllocLru
  <2> QED
    BY <2>1, <2>4, RefreshLru, BecomesLru
<1>2. ASSUME NEW l \in Lba, ext4_block_get_noread(l) PROVE LruTotal'
  <2>1. PICK V \in SUBSET Unreferenced, g \in Data : Becomes(Alloc(Shake(V), l, g))
    BY <1>2 DEF ext4_block_get_noread
  <2>2. V \in SUBSET Lba
    BY DEF Unreferenced, CacheInv, TypeOK
  <2>3. StateInv(Shake(V)) /\ StateLru(Shake(V))
    BY <2>2, ShakeInv, ShakeLru
  <2> QED
    BY <2>1, <2>3, AllocLru, BecomesLru
<1>3. ASSUME NEW l \in Lba, ext4_block_get_fails(l) PROVE LruTotal'
  <2>1. PICK V \in SUBSET Unreferenced :
          \/ Becomes(Shake(V))
          \/ Becomes([Shake(V \cup {l}) EXCEPT !.disk = Flushed(V)])
          \/ Becomes([Shake(V) EXCEPT !.disk = Flushed(V)])
    BY <1>3 DEF ext4_block_get_fails
  <2>2. V \in SUBSET Lba /\ V \cup {l} \in SUBSET Lba
    BY DEF Unreferenced, CacheInv, TypeOK
  <2>3. StateLru(Shake(V)) /\ StateLru(Shake(V \cup {l}))
    BY <2>2, ShakeLru
  <2>4. /\ StateLru([Shake(V) EXCEPT !.disk = Flushed(V)])
        /\ StateLru([Shake(V \cup {l}) EXCEPT !.disk = Flushed(V)])
    BY <2>3 DEF StateLru, Shake
  <2> QED
    BY <2>1, <2>3, <2>4, BecomesLru
<1>4. ASSUME NEW l \in Lba, ext4_bcache_free(l) PROVE LruTotal'
  <2>1. l \in cached
    BY <1>4, NoBufType DEF ext4_bcache_free, CacheInv, UncachedEmpty
  <2>2. \/ cached' = cached \ {l} /\ older' = Forget({l})
        \/ cached' = cached /\ older' = older
    BY <1>4 DEF ext4_bcache_free, LastPut
  <2> QED
    BY <2>1, <2>2, LocalLru
<1>5. ASSUME NEW l \in Lba, ext4_block_flush_lba(l) PROVE LruTotal'
  <2>1. l \in cached
    BY <1>5 DEF ext4_block_flush_lba
  <2>2. \/ cached' = cached \ {l} /\ older' = Forget({l})
        \/ cached' = cached /\ older' = Newest(older, l, cached)
        \/ cached' = cached /\ older' = older
    BY <1>5 DEF ext4_block_flush_lba, FlushLba
  <2> QED
    BY <2>1, <2>2, LocalLru
<1>6. CASE ext4_bcache_cleanup
  BY <1>6 DEF ext4_bcache_cleanup, LruTotal
<1>7. CASE UNCHANGED <<cached, older>>
  BY <1>7 DEF LruTotal
<1>8. ASSUME NEW l \in Lba,
             \/ \E v \in Data : ext4_bcache_set_dirty(l, v)
             \/ \E f \in {{"FLUSH"}, {"FLUSH", "TMP"}} : jbd_block_flags(l, f)
             \/ \E cnt \in 1 .. Cardinality(Lba) : ext4_bcache_invalidate_lba(l, cnt)
      PROVE  UNCHANGED <<cached, older>>
  BY <1>8 DEF ext4_bcache_set_dirty, jbd_block_flags, ext4_bcache_invalidate_lba
<1>9. ASSUME \/ ext4_block_cache_flush
             \/ \E on \in BOOLEAN : ext4_block_cache_write_back(on)
             \/ UNCHANGED vars
      PROVE  UNCHANGED <<cached, older>>
  BY <1>9 DEF ext4_block_cache_flush, ext4_block_cache_write_back, FlushList, vars
<1> QED
  BY <1>1, <1>2, <1>3, <1>4, <1>5, <1>6, <1>7, <1>8, <1>9 DEF Next

(* ext4_buf_lowest_lru always finds exactly one victim. *)
THEOREM LruOrder == Spec => []LruTotal
<1>1. Init => LruTotal
  BY DEF Init, LruTotal
<1> QED
  BY <1>1, InitInv, StepInv, StepLru, PTL DEF Spec

-----------------------------------------------------------------------------
(* Without device errors: what the dirty list tracks, and what it leaves     *)
(* behind.                                                                   *)

(* The strengthening: in write-through mode nothing waits on the list. *)
WriteThroughEmpty == writeBack = 0 => dirtyList = {}

Tracked == DirtyTracked /\ WriteThroughEmpty

(* The dirty list of a cache state given as a record misses no buffer that
   is dirty and unreferenced. *)
StateTracked(s) ==
  /\ \A k \in s.cached : s.buf[k].refctr = 0 /\ "DIRTY" \in s.buf[k].flags => k \in s.dirtyList
  /\ s.dirtyList \subseteq dirtyList

(* Dropping buffers leaves the others tracked. *)
LEMMA ShakeTracked ==
  ASSUME CacheInv, DirtyTracked, NEW V \in SUBSET Lba
  PROVE  StateTracked(Shake(V))
<1>1. /\ Shake(V).cached = cached \ V
      /\ Shake(V).buf = [l \in Lba |-> IF l \in V THEN NoBuf ELSE buf[l]]
      /\ Shake(V).dirtyList = dirtyList \ {l \in V : Dirty(l)}
  BY DEF Shake
<1>2. \A k \in cached \ V : k \in Lba /\ Shake(V).buf[k] = buf[k]
  BY <1>1 DEF CacheInv, TypeOK
<1> QED
  BY <1>1, <1>2 DEF StateTracked, DirtyTracked, Unreferenced, Dirty

(* A buffer that is referenced need not be on the list. *)
LEMMA AllocTracked ==
  ASSUME NEW s, StateInv(s), StateTracked(s), NEW l \in Lba, NEW g \in Data
  PROVE  StateTracked(Alloc(s, l, g))
<1> DEFINE t == Alloc(s, l, g)
           b == [data |-> IF l \notin s.cached THEN g ELSE s.buf[l].data,
                 flags |-> s.buf[l].flags, refctr |-> s.buf[l].refctr + 1]
<1>1. /\ t.cached = s.cached \cup {l}
      /\ t.buf = [s.buf EXCEPT ![l] = b]
      /\ t.dirtyList = IF s.buf[l].refctr = 0 /\ "DIRTY" \in s.buf[l].flags
                       THEN s.dirtyList \ {l} ELSE s.dirtyList
  BY DEF Alloc
<1>2. b.refctr # 0
  BY DEF StateInv, Buf
<1> HIDE DEF t, b
<1> SUFFICES StateTracked(t)
  BY DEF t
<1>3. \A k \in t.cached : t.buf[k] = IF k = l THEN b ELSE s.buf[k]
  BY <1>1 DEF StateInv
<1> QED
  BY <1>1, <1>2, <1>3 DEF StateTracked

(* Nor does reading a buffer that has a reference make it one to track. *)
LEMMA RefreshTracked ==
  ASSUME NEW s, StateInv(s), StateTracked(s), NEW l \in Lba
  PROVE  StateTracked(Refresh(s, l))
<1> DEFINE t == Refresh(s, l)
           b == [data |-> IF "UPTODATE" \in s.buf[l].flags THEN s.buf[l].data ELSE s.disk[l],
                 flags |-> s.buf[l].flags \cup {"UPTODATE"}, refctr |-> s.buf[l].refctr]
<1>1. t.cached = s.cached /\ t.buf = [s.buf EXCEPT ![l] = b] /\ t.dirtyList = s.dirtyList
  BY DEF Refresh
<1>2. b.refctr = s.buf[l].refctr /\ ("DIRTY" \in b.flags <=> "DIRTY" \in s.buf[l].flags)
  OBVIOUS
<1> HIDE DEF t, b
<1> SUFFICES StateTracked(t)
  BY DEF t
<1>3. \A k \in s.cached : t.buf[k] = IF k = l THEN b ELSE s.buf[k]
  BY <1>1 DEF StateInv
<1> QED
  BY <1>1, <1>2, <1>3 DEF StateTracked

(* A step to a state that misses none. *)
LEMMA BecomesTracked ==
  ASSUME WriteThroughEmpty, NEW s, StateTracked(s), Becomes(s), UNCHANGED writeBack
  PROVE  Tracked'
BY DEF StateTracked, Becomes, Tracked, DirtyTracked, WriteThroughEmpty, Unreferenced, Dirty

(* A step that changes one buffer. *)
LEMMA LocalTracked ==
  ASSUME CacheInv, Tracked, NEW l \in Lba, cached' \subseteq cached,
         \A k \in cached' \ {l} : buf'[k] = buf[k],
         \A k \in dirtyList \ {l} : k \in dirtyList',
         l \in cached' /\ buf'[l].refctr = 0 /\ "DIRTY" \in buf'[l].flags => l \in dirtyList',
         dirtyList' \subseteq dirtyList \/ writeBack > 0,
         UNCHANGED writeBack
  PROVE  Tracked'
<1>1. DirtyTracked'
  BY DEF Tracked, DirtyTracked, Unreferenced, Dirty
<1>2. WriteThroughEmpty'
  BY DEF CacheInv, TypeOK, Tracked, WriteThroughEmpty
<1> QED
  BY <1>1, <1>2 DEF Tracked

(* Every step keeps the dirty buffers tracked. *)
LEMMA StepTracked ==
  ASSUME ~Faults
  PROVE  CacheInv /\ Tracked /\ [Next]_vars => Tracked'
<1> SUFFICES ASSUME CacheInv, Tracked, [Next]_vars PROVE Tracked'
  OBVIOUS
<1> USE DEF Tracked
<1>1. ASSUME NEW l \in Lba, ext4_block_get(l) PROVE Tracked'
  <2>1. PICK V \in SUBSET Unreferenced : Becomes(Refresh(Alloc(Shake(V), l, disk[l]), l))
    BY <1>1 DEF ext4_block_get
  <2>2. V \in SUBSET Lba /\ disk[l] \in Data
    BY DEF Unreferenced, CacheInv, TypeOK
  <2> DEFINE s == Shake(V)
             t == Alloc(s, l, disk[l])
  <2>3. StateInv(s) /\ StateTracked(s)
    BY <2>2, ShakeInv, ShakeTracked
  <2> HIDE DEF s
  <2>4. StateInv(t) /\ StateTracked(t)
    BY <2>2, <2>3, AllocInv, AllocTracked
  <2> HIDE DEF t
  <2>5. StateTracked(Refresh(t, l)) /\ Becomes(Refresh(t, l))
    BY <2>1, <2>4, RefreshTracked DEF s, t
  <2> QED
    BY <1>1, <2>5, BecomesTracked DEF ext4_block_get
<1>2. ASSUME NEW l \in Lba, ext4_block_get_noread(l) PROVE Tracked'
  <2>1. PICK V \in SUBSET Unreferenced, g \in Data : Becomes(Alloc(Shake(V), l, g))
    BY <1>2 DEF ext4_block_get_noread
  <2>2. V \in SUBSET Lba
    BY DEF Unreferenced, CacheInv, TypeOK
  <2>3. StateInv(Shake(V)) /\ StateTracked(Shake(V))
    BY <2>2, ShakeInv, ShakeTracked
  <2>4. StateTracked(Alloc(Shake(V), l, g))
    BY <2>3, AllocTracked
  <2> QED
    BY <1>2, <2>1, <2>4, BecomesTracked DEF ext4_block_get_noread
<1>3. ASSUME NEW l \in Lba, ext4_block_get_fails(l) PROVE FALSE
  BY <1>3 DEF ext4_block_get_fails
<1>4. ASSUME NEW l \in Lba, NEW v \in Data, ext4_bcache_set_dirty(l, v) PROVE Tracked'
  <2>1. /\ cached' = cached /\ dirtyList' = dirtyList /\ UNCHANGED writeBack
        /\ \A k \in cached' \ {l} : buf'[k] = buf[k]
        /\ buf'[l].refctr = buf[l].refctr /\ buf[l].refctr # 0
    BY <1>4 DEF ext4_bcache_set_dirty, CacheInv, TypeOK
  <2> QED
    BY <2>1, LocalTracked
<1>5. ASSUME NEW l \in Lba, NEW f \in {{"FLUSH"}, {"FLUSH", "TMP"}}, jbd_block_flags(l, f) PROVE Tracked'
  <2>1. /\ cached' = cached /\ dirtyList' = dirtyList /\ UNCHANGED writeBack
        /\ \A k \in cached' \ {l} : buf'[k] = buf[k]
        /\ buf'[l].refctr = buf[l].refctr /\ buf[l].refctr # 0
    BY <1>5 DEF jbd_block_flags, CacheInv, TypeOK, Buf
  <2> QED
    BY <2>1, LocalTracked
<1>6. ASSUME NEW l \in Lba, ext4_bcache_free(l) PROVE Tracked'
  <2>1. CASE buf[l].refctr > 1
    <3>1. /\ cached' = cached /\ dirtyList' = dirtyList /\ UNCHANGED writeBack
          /\ \A k \in cached' \ {l} : buf'[k] = buf[k]
          /\ buf'[l].refctr # 0
      BY <1>6, <2>1 DEF ext4_bcache_free, CacheInv, TypeOK, Buf
    <3> QED
      BY <3>1, LocalTracked
  <2>2. CASE buf[l].refctr = 1
    <3>1. PICK ok \in BOOLEAN : LastPut(l, ok) /\ UNCHANGED writeBack
      BY <1>6, <2>2 DEF ext4_bcache_free
    <3>2. /\ cached' \subseteq cached
          /\ \A k \in cached' \ {l} : buf'[k] = buf[k]
          /\ \A k \in dirtyList \ {l} : k \in dirtyList'
      BY <3>1 DEF LastPut, CacheInv, TypeOK
    <3>3. dirtyList' \subseteq dirtyList \/ writeBack > 0
      BY <3>1 DEF LastPut, Delayed
    <3>4. l \in cached' /\ "DIRTY" \in buf'[l].flags => l \in dirtyList'
      BY <3>1 DEF LastPut, CacheInv, TypeOK, DirtyUpToDate, Dirty, UpToDate
    <3> QED
      BY <3>1, <3>2, <3>3, <3>4, LocalTracked
  <2> QED
    BY <1>6, <2>1, <2>2 DEF ext4_bcache_free
<1>7. ASSUME NEW l \in Lba, ext4_block_flush_lba(l) PROVE Tracked'
  <2>0. PICK r1, r2 \in BOOLEAN : FlushLba(l, r1, r2) /\ UNCHANGED writeBack
    BY <1>7 DEF ext4_block_flush_lba
  <2>1. r1 /\ FlushLba(l, TRUE, r2) /\ UNCHANGED writeBack
    <3>1. r1 = TRUE
      BY <2>0 DEF FlushLba
    <3> QED
      BY <2>0, <3>1
  <2>2. /\ cached' \subseteq cached
        /\ \A k \in cached' \ {l} : buf'[k] = buf[k]
        /\ \A k \in dirtyList \ {l} : k \in dirtyList'
        /\ dirtyList' \subseteq dirtyList
    BY <2>1 DEF FlushLba, CacheInv, TypeOK
  <2>3. l \in cached' => "DIRTY" \notin buf'[l].flags
    BY <2>1 DEF FlushLba, Flushable, CacheInv, TypeOK, DirtyUpToDate, Dirty, UpToDate
  <2> QED
    BY <2>1, <2>2, <2>3, LocalTracked
<1>8. ASSUME NEW l \in Lba, NEW cnt \in Nat, ext4_bcache_invalidate_lba(l, cnt) PROVE Tracked'
  <2> DEFINE R == Invalidated(l, cnt)
  <2>1. /\ \A k \in R : buf'[k].refctr = buf[k].refctr /\ "DIRTY" \notin buf'[k].flags
        /\ \A k \in Lba \ R : buf'[k] = buf[k]
    BY <1>8 DEF ext4_bcache_invalidate_lba, Invalidated, CacheInv, TypeOK, Buf
  <2>2. dirtyList' = dirtyList \ {k \in R : Dirty(k)} /\ UNCHANGED <<cached, writeBack>>
    BY <1>8 DEF ext4_bcache_invalidate_lba
  <2> HIDE DEF R
  <2> QED
    BY <2>1, <2>2 DEF DirtyTracked, WriteThroughEmpty, Unreferenced, Dirty, CacheInv, TypeOK
<1>9. ASSUME NEW F \in SUBSET dirtyList, FlushList(F) PROVE DirtyTracked' /\ dirtyList' = {}
  <2>1. /\ F = dirtyList /\ dirtyList' = {} /\ UNCHANGED cached
        /\ \A k \in dirtyList : buf'[k].refctr = buf[k].refctr /\ "DIRTY" \notin buf'[k].flags
        /\ \A k \in Lba \ dirtyList : buf'[k] = buf[k]
    BY <1>9 DEF FlushList, CacheInv, TypeOK, Buf
  <2> QED
    BY <2>1 DEF DirtyTracked, Unreferenced, Dirty, CacheInv, TypeOK
<1>10. CASE ext4_bcache_cleanup
  <2>1. dirtyList' = {} /\ cached' = {}
    BY <1>10 DEF ext4_bcache_cleanup, CacheInv, FlushListFlushable, Flushable, Unreferenced
  <2> QED
    BY <2>1 DEF DirtyTracked, WriteThroughEmpty, Unreferenced
<1>11. CASE UNCHANGED vars
  BY <1>11 DEF vars, DirtyTracked, WriteThroughEmpty, Unreferenced, Dirty
<1>12. CASE ext4_block_cache_flush
  BY <1>9, <1>12 DEF ext4_block_cache_flush, WriteThroughEmpty
<1>13. ASSUME NEW on \in BOOLEAN, ext4_block_cache_write_back(on) PROVE Tracked'
  <2>1. \/ writeBack' # 0 /\ UNCHANGED <<disk, cached, buf, dirtyList, older>>
        \/ \E F \in SUBSET dirtyList : FlushList(F)
    BY <1>13 DEF ext4_block_cache_write_back, CacheInv, TypeOK
  <2> QED
    BY <1>9, <2>1 DEF DirtyTracked, WriteThroughEmpty, Unreferenced, Dirty
<1>14. \A cnt \in 1 .. Cardinality(Lba) : cnt \in Nat
  OBVIOUS
<1> QED
  BY <1>1, <1>2, <1>3, <1>4, <1>5, <1>6, <1>7, <1>8, <1>10, <1>11, <1>12, <1>13, <1>14 DEF Next

(* Without device errors the dirty list misses no unreferenced dirty buffer,
   so that ext4_block_cache_flush writes them all. *)
THEOREM DirtyListComplete ==
  ASSUME ~Faults
  PROVE  Spec => []DirtyTracked
<1>1. Init => Tracked
  BY DEF Init, Tracked, DirtyTracked, WriteThroughEmpty, Unreferenced
<1>2. Tracked => DirtyTracked
  BY DEF Tracked
<1> QED
  BY <1>1, <1>2, InitInv, StepInv, StepTracked, PTL DEF Spec

(* Without device errors a block that nobody references is on the device
   whenever writes are not delayed: ext4_block_set has written it, or
   ext4_block_cache_write_back(0) has. *)
THEOREM WriteThroughDurable ==
  ASSUME ~Faults
  PROVE  Spec => []DurableWhenPut
<1>1. Init => Tracked
  BY DEF Init, Tracked, DirtyTracked, WriteThroughEmpty, Unreferenced
<1>2. CacheInv /\ Tracked => DurableWhenPut
  BY DEF CacheInv, CleanMatchesDisk, Tracked, DirtyTracked, WriteThroughEmpty, DurableWhenPut,
     Unreferenced, Mem
<1> QED
  BY <1>1, <1>2, InitInv, StepInv, StepTracked, PTL DEF Spec

-----------------------------------------------------------------------------
(* What leaves the cache, and how large it gets. *)

(* A full shake makes room for one more buffer, or drops all it may. *)
LEMMA ShakenRoom ==
  ASSUME CacheInv, NEW V \in SUBSET Unreferenced, Shaken(V)
  PROVE  /\ IsFiniteSet(cached \ V)
         /\ V = Unreferenced \/ Cardinality(cached \ V) < CacheSize
<1>1. V \subseteq cached /\ IsFiniteSet(cached)
  BY CacheAssumption, FS_Subset DEF Unreferenced, CacheInv, TypeOK
<1>2. /\ IsFiniteSet(V) /\ Cardinality(V) \in Nat /\ Cardinality(cached) \in Nat
      /\ IsFiniteSet(cached \ V)
  BY <1>1, FS_Subset, FS_CardinalityType
<1>3. Cardinality(cached \ V) = Cardinality(cached) - Cardinality(V)
  <2>1. cached \cap V = V
    BY <1>1
  <2> QED
    BY <1>1, <2>1, FS_Difference
<1>4. V = Unreferenced \/ Cardinality(V) = Excess
  BY DEF Shaken
<1> QED
  BY <1>2, <1>3, <1>4, CacheAssumption DEF Excess

(* The buffers that remain once every unreferenced one went have references. *)
LEMMA FullyReferenced ==
  ASSUME CacheInv, CacheInv', NEW l \in Lba,
         cached' = (cached \ Unreferenced) \cup {l},
         \A k \in cached' \ {l} : buf'[k].refctr = buf[k].refctr,
         buf'[l].refctr # 0
  PROVE  Unreferenced' = {}
BY DEF Unreferenced

(* What ext4_block_get and ext4_block_get_noread do to the buffers. *)
LEMMA GetSteps ==
  ASSUME CacheInv, NEW l \in Lba, ext4_block_get(l) \/ ext4_block_get_noread(l)
  PROVE  \E V \in SUBSET Unreferenced :
           /\ Shaken(V)
           /\ disk' = Flushed(V)
           /\ cached' = (cached \ V) \cup {l}
           /\ \A k \in cached' \ {l} : buf'[k].refctr = buf[k].refctr
           /\ buf'[l].refctr # 0
<1>1. PICK V \in SUBSET Unreferenced, g \in Data :
        Shaken(V) /\ (Becomes(Refresh(Alloc(Shake(V), l, g), l)) \/ Becomes(Alloc(Shake(V), l, g)))
  BY DEF ext4_block_get, ext4_block_get_noread, CacheInv, TypeOK
<1> DEFINE s == Shake(V)
           t == Alloc(s, l, g)
<1>2. s.disk = Flushed(V) /\ s.cached = cached \ V /\ StateInv(s)
  BY ShakeInv DEF Shake, Unreferenced, CacheInv, TypeOK
<1>3. s.buf = [k \in Lba |-> IF k \in V THEN NoBuf ELSE buf[k]]
  BY DEF Shake
<1> HIDE DEF s
<1>4. t.disk = s.disk /\ t.cached = s.cached \cup {l} /\ StateInv(t)
  BY <1>2, AllocInv DEF Alloc
<1>5. /\ \A k \in Lba \ {l} : t.buf[k] = s.buf[k]
      /\ t.buf[l].refctr # 0
  BY <1>2 DEF Alloc, StateInv, Buf
<1> HIDE DEF t
<1>6. /\ Refresh(t, l).disk = t.disk /\ Refresh(t, l).cached = t.cached
      /\ \A k \in Lba : Refresh(t, l).buf[k].refctr = t.buf[k].refctr
  BY <1>4 DEF Refresh, StateInv
<1>7. Becomes(Refresh(t, l)) \/ Becomes(t)
  BY <1>1 DEF s, t
<1>8. /\ disk' = Flushed(V) /\ cached' = (cached \ V) \cup {l}
      /\ \A k \in Lba : buf'[k].refctr = t.buf[k].refctr
  BY <1>2, <1>4, <1>6, <1>7 DEF Becomes
<1>9. \A k \in cached' \ {l} : k \in Lba /\ buf'[k].refctr = buf[k].refctr
  BY <1>3, <1>5, <1>8 DEF CacheInv, TypeOK
<1> QED
  BY <1>1, <1>5, <1>8, <1>9

(* Only ext4_block_get and ext4_block_get_noread add a buffer. *)
LEMMA OthersAddNothing ==
  ASSUME CacheInv, [Next]_vars,
         ~\E l \in Lba : ext4_block_get(l) \/ ext4_block_get_noread(l)
  PROVE  cached' \subseteq cached
<1>1. ASSUME NEW l \in Lba, ext4_block_get_fails(l) PROVE cached' \subseteq cached
  BY <1>1 DEF ext4_block_get_fails, Becomes, Shake
<1>2. ASSUME NEW l \in Lba, ext4_bcache_free(l) PROVE cached' \subseteq cached
  BY <1>2 DEF ext4_bcache_free, LastPut
<1>3. ASSUME NEW l \in Lba, ext4_block_flush_lba(l) PROVE cached' \subseteq cached
  BY <1>3 DEF ext4_block_flush_lba, FlushLba
<1>4. CASE ext4_bcache_cleanup
  BY <1>4 DEF ext4_bcache_cleanup
<1>5. ASSUME NEW l \in Lba,
             \/ \E v \in Data : ext4_bcache_set_dirty(l, v)
             \/ \E f \in {{"FLUSH"}, {"FLUSH", "TMP"}} : jbd_block_flags(l, f)
             \/ \E cnt \in 1 .. Cardinality(Lba) : ext4_bcache_invalidate_lba(l, cnt)
      PROVE  UNCHANGED cached
  BY <1>5 DEF ext4_bcache_set_dirty, jbd_block_flags, ext4_bcache_invalidate_lba
<1>6. ASSUME \/ ext4_block_cache_flush
             \/ \E on \in BOOLEAN : ext4_block_cache_write_back(on)
             \/ UNCHANGED vars
      PROVE  UNCHANGED cached
  BY <1>6 DEF ext4_block_cache_flush, ext4_block_cache_write_back, FlushList, vars
<1> QED
  BY <1>1, <1>2, <1>3, <1>4, <1>5, <1>6 DEF Next

(* A step that adds a buffer leaves the cache within its size, unless
   ext4_block_cache_shake found every other buffer referenced. *)
THEOREM CacheSizeBound == Spec => CacheBound
<1> DEFINE Bound == cached' \ cached # {} => Cardinality(cached') <= CacheSize \/ Unreferenced' = {}
<1>1. CacheInv /\ CacheInv' /\ [Next]_vars => Bound
  <2> SUFFICES ASSUME CacheInv, CacheInv', [Next]_vars, cached' \ cached # {}
               PROVE  Cardinality(cached') <= CacheSize \/ Unreferenced' = {}
    OBVIOUS
  <2>1. PICK l \in Lba : ext4_block_get(l) \/ ext4_block_get_noread(l)
    BY OthersAddNothing
  <2>2. PICK V \in SUBSET Unreferenced :
          /\ Shaken(V)
          /\ cached' = (cached \ V) \cup {l}
          /\ \A k \in cached' \ {l} : buf'[k].refctr = buf[k].refctr
          /\ buf'[l].refctr # 0
    BY <2>1, GetSteps
  <2>3. IsFiniteSet(cached \ V) /\ (V = Unreferenced \/ Cardinality(cached \ V) < CacheSize)
    BY <2>2, ShakenRoom
  <2>4. CASE V = Unreferenced
    BY <2>2, <2>4, FullyReferenced
  <2>5. CASE Cardinality(cached \ V) < CacheSize
    <3>1. /\ Cardinality(cached') \in {Cardinality(cached \ V), Cardinality(cached \ V) + 1}
          /\ Cardinality(cached \ V) \in Nat
      BY <2>2, <2>3, FS_AddElement, FS_CardinalityType
    <3> QED
      BY <2>5, <3>1, CacheAssumption
  <2> QED
    BY <2>3, <2>4, <2>5
<1>2. CacheInv /\ CacheInv' /\ [Next]_vars => [Bound]_vars
  BY <1>1
<1>3. CacheBound <=> [][Bound]_vars
  BY DEF CacheBound
<1> HIDE DEF Bound
<1> QED
  BY <1>2, <1>3, InitInv, StepInv, PTL DEF Spec

(* The dirty contents of the buffers a step drops are on the device after it. *)
Saves == \A l \in cached \ cached' : Flushable(l) => disk'[l] = buf[l].data

(* Without device errors every step that drops a buffer saves it first. *)
LEMMA StepSaves ==
  ASSUME ~Faults
  PROVE  CacheInv /\ [Next]_vars => Saves
<1> SUFFICES ASSUME CacheInv, [Next]_vars PROVE Saves
  OBVIOUS
<1>1. ASSUME NEW l \in Lba, ext4_block_get(l) \/ ext4_block_get_noread(l) PROVE Saves
  <2>1. PICK V \in SUBSET Unreferenced : disk' = Flushed(V) /\ cached' = (cached \ V) \cup {l}
    BY <1>1, GetSteps
  <2> QED
    BY <2>1 DEF Saves, Flushed, Unreferenced, CacheInv, TypeOK
<1>2. ASSUME NEW l \in Lba, ext4_block_get_fails(l) PROVE FALSE
  BY <1>2 DEF ext4_block_get_fails
<1>3. ASSUME NEW l \in Lba, ext4_bcache_free(l) PROVE Saves
  <2>1. CASE buf[l].refctr > 1
    BY <1>3, <2>1 DEF ext4_bcache_free, Saves
  <2>2. CASE buf[l].refctr = 1
    <3>1. PICK ok \in BOOLEAN : LastPut(l, ok)
      BY <1>3, <2>2 DEF ext4_bcache_free
    <3>2. cached \ cached' \subseteq {l}
      BY <3>1 DEF LastPut
    <3>3. ASSUME l \notin cached', l \in cached, Flushable(l) PROVE disk'[l] = buf[l].data
      <4>1. ok = TRUE
        BY <3>1 DEF LastPut
      <4>2. {"DIRTY", "UPTODATE"} \subseteq buf[l].flags
        BY <3>3 DEF Flushable, Dirty, UpToDate
      <4>3. Delayed(buf[l]) => l \in cached'
        BY <3>1, <3>3, <4>2 DEF LastPut, Delayed
      <4>4. disk' = [disk EXCEPT ![l] = buf[l].data]
        BY <3>1, <3>3, <4>1, <4>2, <4>3 DEF LastPut
      <4> QED
        BY <4>4 DEF CacheInv, TypeOK
    <3> QED
      BY <3>2, <3>3 DEF Saves
  <2> QED
    BY <1>3, <2>1, <2>2 DEF ext4_bcache_free
<1>4. ASSUME NEW l \in Lba, ext4_block_flush_lba(l) PROVE Saves
  <2>0. PICK r1, r2 \in BOOLEAN : FlushLba(l, r1, r2)
    BY <1>4 DEF ext4_block_flush_lba
  <2>1. r1 = TRUE
    BY <2>0 DEF FlushLba
  <2>2. cached \ cached' \subseteq {l} /\ (Flushable(l) => disk'[l] = buf[l].data)
    BY <2>0, <2>1 DEF FlushLba, CacheInv, TypeOK
  <2> QED
    BY <2>2 DEF Saves
<1>5. CASE ext4_bcache_cleanup
  <2>1. disk' = Flushed(cached)
    BY <1>5 DEF ext4_bcache_cleanup
  <2> QED
    BY <2>1 DEF Saves, Flushed, CacheInv, TypeOK
<1>6. ASSUME NEW l \in Lba,
             \/ \E v \in Data : ext4_bcache_set_dirty(l, v)
             \/ \E f \in {{"FLUSH"}, {"FLUSH", "TMP"}} : jbd_block_flags(l, f)
             \/ \E cnt \in 1 .. Cardinality(Lba) : ext4_bcache_invalidate_lba(l, cnt)
      PROVE  UNCHANGED cached
  BY <1>6 DEF ext4_bcache_set_dirty, jbd_block_flags, ext4_bcache_invalidate_lba
<1>7. ASSUME \/ ext4_block_cache_flush
             \/ \E on \in BOOLEAN : ext4_block_cache_write_back(on)
             \/ UNCHANGED vars
      PROVE  UNCHANGED cached
  BY <1>7 DEF ext4_block_cache_flush, ext4_block_cache_write_back, FlushList, vars
<1>8. UNCHANGED cached => Saves
  BY DEF Saves
<1> QED
  BY <1>1, <1>2, <1>3, <1>4, <1>5, <1>6, <1>7, <1>8 DEF Next

(* Eviction, ext4_block_set of a journal block and unmounting save what they
   drop, unless the device fails. *)
THEOREM EvictionLossless == Spec => EvictionSaves
<1> DEFINE Lossless == ~Faults => Saves
<1>1. CacheInv /\ [Next]_vars => Lossless
  BY StepSaves
<1>2. CacheInv /\ [Next]_vars => [Lossless]_vars
  BY <1>1
<1>3. EvictionSaves <=> [][Lossless]_vars
  BY DEF EvictionSaves, Saves
<1> HIDE DEF Lossless
<1> QED
  BY <1>2, <1>3, InitInv, StepInv, PTL DEF Spec
=============================================================================
