------------------------------ MODULE Journal ------------------------------
(***************************************************************************)
(* Journalling (ext4_journal.c, ext4_trans.c and the transaction calls of  *)
(* ext4.c) with power failures.  Home blocks are changed in transactions,  *)
(* committed to the log, checkpointed when the block cache writes their    *)
(* buffers back, and replayed after a crash.                               *)
(*                                                                         *)
(* The file system runs under the mount point lock, so one operation is    *)
(* active at a time; what interleaves with it are the device writes: every *)
(* step puts the writes it makes in "dq" and the device performs them one  *)
(* by one, in order, before the next step.  A crash can happen between any *)
(* two of them.                                                            *)
(*                                                                         *)
(* A transaction is named by the order in which it was started, and that   *)
(* number is what it writes to the blocks it changes.  The jbd_buf of      *)
(* transaction t on block l is the pair of the two.                        *)
(***************************************************************************)
EXTENDS JournalLog

CONSTANTS
  MaxTrans,    \* bound: transactions started
  MaxCrash,    \* bound: power failures and remounts
  TagsPerDesc, \* block tags that fit in a descriptor block
  Overlap,     \* workload: a block may change again before it is checkpointed
  Frees,       \* workload: blocks are freed and reused for file data
  Aborts,      \* workload: transactions may be aborted, by the caller or for lack of memory
  Stops,       \* workload: the journal may be stopped and started again
  Faults       \* a write of a home block may fail

ASSUME JournalAssumption ==
  /\ Home \subseteq Nat
  /\ MaxTrans \in Nat
  /\ MaxCrash \in Nat
  /\ TagsPerDesc \in Nat \ {0}
  /\ {Overlap, Frees, Aborts, Stops, Faults} \subseteq BOOLEAN
  /\ Junk \notin 0 .. MaxTrans

VARIABLES
  disk,  \* home blocks on the device
  log,   \* log blocks on the device
  jsb,   \* journal superblock on the device: start and sequence
  dq,    \* device writes issued and not yet performed
  phase, \* "down", "ready" (mounted), "up" (journal started)
  j,     \* struct jbd_journal, its transactions, and the buffers' state
  cur,   \* fs->curr_trans, 0 for none
  op,    \* the commit or stop in progress
  count, \* transactions started so far
  crashes, \* power failures so far
  want,  \* ghost: contents and role each home block must have after a crash
  now    \* ghost: the same as the current transaction leaves them

vars == <<disk, log, jsb, dq, phase, j, cur, op, count, crashes, want, now>>

Trans == 1 .. MaxTrans

NoTrans == [bufq |-> <<>>, revoke |-> {}, dataCnt |-> 0, written |-> 0,
            start |-> 0, alloc |-> 0, tid |-> 0, jlba |-> [l \in Home |-> 0]]

NoBuf == [val |-> 0, uptodate |-> FALSE, dirty |-> FALSE, endWrite |-> 0]

NoJournal == [trans |-> [t \in Trans |-> NoTrans],
              cpq |-> <<>>,                     \* cp_queue
              recq |-> [l \in Home |-> <<>>],   \* dirty_buf_queue of the block record
              owner |-> [l \in Home |-> 0],     \* trans of the block record, 0: no record
              buf |-> [l \in Home |-> NoBuf],   \* the block cache
              start |-> 0, tid |-> 0, last |-> 0, allocTid |-> 0,
              out |-> <<>>]                     \* device writes of the step

Idle == [at |-> "idle", todo |-> <<>>, desc |-> 0, tags |-> <<>>, idx |-> 0,
         full |-> FALSE, purge |-> <<>>, last |-> 0]

Panic == [Idle EXCEPT !.at = "panic"]   \* an assertion has failed

Init ==
  /\ disk = [l \in Home |-> 0]
  /\ log = [i \in 1 .. JSize |-> NoBlk]
  /\ jsb = [start |-> 0, seq |-> 0]
  /\ dq = <<>>
  /\ phase = "ready"
  /\ j = NoJournal
  /\ cur = 0
  /\ op = Idle
  /\ count = 0
  /\ crashes = 0
  /\ want = [val |-> [l \in Home |-> 0], role |-> [l \in Home |-> "meta"]]
  /\ now = want

-----------------------------------------------------------------------------
(* Device writes. *)

WHome(l, v) == [kind |-> "home", l |-> l, v |-> v]
WLog(i, b) == [kind |-> "log", i |-> i, b |-> b]
WSb(start, seq) == [kind |-> "sb", sb |-> [start |-> start, seq |-> seq]]

(* A step of the file system leaves the journal in state s and its writes
   in the device queue. *)
Becomes(s) == /\ j' = [s EXCEPT !.out = <<>>]
              /\ dq' = s.out
              /\ UNCHANGED <<disk, log, jsb>>

(* jbd_write_sb after jbd_journal_write_sb *)
SbWritten(s) == [s EXCEPT !.out = Append(@, WSb(s.start, s.tid))]

-----------------------------------------------------------------------------
(* The checkpoint queue. *)

Complete(s, t) == s.trans[t].dataCnt = s.trans[t].written
(* Mutant: the end of a transaction is not wrapped. *)
AfterUnwrapped(s, t) == s.trans[t].start + s.trans[t].alloc

After(s, t) == wrap(s.trans[t].start + s.trans[t].alloc)

(* jbd_journal_free_trans(trans, false) of a transaction without buffers:
   the block records it still owns are freed. *)
Freed(s, S) == [s EXCEPT
  !.trans = [t \in Trans |-> IF t \in S THEN NoTrans ELSE @[t]],
  !.owner = [l \in Home |-> IF @[l] \in S THEN 0 ELSE @[l]]]

(* The head of the queue is removed, and the start of the log moves behind
   it. *)
Popped(s) == LET t == Head(s.cpq)
             IN Freed([s EXCEPT !.cpq = Tail(@), !.start = After(s, t),
                                !.tid = s.trans[t].tid + 1], {t})

(* jbd_journal_purge_cp_trans(flush = false, once = false): complete
   transactions leave from the head of the queue; the log starts at the
   first that stays. *)
Purged(s) ==
  LET n == CHOOSE n \in 0 .. Len(s.cpq) :
             /\ \A i \in 1 .. n : Complete(s, s.cpq[i])
             /\ n < Len(s.cpq) => ~Complete(s, s.cpq[n + 1])
      rest == SubSeq(s.cpq, n + 1, Len(s.cpq))
      from == IF rest # <<>> THEN s.trans[Head(rest)].start
              ELSE IF n > 0 THEN After(s, s.cpq[n]) ELSE s.start
      tid == IF rest # <<>> THEN s.trans[Head(rest)].tid
             ELSE IF n > 0 THEN s.trans[s.cpq[n]].tid + 1 ELSE s.tid
  IN Freed([s EXCEPT !.cpq = rest, !.start = from, !.tid = tid], ToSet(SubSeq(s.cpq, 1, n)))

(* jbd_trans_end_write: one jbd_buf of transaction t has reached the device.
   Whether t heads the queue is read before the older jbd_bufs of the block
   are finished (first). *)
IsFirst(s, t) == s.cpq # <<>> /\ Head(s.cpq) = t

Unlinked(s, t, l) == [s EXCEPT !.trans[t].bufq = RemoveFirst(@, l), !.recq[l] = RemoveFirst(@, t)]

(* Mutant: a written transaction never leaves the checkpoint queue. *)
CountedOnly(s, t, first) == [s EXCEPT !.trans[t].written = @ + 1]

Counted(s, t, first) ==
  LET c == [s EXCEPT !.trans[t].written = @ + 1]
  IN IF Complete(c, t) /\ first THEN SbWritten(Purged(c)) ELSE c

Finished(s, k, l) == Counted(Unlinked(s, k, l), k, IsFirst(s, k))

(* jbd_trans_finish_callback: the jbd_bufs of the block record, one after
   the other. *)
AllFinished(s, l) ==
  LET q == s.recq[l]
      done[i \in 0 .. Len(q)] == IF i = 0 THEN s ELSE Finished(done[i - 1], q[i], l)
  IN  done[Len(q)]

EndWrite(s, t, l) ==
  LET first == IsFirst(s, t)
      u == Unlinked(s, t, l)
      f == IF s.owner[l] = t THEN AllFinished(u, l) ELSE u
      c == IF f.owner[l] = t THEN [f EXCEPT !.buf[l].endWrite = 0] ELSE f
  IN Counted(c, t, first)

(* ext4_block_flush_buf; ok says whether the device accepts the write. *)
Flushed(s, l, ok) ==
  LET b == s.buf[l]
      w == IF ok THEN [s EXCEPT !.buf[l].dirty = FALSE, !.out = Append(@, WHome(l, b.val))] ELSE s
  IN IF b.endWrite # 0 THEN EndWrite(w, b.endWrite, l) ELSE w

-----------------------------------------------------------------------------
(* Changing blocks in the current transaction. *)

Quiet == phase = "up" /\ dq = <<>> /\ op.at = "idle"

(* ext4_trans_start, jbd_journal_new_trans *)
ext4_trans_start ==
  /\ Quiet
  /\ cur = 0
  /\ count < MaxTrans
  /\ count' = count + 1
  /\ cur' = count + 1
  /\ UNCHANGED <<disk, log, jsb, dq, phase, j, op, crashes, want, now>>

(* jbd_trans_set_block_dirty: a holder of block l changes it. *)
jbd_trans_set_block_dirty(l) ==
  /\ Quiet
  /\ cur # 0
  /\ now.role[l] \in {"meta", "free"}
  /\ Overlap \/ j.owner[l] \in {0, cur}
  /\ l \notin ToSet(j.trans[cur].bufq)
  /\ LET b == [val |-> cur, uptodate |-> TRUE, dirty |-> TRUE, endWrite |-> cur]
     IN Becomes([j EXCEPT
          !.buf[l] = b,
          !.owner[l] = cur,
          !.recq[l] = Append(@, cur),
          !.trans[cur].dataCnt = @ + 1,
          !.trans[cur].bufq = <<l>> \o @,
          !.trans[cur].revoke = @ \ {l}])
  /\ now' = [val |-> [now.val EXCEPT ![l] = cur], role |-> [now.role EXCEPT ![l] = "meta"]]
  /\ UNCHANGED <<phase, cur, op, count, crashes, want>>

(* Mutant: only blocks of the current transaction are revoked. *)
MustRevokeOwn(l) == j.owner[l] = cur /\ Head(j.recq[l]) # Last(j.recq[l])

(* jbd_trans_try_revoke_block: the current transaction revokes block l if an
   earlier one still has an unwritten buffer of it. *)
MustRevoke(l) ==
  \/ j.owner[l] \notin {0, cur}
  \/ j.owner[l] = cur /\ Head(j.recq[l]) # Last(j.recq[l])

(* ext4_balloc_free_block, as far as the journal and the cache go:
   ext4_trans_try_revoke_block, then ext4_bcache_invalidate_lba. *)
ext4_trans_try_revoke_block(l) ==
  /\ Frees
  /\ Quiet
  /\ cur # 0
  /\ now.role[l] # "free"
  /\ Becomes([j EXCEPT
       !.trans[cur].revoke = IF MustRevoke(l) THEN @ \cup {l} ELSE @,
       !.buf[l] = NoBuf])
  /\ now' = [now EXCEPT !.role[l] = "free"]
  /\ UNCHANGED <<phase, cur, op, count, crashes, want>>

(* ext4_fwrite to a block that was free when the transaction began: file
   data goes straight to the device. *)
ext4_blocks_set_direct(l) ==
  /\ Quiet
  /\ cur # 0
  /\ want.role[l] = "free"
  /\ now.role[l] = "free"
  /\ Becomes([j EXCEPT !.out = <<WHome(l, cur)>>])
  /\ now' = [val |-> [now.val EXCEPT ![l] = cur], role |-> [now.role EXCEPT ![l] = "data"]]
  /\ UNCHANGED <<phase, cur, op, count, crashes, want>>

(* ext4_block_get of a block that has no buffer. *)
ext4_trans_block_get(l) ==
  /\ Quiet
  /\ now.role[l] = "meta"
  /\ ~j.buf[l].uptodate
  /\ Becomes([j EXCEPT !.buf[l] = [val |-> disk[l], uptodate |-> TRUE, dirty |-> FALSE, endWrite |-> 0]])
  /\ UNCHANGED <<phase, cur, op, count, crashes, want, now>>

(* Mutant: a jbd_buf does not hold a reference to its buffer. *)
HeldNever(l) == l \notin Home

(* The jbd_bufs of the current transaction hold references to their buffers
   (ext4_bcache_inc_ref), so these are not flushed before the commit. *)
Held(l) == cur # 0 /\ l \in ToSet(j.trans[cur].bufq)

(* The cache writes a dirty buffer back: ext4_block_cache_shake,
   ext4_block_cache_flush, or the last ext4_block_set. *)
ext4_block_flush_buf(l) ==
  /\ phase = "up"
  /\ dq = <<>>
  /\ ~op.full
  /\ op.at \notin {"stop", "panic"}
  /\ j.buf[l].dirty
  /\ ~Held(l)
  /\ \E ok \in (IF Faults THEN BOOLEAN ELSE {TRUE}) : Becomes(Flushed(j, l, ok))
  /\ UNCHANGED <<phase, cur, op, count, crashes, want, now>>

-----------------------------------------------------------------------------
(* Mutant: the oldest logged copy is restored instead of the newest. *)
RolledBackOldest(s, t, l, revoke) ==
  LET k == Head(s.recq[l])
      copy == [val |-> Contents(log[s.trans[k].jlba[l]]), uptodate |-> TRUE, dirty |-> TRUE, endWrite |-> k]
  IN IF s.owner[l] # t THEN s
     ELSE IF s.recq[l] = <<>> THEN [s EXCEPT !.owner[l] = 0]
     ELSE IF revoke THEN [s EXCEPT !.owner[l] = k]
     ELSE [s EXCEPT !.owner[l] = k, !.buf[l] = copy]

(* jbd_trans_finish_callback(abort = true) and jbd_trans_remove_block_rec,
   once the jbd_buf of transaction t on l is unlinked: the block goes back to
   the newest transaction that still has a jbd_buf on it, with the contents
   that transaction logged unless the block is revoked. *)
RolledBack(s, t, l, revoke) ==
  LET k == Last(s.recq[l])
      copy == [val |-> Contents(log[s.trans[k].jlba[l]]), uptodate |-> TRUE, dirty |-> TRUE, endWrite |-> k]
  IN IF s.owner[l] # t THEN s
     ELSE IF s.recq[l] = <<>> THEN [s EXCEPT !.owner[l] = 0]
     ELSE IF revoke THEN [s EXCEPT !.owner[l] = k]
     ELSE [s EXCEPT !.owner[l] = k, !.buf[l] = copy]

(* Mutant: the block records are freed, whatever other transactions use them. *)
AbortedRecords(s, t) ==
  Freed([s EXCEPT !.recq = [l \in Home |-> RemoveFirst(@[l], t)],
                  !.buf = [l \in Home |-> IF l \in ToSet(s.trans[t].bufq) THEN NoBuf ELSE @[l]]], {t})

GivenUp(s, t, l) == RolledBack([Unlinked(s, t, l) EXCEPT !.buf[l] = NoBuf], t, l, FALSE)

(* jbd_journal_free_trans(trans, true) *)
Aborted(s, t) ==
  LET q == s.trans[t].bufq
      done[i \in 0 .. Len(q)] == IF i = 0 THEN s ELSE GivenUp(done[i - 1], t, q[i])
  IN  Freed(done[Len(q)], {t})

ext4_trans_abort ==
  /\ Aborts
  /\ Quiet
  /\ cur # 0
  /\ Becomes(Aborted(j, cur))
  /\ cur' = 0
  /\ now' = want
  /\ UNCHANGED <<phase, op, count, crashes, want>>

-----------------------------------------------------------------------------
(* jbd_journal_commit_trans, one step per log block. *)

Active(at) == phase = "up" /\ dq = <<>> /\ op.at = at /\ ~op.full

(* A jbd_buf whose buffer is not dirty any more (its block was freed) leaves
   the transaction. *)
DropClean(s, l) ==
  LET u == [Unlinked(s, cur, l) EXCEPT !.buf[l].endWrite = 0]
      r == RolledBack(u, cur, l, l \in s.trans[cur].revoke)
  IN [r EXCEPT !.trans[cur].dataCnt = @ - 1]

(* The first loop of jbd_journal_prepare: from the tail, up to a dirty one. *)
TailDropped(s) ==
  LET q == s.trans[cur].bufq
      n == CHOOSE n \in 0 .. Len(q) :
             /\ \A i \in n + 1 .. Len(q) : ~s.buf[q[i]].dirty
             /\ n > 0 => s.buf[q[n]].dirty
      done[i \in 0 .. Len(q)] == IF i = 0 THEN s ELSE DropClean(done[i - 1], q[Len(q) + 1 - i])
  IN  done[Len(q) - n]

CommitBegin ==
  /\ Quiet
  /\ cur # 0
  /\ LET s == TailDropped([j EXCEPT !.trans[cur].tid = j.allocTid])
     IN /\ Becomes(s)
        /\ op' = [Idle EXCEPT !.at = "prepare", !.todo = s.trans[cur].bufq, !.last = j.last]
  /\ UNCHANGED <<phase, cur, count, crashes, want, now>>

(* jbd_journal_alloc_block: when the ring is full one transaction of the
   checkpoint queue is flushed before the call returns (op.full); if there
   is none the assertion "last != start" fails. *)
Allocated(s) == [s EXCEPT !.last = wrap(@ + 1), !.trans[cur].alloc = @ + 1,
                          !.trans[cur].start = IF @ = 0 THEN s.last ELSE @]
Fills(s) == wrap(s.last + 1) = s.start

AllocBlock(o) == /\ Becomes(Allocated(j))
                 /\ op' = IF Fills(j) /\ j.cpq = <<>> THEN Panic ELSE [o EXCEPT !.full = Fills(j)]

(* One iteration of jbd_journal_prepare's second loop. *)
PrepareClean ==
  /\ Active("prepare")
  /\ op.todo # <<>>
  /\ op.idx = 0
  /\ ~j.buf[Head(op.todo)].dirty
  /\ Becomes(DropClean(j, Head(op.todo)))
  /\ op' = [op EXCEPT !.todo = Tail(@)]
  /\ UNCHANGED <<phase, cur, count, crashes, want, now>>

PrepareDesc ==
  /\ Active("prepare")
  /\ op.todo # <<>>
  /\ j.buf[Head(op.todo)].dirty
  /\ op.desc = 0
  /\ AllocBlock([op EXCEPT !.desc = j.last, !.tags = <<>>])
  /\ UNCHANGED <<phase, cur, count, crashes, want, now>>

(* The descriptor has no room for another tag, or is the last one. *)
PrepareDescDone ==
  /\ Active("prepare")
  /\ op.desc # 0
  /\ op.idx = 0
  /\ op.todo = <<>> \/ Len(op.tags) = TagsPerDesc
  /\ Becomes([j EXCEPT !.out = <<WLog(op.desc, Desc(j.trans[cur].tid, op.tags))>>])
  /\ op' = [op EXCEPT !.desc = 0, !.tags = <<>>]
  /\ UNCHANGED <<phase, cur, count, crashes, want, now>>

PrepareAlloc ==
  /\ Active("prepare")
  /\ op.todo # <<>>
  /\ j.buf[Head(op.todo)].dirty
  /\ op.desc # 0
  /\ Len(op.tags) < TagsPerDesc
  /\ op.idx = 0
  /\ AllocBlock([op EXCEPT !.idx = j.last])
  /\ UNCHANGED <<phase, cur, count, crashes, want, now>>

PrepareData ==
  /\ Active("prepare")
  /\ op.idx # 0
  /\ LET l == Head(op.todo)
     IN /\ Becomes([j EXCEPT !.out = <<WLog(op.idx, Copy(j.buf[l].val))>>, !.trans[cur].jlba[l] = op.idx])
        /\ op' = [op EXCEPT !.todo = Tail(@), !.tags = Append(@, l), !.idx = 0]
  /\ UNCHANGED <<phase, cur, count, crashes, want, now>>

(* jbd_journal_prepare_revoke: the blocks to revoke fit in one log block.  A
   transaction with nothing to log ends here. *)
PrepareRevoke ==
  /\ Active("prepare")
  /\ op.todo = <<>>
  /\ op.desc = 0
  /\ IF j.trans[cur].revoke # {}
     THEN /\ AllocBlock([op EXCEPT !.at = "revoke", !.idx = j.last])
          /\ UNCHANGED <<cur, want, now>>
     ELSE IF j.trans[cur].bufq # <<>>
     THEN /\ AllocBlock([op EXCEPT !.at = "commit", !.idx = j.last])
          /\ UNCHANGED <<cur, want, now>>
     ELSE /\ Becomes(Freed(j, {cur}))
          /\ op' = Idle
          /\ cur' = 0
          /\ want' = now
          /\ UNCHANGED now
  /\ UNCHANGED <<phase, count, crashes>>

WriteRevoke ==
  /\ Active("revoke")
  /\ op.idx # 0
  /\ Becomes([j EXCEPT !.out = <<WLog(op.idx, Revoke(j.trans[cur].tid, j.trans[cur].revoke))>>])
  /\ op' = [op EXCEPT !.idx = 0]
  /\ UNCHANGED <<phase, cur, count, crashes, want, now>>

(* jbd_trans_write_commit_block *)
CommitAlloc ==
  /\ Active("revoke")
  /\ op.idx = 0
  /\ AllocBlock([op EXCEPT !.at = "commit", !.idx = j.last])
  /\ UNCHANGED <<phase, cur, count, crashes, want, now>>

WriteCommit ==
  /\ Active("commit")
  /\ Becomes([j EXCEPT !.out = <<WLog(op.idx, Commit(j.trans[cur].tid))>>])
  /\ op' = [op EXCEPT !.at = "end"]
  /\ UNCHANGED <<phase, cur, count, crashes, want, now>>

(* After the commit block: the buffers of revoked blocks count as written,
   the transaction joins the checkpoint queue, and its buffers are put. *)
Overtaken(s, l) ==
  IF s.owner[l] = 0 \/ s.recq[l] = <<>> THEN s ELSE EndWrite(s, Last(s.recq[l]), l)

RevokedDone(s) ==
  LET R == s.trans[cur].revoke
      N == IF R = {} THEN 0 ELSE Max(R) + 1
      done[n \in 0 .. N] == IF n = 0 THEN s
                            ELSE IF n - 1 \in R THEN Overtaken(done[n - 1], n - 1) ELSE done[n - 1]
  IN  done[N]

Queued(s) ==
  LET t == s.trans[cur]
  IN IF s.cpq # <<>> THEN [s EXCEPT !.cpq = Append(@, cur)]
     ELSE IF t.dataCnt > 0
     THEN SbWritten([s EXCEPT !.cpq = <<cur>>, !.start = t.start, !.tid = t.tid])
     ELSE Freed([s EXCEPT !.start = After(s, cur), !.tid = t.tid + 1], {cur})

CommitEnd ==
  /\ Active("end")
  /\ Becomes(Queued(RevokedDone([j EXCEPT !.allocTid = @ + 1])))
  /\ op' = [Idle EXCEPT !.at = "return"]
  /\ UNCHANGED <<phase, cur, count, crashes, want, now>>

(* ext4_trans_stop returns: the transaction is durable. *)
ext4_trans_stop ==
  /\ Active("return")
  /\ op' = Idle
  /\ cur' = 0
  /\ want' = now
  /\ UNCHANGED <<disk, log, jsb, dq, phase, j, count, crashes, now>>

(* A log block cannot be obtained: the transaction is rolled back and its
   log blocks are given back. *)
CommitFails ==
  /\ Aborts
  /\ phase = "up"
  /\ dq = <<>>
  /\ ~op.full
  /\ op.at \in {"prepare", "revoke", "commit"}
  /\ Becomes([Aborted(j, cur) EXCEPT !.last = op.last])
  /\ op' = Idle
  /\ cur' = 0
  /\ now' = want
  /\ UNCHANGED <<phase, count, crashes, want>>

-----------------------------------------------------------------------------
(* jbd_journal_purge_cp_trans(flush = true): from jbd_journal_alloc_block    *)
(* once (op.full), from jbd_journal_stop until the queue is empty.           *)

Purging == phase = "up" /\ dq = <<>> /\ (op.full \/ op.at = "stop")

(* The assertion of jbd_journal_alloc_block, "last != start". *)
Resume(s) == IF op.at = "stop" THEN op
             ELSE IF s.last = s.start THEN Panic
             ELSE [op EXCEPT !.full = FALSE]

(* A complete transaction leaves the queue; the superblock is only changed
   in memory. *)
PurgeComplete ==
  /\ Purging
  /\ op.purge = <<>>
  /\ j.cpq # <<>>
  /\ Complete(j, Head(j.cpq))
  /\ Becomes(Popped(j))
  /\ op' = Resume(Popped(j))
  /\ UNCHANGED <<phase, cur, count, crashes, want, now>>

(* jbd_journal_flush_trans: the buffers of the head, one after the other. *)
PurgeFlush ==
  /\ Purging
  /\ op.purge = <<>>
  /\ j.cpq # <<>>
  /\ ~Complete(j, Head(j.cpq))
  /\ op' = [op EXCEPT !.purge = [i \in 1 .. Len(j.trans[Head(j.cpq)].bufq) |->
                                   <<Head(j.cpq), j.trans[Head(j.cpq)].bufq[i]>>]]
  /\ UNCHANGED <<disk, log, jsb, dq, phase, j, cur, count, crashes, want, now>>

(* Mutant: a copy taken from the log is not reported as written. *)
FlushOneUnreported(t, l) ==
  IF j.buf[l].uptodate /\ j.owner[l] = t
  THEN IF j.buf[l].dirty THEN Flushed(j, l, TRUE) ELSE j
  ELSE [j EXCEPT !.out = <<WHome(l, Contents(log[j.trans[t].jlba[l]]))>>]

(* The buffer if it still holds what t wrote, else the copy in the log. *)
FlushOne(t, l) ==
  IF j.buf[l].uptodate /\ j.owner[l] = t
  THEN IF j.buf[l].dirty THEN Flushed(j, l, TRUE) ELSE j
  ELSE EndWrite([j EXCEPT !.out = <<WHome(l, Contents(log[j.trans[t].jlba[l]]))>>], t, l)

FlushJbdBuf ==
  /\ Purging
  /\ op.purge # <<>>
  /\ \E s \in {FlushOne(Head(op.purge)[1], Head(op.purge)[2])} :
        /\ Becomes(s)
        /\ op' = IF Len(op.purge) > 1 THEN [op EXCEPT !.purge = Tail(@)]
                 ELSE [Resume(s) EXCEPT !.purge = <<>>]
  /\ UNCHANGED <<phase, cur, count, crashes, want, now>>

-----------------------------------------------------------------------------
(* Starting, stopping, crashing. *)

(* ext4_journal_stop, jbd_journal_stop *)
StopBegin ==
  /\ Stops
  /\ Quiet
  /\ cur = 0
  /\ op' = [Idle EXCEPT !.at = "stop"]
  /\ UNCHANGED <<disk, log, jsb, dq, phase, j, cur, count, crashes, want, now>>

(* Mutant: jbd_journal_stop flushes only one transaction. *)
DrainedOne == Len(j.cpq) <= 1

Drained == j.cpq = <<>>

jbd_journal_stop ==
  /\ Purging
  /\ op.at = "stop"
  /\ op.purge = <<>>
  /\ Drained
  /\ Becomes([NoJournal EXCEPT !.buf = j.buf, !.out = <<WSb(0, 0)>>])
  /\ op' = Idle
  /\ phase' = "ready"
  /\ UNCHANGED <<cur, count, crashes, want, now>>

(* ext4_journal_start, jbd_journal_start: first, start and last are 1. *)
jbd_journal_start ==
  /\ phase = "ready"
  /\ dq = <<>>
  /\ Becomes(SbWritten([j EXCEPT !.start = 1, !.last = 1, !.tid = jsb.seq + 1, !.allocTid = jsb.seq + 1]))
  /\ phase' = "up"
  /\ UNCHANGED <<cur, op, count, crashes, want, now>>

(* ext4_recover after a crash: the replayed blocks are written through, then
   the journal superblock. *)
ext4_recover ==
  /\ phase = "down"
  /\ dq = <<>>
  /\ LET r == jbd_recover(log, jsb)
     IN Becomes([NoJournal EXCEPT
          !.out = [i \in 1 .. Len(r.out) |-> WHome(r.out[i][1], r.out[i][2])]
                    \o (IF jsb.start = 0 THEN <<>> ELSE <<WSb(0, r.last)>>)])
  /\ phase' = "ready"
  /\ UNCHANGED <<cur, op, count, crashes, want, now>>

(* The device performs the oldest write. *)
DeviceWrite ==
  /\ dq # <<>>
  /\ LET w == Head(dq)
     IN /\ disk' = IF w.kind = "home" THEN [disk EXCEPT ![w.l] = w.v] ELSE disk
        /\ log' = IF w.kind = "log" THEN [log EXCEPT ![w.i] = w.b] ELSE log
        /\ jsb' = IF w.kind = "sb" THEN w.sb ELSE jsb
  /\ dq' = Tail(dq)
  /\ UNCHANGED <<phase, j, cur, op, count, crashes, want, now>>

(* Whether recovery, run now, leaves the home blocks as w says. *)
Matches(w) ==
  LET recovered == AfterReplay(disk, jbd_recover(log, jsb).out)
  IN \A l \in Home : w.role[l] # "free" => recovered[l] = w.val[l]

Committing == op.at \in {"end", "return"}

(* A power failure.  Only while the commit record is on its way may the
   current transaction have become durable. *)
Crash ==
  /\ crashes < MaxCrash
  /\ crashes' = crashes + 1
  /\ phase' = "down"
  /\ j' = NoJournal
  /\ dq' = <<>>
  /\ cur' = 0
  /\ op' = Idle
  /\ want' = IF Committing /\ ~Matches(want) THEN now ELSE want
  /\ now' = want'
  /\ UNCHANGED <<disk, log, jsb, count>>

Next ==
  \/ ext4_trans_start
  \/ \E l \in Home : jbd_trans_set_block_dirty(l)
  \/ \E l \in Home : ext4_trans_try_revoke_block(l)
  \/ \E l \in Home : ext4_blocks_set_direct(l)
  \/ \E l \in Home : ext4_trans_block_get(l)
  \/ \E l \in Home : ext4_block_flush_buf(l)
  \/ ext4_trans_abort
  \/ CommitBegin
  \/ PrepareClean
  \/ PrepareDesc
  \/ PrepareDescDone
  \/ PrepareAlloc
  \/ PrepareData
  \/ PrepareRevoke
  \/ WriteRevoke
  \/ CommitAlloc
  \/ WriteCommit
  \/ CommitEnd
  \/ ext4_trans_stop
  \/ CommitFails
  \/ PurgeComplete
  \/ PurgeFlush
  \/ FlushJbdBuf
  \/ StopBegin
  \/ jbd_journal_stop
  \/ jbd_journal_start
  \/ ext4_recover
  \/ DeviceWrite
  \/ Crash

Spec == Init /\ [][Next]_vars

(* A call that was made runs on, and the device performs what was issued:
   the file system is synchronous. *)
Progress ==
  \/ PrepareClean \/ PrepareDesc \/ PrepareDescDone \/ PrepareAlloc \/ PrepareData \/ PrepareRevoke
  \/ WriteRevoke \/ CommitAlloc \/ WriteCommit \/ CommitEnd \/ ext4_trans_stop
  \/ PurgeComplete \/ PurgeFlush \/ FlushJbdBuf \/ jbd_journal_stop
  \/ DeviceWrite

FairSpec == Spec /\ WF_vars(Progress)

-----------------------------------------------------------------------------
(* Types: log positions in the ring, queues of known transactions and blocks. *)
TypeOK ==
  /\ disk \in [Home -> 0 .. MaxTrans \cup {Junk}]
  /\ jsb.start \in 0 .. JSize
  /\ phase \in {"down", "ready", "up"}
  /\ cur \in 0 .. MaxTrans
  /\ ToSet(j.cpq) \subseteq Trans
  /\ j.owner \in [Home -> 0 .. MaxTrans]
  /\ \A l \in Home : ToSet(j.recq[l]) \subseteq Trans
  /\ \A t \in Trans : /\ ToSet(j.trans[t].bufq) \subseteq Home
                      /\ j.trans[t].revoke \subseteq Home
                      /\ j.trans[t].written <= j.trans[t].dataCnt
                      /\ j.trans[t].start \in 0 .. JSize
  /\ j.start \in 0 .. JSize
  /\ j.last \in 0 .. JSize

(* Crash atomicity and durability: whenever the power fails, recovery leaves
   every block in use as the last transaction whose ext4_trans_stop returned
   left it, or, from the commit record on, as the committing transaction
   leaves it; all blocks agree on which. *)
Recoverable == Matches(want) \/ (Committing /\ Matches(now))

(* A read of a metadata block, from its buffer or from the device, returns
   what the transactions that were not aborted wrote last
   (jbd_trans_finish_callback rolls aborted changes back). *)
ReadsLatest ==
  phase = "up" /\ dq = <<>> /\ op.at # "panic" =>
    \A l \in Home : now.role[l] = "meta" =>
      now.val[l] = IF j.buf[l].uptodate THEN j.buf[l].val ELSE disk[l]

(* jbd_journal_stop and ext4_recover leave nothing to replay: once the volume
   is mounted without a journal session the home blocks are current. *)
SettledWithoutJournal ==
  phase = "ready" /\ dq = <<>> =>
    \A l \in Home : want.role[l] # "free" => disk[l] = want.val[l]

(* jbd_buf and jbd_block_rec point at each other correctly: a transaction
   lists a block exactly when the block's record lists the transaction, and
   no jbd_buf outlives the record (jbd_trans_remove_block_rec frees it). *)
RecordsLinked ==
  \A l \in Home : /\ \A t \in Trans : (l \in ToSet(j.trans[t].bufq)) = (t \in ToSet(j.recq[l]))
                  /\ j.recq[l] # <<>> => j.owner[l] # 0

(* The checkpoint queue and the log agree between calls: the queued
   transactions fill the ring from start to last, back to back, in order
   (jbd_journal_alloc_block, jbd_trans_end_write, the roll-back of last). *)
QueueFillsLog ==
  Quiet =>
    LET n == Len(j.cpq)
    IN /\ j.last = IF n = 0 THEN j.start ELSE After(j, j.cpq[n])
       /\ n > 0 => j.start = j.trans[j.cpq[1]].start
       /\ \A i \in 1 .. n - 1 : /\ j.trans[j.cpq[i + 1]].start = After(j, j.cpq[i])
                                /\ j.trans[j.cpq[i + 1]].tid = j.trans[j.cpq[i]].tid + 1

(* The assertion of jbd_journal_alloc_block: flushing one transaction always
   makes room in the log. *)
SpaceReclaimed == op.at # "panic"

(* Every commit and every jbd_journal_stop returns: the loop of
   jbd_journal_purge_cp_trans ends. *)
CallsReturn == (op.at # "idle") ~> (op.at = "idle")
=============================================================================
