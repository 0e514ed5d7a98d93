----------------------------- MODULE JournalLog -----------------------------
(***************************************************************************)
(* The on-disk journal (ext4_journal.c): the ring of log blocks, the       *)
(* journal superblock, and what jbd_recover replays from them.  A log      *)
(* block holds a descriptor, a revoke or a commit record of a transaction, *)
(* or the copy of a home block.  A copy never parses as a record: its      *)
(* magic number is escaped when it has one.  Blocks are written whole, so  *)
(* checksums of records the code wrote always verify and are left out.     *)
(***************************************************************************)
EXTENDS Naturals, Sequences, SequencesExt

CONSTANTS
  Home,   \* LBAs of the blocks that are journalled
  JSize,  \* log blocks in the ring: first = 1, maxlen = JSize + 1
  Junk    \* contents no home block ever has

ASSUME LogAssumption == JSize \in Nat \ {0} /\ IsFiniteSet(Home)

NoBlk == [type |-> "none"]
Desc(tid, tags) == [type |-> "desc", tid |-> tid, tags |-> tags]
Revoke(tid, blocks) == [type |-> "revoke", tid |-> tid, blocks |-> blocks]
Commit(tid) == [type |-> "commit", tid |-> tid]
Copy(val) == [type |-> "copy", val |-> val]

(* A block with the journal's magic number. *)
IsRecord(b) == b.type \in {"desc", "revoke", "commit"}

wrap(i) == IF i > JSize THEN i - JSize ELSE i

-----------------------------------------------------------------------------
(* jbd_iterate_log.  One record of the walk: the block it is at, the         *)
(* transaction it expects, the transactions counted, the revoke tree (the    *)
(* last transaction that revokes a block, 0 for none) and the home blocks    *)
(* replayed, in order.                                                       *)

(* What a log block holds when it is read as the copy of a home block. *)
Contents(b) == IF b.type = "copy" THEN b.val ELSE Junk

(* jbd_replay_block_tags: the copies that follow descriptor b at block i,
   except those of a block that this or a later transaction revokes. *)
Replayed(log, i, b, revoke) ==
  SelectSeq([k \in 1 .. Len(b.tags) |-> <<b.tags[k], Contents(log[wrap(i + k)])>>],
            LAMBDA w : b.tid > revoke[w[1]])

(* jbd_build_revoke_tree *)
Revoked(revoke, b) == [l \in Home |-> IF l \in b.blocks THEN b.tid ELSE revoke[l]]

(* One iteration of the loop; last is last_trans_id of an earlier scan. *)
Visit(log, sb, action, last, s) ==
  LET b == log[s.block]
      skip == IF b.type = "desc" THEN Len(b.tags) ELSE 0
      next == wrap(wrap(s.block + skip) + 1)
  IN IF action # "SCAN" /\ s.tid > last THEN [s EXCEPT !.end = TRUE]
     ELSE IF ~IsRecord(b) \/ b.tid # s.tid THEN [s EXCEPT !.end = TRUE]
     ELSE [block |-> next,
           tid |-> IF b.type = "commit" THEN s.tid + 1 ELSE s.tid,
           cnt |-> IF b.type = "commit" /\ action = "SCAN" THEN s.cnt + 1 ELSE s.cnt,
           revoke |-> IF b.type = "revoke" /\ action = "REVOKE" THEN Revoked(s.revoke, b)
                      ELSE s.revoke,
           out |-> IF b.type = "desc" /\ action = "RECOVER"
                   THEN s.out \o Replayed(log, s.block, b, s.revoke) ELSE s.out,
           end |-> next = sb.start]

jbd_iterate_log(log, sb, action, info) ==
  LET walk[k \in 0 .. 2 * JSize] ==
        IF k = 0 THEN [block |-> sb.start, tid |-> sb.seq, cnt |-> info.cnt, revoke |-> info.revoke,
                       out |-> <<>>, end |-> action # "SCAN" /\ info.cnt = 0]
        ELSE LET s == walk[k - 1]
             IN IF s.end THEN s ELSE Visit(log, sb, action, info.last, s)
  IN walk[2 * JSize]

(* jbd_recover: the three walks.  last is the last complete transaction, or
   the first expected one when there is none; out the blocks replayed. *)
jbd_recover(log, sb) ==
  LET none == [l \in Home |-> 0]
      scan == jbd_iterate_log(log, sb, "SCAN", [cnt |-> 0, revoke |-> none, last |-> 0])
      last == IF scan.tid > sb.seq THEN scan.tid - 1 ELSE scan.tid
      rev == jbd_iterate_log(log, sb, "REVOKE", [cnt |-> scan.cnt, revoke |-> none, last |-> last])
      rec == jbd_iterate_log(log, sb, "RECOVER",
                             [cnt |-> scan.cnt, revoke |-> rev.revoke, last |-> last])
  IN IF sb.start = 0 THEN [last |-> sb.seq, out |-> <<>>]
     ELSE [last |-> last, out |-> rec.out]

(* The home blocks once the writes of out have reached the device. *)
AfterReplay(disk, out) == FoldLeft(LAMBDA d, w : [d EXCEPT ![w[1]] = w[2]], disk, out)
=============================================================================
