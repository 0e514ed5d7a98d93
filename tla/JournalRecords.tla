--------------------------- MODULE JournalRecords ---------------------------
(***************************************************************************)
(* Lemmas about Journal: what one operator on struct jbd_journal does to   *)
(* the transactions, the block records, the checkpoint queue and the log.  *)
(* Sound says that these agree with each other; taking a buffer off its    *)
(* lists, counting it, purging the queue, rolling a record back, aborting  *)
(* a transaction each leave the journal Sound.                             *)
(***************************************************************************)
EXTENDS Journal, DataTheorems

-----------------------------------------------------------------------------
(* The shape of the records in j. *)

TransShaped(r) ==
  /\ DOMAIN r = DOMAIN NoTrans
  /\ r.bufq \in Seq(Home)
  /\ r.revoke \subseteq Home
  /\ r.dataCnt \in Int /\ r.written \in Nat
  /\ r.start \in Nat /\ r.alloc \in Nat

Shaped(s) ==
  /\ DOMAIN s = DOMAIN NoJournal
  /\ DOMAIN s.trans = Trans
  /\ \A t \in Trans : TransShaped(s.trans[t])
  /\ s.cpq \in Seq(Trans)
  /\ s.recq \in [Home -> Seq(Trans)]
  /\ s.owner \in [Home -> 0 .. MaxTrans]
  /\ DOMAIN s.buf = Home /\ \A l \in Home : DOMAIN s.buf[l] = DOMAIN NoBuf
  /\ s.start \in Nat /\ s.last \in Nat

(* What both ends of a jbd_buf say of it: the transactions' lists and the
   block records name the same pairs, the record belongs to the newest, and
   a buffer reports its write to the owner.  a is the transaction that is
   not in the checkpoint queue yet, or 0; the records of the blocks in X are
   being worked on. *)
Linked(s, a, X) ==
  /\ \A t \in Trans, l \in Home : l \in ToSet(s.trans[t].bufq) <=> t \in ToSet(s.recq[l])
  /\ \A t \in Trans : IsInjective(s.trans[t].bufq)
  /\ \A l \in Home : IsInjective(s.recq[l])
  /\ \A l \in Home \ X : s.recq[l] # <<>> => s.owner[l] = Last(s.recq[l])
  /\ \A l \in Home \ X : s.buf[l].endWrite # 0 => s.buf[l].endWrite = s.owner[l] /\ s.recq[l] # <<>>
  /\ IsInjective(s.cpq) /\ a \notin ToSet(s.cpq)
  /\ \A t \in Trans : t \notin ToSet(s.cpq) /\ t # a => s.trans[t] = NoTrans
  /\ a # 0 => \A l \in ToSet(s.trans[a].bufq) : s.owner[l] = a

(* A transaction counts the buffers that are still to be written; d of those
   of transaction p were unlinked and are not counted yet. *)
Tally(s, p, d) ==
  \A t \in Trans : s.trans[t].dataCnt = s.trans[t].written + Len(s.trans[t].bufq) + (IF t = p THEN d ELSE 0)

(* How far behind the start of the log a block of the ring lies. *)
Off(from, x) == IF x >= from THEN x - from ELSE x - from + JSize

(* The transactions that have blocks in the log, oldest first. *)
InLog(s, a) == IF a # 0 /\ s.trans[a].alloc > 0 THEN Append(s.cpq, a) ELSE s.cpq

Ring(s, a) ==
  LET q == InLog(s, a) IN
  /\ s.start \in 1 .. JSize /\ s.last \in 1 .. JSize
  /\ \A i \in 1 .. Len(q) : s.trans[q[i]].start \in 1 .. JSize /\ s.trans[q[i]].alloc \in 1 .. JSize
  /\ q # <<>> => s.trans[q[1]].start = s.start
  /\ \A i \in 1 .. Len(q) - 1 : s.trans[q[i + 1]].start = After(s, q[i])
  /\ \A i, k \in 1 .. Len(q) : i < k =>
       Off(s.start, s.trans[q[i]].start) + s.trans[q[i]].alloc <= Off(s.start, s.trans[q[k]].start)
  /\ s.last = IF q = <<>> THEN s.start ELSE After(s, q[Len(q)])
  /\ q # <<>> => Off(s.start, s.trans[q[Len(q)]].start) + s.trans[q[Len(q)]].alloc <= JSize
  /\ a # 0 /\ s.trans[a].alloc = 0 => s.trans[a].start = 0

(* The ids of the queued transactions are consecutive, and n is the next. *)
Tids(s, n) ==
  /\ \A i \in 1 .. Len(s.cpq) - 1 : s.trans[s.cpq[i + 1]].tid = s.trans[s.cpq[i]].tid + 1
  /\ s.cpq # <<>> => n = s.trans[s.cpq[Len(s.cpq)]].tid + 1

(* There is room in the log: its end is not at its start. *)
Room(s, a) == InLog(s, a) # <<>> => s.last # s.start

-----------------------------------------------------------------------------
(* What the operators do to the fields of j. *)

JournalFields == {"trans", "cpq", "recq", "owner", "buf", "start", "tid", "last", "allocTid", "out"}
TransFields == {"bufq", "revoke", "dataCnt", "written", "start", "alloc", "tid", "jlba"}
BufFields == {"val", "uptodate", "dirty", "endWrite"}

LEMMA FieldNames ==
  /\ DOMAIN NoJournal = JournalFields
  /\ DOMAIN NoTrans = TransFields
  /\ DOMAIN NoBuf = BufFields
BY DEF NoJournal, NoTrans, NoBuf, JournalFields, TransFields, BufFields

LEMMA UnlinkedFields ==
  ASSUME NEW s, Shaped(s), NEW t \in Trans, NEW l \in Home,
         NEW u, u = Unlinked(s, t, l)
  PROVE  /\ Shaped(u)
         /\ u.cpq = s.cpq /\ u.owner = s.owner /\ u.buf = s.buf
         /\ u.start = s.start /\ u.last = s.last /\ u.allocTid = s.allocTid
         /\ u.recq[l] = RemoveFirst(s.recq[l], t)
         /\ \A k \in Home \ {l} : u.recq[k] = s.recq[k]
         /\ u.trans[t].bufq = RemoveFirst(s.trans[t].bufq, l)
         /\ \A f \in TransFields \ {"bufq"} : u.trans[t][f] = s.trans[t][f]
         /\ \A x \in Trans \ {t} : u.trans[x] = s.trans[x]
<1>1. u = [s EXCEPT !.trans[t].bufq = RemoveFirst(@, l), !.recq[l] = RemoveFirst(@, t)]
  BY DEF Unlinked
<1>2. DOMAIN s = {"trans", "cpq", "recq", "owner", "buf", "start", "tid", "last", "allocTid", "out"}
  BY DEF Shaped, NoJournal
<1>3. DOMAIN s.trans[t] = TransFields
  BY FieldNames DEF Shaped, TransShaped
<1>4. /\ u.cpq = s.cpq /\ u.owner = s.owner /\ u.buf = s.buf
      /\ u.start = s.start /\ u.last = s.last /\ u.allocTid = s.allocTid
      /\ u.recq = [s.recq EXCEPT ![l] = RemoveFirst(@, t)]
      /\ u.trans = [s.trans EXCEPT ![t] = [s.trans[t] EXCEPT !.bufq = RemoveFirst(s.trans[t].bufq, l)]]
      /\ DOMAIN u = DOMAIN s
  BY <1>1, <1>2
<1>5. /\ u.trans[t] = [s.trans[t] EXCEPT !.bufq = RemoveFirst(s.trans[t].bufq, l)]
      /\ \A x \in Trans \ {t} : u.trans[x] = s.trans[x]
      /\ DOMAIN u.trans = Trans
  BY <1>4 DEF Shaped
<1>6. /\ u.trans[t].bufq = RemoveFirst(s.trans[t].bufq, l)
      /\ \A f \in TransFields \ {"bufq"} : u.trans[t][f] = s.trans[t][f]
      /\ DOMAIN u.trans[t] = TransFields
  BY <1>3, <1>5 DEF TransFields
<1>7. /\ u.trans[t].bufq \in Seq(Home)
      /\ u.recq \in [Home -> Seq(Trans)]
  BY <1>4, <1>6, RemoveFirstFrom DEF Shaped, TransShaped
<1>a. /\ u.recq[l] = RemoveFirst(s.recq[l], t)
      /\ \A k \in Home \ {l} : u.recq[k] = s.recq[k]
  BY <1>4 DEF Shaped
<1>8. TransShaped(u.trans[t])
  BY <1>6, <1>7, FieldNames DEF Shaped, TransShaped, TransFields
<1>9. Shaped(u)
  BY <1>4, <1>5, <1>7, <1>8 DEF Shaped
<1> QED
  BY <1>4, <1>a, <1>5, <1>6, <1>9

LEMMA FreedFields ==
  ASSUME NEW s, Shaped(s), NEW S \in SUBSET Trans, NEW r, r = Freed(s, S)
  PROVE  /\ Shaped(r)
         /\ r.cpq = s.cpq /\ r.recq = s.recq /\ r.buf = s.buf
         /\ r.start = s.start /\ r.last = s.last /\ r.allocTid = s.allocTid
         /\ \A t \in Trans : r.trans[t] = IF t \in S THEN NoTrans ELSE s.trans[t]
         /\ \A l \in Home : r.owner[l] = IF s.owner[l] \in S THEN 0 ELSE s.owner[l]
<1>1. DOMAIN s = {"trans", "cpq", "recq", "owner", "buf", "start", "tid", "last", "allocTid", "out"}
  BY DEF Shaped, NoJournal
<1>2. /\ r.cpq = s.cpq /\ r.recq = s.recq /\ r.buf = s.buf
      /\ r.start = s.start /\ r.last = s.last /\ r.allocTid = s.allocTid
      /\ r.trans = [t \in Trans |-> IF t \in S THEN NoTrans ELSE s.trans[t]]
      /\ r.owner = [l \in Home |-> IF s.owner[l] \in S THEN 0 ELSE s.owner[l]]
      /\ DOMAIN r = DOMAIN s
  BY <1>1 DEF Freed
<1>3. TransShaped(NoTrans)
  BY EmptySeq DEF TransShaped, NoTrans
<1>4. \A t \in Trans : TransShaped(r.trans[t])
  BY <1>2, <1>3 DEF Shaped
<1>5. r.owner \in [Home -> 0 .. MaxTrans]
  BY <1>2, JournalAssumption DEF Shaped
<1> QED
  BY <1>2, <1>4, <1>5 DEF Shaped

(* One more buffer of t has reached the device. *)
Wrote(s, t) == [s EXCEPT !.trans[t].written = s.trans[t].written + 1]

LEMMA WroteFields ==
  ASSUME NEW s, Shaped(s), NEW t \in Trans, NEW r, r = Wrote(s, t)
  PROVE  /\ Shaped(r)
         /\ r.cpq = s.cpq /\ r.recq = s.recq /\ r.owner = s.owner /\ r.buf = s.buf
         /\ r.start = s.start /\ r.last = s.last /\ r.allocTid = s.allocTid
         /\ r.trans[t].written = s.trans[t].written + 1
         /\ \A f \in TransFields \ {"written"} : r.trans[t][f] = s.trans[t][f]
         /\ \A x \in Trans \ {t} : r.trans[x] = s.trans[x]
<1>1. DOMAIN s = JournalFields
  BY FieldNames DEF Shaped
<1>2. DOMAIN s.trans[t] = TransFields
  BY FieldNames DEF Shaped, TransShaped
<1>3. /\ r.cpq = s.cpq /\ r.recq = s.recq /\ r.owner = s.owner /\ r.buf = s.buf
      /\ r.start = s.start /\ r.last = s.last /\ r.allocTid = s.allocTid
      /\ r.trans = [s.trans EXCEPT ![t] = [s.trans[t] EXCEPT !.written = s.trans[t].written + 1]]
      /\ DOMAIN r = DOMAIN s
  BY <1>1 DEF Wrote, JournalFields
<1>4. /\ r.trans[t] = [s.trans[t] EXCEPT !.written = s.trans[t].written + 1]
      /\ \A x \in Trans \ {t} : r.trans[x] = s.trans[x]
      /\ DOMAIN r.trans = Trans
  BY <1>3 DEF Shaped
<1>5. /\ r.trans[t].written = s.trans[t].written + 1
      /\ \A f \in TransFields \ {"written"} : r.trans[t][f] = s.trans[t][f]
      /\ DOMAIN r.trans[t] = TransFields
  BY <1>2, <1>4 DEF TransFields
<1>6. TransShaped(s.trans[t]) /\ s.trans[t].written + 1 \in Nat
  BY DEF Shaped, TransShaped
<1>7. TransShaped(r.trans[t])
  BY <1>5, <1>6, FieldNames DEF TransShaped, TransFields
<1>8. Shaped(r)
  BY <1>3, <1>4, <1>7 DEF Shaped
<1> QED
  BY <1>3, <1>4, <1>5, <1>8

(* Block l has buffer b. *)
WithBuf(s, l, b) == [s EXCEPT !.buf = [s.buf EXCEPT ![l] = b]]

LEMMA WithBufFields ==
  ASSUME NEW s, Shaped(s), NEW l \in Home, NEW b, DOMAIN b = BufFields,
         NEW r, r = WithBuf(s, l, b)
  PROVE  /\ Shaped(r)
         /\ r.trans = s.trans /\ r.cpq = s.cpq /\ r.recq = s.recq /\ r.owner = s.owner
         /\ r.start = s.start /\ r.last = s.last /\ r.allocTid = s.allocTid
         /\ r.buf[l] = b
         /\ \A k \in Home \ {l} : r.buf[k] = s.buf[k]
<1>1. DOMAIN s = JournalFields
  BY FieldNames DEF Shaped
<1>2. /\ r.trans = s.trans /\ r.cpq = s.cpq /\ r.recq = s.recq /\ r.owner = s.owner
      /\ r.start = s.start /\ r.last = s.last /\ r.allocTid = s.allocTid
      /\ r.buf = [s.buf EXCEPT ![l] = b]
      /\ DOMAIN r = DOMAIN s
  BY <1>1 DEF JournalFields, WithBuf
<1>3. /\ r.buf[l] = b
      /\ \A k \in Home \ {l} : r.buf[k] = s.buf[k]
      /\ DOMAIN r.buf = Home
  BY <1>2 DEF Shaped
<1>4. \A k \in Home : DOMAIN r.buf[k] = DOMAIN NoBuf
  BY <1>3, FieldNames DEF Shaped
<1>5. Shaped(r)
  BY <1>2, <1>3, <1>4 DEF Shaped
<1> QED
  BY <1>2, <1>3, <1>5

(* The buffer of block l does not report its write any more. *)
Unreported(s, l) == [s EXCEPT !.buf[l].endWrite = 0]

LEMMA UnreportedFields ==
  ASSUME NEW s, Shaped(s), NEW l \in Home, NEW r, r = Unreported(s, l)
  PROVE  /\ Shaped(r)
         /\ r.trans = s.trans /\ r.cpq = s.cpq /\ r.recq = s.recq /\ r.owner = s.owner
         /\ r.start = s.start /\ r.last = s.last /\ r.allocTid = s.allocTid
         /\ r.buf[l].endWrite = 0
         /\ \A f \in BufFields \ {"endWrite"} : r.buf[l][f] = s.buf[l][f]
         /\ \A k \in Home \ {l} : r.buf[k] = s.buf[k]
<1> DEFINE b == [s.buf[l] EXCEPT !.endWrite = 0]
<1>1. DOMAIN s.buf[l] = BufFields
  BY FieldNames DEF Shaped
<1>2. /\ DOMAIN b = BufFields /\ b.endWrite = 0
      /\ \A f \in BufFields \ {"endWrite"} : b[f] = s.buf[l][f]
  BY <1>1 DEF BufFields
<1>3. r = WithBuf(s, l, b)
  BY DEF Unreported, WithBuf
<1> HIDE DEF b
<1> QED
  BY <1>2, <1>3, WithBufFields

(* The other fields of j, when its writes change. *)
WithOut(s, o) == [s EXCEPT !.out = o]

LEMMA WithOutFields ==
  ASSUME NEW s, Shaped(s), NEW o, NEW r, r = WithOut(s, o)
  PROVE  /\ Shaped(r)
         /\ r.trans = s.trans /\ r.cpq = s.cpq /\ r.recq = s.recq /\ r.owner = s.owner
         /\ r.buf = s.buf
         /\ r.start = s.start /\ r.last = s.last /\ r.allocTid = s.allocTid
<1>1. DOMAIN s = JournalFields
  BY FieldNames DEF Shaped
<1>2. /\ r.trans = s.trans /\ r.cpq = s.cpq /\ r.recq = s.recq /\ r.owner = s.owner
      /\ r.buf = s.buf
      /\ r.start = s.start /\ r.last = s.last /\ r.allocTid = s.allocTid
      /\ DOMAIN r = DOMAIN s
  BY <1>1 DEF JournalFields, WithOut
<1>3. Shaped(r)
  BY <1>2 DEF Shaped
<1> QED
  BY <1>2, <1>3

(* The record of block l goes back to the newest transaction left, with the
   copy that is in the log unless the block is revoked. *)
Restored(s, r, l, rv) ==
  /\ r.trans = s.trans /\ r.cpq = s.cpq /\ r.recq = s.recq
  /\ r.start = s.start /\ r.last = s.last /\ r.allocTid = s.allocTid
  /\ r.owner[l] = IF s.recq[l] = <<>> THEN 0 ELSE Last(s.recq[l])
  /\ \A k \in Home \ {l} : r.owner[k] = s.owner[k] /\ r.buf[k] = s.buf[k]
  /\ s.recq[l] = <<>> \/ rv => r.buf[l] = s.buf[l]
  /\ s.recq[l] # <<>> /\ ~rv => /\ r.buf[l].endWrite = Last(s.recq[l])
                                /\ r.buf[l].dirty = TRUE /\ r.buf[l].uptodate = TRUE

(* The record of block l goes back to the newest transaction left, or is
   freed. *)
LEMMA RolledBackFields ==
  ASSUME NEW s, Shaped(s), NEW t \in Trans, NEW l \in Home, NEW rv \in BOOLEAN,
         s.owner[l] = t,
         NEW r, r = RolledBack(s, t, l, rv)
  PROVE  Shaped(r) /\ Restored(s, r, l, rv)
<1>1. DOMAIN s = JournalFields
  BY FieldNames DEF Shaped
<1> DEFINE k == Last(s.recq[l])
           o == IF s.recq[l] = <<>> THEN 0 ELSE k
           v == [s EXCEPT !.owner = [s.owner EXCEPT ![l] = o]]
           b == [val |-> Contents(log[s.trans[k].jlba[l]]), uptodate |-> TRUE, dirty |-> TRUE, endWrite |-> k]
           w == WithBuf(v, l, b)
<1>2. o \in 0 .. MaxTrans
  <2>1. s.recq[l] \in Seq(Trans)
    BY DEF Shaped
  <2>2. s.recq[l] # <<>> => k \in Trans
    BY <2>1, MembersOf
  <2> QED
    BY <2>2, JournalAssumption DEF Trans
<1>3. DOMAIN b = BufFields /\ b.endWrite = k /\ b.dirty = TRUE /\ b.uptodate = TRUE
  BY DEF BufFields
<1>4. r = IF s.recq[l] = <<>> \/ rv THEN v ELSE w
  <2>1. CASE s.recq[l] = <<>>
    BY <2>1 DEF RolledBack
  <2>2. CASE s.recq[l] # <<>> /\ rv
    BY <2>2 DEF RolledBack
  <2>3. CASE s.recq[l] # <<>> /\ ~rv
    <3>1. r = [s EXCEPT !.owner[l] = k, !.buf[l] = b]
      BY <2>3 DEF RolledBack
    <3>2. v.buf = s.buf
      BY <1>1 DEF JournalFields
    <3> QED
      BY <2>3, <3>1, <3>2, <1>1 DEF JournalFields, WithBuf
  <2> QED
    BY <2>1, <2>2, <2>3
<1> HIDE DEF o, b
<1>5. /\ v.trans = s.trans /\ v.cpq = s.cpq /\ v.recq = s.recq /\ v.buf = s.buf
      /\ v.start = s.start /\ v.last = s.last /\ v.allocTid = s.allocTid
      /\ v.owner = [s.owner EXCEPT ![l] = o]
      /\ DOMAIN v = DOMAIN s
  BY <1>1 DEF JournalFields
<1> HIDE DEF v
<1>6. v.owner \in [Home -> 0 .. MaxTrans] /\ v.owner[l] = o /\ \A x \in Home \ {l} : v.owner[x] = s.owner[x]
  BY <1>2, <1>5 DEF Shaped
<1>7. Shaped(v)
  BY <1>5, <1>6 DEF Shaped
<1>8. /\ Shaped(w)
      /\ w.trans = v.trans /\ w.cpq = v.cpq /\ w.recq = v.recq /\ w.owner = v.owner
      /\ w.start = v.start /\ w.last = v.last /\ w.allocTid = v.allocTid
      /\ w.buf[l] = b
      /\ \A x \in Home \ {l} : w.buf[x] = v.buf[x]
  BY <1>3, <1>7, WithBufFields
<1> HIDE DEF w
<1>9. CASE s.recq[l] = <<>> \/ rv
  BY <1>4, <1>5, <1>6, <1>7, <1>9 DEF o, Restored
<1>10. CASE ~(s.recq[l] = <<>> \/ rv)
  BY <1>3, <1>4, <1>5, <1>6, <1>8, <1>10 DEF o, Restored
<1> QED
  BY <1>9, <1>10

(* The first n transactions of the checkpoint queue leave it, and the log
   starts behind them. *)
Gone(s, n) == {s.cpq[i] : i \in 1 .. n}

Dropped(s, r, n) ==
  /\ Shaped(r)
  /\ r.cpq = SubSeq(s.cpq, n + 1, Len(s.cpq))
  /\ r.start = IF n = 0 THEN s.start ELSE After(s, s.cpq[n])
  /\ r.recq = s.recq /\ r.buf = s.buf /\ r.last = s.last /\ r.allocTid = s.allocTid
  /\ \A t \in Trans : r.trans[t] = IF t \in Gone(s, n) THEN NoTrans ELSE s.trans[t]
  /\ \A l \in Home : r.owner[l] = IF s.owner[l] \in Gone(s, n) THEN 0 ELSE s.owner[l]

(* The queue is a sequence of transactions. *)
LEMMA QueueType ==
  ASSUME NEW s, Shaped(s)
  PROVE  /\ Len(s.cpq) \in Nat
         /\ \A i \in 1 .. Len(s.cpq) : s.cpq[i] \in Trans
         /\ \A n \in 0 .. Len(s.cpq) : Gone(s, n) \subseteq Trans
         /\ \A t \in Trans : TransShaped(s.trans[t])
<1>1. s.cpq \in Seq(Trans)
  BY DEF Shaped
<1>2. /\ Len(s.cpq) \in Nat
      /\ \A i \in 1 .. Len(s.cpq) : s.cpq[i] \in Trans
  BY <1>1
<1>3. \A n \in 0 .. Len(s.cpq) : Gone(s, n) \subseteq Trans
  BY <1>2 DEF Gone
<1> QED
  BY <1>2, <1>3 DEF Shaped

(* In the ring a queued transaction ends where the next one starts. *)
LEMMA RingNext ==
  ASSUME NEW s, Shaped(s), NEW a, Ring(s, a), NEW n \in 1 .. Len(s.cpq)
  PROVE  /\ After(s, s.cpq[n]) \in 1 .. JSize
         /\ n < Len(s.cpq) => s.trans[s.cpq[n + 1]].start = After(s, s.cpq[n])
         /\ s.trans[s.cpq[1]].start = s.start
<1> DEFINE q == InLog(s, a)
<1>1. s.cpq \in Seq(Trans) /\ Len(s.cpq) \in Nat
  BY DEF Shaped
<1>2. /\ Len(q) >= Len(s.cpq) /\ Len(q) \in Nat
      /\ \A i \in 1 .. Len(s.cpq) : q[i] = s.cpq[i]
  <2>1. CASE q = s.cpq
    BY <1>1, <2>1
  <2>2. CASE q = Append(s.cpq, a)
    BY <1>1, <2>2, AppendProperties
  <2> QED
    BY <2>1, <2>2 DEF InLog
<1>3. q # <<>>
  BY <1>1, <1>2
<1>4. q[1] = s.cpq[1] /\ q[n] = s.cpq[n] /\ (n < Len(s.cpq) => q[n + 1] = s.cpq[n + 1])
  BY <1>1, <1>2
<1>5. n < Len(s.cpq) => n \in 1 .. Len(q) - 1
  BY <1>1, <1>2
<1> HIDE DEF q
<1>6. /\ s.trans[q[n]].start \in 1 .. JSize /\ s.trans[q[n]].alloc \in 1 .. JSize
      /\ s.trans[q[1]].start = s.start
      /\ n < Len(s.cpq) => s.trans[q[n + 1]].start = After(s, q[n])
  BY <1>1, <1>2, <1>3, <1>5 DEF Ring, q
<1>7. After(s, q[n]) \in 1 .. JSize
  <2>1. \A x, y \in 1 .. JSize : wrap(x + y) \in 1 .. JSize
    BY LogAssumption DEF wrap
  <2> QED
    BY <1>6, <2>1 DEF After
<1> QED
  BY <1>4, <1>6, <1>7

(* jbd_journal_purge_cp_trans removes the transactions that are complete, as
   far as the first that is not. *)
LEMMA PurgedDrops ==
  ASSUME NEW s, Shaped(s), NEW a, Ring(s, a), NEW r, r = Purged(s)
  PROVE  \E n \in 0 .. Len(s.cpq) : /\ Dropped(s, r, n)
                                    /\ \A i \in 1 .. n : Complete(s, s.cpq[i])
                                    /\ n < Len(s.cpq) => ~Complete(s, s.cpq[n + 1])
<1> DEFINE q == s.cpq
           C(n) == /\ \A i \in 1 .. n : Complete(s, q[i])
                   /\ n < Len(q) => ~Complete(s, q[n + 1])
           m == CHOOSE n \in 0 .. Len(q) : C(n)
           rest == SubSeq(q, m + 1, Len(q))
           from == IF rest # <<>> THEN s.trans[Head(rest)].start
                   ELSE IF m > 0 THEN After(s, q[m]) ELSE s.start
           tid == IF rest # <<>> THEN s.trans[Head(rest)].tid
                  ELSE IF m > 0 THEN s.trans[q[m]].tid + 1 ELSE s.tid
           w == [s EXCEPT !.cpq = rest, !.start = from, !.tid = tid]
<1>1. r = Freed(w, ToSet(SubSeq(q, 1, m)))
  BY DEF Purged
<1>2. q \in Seq(Trans) /\ Len(q) \in Nat
  BY DEF Shaped
<1>3. \E n \in 0 .. Len(q) : C(n)
  <2> DEFINE S == {n \in 0 .. Len(q) : \A i \in 1 .. n : Complete(s, q[i])}
  <2>1. S \in SUBSET (0 .. Len(q)) /\ 0 \in S
    BY <1>2
  <2>2. Max(S) \in S /\ \A k \in S : k <= Max(S)
    BY <1>2, <2>1, GreatestNatural
  <2>3. PICK n \in S : \A k \in S : k <= n
    BY <2>2
  <2>4. ASSUME n < Len(q), Complete(s, q[n + 1]) PROVE FALSE
    <3>1. n + 1 \in 0 .. Len(q)
      BY <1>2, <2>4
    <3>2. \A i \in 1 .. n + 1 : Complete(s, q[i])
      BY <1>2, <2>4
    <3>3. n + 1 \in S
      BY <3>1, <3>2
    <3> QED
      BY <2>3, <3>3, <1>2
  <2> QED
    BY <2>4
<1>4. m \in 0 .. Len(q) /\ C(m)
  BY <1>3
<1> HIDE DEF m
<1>5. /\ rest \in Seq(Trans)
      /\ rest # <<>> <=> m < Len(q)
      /\ m < Len(q) => Head(rest) = q[m + 1]
  <2>1. \A i \in m + 1 .. Len(q) : q[i] \in Trans
    BY <1>2, <1>4
  <2>2. rest \in Seq(Trans) /\ Len(rest) = IF m + 1 <= Len(q) THEN Len(q) - m ELSE 0
    BY <1>2, <1>4, <2>1, SubSeqProperties
  <2>3. m < Len(q) => rest[1] = q[m + 1]
    <3>1. \A i \in 1 .. Len(q) - m : rest[i] = q[(m + 1) + i - 1]
      BY <1>2, <1>4, <2>1, SubSeqProperties
    <3> QED
      BY <3>1, <1>2, <1>4
  <2> HIDE DEF rest
  <2>4. rest # <<>> <=> Len(rest) > 0
    BY <2>2, EmptySeq
  <2> QED
    BY <1>2, <1>4, <2>2, <2>3, <2>4
<1>6. from = IF m = 0 THEN s.start ELSE After(s, q[m])
  <2>1. CASE m = 0 /\ 0 < Len(q)
    <3>1. s.trans[q[1]].start = s.start
      BY <2>1, <1>2, RingNext
    <3> QED
      BY <2>1, <3>1, <1>5
  <2>2. CASE m = 0 /\ Len(q) = 0
    BY <2>2, <1>5
  <2>3. CASE m > 0 /\ m < Len(q)
    <3>1. s.trans[q[m + 1]].start = After(s, q[m])
      BY <2>3, <1>2, <1>4, RingNext
    <3> QED
      BY <2>3, <3>1, <1>5
  <2>4. CASE m > 0 /\ m = Len(q)
    BY <2>4, <1>5
  <2> QED
    BY <2>1, <2>2, <2>3, <2>4, <1>2, <1>4
<1>7. from \in Nat
  <2>1. m # 0 => After(s, q[m]) \in 1 .. JSize
    BY <1>2, <1>4, RingNext
  <2>2. s.start \in Nat
    BY DEF Shaped
  <2>3. \A x \in 1 .. JSize : x \in Nat
    BY LogAssumption
  <2> HIDE DEF from
  <2> QED
    BY <1>6, <2>1, <2>2, <2>3
<1>8. ToSet(SubSeq(q, 1, m)) = Gone(s, m)
  <2>1. SubSeq(q, 1, m) \in Seq(Trans) /\ Len(SubSeq(q, 1, m)) = m /\ \A i \in 1 .. m : SubSeq(q, 1, m)[i] = q[i]
    <3>1. \A i \in 1 .. m : q[i] \in Trans
      BY <1>2, <1>4
    <3> QED
      BY <1>2, <1>4, <3>1, SubSeqProperties
  <2> DEFINE h == SubSeq(q, 1, m)
  <2> HIDE DEF h
  <2>2. h \in Seq(Trans) /\ Len(h) = m /\ \A i \in 1 .. m : h[i] = q[i]
    BY <2>1 DEF h
  <2>3. \A x : x \in ToSet(h) <=> \E i \in 1 .. m : h[i] = x
    BY <2>2, MembersOf
  <2>4. ToSet(h) = {q[i] : i \in 1 .. m}
    BY <2>2, <2>3
  <2> QED
    BY <2>4 DEF Gone, h
<1> HIDE DEF rest, from, tid
<1>9. /\ w.trans = s.trans /\ w.recq = s.recq /\ w.owner = s.owner /\ w.buf = s.buf
      /\ w.last = s.last /\ w.allocTid = s.allocTid
      /\ w.cpq = rest /\ w.start = from
      /\ DOMAIN w = DOMAIN s
  <2>1. DOMAIN s = JournalFields
    BY FieldNames DEF Shaped
  <2> QED
    BY <2>1 DEF JournalFields
<1> HIDE DEF w
<1>10. Shaped(w)
  BY <1>5, <1>7, <1>9 DEF Shaped
<1>11. Gone(s, m) \in SUBSET Trans
  BY <1>4, QueueType
<1>12. r = Freed(w, Gone(s, m))
  BY <1>1, <1>8
<1>13. /\ Shaped(r)
       /\ r.cpq = w.cpq /\ r.recq = w.recq /\ r.buf = w.buf
       /\ r.start = w.start /\ r.last = w.last /\ r.allocTid = w.allocTid
       /\ \A t \in Trans : r.trans[t] = IF t \in Gone(s, m) THEN NoTrans ELSE w.trans[t]
       /\ \A l \in Home : r.owner[l] = IF w.owner[l] \in Gone(s, m) THEN 0 ELSE w.owner[l]
  BY <1>10, <1>11, <1>12, FreedFields
<1>14. Dropped(s, r, m)
  BY <1>6, <1>9, <1>13 DEF Dropped, rest
<1> QED
  BY <1>4, <1>14

(* A complete transaction leaves the head of the queue. *)
LEMMA PoppedDrops ==
  ASSUME NEW s, Shaped(s), NEW a, Ring(s, a), s.cpq # <<>>, NEW r, r = Popped(s)
  PROVE  Dropped(s, r, 1)
<1> DEFINE t == Head(s.cpq)
           w == [s EXCEPT !.cpq = Tail(s.cpq), !.start = After(s, t), !.tid = s.trans[t].tid + 1]
<1>1. r = Freed(w, {t})
  BY DEF Popped
<1>2. s.cpq \in Seq(Trans) /\ Len(s.cpq) \in Nat /\ Len(s.cpq) > 0
  BY EmptySeq DEF Shaped
<1>3. t = s.cpq[1] /\ t \in Trans
  BY <1>2
<1>4. Tail(s.cpq) \in Seq(Trans) /\ Tail(s.cpq) = SubSeq(s.cpq, 2, Len(s.cpq))
  BY <1>2
<1>5. After(s, t) \in 1 .. JSize
  BY <1>2, <1>3, RingNext
<1>6. /\ w.trans = s.trans /\ w.recq = s.recq /\ w.owner = s.owner /\ w.buf = s.buf
      /\ w.last = s.last /\ w.allocTid = s.allocTid
      /\ w.cpq = Tail(s.cpq) /\ w.start = After(s, t)
      /\ DOMAIN w = DOMAIN s
  <2>1. DOMAIN s = JournalFields
    BY FieldNames DEF Shaped
  <2> QED
    BY <2>1 DEF JournalFields
<1> HIDE DEF w
<1>7. Shaped(w)
  BY <1>4, <1>5, <1>6, LogAssumption DEF Shaped
<1>8. Gone(s, 1) = {t}
  BY <1>3 DEF Gone
<1>9. /\ Shaped(r)
      /\ r.cpq = w.cpq /\ r.recq = w.recq /\ r.buf = w.buf
      /\ r.start = w.start /\ r.last = w.last /\ r.allocTid = w.allocTid
      /\ \A x \in Trans : r.trans[x] = IF x \in {t} THEN NoTrans ELSE w.trans[x]
      /\ \A l \in Home : r.owner[l] = IF w.owner[l] \in {t} THEN 0 ELSE w.owner[l]
  BY <1>1, <1>3, <1>7, FreedFields
<1> QED
  BY <1>3, <1>4, <1>6, <1>8, <1>9 DEF Dropped

(* Distances in the ring. *)
LEMMA OffShift ==
  ASSUME NEW x \in 1 .. JSize, NEW y \in 1 .. JSize, NEW z \in 1 .. JSize
  PROVE  /\ Off(z, x) \in 0 .. JSize - 1
         /\ Off(z, z) = 0
         /\ Off(z, x) = Off(z, y) => x = y
         /\ Off(z, y) <= Off(z, x) => Off(y, x) = Off(z, x) - Off(z, y)
BY LogAssumption DEF Off

LEMMA OffAfter ==
  ASSUME NEW y \in 1 .. JSize, NEW z \in 1 .. JSize, NEW b \in 1 .. JSize,
         Off(z, y) + b <= JSize
  PROVE  /\ wrap(y + b) \in 1 .. JSize
         /\ Off(z, wrap(y + b)) = IF Off(z, y) + b = JSize THEN 0 ELSE Off(z, y) + b
BY LogAssumption DEF Off, wrap

(* The transactions with blocks in the log once the first n are gone. *)
LEMMA DroppedLog ==
  ASSUME NEW s, Shaped(s), NEW a \in 0 .. MaxTrans, a \notin ToSet(s.cpq),
         NEW n \in 0 .. Len(s.cpq), NEW r, Dropped(s, r, n), IsInjective(s.cpq)
  PROVE  LET q == InLog(s, a)
             p == InLog(r, a)
         IN /\ Len(q) \in Nat /\ n \in Nat /\ n <= Len(q)
            /\ Len(p) = Len(q) - n
            /\ \A i \in 1 .. Len(p) : p[i] = q[i + n]
            /\ \A i \in 1 .. n : q[i] = s.cpq[i]
            /\ \A i \in 1 .. Len(p) : r.trans[p[i]] = s.trans[p[i]]
            /\ \A i \in 1 .. Len(p) : p[i] \in Trans
            /\ a # 0 => r.trans[a] = s.trans[a]
            /\ (p = <<>>) <=> (Len(p) = 0)
            /\ (q = <<>>) <=> (Len(q) = 0)
<1> DEFINE q == InLog(s, a)
           p == InLog(r, a)
           c == s.cpq
<1>1. c \in Seq(Trans) /\ Len(c) \in Nat
  BY DEF Shaped
<1>2. r.cpq \in Seq(Trans) /\ r.cpq = SubSeq(c, n + 1, Len(c))
  BY DEF Dropped, Shaped
<1>3. Len(r.cpq) = Len(c) - n /\ \A i \in 1 .. Len(c) - n : r.cpq[i] = c[i + n]
  <2>1. \A i \in n + 1 .. Len(c) : c[i] \in Trans
    BY <1>1
  <2>2. /\ Len(r.cpq) = IF n + 1 <= Len(c) THEN Len(c) - (n + 1) + 1 ELSE 0
        /\ \A i \in 1 .. Len(c) - (n + 1) + 1 : r.cpq[i] = c[(n + 1) + i - 1]
    BY <1>1, <1>2, <2>1, SubSeqProperties
  <2> QED
    BY <1>1, <2>2
<1>4. \A t \in ToSet(c) : \A i \in n + 1 .. Len(c) : c[i] = t => t \notin Gone(s, n)
  BY <1>1 DEF IsInjective, Gone
<1>5. \A i \in 1 .. Len(c) - n : c[i + n] \in Trans /\ c[i + n] \notin Gone(s, n)
  <2> TAKE i \in 1 .. Len(c) - n
  <2>1. i + n \in n + 1 .. Len(c) /\ i + n \in 1 .. Len(c)
    BY <1>1
  <2>2. c[i + n] \in ToSet(c) /\ c[i + n] \in Trans
    BY <1>1, <2>1, MembersOf
  <2> QED
    BY <1>4, <2>1, <2>2
<1>6. a # 0 => a \in Trans /\ a \notin Gone(s, n)
  <2>1. Gone(s, n) \subseteq ToSet(c)
    <3>1. \A i \in 1 .. n : c[i] \in ToSet(c)
      BY <1>1, MembersOf
    <3> QED
      BY <3>1 DEF Gone
  <2> QED
    BY <2>1, JournalAssumption DEF Trans
<1>7. /\ \A i \in 1 .. Len(r.cpq) : r.trans[r.cpq[i]] = s.trans[r.cpq[i]]
      /\ a # 0 => r.trans[a] = s.trans[a]
  <2>1. \A t \in Trans : t \notin Gone(s, n) => r.trans[t] = s.trans[t]
    BY DEF Dropped
  <2>2. \A i \in 1 .. Len(c) - n : r.cpq[i] \in Trans /\ r.cpq[i] \notin Gone(s, n)
    BY <1>3, <1>5
  <2>3. Len(r.cpq) = Len(c) - n
    BY <1>3
  <2> QED
    BY <1>6, <2>1, <2>2, <2>3
<1>8. PICK m \in Nat, k \in Nat : m = Len(c) /\ k = Len(r.cpq) /\ m = k + n /\ n \in Nat
  BY <1>1, <1>3
<1>9. \A i \in 1 .. k : r.cpq[i] = c[i + n]
  BY <1>3, <1>8
<1>10. CASE a # 0 /\ s.trans[a].alloc > 0
  <2>1. q = Append(c, a) /\ p = Append(r.cpq, a)
    BY <1>7, <1>10 DEF InLog
  <2>a. a \in Trans
    BY <1>6, <1>10
  <2> HIDE DEF q, p
  <2>2. /\ q \in Seq(Trans) /\ Len(q) = m + 1 /\ q[m + 1] = a
        /\ \A i \in 1 .. m : q[i] = c[i]
    <3>1. /\ q \in Seq(Trans) /\ Len(q) = Len(c) + 1 /\ q[Len(c) + 1] = a
          /\ \A i \in 1 .. Len(c) : q[i] = c[i]
      BY <1>1, <2>a, <2>1, AppendProperties
    <3> QED
      BY <1>8, <3>1
  <2>3. /\ p \in Seq(Trans) /\ Len(p) = k + 1 /\ p[k + 1] = a
        /\ \A i \in 1 .. k : p[i] = r.cpq[i]
    <3>1. /\ p \in Seq(Trans) /\ Len(p) = Len(r.cpq) + 1 /\ p[Len(r.cpq) + 1] = a
          /\ \A i \in 1 .. Len(r.cpq) : p[i] = r.cpq[i]
      <4>1. r.cpq \in Seq(Trans)
        BY <1>2
      <4> QED
        BY <4>1, <2>a, <2>1, AppendProperties
    <3> QED
      BY <1>8, <3>1
  <2>4. \A i \in 1 .. k + 1 : p[i] = q[i + n]
    <3> TAKE i \in 1 .. k + 1
    <3>1. CASE i \in 1 .. k
      <4>1. i + n \in 1 .. m
        BY <3>1, <1>8
      <4> QED
        BY <3>1, <4>1, <1>9, <2>2, <2>3
    <3>2. CASE i = k + 1
      <4>1. i + n = m + 1
        BY <3>2, <1>8
      <4> QED
        BY <4>1, <3>2, <2>2, <2>3
    <3> QED
      BY <3>1, <3>2, <1>8
  <2>5. \A i \in 1 .. k + 1 : r.trans[p[i]] = s.trans[p[i]]
    <3> TAKE i \in 1 .. k + 1
    <3>1. CASE i \in 1 .. k
      <4>1. r.trans[r.cpq[i]] = s.trans[r.cpq[i]]
        BY <3>1, <1>7, <1>8
      <4> QED
        BY <3>1, <4>1, <2>3
    <3>2. CASE i = k + 1
      BY <3>2, <1>7, <1>10, <2>3
    <3> QED
      BY <3>1, <3>2, <1>8
  <2>6. \A i \in 1 .. k + 1 : p[i] \in Trans
    BY <1>8, <2>3
  <2>7. (p = <<>> <=> Len(p) = 0) /\ (q = <<>> <=> Len(q) = 0)
    BY <2>2, <2>3, EmptySeq
  <2>8. Len(p) = Len(q) - n /\ n <= Len(q) /\ Len(q) \in Nat
    BY <1>8, <2>2, <2>3
  <2>9. \A i \in 1 .. n : q[i] = c[i]
    <3>1. \A i \in 1 .. n : i \in 1 .. m
      BY <1>8
    <3> QED
      BY <2>2, <3>1
  <2>10. 1 .. Len(p) = 1 .. k + 1
    BY <2>3
  <2> QED
    BY <1>7, <1>8, <2>4, <2>5, <2>6, <2>7, <2>8, <2>9, <2>10 DEF q, p
<1>11. CASE ~(a # 0 /\ s.trans[a].alloc > 0)
  <2>1. q = c /\ p = r.cpq
    BY <1>7, <1>11 DEF InLog
  <2> HIDE DEF q, p
  <2>2. (p = <<>> <=> Len(p) = 0) /\ (q = <<>> <=> Len(q) = 0)
    BY <1>1, <1>2, <2>1, EmptySeq
  <2>3. \A i \in 1 .. k : p[i] \in Trans
    BY <1>2, <1>8, <2>1
  <2>4. 1 .. Len(p) = 1 .. k /\ Len(p) = Len(q) - n /\ n <= Len(q) /\ Len(q) \in Nat
    <3>1. Len(p) = k
      BY <1>8, <2>1
    <3>2. Len(q) = m
      BY <1>8, <2>1
    <3>3. m = k + n /\ n \in Nat
      BY <1>8
    <3>4. k = m - n /\ n <= m
      BY <3>3
    <3> QED
      BY <3>1, <3>2, <3>4
  <2>5. \A i \in 1 .. k : p[i] = q[i + n] /\ r.trans[p[i]] = s.trans[p[i]]
    BY <1>7, <1>8, <1>9, <2>1
  <2> QED
    BY <1>7, <1>8, <2>1, <2>2, <2>3, <2>4, <2>5 DEF q, p
<1> QED
  BY <1>10, <1>11

(* When transactions leave, the others still fill the ring, and there is room
   behind them. *)
LEMMA DroppedRing ==
  ASSUME NEW s, Shaped(s), NEW a \in 0 .. MaxTrans, a \notin ToSet(s.cpq), Ring(s, a),
         NEW n \in 0 .. Len(s.cpq), NEW r, Dropped(s, r, n), IsInjective(s.cpq)
  PROVE  Ring(r, a) /\ (n > 0 => Room(r, a))
<1> DEFINE q == InLog(s, a)
           p == InLog(r, a)
           L == Len(q)
           st == [i \in 1 .. L |-> s.trans[q[i]].start]
           al == [i \in 1 .. L |-> s.trans[q[i]].alloc]
           o == [i \in 1 .. L |-> Off(s.start, st[i])]
<1>1. /\ L \in Nat /\ n \in Nat /\ n <= L
      /\ Len(p) = L - n
      /\ \A i \in 1 .. Len(p) : p[i] = q[i + n]
      /\ \A i \in 1 .. n : q[i] = s.cpq[i]
      /\ \A i \in 1 .. Len(p) : r.trans[p[i]] = s.trans[p[i]]
      /\ a # 0 => r.trans[a] = s.trans[a]
      /\ (p = <<>>) <=> (Len(p) = 0)
      /\ (q = <<>>) <=> (L = 0)
  BY DroppedLog
<1> HIDE DEF q, p
<1>2. /\ s.start \in 1 .. JSize /\ s.last \in 1 .. JSize
      /\ \A i \in 1 .. L : st[i] \in 1 .. JSize /\ al[i] \in 1 .. JSize
      /\ L > 0 => st[1] = s.start
      /\ \A i \in 1 .. L - 1 : st[i + 1] = wrap(st[i] + al[i])
      /\ \A i, k \in 1 .. L : i < k => o[i] + al[i] <= o[k]
      /\ s.last = IF L = 0 THEN s.start ELSE wrap(st[L] + al[L])
      /\ L > 0 => o[L] + al[L] <= JSize
      /\ a # 0 /\ s.trans[a].alloc = 0 => s.trans[a].start = 0
  <2>1. Ring(s, a)
    OBVIOUS
  <2>2. \A i \in 1 .. L : /\ st[i] = s.trans[q[i]].start /\ al[i] = s.trans[q[i]].alloc
                          /\ o[i] = Off(s.start, s.trans[q[i]].start)
                          /\ After(s, q[i]) = wrap(st[i] + al[i])
    BY DEF After
  <2> HIDE DEF st, al, o
  <2>3. \A i \in 1 .. L - 1 : i + 1 \in 1 .. L /\ i \in 1 .. L
    BY <1>1
  <2>4. L > 0 => 1 \in 1 .. L /\ L \in 1 .. L
    BY <1>1
  <2>5. /\ \A i \in 1 .. L : s.trans[q[i]].start \in 1 .. JSize /\ s.trans[q[i]].alloc \in 1 .. JSize
        /\ L > 0 => s.trans[q[1]].start = s.start
        /\ \A i \in 1 .. L - 1 : s.trans[q[i + 1]].start = After(s, q[i])
        /\ \A i, k \in 1 .. L : i < k =>
             Off(s.start, s.trans[q[i]].start) + s.trans[q[i]].alloc <= Off(s.start, s.trans[q[k]].start)
        /\ s.last = IF L = 0 THEN s.start ELSE After(s, q[L])
        /\ L > 0 => Off(s.start, s.trans[q[L]].start) + s.trans[q[L]].alloc <= JSize
    BY <1>1, <2>1 DEF Ring, q
  <2>6. s.start \in 1 .. JSize /\ s.last \in 1 .. JSize /\ (a # 0 /\ s.trans[a].alloc = 0 => s.trans[a].start = 0)
    BY <2>1 DEF Ring
  <2> HIDE DEF L
  <2>7. /\ \A i \in 1 .. L : st[i] \in 1 .. JSize /\ al[i] \in 1 .. JSize
        /\ L > 0 => st[1] = s.start
        /\ \A i \in 1 .. L - 1 : st[i + 1] = wrap(st[i] + al[i])
    BY <2>2, <2>3, <2>4, <2>5
  <2>8. /\ \A i, k \in 1 .. L : i < k => o[i] + al[i] <= o[k]
        /\ s.last = IF L = 0 THEN s.start ELSE wrap(st[L] + al[L])
        /\ L > 0 => o[L] + al[L] <= JSize
    BY <1>1, <2>2, <2>4, <2>5
  <2> QED
    BY <2>6, <2>7, <2>8
<1> HIDE DEF L, st, al
<1>3. r.start = IF n = 0 THEN s.start ELSE IF n = L THEN s.last ELSE st[n + 1]
  <2>1. r.start = IF n = 0 THEN s.start ELSE After(s, s.cpq[n])
    BY DEF Dropped
  <2>2. n > 0 => After(s, s.cpq[n]) = wrap(st[n] + al[n])
    BY <1>1 DEF After, st, al, L
  <2>3. n > 0 /\ n < L => st[n + 1] = wrap(st[n] + al[n])
    BY <1>1, <1>2
  <2>4. n > 0 /\ n = L => s.last = wrap(st[n] + al[n])
    BY <1>1, <1>2
  <2> QED
    BY <1>1, <2>1, <2>2, <2>3, <2>4
<1>4. r.last = s.last
  BY DEF Dropped
<1>5. \A i \in 1 .. L - n : /\ r.trans[p[i]].start = st[i + n] /\ r.trans[p[i]].alloc = al[i + n]
                            /\ After(r, p[i]) = wrap(st[i + n] + al[i + n])
                            /\ i + n \in 1 .. L
  BY <1>1 DEF After, st, al, L
<1>6. \A i \in 1 .. L : o[i] \in 0 .. JSize - 1 /\ (i = 1 => o[i] = 0)
  <2> TAKE i \in 1 .. L
  <2>1. o[i] = Off(s.start, st[i])
    OBVIOUS
  <2>2. st[i] \in 1 .. JSize /\ s.start \in 1 .. JSize
    BY <1>2
  <2>3. i = 1 => st[i] = s.start
    BY <1>1, <1>2
  <2> QED
    BY <2>1, <2>2, <2>3, OffShift
<1>7. \A i \in 1 .. L : o[i] = Off(s.start, st[i])
  OBVIOUS
<1> HIDE DEF o
<1>8. \A i \in n + 1 .. L : Off(r.start, st[i]) = IF n = 0 THEN o[i] ELSE o[i] - o[n + 1]
  <2> SUFFICES ASSUME NEW i \in n + 1 .. L PROVE Off(r.start, st[i]) = IF n = 0 THEN o[i] ELSE o[i] - o[n + 1]
    OBVIOUS
  <2>1. CASE n = 0
    BY <1>3, <1>7, <2>1
  <2>2. CASE n > 0
    <3>1. i \in 1 .. L /\ n + 1 \in 1 .. L /\ n # L
      BY <1>1, <2>2
    <3>2. r.start = st[n + 1]
      BY <1>3, <2>2, <3>1
    <3>3. o[n + 1] <= o[i]
      <4>1. i # n + 1 => o[n + 1] + al[n + 1] <= o[i]
        BY <1>1, <1>2, <3>1
      <4> QED
        BY <1>2, <1>6, <3>1, <4>1
    <3>4. Off(st[n + 1], st[i]) = Off(s.start, st[i]) - Off(s.start, st[n + 1])
      BY <1>2, <1>7, <3>1, <3>3, OffShift
    <3> QED
      BY <1>7, <2>2, <3>1, <3>2, <3>4
  <2> QED
    BY <2>1, <2>2
<1>9. n > 0 /\ n < L => o[n + 1] >= 1
  <2> SUFFICES ASSUME n > 0, n < L PROVE o[n + 1] >= 1
    OBVIOUS
  <2>1. 1 \in 1 .. L /\ n + 1 \in 1 .. L /\ 1 < n + 1
    BY <1>1
  <2>2. o[1] + al[1] <= o[n + 1]
    BY <1>2, <2>1
  <2> QED
    BY <1>2, <1>6, <2>1, <2>2
<1>10. Room(r, a) \/ n = 0
  <2> SUFFICES ASSUME n > 0, n < L, s.last = st[n + 1] PROVE FALSE
    BY <1>1, <1>3, <1>4 DEF Room, p
  <2>1. L \in 1 .. L /\ n + 1 \in 1 .. L
    BY <1>1
  <2>2. s.last = wrap(st[L] + al[L]) /\ Off(s.start, st[L]) + al[L] <= JSize
    BY <1>2, <1>7, <2>1
  <2>3. Off(s.start, s.last) = IF o[L] + al[L] = JSize THEN 0 ELSE o[L] + al[L]
    BY <1>2, <1>7, <2>1, <2>2, OffAfter
  <2>4. o[n + 1] = Off(s.start, s.last)
    BY <1>7, <2>1
  <2>5. o[n + 1] < o[L] + al[L]
    <3>1. n + 1 # L => o[n + 1] + al[n + 1] <= o[L]
      BY <1>1, <1>2, <2>1
    <3> QED
      BY <1>2, <1>6, <2>1, <3>1, SMTT(20)
  <2> QED
    BY <1>6, <1>9, <2>1, <2>3, <2>4, <2>5
<1>11. Ring(r, a)
  <2>1. r.start \in 1 .. JSize /\ r.last \in 1 .. JSize
    BY <1>1, <1>2, <1>3, <1>4
  <2>2. \A i \in 1 .. Len(p) : r.trans[p[i]].start \in 1 .. JSize /\ r.trans[p[i]].alloc \in 1 .. JSize
    BY <1>1, <1>2, <1>5
  <2>3. p # <<>> => r.trans[p[1]].start = r.start
    BY <1>1, <1>2, <1>3, <1>5
  <2>4. \A i \in 1 .. Len(p) - 1 : r.trans[p[i + 1]].start = After(r, p[i])
    <3> TAKE i \in 1 .. Len(p) - 1
    <3>1. i \in 1 .. L - n /\ i + 1 \in 1 .. L - n /\ i + n \in 1 .. L - 1 /\ (i + 1) + n = (i + n) + 1
      BY <1>1
    <3> QED
      BY <1>2, <1>5, <3>1
  <2>5. \A i, k \in 1 .. Len(p) : i < k =>
          Off(r.start, r.trans[p[i]].start) + r.trans[p[i]].alloc <= Off(r.start, r.trans[p[k]].start)
    <3> SUFFICES ASSUME NEW i \in 1 .. Len(p), NEW k \in 1 .. Len(p), i < k
                 PROVE  Off(r.start, r.trans[p[i]].start) + r.trans[p[i]].alloc
                          <= Off(r.start, r.trans[p[k]].start)
      OBVIOUS
    <3>1. i \in 1 .. L - n /\ k \in 1 .. L - n /\ i + n \in n + 1 .. L /\ k + n \in n + 1 .. L
          /\ i + n \in 1 .. L /\ k + n \in 1 .. L /\ i + n < k + n /\ (n > 0 => n + 1 \in 1 .. L)
      BY <1>1
    <3>2. o[i + n] + al[i + n] <= o[k + n]
      BY <1>2, <3>1
    <3>3. /\ Off(r.start, st[i + n]) = IF n = 0 THEN o[i + n] ELSE o[i + n] - o[n + 1]
          /\ Off(r.start, st[k + n]) = IF n = 0 THEN o[k + n] ELSE o[k + n] - o[n + 1]
      BY <1>8, <3>1
    <3>4. o[i + n] \in Int /\ o[k + n] \in Int /\ (n > 0 => o[n + 1] \in Int) /\ al[i + n] \in Int
                       /\ (n = 0 \/ n > 0)
      <4>1. n = 0 \/ n > 0
        BY <1>1
      <4>2. al[i + n] \in Int
        BY <1>2, <3>1, LogAssumption
      <4>3. o[i + n] \in Int /\ o[k + n] \in Int
        BY <1>6, <3>1, LogAssumption
      <4>4. n > 0 => o[n + 1] \in Int
        BY <1>6, <3>1, LogAssumption
      <4> QED
        BY <4>1, <4>2, <4>3, <4>4
    <3>5. CASE n = 0
      BY <1>5, <3>1, <3>2, <3>3, <3>5
    <3>6. CASE n > 0
      <4>1. o[i + n] - o[n + 1] + al[i + n] <= o[k + n] - o[n + 1]
        BY <3>2, <3>4, <3>6, SMTT(20)
      <4> QED
        BY <1>1, <1>5, <3>1, <3>3, <3>6, <4>1
    <3> QED
      BY <3>4, <3>5, <3>6
  <2>6. r.last = IF p = <<>> THEN r.start ELSE After(r, p[Len(p)])
    <3>1. CASE n = L
      BY <1>1, <1>2, <1>3, <1>4, <3>1
    <3>2. CASE n < L
      <4>1. L - n \in 1 .. L - n /\ (L - n) + n = L /\ L # 0
        BY <1>1, <3>2
      <4>2. After(r, p[L - n]) = wrap(st[L] + al[L])
        BY <1>5, <4>1
      <4>3. s.last = wrap(st[L] + al[L])
        BY <1>2, <4>1
      <4> QED
        BY <1>1, <1>4, <4>1, <4>2, <4>3
    <3> QED
      BY <1>1, <3>1, <3>2
  <2>7. p # <<>> => Off(r.start, r.trans[p[Len(p)]].start) + r.trans[p[Len(p)]].alloc <= JSize
    <3> SUFFICES ASSUME p # <<>>
                 PROVE Off(r.start, r.trans[p[Len(p)]].start) + r.trans[p[Len(p)]].alloc <= JSize
      OBVIOUS
    <3>1. L - n \in 1 .. L - n /\ (L - n) + n = L /\ L \in n + 1 .. L /\ L \in 1 .. L /\ (n > 0 => n + 1 \in 1 .. L)
      BY <1>1
    <3>2. Off(r.start, st[L]) = IF n = 0 THEN o[L] ELSE o[L] - o[n + 1]
      BY <1>8, <3>1
    <3>3. o[L] \in Int /\ (n > 0 => o[n + 1] \in 0 .. JSize - 1) /\ al[L] \in Int /\ o[L] + al[L] <= JSize
      BY <1>1, <1>2, <1>6, <3>1
    <3>4. Off(r.start, st[L]) + al[L] <= JSize
      BY <3>2, <3>3, LogAssumption
    <3> QED
      BY <1>1, <1>5, <3>1, <3>4
  <2>8. a # 0 /\ r.trans[a].alloc = 0 => r.trans[a].start = 0
    BY <1>1, <1>2
  <2> QED
    BY <2>1, <2>2, <2>3, <2>4, <2>5, <2>6, <2>7, <2>8 DEF Ring, p
<1> QED
  BY <1>10, <1>11

(* The invariant of the records in j.  d buffers of transaction p are
   unlinked and not counted, and n is the id of the next transaction of the
   queue. *)
Sound(s, a, X, p, d, n) ==
  /\ Shaped(s)
  /\ a \in 0 .. MaxTrans
  /\ Linked(s, a, X)
  /\ Tally(s, p, d)
  /\ Ring(s, a)
  /\ Tids(s, n)

(* What the end of a write leaves alone: transactions leave the queue from
   its head, which makes room, and the transaction outside the queue keeps
   its blocks of the log. *)
Frame(s, r, a) ==
  /\ ToSet(r.cpq) \subseteq ToSet(s.cpq)
  /\ r.cpq # s.cpq => Head(s.cpq) \notin ToSet(r.cpq)
  /\ r.last = s.last /\ r.allocTid = s.allocTid
  /\ a # 0 => /\ r.trans[a].start = s.trans[a].start /\ r.trans[a].alloc = s.trans[a].alloc
              /\ r.trans[a].tid = s.trans[a].tid /\ r.trans[a].revoke = s.trans[a].revoke
  /\ (r.cpq = s.cpq /\ r.start = s.start) \/ Room(r, a)

LEMMA FrameTransitive ==
  ASSUME NEW s, NEW r, NEW v, NEW a, Frame(s, r, a), Frame(r, v, a)
  PROVE  Frame(s, v, a)
<1>1. v.cpq # s.cpq => Head(s.cpq) \notin ToSet(v.cpq)
  BY DEF Frame
<1>2. (v.cpq = s.cpq /\ v.start = s.start) \/ Room(v, a)
  <2>1. CASE v.cpq = r.cpq /\ v.start = r.start
    <3>1. Room(r, a) => Room(v, a)
      BY <2>1 DEF Frame, Room, InLog
    <3> QED
      BY <2>1, <3>1 DEF Frame
  <2> QED
    BY <2>1 DEF Frame
<1> QED
  BY <1>1, <1>2 DEF Frame

LEMMA FrameReflexive ==
  ASSUME NEW s, NEW a
  PROVE  Frame(s, s, a)
BY DEF Frame

LEMMA DroppedQueue ==
  ASSUME NEW s, Shaped(s), NEW n \in 0 .. Len(s.cpq), NEW r, Dropped(s, r, n), IsInjective(s.cpq)
  PROVE  /\ Len(r.cpq) = Len(s.cpq) - n
         /\ \A i \in 1 .. Len(s.cpq) - n : r.cpq[i] = s.cpq[i + n] /\ i + n \in 1 .. Len(s.cpq)
         /\ ToSet(r.cpq) = ToSet(s.cpq) \ Gone(s, n)
         /\ Gone(s, n) \subseteq ToSet(s.cpq)
         /\ IsInjective(r.cpq)
         /\ n = 0 => r.cpq = s.cpq
         /\ n > 0 => Head(s.cpq) \in Gone(s, n)
<1> DEFINE c == s.cpq
           e == r.cpq
<1>1. c \in Seq(Trans) /\ Len(c) \in Nat /\ DOMAIN c = 1 .. Len(c) /\ n \in Nat /\ n <= Len(c)
  BY DEF Shaped
<1>2. e = SubSeq(c, n + 1, Len(c)) /\ e \in Seq(Trans)
  BY DEF Dropped, Shaped
<1>3. Len(e) = Len(c) - n /\ \A i \in 1 .. Len(c) - n : e[i] = c[i + n]
  <2>1. \A i \in n + 1 .. Len(c) : c[i] \in Trans
    BY <1>1
  <2>2. /\ Len(e) = IF n + 1 <= Len(c) THEN Len(c) - (n + 1) + 1 ELSE 0
        /\ \A i \in 1 .. Len(c) - (n + 1) + 1 : e[i] = c[(n + 1) + i - 1]
    BY <1>1, <1>2, <2>1, SubSeqProperties
  <2> QED
    BY <1>1, <2>2
<1>4. n = 0 => e = c
  BY <1>1, <1>2
<1> HIDE DEF c, e
<1>5. PICK m \in Nat, k \in Nat : m = Len(c) /\ k = Len(e) /\ m = k + n /\ DOMAIN e = 1 .. k /\ DOMAIN c = 1 .. m
  <2>1. e \in Seq(Trans)
    BY <1>2
  <2>2. Len(e) \in Nat /\ DOMAIN e = 1 .. Len(e)
    BY <2>1
  <2>3. Len(c) = Len(e) + n
    BY <1>1, <1>3, <2>2
  <2> QED
    BY <1>1, <2>2, <2>3
<1>6. \A i \in 1 .. k : e[i] = c[i + n] /\ i + n \in 1 .. m
  BY <1>1, <1>3, <1>5
<1>7. \A x, y \in 1 .. m : c[x] = c[y] => x = y
  BY <1>5 DEF IsInjective, c
<1>8. \A x : x \in ToSet(c) <=> \E i \in 1 .. m : c[i] = x
  BY <1>1, <1>5, MembersOf
<1>9. \A x : x \in ToSet(e) <=> \E i \in 1 .. k : e[i] = x
  <2>1. e \in Seq(Trans)
    BY <1>2
  <2> QED
    BY <1>5, <2>1, MembersOf
<1>10. IsInjective(e)
  <2> SUFFICES ASSUME NEW x \in 1 .. k, NEW y \in 1 .. k, e[x] = e[y] PROVE x = y
    BY <1>5 DEF IsInjective
  <2>1. x + n = y + n
    BY <1>6, <1>7
  <2> QED
    BY <1>1, <1>5, <2>1
<1>11. \A x : x \in Gone(s, n) <=> \E i \in 1 .. n : c[i] = x
  BY DEF Gone, c
<1>12. \A i \in 1 .. n : i \in 1 .. m
  BY <1>1, <1>5
<1>13. Gone(s, n) \subseteq ToSet(c)
  BY <1>8, <1>11, <1>12
<1>14. ASSUME NEW x PROVE x \in ToSet(e) <=> x \in ToSet(c) /\ x \notin Gone(s, n)
  <2>1. ASSUME x \in ToSet(e) PROVE x \in ToSet(c) /\ x \notin Gone(s, n)
    <3>1. PICK i \in 1 .. k : e[i] = x
      BY <1>9, <2>1
    <3>2. c[i + n] = x /\ i + n \in 1 .. m
      BY <1>6, <3>1
    <3>3. ASSUME NEW h \in 1 .. n, c[h] = x PROVE FALSE
      <4>1. h = i + n
        BY <1>7, <1>12, <3>2, <3>3
      <4> QED
        BY <1>1, <1>5, <4>1
    <3> QED
      BY <1>8, <1>11, <3>2, <3>3
  <2>2. ASSUME x \in ToSet(c), x \notin Gone(s, n) PROVE x \in ToSet(e)
    <3>1. PICK i \in 1 .. m : c[i] = x
      BY <1>8, <2>2
    <3>2. i \notin 1 .. n
      BY <1>11, <2>2, <3>1
    <3>3. i - n \in 1 .. k /\ (i - n) + n = i
      BY <1>1, <1>5, <3>2
    <3>4. e[i - n] = x
      BY <1>6, <3>1, <3>3
    <3> QED
      BY <1>9, <3>3, <3>4
  <2> QED
    BY <2>1, <2>2
<1>15. n > 0 => Head(c) \in Gone(s, n)
  <2>1. n > 0 => 1 \in 1 .. n /\ Head(c) = c[1]
    BY <1>1
  <2> QED
    BY <1>11, <2>1
<1>16. \A i \in 1 .. Len(c) - n : e[i] = c[i + n] /\ i + n \in 1 .. Len(c)
  BY <1>5, <1>6, <1>1
<1>17. Len(e) = Len(c) - n
  BY <1>5, <1>1
<1> QED
  BY <1>4, <1>10, <1>13, <1>14, <1>15, <1>16, <1>17 DEF c, e

LEMMA DroppedLinked ==
  ASSUME NEW s, Shaped(s), NEW a \in 0 .. MaxTrans, NEW X, Linked(s, a, X),
         NEW n \in 0 .. Len(s.cpq), NEW r, Dropped(s, r, n),
         \A t \in Gone(s, n) : s.trans[t].bufq = <<>>
  PROVE  Linked(r, a, X)
<1>1. /\ ToSet(r.cpq) = ToSet(s.cpq) \ Gone(s, n)
      /\ Gone(s, n) \subseteq ToSet(s.cpq)
      /\ IsInjective(r.cpq)
  BY DroppedQueue DEF Linked
<1>2. \A t \in Trans : r.trans[t].bufq = s.trans[t].bufq
  BY DEF Dropped, NoTrans
<1>3. r.recq = s.recq /\ r.buf = s.buf
  BY DEF Dropped
<1>4. \A t \in Gone(s, n) : \A l \in Home : t \notin ToSet(s.recq[l])
  <2> TAKE t \in Gone(s, n)
  <2>1. t \in Trans
    BY QueueType
  <2>2. ToSet(s.trans[t].bufq) = {}
    BY EmptySeq DEF ToSet
  <2> QED
    BY <2>1, <2>2 DEF Linked
<1>5. \A l \in Home : s.recq[l] # <<>> => Last(s.recq[l]) \in ToSet(s.recq[l])
  BY MembersOf DEF Shaped
<1>6. \A l \in Home \ X : s.recq[l] # <<>> => r.owner[l] = s.owner[l]
  BY <1>4, <1>5 DEF Linked, Dropped
<1>7. \A t \in Trans : t \notin ToSet(r.cpq) /\ t # a => r.trans[t] = NoTrans
  BY <1>1 DEF Linked, Dropped
<1>8. a # 0 => \A l \in Home : s.owner[l] = a => r.owner[l] = a
  BY <1>1 DEF Linked, Dropped
<1>9. a # 0 => \A l \in ToSet(r.trans[a].bufq) : r.owner[l] = a
  <2> SUFFICES ASSUME a # 0, NEW l \in ToSet(r.trans[a].bufq) PROVE r.owner[l] = a
    OBVIOUS
  <2>1. a \in Trans
    BY JournalAssumption DEF Trans
  <2>2. l \in ToSet(s.trans[a].bufq) /\ l \in Home
    <3>1. s.trans[a].bufq \in Seq(Home)
      BY <2>1 DEF Shaped, TransShaped
    <3> QED
      BY <1>2, <2>1, <3>1, MembersOf
  <2> QED
    BY <1>8, <2>2 DEF Linked
<1> QED
  BY <1>1, <1>2, <1>3, <1>6, <1>7, <1>9 DEF Linked

LEMMA DroppedTally ==
  ASSUME NEW s, Shaped(s), NEW p, NEW d, Tally(s, p, d),
         NEW n \in 0 .. Len(s.cpq), NEW r, Dropped(s, r, n), p \notin Gone(s, n)
  PROVE  Tally(r, p, d)
<1>1. Len(NoTrans.bufq) = 0 /\ NoTrans.dataCnt = 0 /\ NoTrans.written = 0
  BY EmptySeq DEF NoTrans
<1> SUFFICES ASSUME NEW t \in Trans
             PROVE  r.trans[t].dataCnt = r.trans[t].written + Len(r.trans[t].bufq) + (IF t = p THEN d ELSE 0)
  BY DEF Tally
<1>2. CASE t \in Gone(s, n)
  <2>1. r.trans[t] = NoTrans
    BY <1>2 DEF Dropped
  <2> QED
    BY <1>1, <1>2, <2>1
<1>3. CASE t \notin Gone(s, n)
  BY <1>3 DEF Dropped, Tally
<1> QED
  BY <1>2, <1>3

LEMMA DroppedTids ==
  ASSUME NEW s, Shaped(s), NEW m, Tids(s, m), IsInjective(s.cpq),
         NEW n \in 0 .. Len(s.cpq), NEW r, Dropped(s, r, n)
  PROVE  Tids(r, m)
<1> DEFINE c == s.cpq
           e == r.cpq
<1>1. c \in Seq(Trans) /\ Len(c) \in Nat /\ n \in Nat /\ n <= Len(c)
  BY DEF Shaped
<1>2. e \in Seq(Trans) /\ Len(e) \in Nat
  BY DEF Dropped, Shaped
<1>3. /\ Len(e) = Len(c) - n
      /\ \A i \in 1 .. Len(c) - n : e[i] = c[i + n] /\ i + n \in 1 .. Len(c)
      /\ ToSet(e) = ToSet(c) \ Gone(s, n)
  BY DroppedQueue
<1>4. \A i \in 1 .. Len(e) : r.trans[e[i]] = s.trans[e[i]]
  <2> TAKE i \in 1 .. Len(e)
  <2>1. e[i] \in ToSet(e) /\ e[i] \in Trans
    BY <1>2, MembersOf
  <2> QED
    BY <1>3, <2>1 DEF Dropped
<1> HIDE DEF c, e
<1>5. \A i \in 1 .. Len(c) - 1 : s.trans[c[i + 1]].tid = s.trans[c[i]].tid + 1
  BY DEF Tids, c
<1>6. ASSUME NEW i \in 1 .. Len(e) - 1 PROVE r.trans[e[i + 1]].tid = r.trans[e[i]].tid + 1
  <2>1. i \in 1 .. Len(e) /\ i + 1 \in 1 .. Len(e) /\ i \in 1 .. Len(c) - n /\ i + 1 \in 1 .. Len(c) - n
    BY <1>1, <1>2, <1>3
  <2>2. i + n \in 1 .. Len(c) - 1 /\ (i + 1) + n = (i + n) + 1
    BY <1>1, <1>2, <1>3
  <2> QED
    BY <1>3, <1>4, <1>5, <2>1, <2>2
<1>7. ASSUME e # <<>> PROVE m = r.trans[e[Len(e)]].tid + 1
  <2>1. Len(e) > 0
    BY <1>2, <1>7, EmptySeq
  <2>2. Len(e) \in 1 .. Len(e) /\ Len(e) \in 1 .. Len(c) - n /\ Len(e) + n = Len(c) /\ Len(c) > 0
    BY <1>1, <1>2, <1>3, <2>1
  <2>3. c # <<>>
    BY <1>1, <2>2, EmptySeq
  <2>4. m = s.trans[c[Len(c)]].tid + 1
    BY <2>3 DEF Tids, c
  <2> QED
    BY <1>3, <1>4, <2>2, <2>4
<1> QED
  BY <1>6, <1>7 DEF Tids, e

(* jbd_journal_purge_cp_trans keeps the invariant: the transactions that
   leave have no buffers left. *)
LEMMA DroppedSound ==
  ASSUME NEW s, NEW a, NEW X, NEW p, NEW d \in Nat, NEW m, Sound(s, a, X, p, d, m), p = 0 \/ d > 0,
         NEW n \in 0 .. Len(s.cpq), NEW r, Dropped(s, r, n),
         \A i \in 1 .. n : Complete(s, s.cpq[i])
  PROVE  /\ Sound(r, a, X, p, d, m) /\ Frame(s, r, a)
         /\ p \notin Gone(s, n)
         /\ n > 0 => Room(r, a)
<1>1. Shaped(s) /\ a \in 0 .. MaxTrans /\ Linked(s, a, X) /\ Tally(s, p, d) /\ Ring(s, a) /\ Tids(s, m)
  BY DEF Sound
<1>2. Shaped(r)
  BY DEF Dropped
<1>3. ASSUME NEW t \in Gone(s, n) PROVE s.trans[t].bufq = <<>> /\ t # p
  <2>1. t \in Trans /\ t # 0
    BY <1>1, QueueType, JournalAssumption DEF Trans
  <2>2. s.trans[t].dataCnt = s.trans[t].written
    BY <1>3 DEF Gone, Complete
  <2>3. s.trans[t].bufq \in Seq(Home) /\ s.trans[t].written \in Nat
    BY <1>1, <2>1 DEF Shaped, TransShaped
  <2>4. s.trans[t].dataCnt = s.trans[t].written + Len(s.trans[t].bufq) + (IF t = p THEN d ELSE 0)
    BY <1>1, <2>1 DEF Tally
  <2>5. Len(s.trans[t].bufq) \in Nat
    BY <2>3
  <2>6. Len(s.trans[t].bufq) = 0 /\ t # p
    BY <2>1, <2>2, <2>3, <2>4, <2>5
  <2> QED
    BY <2>3, <2>6, EmptySeq
<1>4. IsInjective(s.cpq) /\ a \notin ToSet(s.cpq)
  BY <1>1 DEF Linked
<1>5. Linked(r, a, X)
  BY <1>1, <1>3, DroppedLinked
<1>6. Tally(r, p, d)
  BY <1>1, <1>3, DroppedTally
<1>7. Ring(r, a) /\ (n > 0 => Room(r, a))
  BY <1>1, <1>4, DroppedRing
<1>8. Tids(r, m)
  BY <1>1, <1>4, DroppedTids
<1>9. /\ ToSet(r.cpq) = ToSet(s.cpq) \ Gone(s, n)
      /\ n = 0 => r.cpq = s.cpq
      /\ n > 0 => Head(s.cpq) \in Gone(s, n)
      /\ Gone(s, n) \subseteq ToSet(s.cpq)
  BY <1>1, <1>4, DroppedQueue
<1>10. n = 0 \/ n > 0
  BY <1>1, QueueType
<1>11. a # 0 => r.trans[a] = s.trans[a]
  BY <1>1, <1>4, <1>9, JournalAssumption DEF Dropped, Trans
<1>12. Frame(s, r, a)
  BY <1>7, <1>9, <1>10, <1>11 DEF Frame, Dropped
<1> QED
  BY <1>1, <1>2, <1>3, <1>5, <1>6, <1>7, <1>8, <1>12 DEF Sound

(* The queue and the log are as before. *)
SameLog(s, r) ==
  /\ r.cpq = s.cpq /\ r.start = s.start /\ r.last = s.last /\ r.allocTid = s.allocTid
  /\ \A t \in Trans : /\ r.trans[t].start = s.trans[t].start /\ r.trans[t].alloc = s.trans[t].alloc
                      /\ r.trans[t].tid = s.trans[t].tid /\ r.trans[t].revoke = s.trans[t].revoke

LEMMA SameLogRing ==
  ASSUME NEW s, Shaped(s), NEW a \in 0 .. MaxTrans, Ring(s, a), NEW m, Tids(s, m),
         NEW r, SameLog(s, r)
  PROVE  Ring(r, a) /\ Tids(r, m) /\ InLog(r, a) = InLog(s, a)
<1>1. \A i \in 1 .. Len(s.cpq) : s.cpq[i] \in Trans
  BY QueueType
<1>2. a # 0 => a \in Trans
  BY JournalAssumption DEF Trans
<1>3. InLog(r, a) = InLog(s, a)
  BY <1>2 DEF InLog, SameLog
<1> DEFINE q == InLog(s, a)
<1>4. Len(q) \in Nat /\ \A i \in 1 .. Len(q) : q[i] \in Trans
  <2>1. s.cpq \in Seq(Trans)
    BY DEF Shaped
  <2>2. CASE a # 0 /\ s.trans[a].alloc > 0
    <3>1. q \in Seq(Trans)
      BY <1>2, <2>1, <2>2, AppendProperties DEF InLog
    <3> QED
      BY <3>1
  <2>3. CASE ~(a # 0 /\ s.trans[a].alloc > 0)
    BY <2>1, <2>3 DEF InLog
  <2> QED
    BY <2>2, <2>3
<1>5. \A i \in 1 .. Len(q) : /\ r.trans[q[i]].start = s.trans[q[i]].start
                             /\ r.trans[q[i]].alloc = s.trans[q[i]].alloc
                             /\ After(r, q[i]) = After(s, q[i])
  BY <1>4 DEF SameLog, After
<1>6. a # 0 => r.trans[a].start = s.trans[a].start /\ r.trans[a].alloc = s.trans[a].alloc
  BY <1>2 DEF SameLog
<1>7. r.start = s.start /\ r.last = s.last
  BY DEF SameLog
<1>8. q # <<>> => Len(q) \in 1 .. Len(q) /\ 1 \in 1 .. Len(q)
  <2>1. q # <<>> => Len(q) # 0
    <3>1. s.cpq \in Seq(Trans)
      BY DEF Shaped
    <3>2. q \in Seq(Trans)
      BY <1>2, <3>1, AppendProperties DEF InLog
    <3> QED
      BY <3>2, EmptySeq
  <2> QED
    BY <1>4, <2>1
<1>9. Ring(r, a)
  <2> HIDE DEF q
  <2>1. \A i \in 1 .. Len(q) - 1 : r.trans[q[i + 1]].start = After(r, q[i])
    <3> TAKE i \in 1 .. Len(q) - 1
    <3>1. i \in 1 .. Len(q) /\ i + 1 \in 1 .. Len(q)
      BY <1>4
    <3> QED
      BY <1>5, <3>1 DEF Ring, q
  <2>2. \A i, k \in 1 .. Len(q) : i < k =>
       Off(r.start, r.trans[q[i]].start) + r.trans[q[i]].alloc <= Off(r.start, r.trans[q[k]].start)
    BY <1>5, <1>7 DEF Ring, q
  <2>3. /\ r.start \in 1 .. JSize /\ r.last \in 1 .. JSize
        /\ \A i \in 1 .. Len(q) : r.trans[q[i]].start \in 1 .. JSize /\ r.trans[q[i]].alloc \in 1 .. JSize
        /\ q # <<>> => r.trans[q[1]].start = r.start
        /\ r.last = IF q = <<>> THEN r.start ELSE After(r, q[Len(q)])
        /\ q # <<>> => Off(r.start, r.trans[q[Len(q)]].start) + r.trans[q[Len(q)]].alloc <= JSize
        /\ a # 0 /\ r.trans[a].alloc = 0 => r.trans[a].start = 0
    BY <1>5, <1>6, <1>7, <1>8 DEF Ring, q
  <2>4. InLog(r, a) = q
    BY <1>3 DEF q
  <2> QED
    BY <2>1, <2>2, <2>3, <2>4 DEF Ring
<1>10. Tids(r, m)
  <2>1. \A i \in 1 .. Len(s.cpq) - 1 : i \in 1 .. Len(s.cpq) /\ i + 1 \in 1 .. Len(s.cpq)
    BY QueueType
  <2>2. s.cpq # <<>> => Len(s.cpq) \in 1 .. Len(s.cpq)
    BY QueueType, EmptySeq DEF Shaped
  <2>3. r.cpq = s.cpq /\ \A i \in 1 .. Len(s.cpq) : r.trans[s.cpq[i]].tid = s.trans[s.cpq[i]].tid
    BY <1>1 DEF SameLog
  <2>4. \A i \in 1 .. Len(s.cpq) - 1 : r.trans[s.cpq[i + 1]].tid = r.trans[s.cpq[i]].tid + 1
    <3> TAKE i \in 1 .. Len(s.cpq) - 1
    <3>1. s.trans[s.cpq[i + 1]].tid = s.trans[s.cpq[i]].tid + 1
      BY DEF Tids
    <3> QED
      BY <2>1, <2>3, <3>1
  <2>5. s.cpq # <<>> => m = r.trans[s.cpq[Len(s.cpq)]].tid + 1
    <3>1. s.cpq # <<>> => m = s.trans[s.cpq[Len(s.cpq)]].tid + 1
      BY DEF Tids
    <3> QED
      BY <2>2, <2>3, <3>1
  <2> QED
    BY <2>3, <2>4, <2>5 DEF Tids
<1> QED
  BY <1>3, <1>9, <1>10

LEMMA SameLogFrame ==
  ASSUME NEW s, NEW a \in 0 .. MaxTrans, NEW r, SameLog(s, r)
  PROVE  Frame(s, r, a)
<1>1. a # 0 => a \in Trans
  BY JournalAssumption DEF Trans
<1> QED
  BY <1>1 DEF SameLog, Frame

(* The block records and the lists of the transactions. *)
LEMMA Records ==
  ASSUME NEW s, Shaped(s), NEW a, NEW X, Linked(s, a, X), NEW l \in Home, NEW t \in Trans
  PROVE  /\ s.recq[l] \in Seq(Trans) /\ IsInjective(s.recq[l])
         /\ s.trans[t].bufq \in Seq(Home) /\ IsInjective(s.trans[t].bufq)
         /\ l \in ToSet(s.trans[t].bufq) <=> t \in ToSet(s.recq[l])
         /\ s.recq[l] # <<>> => Last(s.recq[l]) \in ToSet(s.recq[l])
BY MembersOf DEF Shaped, TransShaped, Linked

(* jbd_trans_finish_callback and jbd_trans_end_write take a jbd_buf off the
   lists of its transaction and of its block.  The record is left to the
   caller when the transaction owns it. *)
LEMMA UnlinkedLinked ==
  ASSUME NEW s, Shaped(s), NEW a \in 0 .. MaxTrans, NEW X, Linked(s, a, X), NEW t \in Trans, NEW l \in Home,
         t \in ToSet(s.recq[l]),
         NEW Y, X \subseteq Y, l \in Y \/ s.owner[l] # t,
         NEW u, u = Unlinked(s, t, l)
  PROVE  /\ Linked(u, a, Y)
         /\ ToSet(u.recq[l]) = ToSet(s.recq[l]) \ {t}
         /\ \A k \in Home \ {l} : u.recq[k] = s.recq[k]
         /\ Len(u.trans[t].bufq) = Len(s.trans[t].bufq) - 1
         /\ \A k \in Home \ {l} : \A x \in Trans : k \in ToSet(u.trans[x].bufq) <=> k \in ToSet(s.trans[x].bufq)
<1>1. /\ Shaped(u)
      /\ u.cpq = s.cpq /\ u.owner = s.owner /\ u.buf = s.buf
      /\ u.recq[l] = RemoveFirst(s.recq[l], t)
      /\ \A k \in Home \ {l} : u.recq[k] = s.recq[k]
      /\ u.trans[t].bufq = RemoveFirst(s.trans[t].bufq, l)
      /\ \A x \in Trans \ {t} : u.trans[x] = s.trans[x]
  BY UnlinkedFields
<1>2. /\ u.recq[l] = RemoveFirst(s.recq[l], t)
      /\ \A k \in Home \ {l} : u.recq[k] = s.recq[k]
  BY <1>1
<1>3. /\ s.recq[l] \in Seq(Trans) /\ IsInjective(s.recq[l])
      /\ s.trans[t].bufq \in Seq(Home) /\ IsInjective(s.trans[t].bufq)
      /\ l \in ToSet(s.trans[t].bufq)
  BY Records
<1>4. /\ IsInjective(u.recq[l])
      /\ ToSet(u.recq[l]) = ToSet(s.recq[l]) \ {t}
      /\ s.recq[l] # <<>> /\ Last(s.recq[l]) # t => u.recq[l] # <<>> /\ Last(u.recq[l]) = Last(s.recq[l])
  BY <1>2, <1>3, RemoveFirstOnce
<1>5. /\ IsInjective(u.trans[t].bufq)
      /\ ToSet(u.trans[t].bufq) = ToSet(s.trans[t].bufq) \ {l}
      /\ Len(u.trans[t].bufq) = Len(s.trans[t].bufq) - 1
  <2> DEFINE q == s.trans[t].bufq
             r == RemoveFirst(q, l)
  <2>1. q \in Seq(Home) /\ IsInjective(q) /\ l \in ToSet(q)
    BY <1>3
  <2> HIDE DEF q
  <2>2. IsInjective(r) /\ ToSet(r) = ToSet(q) \ {l} /\ Len(r) = Len(q) - 1
    BY <2>1, RemoveFirstOnce
  <2>3. u.trans[t].bufq = r
    BY <1>1 DEF q
  <2> QED
    BY <2>2, <2>3 DEF q
<1>6. \A x \in Trans, k \in Home : k \in ToSet(u.trans[x].bufq) <=> x \in ToSet(u.recq[k])
  BY <1>1, <1>2, <1>4, <1>5 DEF Linked
<1>7. \A x \in Trans : IsInjective(u.trans[x].bufq)
  BY <1>1, <1>5 DEF Linked
<1>8. \A k \in Home : IsInjective(u.recq[k])
  BY <1>2, <1>4 DEF Linked
<1>9. s.recq[l] # <<>>
  BY EmptySeq DEF ToSet
<1>10. \A k \in Home \ Y : u.recq[k] # <<>> => u.owner[k] = Last(u.recq[k])
  BY <1>1, <1>2, <1>4, <1>9 DEF Linked
<1>11. \A k \in Home \ Y : u.buf[k].endWrite # 0 => u.buf[k].endWrite = u.owner[k] /\ u.recq[k] # <<>>
  BY <1>1, <1>2, <1>4, <1>9 DEF Linked
<1>12. IsInjective(u.cpq) /\ a \notin ToSet(u.cpq)
  BY <1>1 DEF Linked
<1>13. \A x \in Trans : x \notin ToSet(u.cpq) /\ x # a => u.trans[x] = NoTrans
  <2>1. s.trans[t] # NoTrans
    <3>1. ToSet(NoTrans.bufq) = {}
      BY EmptySeq DEF NoTrans, ToSet
    <3> QED
      BY <1>3, <3>1
  <2> QED
    BY <1>1, <2>1 DEF Linked
<1>14. a # 0 => \A k \in ToSet(u.trans[a].bufq) : u.owner[k] = a
  <2> SUFFICES ASSUME a # 0, NEW k \in ToSet(u.trans[a].bufq) PROVE u.owner[k] = a
    OBVIOUS
  <2>1. a \in Trans
    BY JournalAssumption DEF Trans
  <2>2. k \in ToSet(s.trans[a].bufq)
    BY <1>1, <1>5, <2>1
  <2> QED
    BY <1>1, <2>2 DEF Linked
<1>15. \A k \in Home \ {l} : \A x \in Trans : k \in ToSet(u.trans[x].bufq) <=> k \in ToSet(s.trans[x].bufq)
  BY <1>1, <1>5
<1> QED
  BY <1>2, <1>4, <1>5, <1>6, <1>7, <1>8, <1>10, <1>11, <1>12, <1>13, <1>14, <1>15 DEF Linked

(* The invariant does not look at the other fields. *)
LEMMA SoundSame ==
  ASSUME NEW s, NEW a, NEW X, NEW p, NEW d, NEW m, Sound(s, a, X, p, d, m),
         NEW r, Shaped(r), r.trans = s.trans, r.cpq = s.cpq, r.recq = s.recq, r.owner = s.owner, r.buf = s.buf,
         r.start = s.start, r.last = s.last, r.allocTid = s.allocTid
  PROVE  Sound(r, a, X, p, d, m) /\ Frame(s, r, a)
<1>1. SameLog(s, r)
  BY DEF SameLog
<1>2. Ring(r, a) /\ Tids(r, m) /\ Frame(s, r, a)
  BY <1>1, SameLogRing, SameLogFrame DEF Sound
<1>3. Linked(r, a, X) /\ Tally(r, p, d)
  BY DEF Linked, Tally, Sound
<1> QED
  BY <1>2, <1>3 DEF Sound

(* Where a buffer of transaction t may be counted: it was taken off its lists,
   so that the counts agree again once it is. *)
CountDue(c, t, a, X, p, d, m) ==
  /\ Shaped(c) /\ Linked(c, a, X) /\ Ring(c, a) /\ Tids(c, m)
  /\ Tally(Wrote(c, t), p, d) /\ (p = 0 \/ d > 0)
  /\ t \in ToSet(c.cpq) \/ t = a

(* What counting leaves alone. *)
CountKept(c, r, p) ==
  /\ r.recq = c.recq /\ r.buf = c.buf
  /\ \A l \in Home : p # 0 /\ c.owner[l] = p => r.owner[l] = p
  /\ \A l \in Home : r.owner[l] \in {0, c.owner[l]}

(* A buffer of transaction t is counted as written; when it was the last of
   the head of the queue, the queue is purged. *)
LEMMA CountedSound ==
  ASSUME NEW c, NEW t \in Trans, NEW a \in 0 .. MaxTrans, NEW X, NEW p, NEW d \in Nat, NEW m,
         CountDue(c, t, a, X, p, d, m),
         NEW first, NEW r, r = Counted(c, t, first)
  PROVE  Sound(r, a, X, p, d, m) /\ Frame(c, r, a) /\ CountKept(c, r, p)
<1> USE DEF CountDue, CountKept
<1> DEFINE w == Wrote(c, t)
<1>1. /\ Shaped(w)
      /\ w.cpq = c.cpq /\ w.recq = c.recq /\ w.owner = c.owner /\ w.buf = c.buf
      /\ w.start = c.start /\ w.last = c.last /\ w.allocTid = c.allocTid
      /\ w.trans[t].written = c.trans[t].written + 1
      /\ \A f \in TransFields \ {"written"} : w.trans[t][f] = c.trans[t][f]
      /\ \A x \in Trans \ {t} : w.trans[x] = c.trans[x]
  BY WroteFields
<1>2. r = IF Complete(w, t) /\ first THEN SbWritten(Purged(w)) ELSE w
  BY DEF Counted, Wrote
<1>3. Tally(w, p, d)
  OBVIOUS
<1> HIDE DEF w
<1>4. /\ w.trans[t].bufq = c.trans[t].bufq /\ w.trans[t].start = c.trans[t].start
      /\ w.trans[t].alloc = c.trans[t].alloc /\ w.trans[t].tid = c.trans[t].tid
      /\ w.trans[t].revoke = c.trans[t].revoke
  BY <1>1 DEF TransFields
<1>5. SameLog(c, w)
  BY <1>1, <1>4 DEF SameLog
<1>6. Ring(w, a) /\ Tids(w, m) /\ Frame(c, w, a)
  BY <1>1, <1>5, SameLogRing, SameLogFrame
<1>7. Linked(w, a, X)
  <2>1. \A x \in Trans : w.trans[x].bufq = c.trans[x].bufq
    BY <1>1, <1>4
  <2>2. a # 0 => w.trans[a].bufq = c.trans[a].bufq
    BY <2>1, JournalAssumption DEF Trans
  <2>3. \A x \in Trans : x \notin ToSet(w.cpq) /\ x # a => w.trans[x] = NoTrans
    BY <1>1 DEF Linked
  <2> QED
    BY <1>1, <2>1, <2>2, <2>3 DEF Linked
<1>8. Sound(w, a, X, p, d, m)
  BY <1>1, <1>3, <1>6, <1>7 DEF Sound
<1>9. CASE ~(Complete(w, t) /\ first)
  BY <1>1, <1>2, <1>6, <1>8, <1>9
<1>10. CASE Complete(w, t) /\ first
  <2> DEFINE v == Purged(w)
  <2>1. PICK n \in 0 .. Len(w.cpq) : Dropped(w, v, n) /\ \A i \in 1 .. n : Complete(w, w.cpq[i])
    BY <1>1, <1>6, PurgedDrops
  <2>2. r = WithOut(v, Append(v.out, WSb(v.start, v.tid)))
    BY <1>2, <1>10 DEF SbWritten, WithOut
  <2> HIDE DEF v
  <2>3. Sound(v, a, X, p, d, m) /\ Frame(w, v, a) /\ p \notin Gone(w, n)
    BY <1>8, <2>1, DroppedSound
  <2>4. /\ Shaped(r)
        /\ r.trans = v.trans /\ r.cpq = v.cpq /\ r.recq = v.recq /\ r.owner = v.owner
        /\ r.buf = v.buf
        /\ r.start = v.start /\ r.last = v.last /\ r.allocTid = v.allocTid
    BY <2>2, <2>3, WithOutFields DEF Sound
  <2>5. Sound(r, a, X, p, d, m) /\ Frame(v, r, a)
    BY <2>3, <2>4, SoundSame
  <2>6. Frame(c, r, a)
    BY <1>6, <2>3, <2>5, FrameTransitive
  <2>7. v.recq = w.recq /\ v.buf = w.buf
        /\ \A l \in Home : v.owner[l] = IF w.owner[l] \in Gone(w, n) THEN 0 ELSE w.owner[l]
    BY <2>1 DEF Dropped
  <2> QED
    BY <1>1, <2>3, <2>4, <2>5, <2>6, <2>7
<1> QED
  BY <1>9, <1>10

(* Taking a jbd_buf of k off its lists and counting it. *)
LEMMA TallyDown ==
  ASSUME NEW s, Shaped(s), NEW p, NEW d \in Nat, Tally(s, p, d), NEW k \in Trans,
         NEW u, Shaped(u), Len(u.trans[k].bufq) = Len(s.trans[k].bufq) - 1,
         \A f \in TransFields \ {"bufq"} : u.trans[k][f] = s.trans[k][f],
         \A x \in Trans \ {k} : u.trans[x] = s.trans[x]
  PROVE  Tally(Wrote(u, k), p, d)
<1> DEFINE w == Wrote(u, k)
<1>1. /\ w.trans[k].written = u.trans[k].written + 1
      /\ \A f \in TransFields \ {"written"} : w.trans[k][f] = u.trans[k][f]
      /\ \A x \in Trans \ {k} : w.trans[x] = u.trans[x]
  BY WroteFields
<1> HIDE DEF w
<1>2. w.trans[k].dataCnt = s.trans[k].dataCnt /\ w.trans[k].bufq = u.trans[k].bufq
      /\ u.trans[k].written = s.trans[k].written
  BY <1>1 DEF TransFields
<1>3. /\ s.trans[k].dataCnt = s.trans[k].written + Len(s.trans[k].bufq) + (IF k = p THEN d ELSE 0)
      /\ s.trans[k].written \in Nat /\ s.trans[k].dataCnt \in Int
      /\ Len(s.trans[k].bufq) \in Nat
  BY DEF Tally, Shaped, TransShaped
<1> DEFINE e == IF k = p THEN d ELSE 0
<1>4. s.trans[k].dataCnt = s.trans[k].written + Len(s.trans[k].bufq) + e /\ e \in Nat
  BY <1>3
<1> HIDE DEF e
<1>5. w.trans[k].dataCnt = w.trans[k].written + Len(w.trans[k].bufq) + e
  <2>1. PICK n \in Nat, h \in Nat : n = s.trans[k].written /\ h = Len(s.trans[k].bufq)
    BY <1>3
  <2>2. w.trans[k].written = n + 1 /\ Len(w.trans[k].bufq) = h - 1
    BY <1>1, <1>2, <2>1
  <2>3. w.trans[k].dataCnt = n + h + e
    BY <1>2, <1>4, <2>1
  <2>4. n + h + e = (n + 1) + (h - 1) + e
    BY <1>4
  <2> QED
    BY <2>2, <2>3, <2>4
<1>6. ASSUME NEW t \in Trans
      PROVE w.trans[t].dataCnt = w.trans[t].written + Len(w.trans[t].bufq) + (IF t = p THEN d ELSE 0)
  <2>1. CASE t = k
    BY <1>5, <2>1 DEF e
  <2>2. CASE t # k
    BY <1>1, <2>2 DEF Tally
  <2> QED
    BY <2>1, <2>2
<1> QED
  BY <1>6 DEF Tally, w

(* One step of jbd_trans_finish_callback. *)
LEMMA FinishedSound ==
  ASSUME NEW s, NEW a, NEW X, NEW p, NEW d \in Nat, NEW m, Sound(s, a, X, p, d, m), p = 0 \/ d > 0,
         NEW k \in Trans, NEW l \in Home, k \in ToSet(s.recq[l]), l \in X,
         NEW r, r = Finished(s, k, l)
  PROVE  /\ Sound(r, a, X, p, d, m) /\ Frame(s, r, a)
         /\ ToSet(r.recq[l]) = ToSet(s.recq[l]) \ {k}
         /\ \A x \in Home \ {l} : r.recq[x] = s.recq[x]
         /\ r.buf = s.buf
         /\ \A x \in Home : p # 0 /\ s.owner[x] = p => r.owner[x] = p
         /\ \A x \in Home : r.owner[x] \in {0, s.owner[x]}
<1> DEFINE u == Unlinked(s, k, l)
           first == IsFirst(s, k)
<1>0. r = Counted(u, k, first)
  BY DEF Finished
<1> HIDE DEF first
<1>1. Shaped(s) /\ a \in 0 .. MaxTrans /\ Linked(s, a, X) /\ Tally(s, p, d) /\ Ring(s, a) /\ Tids(s, m)
  BY DEF Sound
<1>2. /\ Shaped(u)
      /\ u.cpq = s.cpq /\ u.owner = s.owner /\ u.buf = s.buf
      /\ u.start = s.start /\ u.last = s.last /\ u.allocTid = s.allocTid
      /\ \A f \in TransFields \ {"bufq"} : u.trans[k][f] = s.trans[k][f]
      /\ \A x \in Trans \ {k} : u.trans[x] = s.trans[x]
  BY <1>1, UnlinkedFields
<1>3. /\ Linked(u, a, X)
      /\ ToSet(u.recq[l]) = ToSet(s.recq[l]) \ {k}
      /\ \A x \in Home \ {l} : u.recq[x] = s.recq[x]
      /\ Len(u.trans[k].bufq) = Len(s.trans[k].bufq) - 1
  BY <1>1, UnlinkedLinked
<1> HIDE DEF u, first
<1>4. SameLog(s, u)
  BY <1>2 DEF SameLog, TransFields
<1>5. Ring(u, a) /\ Tids(u, m) /\ Frame(s, u, a)
  BY <1>1, <1>2, <1>4, SameLogRing, SameLogFrame
<1>6. Tally(Wrote(u, k), p, d)
  BY <1>1, <1>2, <1>3, TallyDown
<1>7. k \in ToSet(u.cpq) \/ k = a
  <2>1. l \in ToSet(s.trans[k].bufq)
    BY <1>1 DEF Linked
  <2>2. ToSet(NoTrans.bufq) = {}
    BY EmptySeq DEF NoTrans, ToSet
  <2> QED
    BY <1>1, <1>2, <2>1, <2>2 DEF Linked
<1>8. /\ Sound(r, a, X, p, d, m) /\ Frame(u, r, a)
      /\ r.recq = u.recq /\ r.buf = u.buf
      /\ \A x \in Home : p # 0 /\ u.owner[x] = p => r.owner[x] = p
      /\ \A x \in Home : r.owner[x] \in {0, u.owner[x]}
  <2>1. Shaped(u) /\ a \in 0 .. MaxTrans /\ Linked(u, a, X) /\ Ring(u, a) /\ Tids(u, m)
    BY <1>1, <1>2, <1>3, <1>5
  <2> QED
    <3>1. Tally(Wrote(u, k), p, d) /\ d \in Nat /\ (p = 0 \/ d > 0) /\ k \in Trans
      BY <1>6
    <3>2. CountDue(u, k, a, X, p, d, m)
      BY ONLY <1>7, <2>1, <3>1 DEF CountDue
    <3>3. Sound(r, a, X, p, d, m) /\ Frame(u, r, a) /\ CountKept(u, r, p)
      BY ONLY <1>0, <2>1, <3>1, <3>2, CountedSound
    <3> QED
      BY ONLY <3>3 DEF CountKept
<1>9. Frame(s, r, a)
  BY <1>5, <1>8, FrameTransitive
<1> QED
  BY <1>2, <1>3, <1>8, <1>9

(* jbd_trans_finish_callback goes through the jbd_bufs one by one. *)
LEMMA AllFinishedSteps ==
  ASSUME NEW s, Shaped(s), NEW l \in Home
  PROVE  LET N == Len(s.recq[l])
         IN \E f : /\ f[0] = s
                   /\ \A i \in 1 .. N : f[i] = Finished(f[i - 1], s.recq[l][i], l)
                   /\ AllFinished(s, l) = f[N]
<1> DEFINE q == s.recq[l]
           N == Len(q)
           G(f, n) == f = [i \in 0 .. n |-> IF i = 0 THEN s ELSE Finished(f[i - 1], q[i], l)]
           S == {n \in 0 .. N : \E f : G(f, n)}
           done[i \in 0 .. N] == IF i = 0 THEN s ELSE Finished(done[i - 1], q[i], l)
<1>1. N \in Nat
  BY DEF Shaped
<1>2. AllFinished(s, l) = done[N]
  BY DEF AllFinished
<1> HIDE DEF q, N
<1>3. 0 \in S
  <2>1. G([i \in 0 .. 0 |-> s], 0)
    OBVIOUS
  <2>2. 0 \in 0 .. N
    BY <1>1
  <2> HIDE DEF G
  <2> QED
    BY <2>1, <2>2
<1>4. ASSUME NEW n \in 0 .. N - 1, n \in S PROVE n + 1 \in S
  <2>1. PICK f : G(f, n)
    BY <1>4
  <2> DEFINE g == [i \in 0 .. n + 1 |-> IF i <= n THEN f[i] ELSE Finished(f[n], q[n + 1], l)]
  <2>2. ASSUME NEW i \in 0 .. n + 1 PROVE g[i] = IF i = 0 THEN s ELSE Finished(g[i - 1], q[i], l)
    <3>1. CASE i = 0
      BY <2>1, <3>1, <1>1
    <3>2. CASE i \in 1 .. n
      <4>1. g[i] = f[i] /\ g[i - 1] = f[i - 1] /\ i \in 0 .. n
        BY <3>2, <1>1
      <4> QED
        BY <2>1, <3>2, <4>1
    <3>3. CASE i = n + 1
      <4>1. g[i - 1] = f[n] /\ g[i] = Finished(f[n], q[n + 1], l) /\ i # 0
        BY <3>3, <1>1
      <4> QED
        BY <3>3, <4>1
    <3> QED
      BY <3>1, <3>2, <3>3, <1>1
  <2>3. G(g, n + 1)
    <3>1. DOMAIN g = 0 .. n + 1
      OBVIOUS
    <3>2. g = [i \in 0 .. n + 1 |-> g[i]]
      OBVIOUS
    <3> HIDE DEF g
    <3> QED
      BY <2>2, <3>2
  <2>4. n + 1 \in 0 .. N
    BY <1>1
  <2> HIDE DEF g, G
  <2> QED
    BY <2>3, <2>4
<1>5. N \in S
  <2> HIDE DEF S
  <2>1. \A k \in 0 .. N - 1 : k \in S => k + 1 \in S
    BY <1>4
  <2>2. \A k \in 0 .. N : k \in S
    BY <1>1, <1>3, <2>1, UpTo
  <2> QED
    BY <1>1, <2>2
<1>6. done = [i \in 0 .. N |-> IF i = 0 THEN s ELSE Finished(done[i - 1], q[i], l)]
  <2>1. \E f : G(f, N)
    BY <1>5
  <2> QED
    BY <2>1
<1> HIDE DEF done
<1>7. /\ done[0] = s
      /\ \A i \in 1 .. N : done[i] = Finished(done[i - 1], q[i], l)
  BY <1>1, <1>6
<1> QED
  BY <1>2, <1>7 DEF q, N

(* The block record of l is empty, whoever owns it; transaction p keeps the
   blocks it owns. *)
Emptied(s, r, l, p) ==
  /\ r.recq[l] = <<>>
  /\ \A x \in Home \ {l} : r.recq[x] = s.recq[x]
  /\ r.buf = s.buf
  /\ \A x \in Home : p # 0 /\ s.owner[x] = p => r.owner[x] = p
  /\ \A x \in Home : r.owner[x] \in {0, s.owner[x]}

(* All jbd_bufs of the block record are finished. *)
LEMMA AllFinishedSound ==
  ASSUME NEW s, NEW a, NEW X, NEW p, NEW d \in Nat, NEW m, Sound(s, a, X, p, d, m), p = 0 \/ d > 0,
         NEW l \in Home, l \in X,
         NEW r, r = AllFinished(s, l)
  PROVE  Sound(r, a, X, p, d, m) /\ Frame(s, r, a) /\ Emptied(s, r, l, p)
<1> DEFINE q == s.recq[l]
           N == Len(q)
<1>1. Shaped(s) /\ Linked(s, a, X)
  BY DEF Sound
<1>2. q \in Seq(Trans) /\ IsInjective(q)
  BY <1>1 DEF Shaped, Linked
<1>3. N \in Nat /\ DOMAIN q = 1 .. N
  BY <1>2
<1>4. PICK f : /\ f[0] = s
               /\ \A i \in 1 .. N : f[i] = Finished(f[i - 1], q[i], l)
               /\ r = f[N]
  BY <1>1, AllFinishedSteps
<1> HIDE DEF q, N
<1>5. /\ \A i, k \in 1 .. N : q[i] = q[k] => i = k
      /\ \A x : x \in ToSet(q) <=> \E i \in 1 .. N : q[i] = x
      /\ \A i \in 1 .. N : q[i] \in Trans
  BY <1>2, <1>3, MembersOf DEF IsInjective, N
<1> DEFINE P(v, i) == /\ Sound(v, a, X, p, d, m) /\ Frame(s, v, a)
                      /\ \A x : x \in ToSet(v.recq[l]) <=> \E k \in i + 1 .. N : q[k] = x
                      /\ \A x \in Home \ {l} : v.recq[x] = s.recq[x]
                      /\ v.buf = s.buf
                      /\ \A x \in Home : p # 0 /\ s.owner[x] = p => v.owner[x] = p
                      /\ \A x \in Home : v.owner[x] \in {0, s.owner[x]}
           S == {i \in 0 .. N : P(f[i], i)}
<1>6. P(s, 0)
  <2>1. ToSet(s.recq[l]) = ToSet(q)
    BY DEF q
  <2> QED
    BY <1>5, <2>1, FrameReflexive
<1>7. ASSUME NEW i \in 0 .. N - 1, P(f[i], i) PROVE P(f[i + 1], i + 1)
  <2> DEFINE v == f[i]
             w == f[i + 1]
             k == q[i + 1]
  <2>1. i \in Nat /\ i + 1 \in 1 .. N /\ (i + 1) - 1 = i
    BY <1>3
  <2>2. w = Finished(v, k, l) /\ k \in Trans
    BY <1>4, <1>5, <2>1
  <2>3. P(v, i)
    BY <1>7
  <2> HIDE DEF v, w
  <2>4. k \in ToSet(v.recq[l])
    BY <1>3, <2>1, <2>3
  <2>5. /\ Sound(w, a, X, p, d, m) /\ Frame(v, w, a)
        /\ ToSet(w.recq[l]) = ToSet(v.recq[l]) \ {k}
        /\ \A x \in Home \ {l} : w.recq[x] = v.recq[x]
        /\ w.buf = v.buf
        /\ \A x \in Home : p # 0 /\ v.owner[x] = p => w.owner[x] = p
        /\ \A x \in Home : w.owner[x] \in {0, v.owner[x]}
    <3>1. Sound(v, a, X, p, d, m)
      BY <2>3
    <3> HIDE DEF k
    <3> QED
      BY <2>2, <2>4, <3>1, FinishedSound
  <2>6. ASSUME NEW x PROVE x \in ToSet(w.recq[l]) <=> \E h \in (i + 1) + 1 .. N : q[h] = x
    <3>1. x \in ToSet(w.recq[l]) <=> x # k /\ \E h \in i + 1 .. N : q[h] = x
      BY <2>3, <2>5
    <3>2. \A h \in i + 1 .. N : q[h] = k => h = i + 1
      BY <1>3, <1>5, <2>1
    <3>3. \A h \in (i + 1) + 1 .. N : q[h] # k /\ h \in i + 1 .. N
      BY <1>3, <1>5, <2>1
    <3>4. \A h \in i + 1 .. N : h # i + 1 => h \in (i + 1) + 1 .. N
      BY <1>3, <2>1
    <3> QED
      BY <3>1, <3>2, <3>3, <3>4
  <2>7. Frame(s, w, a)
    BY <2>3, <2>5, FrameTransitive
  <2>8. \A x \in Home : w.owner[x] \in {0, s.owner[x]}
    BY <2>3, <2>5
  <2>9. \A x \in Home : p # 0 /\ s.owner[x] = p => w.owner[x] = p
    BY <2>3, <2>5
  <2>10. (\A x \in Home \ {l} : w.recq[x] = s.recq[x]) /\ w.buf = s.buf
    BY <2>3, <2>5
  <2>11. P(w, i + 1)
    BY <2>5, <2>6, <2>7, <2>8, <2>9, <2>10
  <2> QED
    BY <2>11 DEF w
<1> HIDE DEF P
<1>8. P(f[N], N)
  <2>1. 0 \in S
    BY <1>3, <1>4, <1>6
  <2>2. \A i \in 0 .. N - 1 : i \in S => i + 1 \in S
    BY <1>3, <1>7
  <2> HIDE DEF S
  <2>3. \A i \in 0 .. N : i \in S
    BY <1>3, <2>1, <2>2, UpTo
  <2> QED
    BY <1>3, <2>3 DEF S
<1>9. r.recq[l] = <<>>
  <2>1. r.recq[l] \in Seq(Trans)
    BY <1>4, <1>8 DEF P, Sound, Shaped
  <2>2. \A x : x \notin ToSet(r.recq[l])
    BY <1>3, <1>4, <1>8 DEF P
  <2> QED
    BY <2>1, <2>2, MembersOf
<1> QED
  BY <1>4, <1>8, <1>9 DEF P, Emptied

(* A buffer of t is unlinked and not counted yet. *)
LEMMA TallyPending ==
  ASSUME NEW s, Shaped(s), Tally(s, 0, 0), NEW t \in Trans,
         NEW u, Shaped(u), Len(u.trans[t].bufq) = Len(s.trans[t].bufq) - 1,
         \A f \in TransFields \ {"bufq"} : u.trans[t][f] = s.trans[t][f],
         \A x \in Trans \ {t} : u.trans[x] = s.trans[x]
  PROVE  Tally(u, t, 1)
<1>1. PICK n \in Nat, h \in Nat : n = s.trans[t].written /\ h = Len(s.trans[t].bufq)
  <2>1. s.trans[t].written \in Nat /\ s.trans[t].bufq \in Seq(Home)
    BY DEF Shaped, TransShaped
  <2> QED
    BY <2>1
<1>2. s.trans[t].dataCnt = n + h
  BY <1>1 DEF Tally
<1>3. u.trans[t].dataCnt = n + h /\ u.trans[t].written = n /\ Len(u.trans[t].bufq) = h - 1
  BY <1>1, <1>2 DEF TransFields
<1>4. u.trans[t].dataCnt = u.trans[t].written + Len(u.trans[t].bufq) + 1
  BY <1>3
<1>5. ASSUME NEW x \in Trans, x # t
      PROVE u.trans[x].dataCnt = u.trans[x].written + Len(u.trans[x].bufq) + 0
  BY <1>5 DEF Tally
<1> QED
  BY <1>4, <1>5 DEF Tally

(* And then it is counted. *)
LEMMA TallyCounted ==
  ASSUME NEW c, Shaped(c), NEW t \in Trans, Tally(c, t, 1)
  PROVE  Tally(Wrote(c, t), 0, 0)
<1> DEFINE w == Wrote(c, t)
<1>1. /\ w.trans[t].written = c.trans[t].written + 1
      /\ \A f \in TransFields \ {"written"} : w.trans[t][f] = c.trans[t][f]
      /\ \A x \in Trans \ {t} : w.trans[x] = c.trans[x]
  BY WroteFields
<1> HIDE DEF w
<1>2. PICK n \in Nat, h \in Nat : n = c.trans[t].written /\ h = Len(c.trans[t].bufq)
  <2>1. c.trans[t].written \in Nat /\ c.trans[t].bufq \in Seq(Home)
    BY DEF Shaped, TransShaped
  <2> QED
    BY <2>1
<1>3. c.trans[t].dataCnt = n + h + 1
  BY <1>2 DEF Tally
<1>4. w.trans[t].dataCnt = n + h + 1 /\ w.trans[t].written = n + 1 /\ Len(w.trans[t].bufq) = h
  BY <1>1, <1>2, <1>3 DEF TransFields
<1>5. w.trans[t].dataCnt = w.trans[t].written + Len(w.trans[t].bufq) + 0
  BY <1>4
<1>6. ASSUME NEW x \in Trans, x # t
      PROVE w.trans[x].dataCnt = w.trans[x].written + Len(w.trans[x].bufq) + 0
  BY <1>1, <1>6 DEF Tally
<1> QED
  BY <1>5, <1>6, JournalAssumption DEF Tally, Trans, w

(* A transaction with a jbd_buf, or with one that is not counted yet, is in
   the queue or is the one outside it. *)
LEMMA InUse ==
  ASSUME NEW s, Shaped(s), NEW a, NEW X, Linked(s, a, X), NEW t \in Trans,
         (\E l \in Home : t \in ToSet(s.recq[l])) \/ Tally(s, t, 1)
  PROVE  t \in ToSet(s.cpq) \/ t = a
<1>1. ToSet(NoTrans.bufq) = {} /\ Len(NoTrans.bufq) = 0 /\ NoTrans.dataCnt = 0 /\ NoTrans.written = 0
  BY EmptySeq DEF NoTrans, ToSet
<1>2. s.trans[t] # NoTrans
  BY <1>1 DEF Linked, Tally
<1> QED
  BY <1>2 DEF Linked

(* jbd_trans_end_write keeps the invariant.  When the transaction owns the
   block every jbd_buf of the block is finished, else only its own. *)
LEMMA EndWriteSound ==
  ASSUME NEW s, NEW a, NEW m, Sound(s, a, {}, 0, 0, m),
         NEW t \in Trans, NEW l \in Home, t \in ToSet(s.recq[l]),
         NEW r, r = EndWrite(s, t, l)
  PROVE  /\ Sound(r, a, {}, 0, 0, m) /\ Frame(s, r, a)
         /\ s.owner[l] = t => r.recq[l] = <<>> /\ r.buf[l].endWrite = 0
         /\ s.owner[l] # t => ToSet(r.recq[l]) = ToSet(s.recq[l]) \ {t} /\ r.buf[l] = s.buf[l]
         /\ \A f \in BufFields \ {"endWrite"} : r.buf[l][f] = s.buf[l][f]
         /\ \A x \in Home \ {l} : r.recq[x] = s.recq[x] /\ r.buf[x] = s.buf[x]
         /\ \A x \in Home : r.owner[x] \in {0, s.owner[x]}
<1> DEFINE first == IsFirst(s, t)
           u == Unlinked(s, t, l)
           f == IF s.owner[l] = t THEN AllFinished(u, l) ELSE u
           c == IF f.owner[l] = t THEN Unreported(f, l) ELSE f
<1>0. r = Counted(c, t, first)
  BY DEF EndWrite, Unreported
<1> HIDE DEF first
<1>1. Shaped(s) /\ a \in 0 .. MaxTrans /\ Linked(s, a, {}) /\ Tally(s, 0, 0) /\ Ring(s, a) /\ Tids(s, m)
  BY DEF Sound
<1>2. /\ Shaped(u)
      /\ u.cpq = s.cpq /\ u.owner = s.owner /\ u.buf = s.buf
      /\ u.start = s.start /\ u.last = s.last /\ u.allocTid = s.allocTid
      /\ \A g \in TransFields \ {"bufq"} : u.trans[t][g] = s.trans[t][g]
      /\ \A x \in Trans \ {t} : u.trans[x] = s.trans[x]
  BY <1>1, UnlinkedFields
<1>3. /\ Linked(u, a, IF s.owner[l] = t THEN {l} ELSE {})
      /\ ToSet(u.recq[l]) = ToSet(s.recq[l]) \ {t}
      /\ \A x \in Home \ {l} : u.recq[x] = s.recq[x]
      /\ Len(u.trans[t].bufq) = Len(s.trans[t].bufq) - 1
  <2> DEFINE Y == IF s.owner[l] = t THEN {l} ELSE {}
  <2>1. {} \subseteq Y /\ (l \in Y \/ s.owner[l] # t)
    OBVIOUS
  <2> HIDE DEF Y, u
  <2>2. u = Unlinked(s, t, l)
    BY DEF u
  <2>3. /\ Linked(u, a, Y)
        /\ ToSet(u.recq[l]) = ToSet(s.recq[l]) \ {t}
        /\ \A x \in Home \ {l} : u.recq[x] = s.recq[x]
        /\ Len(u.trans[t].bufq) = Len(s.trans[t].bufq) - 1
    BY <1>1, <2>1, <2>2, UnlinkedLinked
  <2> QED
    BY <2>3 DEF Y
<1> HIDE DEF u, first
<1>4. SameLog(s, u)
  BY <1>2 DEF SameLog, TransFields
<1>5. Ring(u, a) /\ Tids(u, m) /\ Frame(s, u, a)
  BY <1>1, <1>2, <1>4, SameLogRing, SameLogFrame
<1>6. CASE s.owner[l] = t
  <2>1. f = AllFinished(u, l)
    BY <1>6
  <2>2. Tally(u, t, 1)
    BY <1>1, <1>2, <1>3, TallyPending
  <2>3. Sound(u, a, {l}, t, 1, m)
    BY <1>1, <1>2, <1>3, <1>5, <1>6, <2>2 DEF Sound
  <2>4. /\ Sound(f, a, {l}, t, 1, m) /\ Frame(u, f, a)
        /\ f.recq[l] = <<>>
        /\ \A x \in Home \ {l} : f.recq[x] = u.recq[x]
        /\ f.buf = u.buf
        /\ \A x \in Home : t # 0 /\ u.owner[x] = t => f.owner[x] = t
        /\ \A x \in Home : f.owner[x] \in {0, u.owner[x]}
    <3> HIDE DEF f
    <3> DEFINE X == {l}
               d == 1
    <3>1. l \in X /\ d \in Nat /\ (t = 0 \/ d > 0)
      OBVIOUS
    <3>2. Sound(u, a, X, t, d, m)
      BY <2>3
    <3> HIDE DEF X, d
    <3>3. Sound(f, a, X, t, d, m) /\ Frame(u, f, a) /\ Emptied(u, f, l, t)
      BY <2>1, <3>1, <3>2, AllFinishedSound
    <3> QED
      BY <3>3 DEF X, d, Emptied
  <2> HIDE DEF f
  <2>5. f.owner[l] = t
    BY <1>2, <1>6, <2>4, JournalAssumption DEF Trans
  <2>6. c = Unreported(f, l)
    BY <2>5
  <2> HIDE DEF c
  <2>7. Shaped(f) /\ Linked(f, a, {l}) /\ Tally(f, t, 1) /\ Ring(f, a) /\ Tids(f, m)
    BY <2>4 DEF Sound
  <2>8. /\ Shaped(c)
        /\ c.trans = f.trans /\ c.cpq = f.cpq /\ c.recq = f.recq /\ c.owner = f.owner
        /\ c.start = f.start /\ c.last = f.last /\ c.allocTid = f.allocTid
        /\ c.buf[l].endWrite = 0
        /\ \A g \in BufFields \ {"endWrite"} : c.buf[l][g] = f.buf[l][g]
        /\ \A k \in Home \ {l} : c.buf[k] = f.buf[k]
    BY <2>6, <2>7, UnreportedFields
  <2>9. SameLog(f, c)
    BY <2>8 DEF SameLog
  <2>10. Frame(f, c, a)
    BY <1>1, <2>9, SameLogFrame
  <2>11. Ring(c, a) /\ Tids(c, m)
    BY <1>1, <2>7, <2>9, SameLogRing
  <2>12. Linked(c, a, {})
    BY <2>4, <2>7, <2>8 DEF Linked
  <2>13. Tally(c, t, 1)
    BY <2>7, <2>8 DEF Tally
  <2>14. Tally(Wrote(c, t), 0, 0)
    BY <2>8, <2>13, TallyCounted
  <2>15. t \in ToSet(c.cpq) \/ t = a
    BY <2>8, <2>12, <2>13, InUse
  <2>16. /\ Sound(r, a, {}, 0, 0, m) /\ Frame(c, r, a)
         /\ r.recq = c.recq /\ r.buf = c.buf
         /\ \A x \in Home : r.owner[x] \in {0, c.owner[x]}
    <3>1. /\ Shaped(c) /\ a \in 0 .. MaxTrans /\ Linked(c, a, {}) /\ Ring(c, a) /\ Tids(c, m)
          /\ Tally(Wrote(c, t), 0, 0) /\ (t \in ToSet(c.cpq) \/ t = a) /\ 0 \in Nat /\ t \in Trans
      BY <1>1, <2>8, <2>11, <2>12, <2>14, <2>15
    <3>2. r = Counted(c, t, first)
      BY <1>0 DEF c, f
    <3>3. CountDue(c, t, a, {}, 0, 0, m)
      BY ONLY <3>1 DEF CountDue
    <3>4. Sound(r, a, {}, 0, 0, m) /\ Frame(c, r, a) /\ CountKept(c, r, 0)
      BY ONLY <3>1, <3>2, <3>3, CountedSound
    <3> QED
      BY ONLY <3>4 DEF CountKept
  <2>17. Frame(s, r, a)
    BY <1>5, <2>4, <2>10, <2>16, FrameTransitive
  <2>18. \A x \in Home : r.owner[x] \in {0, s.owner[x]}
    BY <1>2, <2>4, <2>8, <2>16
  <2>19. \A x \in Home \ {l} : r.recq[x] = s.recq[x] /\ r.buf[x] = s.buf[x]
    BY <1>2, <1>3, <2>4, <2>8, <2>16
  <2>20. r.recq[l] = <<>> /\ r.buf[l].endWrite = 0 /\ \A g \in BufFields \ {"endWrite"} : r.buf[l][g] = s.buf[l][g]
    BY <1>2, <2>4, <2>8, <2>16
  <2> QED
    BY <1>6, <2>16, <2>17, <2>18, <2>19, <2>20
<1>7. CASE s.owner[l] # t
  <2>1. c = u
    BY <1>2, <1>7
  <2> HIDE DEF c
  <2>2. Linked(u, a, {})
    BY <1>3, <1>7
  <2>3. Tally(Wrote(u, t), 0, 0)
    BY <1>1, <1>2, <1>3, TallyDown
  <2>4. t \in ToSet(u.cpq) \/ t = a
    BY <1>1, <1>2, InUse
  <2>5. /\ Sound(r, a, {}, 0, 0, m) /\ Frame(u, r, a)
        /\ r.recq = u.recq /\ r.buf = u.buf
        /\ \A x \in Home : r.owner[x] \in {0, u.owner[x]}
    <3>1. /\ Shaped(u) /\ a \in 0 .. MaxTrans /\ Linked(u, a, {}) /\ Ring(u, a) /\ Tids(u, m)
          /\ Tally(Wrote(u, t), 0, 0) /\ (t \in ToSet(u.cpq) \/ t = a) /\ 0 \in Nat /\ t \in Trans
      BY <1>1, <1>2, <1>5, <2>2, <2>3, <2>4
    <3>2. r = Counted(u, t, first)
      BY <1>0, <2>1 DEF c
    <3>3. CountDue(u, t, a, {}, 0, 0, m)
      BY ONLY <3>1 DEF CountDue
    <3>4. Sound(r, a, {}, 0, 0, m) /\ Frame(u, r, a) /\ CountKept(u, r, 0)
      BY ONLY <3>1, <3>2, <3>3, CountedSound
    <3> QED
      BY ONLY <3>4 DEF CountKept
  <2>6. Frame(s, r, a)
    BY <1>5, <2>5, FrameTransitive
  <2> QED
    BY <1>2, <1>3, <1>7, <2>5, <2>6
<1> QED
  BY <1>6, <1>7

(* ext4_block_flush_buf writes the buffer and reports it to the transaction
   that owns the block. *)
LEMMA FlushedSound ==
  ASSUME NEW s, NEW a, NEW m, Sound(s, a, {}, 0, 0, m), NEW l \in Home, NEW ok \in BOOLEAN,
         NEW r, r = Flushed(s, l, ok)
  PROVE  /\ Sound(r, a, {}, 0, 0, m) /\ Frame(s, r, a)
         /\ s.buf[l].endWrite # 0 => r.recq[l] = <<>>
         /\ s.buf[l].endWrite = 0 => r.recq[l] = s.recq[l]
         /\ r.buf[l].endWrite = 0
         /\ r.buf[l].uptodate = s.buf[l].uptodate
         /\ \A x \in Home \ {l} : r.recq[x] = s.recq[x] /\ r.buf[x] = s.buf[x]
<1> DEFINE b == s.buf[l]
           e == [b EXCEPT !.dirty = FALSE]
           v == WithBuf(s, l, e)
           o == Append(s.out, WHome(l, b.val))
           w == IF ok THEN WithOut(v, o) ELSE s
<1>1. Shaped(s) /\ Linked(s, a, {}) /\ Ring(s, a) /\ Tids(s, m) /\ Tally(s, 0, 0) /\ a \in 0 .. MaxTrans
  BY DEF Sound
<1>2. DOMAIN s = JournalFields /\ DOMAIN b = BufFields
  BY <1>1, FieldNames DEF Shaped
<1>3. r = IF b.endWrite # 0 THEN EndWrite(w, b.endWrite, l) ELSE w
  <2>1. [s EXCEPT !.buf[l].dirty = FALSE, !.out = Append(@, WHome(l, b.val))] = WithOut(v, o)
    BY <1>2 DEF WithOut, WithBuf, JournalFields
  <2> QED
    BY <2>1 DEF Flushed
<1>4. /\ DOMAIN e = BufFields /\ e.endWrite = b.endWrite /\ e.uptodate = b.uptodate
  BY <1>2 DEF BufFields
<1> HIDE DEF e, o
<1>5. /\ Shaped(v)
      /\ v.trans = s.trans /\ v.cpq = s.cpq /\ v.recq = s.recq /\ v.owner = s.owner
      /\ v.start = s.start /\ v.last = s.last /\ v.allocTid = s.allocTid
      /\ v.buf[l] = e
      /\ \A k \in Home \ {l} : v.buf[k] = s.buf[k]
  BY <1>1, <1>4, WithBufFields
<1> HIDE DEF v
<1>6. /\ Shaped(w)
      /\ w.trans = s.trans /\ w.cpq = s.cpq /\ w.recq = s.recq /\ w.owner = s.owner
      /\ w.start = s.start /\ w.last = s.last /\ w.allocTid = s.allocTid
      /\ w.buf[l].endWrite = b.endWrite /\ w.buf[l].uptodate = b.uptodate
      /\ \A k \in Home \ {l} : w.buf[k] = s.buf[k]
  <2>1. CASE ok
    <3>1. w = WithOut(v, o)
      BY <2>1
    <3> HIDE DEF w
    <3>2. /\ Shaped(w)
          /\ w.trans = v.trans /\ w.cpq = v.cpq /\ w.recq = v.recq /\ w.owner = v.owner
          /\ w.buf = v.buf
          /\ w.start = v.start /\ w.last = v.last /\ w.allocTid = v.allocTid
      BY <1>5, <3>1, WithOutFields
    <3> QED
      BY <1>4, <1>5, <3>2
  <2>2. CASE ~ok
    BY <1>1, <2>2
  <2> QED
    BY <2>1, <2>2
<1> HIDE DEF w
<1>7. SameLog(s, w)
  BY <1>6 DEF SameLog
<1>8. Ring(w, a) /\ Tids(w, m) /\ Frame(s, w, a)
  BY <1>1, <1>7, SameLogRing, SameLogFrame
<1>9. Linked(w, a, {})
  <2>1. \A k \in Home : w.buf[k].endWrite = s.buf[k].endWrite
    BY <1>6
  <2> QED
    BY <1>1, <1>6, <2>1 DEF Linked
<1>10. Sound(w, a, {}, 0, 0, m)
  BY <1>1, <1>6, <1>8, <1>9 DEF Sound, Tally
<1>11. CASE b.endWrite = 0
  BY <1>3, <1>6, <1>8, <1>10, <1>11
<1>12. CASE b.endWrite # 0
  <2> DEFINE t == b.endWrite
  <2>1. t = s.owner[l] /\ s.recq[l] # <<>> /\ t = Last(s.recq[l])
    BY <1>1, <1>12 DEF Linked
  <2>2. t \in Trans /\ t \in ToSet(w.recq[l]) /\ w.owner[l] = t
    <3>1. s.recq[l] \in Seq(Trans)
      BY <1>1 DEF Shaped
    <3> QED
      BY <1>6, <2>1, <3>1, MembersOf
  <2> HIDE DEF b
  <2>3. r = EndWrite(w, t, l)
    BY <1>3, <1>12
  <2>4. /\ Sound(r, a, {}, 0, 0, m) /\ Frame(w, r, a)
        /\ w.owner[l] = t => r.recq[l] = <<>> /\ r.buf[l].endWrite = 0
        /\ \A f \in BufFields \ {"endWrite"} : r.buf[l][f] = w.buf[l][f]
        /\ \A x \in Home \ {l} : r.recq[x] = w.recq[x] /\ r.buf[x] = w.buf[x]
    BY <1>10, <2>2, <2>3, EndWriteSound
  <2>5. r.buf[l].uptodate = w.buf[l].uptodate
    BY <2>4 DEF BufFields
  <2>6. Frame(s, r, a)
    BY <1>8, <2>4, FrameTransitive
  <2> QED
    BY <1>6, <1>12, <2>2, <2>4, <2>5, <2>6 DEF b
<1> QED
  BY <1>11, <1>12

(* The lists are those of u; only the buffer of block l may differ. *)
SameLists(u, v, l) ==
  /\ v.trans = u.trans /\ v.cpq = u.cpq /\ v.recq = u.recq /\ v.owner = u.owner
  /\ v.start = u.start /\ v.last = u.last /\ v.allocTid = u.allocTid
  /\ \A k \in Home \ {l} : v.buf[k] = u.buf[k]

(* Block l leaves transaction a, from s with the buffers of v to r. *)
GivenBack(s, v, r, a, l, rv) ==
  /\ l \in Home /\ a \in ToSet(s.recq[l])
  /\ Len(r.trans[a].bufq) = Len(s.trans[a].bufq) - 1
  /\ ToSet(r.trans[a].bufq) = ToSet(s.trans[a].bufq) \ {l}
  /\ \A f \in TransFields \ {"bufq"} : r.trans[a][f] = s.trans[a][f]
  /\ \A x \in Trans \ {a} : r.trans[x] = s.trans[x]
  /\ \A k \in Home \ {l} : r.recq[k] = s.recq[k] /\ r.owner[k] = s.owner[k] /\ r.buf[k] = s.buf[k]
  /\ ToSet(r.recq[l]) = ToSet(s.recq[l]) \ {a}
  /\ r.recq[l] = <<>> \/ rv => r.buf[l] = v.buf[l]
  /\ r.recq[l] # <<>> /\ ~rv => /\ r.buf[l].endWrite # 0
                                /\ r.buf[l].dirty = TRUE /\ r.buf[l].uptodate = TRUE

(* The active transaction gives up its buffer of block l: the block goes back
   to the newest transaction that still has one. *)
LEMMA RolledBackLinked ==
  ASSUME NEW s, Shaped(s), NEW a \in Trans, Linked(s, a, {}), NEW l \in ToSet(s.trans[a].bufq),
         NEW v, Shaped(v), SameLists(Unlinked(s, a, l), v, l), v.buf[l].endWrite = 0, NEW rv \in BOOLEAN,
         NEW r, r = RolledBack(v, a, l, rv)
  PROVE  Shaped(r) /\ Linked(r, a, {}) /\ SameLog(s, r) /\ GivenBack(s, v, r, a, l, rv)
<1> DEFINE u == Unlinked(s, a, l)
<1>1. l \in Home
  <2>1. s.trans[a].bufq \in Seq(Home)
    BY DEF Shaped, TransShaped
  <2> QED
    BY <2>1, MembersOf
<1>2. a \in ToSet(s.recq[l]) /\ s.owner[l] = a /\ a # 0 /\ a \in 0 .. MaxTrans
  BY <1>1, JournalAssumption DEF Linked, Trans
<1>3. /\ Shaped(u)
      /\ u.cpq = s.cpq /\ u.owner = s.owner /\ u.buf = s.buf
      /\ u.start = s.start /\ u.last = s.last /\ u.allocTid = s.allocTid
      /\ \A f \in TransFields \ {"bufq"} : u.trans[a][f] = s.trans[a][f]
      /\ \A x \in Trans \ {a} : u.trans[x] = s.trans[x]
  BY <1>1, UnlinkedFields
<1>4. /\ Linked(u, a, {l})
      /\ ToSet(u.recq[l]) = ToSet(s.recq[l]) \ {a}
      /\ \A k \in Home \ {l} : u.recq[k] = s.recq[k]
      /\ Len(u.trans[a].bufq) = Len(s.trans[a].bufq) - 1
      /\ \A k \in Home \ {l} : \A x \in Trans : k \in ToSet(u.trans[x].bufq) <=> k \in ToSet(s.trans[x].bufq)
  <2> DEFINE Y == {l}
             X == {}
  <2>1. X \subseteq Y /\ l \in Y /\ Linked(s, a, X)
    OBVIOUS
  <2> HIDE DEF Y, X
  <2>2. /\ Linked(u, a, Y)
        /\ ToSet(u.recq[l]) = ToSet(s.recq[l]) \ {a}
        /\ \A k \in Home \ {l} : u.recq[k] = s.recq[k]
        /\ Len(u.trans[a].bufq) = Len(s.trans[a].bufq) - 1
        /\ \A k \in Home \ {l} : \A x \in Trans : k \in ToSet(u.trans[x].bufq) <=> k \in ToSet(s.trans[x].bufq)
    BY <1>1, <1>2, <2>1, UnlinkedLinked
  <2> QED
    BY <2>2 DEF Y
<1>5. /\ v.trans = u.trans /\ v.cpq = u.cpq /\ v.recq = u.recq /\ v.owner = u.owner
      /\ v.start = u.start /\ v.last = u.last /\ v.allocTid = u.allocTid
      /\ \A k \in Home \ {l} : v.buf[k] = u.buf[k]
  BY DEF SameLists
<1> HIDE DEF u
<1>6. /\ Shaped(r)
      /\ r.trans = v.trans /\ r.cpq = v.cpq /\ r.recq = v.recq
      /\ r.start = v.start /\ r.last = v.last /\ r.allocTid = v.allocTid
      /\ r.owner[l] = IF v.recq[l] = <<>> THEN 0 ELSE Last(v.recq[l])
      /\ \A k \in Home \ {l} : r.owner[k] = v.owner[k] /\ r.buf[k] = v.buf[k]
      /\ v.recq[l] = <<>> \/ rv => r.buf[l] = v.buf[l]
      /\ v.recq[l] # <<>> /\ ~rv => /\ r.buf[l].endWrite = Last(v.recq[l])
                                    /\ r.buf[l].dirty = TRUE /\ r.buf[l].uptodate = TRUE
  <2>1. Shaped(v) /\ v.owner[l] = a /\ l \in Home
    BY <1>1, <1>2, <1>3, <1>5
  <2>2. Shaped(r) /\ Restored(v, r, l, rv)
    BY <2>1, RolledBackFields
  <2> QED
    BY <2>2 DEF Restored
<1>7. r.recq[l] # <<>> => Last(r.recq[l]) \in Trans /\ Last(r.recq[l]) # 0
  <2>1. r.recq[l] \in Seq(Trans)
    BY <1>1, <1>6 DEF Shaped
  <2> QED
    BY <2>1, MembersOf, JournalAssumption DEF Trans
<1>8. ToSet(r.trans[a].bufq) = ToSet(s.trans[a].bufq) \ {l}
  <2>1. ToSet(r.trans[a].bufq) \subseteq Home /\ ToSet(s.trans[a].bufq) \subseteq Home
    <3>1. r.trans[a].bufq \in Seq(Home) /\ s.trans[a].bufq \in Seq(Home)
      BY <1>6 DEF Shaped, TransShaped
    <3> QED
      BY <3>1, MembersOf
  <2>2. l \notin ToSet(r.trans[a].bufq)
    BY <1>1, <1>4, <1>5, <1>6 DEF Linked
  <2> QED
    BY <1>4, <1>5, <1>6, <2>1, <2>2
<1>9. Linked(r, a, {})
  <2>1. \A t \in Trans, k \in Home : k \in ToSet(r.trans[t].bufq) <=> t \in ToSet(r.recq[k])
    BY <1>4, <1>5, <1>6 DEF Linked
  <2>2. \A t \in Trans : IsInjective(r.trans[t].bufq)
    BY <1>4, <1>5, <1>6 DEF Linked
  <2>3. \A k \in Home : IsInjective(r.recq[k])
    BY <1>4, <1>5, <1>6 DEF Linked
  <2>4. \A k \in Home : r.recq[k] # <<>> => r.owner[k] = Last(r.recq[k])
    BY <1>4, <1>5, <1>6 DEF Linked
  <2>5. \A k \in Home : r.buf[k].endWrite # 0 => r.buf[k].endWrite = r.owner[k] /\ r.recq[k] # <<>>
    BY <1>4, <1>5, <1>6 DEF Linked
  <2>6. IsInjective(r.cpq) /\ a \notin ToSet(r.cpq)
    BY <1>4, <1>5, <1>6 DEF Linked
  <2>7. \A t \in Trans : t \notin ToSet(r.cpq) /\ t # a => r.trans[t] = NoTrans
    BY <1>4, <1>5, <1>6 DEF Linked
  <2>8. a # 0 => \A k \in ToSet(r.trans[a].bufq) : r.owner[k] = a
    <3>1. \A k \in ToSet(s.trans[a].bufq) \ {l} : k \in Home \ {l} /\ s.owner[k] = a
      <4>1. s.trans[a].bufq \in Seq(Home)
        BY DEF Shaped, TransShaped
      <4>2. ToSet(s.trans[a].bufq) \subseteq Home
        BY <4>1, MembersOf
      <4> QED
        BY <1>2, <4>2 DEF Linked
    <3> QED
      BY <1>3, <1>5, <1>6, <1>8, <3>1
  <2> QED
    BY <2>1, <2>2, <2>3, <2>4, <2>5, <2>6, <2>7, <2>8 DEF Linked
<1>10. SameLog(s, r)
  BY <1>3, <1>5, <1>6 DEF SameLog, TransFields
<1>11. \A k \in Home \ {l} : r.recq[k] = s.recq[k] /\ r.owner[k] = s.owner[k] /\ r.buf[k] = s.buf[k]
  BY <1>3, <1>4, <1>5, <1>6
<1> QED
  BY <1>1, <1>2, <1>3, <1>4, <1>5, <1>6, <1>7, <1>8, <1>9, <1>10, <1>11 DEF GivenBack

(* jbd_journal_free_trans(trans, true) gives up the jbd_bufs one by one. *)
LEMMA AbortedSteps ==
  ASSUME NEW s, Shaped(s), NEW t \in Trans
  PROVE  LET N == Len(s.trans[t].bufq)
         IN \E f : /\ f[0] = s
                   /\ \A i \in 1 .. N : f[i] = GivenUp(f[i - 1], t, s.trans[t].bufq[i])
                   /\ Aborted(s, t) = Freed(f[N], {t})
<1> DEFINE q == s.trans[t].bufq
           N == Len(q)
           G(f, n) == f = [i \in 0 .. n |-> IF i = 0 THEN s ELSE GivenUp(f[i - 1], t, q[i])]
           S == {n \in 0 .. N : \E f : G(f, n)}
           done[i \in 0 .. N] == IF i = 0 THEN s ELSE GivenUp(done[i - 1], t, q[i])
<1>1. N \in Nat
  BY DEF Shaped, TransShaped
<1>2. Aborted(s, t) = Freed(done[N], {t})
  BY DEF Aborted
<1> HIDE DEF q, N
<1>3. 0 \in S
  <2>1. G([i \in 0 .. 0 |-> s], 0)
    OBVIOUS
  <2>2. 0 \in 0 .. N
    BY <1>1
  <2> HIDE DEF G
  <2> QED
    BY <2>1, <2>2
<1>4. ASSUME NEW n \in 0 .. N - 1, n \in S PROVE n + 1 \in S
  <2>1. PICK f : G(f, n)
    BY <1>4
  <2> DEFINE g == [i \in 0 .. n + 1 |-> IF i <= n THEN f[i] ELSE GivenUp(f[n], t, q[n + 1])]
  <2>2. ASSUME NEW i \in 0 .. n + 1 PROVE g[i] = IF i = 0 THEN s ELSE GivenUp(g[i - 1], t, q[i])
    <3>1. CASE i = 0
      BY <2>1, <3>1, <1>1
    <3>2. CASE i \in 1 .. n
      <4>1. g[i] = f[i] /\ g[i - 1] = f[i - 1] /\ i \in 0 .. n
        BY <3>2, <1>1
      <4> QED
        BY <2>1, <3>2, <4>1
    <3>3. CASE i = n + 1
      <4>1. g[i - 1] = f[n] /\ g[i] = GivenUp(f[n], t, q[n + 1]) /\ i # 0
        BY <3>3, <1>1
      <4> QED
        BY <3>3, <4>1
    <3> QED
      BY <3>1, <3>2, <3>3, <1>1
  <2>3. G(g, n + 1)
    <3>1. DOMAIN g = 0 .. n + 1
      OBVIOUS
    <3>2. g = [i \in 0 .. n + 1 |-> g[i]]
      OBVIOUS
    <3> HIDE DEF g
    <3> QED
      BY <2>2, <3>2
  <2>4. n + 1 \in 0 .. N
    BY <1>1
  <2> HIDE DEF g, G
  <2> QED
    BY <2>3, <2>4
<1>5. N \in S
  <2> HIDE DEF S
  <2>1. \A k \in 0 .. N - 1 : k \in S => k + 1 \in S
    BY <1>4
  <2>2. \A k \in 0 .. N : k \in S
    BY <1>1, <1>3, <2>1, UpTo
  <2> QED
    BY <1>1, <2>2
<1>6. done = [i \in 0 .. N |-> IF i = 0 THEN s ELSE GivenUp(done[i - 1], t, q[i])]
  <2>1. \E f : G(f, N)
    BY <1>5
  <2> QED
    BY <2>1
<1> HIDE DEF done
<1>7. /\ done[0] = s
      /\ \A i \in 1 .. N : done[i] = GivenUp(done[i - 1], t, q[i])
  BY <1>1, <1>6
<1> QED
  BY <1>2, <1>7 DEF q, N

(* The active transaction gives up one of its buffers. *)
LEMMA GivenUpLinked ==
  ASSUME NEW s, Shaped(s), NEW a \in Trans, Linked(s, a, {}), NEW d \in Nat, Tally(s, a, d),
         NEW l \in ToSet(s.trans[a].bufq),
         NEW r, r = GivenUp(s, a, l)
  PROVE  /\ Shaped(r) /\ Linked(r, a, {}) /\ SameLog(s, r) /\ Tally(r, a, d + 1)
         /\ ToSet(r.trans[a].bufq) = ToSet(s.trans[a].bufq) \ {l}
<1> DEFINE u == Unlinked(s, a, l)
           v == WithBuf(u, l, NoBuf)
<1>1. l \in Home
  <2>1. s.trans[a].bufq \in Seq(Home)
    BY DEF Shaped, TransShaped
  <2> QED
    BY <2>1, MembersOf
<1>2. Shaped(u)
  BY <1>1, UnlinkedFields
<1>3. DOMAIN NoBuf = BufFields /\ NoBuf.endWrite = 0
  BY FieldNames DEF NoBuf
<1>4. r = RolledBack(v, a, l, FALSE)
  <2>1. v = [u EXCEPT !.buf[l] = NoBuf]
    BY DEF WithBuf
  <2> QED
    BY <2>1 DEF GivenUp
<1> HIDE DEF u
<1>5. /\ Shaped(v)
      /\ v.trans = u.trans /\ v.cpq = u.cpq /\ v.recq = u.recq /\ v.owner = u.owner
      /\ v.start = u.start /\ v.last = u.last /\ v.allocTid = u.allocTid
      /\ v.buf[l] = NoBuf
      /\ \A k \in Home \ {l} : v.buf[k] = u.buf[k]
  BY <1>1, <1>2, <1>3, WithBufFields
<1> HIDE DEF v
<1>6. SameLists(Unlinked(s, a, l), v, l)
  BY <1>5 DEF u, SameLists
<1>7. v.buf[l].endWrite = 0
  BY <1>3, <1>5
<1>8. /\ Shaped(r) /\ Linked(r, a, {}) /\ SameLog(s, r)
      /\ Len(r.trans[a].bufq) = Len(s.trans[a].bufq) - 1
      /\ ToSet(r.trans[a].bufq) = ToSet(s.trans[a].bufq) \ {l}
      /\ \A f \in TransFields \ {"bufq"} : r.trans[a][f] = s.trans[a][f]
      /\ \A x \in Trans \ {a} : r.trans[x] = s.trans[x]
  <2> DEFINE rv == FALSE
  <2>1. Shaped(v) /\ rv \in BOOLEAN /\ r = RolledBack(v, a, l, rv)
    BY <1>4, <1>5
  <2>2. Shaped(s) /\ a \in Trans /\ Linked(s, a, {}) /\ l \in ToSet(s.trans[a].bufq)
    OBVIOUS
  <2> HIDE DEF rv
  <2>3. Shaped(r) /\ Linked(r, a, {}) /\ SameLog(s, r) /\ GivenBack(s, v, r, a, l, rv)
    BY ONLY <1>6, <1>7, <2>1, <2>2, RolledBackLinked
  <2> QED
    BY <2>3 DEF GivenBack
<1>9. Tally(r, a, d + 1)
  <2>1. PICK n \in Nat, h \in Nat : n = s.trans[a].written /\ h = Len(s.trans[a].bufq)
    <3>1. s.trans[a].written \in Nat /\ s.trans[a].bufq \in Seq(Home)
      BY DEF Shaped, TransShaped
    <3> QED
      BY <3>1
  <2>2. s.trans[a].dataCnt = n + h + d
    BY <2>1 DEF Tally
  <2>3. r.trans[a].dataCnt = n + h + d /\ r.trans[a].written = n /\ Len(r.trans[a].bufq) = h - 1
    BY <1>8, <2>1, <2>2 DEF TransFields
  <2>4. r.trans[a].dataCnt = r.trans[a].written + Len(r.trans[a].bufq) + (d + 1)
    BY <2>3
  <2>5. ASSUME NEW x \in Trans, x # a
        PROVE r.trans[x].dataCnt = r.trans[x].written + Len(r.trans[x].bufq) + 0
    BY <1>8, <2>5 DEF Tally
  <2> QED
    BY <2>4, <2>5 DEF Tally
<1> QED
  BY <1>8, <1>9

(* The active transaction is freed when it has no buffer left. *)
LEMMA FreedActive ==
  ASSUME NEW s, Shaped(s), NEW a \in Trans, Linked(s, a, {}), NEW d, Tally(s, a, d),
         s.trans[a].bufq = <<>>,
         NEW r, r = Freed(s, {a})
  PROVE  /\ Shaped(r) /\ Linked(r, 0, {}) /\ Tally(r, 0, 0)
         /\ r.cpq = s.cpq /\ r.recq = s.recq /\ r.buf = s.buf
         /\ r.start = s.start /\ r.last = s.last /\ r.allocTid = s.allocTid
         /\ \A x \in Trans \ {a} : r.trans[x] = s.trans[x]
<1>1. /\ Shaped(r)
      /\ r.cpq = s.cpq /\ r.recq = s.recq /\ r.buf = s.buf
      /\ r.start = s.start /\ r.last = s.last /\ r.allocTid = s.allocTid
      /\ \A x \in Trans : r.trans[x] = IF x \in {a} THEN NoTrans ELSE s.trans[x]
      /\ \A l \in Home : r.owner[l] = IF s.owner[l] \in {a} THEN 0 ELSE s.owner[l]
  <2>1. Shaped(s) /\ {a} \in SUBSET Trans /\ r = Freed(s, {a})
    OBVIOUS
  <2> QED
    BY ONLY <2>1, FreedFields
<1>2. /\ ToSet(s.trans[a].bufq) = {} /\ ToSet(NoTrans.bufq) = {} /\ IsInjective(NoTrans.bufq)
      /\ NoTrans.bufq = <<>> /\ NoTrans.dataCnt = 0 /\ NoTrans.written = 0 /\ Len(NoTrans.bufq) = 0
  BY EmptySeq DEF NoTrans, ToSet, IsInjective
<1>3. /\ r.trans[a] = NoTrans
      /\ \A x \in Trans \ {a} : r.trans[x] = s.trans[x]
  BY <1>1
<1>0. /\ r.cpq = s.cpq /\ r.recq = s.recq /\ r.buf = s.buf
  BY <1>1
<1>4. \A l \in Home : s.recq[l] # <<>> => s.owner[l] # a /\ r.owner[l] = s.owner[l]
  <2> SUFFICES ASSUME NEW l \in Home, s.recq[l] # <<>> PROVE s.owner[l] # a
    BY <1>1
  <2>1. Last(s.recq[l]) \in ToSet(s.recq[l]) /\ a \notin ToSet(s.recq[l])
    BY <1>2, Records DEF Linked
  <2> QED
    BY <2>1 DEF Linked
<1>5. Linked(r, 0, {})
  <2>1. \A t \in Trans, l \in Home : l \in ToSet(r.trans[t].bufq) <=> t \in ToSet(r.recq[l])
    <3>1. ASSUME NEW t \in Trans, NEW l \in Home
          PROVE l \in ToSet(r.trans[t].bufq) <=> l \in ToSet(s.trans[t].bufq)
      BY <1>2, <1>3
    <3> QED
      BY <1>1, <3>1 DEF Linked
  <2>2. \A t \in Trans : IsInjective(r.trans[t].bufq)
    BY <1>2, <1>3 DEF Linked
  <2>3. \A l \in Home : IsInjective(r.recq[l])
    BY <1>0 DEF Linked
  <2>4. \A l \in Home : r.recq[l] # <<>> => r.owner[l] = Last(r.recq[l])
    <3>1. \A l \in Home : s.recq[l] # <<>> => s.owner[l] = Last(s.recq[l])
      BY DEF Linked
    <3> QED
      BY ONLY <1>0, <1>4, <3>1
  <2>5. \A l \in Home : r.buf[l].endWrite # 0 => r.buf[l].endWrite = r.owner[l] /\ r.recq[l] # <<>>
    <3>1. \A l \in Home : s.buf[l].endWrite # 0 => s.buf[l].endWrite = s.owner[l] /\ s.recq[l] # <<>>
      BY DEF Linked
    <3> QED
      BY ONLY <1>0, <1>4, <3>1
  <2>6. IsInjective(r.cpq) /\ 0 \notin ToSet(r.cpq)
    <3>1. r.cpq \in Seq(Trans)
      BY <1>1 DEF Shaped
    <3>2. ToSet(r.cpq) \subseteq Trans
      BY <3>1, MembersOf
    <3>3. 0 \notin Trans
      BY JournalAssumption DEF Trans
    <3> QED
      BY <1>0, <3>2, <3>3 DEF Linked
  <2>7. \A t \in Trans : t \notin ToSet(r.cpq) /\ t # 0 => r.trans[t] = NoTrans
    BY <1>1, <1>3 DEF Linked
  <2> QED
    BY <2>1, <2>2, <2>3, <2>4, <2>5, <2>6, <2>7 DEF Linked
<1>6. Tally(r, 0, 0)
  <2> SUFFICES ASSUME NEW t \in Trans PROVE r.trans[t].dataCnt = r.trans[t].written + Len(r.trans[t].bufq) + 0
    BY DEF Tally
  <2>1. CASE t = a
    BY <1>2, <1>3, <2>1
  <2>2. CASE t # a
    BY <1>3, <2>2 DEF Tally
  <2> QED
    BY <2>1, <2>2
<1> QED
  BY <1>1, <1>3, <1>5, <1>6

(* jbd_journal_free_trans(trans, true) keeps the invariant. *)
LEMMA AbortedLinked ==
  ASSUME NEW s, Shaped(s), NEW a \in Trans, Linked(s, a, {}), Tally(s, 0, 0),
         NEW r, r = Aborted(s, a)
  PROVE  /\ Shaped(r) /\ Linked(r, 0, {}) /\ Tally(r, 0, 0)
         /\ r.cpq = s.cpq /\ r.start = s.start /\ r.last = s.last /\ r.allocTid = s.allocTid
         /\ \A x \in Trans \ {a} : /\ r.trans[x].start = s.trans[x].start /\ r.trans[x].alloc = s.trans[x].alloc
                                   /\ r.trans[x].tid = s.trans[x].tid
<1> DEFINE q == s.trans[a].bufq
           N == Len(q)
<1>1. q \in Seq(Home) /\ IsInjective(q)
  BY DEF Shaped, TransShaped, Linked
<1>2. N \in Nat /\ DOMAIN q = 1 .. N
  BY <1>1
<1>3. PICK f : /\ f[0] = s
               /\ \A i \in 1 .. N : f[i] = GivenUp(f[i - 1], a, q[i])
               /\ r = Freed(f[N], {a})
  BY AbortedSteps
<1> HIDE DEF q, N
<1>4. /\ \A i, k \in 1 .. N : q[i] = q[k] => i = k
      /\ \A x : x \in ToSet(q) <=> \E i \in 1 .. N : q[i] = x
  BY <1>1, <1>2, MembersOf DEF IsInjective, N
<1> DEFINE P(v, i) == /\ Shaped(v) /\ Linked(v, a, {}) /\ SameLog(s, v) /\ Tally(v, a, i)
                      /\ \A x : x \in ToSet(v.trans[a].bufq) <=> \E k \in i + 1 .. N : q[k] = x
           S == {i \in 0 .. N : P(f[i], i)}
<1>5. P(s, 0)
  <2>1. ToSet(s.trans[a].bufq) = ToSet(q)
    BY DEF q
  <2>2. Tally(s, a, 0)
    BY DEF Tally
  <2>3. SameLog(s, s)
    BY DEF SameLog
  <2> QED
    BY <1>4, <2>1, <2>2, <2>3
<1>6. ASSUME NEW i \in 0 .. N - 1, P(f[i], i) PROVE P(f[i + 1], i + 1)
  <2> DEFINE v == f[i]
             w == f[i + 1]
             k == q[i + 1]
  <2>1. i \in Nat /\ i + 1 \in 1 .. N /\ (i + 1) - 1 = i
    BY <1>2
  <2>2. w = GivenUp(v, a, k)
    BY <1>3, <2>1
  <2>3. P(v, i)
    BY <1>6
  <2> HIDE DEF v, w
  <2>4. k \in ToSet(v.trans[a].bufq)
    BY <1>2, <2>1, <2>3
  <2>5. /\ Shaped(w) /\ Linked(w, a, {}) /\ SameLog(v, w) /\ Tally(w, a, i + 1)
        /\ ToSet(w.trans[a].bufq) = ToSet(v.trans[a].bufq) \ {k}
    <3>1. Shaped(v) /\ Linked(v, a, {}) /\ Tally(v, a, i)
      BY <2>3
    <3> HIDE DEF k
    <3> QED
      BY <2>1, <2>2, <2>4, <3>1, GivenUpLinked
  <2>6. ASSUME NEW x PROVE x \in ToSet(w.trans[a].bufq) <=> \E h \in (i + 1) + 1 .. N : q[h] = x
    <3>1. x \in ToSet(w.trans[a].bufq) <=> x # k /\ \E h \in i + 1 .. N : q[h] = x
      BY <2>3, <2>5
    <3>2. \A h \in i + 1 .. N : q[h] = k => h = i + 1
      BY <1>2, <1>4, <2>1
    <3>3. \A h \in (i + 1) + 1 .. N : q[h] # k /\ h \in i + 1 .. N
      BY <1>2, <1>4, <2>1
    <3>4. \A h \in i + 1 .. N : h # i + 1 => h \in (i + 1) + 1 .. N
      BY <1>2, <2>1
    <3> QED
      BY <3>1, <3>2, <3>3, <3>4
  <2>7. SameLog(s, w)
    BY <2>3, <2>5 DEF SameLog
  <2>8. P(w, i + 1)
    BY <2>5, <2>6, <2>7
  <2> QED
    BY <2>8 DEF w
<1> HIDE DEF P
<1>7. P(f[N], N)
  <2>1. 0 \in S
    BY <1>2, <1>3, <1>5
  <2>2. \A i \in 0 .. N - 1 : i \in S => i + 1 \in S
    BY <1>2, <1>6
  <2> HIDE DEF S
  <2>3. \A i \in 0 .. N : i \in S
    BY <1>2, <2>1, <2>2, UpTo
  <2> QED
    BY <1>2, <2>3 DEF S
<1> DEFINE v == f[N]
<1>8. Shaped(v) /\ Linked(v, a, {}) /\ SameLog(s, v) /\ Tally(v, a, N) /\ r = Freed(v, {a})
  BY <1>3, <1>7 DEF P
<1>9. v.trans[a].bufq = <<>>
  <2>1. v.trans[a].bufq \in Seq(Home)
    BY <1>8 DEF Shaped, TransShaped
  <2>2. \A x : x \notin ToSet(v.trans[a].bufq)
    BY <1>2, <1>7 DEF P
  <2> QED
    BY <2>1, <2>2, MembersOf
<1> HIDE DEF v
<1>10. /\ Shaped(r) /\ Linked(r, 0, {}) /\ Tally(r, 0, 0)
       /\ r.cpq = v.cpq /\ r.start = v.start /\ r.last = v.last /\ r.allocTid = v.allocTid
       /\ \A x \in Trans \ {a} : r.trans[x] = v.trans[x]
  BY <1>8, <1>9, FreedActive
<1> QED
  BY <1>8, <1>10 DEF SameLog

(* A transaction that is given up leaves the ring: the end of the log moves
   back to where the transaction started. *)
LEMMA RingUndone ==
  ASSUME NEW s, Shaped(s), NEW a \in Trans, a \notin ToSet(s.cpq), Ring(s, a), NEW m, Tids(s, m),
         NEW r, Shaped(r), r.cpq = s.cpq, r.start = s.start,
         r.last = IF s.trans[a].alloc > 0 THEN s.trans[a].start ELSE s.last,
         \A x \in Trans \ {a} : /\ r.trans[x].start = s.trans[x].start /\ r.trans[x].alloc = s.trans[x].alloc
                                /\ r.trans[x].tid = s.trans[x].tid
  PROVE  /\ Ring(r, 0) /\ Tids(r, m)
         /\ s.trans[a].alloc > 0 \/ Room(s, a) => Room(r, 0)
<1> DEFINE q == s.cpq
           N == Len(s.cpq)
<1>1. /\ N \in Nat /\ DOMAIN q = 1 .. N /\ q \in Seq(Trans)
      /\ \A i \in 1 .. N : q[i] \in Trans \ {a}
      /\ q = <<>> <=> N = 0
      /\ a # 0
      /\ s.trans[a].alloc \in Nat
  <2>1. q \in Seq(Trans)
    BY DEF Shaped
  <2>2. \A i \in 1 .. N : q[i] \in ToSet(q) /\ q[i] \in Trans
    BY <2>1, MembersOf
  <2>3. s.trans[a].alloc \in Nat
    BY DEF Shaped, TransShaped
  <2> QED
    BY <2>1, <2>2, <2>3, JournalAssumption DEF Trans
<1>2. \A i \in 1 .. N : /\ r.trans[q[i]].start = s.trans[q[i]].start /\ r.trans[q[i]].alloc = s.trans[q[i]].alloc
                        /\ r.trans[q[i]].tid = s.trans[q[i]].tid
  BY <1>1
<1>3. \A i \in 1 .. N : After(r, q[i]) = After(s, q[i])
  BY <1>2 DEF After
<1>4. InLog(r, 0) = q
  BY DEF InLog
<1>5. Tids(r, m)
  BY <1>1, <1>2, SMTT(20) DEF Tids
<1>6. CASE s.trans[a].alloc = 0
  <2>1. InLog(s, a) = q /\ r.last = s.last
    BY <1>6 DEF InLog
  <2>2. Ring(r, 0)
    <3>1. \A i \in 1 .. N - 1 : i \in 1 .. N /\ i + 1 \in 1 .. N
      BY <1>1
    <3>2. N > 0 => 1 \in 1 .. N /\ N \in 1 .. N
      BY <1>1
    <3>3. r.start \in 1 .. JSize /\ r.last \in 1 .. JSize
      BY <2>1 DEF Ring
    <3>4. \A i \in 1 .. N : r.trans[q[i]].start \in 1 .. JSize /\ r.trans[q[i]].alloc \in 1 .. JSize
      BY <1>2, <2>1 DEF Ring
    <3>5. q # <<>> => r.trans[q[1]].start = r.start
      BY <1>1, <1>2, <2>1, <3>2 DEF Ring
    <3>6. \A i \in 1 .. N - 1 : r.trans[q[i + 1]].start = After(r, q[i])
      <4>1. \A i \in 1 .. N - 1 : s.trans[q[i + 1]].start = After(s, q[i])
        BY <2>1 DEF Ring
      <4> HIDE DEF q, N
      <4> QED
        BY <1>2, <1>3, <3>1, <4>1
    <3>7. \A i, k \in 1 .. N : i < k =>
            Off(r.start, r.trans[q[i]].start) + r.trans[q[i]].alloc <= Off(r.start, r.trans[q[k]].start)
      BY <1>2, <2>1 DEF Ring
    <3>8. r.last = IF q = <<>> THEN r.start ELSE After(r, q[N])
      BY <1>1, <1>3, <2>1, <3>2 DEF Ring
    <3>9. q # <<>> => Off(r.start, r.trans[q[N]].start) + r.trans[q[N]].alloc <= JSize
      BY <1>1, <1>2, <2>1, <3>2 DEF Ring
    <3> QED
      BY <1>4, <3>3, <3>4, <3>5, <3>6, <3>7, <3>8, <3>9 DEF Ring
  <2> QED
    BY <1>4, <1>5, <1>6, <2>1, <2>2 DEF Room
<1>7. CASE s.trans[a].alloc > 0
  <2> DEFINE p == InLog(s, a)
  <2>1. /\ p = Append(q, a) /\ Len(p) = N + 1 /\ p[N + 1] = a /\ p # <<>>
        /\ \A i \in 1 .. N : p[i] = q[i]
    <3>1. p = Append(q, a)
      BY <1>1, <1>7 DEF InLog
    <3>2. q \in Seq(Trans)
      BY <1>1
    <3> QED
      BY <3>1, <3>2, AppendOnce
  <2>2. r.last = s.trans[a].start
    BY <1>7
  <2>3. s.trans[a].start \in 1 .. JSize /\ s.start \in 1 .. JSize
    <3>1. N + 1 \in 1 .. Len(p)
      BY <1>1, <2>1
    <3> QED
      BY <2>1, <3>1 DEF Ring
  <2>4. /\ \A i \in 1 .. N : s.trans[q[i]].start \in 1 .. JSize /\ s.trans[q[i]].alloc \in 1 .. JSize
        /\ s.trans[p[1]].start = s.start
        /\ \A i \in 1 .. N - 1 : s.trans[q[i + 1]].start = After(s, q[i])
        /\ N > 0 => s.trans[a].start = After(s, q[N])
        /\ \A i, k \in 1 .. N : i < k =>
             Off(s.start, s.trans[q[i]].start) + s.trans[q[i]].alloc <= Off(s.start, s.trans[q[k]].start)
        /\ \A i \in 1 .. N : Off(s.start, s.trans[q[i]].start) + s.trans[q[i]].alloc <= Off(s.start, s.trans[a].start)
    <3>1. ASSUME NEW i \in 1 .. N
          PROVE i \in 1 .. Len(p) /\ i \in 1 .. Len(p) - 1 /\ i < N + 1 /\ N + 1 \in 1 .. Len(p)
      BY <1>1, <2>1
    <3>2. \A i \in 1 .. N : s.trans[q[i]].start \in 1 .. JSize /\ s.trans[q[i]].alloc \in 1 .. JSize
      BY <2>1, <3>1 DEF Ring
    <3>3. s.trans[p[1]].start = s.start
      BY <2>1 DEF Ring
    <3>4. \A i \in 1 .. N - 1 : s.trans[q[i + 1]].start = After(s, q[i])
      <4>1. ASSUME NEW i \in 1 .. N - 1 PROVE i \in 1 .. N /\ i + 1 \in 1 .. N
        BY <1>1
      <4> QED
        BY <2>1, <3>1, <4>1 DEF Ring
    <3>5. N > 0 => s.trans[a].start = After(s, q[N])
      <4>1. N > 0 => N \in 1 .. N
        BY <1>1
      <4> QED
        BY <2>1, <3>1, <4>1 DEF Ring
    <3>6. \A i, k \in 1 .. N : i < k =>
             Off(s.start, s.trans[q[i]].start) + s.trans[q[i]].alloc <= Off(s.start, s.trans[q[k]].start)
      BY <2>1, <3>1 DEF Ring
    <3>7. \A i \in 1 .. N : Off(s.start, s.trans[q[i]].start) + s.trans[q[i]].alloc <= Off(s.start, s.trans[a].start)
      BY <2>1, <3>1 DEF Ring
    <3> QED
      BY <3>2, <3>3, <3>4, <3>5, <3>6, <3>7
  <2>5. Off(s.start, s.trans[a].start) \in 0 .. JSize - 1 /\ Off(s.start, s.start) = 0
    BY <2>3, OffShift
  <2>6. N > 0 => s.trans[q[1]].start = s.start /\ 1 \in 1 .. N /\ N \in 1 .. N
    BY <1>1, <2>1, <2>4
  <2>7. N = 0 => r.last = r.start
    BY <1>1, <2>1, <2>2, <2>4
  <2>8. N > 0 => r.last # r.start
    <3> SUFFICES ASSUME N > 0 PROVE s.trans[a].start # s.start
      BY <2>2
    <3>1. Off(s.start, s.trans[q[1]].start) + s.trans[q[1]].alloc <= Off(s.start, s.trans[a].start)
      BY <2>4, <2>6
    <3>2. s.trans[q[1]].start = s.start /\ s.trans[q[1]].alloc \in 1 .. JSize
      BY <2>4, <2>6
    <3> QED
      BY <2>5, <3>1, <3>2, LogAssumption
  <2>9. N > 0 => Off(s.start, s.trans[q[N]].start) + s.trans[q[N]].alloc <= JSize
    <3> SUFFICES ASSUME N > 0 PROVE Off(s.start, s.trans[q[N]].start) + s.trans[q[N]].alloc <= JSize
      OBVIOUS
    <3>1. Off(s.start, s.trans[q[N]].start) + s.trans[q[N]].alloc <= Off(s.start, s.trans[a].start)
      BY <2>4, <2>6
    <3>2. Off(s.start, s.trans[q[N]].start) \in Int /\ s.trans[q[N]].alloc \in Int
      <4>1. s.trans[q[N]].start \in 1 .. JSize /\ s.trans[q[N]].alloc \in 1 .. JSize
        BY <2>4, <2>6
      <4> QED
        BY <2>3, <4>1, LogAssumption DEF Off
    <3> QED
      BY <2>5, <3>1, <3>2, LogAssumption
  <2> HIDE DEF p
  <2>10. r.last = IF q = <<>> THEN r.start ELSE After(r, q[N])
    BY <1>1, <1>3, <2>2, <2>4, <2>6, <2>7
  <2>11. r.start \in 1 .. JSize /\ r.last \in 1 .. JSize
    BY <2>2, <2>3
  <2>12. \A i \in 1 .. N - 1 : i \in 1 .. N /\ i + 1 \in 1 .. N
    BY <1>1
  <2>13. \A i \in 1 .. N : r.trans[q[i]].start \in 1 .. JSize /\ r.trans[q[i]].alloc \in 1 .. JSize
    BY <1>2, <2>4
  <2>14. \A i \in 1 .. N - 1 : r.trans[q[i + 1]].start = After(r, q[i])
    BY <1>2, <1>3, <2>4, <2>12
  <2>15. \A i, k \in 1 .. N : i < k =>
           Off(r.start, r.trans[q[i]].start) + r.trans[q[i]].alloc <= Off(r.start, r.trans[q[k]].start)
    BY <1>2, <2>4
  <2>16. q # <<>> => Off(r.start, r.trans[q[N]].start) + r.trans[q[N]].alloc <= JSize
    BY <1>1, <1>2, <2>6, <2>9
  <2>17. q # <<>> => r.trans[q[1]].start = r.start
    BY <1>1, <1>2, <2>6
  <2>18. Ring(r, 0)
    BY <1>4, <2>10, <2>11, <2>13, <2>14, <2>15, <2>16, <2>17 DEF Ring
  <2>19. Room(r, 0)
    BY <1>1, <1>4, <2>8 DEF Room
  <2> QED
    BY <1>5, <2>18, <2>19
<1> QED
  BY <1>1, <1>6, <1>7

(* Transaction t becomes v. *)
WithTrans(s, t, v) == [s EXCEPT !.trans = [s.trans EXCEPT ![t] = v]]

LEMMA WithTransFields ==
  ASSUME NEW s, Shaped(s), NEW t \in Trans, NEW v, TransShaped(v),
         NEW r, r = WithTrans(s, t, v)
  PROVE  /\ Shaped(r)
         /\ r.cpq = s.cpq /\ r.recq = s.recq /\ r.owner = s.owner /\ r.buf = s.buf
         /\ r.start = s.start /\ r.last = s.last /\ r.allocTid = s.allocTid
         /\ r.trans[t] = v
         /\ \A x \in Trans \ {t} : r.trans[x] = s.trans[x]
<1>1. DOMAIN s = JournalFields
  BY FieldNames DEF Shaped
<1>2. /\ r.cpq = s.cpq /\ r.recq = s.recq /\ r.owner = s.owner /\ r.buf = s.buf
      /\ r.start = s.start /\ r.last = s.last /\ r.allocTid = s.allocTid
      /\ r.trans = [s.trans EXCEPT ![t] = v]
      /\ DOMAIN r = DOMAIN s
  BY <1>1 DEF WithTrans, JournalFields
<1>3. /\ r.trans[t] = v
      /\ \A x \in Trans \ {t} : r.trans[x] = s.trans[x]
      /\ DOMAIN r.trans = Trans
  BY <1>2 DEF Shaped
<1>4. Shaped(r)
  BY <1>2, <1>3 DEF Shaped
<1> QED
  BY <1>2, <1>3, <1>4

(* jbd_trans_finish_callback and jbd_journal_prepare: a jbd_buf leaves the
   transaction without being counted. *)
Uncounted(s, t) == WithTrans(s, t, [s.trans[t] EXCEPT !.dataCnt = s.trans[t].dataCnt - 1])

LEMMA UncountedFields ==
  ASSUME NEW s, Shaped(s), NEW t \in Trans, NEW r, r = Uncounted(s, t)
  PROVE  /\ Shaped(r)
         /\ r.cpq = s.cpq /\ r.recq = s.recq /\ r.owner = s.owner /\ r.buf = s.buf
         /\ r.start = s.start /\ r.last = s.last /\ r.allocTid = s.allocTid
         /\ r.trans[t].dataCnt = s.trans[t].dataCnt - 1
         /\ \A f \in TransFields \ {"dataCnt"} : r.trans[t][f] = s.trans[t][f]
         /\ \A x \in Trans \ {t} : r.trans[x] = s.trans[x]
<1> DEFINE v == [s.trans[t] EXCEPT !.dataCnt = s.trans[t].dataCnt - 1]
<1>1. TransShaped(s.trans[t]) /\ DOMAIN s.trans[t] = TransFields
  BY FieldNames DEF Shaped, TransShaped
<1>2. /\ v.dataCnt = s.trans[t].dataCnt - 1
      /\ \A f \in TransFields \ {"dataCnt"} : v[f] = s.trans[t][f]
      /\ DOMAIN v = TransFields
  BY <1>1 DEF TransFields
<1>3. s.trans[t].dataCnt - 1 \in Int
  BY <1>1 DEF TransShaped
<1>4. r = WithTrans(s, t, v)
  BY DEF Uncounted
<1> HIDE DEF v
<1>5. TransShaped(v)
  BY <1>1, <1>2, <1>3, FieldNames DEF TransShaped, TransFields
<1> QED
  BY <1>2, <1>4, <1>5, WithTransFields

(* A buffer that is not dirty leaves the active transaction. *)
LEMMA DropCleanSound ==
  ASSUME NEW s, cur \in Trans, NEW m, Sound(s, cur, {}, 0, 0, m), NEW l \in ToSet(s.trans[cur].bufq),
         NEW r, r = DropClean(s, l)
  PROVE  /\ Sound(r, cur, {}, 0, 0, m) /\ SameLog(s, r)
         /\ ToSet(r.trans[cur].bufq) = ToSet(s.trans[cur].bufq) \ {l}
         /\ \A k \in Home \ {l} : r.buf[k] = s.buf[k]
<1> DEFINE u == Unlinked(s, cur, l)
           v == Unreported(u, l)
           rv == l \in s.trans[cur].revoke
           w == RolledBack(v, cur, l, rv)
<1>1. Shaped(s) /\ Linked(s, cur, {}) /\ Tally(s, 0, 0) /\ Ring(s, cur) /\ Tids(s, m) /\ cur \in 0 .. MaxTrans
  BY DEF Sound
<1>2. l \in Home
  <2>1. s.trans[cur].bufq \in Seq(Home)
    BY <1>1 DEF Shaped, TransShaped
  <2> QED
    BY <2>1, MembersOf
<1>3. Shaped(u)
  BY <1>1, <1>2, UnlinkedFields
<1>4. r = [w EXCEPT !.trans[cur].dataCnt = @ - 1]
  BY DEF DropClean, Unreported
<1>5. r = Uncounted(w, cur)
  BY <1>4 DEF Uncounted, WithTrans
<1> HIDE DEF u
<1>6. /\ Shaped(v) /\ v.buf[l].endWrite = 0
      /\ v.trans = u.trans /\ v.cpq = u.cpq /\ v.recq = u.recq /\ v.owner = u.owner
      /\ v.start = u.start /\ v.last = u.last /\ v.allocTid = u.allocTid
      /\ \A k \in Home \ {l} : v.buf[k] = u.buf[k]
  BY <1>2, <1>3, UnreportedFields
<1>7. rv \in BOOLEAN
  OBVIOUS
<1> HIDE DEF v, rv
<1>8. SameLists(Unlinked(s, cur, l), v, l)
  BY <1>6 DEF SameLists, u
<1>9. w = RolledBack(v, cur, l, rv)
  OBVIOUS
<1> HIDE DEF w
<1>10. Shaped(w) /\ Linked(w, cur, {}) /\ SameLog(s, w) /\ GivenBack(s, v, w, cur, l, rv)
  <2>1. Shaped(s) /\ cur \in Trans /\ Linked(s, cur, {}) /\ l \in ToSet(s.trans[cur].bufq) /\ Shaped(v) /\ v.buf[l].endWrite = 0
    BY <1>1, <1>6
  <2> QED
    BY ONLY <1>7, <1>8, <1>9, <2>1, RolledBackLinked
<1>11. /\ Len(w.trans[cur].bufq) = Len(s.trans[cur].bufq) - 1
       /\ ToSet(w.trans[cur].bufq) = ToSet(s.trans[cur].bufq) \ {l}
       /\ \A f \in TransFields \ {"bufq"} : w.trans[cur][f] = s.trans[cur][f]
       /\ \A x \in Trans \ {cur} : w.trans[x] = s.trans[x]
       /\ \A k \in Home \ {l} : w.buf[k] = s.buf[k]
  BY <1>10 DEF GivenBack
<1>12. /\ Shaped(r)
       /\ r.cpq = w.cpq /\ r.recq = w.recq /\ r.owner = w.owner /\ r.buf = w.buf
       /\ r.start = w.start /\ r.last = w.last /\ r.allocTid = w.allocTid
       /\ r.trans[cur].dataCnt = w.trans[cur].dataCnt - 1
       /\ \A f \in TransFields \ {"dataCnt"} : r.trans[cur][f] = w.trans[cur][f]
       /\ \A x \in Trans \ {cur} : r.trans[x] = w.trans[x]
  BY <1>5, <1>10, UncountedFields
<1>13. /\ r.trans[cur].bufq = w.trans[cur].bufq /\ r.trans[cur].written = w.trans[cur].written
       /\ r.trans[cur].start = w.trans[cur].start /\ r.trans[cur].alloc = w.trans[cur].alloc
       /\ r.trans[cur].tid = w.trans[cur].tid /\ r.trans[cur].revoke = w.trans[cur].revoke
  BY <1>12 DEF TransFields
<1>14. SameLog(w, r)
  BY <1>12, <1>13 DEF SameLog
<1>15. SameLog(s, r)
  BY <1>10, <1>14 DEF SameLog
<1>16. Ring(r, cur) /\ Tids(r, m)
  BY <1>1, <1>15, SameLogRing
<1>17. \A t \in Trans : r.trans[t].bufq = w.trans[t].bufq
  BY <1>12, <1>13
<1>18. Linked(r, cur, {})
  <2>1. \A t \in Trans : t \notin ToSet(r.cpq) /\ t # cur => r.trans[t] = NoTrans
    BY <1>10, <1>12 DEF Linked
  <2> QED
    BY <1>10, <1>12, <1>17, <2>1 DEF Linked
<1>19. Tally(r, 0, 0)
  <2>1. PICK n \in Nat, h \in Nat : n = s.trans[cur].written /\ h = Len(s.trans[cur].bufq)
    <3>1. s.trans[cur].written \in Nat /\ s.trans[cur].bufq \in Seq(Home)
      BY <1>1 DEF Shaped, TransShaped
    <3> QED
      BY <3>1
  <2>2. s.trans[cur].dataCnt = n + h
    BY <1>1, <2>1 DEF Tally
  <2>3. w.trans[cur].dataCnt = n + h /\ w.trans[cur].written = n
    BY <1>11, <2>1, <2>2 DEF TransFields
  <2>4. r.trans[cur].dataCnt = n + h - 1 /\ r.trans[cur].written = n /\ Len(r.trans[cur].bufq) = h - 1
    <3>1. r.trans[cur].dataCnt = n + h - 1
      BY <1>12, <2>3
    <3>2. r.trans[cur].written = n
      BY <1>13, <2>3
    <3>3. Len(r.trans[cur].bufq) = h - 1
      BY <1>11, <1>13, <2>1
    <3> QED
      BY <3>1, <3>2, <3>3
  <2>5. r.trans[cur].dataCnt = r.trans[cur].written + Len(r.trans[cur].bufq) + 0
    BY <2>4
  <2>6. ASSUME NEW x \in Trans, x # cur
        PROVE r.trans[x].dataCnt = r.trans[x].written + Len(r.trans[x].bufq) + 0
    BY <1>1, <1>11, <1>12, <2>6 DEF Tally
  <2> QED
    BY <2>5, <2>6 DEF Tally
<1> QED
  BY <1>1, <1>11, <1>12, <1>13, <1>15, <1>16, <1>18, <1>19 DEF Sound

(* The loop from the tail of the queue. *)
LEMMA TailDroppedSteps ==
  ASSUME NEW s, Shaped(s), cur \in Trans
  PROVE  LET q == s.trans[cur].bufq
             N == Len(q)
         IN \E f : /\ f[0] = s
                   /\ \A i \in 1 .. N : f[i] = DropClean(f[i - 1], q[N + 1 - i])
                   /\ \E h \in 0 .. N : TailDropped(s) = f[h]
<1> DEFINE q == s.trans[cur].bufq
           N == Len(q)
           G(f, n) == f = [i \in 0 .. n |-> IF i = 0 THEN s ELSE DropClean(f[i - 1], q[Len(q) + 1 - i])]
           S == {n \in 0 .. N : \E f : G(f, n)}
           done[i \in 0 .. N] == IF i = 0 THEN s ELSE DropClean(done[i - 1], q[Len(q) + 1 - i])
<1>1. N \in Nat
  BY DEF Shaped, TransShaped
<1>2. PICK h \in 0 .. N : TailDropped(s) = done[h]
  <2> DEFINE Q(n) == /\ \A i \in n + 1 .. Len(q) : ~s.buf[q[i]].dirty
                     /\ n > 0 => s.buf[q[n]].dirty
             m == CHOOSE n \in 0 .. Len(q) : Q(n)
  <2>1. \E n \in 0 .. Len(q) : Q(n)
    <3> DEFINE K == {n \in 0 .. Len(q) : \A i \in n + 1 .. Len(q) : ~s.buf[q[i]].dirty}
               k == Min(K)
    <3>1. K \in SUBSET Nat /\ Len(q) \in K
      <4>1. Len(q) \in 0 .. Len(q) /\ Len(q) + 1 .. Len(q) = {}
        BY <1>1
      <4>2. K \in SUBSET Nat
        OBVIOUS
      <4> QED
        BY <4>1, <4>2
    <3> HIDE DEF K
    <3>2. k \in K /\ \A i \in K : k <= i
      BY <3>1, LeastNatural
    <3> HIDE DEF k
    <3>3. k \in 0 .. Len(q) /\ \A i \in k + 1 .. Len(q) : ~s.buf[q[i]].dirty
      BY <3>2 DEF K
    <3>4. k > 0 => s.buf[q[k]].dirty
      <4> SUFFICES ASSUME k > 0, ~s.buf[q[k]].dirty PROVE FALSE
        OBVIOUS
      <4>1. k - 1 \in 0 .. Len(q) /\ \A i \in (k - 1) + 1 .. Len(q) : i = k \/ i \in k + 1 .. Len(q)
        BY <1>1, <3>3
      <4>2. k - 1 \in K
        BY <3>3, <4>1 DEF K
      <4> QED
        BY <1>1, <3>2, <3>3, <4>2
    <3> QED
      BY <3>3, <3>4
  <2>2. TailDropped(s) = done[Len(q) - m]
    BY DEF TailDropped
  <2> HIDE DEF Q, done
  <2>3. m \in 0 .. Len(q)
    BY <2>1
  <2> HIDE DEF m
  <2>4. Len(q) - m \in 0 .. N
    BY <1>1, <2>3
  <2> QED
    BY <2>2, <2>4
<1> HIDE DEF q, N
<1>3. 0 \in S
  <2>1. G([i \in 0 .. 0 |-> s], 0)
    OBVIOUS
  <2>2. 0 \in 0 .. N
    BY <1>1
  <2> HIDE DEF G
  <2> QED
    BY <2>1, <2>2
<1>4. ASSUME NEW n \in 0 .. N - 1, n \in S PROVE n + 1 \in S
  <2>1. PICK f : G(f, n)
    BY <1>4
  <2> DEFINE g == [i \in 0 .. n + 1 |-> IF i <= n THEN f[i] ELSE DropClean(f[n], q[Len(q) + 1 - (n + 1)])]
  <2>2. ASSUME NEW i \in 0 .. n + 1 PROVE g[i] = IF i = 0 THEN s ELSE DropClean(g[i - 1], q[Len(q) + 1 - i])
    <3>1. CASE i = 0
      BY <2>1, <3>1, <1>1
    <3>2. CASE i \in 1 .. n
      <4>1. g[i] = f[i] /\ g[i - 1] = f[i - 1] /\ i \in 0 .. n
        BY <3>2, <1>1
      <4> QED
        BY <2>1, <3>2, <4>1
    <3>3. CASE i = n + 1
      <4>1. g[i - 1] = f[n] /\ g[i] = DropClean(f[n], q[Len(q) + 1 - (n + 1)]) /\ i # 0
        BY <3>3, <1>1
      <4> QED
        BY <3>3, <4>1
    <3> QED
      BY <3>1, <3>2, <3>3, <1>1
  <2>3. G(g, n + 1)
    <3>1. DOMAIN g = 0 .. n + 1
      OBVIOUS
    <3>2. g = [i \in 0 .. n + 1 |-> g[i]]
      OBVIOUS
    <3> HIDE DEF g
    <3> QED
      BY <2>2, <3>2
  <2>4. n + 1 \in 0 .. N
    BY <1>1
  <2> HIDE DEF g, G
  <2> QED
    BY <2>3, <2>4
<1>5. N \in S
  <2> HIDE DEF S
  <2>1. \A k \in 0 .. N - 1 : k \in S => k + 1 \in S
    BY <1>4
  <2>2. \A k \in 0 .. N : k \in S
    BY <1>1, <1>3, <2>1, UpTo
  <2> QED
    BY <1>1, <2>2
<1>6. done = [i \in 0 .. N |-> IF i = 0 THEN s ELSE DropClean(done[i - 1], q[Len(q) + 1 - i])]
  <2>1. \E f : G(f, N)
    BY <1>5
  <2> QED
    BY <2>1
<1> HIDE DEF done
<1>7. /\ done[0] = s
      /\ \A i \in 1 .. N : done[i] = DropClean(done[i - 1], q[Len(q) + 1 - i])
  BY <1>1, <1>6
<1> QED
  BY <1>2, <1>7 DEF q, N

LEMMA TailDroppedSound ==
  ASSUME NEW s, cur \in Trans, NEW m, Sound(s, cur, {}, 0, 0, m),
         NEW r, r = TailDropped(s)
  PROVE  Sound(r, cur, {}, 0, 0, m) /\ SameLog(s, r)
<1> DEFINE q == s.trans[cur].bufq
           N == Len(q)
<1>0. Shaped(s)
  BY DEF Sound
<1>1. q \in Seq(Home) /\ IsInjective(q)
  BY DEF Sound, Shaped, TransShaped, Linked
<1>2. N \in Nat /\ DOMAIN q = 1 .. N
  BY <1>1
<1>3. PICK f : /\ f[0] = s
               /\ \A i \in 1 .. N : f[i] = DropClean(f[i - 1], q[N + 1 - i])
               /\ \E h \in 0 .. N : r = f[h]
  BY <1>0, TailDroppedSteps
<1> HIDE DEF q, N
<1>4. /\ \A i, k \in 1 .. N : q[i] = q[k] => i = k
      /\ \A x : x \in ToSet(q) <=> \E i \in 1 .. N : q[i] = x
  BY <1>1, <1>2, MembersOf DEF IsInjective, N
<1> DEFINE P(v, i) == /\ Sound(v, cur, {}, 0, 0, m) /\ SameLog(s, v)
                      /\ \A x : x \in ToSet(v.trans[cur].bufq) <=> \E k \in 1 .. N - i : q[k] = x
           S == {i \in 0 .. N : P(f[i], i)}
<1>5. P(s, 0)
  <2>1. ToSet(s.trans[cur].bufq) = ToSet(q)
    BY DEF q
  <2>2. SameLog(s, s)
    BY DEF SameLog
  <2>3. N - 0 = N
    BY <1>2
  <2> QED
    BY <1>4, <2>1, <2>2, <2>3
<1>6. ASSUME NEW i \in 0 .. N - 1, P(f[i], i) PROVE P(f[i + 1], i + 1)
  <2> DEFINE v == f[i]
             w == f[i + 1]
             k == q[N - i]
  <2>1. i \in Nat /\ i + 1 \in 1 .. N /\ (i + 1) - 1 = i /\ N - i \in 1 .. N /\ N + 1 - (i + 1) = N - i
    BY <1>2
  <2>2. w = DropClean(v, k)
    BY <1>3, <2>1
  <2>3. P(v, i)
    BY <1>6
  <2> HIDE DEF v, w
  <2>4. k \in ToSet(v.trans[cur].bufq)
    <3>1. N - i \in 1 .. N - i
      BY <1>2, <2>1
    <3> QED
      BY <2>3, <3>1
  <2>5. /\ Sound(w, cur, {}, 0, 0, m) /\ SameLog(v, w)
        /\ ToSet(w.trans[cur].bufq) = ToSet(v.trans[cur].bufq) \ {k}
    <3>1. Sound(v, cur, {}, 0, 0, m)
      BY <2>3
    <3> HIDE DEF k
    <3> QED
      BY <2>2, <2>4, <3>1, DropCleanSound
  <2>6. ASSUME NEW x PROVE x \in ToSet(w.trans[cur].bufq) <=> \E h \in 1 .. N - (i + 1) : q[h] = x
    <3>1. x \in ToSet(w.trans[cur].bufq) <=> x # k /\ \E h \in 1 .. N - i : q[h] = x
      BY <2>3, <2>5
    <3>2. \A h \in 1 .. N - i : q[h] = k => h = N - i
      BY <1>2, <1>4, <2>1
    <3>3. \A h \in 1 .. N - (i + 1) : q[h] # k /\ h \in 1 .. N - i
      BY <1>2, <1>4, <2>1
    <3>4. \A h \in 1 .. N - i : h # N - i => h \in 1 .. N - (i + 1)
      BY <1>2, <2>1
    <3> QED
      BY <3>1, <3>2, <3>3, <3>4
  <2>7. SameLog(s, w)
    BY <2>3, <2>5 DEF SameLog
  <2>8. P(w, i + 1)
    BY <2>5, <2>6, <2>7
  <2> QED
    BY <2>8 DEF w
<1> HIDE DEF P
<1>7. \A i \in 0 .. N : P(f[i], i)
  <2>1. 0 \in S
    BY <1>2, <1>3, <1>5
  <2>2. \A i \in 0 .. N - 1 : i \in S => i + 1 \in S
    BY <1>2, <1>6
  <2> HIDE DEF S
  <2>3. \A i \in 0 .. N : i \in S
    BY <1>2, <2>1, <2>2, UpTo
  <2> QED
    BY <1>2, <2>3 DEF S
<1> QED
  BY <1>3, <1>7 DEF P
=============================================================================
