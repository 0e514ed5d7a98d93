---------------------------- MODULE JournalProofs ----------------------------
(***************************************************************************)
(* Proofs about Journal: the transactions, the block records, the          *)
(* checkpoint queue and the log of struct jbd_journal agree with each      *)
(* other at every step.  The inductive invariant is IInv, defined before   *)
(* the proofs about actions; it says that the state of the journal is      *)
(* Sound, which the operators of the model preserve one by one, and that   *)
(* what a call keeps in its local variables is still there.                *)
(***************************************************************************)
EXTENDS JournalRecords

-----------------------------------------------------------------------------
(* The operators of a commit, of a flush and of a new transaction. *)

(* jbd_journal_commit_trans: a buffer of a revoked block counts as written. *)
LEMMA OvertakenSound ==
  ASSUME NEW s, NEW a, NEW m, Sound(s, a, {}, 0, 0, m), NEW l \in Home,
         NEW r, r = Overtaken(s, l)
  PROVE  Sound(r, a, {}, 0, 0, m) /\ Frame(s, r, a)
<1>1. CASE s.owner[l] = 0 \/ s.recq[l] = <<>>
  BY <1>1, FrameReflexive DEF Overtaken
<1>2. CASE s.owner[l] # 0 /\ s.recq[l] # <<>>
  <2> DEFINE t == Last(s.recq[l])
  <2>1. s.recq[l] \in Seq(Trans)
    BY DEF Sound, Shaped
  <2>2. t \in Trans /\ t \in ToSet(s.recq[l])
    BY <1>2, <2>1, MembersOf
  <2>3. r = EndWrite(s, t, l)
    BY <1>2 DEF Overtaken
  <2> HIDE DEF t
  <2> QED
    BY <2>2, <2>3, EndWriteSound
<1> QED
  BY <1>1, <1>2

LEMMA RevokedDoneSteps ==
  ASSUME NEW s, Shaped(s), cur \in Trans
  PROVE  LET R == s.trans[cur].revoke
         IN \E N \in Nat : \E f :
              /\ f[0] = s
              /\ \A i \in 1 .. N : f[i] = IF i - 1 \in R THEN Overtaken(f[i - 1], i - 1) ELSE f[i - 1]
              /\ RevokedDone(s) = f[N]
<1> DEFINE R == s.trans[cur].revoke
           N == IF R = {} THEN 0 ELSE Max(R) + 1
           G(f, n) == f = [i \in 0 .. n |-> IF i = 0 THEN s
                                            ELSE IF i - 1 \in R THEN Overtaken(f[i - 1], i - 1) ELSE f[i - 1]]
           S == {n \in 0 .. N : \E f : G(f, n)}
           done[i \in 0 .. N] == IF i = 0 THEN s
                                 ELSE IF i - 1 \in R THEN Overtaken(done[i - 1], i - 1) ELSE done[i - 1]
<1>1. N \in Nat
  <2>1. R \in SUBSET Home
    BY DEF Shaped, TransShaped
  <2>2. IsFiniteSet(R) /\ R \in SUBSET Nat
    BY <2>1, LogAssumption, JournalAssumption, FS_Subset
  <2> HIDE DEF R
  <2>3. R # {} => Max(R) \in Nat
    BY <2>2, FiniteNaturals
  <2> QED
    BY <2>3
<1>2. RevokedDone(s) = done[N]
  BY DEF RevokedDone
<1> HIDE DEF R, N
<1>3. 0 \in S
  <2>1. G([i \in 0 .. 0 |-> s], 0)
    OBVIOUS
  <2>2. 0 \in 0 .. N
    BY <1>1
  <2> HIDE DEF G
  <2> QED
    BY <2>1, <2>2
<1>4. ASSUME NEW n \in 0 .. N - 1, n \in S PROVE n + 1 \in S
  <2>1. PICK f : G(f, n)
    BY <1>4
  <2> DEFINE g == [i \in 0 .. n + 1 |-> IF i <= n THEN f[i] ELSE IF n \in R THEN Overtaken(f[n], n) ELSE f[n]]
  <2>2. ASSUME NEW i \in 0 .. n + 1
        PROVE g[i] = IF i = 0 THEN s ELSE IF i - 1 \in R THEN Overtaken(g[i - 1], i - 1) ELSE g[i - 1]
    <3>1. CASE i = 0
      BY <2>1, <3>1, <1>1
    <3>2. CASE i \in 1 .. n
      <4>1. g[i] = f[i] /\ g[i - 1] = f[i - 1] /\ i \in 0 .. n
        BY <3>2, <1>1
      <4> QED
        BY <2>1, <3>2, <4>1
    <3>3. CASE i = n + 1
      <4>1. g[i - 1] = f[n] /\ g[i] = (IF n \in R THEN Overtaken(f[n], n) ELSE f[n]) /\ i # 0 /\ i - 1 = n
        BY <3>3, <1>1
      <4> HIDE DEF g
      <4> QED
        BY <4>1
    <3> QED
      BY <3>1, <3>2, <3>3, <1>1
  <2>3. G(g, n + 1)
    <3>2. g = [i \in 0 .. n + 1 |-> g[i]]
      OBVIOUS
    <3> HIDE DEF g
    <3> QED
      BY <2>2, <3>2
  <2>4. n + 1 \in 0 .. N
    BY <1>1
  <2> HIDE DEF g, G
  <2> QED
    BY <2>3, <2>4
<1>5. N \in S
  <2> HIDE DEF S
  <2>1. \A k \in 0 .. N - 1 : k \in S => k + 1 \in S
    BY <1>4
  <2>2. \A k \in 0 .. N : k \in S
    BY <1>1, <1>3, <2>1, UpTo
  <2> QED
    BY <1>1, <2>2
<1>6. done = [i \in 0 .. N |-> IF i = 0 THEN s
                               ELSE IF i - 1 \in R THEN Overtaken(done[i - 1], i - 1) ELSE done[i - 1]]
  <2>1. \E f : G(f, N)
    BY <1>5
  <2> QED
    BY <2>1
<1> HIDE DEF done
<1>7. /\ done[0] = s
      /\ \A i \in 1 .. N : done[i] = IF i - 1 \in R THEN Overtaken(done[i - 1], i - 1) ELSE done[i - 1]
  BY <1>1, <1>6
<1> QED
  BY <1>1, <1>2, <1>7 DEF R

LEMMA RevokedDoneSound ==
  ASSUME NEW s, cur \in Trans, NEW m, Sound(s, cur, {}, 0, 0, m),
         NEW r, r = RevokedDone(s)
  PROVE  Sound(r, cur, {}, 0, 0, m) /\ Frame(s, r, cur)
<1> DEFINE R == s.trans[cur].revoke
<1>0. Shaped(s) /\ R \subseteq Home
  BY DEF Sound, Shaped, TransShaped
<1> HIDE DEF R
<1> DEFINE Walks(N, f) == /\ f[0] = s
                          /\ \A i \in 1 .. N : f[i] = IF i - 1 \in R THEN Overtaken(f[i - 1], i - 1) ELSE f[i - 1]
                          /\ r = f[N]
<1>w. \E N \in Nat : \E f : Walks(N, f)
  BY <1>0, RevokedDoneSteps DEF R
<1>n. PICK N \in Nat : \E f : Walks(N, f)
  BY <1>w
<1>1. PICK f : Walks(N, f)
  BY <1>n
<1> DEFINE P(v) == Sound(v, cur, {}, 0, 0, m) /\ Frame(s, v, cur)
           S == {i \in 0 .. N : P(f[i])}
<1>2. P(s)
  BY FrameReflexive
<1>3. ASSUME NEW i \in 0 .. N - 1, P(f[i]) PROVE P(f[i + 1])
  <2> DEFINE v == f[i]
             w == f[i + 1]
  <2>1. i + 1 \in 1 .. N /\ (i + 1) - 1 = i
    OBVIOUS
  <2>2. w = IF i \in R THEN Overtaken(v, i) ELSE v
    BY <1>1, <2>1
  <2>3. P(v)
    BY <1>3
  <2> HIDE DEF v, w
  <2>4. CASE i \in R
    <3>1. i \in Home /\ w = Overtaken(v, i)
      BY <1>0, <2>2, <2>4
    <3>2. Sound(w, cur, {}, 0, 0, m) /\ Frame(v, w, cur)
      BY <2>3, <3>1, OvertakenSound
    <3>3. P(w)
      BY <2>3, <3>2, FrameTransitive
    <3> QED
      BY <3>3 DEF w
  <2>5. CASE i \notin R
    <3>1. P(w)
      BY <2>2, <2>3, <2>5
    <3> QED
      BY <3>1 DEF w
  <2> QED
    BY <2>4, <2>5
<1> HIDE DEF P
<1>4. P(f[N])
  <2>1. 0 \in S
    BY <1>1, <1>2
  <2>2. \A i \in 0 .. N - 1 : i \in S => i + 1 \in S
    BY <1>3
  <2> HIDE DEF S
  <2>3. \A i \in 0 .. N : i \in S
    BY <2>1, <2>2, UpTo
  <2> QED
    BY <2>3 DEF S
<1> QED
  BY <1>1, <1>4 DEF P

(* The committed transaction joins the checkpoint queue. *)
LEMMA JoinedSound ==
  ASSUME NEW s, NEW a \in Trans, NEW m, Sound(s, a, {}, 0, 0, m), s.trans[a].alloc > 0, s.trans[a].tid = m,
         NEW r, Shaped(r), r.cpq = Append(s.cpq, a),
         r.trans = s.trans, r.recq = s.recq, r.owner = s.owner, r.buf = s.buf,
         r.start = s.start, r.last = s.last
  PROVE  /\ Sound(r, 0, {}, 0, 0, m + 1)
         /\ Room(s, a) => Room(r, 0)
<1>1. Shaped(s) /\ Linked(s, a, {}) /\ Tally(s, 0, 0) /\ Ring(s, a) /\ Tids(s, m)
  BY DEF Sound
<1>2. a # 0 /\ 0 \notin Trans
  BY JournalAssumption DEF Trans
<1>3. s.cpq \in Seq(Trans) /\ r.cpq \in Seq(Trans)
  BY <1>1 DEF Shaped
<1>4. InLog(s, a) = r.cpq /\ InLog(r, 0) = r.cpq
  BY <1>2 DEF InLog
<1> DEFINE N == Len(s.cpq)
<1>5. /\ N \in Nat /\ Len(r.cpq) = N + 1 /\ r.cpq # <<>>
      /\ \A i \in 1 .. N : r.cpq[i] = s.cpq[i]
      /\ r.cpq[N + 1] = a
      /\ ToSet(r.cpq) = ToSet(s.cpq) \cup {a}
      /\ IsInjective(s.cpq) /\ a \notin ToSet(s.cpq) => IsInjective(r.cpq)
      /\ s.cpq # <<>> <=> N > 0
  BY <1>3, AppendOnce, MembersOf
<1> HIDE DEF N
<1>6. \A x : After(r, x) = After(s, x)
  BY DEF After
<1>7. Ring(r, 0)
  BY <1>1, <1>4, <1>6 DEF Ring
<1>8. Tids(r, m + 1)
  <2>1. ASSUME NEW i \in 1 .. Len(r.cpq) - 1
        PROVE r.trans[r.cpq[i + 1]].tid = r.trans[r.cpq[i]].tid + 1
    <3>1. i \in 1 .. N /\ r.cpq[i] = s.cpq[i]
      BY <1>5
    <3>2. CASE i = N
      <4>1. s.cpq # <<>> /\ m = s.trans[s.cpq[N]].tid + 1
        BY <1>1, <1>5, <3>1, <3>2 DEF Tids, N
      <4> QED
        BY <1>5, <3>1, <3>2, <4>1
    <3>3. CASE i # N
      <4>1. i \in 1 .. Len(s.cpq) - 1 /\ i + 1 \in 1 .. N
        BY <1>5, <3>1, <3>3 DEF N
      <4>2. s.trans[s.cpq[i + 1]].tid = s.trans[s.cpq[i]].tid + 1
        BY <1>1, <4>1 DEF Tids
      <4>3. r.cpq[i + 1] = s.cpq[i + 1]
        BY <1>5, <4>1
      <4> QED
        BY <3>1, <4>2, <4>3
    <3> QED
      BY <3>2, <3>3
  <2>2. r.trans[r.cpq[Len(r.cpq)]].tid = m
    BY <1>5
  <2> QED
    BY <2>1, <2>2 DEF Tids
<1>9. Linked(r, 0, {})
  <2>1. 0 \notin ToSet(r.cpq)
    BY <1>2, <1>3, MembersOf
  <2>2. \A t \in Trans : t \notin ToSet(r.cpq) /\ t # 0 => r.trans[t] = NoTrans
    BY <1>1, <1>5 DEF Linked
  <2>3. IsInjective(r.cpq)
    BY <1>1, <1>5 DEF Linked
  <2> QED
    BY <1>1, <2>1, <2>2, <2>3 DEF Linked
<1>10. Tally(r, 0, 0)
  BY <1>1 DEF Tally
<1>11. Room(s, a) => Room(r, 0)
  BY <1>4 DEF Room
<1> QED
  BY <1>7, <1>8, <1>9, <1>10, <1>11, JournalAssumption DEF Sound

(* The end of jbd_journal_commit_trans. *)
LEMMA QueuedSound ==
  ASSUME NEW s, cur \in Trans, NEW m, Sound(s, cur, {}, 0, 0, m), s.trans[cur].alloc > 0, s.trans[cur].tid = m,
         NEW r, r = Queued(s)
  PROVE  /\ Sound(r, 0, {}, 0, 0, m + 1)
         /\ Room(s, cur) => Room(r, 0)
         /\ ToSet(r.cpq) \subseteq ToSet(s.cpq) \cup {cur}
         /\ r.allocTid = s.allocTid
<1> DEFINE t == s.trans[cur]
<1>1. Shaped(s) /\ Linked(s, cur, {}) /\ Tally(s, 0, 0) /\ Ring(s, cur) /\ Tids(s, m)
  BY DEF Sound
<1>2. cur # 0
  BY JournalAssumption DEF Trans
<1>3. DOMAIN s = JournalFields
  BY <1>1, FieldNames DEF Shaped
<1>4. s.cpq \in Seq(Trans) /\ Append(s.cpq, cur) \in Seq(Trans) /\ ToSet(Append(s.cpq, cur)) = ToSet(s.cpq) \cup {cur}
  <2>1. s.cpq \in Seq(Trans)
    BY <1>1 DEF Shaped
  <2> QED
    BY <2>1, AppendOnce
<1>5. CASE s.cpq # <<>>
  <2>1. r = [s EXCEPT !.cpq = Append(s.cpq, cur)]
    BY <1>5 DEF Queued
  <2>2. /\ r.trans = s.trans /\ r.recq = s.recq /\ r.owner = s.owner /\ r.buf = s.buf
        /\ r.start = s.start /\ r.last = s.last /\ r.allocTid = s.allocTid
        /\ r.cpq = Append(s.cpq, cur)
        /\ DOMAIN r = DOMAIN s
    BY <1>3, <2>1 DEF JournalFields
  <2>3. Shaped(r)
    BY <1>1, <1>4, <2>2 DEF Shaped
  <2> QED
    BY <1>4, <2>2, <2>3, JoinedSound
<1>6. CASE s.cpq = <<>> /\ t.dataCnt > 0
  <2> DEFINE v == [s EXCEPT !.cpq = <<cur>>, !.start = t.start, !.tid = t.tid]
  <2>1. r = SbWritten(v)
    BY <1>6 DEF Queued
  <2>2. /\ v.trans = s.trans /\ v.recq = s.recq /\ v.owner = s.owner /\ v.buf = s.buf
        /\ v.last = s.last /\ v.allocTid = s.allocTid
        /\ v.cpq = <<cur>> /\ v.start = t.start
        /\ DOMAIN v = DOMAIN s
    BY <1>3 DEF JournalFields
  <2> HIDE DEF v
  <2>3. <<cur>> = Append(s.cpq, cur)
    BY <1>6
  <2>4. t.start = s.start
    <3>1. InLog(s, cur) = <<cur>>
      BY <1>2, <1>6 DEF InLog
    <3>2. <<cur>> # <<>> /\ <<cur>>[1] = cur
      OBVIOUS
    <3> QED
      BY <1>1, <3>1, <3>2 DEF Ring
  <2>5. Shaped(v)
    BY <1>1, <1>4, <2>2, <2>3, <2>4 DEF Shaped
  <2>6. r = WithOut(v, Append(v.out, WSb(v.start, v.tid)))
    BY <2>1 DEF SbWritten, WithOut
  <2>7. /\ Shaped(r)
        /\ r.trans = v.trans /\ r.cpq = v.cpq /\ r.recq = v.recq /\ r.owner = v.owner
        /\ r.buf = v.buf
        /\ r.start = v.start /\ r.last = v.last /\ r.allocTid = v.allocTid
    BY <2>5, <2>6, WithOutFields
  <2>8. /\ r.trans = s.trans /\ r.recq = s.recq /\ r.owner = s.owner /\ r.buf = s.buf
        /\ r.start = s.start /\ r.last = s.last /\ r.allocTid = s.allocTid
        /\ r.cpq = Append(s.cpq, cur)
    BY <2>2, <2>3, <2>4, <2>7
  <2> QED
    BY <1>4, <2>7, <2>8, JoinedSound
<1>7. CASE s.cpq = <<>> /\ ~(t.dataCnt > 0)
  <2> DEFINE v == [s EXCEPT !.start = After(s, cur), !.tid = t.tid + 1]
  <2>1. r = Freed(v, {cur})
    BY <1>7 DEF Queued
  <2>2. /\ v.trans = s.trans /\ v.recq = s.recq /\ v.owner = s.owner /\ v.buf = s.buf
        /\ v.last = s.last /\ v.allocTid = s.allocTid
        /\ v.cpq = s.cpq /\ v.start = After(s, cur)
        /\ DOMAIN v = DOMAIN s
    BY <1>3 DEF JournalFields
  <2> HIDE DEF v
  <2>3. s.last = After(s, cur) /\ s.last \in 1 .. JSize
    <3>1. InLog(s, cur) = <<cur>>
      BY <1>2, <1>7 DEF InLog
    <3>2. <<cur>> # <<>> /\ Len(<<cur>>) = 1 /\ <<cur>>[1] = cur
      OBVIOUS
    <3> QED
      BY <1>1, <3>1, <3>2 DEF Ring
  <2>4. Shaped(v)
    BY <1>1, <2>2, <2>3, LogAssumption DEF Shaped
  <2>5. Linked(v, cur, {}) /\ Tally(v, cur, 0)
    BY <1>1, <2>2 DEF Linked, Tally
  <2>6. v.trans[cur].bufq = <<>>
    <3>1. s.trans[cur].bufq \in Seq(Home) /\ s.trans[cur].written \in Nat
      BY <1>1 DEF Shaped, TransShaped
    <3>2. PICK n \in Nat, h \in Nat : n = s.trans[cur].written /\ h = Len(s.trans[cur].bufq)
      BY <3>1
    <3>3. s.trans[cur].dataCnt = n + h
      BY <1>1, <3>2 DEF Tally
    <3>4. h = 0
      BY <1>7, <3>3
    <3>5. s.trans[cur].bufq = <<>>
      <4>1. Len(s.trans[cur].bufq) = 0
        BY <3>2, <3>4
      <4> QED
        BY <3>1, <4>1
    <3> QED
      BY <2>2, <3>5
  <2>7. /\ Shaped(r) /\ Linked(r, 0, {}) /\ Tally(r, 0, 0)
        /\ r.cpq = v.cpq /\ r.recq = v.recq /\ r.buf = v.buf
        /\ r.start = v.start /\ r.last = v.last /\ r.allocTid = v.allocTid
        /\ \A x \in Trans \ {cur} : r.trans[x] = v.trans[x]
    <3> DEFINE d == 0
    <3>1. Tally(v, cur, d) /\ Shaped(v) /\ Linked(v, cur, {}) /\ v.trans[cur].bufq = <<>> /\ cur \in Trans
      BY <2>4, <2>5, <2>6
    <3> HIDE DEF d
    <3> QED
      BY ONLY <2>1, <3>1, FreedActive
  <2>8. r.cpq = <<>> /\ InLog(r, 0) = <<>> /\ r.start = r.last /\ r.last = s.last
    BY <1>7, <2>2, <2>3, <2>7 DEF InLog
  <2>9. Len(<<>>) = 0 /\ 1 .. 0 = {} /\ 1 .. 0 - 1 = {} /\ ToSet(<<>>) = {}
    BY DEF ToSet
  <2>10. Ring(r, 0)
    BY <2>3, <2>8, <2>9 DEF Ring
  <2>11. Tids(r, m + 1) /\ Room(r, 0)
    BY <2>8, <2>9 DEF Tids, Room
  <2>12. ToSet(r.cpq) = {}
    BY <2>8, <2>9
  <2>13. Sound(r, 0, {}, 0, 0, m + 1)
    BY <2>7, <2>10, <2>11, JournalAssumption DEF Sound
  <2> QED
    BY <2>2, <2>7, <2>11, <2>12, <2>13
<1> QED
  BY <1>5, <1>6, <1>7

(* jbd_journal_alloc_block takes the block at the end of the log for the
   active transaction. *)
LEMMA AllocatedSound ==
  ASSUME NEW s, cur \in Trans, NEW m, Sound(s, cur, {}, 0, 0, m), Room(s, cur),
         NEW r, r = Allocated(s)
  PROVE  /\ Sound(r, cur, {}, 0, 0, m)
         /\ ~Fills(s) => Room(r, cur)
         /\ r.cpq = s.cpq /\ r.buf = s.buf /\ r.allocTid = s.allocTid
         /\ r.trans[cur].alloc > 0
         /\ r.trans[cur].start = IF s.trans[cur].alloc = 0 THEN s.last ELSE s.trans[cur].start
         /\ r.trans[cur].bufq = s.trans[cur].bufq
         /\ r.trans[cur].tid = s.trans[cur].tid
<1> DEFINE t == s.trans[cur]
           st == IF t.alloc = 0 THEN s.last ELSE t.start
           v == [t EXCEPT !.alloc = t.alloc + 1, !.start = st]
           w == [s EXCEPT !.last = wrap(s.last + 1)]
<1>1. Shaped(s) /\ Linked(s, cur, {}) /\ Tally(s, 0, 0) /\ Ring(s, cur) /\ Tids(s, m) /\ cur \in 0 .. MaxTrans
  BY DEF Sound
<1>2. cur # 0
  BY JournalAssumption DEF Trans
<1>3. DOMAIN s = JournalFields /\ DOMAIN t = TransFields /\ TransShaped(t)
  BY <1>1, FieldNames DEF Shaped, TransShaped
<1>4. /\ r.cpq = s.cpq /\ r.recq = s.recq /\ r.owner = s.owner /\ r.buf = s.buf
      /\ r.start = s.start /\ r.last = wrap(s.last + 1) /\ r.allocTid = s.allocTid
      /\ r.trans = [[s.trans EXCEPT ![cur].alloc = @ + 1] EXCEPT ![cur].start = IF @ = 0 THEN s.last ELSE @]
      /\ DOMAIN r = DOMAIN s
  BY <1>3 DEF Allocated, JournalFields
<1>5. /\ r.trans[cur] = [[t EXCEPT !.alloc = t.alloc + 1] EXCEPT !.start = IF t.start = 0 THEN s.last ELSE t.start]
      /\ \A x \in Trans \ {cur} : r.trans[x] = s.trans[x]
      /\ DOMAIN r.trans = Trans
  <2>1. DOMAIN s.trans = Trans
    BY <1>1 DEF Shaped
  <2> DEFINE T1 == [s.trans EXCEPT ![cur].alloc = @ + 1]
  <2>2. /\ T1[cur] = [t EXCEPT !.alloc = t.alloc + 1]
        /\ \A x \in Trans \ {cur} : T1[x] = s.trans[x]
        /\ DOMAIN T1 = Trans
    BY <2>1
  <2>3. T1[cur].start = t.start
    BY <1>3, <2>2 DEF TransFields
  <2>4. r.trans = [T1 EXCEPT ![cur].start = IF @ = 0 THEN s.last ELSE @]
    BY <1>4
  <2> HIDE DEF T1
  <2> QED
    BY <2>2, <2>3, <2>4
<1>6. /\ r.trans[cur].alloc = t.alloc + 1
      /\ r.trans[cur].start = IF t.start = 0 THEN s.last ELSE t.start
      /\ \A f \in TransFields \ {"alloc", "start"} : r.trans[cur][f] = t[f]
      /\ DOMAIN r.trans[cur] = TransFields
  BY <1>3, <1>5 DEF TransFields
<1>7. t.start = 0 <=> t.alloc = 0
  <2>1. t.alloc = 0 => t.start = 0
    BY <1>1, <1>2 DEF Ring
  <2>2. ASSUME t.alloc # 0 PROVE t.start # 0
    <3>1. InLog(s, cur) = Append(s.cpq, cur)
      BY <1>2, <1>3, <2>2 DEF InLog, TransShaped
    <3>2. s.cpq \in Seq(Trans)
      BY <1>1 DEF Shaped
    <3>3. Append(s.cpq, cur)[Len(s.cpq) + 1] = cur /\ Len(Append(s.cpq, cur)) = Len(s.cpq) + 1 /\ Len(s.cpq) \in Nat
      BY <3>2, AppendOnce
    <3>4. Len(s.cpq) + 1 \in 1 .. Len(Append(s.cpq, cur))
      BY <3>3
    <3>5. s.trans[cur].start \in 1 .. JSize
      BY <1>1, <3>1, <3>3, <3>4 DEF Ring
    <3> QED
      BY <3>5, LogAssumption
  <2> QED
    BY <2>1, <2>2
<1>8. /\ r.trans[cur].bufq = t.bufq /\ r.trans[cur].tid = t.tid /\ r.trans[cur].dataCnt = t.dataCnt
      /\ r.trans[cur].written = t.written /\ r.trans[cur].revoke = t.revoke
  BY <1>6 DEF TransFields
<1>9. s.last \in 1 .. JSize /\ wrap(s.last + 1) \in 1 .. JSize
  BY <1>1, LogAssumption DEF Ring, wrap
<1>10. TransShaped(r.trans[cur])
  <2>1. r.trans[cur].alloc \in Nat /\ r.trans[cur].start \in Nat
    BY <1>3, <1>6, <1>9, LogAssumption DEF TransShaped
  <2> QED
    BY <1>3, <1>6, <1>8, <2>1, FieldNames DEF TransShaped
<1>11. Shaped(r)
  BY <1>1, <1>4, <1>5, <1>9, <1>10, LogAssumption DEF Shaped
<1>12. \A x \in Trans : r.trans[x].bufq = s.trans[x].bufq /\ r.trans[x].dataCnt = s.trans[x].dataCnt
                        /\ r.trans[x].written = s.trans[x].written /\ r.trans[x].tid = s.trans[x].tid
  BY <1>5, <1>8
<1>13. Linked(r, cur, {})
  <2>1. \A x \in Trans : x \notin ToSet(r.cpq) /\ x # cur => r.trans[x] = NoTrans
    BY <1>1, <1>4, <1>5 DEF Linked
  <2> QED
    BY <1>1, <1>4, <1>12, <2>1 DEF Linked
<1>14. Tally(r, 0, 0)
  BY <1>1, <1>12 DEF Tally
<1>15. Tids(r, m)
  <2>1. \A i \in 1 .. Len(s.cpq) : s.cpq[i] \in Trans
    BY <1>1, QueueType
  <2>2. Len(s.cpq) \in Nat /\ (s.cpq # <<>> => Len(s.cpq) > 0)
    BY <1>1 DEF Shaped
  <2>3. \A i \in 1 .. Len(s.cpq) - 1 : i \in 1 .. Len(s.cpq) /\ i + 1 \in 1 .. Len(s.cpq)
    BY <2>2
  <2>4. s.cpq # <<>> => Len(s.cpq) \in 1 .. Len(s.cpq)
    BY <2>2
  <2>5. ASSUME NEW i \in 1 .. Len(s.cpq) - 1
        PROVE r.trans[s.cpq[i + 1]].tid = r.trans[s.cpq[i]].tid + 1
    <3>1. s.cpq[i] \in Trans /\ s.cpq[i + 1] \in Trans
      BY <2>1, <2>3
    <3>2. s.trans[s.cpq[i + 1]].tid = s.trans[s.cpq[i]].tid + 1
      BY <1>1 DEF Tids
    <3> QED
      BY <1>12, <3>1, <3>2
  <2>6. ASSUME s.cpq # <<>> PROVE m = r.trans[s.cpq[Len(s.cpq)]].tid + 1
    <3>1. s.cpq[Len(s.cpq)] \in Trans
      BY <2>1, <2>4, <2>6
    <3>2. m = s.trans[s.cpq[Len(s.cpq)]].tid + 1
      BY <1>1, <2>6 DEF Tids
    <3> QED
      BY <1>12, <3>1, <3>2
  <2> QED
    BY <1>4, <2>5, <2>6 DEF Tids
<1>16. Ring(r, cur)
  <2> DEFINE q == s.cpq
             N == Len(s.cpq)
             x == r.trans[cur].start
             p == Append(s.cpq, cur)
             n == t.alloc
             y == IF N = 0 THEN s.start ELSE After(s, q[N])
             D(i) == Off(s.start, s.trans[q[i]].start)
  <2>0. x = IF t.alloc = 0 THEN s.last ELSE t.start
    BY <1>6, <1>7
  <2>1. /\ N \in Nat /\ DOMAIN q = 1 .. N /\ n \in Nat
        /\ \A i \in 1 .. N : q[i] \in Trans \ {cur}
        /\ q = <<>> <=> N = 0
        /\ Len(p) = N + 1 /\ p # <<>> /\ p[N + 1] = cur
        /\ \A i \in 1 .. N : p[i] = q[i]
    <3>1. q \in Seq(Trans)
      BY <1>1 DEF Shaped
    <3>2. \A i \in 1 .. N : q[i] \in ToSet(q) /\ q[i] \in Trans
      BY <3>1, MembersOf
    <3>3. cur \notin ToSet(q)
      BY <1>1 DEF Linked
    <3>4. n \in Nat
      BY <1>3 DEF TransShaped
    <3>5. N \in Nat /\ DOMAIN q = 1 .. N /\ (q = <<>> <=> N = 0)
      BY <3>1
    <3>6. \A i \in 1 .. N : q[i] \in Trans \ {cur}
      BY <3>2, <3>3
    <3>7. /\ Len(p) = N + 1 /\ p # <<>> /\ p[N + 1] = cur
          /\ \A i \in 1 .. N : p[i] = q[i]
      BY <3>1, AppendOnce
    <3> QED
      BY <3>4, <3>5, <3>6, <3>7
  <2>2. s.start \in 1 .. JSize /\ s.last \in 1 .. JSize
    BY <1>1 DEF Ring
  <2>3. /\ \A i \in 1 .. N : s.trans[q[i]].start \in 1 .. JSize /\ s.trans[q[i]].alloc \in 1 .. JSize
        /\ N > 0 => s.trans[q[1]].start = s.start
        /\ \A i \in 1 .. N - 1 : s.trans[q[i + 1]].start = After(s, q[i])
        /\ \A i, k \in 1 .. N : i < k => D(i) + s.trans[q[i]].alloc <= D(k)
        /\ x \in 1 .. JSize
        /\ x = y
        /\ \A i \in 1 .. N : D(i) + s.trans[q[i]].alloc <= Off(s.start, x)
        /\ Off(s.start, x) + n < JSize
        /\ s.last = wrap(x + n)
    <3>1. CASE n = 0
      <4>1. InLog(s, cur) = q /\ x = s.last
        BY <2>0, <3>1 DEF InLog
      <4>2. N > 0 => 1 \in 1 .. N /\ N \in 1 .. N
        BY <2>1
      <4>3. \A i \in 1 .. N : s.trans[q[i]].start \in 1 .. JSize /\ s.trans[q[i]].alloc \in 1 .. JSize
        BY <1>1, <4>1 DEF Ring
      <4>4. N > 0 => s.trans[q[1]].start = s.start
        BY <1>1, <2>1, <4>1 DEF Ring
      <4>5. \A i \in 1 .. N - 1 : s.trans[q[i + 1]].start = After(s, q[i])
        BY <1>1, <4>1 DEF Ring
      <4>6. \A i, k \in 1 .. N : i < k => D(i) + s.trans[q[i]].alloc <= D(k)
        BY <1>1, <4>1 DEF Ring
      <4>7. x = y
        BY <1>1, <2>1, <4>1 DEF Ring
      <4>8. ASSUME N > 0
            PROVE /\ Off(s.start, x) = D(N) + s.trans[q[N]].alloc
                  /\ D(N) + s.trans[q[N]].alloc < JSize
        <5> DEFINE z == s.trans[q[N]].start
                   b == s.trans[q[N]].alloc
        <5>1. z \in 1 .. JSize /\ b \in 1 .. JSize
          BY <4>2, <4>3, <4>8
        <5>2. Off(s.start, z) + b <= JSize
          BY <1>1, <2>1, <4>1, <4>8 DEF Ring
        <5>3. x = wrap(z + b)
          BY <4>7, <4>8 DEF After
        <5>4. x # s.start
          BY <2>1, <4>1, <4>8 DEF Room
        <5> HIDE DEF z, b, x
        <5>5. Off(s.start, x) = IF Off(s.start, z) + b = JSize THEN 0 ELSE Off(s.start, z) + b
          BY <2>2, <5>1, <5>2, <5>3, OffAfter
        <5>6. x \in 1 .. JSize /\ Off(s.start, s.start) = 0 /\ Off(s.start, z) \in 0 .. JSize - 1
          BY <2>2, <4>1, <5>1, OffShift
        <5>7. Off(s.start, x) = Off(s.start, s.start) => x = s.start
          BY <2>2, <5>6, OffShift
        <5>8. Off(s.start, z) + b # JSize
          BY <5>4, <5>5, <5>6, <5>7
        <5>9. Off(s.start, x) = Off(s.start, z) + b /\ Off(s.start, z) + b < JSize
          BY <5>1, <5>2, <5>5, <5>6, <5>8, LogAssumption
        <5> QED
          BY <5>9 DEF z, b
      <4>9. ASSUME NEW i \in 1 .. N PROVE D(i) + s.trans[q[i]].alloc <= Off(s.start, x)
        <5>1. N > 0
          BY <2>1
        <5>2. D(i) \in Int /\ s.trans[q[i]].alloc \in Nat /\ D(N) \in Int /\ s.trans[q[N]].alloc \in Nat
          <6>1. s.trans[q[i]].start \in 1 .. JSize /\ s.trans[q[i]].alloc \in 1 .. JSize
            BY <4>3
          <6>2. s.trans[q[N]].start \in 1 .. JSize /\ s.trans[q[N]].alloc \in 1 .. JSize
            BY <4>2, <4>3, <5>1
          <6>3. D(i) \in 0 .. JSize - 1
            BY <2>2, <6>1, OffShift
          <6>4. D(N) \in 0 .. JSize - 1
            BY <2>2, <6>2, OffShift
          <6> HIDE DEF D
          <6> QED
            BY <6>1, <6>2, <6>3, <6>4, LogAssumption, SMTT(20)
        <5>3. CASE i = N
          BY <4>8, <5>1, <5>2, <5>3
        <5>4. CASE i # N
          <6>1. D(i) + s.trans[q[i]].alloc <= D(N)
            BY <2>1, <4>2, <4>6, <5>1, <5>4
          <6> HIDE DEF D
          <6> QED
            BY <4>8, <5>1, <5>2, <6>1, SMTT(20)
        <5> QED
          BY <5>3, <5>4
      <4>10. Off(s.start, x) + n < JSize
        <5>1. CASE N = 0
          BY <2>2, <3>1, <4>7, <5>1, OffShift, LogAssumption
        <5>2. CASE N # 0
          <6>1. N > 0
            BY <2>1, <5>2
          <6>2. D(N) + s.trans[q[N]].alloc < JSize /\ Off(s.start, x) = D(N) + s.trans[q[N]].alloc
            BY <4>8, <6>1
          <6>3. Off(s.start, x) \in Int
            BY <2>2, <4>1, LogAssumption DEF Off
          <6> HIDE DEF D
          <6> QED
            BY <3>1, <6>2, <6>3
        <5> QED
          BY <5>1, <5>2
      <4>11. x \in 1 .. JSize /\ s.last = wrap(x + n)
        BY <2>2, <3>1, <4>1, LogAssumption DEF wrap
      <4> QED
        BY <4>3, <4>4, <4>5, <4>6, <4>7, <4>9, <4>10, <4>11
    <3>2. CASE n # 0
      <4>1. InLog(s, cur) = p /\ x = t.start
        BY <1>2, <2>0, <2>1, <3>2 DEF InLog
      <4>2. ASSUME NEW i \in 1 .. N
            PROVE i \in 1 .. Len(p) /\ i \in 1 .. Len(p) - 1 /\ i < N + 1 /\ N + 1 \in 1 .. Len(p)
        BY <2>1
      <4>3. \A i \in 1 .. N : s.trans[q[i]].start \in 1 .. JSize /\ s.trans[q[i]].alloc \in 1 .. JSize
        BY <1>1, <2>1, <4>1, <4>2 DEF Ring
      <4>4. N > 0 => s.trans[q[1]].start = s.start
        <5>1. s.trans[p[1]].start = s.start
          BY <1>1, <2>1, <4>1 DEF Ring
        <5>2. N > 0 => 1 \in 1 .. N
          BY <2>1
        <5> QED
          BY <2>1, <5>1, <5>2
      <4>5. \A i \in 1 .. N - 1 : s.trans[q[i + 1]].start = After(s, q[i])
        <5>1. ASSUME NEW i \in 1 .. N - 1 PROVE i \in 1 .. N /\ i + 1 \in 1 .. N
          BY <2>1
        <5> QED
          BY <1>1, <2>1, <4>1, <4>2, <5>1 DEF Ring
      <4>6. \A i, k \in 1 .. N : i < k => D(i) + s.trans[q[i]].alloc <= D(k)
        BY <1>1, <2>1, <4>1, <4>2 DEF Ring
      <4>7. x = y
        <5>1. CASE N = 0
          <6>1. s.trans[p[1]].start = s.start
            BY <1>1, <2>1, <4>1 DEF Ring
          <6> QED
            BY <2>1, <4>1, <5>1, <6>1
        <5>2. CASE N # 0
          <6>1. N \in 1 .. N
            BY <2>1, <5>2
          <6> QED
            BY <1>1, <2>1, <4>1, <4>2, <5>2, <6>1 DEF Ring
        <5> QED
          BY <5>1, <5>2
      <4>8. ASSUME NEW i \in 1 .. N PROVE D(i) + s.trans[q[i]].alloc <= Off(s.start, x)
        <5>1. /\ i \in 1 .. Len(p) /\ N + 1 \in 1 .. Len(p) /\ i < N + 1
              /\ p[i] = q[i] /\ p[N + 1] = cur /\ x = s.trans[cur].start
          BY <2>1, <4>1, <4>2
        <5>2. Off(s.start, s.trans[p[i]].start) + s.trans[p[i]].alloc <= Off(s.start, s.trans[p[N + 1]].start)
          <6> HIDE DEF p, N
          <6> QED
            BY <1>1, <4>1, <5>1 DEF Ring
        <5> QED
          BY <5>1, <5>2
      <4>9. x \in 1 .. JSize /\ n \in 1 .. JSize /\ Off(s.start, x) + n <= JSize /\ s.last = wrap(x + n) /\ s.last # s.start
        <5>1. N + 1 \in 1 .. Len(p)
          BY <2>1
        <5>2. x \in 1 .. JSize /\ n \in 1 .. JSize
          <6>1. s.trans[p[N + 1]].start \in 1 .. JSize /\ s.trans[p[N + 1]].alloc \in 1 .. JSize
            <7> HIDE DEF p, N
            <7> QED
              BY <1>1, <4>1, <5>1 DEF Ring
          <6> QED
            BY <2>1, <4>1, <6>1
        <5> DEFINE e == s.trans[p[Len(p)]]
        <5>e. p # <<>> /\ e = s.trans[cur] /\ p[Len(p)] = cur
          BY <2>1, <4>1
        <5>r. Ring(s, cur)
          BY <1>1
        <5>q. Off(s.start, e.start) + e.alloc <= JSize /\ s.last = After(s, p[Len(p)])
          <6> HIDE DEF p
          <6> QED
            BY ONLY <4>1, <5>e, <5>r DEF Ring
        <5>x. x = s.trans[cur].start /\ n = s.trans[cur].alloc
          BY <2>1, <4>1
        <5>3. Off(s.start, x) + n <= JSize
          BY <5>e, <5>q, <5>x
        <5>4. s.last = wrap(x + n)
          BY <5>e, <5>q, <5>x DEF After
        <5>5. s.last # s.start
          BY <2>1, <4>1 DEF Room
        <5> QED
          BY <5>2, <5>3, <5>4, <5>5
      <4>10. Off(s.start, x) + n < JSize
        <5> HIDE DEF x, n
        <5>1. Off(s.start, s.last) = IF Off(s.start, x) + n = JSize THEN 0 ELSE Off(s.start, x) + n
          BY <2>2, <4>9, OffAfter
        <5>2. Off(s.start, s.start) = 0 /\ Off(s.start, x) \in 0 .. JSize - 1
          BY <2>2, <4>9, OffShift
        <5>3. Off(s.start, s.last) = Off(s.start, s.start) => s.last = s.start
          BY <2>2, OffShift
        <5>4. Off(s.start, x) + n # JSize
          BY <4>9, <5>1, <5>2, <5>3
        <5> QED
          BY <4>9, <5>2, <5>4, LogAssumption
      <4> QED
        BY <4>3, <4>4, <4>5, <4>6, <4>7, <4>8, <4>9, <4>10
    <3> QED
      BY <3>1, <3>2
  <2>4. InLog(r, cur) = p
    BY <1>2, <1>4, <1>6, <2>1 DEF InLog
  <2>5. r.trans[cur].alloc = n + 1
    BY <1>6
  <2>6. \A i \in 1 .. N : r.trans[q[i]] = s.trans[q[i]]
    BY <1>5, <2>1
  <2>7. \A i \in 1 .. N : After(r, q[i]) = After(s, q[i])
    BY <2>6 DEF After
  <2>8. wrap(s.last + 1) = wrap(x + (n + 1)) /\ n + 1 \in 1 .. JSize /\ Off(s.start, x) + (n + 1) <= JSize
    <3>1. x \in 1 .. JSize /\ n \in Nat /\ Off(s.start, x) + n < JSize /\ s.last = wrap(x + n)
      BY <2>1, <2>3
    <3> HIDE DEF x, n
    <3>2. Off(s.start, x) \in 0 .. JSize - 1
      BY <2>2, <3>1, OffShift
    <3>3. n < JSize /\ n + 1 \in 1 .. JSize /\ Off(s.start, x) + (n + 1) <= JSize
      BY <3>1, <3>2, LogAssumption
    <3> QED
      BY <3>1, <3>3, LogAssumption DEF wrap
  <2>9. r.last = After(r, cur)
    BY <1>4, <2>5, <2>8 DEF After
  <2> HIDE DEF x, n, y
  <2>10. \A i \in 1 .. N + 1 : i = N + 1 \/ i \in 1 .. N
    BY <2>1
  <2>11. r.start \in 1 .. JSize /\ r.last \in 1 .. JSize
    BY <1>4, <1>9, <2>2
  <2>12. \A i \in 1 .. Len(p) : r.trans[p[i]].start \in 1 .. JSize /\ r.trans[p[i]].alloc \in 1 .. JSize
    <3>1. r.trans[cur].start \in 1 .. JSize /\ r.trans[cur].alloc \in 1 .. JSize
      BY <2>3, <2>5, <2>8 DEF x
    <3> QED
      BY <2>1, <2>3, <2>6, <2>10, <3>1
  <2>13. r.trans[p[1]].start = r.start
    <3>1. CASE N = 0
      BY <1>4, <2>1, <2>3, <3>1 DEF x, y
    <3>2. CASE N # 0
      <4>1. N > 0 /\ 1 \in 1 .. N
        BY <2>1, <3>2
      <4> QED
        BY <1>4, <2>1, <2>3, <2>6, <4>1
    <3> QED
      BY <3>1, <3>2
  <2>14. ASSUME NEW i \in 1 .. Len(p) - 1 PROVE r.trans[p[i + 1]].start = After(r, p[i])
    <3>1. i \in 1 .. N /\ p[i] = q[i]
      BY <2>1
    <3>2. CASE i = N
      <4>1. r.trans[cur].start = After(s, q[N])
        BY <2>3, <3>1, <3>2 DEF x, y
      <4> QED
        BY <2>1, <2>7, <3>1, <3>2, <4>1
    <3>3. CASE i # N
      <4>1. i \in 1 .. N - 1 /\ i + 1 \in 1 .. N
        BY <2>1, <3>1, <3>3
      <4> QED
        BY <2>1, <2>3, <2>6, <2>7, <3>1, <4>1
    <3> QED
      BY <3>2, <3>3
  <2>15. ASSUME NEW i \in 1 .. Len(p), NEW k \in 1 .. Len(p), i < k
         PROVE Off(r.start, r.trans[p[i]].start) + r.trans[p[i]].alloc <= Off(r.start, r.trans[p[k]].start)
    <3>1. i \in 1 .. N /\ p[i] = q[i] /\ r.trans[p[i]] = s.trans[q[i]] /\ r.start = s.start
      BY <1>4, <2>1, <2>6, <2>15
    <3>2. CASE k = N + 1
      <4>1. D(i) + s.trans[q[i]].alloc <= Off(s.start, x)
        BY <2>3, <3>1
      <4>2. r.trans[p[k]].start = x
        BY <2>1, <3>2 DEF x
      <4> QED
        BY <3>1, <4>1, <4>2
    <3>3. CASE k # N + 1
      <4>1. k \in 1 .. N /\ p[k] = q[k] /\ r.trans[p[k]] = s.trans[q[k]]
        BY <2>1, <2>6, <3>3
      <4>2. D(i) + s.trans[q[i]].alloc <= D(k)
        BY <2>3, <2>15, <3>1, <4>1
      <4> QED
        BY <3>1, <4>1, <4>2
    <3> QED
      BY <3>2, <3>3
  <2>16. Off(r.start, r.trans[p[Len(p)]].start) + r.trans[p[Len(p)]].alloc <= JSize
    BY <1>4, <2>1, <2>5, <2>8 DEF x
  <2>17. r.last = After(r, p[Len(p)])
    BY <2>1, <2>9
  <2>18. r.trans[cur].alloc # 0
    BY <2>1, <2>5 DEF n
  <2>19. p # <<>>
    BY <2>1
  <2> HIDE DEF p
  <2> QED
    BY <2>4, <2>11, <2>12, <2>13, <2>14, <2>15, <2>16, <2>17, <2>18, <2>19 DEF Ring
<1>17. ~Fills(s) => Room(r, cur)
  BY <1>4 DEF Fills, Room
<1> QED
  BY <1>1, <1>4, <1>6, <1>7, <1>8, <1>11, <1>13, <1>14, <1>15, <1>16, <1>17, <1>3 DEF Sound, TransShaped

(* The writes of a step are not part of the invariant. *)
LEMMA OutSound ==
  ASSUME NEW s, NEW a, NEW m, Sound(s, a, {}, 0, 0, m), NEW o, NEW r, r = WithOut(s, o)
  PROVE  Sound(r, a, {}, 0, 0, m)
<1> DEFINE X == {}
           d == 0
<1>1. Sound(s, a, X, d, d, m) /\ Shaped(s)
  BY DEF Sound
<1>2. /\ Shaped(r)
      /\ r.trans = s.trans /\ r.cpq = s.cpq /\ r.recq = s.recq /\ r.owner = s.owner /\ r.buf = s.buf
      /\ r.start = s.start /\ r.last = s.last /\ r.allocTid = s.allocTid
  BY <1>1, WithOutFields
<1> HIDE DEF X, d
<1>3. Sound(r, a, X, d, d, m)
  BY <1>1, <1>2, SoundSame
<1> QED
  BY <1>3 DEF X, d

(* Transaction a is changed where the lists and the log do not show it. *)
LEMMA WithTransSound ==
  ASSUME NEW s, NEW a \in Trans, NEW m, Sound(s, a, {}, 0, 0, m),
         NEW v, TransShaped(v), v.bufq = s.trans[a].bufq, v.dataCnt = s.trans[a].dataCnt,
         v.written = s.trans[a].written, v.start = s.trans[a].start, v.alloc = s.trans[a].alloc,
         NEW r, r = WithTrans(s, a, v)
  PROVE  Sound(r, a, {}, 0, 0, m) /\ (Room(s, a) => Room(r, a))
<1>1. Shaped(s) /\ Linked(s, a, {}) /\ Tally(s, 0, 0) /\ Ring(s, a) /\ Tids(s, m) /\ a \in 0 .. MaxTrans
  BY DEF Sound
<1>2. /\ Shaped(r)
      /\ r.cpq = s.cpq /\ r.recq = s.recq /\ r.owner = s.owner /\ r.buf = s.buf
      /\ r.start = s.start /\ r.last = s.last /\ r.allocTid = s.allocTid
      /\ r.trans[a] = v
      /\ \A x \in Trans \ {a} : r.trans[x] = s.trans[x]
  BY <1>1, WithTransFields
<1>3. \A x \in Trans : /\ r.trans[x].bufq = s.trans[x].bufq /\ r.trans[x].dataCnt = s.trans[x].dataCnt
                       /\ r.trans[x].written = s.trans[x].written
                       /\ r.trans[x].start = s.trans[x].start /\ r.trans[x].alloc = s.trans[x].alloc
  BY <1>2
<1>4. Linked(r, a, {})
  <2>1. \A x \in Trans : x \notin ToSet(r.cpq) /\ x # a => r.trans[x] = NoTrans
    BY <1>1, <1>2 DEF Linked
  <2> QED
    BY <1>1, <1>2, <1>3, <2>1 DEF Linked
<1>5. Tally(r, 0, 0)
  BY <1>1, <1>3 DEF Tally
<1>6. s.cpq \in Seq(Trans)
  BY <1>1 DEF Shaped
<1>7. /\ Len(s.cpq) \in Nat /\ (s.cpq # <<>> => Len(s.cpq) \in 1 .. Len(s.cpq))
      /\ \A i \in 1 .. Len(s.cpq) - 1 : i \in 1 .. Len(s.cpq) /\ i + 1 \in 1 .. Len(s.cpq)
  BY <1>6
<1>8. \A i \in 1 .. Len(s.cpq) : r.trans[s.cpq[i]] = s.trans[s.cpq[i]] /\ s.cpq[i] \in Trans
  <2>1. \A i \in 1 .. Len(s.cpq) : s.cpq[i] \in ToSet(s.cpq) /\ s.cpq[i] \in Trans
    BY <1>6, MembersOf
  <2> QED
    BY <1>1, <1>2, <2>1 DEF Linked
<1>9. Tids(r, m)
  <2>1. ASSUME NEW i \in 1 .. Len(s.cpq) - 1 PROVE r.trans[s.cpq[i + 1]].tid = r.trans[s.cpq[i]].tid + 1
    BY <1>1, <1>7, <1>8 DEF Tids
  <2>2. ASSUME s.cpq # <<>> PROVE m = r.trans[s.cpq[Len(s.cpq)]].tid + 1
    BY <1>1, <1>7, <1>8, <2>2 DEF Tids
  <2> QED
    BY <1>2, <2>1, <2>2 DEF Tids
<1>10. InLog(r, a) = InLog(s, a)
  BY <1>2 DEF InLog
<1> DEFINE q == InLog(s, a)
<1>11. /\ \A i \in 1 .. Len(q) : q[i] \in Trans
       /\ q # <<>> => 1 \in 1 .. Len(q) /\ Len(q) \in 1 .. Len(q)
       /\ \A i \in 1 .. Len(q) - 1 : i \in 1 .. Len(q) /\ i + 1 \in 1 .. Len(q)
  <2>1. q \in Seq(Trans)
    <3>1. Append(s.cpq, a) \in Seq(Trans)
      BY <1>6, AppendOnce
    <3> QED
      BY <1>6, <3>1 DEF InLog
  <2> HIDE DEF q
  <2> QED
    BY <2>1
<1>12. \A x \in Trans : After(r, x) = After(s, x)
  BY <1>3 DEF After
<1> HIDE DEF q
<1>13. Ring(r, a)
  <2>1. r.start \in 1 .. JSize /\ r.last \in 1 .. JSize
    BY <1>1, <1>2 DEF Ring
  <2>2. \A i \in 1 .. Len(q) : r.trans[q[i]].start \in 1 .. JSize /\ r.trans[q[i]].alloc \in 1 .. JSize
    BY <1>1, <1>3, <1>11 DEF Ring, q
  <2>3. q # <<>> => r.trans[q[1]].start = r.start
    BY <1>1, <1>2, <1>3, <1>11 DEF Ring, q
  <2>4. \A i \in 1 .. Len(q) - 1 : r.trans[q[i + 1]].start = After(r, q[i])
    BY <1>1, <1>3, <1>11, <1>12 DEF Ring, q
  <2>5. \A i, k \in 1 .. Len(q) : i < k =>
          Off(r.start, r.trans[q[i]].start) + r.trans[q[i]].alloc <= Off(r.start, r.trans[q[k]].start)
    BY <1>1, <1>2, <1>3, <1>11 DEF Ring, q
  <2>6. r.last = IF q = <<>> THEN r.start ELSE After(r, q[Len(q)])
    BY <1>1, <1>2, <1>11, <1>12 DEF Ring, q
  <2>7. q # <<>> => Off(r.start, r.trans[q[Len(q)]].start) + r.trans[q[Len(q)]].alloc <= JSize
    BY <1>1, <1>2, <1>3, <1>11 DEF Ring, q
  <2>8. a # 0 /\ r.trans[a].alloc = 0 => r.trans[a].start = 0
    BY <1>1, <1>3 DEF Ring
  <2>9. InLog(r, a) = q
    BY <1>10 DEF q
  <2> QED
    BY <2>1, <2>2, <2>3, <2>4, <2>5, <2>6, <2>7, <2>8, <2>9 DEF Ring
<1> QED
  BY <1>1, <1>2, <1>4, <1>5, <1>9, <1>10, <1>13 DEF Sound, Room

(* A block gets a buffer that does not report its write. *)
LEMMA WithBufSound ==
  ASSUME NEW s, NEW a, NEW m, Sound(s, a, {}, 0, 0, m), NEW l \in Home,
         NEW b, DOMAIN b = BufFields, b.endWrite = 0,
         NEW r, r = WithBuf(s, l, b)
  PROVE  Sound(r, a, {}, 0, 0, m) /\ (Room(s, a) => Room(r, a))
<1>1. Shaped(s) /\ Linked(s, a, {}) /\ Tally(s, 0, 0) /\ Ring(s, a) /\ Tids(s, m) /\ a \in 0 .. MaxTrans
  BY DEF Sound
<1>2. /\ Shaped(r)
      /\ r.trans = s.trans /\ r.cpq = s.cpq /\ r.recq = s.recq /\ r.owner = s.owner
      /\ r.start = s.start /\ r.last = s.last /\ r.allocTid = s.allocTid
      /\ r.buf[l] = b
      /\ \A k \in Home \ {l} : r.buf[k] = s.buf[k]
  BY <1>1, WithBufFields
<1>3. SameLog(s, r)
  BY <1>2 DEF SameLog
<1>4. Ring(r, a) /\ Tids(r, m) /\ InLog(r, a) = InLog(s, a)
  BY <1>1, <1>3, SameLogRing
<1>5. Linked(r, a, {})
  <2>1. \A k \in Home : r.buf[k].endWrite # 0 => r.buf[k].endWrite = s.buf[k].endWrite /\ s.buf[k].endWrite # 0
    BY <1>2
  <2> QED
    BY <1>1, <1>2, <2>1 DEF Linked
<1> QED
  BY <1>1, <1>2, <1>4, <1>5 DEF Sound, Tally, Room

(* The active transaction keeps its buffers as they are. *)
HeldSame(s, r, a) ==
  a # 0 => /\ ToSet(r.trans[a].bufq) = ToSet(s.trans[a].bufq)
           /\ \A x \in ToSet(s.trans[a].bufq) : r.buf[x] = s.buf[x]

LEMMA HeldByRecords ==
  ASSUME NEW s, NEW r, NEW a \in 0 .. MaxTrans, NEW m, Sound(s, a, {}, 0, 0, m), Sound(r, a, {}, 0, 0, m), NEW l \in Home,
         \A x \in Home \ {l} : r.recq[x] = s.recq[x] /\ r.buf[x] = s.buf[x],
         a \in ToSet(r.recq[l]) <=> a \in ToSet(s.recq[l]),
         a \in ToSet(s.recq[l]) => r.buf[l] = s.buf[l]
  PROVE  HeldSame(s, r, a)
<1> SUFFICES ASSUME a # 0
             PROVE /\ ToSet(r.trans[a].bufq) = ToSet(s.trans[a].bufq)
                   /\ \A x \in ToSet(s.trans[a].bufq) : r.buf[x] = s.buf[x]
  BY DEF HeldSame
<1>1. a \in Trans
  BY JournalAssumption DEF Trans
<1>2. s.trans[a].bufq \in Seq(Home) /\ r.trans[a].bufq \in Seq(Home)
  BY <1>1 DEF Sound, Shaped, TransShaped
<1>3. ToSet(s.trans[a].bufq) \subseteq Home /\ ToSet(r.trans[a].bufq) \subseteq Home
  BY <1>2, MembersOf
<1>4. \A x \in Home : x \in ToSet(s.trans[a].bufq) <=> a \in ToSet(s.recq[x])
  BY <1>1 DEF Sound, Linked
<1>5. \A x \in Home : x \in ToSet(r.trans[a].bufq) <=> a \in ToSet(r.recq[x])
  BY <1>1 DEF Sound, Linked
<1>6. \A x \in Home : a \in ToSet(r.recq[x]) <=> a \in ToSet(s.recq[x])
  OBVIOUS
<1>7. ToSet(r.trans[a].bufq) = ToSet(s.trans[a].bufq)
  BY <1>3, <1>4, <1>5, <1>6
<1> QED
  BY <1>3, <1>4, <1>7

(* The cache writes a buffer that the active transaction does not hold. *)
LEMMA FlushedHeld ==
  ASSUME NEW s, NEW a, NEW m, Sound(s, a, {}, 0, 0, m), NEW l \in Home, NEW ok \in BOOLEAN,
         a = 0 \/ l \notin ToSet(s.trans[a].bufq),
         NEW r, r = Flushed(s, l, ok)
  PROVE  Sound(r, a, {}, 0, 0, m) /\ Frame(s, r, a) /\ HeldSame(s, r, a)
         /\ \A x \in Home \ {l} : r.recq[x] = s.recq[x]
<1>1. /\ Sound(r, a, {}, 0, 0, m) /\ Frame(s, r, a)
      /\ s.buf[l].endWrite # 0 => r.recq[l] = <<>>
      /\ s.buf[l].endWrite = 0 => r.recq[l] = s.recq[l]
      /\ \A x \in Home \ {l} : r.recq[x] = s.recq[x] /\ r.buf[x] = s.buf[x]
  BY FlushedSound
<1>2. a \in 0 .. MaxTrans
  BY DEF Sound
<1>3. CASE a = 0
  BY <1>1, <1>3 DEF HeldSame
<1>4. CASE a # 0
  <2>1. a \in Trans
    BY <1>2, <1>4, JournalAssumption DEF Trans
  <2>2. a \notin ToSet(s.recq[l])
    BY <1>4, <2>1 DEF Sound, Linked
  <2>3. ToSet(<<>>) = {}
    BY DEF ToSet
  <2>4. a \notin ToSet(r.recq[l])
    BY <1>1, <2>2, <2>3
  <2> QED
    BY <1>1, <1>2, <2>2, <2>4, HeldByRecords
<1> QED
  BY <1>3, <1>4

(* jbd_journal_flush_trans writes one block of a queued transaction. *)
LEMMA FlushOneSound ==
  ASSUME NEW a, NEW m, Sound(j, a, {}, 0, 0, m), NEW t \in Trans, t # a, NEW l \in Home, l \in ToSet(j.trans[t].bufq),
         NEW r, r = FlushOne(t, l)
  PROVE  Sound(r, a, {}, 0, 0, m) /\ Frame(j, r, a) /\ HeldSame(j, r, a)
         /\ \A x \in Home \ {l} : r.recq[x] = j.recq[x]
<1>1. Shaped(j) /\ Linked(j, a, {}) /\ a \in 0 .. MaxTrans
  BY DEF Sound
<1>2. j.owner[l] = t => a = 0 \/ l \notin ToSet(j.trans[a].bufq)
  BY <1>1 DEF Linked
<1>3. CASE j.buf[l].uptodate /\ j.owner[l] = t /\ j.buf[l].dirty
  <2> DEFINE ok == TRUE
  <2>1. r = Flushed(j, l, ok) /\ ok \in BOOLEAN
    BY <1>3 DEF FlushOne
  <2>2. Sound(j, a, {}, 0, 0, m) /\ l \in Home /\ (a = 0 \/ l \notin ToSet(j.trans[a].bufq))
    BY <1>2, <1>3
  <2> HIDE DEF ok
  <2> QED
    BY ONLY <2>1, <2>2, FlushedHeld
<1>4. CASE j.buf[l].uptodate /\ j.owner[l] = t /\ ~j.buf[l].dirty
  <2>1. r = j
    BY <1>4 DEF FlushOne
  <2> QED
    BY <2>1, FrameReflexive DEF HeldSame
<1>5. CASE ~(j.buf[l].uptodate /\ j.owner[l] = t)
  <2> DEFINE o == <<WHome(l, Contents(log[j.trans[t].jlba[l]]))>>
             w == WithOut(j, o)
  <2>1. r = EndWrite(w, t, l)
    BY <1>5 DEF FlushOne, WithOut
  <2> HIDE DEF o
  <2>2. Sound(w, a, {}, 0, 0, m)
    <3> HIDE DEF w
    <3>1. w = WithOut(j, o)
      BY DEF w
    <3> QED
      BY <3>1, OutSound
  <2>3. /\ w.trans = j.trans /\ w.cpq = j.cpq /\ w.recq = j.recq /\ w.owner = j.owner /\ w.buf = j.buf
        /\ w.start = j.start /\ w.last = j.last /\ w.allocTid = j.allocTid
    BY <1>1, WithOutFields
  <2> HIDE DEF w
  <2>4. t \in ToSet(w.recq[l])
    BY <1>1, <2>3 DEF Linked
  <2>5. /\ Sound(r, a, {}, 0, 0, m) /\ Frame(w, r, a)
        /\ w.owner[l] = t => r.recq[l] = <<>>
        /\ w.owner[l] # t => ToSet(r.recq[l]) = ToSet(w.recq[l]) \ {t} /\ r.buf[l] = w.buf[l]
        /\ \A x \in Home \ {l} : r.recq[x] = w.recq[x] /\ r.buf[x] = w.buf[x]
    <3>1. t \in Trans /\ l \in Home
      OBVIOUS
    <3> QED
      BY ONLY <2>1, <2>2, <2>4, <3>1, EndWriteSound, SMTT(20)
  <2>6. Frame(j, r, a)
    <3>1. SameLog(j, w)
      BY <2>3 DEF SameLog
    <3>2. Frame(j, w, a)
      BY <1>1, <3>1, SameLogFrame
    <3> QED
      BY <2>5, <3>2, FrameTransitive
  <2>7. HeldSame(j, r, a)
    <3>1. CASE a = 0
      BY <3>1 DEF HeldSame
    <3>2. CASE a # 0
      <4>1. a \in Trans
        BY <1>1, <3>2, JournalAssumption DEF Trans
      <4>2. ToSet(<<>>) = {}
        BY DEF ToSet
      <4>3. a \in ToSet(r.recq[l]) <=> a \in ToSet(j.recq[l])
        BY <1>1, <1>2, <2>3, <2>5, <3>2, <4>1, <4>2 DEF Linked
      <4>4. a \in ToSet(j.recq[l]) => r.buf[l] = j.buf[l]
        BY <1>1, <1>2, <2>3, <2>5, <3>2, <4>1 DEF Linked
      <4>5. \A x \in Home \ {l} : r.recq[x] = j.recq[x] /\ r.buf[x] = j.buf[x]
        BY <2>3, <2>5
      <4> QED
        BY <1>1, <2>5, <4>3, <4>4, <4>5, HeldByRecords
    <3> QED
      BY <3>1, <3>2
  <2> QED
    BY <2>3, <2>5, <2>6, <2>7
<1> QED
  BY <1>3, <1>4, <1>5

(* A complete transaction leaves the head of the queue. *)
LEMMA PoppedSound ==
  ASSUME NEW s, NEW a, NEW m, Sound(s, a, {}, 0, 0, m), s.cpq # <<>>, Complete(s, Head(s.cpq)),
         NEW r, r = Popped(s)
  PROVE  /\ Sound(r, a, {}, 0, 0, m) /\ Frame(s, r, a) /\ Room(r, a)
         /\ a # 0 => r.trans[a] = s.trans[a]
         /\ r.buf = s.buf
<1>1. Shaped(s) /\ Linked(s, a, {}) /\ Ring(s, a) /\ a \in 0 .. MaxTrans
  BY DEF Sound
<1>2. s.cpq \in Seq(Trans) /\ Head(s.cpq) = s.cpq[1] /\ Len(s.cpq) \in Nat /\ 1 \in 0 .. Len(s.cpq) /\ Head(s.cpq) \in ToSet(s.cpq)
  <2>1. s.cpq \in Seq(Trans)
    BY <1>1 DEF Shaped
  <2> QED
    BY <2>1, MembersOf
<1> DEFINE X == {}
           d == 0
           n == 1
<1>3. Dropped(s, r, n)
  BY <1>1, PoppedDrops
<1>4. Sound(s, a, X, d, d, m) /\ d \in Nat /\ n \in 0 .. Len(s.cpq) /\ (d = 0 \/ d > 0)
  BY <1>2
<1>5. \A i \in 1 .. n : Complete(s, s.cpq[i])
  BY <1>2
<1>6. a # 0 => r.trans[a] = s.trans[a]
  <2> SUFFICES ASSUME a # 0 PROVE r.trans[a] = s.trans[a]
    OBVIOUS
  <2>1. a \in Trans
    BY <1>1, JournalAssumption DEF Trans
  <2>2. Gone(s, n) = {Head(s.cpq)}
    BY <1>2 DEF Gone
  <2>3. a \notin Gone(s, n)
    BY <1>1, <1>2, <2>2 DEF Linked
  <2> QED
    BY <1>3, <2>1, <2>3 DEF Dropped
<1>7. n > 0 /\ r.buf = s.buf
  BY <1>3 DEF Dropped
<1> HIDE DEF X, d, n
<1>8. Sound(r, a, X, d, d, m) /\ Frame(s, r, a) /\ (n > 0 => Room(r, a))
  BY <1>3, <1>4, <1>5, DroppedSound
<1> QED
  BY <1>6, <1>7, <1>8 DEF X, d

(* jbd_trans_set_block_dirty: the block joins the active transaction, whose
   number its buffer reports. *)
Dirtied(s, l) ==
  [s EXCEPT !.buf[l] = [val |-> cur, uptodate |-> TRUE, dirty |-> TRUE, endWrite |-> cur],
            !.owner[l] = cur,
            !.recq[l] = Append(@, cur),
            !.trans[cur].dataCnt = @ + 1,
            !.trans[cur].bufq = <<l>> \o @,
            !.trans[cur].revoke = @ \ {l}]

LEMMA DirtiedSound ==
  ASSUME NEW s, cur \in Trans, NEW m, Sound(s, cur, {}, 0, 0, m), NEW l \in Home,
         l \notin ToSet(s.trans[cur].bufq),
         NEW r, r = Dirtied(s, l)
  PROVE  /\ Sound(r, cur, {}, 0, 0, m)
         /\ Room(s, cur) => Room(r, cur)
         /\ r.cpq = s.cpq /\ r.allocTid = s.allocTid
         /\ r.trans[cur].alloc = s.trans[cur].alloc
<1> DEFINE t == s.trans[cur]
           b == [val |-> cur, uptodate |-> TRUE, dirty |-> TRUE, endWrite |-> cur]
<1>1. Shaped(s) /\ Linked(s, cur, {}) /\ Tally(s, 0, 0) /\ Ring(s, cur) /\ Tids(s, m) /\ cur \in 0 .. MaxTrans
  BY DEF Sound
<1>2. cur # 0
  BY JournalAssumption DEF Trans
<1>3. DOMAIN s = JournalFields /\ DOMAIN t = TransFields /\ TransShaped(t) /\ DOMAIN s.trans = Trans
  BY <1>1, FieldNames DEF Shaped, TransShaped
<1>4. /\ r.cpq = s.cpq /\ r.start = s.start /\ r.last = s.last /\ r.allocTid = s.allocTid
      /\ r.buf = [s.buf EXCEPT ![l] = b]
      /\ r.owner = [s.owner EXCEPT ![l] = cur]
      /\ r.recq = [s.recq EXCEPT ![l] = Append(@, cur)]
      /\ r.trans = [[[s.trans EXCEPT ![cur].dataCnt = @ + 1] EXCEPT ![cur].bufq = <<l>> \o @]
                              EXCEPT ![cur].revoke = @ \ {l}]
      /\ DOMAIN r = DOMAIN s
  BY <1>3 DEF Dirtied, JournalFields
<1>5. /\ r.trans[cur] = [[[t EXCEPT !.dataCnt = t.dataCnt + 1] EXCEPT !.bufq = <<l>> \o t.bufq]
                             EXCEPT !.revoke = t.revoke \ {l}]
      /\ \A x \in Trans \ {cur} : r.trans[x] = s.trans[x]
      /\ DOMAIN r.trans = Trans
  <2> DEFINE T1 == [s.trans EXCEPT ![cur].dataCnt = @ + 1]
             T2 == [T1 EXCEPT ![cur].bufq = <<l>> \o @]
             t1 == [t EXCEPT !.dataCnt = t.dataCnt + 1]
             t2 == [t1 EXCEPT !.bufq = <<l>> \o t.bufq]
  <2>1. /\ T1[cur] = t1
        /\ \A x \in Trans \ {cur} : T1[x] = s.trans[x]
        /\ DOMAIN T1 = Trans
    BY <1>3
  <2>2. t1.bufq = t.bufq /\ t1.revoke = t.revoke /\ DOMAIN t1 = TransFields
    BY <1>3 DEF TransFields
  <2>3. r.trans = [T2 EXCEPT ![cur].revoke = @ \ {l}]
    BY <1>4
  <2> HIDE DEF T1, t1
  <2>4. /\ T2[cur] = t2
        /\ \A x \in Trans \ {cur} : T2[x] = s.trans[x]
        /\ DOMAIN T2 = Trans
    BY <2>1, <2>2
  <2>5. t2.revoke = t.revoke
    BY <2>2 DEF TransFields
  <2> HIDE DEF T2, t2
  <2>6. /\ r.trans[cur] = [t2 EXCEPT !.revoke = t.revoke \ {l}]
        /\ \A x \in Trans \ {cur} : r.trans[x] = s.trans[x]
        /\ DOMAIN r.trans = Trans
    BY <2>3, <2>4, <2>5
  <2> QED
    BY <2>6 DEF t2, t1
<1>6. /\ r.trans[cur].dataCnt = t.dataCnt + 1
      /\ r.trans[cur].bufq = <<l>> \o t.bufq
      /\ r.trans[cur].revoke = t.revoke \ {l}
      /\ \A f \in TransFields \ {"dataCnt", "bufq", "revoke"} : r.trans[cur][f] = t[f]
      /\ DOMAIN r.trans[cur] = TransFields
  BY <1>3, <1>5 DEF TransFields
<1>7. /\ r.trans[cur].written = t.written /\ r.trans[cur].start = t.start /\ r.trans[cur].alloc = t.alloc
      /\ r.trans[cur].tid = t.tid
  BY <1>6 DEF TransFields
<1>8. /\ r.trans[cur].bufq \in Seq(Home)
      /\ Len(r.trans[cur].bufq) = Len(t.bufq) + 1
      /\ ToSet(r.trans[cur].bufq) = ToSet(t.bufq) \cup {l}
      /\ IsInjective(r.trans[cur].bufq)
  <2>1. t.bufq \in Seq(Home) /\ IsInjective(t.bufq)
    BY <1>1, <1>3 DEF TransShaped, Linked
  <2> QED
    BY <1>6, <2>1, PrependOnce
<1>9. /\ r.buf[l] = b /\ b.endWrite = cur /\ DOMAIN b = BufFields
      /\ \A k \in Home \ {l} : r.buf[k] = s.buf[k]
      /\ r.owner[l] = cur
      /\ \A k \in Home \ {l} : r.owner[k] = s.owner[k]
      /\ r.recq[l] = Append(s.recq[l], cur)
      /\ \A k \in Home \ {l} : r.recq[k] = s.recq[k]
      /\ DOMAIN r.buf = Home
  BY <1>1, <1>4 DEF Shaped, BufFields
<1> HIDE DEF b
<1>10. cur \notin ToSet(s.recq[l])
  BY <1>1 DEF Linked
<1>11. /\ r.recq[l] \in Seq(Trans) /\ r.recq[l] # <<>> /\ Last(r.recq[l]) = cur
       /\ ToSet(r.recq[l]) = ToSet(s.recq[l]) \cup {cur}
       /\ IsInjective(r.recq[l])
  <2>1. s.recq[l] \in Seq(Trans) /\ IsInjective(s.recq[l])
    BY <1>1 DEF Shaped, Linked
  <2> QED
    BY <1>9, <1>10, <2>1, AppendOnce
<1>12. TransShaped(r.trans[cur])
  <2>1. r.trans[cur].dataCnt \in Int /\ r.trans[cur].revoke \subseteq Home
    BY <1>3, <1>6 DEF TransShaped
  <2> QED
    BY <1>3, <1>6, <1>7, <1>8, <2>1, FieldNames DEF TransShaped
<1>13. Shaped(r)
  <2>1. r.recq \in [Home -> Seq(Trans)]
    <3>1. s.recq \in [Home -> Seq(Trans)] /\ Append(s.recq[l], cur) \in Seq(Trans)
      BY <1>1, <1>9, <1>11 DEF Shaped
    <3> QED
      BY <1>4, <3>1
  <2>2. r.owner \in [Home -> 0 .. MaxTrans]
    BY <1>1, <1>4 DEF Shaped
  <2>3. \A k \in Home : DOMAIN r.buf[k] = DOMAIN NoBuf
    BY <1>1, <1>9, FieldNames DEF Shaped
  <2>4. \A x \in Trans : TransShaped(r.trans[x])
    BY <1>1, <1>5, <1>12 DEF Shaped
  <2> QED
    BY <1>1, <1>4, <1>5, <1>9, <2>1, <2>2, <2>3, <2>4 DEF Shaped
<1>14. Linked(r, cur, {})
  <2>1. ASSUME NEW x \in Trans, NEW k \in Home
        PROVE k \in ToSet(r.trans[x].bufq) <=> x \in ToSet(r.recq[k])
    <3>1. k \in ToSet(s.trans[x].bufq) <=> x \in ToSet(s.recq[k])
      BY <1>1 DEF Linked
    <3>2. k \in ToSet(r.trans[x].bufq) <=> k \in ToSet(s.trans[x].bufq) \/ (x = cur /\ k = l)
      BY <1>5, <1>8
    <3>3. x \in ToSet(r.recq[k]) <=> x \in ToSet(s.recq[k]) \/ (x = cur /\ k = l)
      <4>1. CASE k = l
        BY <1>11, <4>1
      <4>2. CASE k # l
        <5>1. r.recq[k] = s.recq[k]
          BY <1>9, <4>2
        <5> QED
          BY <4>2, <5>1
      <4> QED
        BY <4>1, <4>2
    <3> QED
      BY <3>1, <3>2, <3>3
  <2>2. \A x \in Trans : IsInjective(r.trans[x].bufq)
    BY <1>1, <1>5, <1>8 DEF Linked
  <2>3. \A k \in Home : IsInjective(r.recq[k])
    <3>1. \A k \in Home : IsInjective(s.recq[k])
      BY <1>1 DEF Linked
    <3>2. \A k \in Home \ {l} : IsInjective(r.recq[k])
      BY ONLY <1>9, <3>1
    <3> QED
      BY ONLY <1>11, <3>2
  <2>4. ASSUME NEW k \in Home, r.recq[k] # <<>> PROVE r.owner[k] = Last(r.recq[k])
    <3>1. CASE k = l
      BY <1>9, <1>11, <3>1
    <3>2. CASE k # l
      <4>1. r.recq[k] = s.recq[k] /\ r.owner[k] = s.owner[k]
        BY <1>9, <3>2
      <4> QED
        BY <1>1, <2>4, <4>1 DEF Linked
    <3> QED
      BY <3>1, <3>2
  <2>5. \A k \in Home : r.buf[k].endWrite # 0 => r.buf[k].endWrite = r.owner[k] /\ r.recq[k] # <<>>
    BY <1>1, <1>9, <1>11 DEF Linked
  <2>6. IsInjective(r.cpq) /\ cur \notin ToSet(r.cpq)
    BY <1>1, <1>4 DEF Linked
  <2>7. \A x \in Trans : x \notin ToSet(r.cpq) /\ x # cur => r.trans[x] = NoTrans
    <3>1. \A x \in Trans : x \notin ToSet(s.cpq) /\ x # cur => s.trans[x] = NoTrans
      BY <1>1 DEF Linked
    <3>2. r.cpq = s.cpq
      BY <1>4
    <3> QED
      BY <1>5, <3>1, <3>2
  <2>8. \A k \in ToSet(r.trans[cur].bufq) : r.owner[k] = cur
    <3>1. t.bufq \in Seq(Home)
      BY <1>3 DEF TransShaped
    <3>2. ToSet(t.bufq) \subseteq Home
      BY <3>1, MembersOf
    <3>3. \A k \in ToSet(t.bufq) : s.owner[k] = cur
      BY <1>1, <1>2 DEF Linked
    <3> QED
      BY <1>8, <1>9, <3>2, <3>3
  <2> QED
    BY <2>1, <2>2, <2>3, <2>4, <2>5, <2>6, <2>7, <2>8 DEF Linked
<1>15. Tally(r, 0, 0)
  <2>1. PICK n \in Nat, h \in Nat : n = t.written /\ h = Len(t.bufq)
    BY <1>3 DEF TransShaped
  <2>2. t.dataCnt = n + h
    BY <1>1, <2>1 DEF Tally
  <2>3. r.trans[cur].dataCnt = n + h + 1 /\ r.trans[cur].written = n /\ Len(r.trans[cur].bufq) = h + 1
    BY <1>6, <1>7, <1>8, <2>1, <2>2
  <2>4. r.trans[cur].dataCnt = r.trans[cur].written + Len(r.trans[cur].bufq) + 0
    BY <2>3
  <2>5. ASSUME NEW x \in Trans, x # cur
        PROVE r.trans[x].dataCnt = r.trans[x].written + Len(r.trans[x].bufq) + 0
    BY <1>1, <1>5, <2>5 DEF Tally
  <2> QED
    BY <2>4, <2>5 DEF Tally
<1> DEFINE v == [s.trans[cur] EXCEPT !.revoke = t.revoke \ {l}]
           w == WithTrans(s, cur, v)
<1>16. /\ v.bufq = t.bufq /\ v.dataCnt = t.dataCnt /\ v.written = t.written /\ v.start = t.start /\ v.alloc = t.alloc
       /\ v.tid = t.tid /\ v.revoke = t.revoke \ {l} /\ DOMAIN v = TransFields
  BY <1>3 DEF TransFields
<1> HIDE DEF v
<1>17. TransShaped(v)
  BY <1>3, <1>16, FieldNames DEF TransShaped
<1>18. /\ Shaped(w)
       /\ w.cpq = s.cpq /\ w.recq = s.recq /\ w.owner = s.owner /\ w.buf = s.buf
       /\ w.start = s.start /\ w.last = s.last /\ w.allocTid = s.allocTid
       /\ w.trans[cur] = v
       /\ \A x \in Trans \ {cur} : w.trans[x] = s.trans[x]
  BY <1>1, <1>17, WithTransFields
<1>19. Sound(w, cur, {}, 0, 0, m) /\ (Room(s, cur) => Room(w, cur))
  <2> HIDE DEF w
  <2>1. w = WithTrans(s, cur, v)
    BY DEF w
  <2> QED
    BY <1>16, <1>17, <2>1, WithTransSound
<1> HIDE DEF w
<1>20. SameLog(w, r)
  <2>1. ASSUME NEW x \in Trans
        PROVE /\ r.trans[x].start = w.trans[x].start /\ r.trans[x].alloc = w.trans[x].alloc
              /\ r.trans[x].tid = w.trans[x].tid /\ r.trans[x].revoke = w.trans[x].revoke
    <3>1. CASE x = cur
      BY <1>6, <1>7, <1>16, <1>18, <3>1
    <3>2. CASE x # cur
      BY <1>5, <1>18, <3>2
    <3> QED
      BY <3>1, <3>2
  <2>2. r.cpq = w.cpq /\ r.start = w.start /\ r.last = w.last /\ r.allocTid = w.allocTid
    BY <1>4, <1>18
  <2> QED
    BY <2>1, <2>2 DEF SameLog
<1>21. Ring(r, cur) /\ Tids(r, m) /\ InLog(r, cur) = InLog(w, cur)
  BY <1>1, <1>18, <1>19, <1>20, SameLogRing DEF Sound
<1>22. Room(s, cur) => Room(r, cur)
  BY <1>4, <1>18, <1>19, <1>21 DEF Room
<1> QED
  BY <1>1, <1>4, <1>7, <1>13, <1>14, <1>15, <1>21, <1>22 DEF Sound

Working == {"prepare", "revoke", "commit", "end"}

(* The transaction that is not in the checkpoint queue: the current one, up
   to the end of its commit. *)
Outside(o, c) == IF o.at = "return" THEN 0 ELSE c

OpShaped(o) ==
  /\ DOMAIN o = DOMAIN Idle
  /\ o.at \in Working \cup {"idle", "return", "stop", "panic"}
  /\ o.todo \in Seq(Home) /\ o.purge \in Seq(Trans \X Home) /\ o.full \in BOOLEAN

(* The commit in progress goes on with the id the journal gives out next,
   and gives its blocks of the log back from the right place. *)
CommitInv(s, o, c) ==
  /\ o.at \in Working =>
       /\ c # 0 /\ s.trans[c].tid = s.allocTid
       /\ o.last = IF s.trans[c].alloc > 0 THEN s.trans[c].start ELSE s.last
  /\ o.at = "idle" /\ c # 0 => s.trans[c].alloc = 0
  /\ o.at = "stop" => c = 0
  /\ o.at \in {"revoke", "commit", "end"} => s.trans[c].alloc > 0

(* jbd_journal_prepare works through buffers of the transaction; once it has
   taken a block of the log, a dirty one stays. *)
PrepareInv(s, o, c) ==
  o.at = "prepare" =>
    /\ ToSet(o.todo) \subseteq ToSet(s.trans[c].bufq) /\ IsInjective(o.todo)
    /\ s.trans[c].alloc > 0 => \E l \in ToSet(s.trans[c].bufq) : s.buf[l].dirty
    /\ o.idx # 0 => o.todo # <<>>

(* jbd_journal_flush_trans works through buffers of the head of the queue. *)
PurgeInv(s, o) ==
  /\ o.full => o.at \in Working /\ s.cpq # <<>>
  /\ o.purge # <<>> =>
       /\ o.full \/ o.at = "stop"
       /\ s.cpq # <<>>
       /\ IsInjective(o.purge)
       /\ \A i \in 1 .. Len(o.purge) : /\ o.purge[i][1] = Head(s.cpq)
                                       /\ o.purge[i][2] \in ToSet(s.trans[Head(s.cpq)].bufq)

RoomInv(s, o, c) == ~o.full /\ o.at # "panic" => Room(s, Outside(o, c))

UpInv(s, o, c) ==
  /\ c \in 0 .. MaxTrans
  /\ Sound(s, Outside(o, c), {}, 0, 0, s.allocTid)
  /\ OpShaped(o)
  /\ CommitInv(s, o, c) /\ PrepareInv(s, o, c) /\ PurgeInv(s, o) /\ RoomInv(s, o, c)

(* The inductive invariant: the records agree, and while the journal is in
   use the operation in progress agrees with them. *)
IInv ==
  /\ count \in 0 .. MaxTrans /\ cur \in 0 .. count /\ ToSet(j.cpq) \subseteq 1 .. count
  /\ phase = "up" => UpInv(j, op, cur)
  /\ phase # "up" => /\ Shaped(j) /\ Linked(j, 0, {}) /\ Tally(j, 0, 0)
                     /\ j.cpq = <<>> /\ cur = 0 /\ op = Idle

OpFields == {"at", "todo", "desc", "tags", "idx", "full", "purge", "last"}

LEMMA IdleShaped ==
  /\ DOMAIN Idle = OpFields
  /\ OpShaped(Idle) /\ Idle.at = "idle" /\ Idle.purge = <<>> /\ Idle.full = FALSE
  /\ DOMAIN Panic = OpFields
  /\ OpShaped(Panic) /\ Panic.at = "panic" /\ Panic.purge = <<>> /\ Panic.full = FALSE
<1>1. /\ DOMAIN Idle = OpFields
      /\ Idle.at = "idle" /\ Idle.purge = <<>> /\ Idle.full = FALSE /\ Idle.todo = <<>>
  BY DEF Idle, OpFields
<1>2. /\ DOMAIN Panic = OpFields
      /\ Panic.at = "panic" /\ Panic.purge = <<>> /\ Panic.full = FALSE /\ Panic.todo = <<>>
  BY DEF Panic, Idle, OpFields
<1>3. <<>> \in Seq(Home) /\ <<>> \in Seq(Trans \X Home)
  OBVIOUS
<1> QED
  BY <1>1, <1>2, <1>3 DEF OpShaped

(* The parts of op that the invariant looks at. *)
LEMMA IdleUp ==
  ASSUME NEW s, NEW c \in 0 .. MaxTrans, Sound(s, c, {}, 0, 0, s.allocTid), Room(s, c),
         c # 0 => s.trans[c].alloc = 0,
         NEW o, OpShaped(o), o.at = "idle", o.purge = <<>>, o.full = FALSE
  PROVE  UpInv(s, o, c)
<1>1. CommitInv(s, o, c) /\ PrepareInv(s, o, c) /\ PurgeInv(s, o) /\ RoomInv(s, o, c)
  BY DEF CommitInv, PrepareInv, PurgeInv, RoomInv, Outside, Working
<1> QED
  BY <1>1 DEF UpInv, Outside

LEMMA QuietUp ==
  ASSUME UpInv(j, op, cur), op.at = "idle"
  PROVE  /\ Sound(j, cur, {}, 0, 0, j.allocTid) /\ Room(j, cur) /\ cur \in 0 .. MaxTrans
         /\ cur # 0 => j.trans[cur].alloc = 0 /\ cur \in Trans
         /\ OpShaped(op) /\ op.purge = <<>> /\ op.full = FALSE
BY JournalAssumption DEF UpInv, CommitInv, PurgeInv, RoomInv, Outside, Working, OpShaped, Trans

LEMMA PanicUp ==
  ASSUME NEW s, NEW c \in 0 .. MaxTrans, Sound(s, c, {}, 0, 0, s.allocTid),
         NEW o, o = Panic \/ o = [Panic EXCEPT !.purge = <<>>]
  PROVE  UpInv(s, o, c)
<1>1. OpShaped(o) /\ o.at = "panic" /\ o.purge = <<>> /\ o.full = FALSE
  BY IdleShaped DEF OpShaped, OpFields
<1>2. CommitInv(s, o, c) /\ PrepareInv(s, o, c) /\ PurgeInv(s, o) /\ RoomInv(s, o, c)
  BY <1>1 DEF CommitInv, PrepareInv, PurgeInv, RoomInv, Working
<1> QED
  BY <1>1, <1>2 DEF UpInv, Outside

LEMMA OutUp ==
  ASSUME NEW s, NEW o, NEW c, UpInv(s, o, c), NEW x, NEW r, r = WithOut(s, x)
  PROVE  UpInv(r, o, c) /\ r.cpq = s.cpq /\ Shaped(r)
<1> DEFINE a == Outside(o, c)
           m == s.allocTid
<1>1. Sound(s, a, {}, 0, 0, m) /\ Shaped(s)
  BY DEF UpInv, Sound
<1>2. /\ Shaped(r)
      /\ r.trans = s.trans /\ r.cpq = s.cpq /\ r.buf = s.buf
      /\ r.start = s.start /\ r.last = s.last /\ r.allocTid = s.allocTid
  BY <1>1, WithOutFields
<1> HIDE DEF a, m
<1>3. Sound(r, a, {}, 0, 0, m)
  BY <1>1, OutSound
<1>4. CommitInv(r, o, c)
  BY <1>2 DEF UpInv, CommitInv
<1>5. PrepareInv(r, o, c)
  BY <1>2 DEF UpInv, PrepareInv
<1>6. PurgeInv(r, o)
  BY <1>2 DEF UpInv, PurgeInv
<1>7. InLog(r, a) = InLog(s, a)
  BY <1>2 DEF InLog
<1>8. RoomInv(r, o, c)
  BY <1>2, <1>7 DEF UpInv, RoomInv, Room, a
<1> QED
  BY <1>2, <1>3, <1>4, <1>5, <1>6, <1>8 DEF UpInv, a, m

(* A step that leaves the journal in state r keeps the invariant. *)
LEMMA BecomesUp ==
  ASSUME NEW r, Becomes(r), UpInv(r, op', cur'), phase' = "up",
         count' \in 0 .. MaxTrans, cur' \in 0 .. count', ToSet(r.cpq) \subseteq 1 .. count'
  PROVE  IInv'
<1>1. j' = WithOut(r, <<>>)
  BY DEF Becomes, WithOut
<1> DEFINE w == WithOut(r, <<>>)
           o == op'
           c == cur'
<1>2. UpInv(w, o, c) /\ w.cpq = r.cpq
  <2> DEFINE x == <<>>
  <2>1. w = WithOut(r, x) /\ UpInv(r, o, c)
    OBVIOUS
  <2> HIDE DEF w, o, c, x
  <2> QED
    BY <2>1, OutUp
<1> HIDE DEF w
<1>3. UpInv(j', op', cur') /\ j'.cpq = r.cpq
  BY <1>1, <1>2 DEF w
<1> QED
  BY <1>3 DEF IInv

(* Room in the log stays when only the head of the queue leaves. *)
LEMMA FrameRoom ==
  ASSUME NEW s, NEW r, NEW a, Frame(s, r, a), Room(s, a)
  PROVE  Room(r, a)
BY DEF Frame, Room, InLog

(* The end of a write while a commit is in progress. *)
LEMMA FrameInv ==
  ASSUME NEW s, NEW o, NEW c, UpInv(s, o, c), NEW r, NEW a, a = Outside(o, c), Frame(s, r, a), HeldSame(s, r, a)
  PROVE  /\ CommitInv(r, o, c)
         /\ PrepareInv(r, o, c)
         /\ RoomInv(r, o, c)
<1>1. CASE o.at = "return"
  BY <1>1, FrameRoom DEF UpInv, CommitInv, PrepareInv, RoomInv, Working, Outside
<1>2. CASE o.at # "return"
  <2>1. a = c
    BY <1>2 DEF Outside
  <2>2. /\ r.last = s.last /\ r.allocTid = s.allocTid
        /\ c # 0 => /\ r.trans[c].start = s.trans[c].start /\ r.trans[c].alloc = s.trans[c].alloc
                    /\ r.trans[c].tid = s.trans[c].tid
    BY <2>1 DEF Frame
  <2>3. CommitInv(s, o, c) /\ PrepareInv(s, o, c) /\ RoomInv(s, o, c)
    BY DEF UpInv
  <2>4. CommitInv(r, o, c)
    <3>1. o.at \in Working => c # 0
      BY <2>3 DEF CommitInv
    <3>2. {"revoke", "commit", "end"} \subseteq Working
      BY DEF Working
    <3> QED
      BY <2>2, <2>3, <3>1, <3>2 DEF CommitInv
  <2>5. PrepareInv(r, o, c)
    <3>1. o.at = "prepare" => c # 0
      BY <2>3 DEF CommitInv, Working
    <3>2. c # 0 => /\ ToSet(r.trans[c].bufq) = ToSet(s.trans[c].bufq)
                   /\ \A x \in ToSet(s.trans[c].bufq) : r.buf[x] = s.buf[x]
      BY <2>1 DEF HeldSame
    <3> QED
      BY <2>2, <2>3, <3>1, <3>2 DEF PrepareInv
  <2>6. RoomInv(r, o, c)
    BY <2>3, FrameRoom DEF RoomInv
  <2> QED
    BY <2>4, <2>5, <2>6
<1> QED
  BY <1>1, <1>2

(* ext4_trans_start: a transaction that has done nothing is outside the queue. *)
LEMMA StartedSound ==
  ASSUME NEW s, NEW m, Sound(s, 0, {}, 0, 0, m), NEW c \in Trans, c \notin ToSet(s.cpq)
  PROVE  Sound(s, c, {}, 0, 0, m) /\ s.trans[c].alloc = 0 /\ (Room(s, 0) => Room(s, c))
<1>1. /\ Shaped(s) /\ Linked(s, 0, {}) /\ Tally(s, 0, 0) /\ Ring(s, 0) /\ Tids(s, m)
      /\ c \in 0 .. MaxTrans /\ c # 0
  BY JournalAssumption DEF Sound, Trans
<1>2. s.trans[c] = NoTrans
  BY <1>1 DEF Linked
<1>3. s.trans[c].alloc = 0 /\ s.trans[c].start = 0 /\ s.trans[c].bufq = <<>>
  BY <1>2 DEF NoTrans
<1>4. Linked(s, c, {})
  <2>1. \A l \in ToSet(s.trans[c].bufq) : s.owner[l] = c
    BY <1>3 DEF ToSet
  <2>2. \A t \in Trans : t # 0
    BY JournalAssumption DEF Trans
  <2> QED
    BY <1>1, <2>1, <2>2 DEF Linked
<1>5. InLog(s, c) = InLog(s, 0)
  BY <1>3 DEF InLog
<1>6. Ring(s, c)
  BY <1>1, <1>3, <1>5 DEF Ring
<1>7. Room(s, 0) => Room(s, c)
  BY <1>5 DEF Room
<1> QED
  BY <1>1, <1>3, <1>4, <1>6, <1>7 DEF Sound

LEMMA ext4_trans_startKeeps ==
  ASSUME IInv, ext4_trans_start
  PROVE  IInv'
<1> DEFINE c == count + 1
           m == j.allocTid
<1>1. /\ UpInv(j, op, cur) /\ op.at = "idle" /\ cur = 0 /\ phase' = "up" /\ count' = c /\ cur' = c
      /\ j' = j /\ op' = op /\ count \in 0 .. MaxTrans /\ count < MaxTrans /\ ToSet(j.cpq) \subseteq 1 .. count
  BY DEF IInv, ext4_trans_start, Quiet
<1>2. c \in Trans /\ c \in 0 .. MaxTrans /\ c \notin ToSet(j.cpq) /\ ToSet(j.cpq) \subseteq 1 .. c /\ c \in 0 .. c
  BY <1>1, JournalAssumption DEF Trans
<1> HIDE DEF c, m
<1>3. Sound(j, 0, {}, 0, 0, m) /\ Room(j, 0) /\ OpShaped(op) /\ op.purge = <<>> /\ op.full = FALSE
  BY <1>1, QuietUp DEF m
<1>4. Sound(j, c, {}, 0, 0, m) /\ j.trans[c].alloc = 0 /\ Room(j, c)
  BY <1>2, <1>3, StartedSound
<1>5. UpInv(j, op, c)
  BY <1>1, <1>2, <1>3, <1>4, IdleUp DEF m
<1> QED
  BY <1>1, <1>2, <1>5 DEF IInv

LEMMA jbd_trans_set_block_dirtyKeeps ==
  ASSUME IInv, NEW l \in Home, jbd_trans_set_block_dirty(l)
  PROVE  IInv'
<1> DEFINE r == Dirtied(j, l)
           m == j.allocTid
<1>1. /\ UpInv(j, op, cur) /\ op.at = "idle" /\ cur # 0 /\ phase' = "up" /\ count' = count /\ cur' = cur
      /\ op' = op /\ count \in 0 .. MaxTrans /\ cur \in 0 .. count /\ ToSet(j.cpq) \subseteq 1 .. count
      /\ l \notin ToSet(j.trans[cur].bufq)
  BY DEF IInv, jbd_trans_set_block_dirty, Quiet
<1>2. Becomes(r)
  BY DEF jbd_trans_set_block_dirty, Dirtied
<1> HIDE DEF m, r
<1>3. /\ Sound(j, cur, {}, 0, 0, m) /\ Room(j, cur) /\ OpShaped(op) /\ op.purge = <<>> /\ op.full = FALSE
      /\ cur \in Trans /\ cur \in 0 .. MaxTrans /\ j.trans[cur].alloc = 0
  BY <1>1, QuietUp DEF m
<1>4. /\ Sound(r, cur, {}, 0, 0, m) /\ Room(r, cur) /\ r.cpq = j.cpq /\ r.allocTid = m
      /\ r.trans[cur].alloc = 0
  BY <1>1, <1>3, DirtiedSound DEF m, r
<1>5. UpInv(r, op, cur)
  BY <1>1, <1>3, <1>4, IdleUp
<1> QED
  BY <1>1, <1>2, <1>4, <1>5, BecomesUp

LEMMA ext4_trans_try_revoke_blockKeeps ==
  ASSUME IInv, NEW l \in Home, ext4_trans_try_revoke_block(l)
  PROVE  IInv'
<1> DEFINE v == [j.trans[cur] EXCEPT !.revoke = IF MustRevoke(l) THEN @ \cup {l} ELSE @]
           u == WithTrans(j, cur, v)
           r == WithBuf(u, l, NoBuf)
           m == j.allocTid
<1>1. /\ UpInv(j, op, cur) /\ op.at = "idle" /\ cur # 0 /\ phase' = "up" /\ count' = count /\ cur' = cur
      /\ op' = op /\ count \in 0 .. MaxTrans /\ cur \in 0 .. count /\ ToSet(j.cpq) \subseteq 1 .. count
  BY DEF IInv, ext4_trans_try_revoke_block, Quiet
<1>3. /\ Sound(j, cur, {}, 0, 0, m) /\ Room(j, cur) /\ OpShaped(op) /\ op.purge = <<>> /\ op.full = FALSE
      /\ cur \in Trans /\ cur \in 0 .. MaxTrans /\ j.trans[cur].alloc = 0
  BY <1>1, QuietUp
<1>4. Shaped(j) /\ TransShaped(j.trans[cur])
  BY <1>3 DEF Sound, Shaped
<1>2. Becomes(r)
  <2>1. Becomes([j EXCEPT !.trans[cur].revoke = IF MustRevoke(l) THEN @ \cup {l} ELSE @,
                          !.buf[l] = NoBuf])
    BY DEF ext4_trans_try_revoke_block
  <2>2. DOMAIN j = JournalFields
    BY <1>4, FieldNames DEF Shaped
  <2>3. r = [j EXCEPT !.trans[cur].revoke = IF MustRevoke(l) THEN @ \cup {l} ELSE @,
                          !.buf[l] = NoBuf]
    BY <2>2 DEF WithTrans, WithBuf, JournalFields
  <2> QED
    BY <2>1, <2>3
<1>5. /\ TransShaped(v) /\ v.bufq = j.trans[cur].bufq /\ v.dataCnt = j.trans[cur].dataCnt
      /\ v.written = j.trans[cur].written /\ v.start = j.trans[cur].start /\ v.alloc = j.trans[cur].alloc
  BY <1>4, FieldNames DEF TransShaped, TransFields
<1>6. /\ DOMAIN NoBuf = BufFields /\ NoBuf.endWrite = 0
  BY FieldNames DEF NoBuf
<1> HIDE DEF v
<1>7. u.cpq = j.cpq /\ u.allocTid = m /\ u.trans[cur] = v /\ Shaped(u)
  BY <1>3, <1>4, <1>5, WithTransFields
<1> HIDE DEF u, m
<1>8. Sound(u, cur, {}, 0, 0, m) /\ Room(u, cur)
  BY <1>3, <1>5, WithTransSound DEF u
<1>9. r.cpq = u.cpq /\ r.allocTid = m /\ r.trans = u.trans
  BY <1>6, <1>7, WithBufFields
<1> HIDE DEF r
<1>10. Sound(r, cur, {}, 0, 0, m) /\ Room(r, cur)
  BY <1>6, <1>8, WithBufSound DEF r
<1>11. r.trans[cur].alloc = 0
  BY <1>3, <1>5, <1>7, <1>9
<1>12. UpInv(r, op, cur)
  BY <1>1, <1>3, <1>9, <1>10, <1>11, IdleUp
<1> QED
  BY <1>1, <1>2, <1>7, <1>9, <1>12, BecomesUp

LEMMA ext4_blocks_set_directKeeps ==
  ASSUME IInv, NEW l \in Home, ext4_blocks_set_direct(l)
  PROVE  IInv'
<1> DEFINE o == <<WHome(l, cur)>>
           r == WithOut(j, o)
<1>1. /\ UpInv(j, op, cur) /\ phase' = "up" /\ count' = count /\ cur' = cur
      /\ op' = op /\ count \in 0 .. MaxTrans /\ cur \in 0 .. count /\ ToSet(j.cpq) \subseteq 1 .. count
  BY DEF IInv, ext4_blocks_set_direct, Quiet
<1>2. Becomes(r)
  BY DEF ext4_blocks_set_direct, WithOut
<1> HIDE DEF o
<1>3. UpInv(r, op, cur) /\ r.cpq = j.cpq
  BY <1>1, OutUp
<1> HIDE DEF r
<1> QED
  BY <1>1, <1>2, <1>3, BecomesUp

LEMMA ext4_trans_block_getKeeps ==
  ASSUME IInv, NEW l \in Home, ext4_trans_block_get(l)
  PROVE  IInv'
<1> DEFINE b == [val |-> disk[l], uptodate |-> TRUE, dirty |-> FALSE, endWrite |-> 0]
           r == WithBuf(j, l, b)
           m == j.allocTid
<1>1. /\ UpInv(j, op, cur) /\ op.at = "idle" /\ phase' = "up" /\ count' = count /\ cur' = cur
      /\ op' = op /\ count \in 0 .. MaxTrans /\ cur \in 0 .. count /\ ToSet(j.cpq) \subseteq 1 .. count
  BY DEF IInv, ext4_trans_block_get, Quiet
<1>2. Becomes(r)
  BY DEF ext4_trans_block_get, WithBuf
<1>3. /\ Sound(j, cur, {}, 0, 0, m) /\ Room(j, cur) /\ OpShaped(op) /\ op.purge = <<>> /\ op.full = FALSE
      /\ cur \in 0 .. MaxTrans /\ (cur # 0 => j.trans[cur].alloc = 0)
  BY <1>1, QuietUp
<1>4. Shaped(j)
  BY <1>3 DEF Sound
<1>5. DOMAIN b = BufFields /\ b.endWrite = 0
  BY DEF BufFields
<1> HIDE DEF b
<1>6. r.cpq = j.cpq /\ r.allocTid = m /\ r.trans = j.trans
  BY <1>4, <1>5, WithBufFields
<1> HIDE DEF m, r
<1>7. Sound(r, cur, {}, 0, 0, m) /\ Room(r, cur)
  BY <1>3, <1>5, WithBufSound DEF r
<1>8. UpInv(r, op, cur)
  BY <1>1, <1>3, <1>6, <1>7, IdleUp
<1> QED
  BY <1>1, <1>2, <1>6, <1>8, BecomesUp

(* What IInv says while the journal is in use. *)
LEMMA UpFacts ==
  ASSUME IInv, phase = "up"
  PROVE  /\ UpInv(j, op, cur)
         /\ count \in 0 .. MaxTrans /\ cur \in 0 .. count /\ ToSet(j.cpq) \subseteq 1 .. count
         /\ cur \in 0 .. MaxTrans
         /\ Sound(j, Outside(op, cur), {}, 0, 0, j.allocTid)
         /\ OpShaped(op) /\ CommitInv(j, op, cur) /\ PrepareInv(j, op, cur) /\ PurgeInv(j, op) /\ RoomInv(j, op, cur)
         /\ cur # 0 => cur \in Trans
         /\ op.at \in Working => cur \in Trans /\ cur \notin ToSet(j.cpq)
         /\ Shaped(j)
<1>1. /\ UpInv(j, op, cur) 
      /\ count \in 0 .. MaxTrans /\ cur \in 0 .. count /\ ToSet(j.cpq) \subseteq 1 .. count
  BY DEF IInv
<1>2. cur \in 0 .. MaxTrans /\ (cur # 0 => cur \in Trans)
  BY <1>1, JournalAssumption DEF Trans
<1>3. /\ Sound(j, Outside(op, cur), {}, 0, 0, j.allocTid)
      /\ OpShaped(op) /\ CommitInv(j, op, cur) /\ PrepareInv(j, op, cur) /\ PurgeInv(j, op) /\ RoomInv(j, op, cur)
  BY <1>1 DEF UpInv
<1>4. Shaped(j)
  BY <1>3 DEF Sound
<1>5. op.at \in Working => cur # 0 /\ cur \notin ToSet(j.cpq)
  <2>1. op.at \in Working => op.at # "return"
    BY DEF Working
  <2> QED
    BY <1>3, <2>1 DEF CommitInv, Sound, Linked, Outside
<1> QED
  BY <1>1, <1>2, <1>3, <1>4, <1>5

LEMMA ext4_block_flush_bufKeeps ==
  ASSUME IInv, NEW l \in Home, ext4_block_flush_buf(l)
  PROVE  IInv'
<1> DEFINE a == Outside(op, cur)
           m == j.allocTid
<1>1. /\ phase = "up" /\ phase' = "up" /\ count' = count /\ cur' = cur /\ op' = op
      /\ ~op.full /\ op.at # "stop" /\ ~Held(l)
  BY DEF ext4_block_flush_buf
<1>2. PICK ok \in BOOLEAN : Becomes(Flushed(j, l, ok))
  BY DEF ext4_block_flush_buf
<1> DEFINE r == Flushed(j, l, ok)
<1>3. /\ UpInv(j, op, cur)
      /\ count \in 0 .. MaxTrans /\ cur \in 0 .. count /\ ToSet(j.cpq) \subseteq 1 .. count
      /\ cur \in 0 .. MaxTrans /\ Sound(j, a, {}, 0, 0, m) /\ OpShaped(op) /\ PurgeInv(j, op)
  BY <1>1, UpFacts
<1>4. a = 0 \/ l \notin ToSet(j.trans[a].bufq)
  BY <1>1 DEF Held, Outside
<1> HIDE DEF a, m, r
<1>5. Sound(r, a, {}, 0, 0, m) /\ Frame(j, r, a) /\ HeldSame(j, r, a)
  BY <1>3, <1>4, FlushedHeld DEF r
<1>6. CommitInv(r, op, cur) /\ PrepareInv(r, op, cur) /\ RoomInv(r, op, cur)
  BY <1>3, <1>5, FrameInv DEF a
<1>7. PurgeInv(r, op)
  BY <1>1, <1>3 DEF PurgeInv
<1>8. r.allocTid = m /\ ToSet(r.cpq) \subseteq ToSet(j.cpq)
  BY <1>5 DEF Frame, m
<1>9. UpInv(r, op, cur)
  BY <1>3, <1>5, <1>6, <1>7, <1>8 DEF UpInv, a
<1> QED
  BY <1>1, <1>2, <1>3, <1>8, <1>9, BecomesUp DEF r

LEMMA ext4_trans_abortKeeps ==
  ASSUME IInv, ext4_trans_abort
  PROVE  IInv'
<1> DEFINE r == Aborted(j, cur)
           m == j.allocTid
<1>1. /\ phase = "up" /\ phase' = "up" /\ count' = count /\ cur' = 0 /\ op' = op /\ op.at = "idle" /\ cur # 0
      /\ Becomes(r)
  BY DEF ext4_trans_abort, Quiet
<1>2. /\ UpInv(j, op, cur) /\ count \in 0 .. MaxTrans /\ ToSet(j.cpq) \subseteq 1 .. count
  BY <1>1, UpFacts
<1>3. /\ Sound(j, cur, {}, 0, 0, m) /\ Room(j, cur) /\ OpShaped(op) /\ op.purge = <<>> /\ op.full = FALSE
      /\ cur \in Trans /\ j.trans[cur].alloc = 0
  BY <1>1, <1>2, QuietUp
<1>4. Shaped(j) /\ Linked(j, cur, {}) /\ Tally(j, 0, 0) /\ Ring(j, cur) /\ Tids(j, m)
  BY <1>3 DEF Sound
<1>5. cur \notin ToSet(j.cpq)
  BY <1>4 DEF Linked
<1> HIDE DEF r, m
<1>6. /\ Shaped(r) /\ Linked(r, 0, {}) /\ Tally(r, 0, 0)
      /\ r.cpq = j.cpq /\ r.start = j.start /\ r.last = j.last /\ r.allocTid = m
      /\ \A x \in Trans \ {cur} : /\ r.trans[x].start = j.trans[x].start /\ r.trans[x].alloc = j.trans[x].alloc
                                  /\ r.trans[x].tid = j.trans[x].tid
  BY <1>3, <1>4, AbortedLinked DEF r, m
<1>7. r.last = IF j.trans[cur].alloc > 0 THEN j.trans[cur].start ELSE j.last
  BY <1>3, <1>6
<1>8. Ring(r, 0) /\ Tids(r, m) /\ Room(r, 0)
  BY <1>3, <1>4, <1>5, <1>6, <1>7, RingUndone
<1>9. 0 \in 0 .. MaxTrans /\ 0 \in 0 .. count
  BY <1>2, JournalAssumption
<1>10. Sound(r, 0, {}, 0, 0, m)
  BY <1>6, <1>8, <1>9 DEF Sound
<1>11. UpInv(r, op, 0)
  BY <1>1, <1>3, <1>6, <1>8, <1>9, <1>10, IdleUp
<1> QED
  BY <1>1, <1>2, <1>6, <1>9, <1>11, BecomesUp

LEMMA CommitBeginKeeps ==
  ASSUME IInv, CommitBegin
  PROVE  IInv'
<1> DEFINE m == j.allocTid
           v == [j.trans[cur] EXCEPT !.tid = m]
           u == WithTrans(j, cur, v)
           r == TailDropped(u)
           o == [Idle EXCEPT !.at = "prepare", !.todo = r.trans[cur].bufq, !.last = j.last]
<1>1. /\ phase = "up" /\ phase' = "up" /\ count' = count /\ cur' = cur /\ op.at = "idle" /\ cur # 0
  BY DEF CommitBegin, Quiet
<1>2. /\ UpInv(j, op, cur) /\ count \in 0 .. MaxTrans /\ ToSet(j.cpq) \subseteq 1 .. count
      /\ cur \in 0 .. MaxTrans /\ cur \in 0 .. count
  BY <1>1, UpFacts
<1>3. /\ Sound(j, cur, {}, 0, 0, m) /\ Room(j, cur) /\ cur \in Trans /\ j.trans[cur].alloc = 0
  BY <1>1, <1>2, QuietUp
<1>4. Shaped(j) /\ TransShaped(j.trans[cur])
  BY <1>3 DEF Sound, Shaped
<1>5. Becomes(r) /\ op' = o
  <2>1. DOMAIN j = JournalFields
    BY <1>4, FieldNames DEF Shaped
  <2>2. u = [j EXCEPT !.trans[cur].tid = j.allocTid]
    BY <2>1 DEF WithTrans, JournalFields
  <2> QED
    BY <2>2 DEF CommitBegin
<1>6. /\ TransShaped(v) /\ v.bufq = j.trans[cur].bufq /\ v.dataCnt = j.trans[cur].dataCnt
      /\ v.written = j.trans[cur].written /\ v.start = j.trans[cur].start /\ v.alloc = j.trans[cur].alloc
      /\ v.tid = m
  BY <1>4, FieldNames DEF TransShaped, TransFields
<1> HIDE DEF v
<1>7. /\ u.cpq = j.cpq /\ u.start = j.start /\ u.last = j.last /\ u.allocTid = m /\ u.trans[cur] = v
  BY <1>3, <1>4, <1>6, WithTransFields
<1> HIDE DEF u, m
<1>8. Sound(u, cur, {}, 0, 0, m) /\ Room(u, cur)
  BY <1>3, <1>6, WithTransSound DEF u
<1> HIDE DEF r
<1>9. Sound(r, cur, {}, 0, 0, m) /\ SameLog(u, r)
  BY <1>3, <1>8, TailDroppedSound DEF r
<1>10. /\ r.cpq = j.cpq /\ r.start = j.start /\ r.last = j.last /\ r.allocTid = m
       /\ r.trans[cur].alloc = 0 /\ r.trans[cur].tid = m
  BY <1>3, <1>6, <1>7, <1>9 DEF SameLog
<1>11. Room(r, cur)
  <2>1. InLog(r, cur) = InLog(u, cur)
    BY <1>7, <1>10, <1>6, <1>3 DEF InLog
  <2> QED
    BY <1>7, <1>8, <1>10, <2>1 DEF Room
<1>12. r.trans[cur].bufq \in Seq(Home) /\ IsInjective(r.trans[cur].bufq)
  BY <1>3, <1>9 DEF Sound, Shaped, TransShaped, Linked
<1>13. /\ OpShaped(o) /\ o.at = "prepare" /\ o.purge = <<>> /\ o.full = FALSE /\ o.idx = 0 /\ o.todo = r.trans[cur].bufq
       /\ o.last = j.last
  <2>1. <<>> \in Seq(Trans \X Home)
    OBVIOUS
  <2> QED
    BY <1>12, <2>1 DEF OpShaped, Idle, Working
<1> HIDE DEF o
<1>14. CommitInv(r, o, cur)
  BY <1>1, <1>10, <1>13 DEF CommitInv, Working
<1>15. PrepareInv(r, o, cur)
  BY <1>10, <1>12, <1>13 DEF PrepareInv
<1>16. PurgeInv(r, o) /\ RoomInv(r, o, cur) /\ Outside(o, cur) = cur
  BY <1>11, <1>13 DEF PurgeInv, RoomInv, Outside
<1>17. UpInv(r, o, cur)
  BY <1>2, <1>9, <1>10, <1>13, <1>14, <1>15, <1>16 DEF UpInv
<1> QED
  BY <1>1, <1>2, <1>5, <1>10, <1>17, BecomesUp

(* What the invariant says between two steps of a commit. *)
LEMMA ActiveFacts ==
  ASSUME IInv, NEW at \in Working, Active(at)
  PROVE  /\ phase = "up" /\ op.at = at /\ op.full = FALSE /\ op.purge = <<>>
         /\ UpInv(j, op, cur) /\ OpShaped(op) /\ DOMAIN op = OpFields
         /\ count \in 0 .. MaxTrans /\ cur \in 0 .. count /\ ToSet(j.cpq) \subseteq 1 .. count
         /\ cur \in 0 .. MaxTrans /\ cur # 0 /\ cur \in Trans /\ cur \notin ToSet(j.cpq)
         /\ Outside(op, cur) = cur
         /\ Sound(j, cur, {}, 0, 0, j.allocTid) /\ Room(j, cur)
         /\ Shaped(j) /\ Linked(j, cur, {}) /\ Tally(j, 0, 0) /\ Ring(j, cur) /\ Tids(j, j.allocTid)
         /\ j.trans[cur].tid = j.allocTid
         /\ op.last = IF j.trans[cur].alloc > 0 THEN j.trans[cur].start ELSE j.last
         /\ TransShaped(j.trans[cur])
<1>1. phase = "up" /\ op.at = at /\ ~op.full /\ at # "return" /\ at # "stop" /\ at # "panic"
  BY DEF Active, Working
<1>2. /\ UpInv(j, op, cur) /\ OpShaped(op)
      /\ count \in 0 .. MaxTrans /\ cur \in 0 .. count /\ ToSet(j.cpq) \subseteq 1 .. count
      /\ cur \in 0 .. MaxTrans /\ cur \in Trans /\ cur \notin ToSet(j.cpq)
      /\ Sound(j, Outside(op, cur), {}, 0, 0, j.allocTid)
      /\ CommitInv(j, op, cur) /\ PurgeInv(j, op) /\ RoomInv(j, op, cur)
  BY <1>1, UpFacts
<1>3. Outside(op, cur) = cur
  BY <1>1 DEF Outside
<1>4. op.full = FALSE /\ op.purge = <<>> /\ DOMAIN op = OpFields
  BY <1>1, <1>2, IdleShaped DEF OpShaped, PurgeInv
<1>5. Sound(j, cur, {}, 0, 0, j.allocTid) /\ Room(j, cur)
  BY <1>1, <1>2, <1>3 DEF RoomInv
<1>6. Shaped(j) /\ Linked(j, cur, {}) /\ Tally(j, 0, 0) /\ Ring(j, cur) /\ Tids(j, j.allocTid)
  BY <1>5 DEF Sound
<1>7. /\ cur # 0 /\ j.trans[cur].tid = j.allocTid
      /\ op.last = IF j.trans[cur].alloc > 0 THEN j.trans[cur].start ELSE j.last
  BY <1>1, <1>2 DEF CommitInv
<1>8. TransShaped(j.trans[cur])
  BY <1>2, <1>6 DEF Shaped
<1> QED
  BY <1>1, <1>2, <1>3, <1>4, <1>5, <1>6, <1>7, <1>8

LEMMA PrepareCleanKeeps ==
  ASSUME IInv, PrepareClean
  PROVE  IInv'
<1> DEFINE m == j.allocTid
           l == Head(op.todo)
           r == DropClean(j, l)
           o == [op EXCEPT !.todo = Tail(op.todo)]
<1>1. /\ Active("prepare") /\ op.todo # <<>> /\ op.idx = 0 /\ ~j.buf[l].dirty /\ Becomes(r) /\ op' = o
      /\ phase' = "up" /\ count' = count /\ cur' = cur
  BY DEF PrepareClean, Active
<1>2. /\ op.at = "prepare" /\ op.full = FALSE /\ op.purge = <<>>
      /\ UpInv(j, op, cur) /\ OpShaped(op) /\ DOMAIN op = OpFields
      /\ count \in 0 .. MaxTrans /\ cur \in 0 .. count /\ ToSet(j.cpq) \subseteq 1 .. count
      /\ cur \in 0 .. MaxTrans /\ cur # 0 /\ cur \in Trans
      /\ Sound(j, cur, {}, 0, 0, m) /\ Room(j, cur)
      /\ j.trans[cur].tid = m
      /\ op.last = IF j.trans[cur].alloc > 0 THEN j.trans[cur].start ELSE j.last
  BY <1>1, ActiveFacts DEF Working
<1>3. PrepareInv(j, op, cur)
  BY <1>2 DEF UpInv
<1>4. op.todo \in Seq(Home)
  BY <1>2 DEF OpShaped
<1>5. /\ Tail(op.todo) \in Seq(Home) /\ IsInjective(Tail(op.todo))
      /\ ToSet(Tail(op.todo)) = ToSet(op.todo) \ {l} /\ l \in ToSet(op.todo) /\ l \in Home
  <2>1. IsInjective(op.todo)
    BY <1>2, <1>3 DEF PrepareInv
  <2> QED
    BY <1>1, <1>4, <2>1, TailOnce
<1>6. /\ OpShaped(o) /\ o.at = "prepare" /\ o.purge = <<>> /\ o.full = FALSE /\ o.idx = 0 /\ o.todo = Tail(op.todo)
      /\ o.last = op.last
  BY <1>1, <1>2, <1>5 DEF OpShaped, OpFields, Working
<1>7. l \in ToSet(j.trans[cur].bufq)
  BY <1>2, <1>3, <1>5 DEF PrepareInv
<1> HIDE DEF m, l, r, o
<1>8. /\ Sound(r, cur, {}, 0, 0, m) /\ SameLog(j, r)
      /\ ToSet(r.trans[cur].bufq) = ToSet(j.trans[cur].bufq) \ {l}
      /\ \A k \in Home \ {l} : r.buf[k] = j.buf[k]
  BY <1>2, <1>7, DropCleanSound DEF r
<1>9. /\ r.cpq = j.cpq /\ r.start = j.start /\ r.last = j.last /\ r.allocTid = m
      /\ r.trans[cur].alloc = j.trans[cur].alloc /\ r.trans[cur].tid = m /\ r.trans[cur].start = j.trans[cur].start
  BY <1>2, <1>8 DEF SameLog, m
<1>10. Room(r, cur)
  BY <1>2, <1>9 DEF Room, InLog
<1>11. CommitInv(r, o, cur)
  BY <1>2, <1>6, <1>9 DEF CommitInv, Working
<1>12. PrepareInv(r, o, cur)
  <2>1. ToSet(o.todo) \subseteq ToSet(r.trans[cur].bufq)
    BY <1>2, <1>3, <1>5, <1>6, <1>8 DEF PrepareInv
  <2>2. ASSUME r.trans[cur].alloc > 0 PROVE \E k \in ToSet(r.trans[cur].bufq) : r.buf[k].dirty
    <3>1. PICK k \in ToSet(j.trans[cur].bufq) : j.buf[k].dirty
      BY <1>2, <1>3, <1>9, <2>2 DEF PrepareInv
    <3>2. k # l
      BY <1>1, <3>1 DEF l
    <3>3. k \in Home
      <4>1. j.trans[cur].bufq \in Seq(Home)
        BY <1>2 DEF Sound, Shaped, TransShaped
      <4> QED
        BY <3>1, <4>1, MembersOf
    <3> QED
      BY <1>8, <3>1, <3>2, <3>3
  <2> QED
    BY <1>5, <1>6, <2>1, <2>2 DEF PrepareInv
<1>13. PurgeInv(r, o) /\ RoomInv(r, o, cur) /\ Outside(o, cur) = cur
  BY <1>6, <1>10 DEF PurgeInv, RoomInv, Outside
<1>14. UpInv(r, o, cur)
  BY <1>2, <1>6, <1>8, <1>9, <1>11, <1>12, <1>13 DEF UpInv
<1> QED
  BY <1>1, <1>2, <1>9, <1>14, BecomesUp

(* jbd_journal_alloc_block in a commit that goes on as o. *)
LEMMA AllocKeeps ==
  ASSUME IInv, NEW at \in Working, Active(at),
         phase' = phase, count' = count, cur' = cur,
         NEW o, DOMAIN o = OpFields, OpShaped(o), o.at \in Working, o.purge = <<>>, o.last = op.last,
         o.at = "prepare" => at = "prepare" /\ o.todo = op.todo /\ o.todo # <<>> /\ j.buf[Head(o.todo)].dirty,
         AllocBlock(o)
  PROVE  IInv'
<1> DEFINE m == j.allocTid
           r == Allocated(j)
           p == [o EXCEPT !.full = Fills(j)]
<1>1. /\ phase = "up" /\ op.at = at /\ op.full = FALSE /\ op.purge = <<>>
      /\ UpInv(j, op, cur) /\ OpShaped(op) /\ DOMAIN op = OpFields
      /\ count \in 0 .. MaxTrans /\ cur \in 0 .. count /\ ToSet(j.cpq) \subseteq 1 .. count
      /\ cur \in 0 .. MaxTrans /\ cur # 0 /\ cur \in Trans
      /\ Sound(j, cur, {}, 0, 0, m) /\ Room(j, cur)
      /\ j.trans[cur].tid = m
      /\ op.last = IF j.trans[cur].alloc > 0 THEN j.trans[cur].start ELSE j.last
      /\ TransShaped(j.trans[cur]) /\ Shaped(j)
  BY ActiveFacts
<1>2. Becomes(r) /\ op' = IF Fills(j) /\ j.cpq = <<>> THEN Panic ELSE p
  BY DEF AllocBlock
<1>3. PrepareInv(j, op, cur)
  BY <1>1 DEF UpInv
<1>4. Fills(j) \in BOOLEAN
  BY DEF Fills
<1> HIDE DEF r, m
<1>5. /\ Sound(r, cur, {}, 0, 0, m)
      /\ ~Fills(j) => Room(r, cur)
      /\ r.cpq = j.cpq /\ r.buf = j.buf /\ r.allocTid = m
      /\ r.trans[cur].alloc > 0
      /\ r.trans[cur].start = IF j.trans[cur].alloc = 0 THEN j.last ELSE j.trans[cur].start
      /\ r.trans[cur].bufq = j.trans[cur].bufq
      /\ r.trans[cur].tid = m
  BY <1>1, AllocatedSound DEF r, m
<1>6. CASE Fills(j) /\ j.cpq = <<>>
  <2>1. UpInv(r, Panic, cur)
    BY <1>1, <1>5, PanicUp
  <2> QED
    BY <1>1, <1>2, <1>5, <1>6, <2>1, BecomesUp
<1>7. CASE ~(Fills(j) /\ j.cpq = <<>>)
  <2>1. /\ p.at = o.at /\ p.todo = o.todo /\ p.purge = <<>> /\ p.last = op.last /\ p.full = Fills(j)
        /\ OpShaped(p)
    BY <1>4 DEF OpShaped, OpFields
  <2>2. op' = p
    BY <1>2, <1>7
  <2> HIDE DEF p
  <2>3. Outside(p, cur) = cur
    BY <2>1 DEF Outside, Working
  <2>4. CommitInv(r, p, cur)
    <3>1. j.trans[cur].alloc \in Nat
      BY <1>1 DEF TransShaped
    <3>2. p.last = IF r.trans[cur].alloc > 0 THEN r.trans[cur].start ELSE r.last
      BY <1>1, <1>5, <2>1, <3>1
    <3>3. p.at # "idle" /\ p.at # "stop"
      BY <2>1 DEF Working
    <3> QED
      BY <1>1, <1>5, <3>2, <3>3 DEF CommitInv
  <2>5. PrepareInv(r, p, cur)
    <3> SUFFICES ASSUME o.at = "prepare" PROVE PrepareInv(r, p, cur)
      BY <2>1 DEF PrepareInv
    <3>1. op.todo = p.todo /\ p.todo # <<>> /\ j.buf[Head(p.todo)].dirty /\ op.at = "prepare"
      BY <1>1, <2>1
    <3>2. ToSet(p.todo) \subseteq ToSet(j.trans[cur].bufq) /\ IsInjective(p.todo)
      BY <1>3, <3>1 DEF PrepareInv
    <3>3. Head(p.todo) \in ToSet(p.todo)
      <4>1. p.todo \in Seq(Home)
        BY <2>1 DEF OpShaped
      <4> QED
        BY <3>1, <4>1, TailOnce
    <3> QED
      BY <1>5, <3>1, <3>2, <3>3 DEF PrepareInv
  <2>6. PurgeInv(r, p)
    BY <1>5, <1>7, <2>1 DEF PurgeInv
  <2>7. RoomInv(r, p, cur)
    BY <1>5, <2>1, <2>3 DEF RoomInv
  <2>8. UpInv(r, p, cur)
    BY <1>1, <1>5, <2>1, <2>3, <2>4, <2>5, <2>6, <2>7 DEF UpInv
  <2> QED
    BY <1>1, <1>2, <1>5, <2>2, <2>8, BecomesUp
<1> QED
  BY <1>6, <1>7

LEMMA PrepareDescKeeps ==
  ASSUME IInv, PrepareDesc
  PROVE  IInv'
<1> DEFINE o == [op EXCEPT !.desc = j.last, !.tags = <<>>]
<1>1. /\ Active("prepare") /\ op.todo # <<>> /\ j.buf[Head(op.todo)].dirty
      /\ AllocBlock(o) /\ phase' = phase /\ count' = count /\ cur' = cur
  BY DEF PrepareDesc
<1>2. op.at = "prepare" /\ op.purge = <<>> /\ OpShaped(op) /\ DOMAIN op = OpFields /\ "prepare" \in Working
  BY <1>1, ActiveFacts DEF Working
<1>3. /\ DOMAIN o = OpFields /\ o.at = "prepare" /\ o.purge = <<>> /\ o.last = op.last /\ o.todo = op.todo
      /\ OpShaped(o)
  BY <1>2 DEF OpShaped, OpFields
<1> HIDE DEF o
<1> QED
  BY <1>1, <1>2, <1>3, AllocKeeps

LEMMA PrepareAllocKeeps ==
  ASSUME IInv, PrepareAlloc
  PROVE  IInv'
<1> DEFINE o == [op EXCEPT !.idx = j.last]
<1>1. /\ Active("prepare") /\ op.todo # <<>> /\ j.buf[Head(op.todo)].dirty
      /\ AllocBlock(o) /\ phase' = phase /\ count' = count /\ cur' = cur
  BY DEF PrepareAlloc
<1>2. op.at = "prepare" /\ op.purge = <<>> /\ OpShaped(op) /\ DOMAIN op = OpFields /\ "prepare" \in Working
  BY <1>1, ActiveFacts DEF Working
<1>3. /\ DOMAIN o = OpFields /\ o.at = "prepare" /\ o.purge = <<>> /\ o.last = op.last /\ o.todo = op.todo
      /\ OpShaped(o)
  BY <1>2 DEF OpShaped, OpFields
<1> HIDE DEF o
<1> QED
  BY <1>1, <1>2, <1>3, AllocKeeps

LEMMA CommitAllocKeeps ==
  ASSUME IInv, CommitAlloc
  PROVE  IInv'
<1> DEFINE o == [op EXCEPT !.at = "commit", !.idx = j.last]
<1>1. /\ Active("revoke") /\ AllocBlock(o) /\ phase' = phase /\ count' = count /\ cur' = cur
  BY DEF CommitAlloc
<1>2. op.purge = <<>> /\ OpShaped(op) /\ DOMAIN op = OpFields /\ "revoke" \in Working
  BY <1>1, ActiveFacts DEF Working
<1>3. /\ DOMAIN o = OpFields /\ o.at = "commit" /\ o.purge = <<>> /\ o.last = op.last
      /\ OpShaped(o) /\ o.at \in Working
  BY <1>2 DEF OpShaped, OpFields, Working
<1> HIDE DEF o
<1> QED
  BY <1>1, <1>2, <1>3, AllocKeeps

LEMMA PrepareRevokeKeeps ==
  ASSUME IInv, PrepareRevoke
  PROVE  IInv'
<1> DEFINE rv == [op EXCEPT !.at = "revoke", !.idx = j.last]
           co == [op EXCEPT !.at = "commit", !.idx = j.last]
           m == j.allocTid
           r == Freed(j, {cur})
<1>1. Active("prepare") /\ phase' = phase /\ count' = count
  BY DEF PrepareRevoke
<1>2. /\ phase = "up" /\ op.at = "prepare" /\ op.purge = <<>> /\ OpShaped(op) /\ DOMAIN op = OpFields /\ "prepare" \in Working
      /\ UpInv(j, op, cur)
      /\ count \in 0 .. MaxTrans /\ ToSet(j.cpq) \subseteq 1 .. count
      /\ cur \in Trans /\ cur \notin ToSet(j.cpq) /\ Room(j, cur)
      /\ Shaped(j) /\ Linked(j, cur, {}) /\ Tally(j, 0, 0) /\ Ring(j, cur) /\ Tids(j, m)
      /\ TransShaped(j.trans[cur])
  BY <1>1, ActiveFacts DEF Working
<1>3. CASE AllocBlock(rv) /\ cur' = cur
  <2>1. /\ DOMAIN rv = OpFields /\ rv.at = "revoke" /\ rv.purge = <<>> /\ rv.last = op.last
        /\ OpShaped(rv) /\ rv.at \in Working
    BY <1>2 DEF OpShaped, OpFields, Working
  <2> HIDE DEF rv
  <2> QED
    BY <1>1, <1>2, <1>3, <2>1, AllocKeeps
<1>4. CASE AllocBlock(co) /\ cur' = cur
  <2>1. /\ DOMAIN co = OpFields /\ co.at = "commit" /\ co.purge = <<>> /\ co.last = op.last
        /\ OpShaped(co) /\ co.at \in Working
    BY <1>2 DEF OpShaped, OpFields, Working
  <2> HIDE DEF co
  <2> QED
    BY <1>1, <1>2, <1>4, <2>1, AllocKeeps
<1>5. CASE j.trans[cur].bufq = <<>> /\ Becomes(r) /\ op' = Idle /\ cur' = 0
  <2>1. j.trans[cur].alloc = 0
    <3>1. ToSet(j.trans[cur].bufq) = {}
      BY <1>5 DEF ToSet
    <3>2. ~(j.trans[cur].alloc > 0)
      BY <1>2, <3>1 DEF UpInv, PrepareInv
    <3>3. j.trans[cur].alloc \in Nat
      BY <1>2 DEF TransShaped
    <3> QED
      BY <3>2, <3>3
  <2> HIDE DEF r, m
  <2>2. /\ Shaped(r) /\ Linked(r, 0, {}) /\ Tally(r, 0, 0)
        /\ r.cpq = j.cpq /\ r.start = j.start /\ r.last = j.last /\ r.allocTid = m
        /\ \A x \in Trans \ {cur} : r.trans[x] = j.trans[x]
    <3> DEFINE d == 0
    <3>1. Tally(j, cur, d)
      BY <1>2 DEF Tally
    <3> HIDE DEF d
    <3> QED
      BY <1>2, <1>5, <3>1, FreedActive DEF r, m
  <2>3. /\ r.last = IF j.trans[cur].alloc > 0 THEN j.trans[cur].start ELSE j.last
        /\ \A x \in Trans \ {cur} : /\ r.trans[x].start = j.trans[x].start /\ r.trans[x].alloc = j.trans[x].alloc
                                    /\ r.trans[x].tid = j.trans[x].tid
    BY <2>1, <2>2
  <2>4. Ring(r, 0) /\ Tids(r, m) /\ Room(r, 0)
    BY <1>2, <2>2, <2>3, RingUndone
  <2>5. 0 \in 0 .. MaxTrans /\ 0 \in 0 .. count
    BY <1>2, JournalAssumption
  <2>6. Sound(r, 0, {}, 0, 0, m)
    BY <2>2, <2>4, <2>5 DEF Sound
  <2>7. UpInv(r, Idle, 0)
    BY <2>2, <2>4, <2>5, <2>6, IdleUp, IdleShaped
  <2> QED
    BY <1>1, <1>2, <1>5, <2>2, <2>5, <2>7, BecomesUp
<1> QED
  BY <1>3, <1>4, <1>5 DEF PrepareRevoke

(* A step that only changes what the invariant does not read of op. *)
LEMMA SameOp ==
  ASSUME NEW s, NEW p, NEW c, UpInv(s, p, c), p.at \in Working,
         NEW o, OpShaped(o), o.at = p.at \/ (p.at = "commit" /\ o.at = "end"),
         o.todo = p.todo, o.idx \in {0, p.idx}, o.full = p.full, o.purge = p.purge, o.last = p.last
  PROVE  UpInv(s, o, c)
<1>1. o.at \in Working
  BY DEF Working
<1>2. o.at # "return" /\ p.at # "return"
  BY <1>1 DEF Working
<1>3. Outside(o, c) = Outside(p, c)
  BY <1>2 DEF Outside
<1>4. CommitInv(s, o, c)
  BY <1>1 DEF UpInv, CommitInv, Working
<1>5. PrepareInv(s, o, c)
  BY DEF UpInv, PrepareInv
<1>6. PurgeInv(s, o)
  BY <1>1 DEF UpInv, PurgeInv, Working
<1>7. RoomInv(s, o, c)
  BY <1>3 DEF UpInv, RoomInv, Working
<1> QED
  BY <1>3, <1>4, <1>5, <1>6, <1>7 DEF UpInv

(* A block of the log is written, and the commit goes on as o. *)
LEMMA WriteKeeps ==
  ASSUME IInv, NEW at \in Working, Active(at), phase' = phase, count' = count, cur' = cur,
         NEW x, Becomes(WithOut(j, x)),
         NEW o, op' = o, OpShaped(o), o.at = op.at \/ (op.at = "commit" /\ o.at = "end"),
         o.todo = op.todo, o.idx \in {0, op.idx}, o.full = op.full, o.purge = op.purge, o.last = op.last
  PROVE  IInv'
<1> DEFINE r == WithOut(j, x)
<1>1. /\ phase = "up" /\ op.at = at /\ UpInv(j, op, cur)
      /\ count \in 0 .. MaxTrans /\ cur \in 0 .. count /\ ToSet(j.cpq) \subseteq 1 .. count
  BY ActiveFacts
<1>2. UpInv(j, o, cur)
  BY <1>1, SameOp
<1>3. UpInv(r, o, cur) /\ r.cpq = j.cpq
  BY <1>2, OutUp
<1> HIDE DEF r
<1>4. Becomes(r)
  BY DEF r
<1> QED
  BY <1>1, <1>3, <1>4, BecomesUp

LEMMA PrepareDescDoneKeeps ==
  ASSUME IInv, PrepareDescDone
  PROVE  IInv'
<1> DEFINE o == [op EXCEPT !.desc = 0, !.tags = <<>>]
           x == <<WLog(op.desc, Desc(j.trans[cur].tid, op.tags))>>
<1>1. /\ Active("prepare") /\ Becomes(WithOut(j, x)) /\ op' = o /\ phase' = phase /\ count' = count /\ cur' = cur
      /\ "prepare" \in Working
  BY DEF PrepareDescDone, WithOut, Working
<1>2. DOMAIN op = OpFields /\ OpShaped(op)
  BY <1>1, ActiveFacts
<1>3. /\ OpShaped(o) /\ o.at = op.at /\ o.todo = op.todo /\ o.idx = op.idx /\ o.full = op.full /\ o.purge = op.purge
      /\ o.last = op.last
  BY <1>2 DEF OpShaped, OpFields
<1> HIDE DEF o, x
<1> QED
  BY <1>1, <1>3, WriteKeeps

LEMMA WriteRevokeKeeps ==
  ASSUME IInv, WriteRevoke
  PROVE  IInv'
<1> DEFINE o == [op EXCEPT !.idx = 0]
           x == <<WLog(op.idx, Revoke(j.trans[cur].tid, j.trans[cur].revoke))>>
<1>1. /\ Active("revoke") /\ Becomes(WithOut(j, x)) /\ op' = o /\ phase' = phase /\ count' = count /\ cur' = cur
      /\ "revoke" \in Working
  BY DEF WriteRevoke, WithOut, Working
<1>2. DOMAIN op = OpFields /\ OpShaped(op)
  BY <1>1, ActiveFacts
<1>3. /\ OpShaped(o) /\ o.at = op.at /\ o.todo = op.todo /\ o.idx = 0 /\ o.full = op.full /\ o.purge = op.purge
      /\ o.last = op.last
  BY <1>2 DEF OpShaped, OpFields
<1> HIDE DEF o, x
<1> QED
  BY <1>1, <1>3, WriteKeeps

LEMMA WriteCommitKeeps ==
  ASSUME IInv, WriteCommit
  PROVE  IInv'
<1> DEFINE o == [op EXCEPT !.at = "end"]
           x == <<WLog(op.idx, Commit(j.trans[cur].tid))>>
<1>1. /\ Active("commit") /\ Becomes(WithOut(j, x)) /\ op' = o /\ phase' = phase /\ count' = count /\ cur' = cur
      /\ "commit" \in Working
  BY DEF WriteCommit, WithOut, Working
<1>2. DOMAIN op = OpFields /\ OpShaped(op) /\ op.at = "commit"
  BY <1>1, ActiveFacts
<1>3. /\ OpShaped(o) /\ o.at = "end" /\ o.todo = op.todo /\ o.idx = op.idx /\ o.full = op.full /\ o.purge = op.purge
      /\ o.last = op.last
  BY <1>2 DEF OpShaped, OpFields, Working
<1> HIDE DEF o, x
<1> QED
  BY <1>1, <1>2, <1>3, WriteKeeps

LEMMA PrepareDataKeeps ==
  ASSUME IInv, PrepareData
  PROVE  IInv'
<1> DEFINE m == j.allocTid
           l == Head(op.todo)
           v == [j.trans[cur] EXCEPT !.jlba[l] = op.idx]
           u == WithTrans(j, cur, v)
           x == <<WLog(op.idx, Copy(j.buf[l].val))>>
           r == WithOut(u, x)
           o == [op EXCEPT !.todo = Tail(op.todo), !.tags = Append(op.tags, l), !.idx = 0]
<1>1. Active("prepare") /\ op.idx # 0 /\ op' = o /\ phase' = phase /\ count' = count /\ cur' = cur
      /\ "prepare" \in Working
  BY DEF PrepareData, Working
<1>2. /\ phase = "up" /\ op.at = "prepare" /\ op.full = FALSE /\ op.purge = <<>>
      /\ UpInv(j, op, cur) /\ OpShaped(op) /\ DOMAIN op = OpFields
      /\ count \in 0 .. MaxTrans /\ cur \in 0 .. count /\ ToSet(j.cpq) \subseteq 1 .. count
      /\ cur \in 0 .. MaxTrans /\ cur # 0 /\ cur \in Trans
      /\ Sound(j, cur, {}, 0, 0, m) /\ Room(j, cur)
      /\ j.trans[cur].tid = m
      /\ op.last = IF j.trans[cur].alloc > 0 THEN j.trans[cur].start ELSE j.last
      /\ TransShaped(j.trans[cur]) /\ Shaped(j)
  BY <1>1, ActiveFacts
<1>3. Becomes(r)
  <2>1. DOMAIN j = JournalFields
    BY <1>2, FieldNames DEF Shaped
  <2>2. r = [j EXCEPT !.out = x, !.trans[cur].jlba[l] = op.idx]
    BY <2>1 DEF WithTrans, WithOut, JournalFields
  <2> QED
    BY <2>2 DEF PrepareData
<1>4. PrepareInv(j, op, cur)
  BY <1>2 DEF UpInv
<1>5. op.todo \in Seq(Home) /\ op.todo # <<>> /\ IsInjective(op.todo)
  BY <1>1, <1>2, <1>4 DEF OpShaped, PrepareInv
<1>6. Tail(op.todo) \in Seq(Home) /\ IsInjective(Tail(op.todo)) /\ ToSet(Tail(op.todo)) \subseteq ToSet(op.todo)
  BY <1>5, TailOnce
<1>7. /\ OpShaped(o) /\ o.at = "prepare" /\ o.purge = <<>> /\ o.full = FALSE /\ o.idx = 0 /\ o.todo = Tail(op.todo)
      /\ o.last = op.last
  BY <1>2, <1>6 DEF OpShaped, OpFields, Working
<1>8. /\ TransShaped(v) /\ v.bufq = j.trans[cur].bufq /\ v.dataCnt = j.trans[cur].dataCnt
      /\ v.written = j.trans[cur].written /\ v.start = j.trans[cur].start /\ v.alloc = j.trans[cur].alloc
      /\ v.tid = m
  BY <1>2, FieldNames DEF TransShaped, TransFields
<1> HIDE DEF v, o
<1>9. /\ u.cpq = j.cpq /\ u.start = j.start /\ u.last = j.last /\ u.allocTid = m /\ u.trans[cur] = v /\ u.buf = j.buf
  BY <1>2, <1>8, WithTransFields
<1> HIDE DEF u, m, x
<1>10. Sound(u, cur, {}, 0, 0, m) /\ Room(u, cur)
  BY <1>2, <1>8, WithTransSound DEF u
<1>11. CommitInv(u, o, cur)
  BY <1>2, <1>7, <1>8, <1>9 DEF CommitInv, Working
<1>12. PrepareInv(u, o, cur)
  BY <1>2, <1>4, <1>6, <1>7, <1>8, <1>9 DEF PrepareInv
<1>13. PurgeInv(u, o) /\ RoomInv(u, o, cur) /\ Outside(o, cur) = cur
  BY <1>7, <1>10 DEF PurgeInv, RoomInv, Outside
<1>14. UpInv(u, o, cur)
  BY <1>2, <1>7, <1>9, <1>10, <1>11, <1>12, <1>13 DEF UpInv
<1>15. UpInv(r, o, cur) /\ r.cpq = u.cpq
  BY <1>14, OutUp
<1> HIDE DEF r
<1> QED
  BY <1>1, <1>2, <1>3, <1>9, <1>15, BecomesUp

(* The id that the journal gives out next. *)
LEMMA NextTidSound ==
  ASSUME NEW s, NEW a, NEW m, Sound(s, a, {}, 0, 0, m), s.allocTid = m, NEW r, r = [s EXCEPT !.allocTid = m + 1]
  PROVE  /\ Sound(r, a, {}, 0, 0, m) /\ r.allocTid = m + 1 /\ r.trans = s.trans /\ r.cpq = s.cpq
         /\ Room(s, a) => Room(r, a)
<1>1. Shaped(s) /\ DOMAIN s = JournalFields
  BY FieldNames DEF Sound, Shaped
<1>2. /\ DOMAIN r = JournalFields /\ r.allocTid = m + 1
      /\ r.trans = s.trans /\ r.cpq = s.cpq /\ r.recq = s.recq /\ r.owner = s.owner /\ r.buf = s.buf
      /\ r.start = s.start /\ r.last = s.last
  BY <1>1 DEF JournalFields
<1>3. Shaped(r)
  BY <1>1, <1>2, FieldNames DEF Shaped
<1>4. InLog(r, a) = InLog(s, a)
  BY <1>2 DEF InLog
<1>5. Ring(r, a)
  <2>1. Ring(s, a)
    BY DEF Sound
  <2> QED
    BY ONLY <1>2, <1>4, <2>1 DEF Ring, After
<1>6. Linked(r, a, {}) /\ Tally(r, 0, 0) /\ Tids(r, m)
  <2>1. Linked(s, a, {}) /\ Tally(s, 0, 0) /\ Tids(s, m)
    BY DEF Sound
  <2>2. Linked(r, a, {})
    BY ONLY <1>2, <2>1 DEF Linked
  <2>3. Tally(r, 0, 0) /\ Tids(r, m)
    BY ONLY <1>2, <2>1 DEF Tally, Tids
  <2> QED
    BY <2>2, <2>3
<1>7. Room(s, a) => Room(r, a)
  BY <1>2, <1>4 DEF Room
<1> QED
  BY <1>2, <1>3, <1>5, <1>6, <1>7 DEF Sound

LEMMA CommitEndKeeps ==
  ASSUME IInv, CommitEnd
  PROVE  IInv'
<1> DEFINE m == j.allocTid
           u == [j EXCEPT !.allocTid = m + 1]
           v == RevokedDone(u)
           r == Queued(v)
           o == [Idle EXCEPT !.at = "return"]
<1>1. /\ Active("end") /\ "end" \in Working /\ Becomes(r) /\ op' = o /\ phase' = phase /\ count' = count /\ cur' = cur
  BY DEF CommitEnd, Working
<1>2. /\ phase = "up" /\ op.at = "end" /\ UpInv(j, op, cur)
      /\ count \in 0 .. MaxTrans /\ cur \in 0 .. count /\ ToSet(j.cpq) \subseteq 1 .. count
      /\ cur \in 0 .. MaxTrans /\ cur # 0 /\ cur \in Trans
      /\ Sound(j, cur, {}, 0, 0, m) /\ Room(j, cur)
      /\ j.trans[cur].tid = m
  BY <1>1, ActiveFacts
<1>3. j.trans[cur].alloc > 0
  BY <1>2 DEF UpInv, CommitInv
<1>4. /\ Sound(u, cur, {}, 0, 0, m) /\ Room(u, cur) /\ u.allocTid = m + 1 /\ u.trans = j.trans /\ u.cpq = j.cpq
  BY <1>2, NextTidSound
<1> HIDE DEF m, u
<1>5. Sound(v, cur, {}, 0, 0, m) /\ Frame(u, v, cur)
  BY <1>2, <1>4, RevokedDoneSound
<1> HIDE DEF v
<1>6. Room(v, cur)
  BY <1>4, <1>5, FrameRoom
<1>7. v.trans[cur].alloc > 0 /\ v.trans[cur].tid = m /\ v.allocTid = m + 1 /\ ToSet(v.cpq) \subseteq ToSet(j.cpq)
  BY <1>2, <1>3, <1>4, <1>5 DEF Frame
<1> HIDE DEF r
<1>8. /\ Sound(r, 0, {}, 0, 0, m + 1) /\ Room(r, 0)
      /\ ToSet(r.cpq) \subseteq ToSet(v.cpq) \cup {cur}
      /\ r.allocTid = m + 1
  BY <1>2, <1>5, <1>6, <1>7, QueuedSound DEF r
<1>9. ToSet(r.cpq) \subseteq 1 .. count
  <2>1. cur \in 1 .. count
    BY <1>2
  <2> QED
    BY <1>2, <1>7, <1>8, <2>1
<1>10. OpShaped(o) /\ o.at = "return" /\ o.purge = <<>> /\ o.full = FALSE
  <2>1. <<>> \in Seq(Trans \X Home) /\ <<>> \in Seq(Home)
    OBVIOUS
  <2> QED
    BY <2>1 DEF OpShaped, Idle, Working
<1> HIDE DEF o
<1>11. /\ CommitInv(r, o, cur) /\ PrepareInv(r, o, cur) /\ PurgeInv(r, o) /\ RoomInv(r, o, cur)
       /\ Outside(o, cur) = 0
  BY <1>8, <1>10 DEF CommitInv, PrepareInv, PurgeInv, RoomInv, Outside, Working
<1>12. UpInv(r, o, cur)
  BY <1>2, <1>8, <1>10, <1>11 DEF UpInv
<1> QED
  BY <1>1, <1>2, <1>9, <1>12, BecomesUp

LEMMA ext4_trans_stopKeeps ==
  ASSUME IInv, ext4_trans_stop
  PROVE  IInv'
<1>1. /\ phase = "up" /\ op.at = "return" /\ ~op.full /\ phase' = "up" /\ j' = j /\ op' = Idle /\ cur' = 0 /\ count' = count
  BY DEF ext4_trans_stop, Active
<1>2. /\ count \in 0 .. MaxTrans /\ ToSet(j.cpq) \subseteq 1 .. count
      /\ Sound(j, Outside(op, cur), {}, 0, 0, j.allocTid) /\ RoomInv(j, op, cur)
  BY <1>1, UpFacts
<1>3. Sound(j, 0, {}, 0, 0, j.allocTid) /\ Room(j, 0)
  BY <1>1, <1>2 DEF RoomInv, Outside
<1>4. 0 \in 0 .. MaxTrans /\ 0 \in 0 .. count
  BY <1>2, JournalAssumption
<1>5. UpInv(j, Idle, 0)
  BY <1>3, <1>4, IdleUp, IdleShaped
<1> QED
  BY <1>1, <1>2, <1>4, <1>5 DEF IInv

LEMMA CommitFailsKeeps ==
  ASSUME IInv, CommitFails
  PROVE  IInv'
<1> DEFINE m == j.allocTid
           u == Aborted(j, cur)
           r == [u EXCEPT !.last = op.last]
           at == op.at
<1>1. /\ Active(at) /\ at \in Working /\ Becomes(r) /\ op' = Idle /\ cur' = 0 /\ phase' = phase /\ count' = count
  BY DEF CommitFails, Working, Active
<1> HIDE DEF at
<1>2. /\ phase = "up"
      /\ count \in 0 .. MaxTrans /\ ToSet(j.cpq) \subseteq 1 .. count
      /\ cur \in Trans /\ cur \notin ToSet(j.cpq) /\ Room(j, cur)
      /\ Shaped(j) /\ Linked(j, cur, {}) /\ Tally(j, 0, 0) /\ Ring(j, cur) /\ Tids(j, m)
      /\ op.last = IF j.trans[cur].alloc > 0 THEN j.trans[cur].start ELSE j.last
      /\ TransShaped(j.trans[cur])
  BY <1>1, ActiveFacts
<1> HIDE DEF u, m
<1>3. /\ Shaped(u) /\ Linked(u, 0, {}) /\ Tally(u, 0, 0)
      /\ u.cpq = j.cpq /\ u.start = j.start /\ u.allocTid = m
      /\ \A x \in Trans \ {cur} : /\ u.trans[x].start = j.trans[x].start /\ u.trans[x].alloc = j.trans[x].alloc
                                  /\ u.trans[x].tid = j.trans[x].tid
  BY <1>2, AbortedLinked DEF u, m
<1>4. op.last \in Nat
  BY <1>2 DEF TransShaped, Shaped
<1>5. /\ DOMAIN r = JournalFields /\ r.last = op.last
      /\ r.trans = u.trans /\ r.cpq = u.cpq /\ r.recq = u.recq /\ r.owner = u.owner /\ r.buf = u.buf
      /\ r.start = u.start /\ r.allocTid = u.allocTid
  BY <1>3, FieldNames DEF Shaped, JournalFields
<1> HIDE DEF r
<1>6. Shaped(r)
  BY <1>3, <1>4, <1>5, FieldNames DEF Shaped
<1>7. Linked(r, 0, {}) /\ Tally(r, 0, 0)
  <2>1. Linked(r, 0, {})
    BY ONLY <1>3, <1>5 DEF Linked
  <2>2. Tally(r, 0, 0)
    BY ONLY <1>3, <1>5 DEF Tally
  <2> QED
    BY <2>1, <2>2
<1>8. /\ r.cpq = j.cpq /\ r.start = j.start /\ r.allocTid = m
      /\ r.last = IF j.trans[cur].alloc > 0 THEN j.trans[cur].start ELSE j.last
      /\ \A x \in Trans \ {cur} : /\ r.trans[x].start = j.trans[x].start /\ r.trans[x].alloc = j.trans[x].alloc
                                  /\ r.trans[x].tid = j.trans[x].tid
  BY <1>2, <1>3, <1>5
<1>9. Ring(r, 0) /\ Tids(r, m) /\ Room(r, 0)
  BY <1>2, <1>6, <1>8, RingUndone
<1>10. 0 \in 0 .. MaxTrans /\ 0 \in 0 .. count
  BY <1>2, JournalAssumption
<1>11. Sound(r, 0, {}, 0, 0, m)
  BY <1>6, <1>7, <1>9, <1>10 DEF Sound
<1>12. UpInv(r, Idle, 0)
  BY <1>8, <1>9, <1>10, <1>11, IdleUp, IdleShaped
<1> QED
  BY <1>1, <1>2, <1>8, <1>10, <1>12, BecomesUp

(* What the invariant says while jbd_journal_purge_cp_trans flushes. *)
LEMMA PurgingFacts ==
  ASSUME IInv, Purging
  PROVE  /\ phase = "up" /\ UpInv(j, op, cur) /\ OpShaped(op) /\ DOMAIN op = OpFields
         /\ count \in 0 .. MaxTrans /\ cur \in 0 .. count /\ ToSet(j.cpq) \subseteq 1 .. count
         /\ cur \in 0 .. MaxTrans /\ Shaped(j)
         /\ Outside(op, cur) = cur
         /\ Sound(j, cur, {}, 0, 0, j.allocTid)
         /\ op.at = "stop" => cur = 0 /\ op.full = FALSE
         /\ op.at # "stop" => op.full = TRUE /\ op.at \in Working
         /\ cur \notin ToSet(j.cpq)
         /\ IsInjective(j.cpq)
<1>1. phase = "up" /\ (op.full \/ op.at = "stop")
  BY DEF Purging
<1>2. /\ UpInv(j, op, cur) /\ OpShaped(op)
      /\ count \in 0 .. MaxTrans /\ cur \in 0 .. count /\ ToSet(j.cpq) \subseteq 1 .. count
      /\ cur \in 0 .. MaxTrans /\ Shaped(j)
      /\ Sound(j, Outside(op, cur), {}, 0, 0, j.allocTid)
      /\ CommitInv(j, op, cur) /\ PurgeInv(j, op)
  BY <1>1, UpFacts
<1>3. DOMAIN op = OpFields /\ op.full \in BOOLEAN
  BY <1>2, IdleShaped DEF OpShaped
<1>4. /\ op.at = "stop" => cur = 0 /\ op.full = FALSE
      /\ op.at # "stop" => op.full = TRUE /\ op.at \in Working
  BY <1>1, <1>2, <1>3 DEF CommitInv, PurgeInv, Working
<1>5. Outside(op, cur) = cur
  BY <1>4 DEF Outside, Working
<1>6. cur \notin ToSet(j.cpq) /\ IsInjective(j.cpq)
  BY <1>2, <1>5 DEF Sound, Linked
<1> QED
  BY <1>1, <1>2, <1>3, <1>4, <1>5, <1>6

(* jbd_journal_alloc_block returns to the commit. *)
LEMMA ResumeUp ==
  ASSUME IInv, Purging, NEW r, Sound(r, cur, {}, 0, 0, r.allocTid),
         CommitInv(r, op, cur), PrepareInv(r, op, cur),
         op.at = "stop" => Room(r, cur),
         NEW o, o = [Resume(r) EXCEPT !.purge = <<>>] \/ (o = Resume(r) /\ op.purge = <<>>)
  PROVE  UpInv(r, o, cur)
<1>1. /\ phase = "up" /\ OpShaped(op) /\ DOMAIN op = OpFields /\ cur \in 0 .. MaxTrans
      /\ op.at = "stop" => cur = 0 /\ op.full = FALSE
      /\ op.at # "stop" => op.full = TRUE /\ op.at \in Working
  BY PurgingFacts
<1>2. CASE op.at # "stop" /\ r.last = r.start
  <2>1. o = Panic \/ o = [Panic EXCEPT !.purge = <<>>]
    BY <1>2 DEF Resume
  <2> QED
    BY <1>1, <2>1, PanicUp
<1>3. CASE op.at = "stop" \/ r.last # r.start
  <2>1. <<>> \in Seq(Trans \X Home)
    OBVIOUS
  <2>2. /\ OpShaped(o) /\ o.at = op.at /\ o.todo = op.todo /\ o.idx = op.idx /\ o.last = op.last /\ o.purge = <<>>
        /\ o.full = FALSE
    <3>1. CASE op.at = "stop"
      <4>1. o = [op EXCEPT !.purge = <<>>] \/ (o = op /\ op.purge = <<>>)
        BY <3>1 DEF Resume
      <4> QED
        BY <1>1, <2>1, <3>1, <4>1 DEF OpShaped, OpFields
    <3>2. CASE op.at # "stop"
      <4>1. \/ o = [[op EXCEPT !.full = FALSE] EXCEPT !.purge = <<>>]
            \/ o = [op EXCEPT !.full = FALSE] /\ op.purge = <<>>
        BY <1>3, <3>2 DEF Resume
      <4> QED
        BY <1>1, <2>1, <4>1 DEF OpShaped, OpFields
    <3> QED
      BY <3>1, <3>2
  <2>3. Outside(o, cur) = cur
    BY <1>1, <2>2 DEF Outside, Working
  <2>4. CommitInv(r, o, cur) /\ PrepareInv(r, o, cur) /\ PurgeInv(r, o)
    BY <2>2 DEF CommitInv, PrepareInv, PurgeInv
  <2>5. RoomInv(r, o, cur)
    BY <1>3, <2>3 DEF RoomInv, Room
  <2> QED
    BY <1>1, <2>2, <2>3, <2>4, <2>5 DEF UpInv
<1> QED
  BY <1>2, <1>3

LEMMA PurgeCompleteKeeps ==
  ASSUME IInv, PurgeComplete
  PROVE  IInv'
<1> DEFINE m == j.allocTid
           r == Popped(j)
           o == Resume(r)
<1>1. /\ Purging /\ op.purge = <<>> /\ j.cpq # <<>> /\ Complete(j, Head(j.cpq)) /\ Becomes(r) /\ op' = o
      /\ phase' = phase /\ count' = count /\ cur' = cur
  BY DEF PurgeComplete
<1>2. /\ phase = "up" /\ UpInv(j, op, cur) /\ OpShaped(op) /\ DOMAIN op = OpFields
      /\ count \in 0 .. MaxTrans /\ cur \in 0 .. count /\ ToSet(j.cpq) \subseteq 1 .. count
      /\ Outside(op, cur) = cur
      /\ Sound(j, cur, {}, 0, 0, m)
      /\ op.at # "stop" => op.full = TRUE /\ op.at \in Working
      /\ op.at = "stop" => cur = 0
  BY <1>1, PurgingFacts
<1> HIDE DEF r, m, o
<1>4. Sound(r, cur, {}, 0, 0, m) /\ Frame(j, r, cur) /\ Room(r, cur) /\ (cur # 0 => r.trans[cur] = j.trans[cur]) /\ r.buf = j.buf
  <2>1. r = Popped(j)
    BY DEF r
  <2>2. j.cpq # <<>> /\ Complete(j, Head(j.cpq))
    BY <1>1
  <2>3. Sound(j, cur, {}, 0, 0, m)
    BY <1>2
  <2> QED
    BY <2>1, <2>2, <2>3, PoppedSound
<1>5. HeldSame(j, r, cur)
  BY <1>4 DEF HeldSame
<1>6. CommitInv(r, op, cur) /\ PrepareInv(r, op, cur)
  BY <1>2, <1>4, <1>5, FrameInv
<1>7. r.allocTid = m /\ ToSet(r.cpq) \subseteq ToSet(j.cpq)
  BY <1>4 DEF Frame, m
<1>8. UpInv(r, o, cur)
  BY <1>1, <1>4, <1>6, <1>7, ResumeUp DEF o
<1> QED
  BY <1>1, <1>2, <1>7, <1>8, BecomesUp

LEMMA PurgeFlushKeeps ==
  ASSUME IInv, PurgeFlush
  PROVE  IInv'
<1> DEFINE h == Head(j.cpq)
           q == j.trans[h].bufq
           p == [i \in 1 .. Len(q) |-> <<h, q[i]>>]
           o == [op EXCEPT !.purge = p]
<1>1. /\ Purging /\ op.purge = <<>> /\ j.cpq # <<>> /\ op' = o
      /\ phase' = phase /\ count' = count /\ cur' = cur /\ j' = j
  BY DEF PurgeFlush
<1>2. /\ phase = "up" /\ UpInv(j, op, cur) /\ OpShaped(op) /\ DOMAIN op = OpFields
      /\ count \in 0 .. MaxTrans /\ cur \in 0 .. count /\ ToSet(j.cpq) \subseteq 1 .. count
      /\ Outside(op, cur) = cur /\ Shaped(j)
      /\ Sound(j, cur, {}, 0, 0, j.allocTid)
      /\ op.at # "stop" => op.full = TRUE /\ op.at \in Working
  BY <1>1, PurgingFacts
<1>3. h \in Trans
  <2>1. j.cpq \in Seq(Trans)
    BY <1>2 DEF Shaped
  <2> QED
    BY <1>1, <2>1
<1> HIDE DEF h
<1>4. q \in Seq(Home) /\ IsInjective(q)
  BY <1>2, <1>3 DEF Sound, Linked, Shaped, TransShaped
<1> HIDE DEF q
<1>5. Len(q) \in Nat /\ DOMAIN q = 1 .. Len(q) /\ (\A i \in 1 .. Len(q) : q[i] \in Home /\ q[i] \in ToSet(q))
  <2>1. Len(q) \in Nat /\ DOMAIN q = 1 .. Len(q) /\ \A i \in 1 .. Len(q) : q[i] \in Home
    BY <1>4
  <2> QED
    BY <1>4, <2>1, MembersOf
<1>6. /\ p \in Seq(Trans \X Home) /\ Len(p) = Len(q)
      /\ \A i \in 1 .. Len(p) : p[i][1] = h /\ p[i][2] = q[i]
  <2>1. \A i \in 1 .. Len(q) : <<h, q[i]>> \in Trans \X Home
    BY <1>3, <1>5
  <2>2. p \in [1 .. Len(q) -> Trans \X Home]
    BY <2>1
  <2>3. p \in Seq(Trans \X Home)
    BY <1>5, <2>2, SeqDef
  <2>4. DOMAIN p = 1 .. Len(p) /\ Len(p) \in Nat
    BY <2>3, LenProperties
  <2>5. Len(p) = Len(q)
    BY <1>5, <2>2, <2>4
  <2> QED
    BY <2>3, <2>5
<1> HIDE DEF p
<1>7. IsInjective(p)
  <2>1. \A i, k \in 1 .. Len(q) : q[i] = q[k] => i = k
    BY <1>4, <1>5 DEF IsInjective
  <2>2. DOMAIN p = 1 .. Len(q)
    BY <1>6
  <2>3. \A i, k \in 1 .. Len(q) : p[i] = p[k] => i = k
    <3> SUFFICES ASSUME NEW i \in 1 .. Len(q), NEW k \in 1 .. Len(q), p[i] = p[k] PROVE i = k
      OBVIOUS
    <3>1. q[i] = q[k]
      BY <1>6
    <3> QED
      BY <2>1, <3>1
  <2> QED
    BY <2>2, <2>3 DEF IsInjective
<1>8. /\ OpShaped(o) /\ o.at = op.at /\ o.todo = op.todo /\ o.idx = op.idx /\ o.last = op.last /\ o.full = op.full
      /\ o.purge = p
  BY <1>2, <1>6 DEF OpShaped, OpFields
<1> HIDE DEF o
<1>9. Outside(o, cur) = cur /\ (o.full \/ o.at = "stop")
  BY <1>2, <1>8 DEF Outside, Working
<1>10. CommitInv(j, o, cur) /\ PrepareInv(j, o, cur) /\ RoomInv(j, o, cur)
  BY <1>2, <1>8, <1>9 DEF UpInv, CommitInv, PrepareInv, RoomInv
<1>11. PurgeInv(j, o)
  <2>1. o.full => o.at \in Working /\ j.cpq # <<>>
    BY <1>2, <1>8 DEF UpInv, PurgeInv
  <2>2. \A i \in 1 .. Len(o.purge) : o.purge[i][1] = Head(j.cpq) /\ o.purge[i][2] \in ToSet(j.trans[Head(j.cpq)].bufq)
    <3>1. \A i \in 1 .. Len(p) : p[i][1] = h /\ p[i][2] \in ToSet(q)
      BY <1>5, <1>6
    <3> QED
      BY <1>8, <3>1 DEF q, h
  <2> QED
    BY <1>1, <1>7, <1>8, <1>9, <2>1, <2>2 DEF PurgeInv
<1>12. UpInv(j, o, cur)
  BY <1>2, <1>8, <1>9, <1>10, <1>11 DEF UpInv
<1> QED
  BY <1>1, <1>2, <1>12 DEF IInv

(* A block that is not flushed yet keeps the transaction at the head. *)
LEMMA HeadStays ==
  ASSUME NEW s, NEW r, NEW a, NEW m, Sound(s, a, {}, 0, 0, m), Sound(r, a, {}, 0, 0, m), Frame(s, r, a),
         s.cpq # <<>>, Head(s.cpq) \in Trans, Head(s.cpq) # a,
         NEW k \in Home, k \in ToSet(s.trans[Head(s.cpq)].bufq), r.recq[k] = s.recq[k]
  PROVE  r.cpq = s.cpq /\ k \in ToSet(r.trans[Head(s.cpq)].bufq)
<1> DEFINE t == Head(s.cpq)
           X == {}
           d == 0
<1> HIDE DEF t
<1>1. t \in Trans /\ t # a /\ k \in ToSet(s.trans[t].bufq)
  BY DEF t
<1>2. t \in ToSet(r.recq[k])
  BY <1>1 DEF Sound, Linked
<1>3. Shaped(r) /\ Linked(r, a, X)
  BY DEF Sound
<1> HIDE DEF X
<1>4. t \in ToSet(r.cpq) \/ t = a
  BY <1>1, <1>2, <1>3, InUse
<1>5. r.cpq = s.cpq
  BY <1>1, <1>4 DEF Frame, t
<1>6. k \in ToSet(r.trans[t].bufq)
  BY <1>1, <1>2, <1>3 DEF Linked
<1> QED
  BY <1>5, <1>6 DEF t

LEMMA FlushJbdBufKeeps ==
  ASSUME IInv, FlushJbdBuf
  PROVE  IInv'
<1> DEFINE m == j.allocTid
           p == op.purge
           t == p[1][1]
           l == p[1][2]
           r == FlushOne(t, l)
           more == [op EXCEPT !.purge = Tail(op.purge)]
           last == [Resume(r) EXCEPT !.purge = <<>>]
<1>1. Purging /\ p # <<>> /\ phase' = phase /\ count' = count /\ cur' = cur
  BY DEF FlushJbdBuf
<1>2. /\ phase = "up" /\ UpInv(j, op, cur) /\ OpShaped(op) /\ DOMAIN op = OpFields
      /\ count \in 0 .. MaxTrans /\ cur \in 0 .. count /\ ToSet(j.cpq) \subseteq 1 .. count
      /\ cur \in 0 .. MaxTrans /\ Shaped(j)
      /\ Outside(op, cur) = cur
      /\ Sound(j, cur, {}, 0, 0, m)
      /\ op.at = "stop" => cur = 0 /\ op.full = FALSE
      /\ op.at # "stop" => op.full = TRUE /\ op.at \in Working
      /\ cur \notin ToSet(j.cpq)
  BY <1>1, PurgingFacts
<1>3. p \in Seq(Trans \X Home)
  BY <1>2 DEF OpShaped
<1>4. /\ j.cpq # <<>> /\ IsInjective(p)
      /\ \A i \in 1 .. Len(p) : p[i][1] = Head(j.cpq) /\ p[i][2] \in ToSet(j.trans[Head(j.cpq)].bufq)
  BY <1>1, <1>2 DEF UpInv, PurgeInv
<1>5. /\ Tail(p) \in Seq(Trans \X Home) /\ Len(Tail(p)) = Len(p) - 1 /\ Len(p) > 0 /\ Len(p) \in Nat
      /\ \A i \in 1 .. Len(p) - 1 : Tail(p)[i] = p[i + 1]
      /\ Head(p) = p[1] /\ Head(p) \in Trans \X Home
      /\ IsInjective(Tail(p))
  BY <1>1, <1>3, <1>4, TailOnce
<1>6. Becomes(r) /\ op' = IF Len(p) > 1 THEN more ELSE last
  BY <1>5 DEF FlushJbdBuf
<1>7. /\ t = Head(j.cpq) /\ t \in Trans /\ l \in Home /\ l \in ToSet(j.trans[t].bufq)
  BY <1>4, <1>5
<1>8. t # cur
  <2>1. j.cpq \in Seq(Trans)
    BY <1>2 DEF Shaped
  <2>2. Head(j.cpq) \in ToSet(j.cpq)
    BY <1>4, <2>1, TailOnce
  <2> QED
    BY <1>2, <1>7, <2>2
<1> HIDE DEF m, r, t, l, more, last, p
<1>9. /\ Sound(r, cur, {}, 0, 0, m) /\ Frame(j, r, cur) /\ HeldSame(j, r, cur)
      /\ \A x \in Home \ {l} : r.recq[x] = j.recq[x]
  BY <1>2, <1>7, <1>8, FlushOneSound DEF r
<1>10. CommitInv(r, op, cur) /\ PrepareInv(r, op, cur) /\ RoomInv(r, op, cur)
  BY <1>2, <1>9, FrameInv
<1>11. r.allocTid = m /\ ToSet(r.cpq) \subseteq ToSet(j.cpq)
  BY <1>9 DEF Frame, m
<1>12. CASE Len(p) > 1
  <2>1. /\ OpShaped(more) /\ more.at = op.at /\ more.todo = op.todo /\ more.idx = op.idx /\ more.last = op.last
        /\ more.full = op.full /\ more.purge = Tail(p)
    BY <1>2, <1>5 DEF OpShaped, OpFields, more, p
  <2>2. ASSUME NEW i \in 1 .. Len(p), i # 1
        PROVE  r.cpq = j.cpq /\ p[i][2] \in ToSet(r.trans[Head(j.cpq)].bufq)
    <3> DEFINE k == p[i][2]
    <3>1. k \in ToSet(j.trans[Head(j.cpq)].bufq) /\ p[i][1] = Head(j.cpq)
      BY <1>4
    <3>2. p[i] \in Trans \X Home /\ p[1] \in Trans \X Home /\ 1 \in 1 .. Len(p)
      BY <1>3, <1>5, ElementOfSeq
    <3>3. k # l
      <4>1. p[i] # p[1]
        <5>1. DOMAIN p = 1 .. Len(p)
          BY <1>3
        <5> QED
          BY <1>4, <2>2, <3>2, <5>1 DEF IsInjective
      <4> QED
        BY <1>4, <3>1, <3>2, <4>1 DEF l
    <3>4. k \in Home
      BY <3>2
    <3>5. r.recq[k] = j.recq[k]
      BY <1>9, <3>3, <3>4
    <3> HIDE DEF k
    <3>6. r.cpq = j.cpq /\ k \in ToSet(r.trans[Head(j.cpq)].bufq)
      BY <1>2, <1>4, <1>7, <1>8, <1>9, <3>1, <3>4, <3>5, HeadStays
    <3> QED
      BY <3>6 DEF k
  <2>3. r.cpq = j.cpq
    <3>1. 2 \in 1 .. Len(p) /\ 2 # 1
      BY <1>5, <1>12
    <3> QED
      BY <2>2, <3>1
  <2>4. PurgeInv(r, more)
    <3>1. op.full => op.at \in Working /\ j.cpq # <<>>
      BY <1>2, <1>4
    <3>2. op.full \/ op.at = "stop"
      BY <1>2
    <3>3. ASSUME NEW i \in 1 .. Len(Tail(p))
          PROVE  Tail(p)[i][1] = Head(r.cpq) /\ Tail(p)[i][2] \in ToSet(r.trans[Head(r.cpq)].bufq)
      <4>1. i + 1 \in 1 .. Len(p) /\ i + 1 # 1 /\ Tail(p)[i] = p[i + 1]
        BY <1>5
      <4> QED
        BY <1>4, <2>2, <2>3, <4>1
    <3> QED
      BY <1>4, <1>5, <2>1, <2>3, <3>1, <3>2, <3>3 DEF PurgeInv
  <2>5. Outside(more, cur) = cur
    BY <1>2, <2>1 DEF Outside
  <2>6. CommitInv(r, more, cur) /\ PrepareInv(r, more, cur) /\ RoomInv(r, more, cur)
    BY <1>2, <1>10, <2>1, <2>5 DEF CommitInv, PrepareInv, RoomInv
  <2>7. UpInv(r, more, cur)
    BY <1>2, <1>9, <1>11, <2>1, <2>4, <2>5, <2>6 DEF UpInv
  <2> QED
    BY <1>1, <1>2, <1>6, <1>11, <1>12, <2>7, BecomesUp
<1>13. CASE ~(Len(p) > 1)
  <2>1. op.at = "stop" => Room(r, cur)
    BY <1>2, <1>10 DEF RoomInv
  <2>2. UpInv(r, last, cur)
    BY <1>1, <1>9, <1>10, <1>11, <2>1, ResumeUp DEF last
  <2> QED
    BY <1>1, <1>2, <1>6, <1>11, <1>13, <2>2, BecomesUp
<1> QED
  BY <1>12, <1>13

(* A journal without transactions. *)
LEMMA FreshLinked ==
  ASSUME NEW r, DOMAIN r = JournalFields, r.trans = NoJournal.trans, r.cpq = <<>>, r.recq = NoJournal.recq,
         r.owner = NoJournal.owner, r.start \in Nat, r.last \in Nat,
         DOMAIN r.buf = Home, \A l \in Home : DOMAIN r.buf[l] = BufFields /\ r.buf[l].endWrite = 0
  PROVE  Shaped(r) /\ Linked(r, 0, {}) /\ Tally(r, 0, 0)
<1>1. /\ DOMAIN r.trans = Trans /\ \A t \in Trans : r.trans[t] = NoTrans
      /\ r.recq \in [Home -> Seq(Trans)] /\ \A l \in Home : r.recq[l] = <<>>
      /\ r.owner \in [Home -> 0 .. MaxTrans]
  <2>1. <<>> \in Seq(Trans) /\ 0 \in 0 .. MaxTrans
    BY JournalAssumption
  <2>2. DOMAIN r.trans = Trans /\ \A t \in Trans : r.trans[t] = NoTrans
    BY DEF NoJournal
  <2>3. r.recq = [l \in Home |-> <<>>]
    BY DEF NoJournal
  <2>4. r.owner = [l \in Home |-> 0]
    BY DEF NoJournal
  <2> QED
    BY <2>1, <2>2, <2>3, <2>4
<1>2. TransShaped(NoTrans) /\ NoTrans.bufq = <<>> /\ NoTrans.dataCnt = 0 /\ NoTrans.written = 0
  BY DEF TransShaped, NoTrans
<1>3. r.cpq \in Seq(Trans) /\ ToSet(r.cpq) = {} /\ IsInjective(r.cpq)
  BY DEF ToSet, IsInjective
<1>4. Shaped(r)
  BY <1>1, <1>2, <1>3, FieldNames DEF Shaped
<1>5. ToSet(<<>>) = {} /\ Len(<<>>) = 0 /\ IsInjective(<<>>)
  BY DEF ToSet, IsInjective
<1>6. Linked(r, 0, {})
  <2>1. \A t \in Trans : r.trans[t].bufq = <<>>
    BY <1>1, <1>2
  <2> QED
    BY <1>1, <1>3, <1>5, <2>1 DEF Linked
<1>7. Tally(r, 0, 0)
  <2>1. \A t \in Trans : t # 0
    BY JournalAssumption DEF Trans
  <2> QED
    BY <1>1, <1>2, <1>5, <2>1 DEF Tally
<1> QED
  BY <1>4, <1>6, <1>7

(* With an empty queue no buffer reports its write. *)
LEMMA QueueEmpty ==
  ASSUME NEW s, Shaped(s), Linked(s, 0, {}), s.cpq = <<>>
  PROVE  \A l \in Home : s.recq[l] = <<>> /\ s.buf[l].endWrite = 0
<1> SUFFICES ASSUME NEW l \in Home PROVE s.recq[l] = <<>> /\ s.buf[l].endWrite = 0
  OBVIOUS
<1>1. s.recq[l] \in Seq(Trans)
  BY DEF Shaped
<1>2. \A t \in Trans : ToSet(s.trans[t].bufq) = {}
  <2>1. \A t \in Trans : t \notin ToSet(s.cpq) /\ t # 0
    BY JournalAssumption DEF Trans, ToSet
  <2>2. \A t \in Trans : s.trans[t] = NoTrans
    BY <2>1 DEF Linked
  <2>3. NoTrans.bufq = <<>>
    BY DEF NoTrans
  <2>4. ToSet(<<>>) = {}
    BY DEF ToSet
  <2> QED
    BY <2>2, <2>3, <2>4
<1>3. \A t \in Trans : t \notin ToSet(s.recq[l])
  BY <1>2 DEF Linked
<1>4. s.recq[l] = <<>>
  BY <1>1, <1>3, MembersOf
<1> QED
  BY <1>4 DEF Linked

LEMMA StopBeginKeeps ==
  ASSUME IInv, StopBegin
  PROVE  IInv'
<1> DEFINE o == [Idle EXCEPT !.at = "stop"]
<1>1. /\ phase = "up" /\ op.at = "idle" /\ cur = 0 /\ phase' = "up" /\ j' = j /\ op' = o /\ cur' = cur /\ count' = count
  BY DEF StopBegin, Quiet
<1>2. /\ UpInv(j, op, cur)
      /\ count \in 0 .. MaxTrans /\ cur \in 0 .. count /\ ToSet(j.cpq) \subseteq 1 .. count
  BY <1>1, UpFacts
<1>3. Sound(j, 0, {}, 0, 0, j.allocTid) /\ Room(j, 0) /\ 0 \in 0 .. MaxTrans
  BY <1>1, <1>2, QuietUp
<1>4. OpShaped(o) /\ o.at = "stop" /\ o.purge = <<>> /\ o.full = FALSE
  BY IdleShaped DEF OpShaped, OpFields
<1> HIDE DEF o
<1>5. /\ CommitInv(j, o, 0) /\ PrepareInv(j, o, 0) /\ PurgeInv(j, o) /\ RoomInv(j, o, 0) /\ Outside(o, 0) = 0
  BY <1>3, <1>4 DEF CommitInv, PrepareInv, PurgeInv, RoomInv, Outside, Working
<1>6. UpInv(j, o, 0)
  BY <1>3, <1>4, <1>5 DEF UpInv
<1> QED
  BY <1>1, <1>2, <1>6 DEF IInv

LEMMA jbd_journal_stopKeeps ==
  ASSUME IInv, jbd_journal_stop
  PROVE  IInv'
<1> DEFINE u == [NoJournal EXCEPT !.buf = j.buf, !.out = <<WSb(0, 0)>>]
           r == [u EXCEPT !.out = <<>>]
<1>1. /\ Purging /\ op.at = "stop" /\ j.cpq = <<>> /\ j' = r /\ op' = Idle /\ phase' = "ready" /\ cur' = cur /\ count' = count
  BY DEF jbd_journal_stop, Becomes, Drained
<1>2. /\ count \in 0 .. MaxTrans /\ cur \in 0 .. count /\ cur = 0 /\ Shaped(j) /\ Sound(j, cur, {}, 0, 0, j.allocTid)
  BY <1>1, PurgingFacts
<1>3. Linked(j, 0, {})
  BY <1>2 DEF Sound
<1>4. \A l \in Home : j.buf[l].endWrite = 0
  BY <1>1, <1>2, <1>3, QueueEmpty
<1>5. DOMAIN j.buf = Home /\ \A l \in Home : DOMAIN j.buf[l] = BufFields
  BY <1>2, FieldNames DEF Shaped
<1>6. /\ DOMAIN r = JournalFields /\ r.trans = NoJournal.trans /\ r.cpq = <<>> /\ r.recq = NoJournal.recq
      /\ r.owner = NoJournal.owner /\ r.start \in Nat /\ r.last \in Nat /\ r.buf = j.buf
  BY DEF NoJournal, JournalFields
<1> HIDE DEF r
<1>7. Shaped(r) /\ Linked(r, 0, {}) /\ Tally(r, 0, 0)
  BY <1>4, <1>5, <1>6, FreshLinked
<1>8. ToSet(r.cpq) \subseteq 1 .. count
  BY <1>6 DEF ToSet
<1> QED
  BY <1>1, <1>2, <1>6, <1>7, <1>8 DEF IInv

LEMMA jbd_journal_startKeeps ==
  ASSUME IInv, jbd_journal_start
  PROVE  IInv'
<1> DEFINE m == jsb.seq + 1
           r == SbWritten([j EXCEPT !.start = 1, !.last = 1, !.tid = m, !.allocTid = m])
<1>1. /\ phase = "ready" /\ Becomes(r) /\ phase' = "up" /\ cur' = cur /\ op' = op /\ count' = count
  BY DEF jbd_journal_start
<1>2. /\ Shaped(j) /\ Linked(j, 0, {}) /\ Tally(j, 0, 0) /\ j.cpq = <<>> /\ cur = 0 /\ op = Idle
      /\ count \in 0 .. MaxTrans /\ cur \in 0 .. count /\ ToSet(j.cpq) \subseteq 1 .. count
  BY <1>1 DEF IInv
<1>3. DOMAIN j = JournalFields
  BY <1>2, FieldNames DEF Shaped
<1> HIDE DEF m
<1>4. /\ DOMAIN r = JournalFields /\ r.trans = j.trans /\ r.cpq = j.cpq /\ r.recq = j.recq /\ r.owner = j.owner
      /\ r.buf = j.buf /\ r.start = 1 /\ r.last = 1 /\ r.allocTid = m
  BY <1>3 DEF SbWritten, JournalFields
<1> HIDE DEF r
<1>5. Shaped(r)
  BY <1>2, <1>3, <1>4, FieldNames DEF Shaped
<1>6. Linked(r, 0, {}) /\ Tally(r, 0, 0)
  <2>1. Linked(r, 0, {})
    BY ONLY <1>2, <1>4 DEF Linked
  <2>2. Tally(r, 0, 0)
    BY ONLY <1>2, <1>4 DEF Tally
  <2> QED
    BY <2>1, <2>2
<1>7. InLog(r, 0) = <<>>
  BY <1>2, <1>4 DEF InLog
<1>8. Ring(r, 0) /\ Room(r, 0) /\ Tids(r, m)
  <2>1. Len(<<>>) = 0
    OBVIOUS
  <2>2. 1 \in 1 .. JSize
    BY LogAssumption
  <2> QED
    BY <1>2, <1>4, <1>7, <2>1, <2>2 DEF Ring, Room, Tids
<1>9. 0 \in 0 .. MaxTrans
  BY JournalAssumption
<1>10. Sound(r, 0, {}, 0, 0, m)
  BY <1>5, <1>6, <1>8, <1>9 DEF Sound
<1>11. UpInv(r, op, cur)
  BY <1>2, <1>4, <1>8, <1>9, <1>10, IdleUp, IdleShaped
<1> QED
  BY <1>1, <1>2, <1>4, <1>11, BecomesUp

(* The journal is forgotten. *)
LEMMA NoJournalKeeps ==
  ASSUME IInv, NEW x, j' = [NoJournal EXCEPT !.out = x], phase' # "up", cur' = 0, op' = Idle, count' = count
  PROVE  IInv'
<1> DEFINE r == [NoJournal EXCEPT !.out = x]
<1>1. /\ DOMAIN r = JournalFields /\ r.trans = NoJournal.trans /\ r.cpq = <<>> /\ r.recq = NoJournal.recq
      /\ r.owner = NoJournal.owner /\ r.start \in Nat /\ r.last \in Nat
      /\ DOMAIN r.buf = Home /\ \A l \in Home : DOMAIN r.buf[l] = BufFields /\ r.buf[l].endWrite = 0
  BY DEF NoJournal, NoBuf, JournalFields, BufFields
<1>2. j' = r
  OBVIOUS
<1> HIDE DEF r
<1>3. Shaped(r) /\ Linked(r, 0, {}) /\ Tally(r, 0, 0)
  BY <1>1, FreshLinked
<1>4. count \in 0 .. MaxTrans /\ 0 \in 0 .. count /\ ToSet(r.cpq) \subseteq 1 .. count
  BY <1>1, JournalAssumption DEF IInv, ToSet
<1> QED
  BY <1>1, <1>2, <1>3, <1>4 DEF IInv

LEMMA ext4_recoverKeeps ==
  ASSUME IInv, ext4_recover
  PROVE  IInv'
<1>1. PICK x : Becomes([NoJournal EXCEPT !.out = x])
  BY DEF ext4_recover
<1>2. j' = [NoJournal EXCEPT !.out = <<>>]
  BY <1>1 DEF Becomes, NoJournal
<1>3. phase = "down" /\ phase' = "ready" /\ cur' = cur /\ op' = op /\ count' = count
  BY DEF ext4_recover
<1>4. cur = 0 /\ op = Idle
  BY <1>3 DEF IInv
<1> QED
  BY <1>2, <1>3, <1>4, NoJournalKeeps

LEMMA CrashKeeps ==
  ASSUME IInv, Crash
  PROVE  IInv'
<1>1. j' = NoJournal /\ phase' = "down" /\ cur' = 0 /\ op' = Idle /\ count' = count
  BY DEF Crash
<1>2. NoJournal = [NoJournal EXCEPT !.out = <<>>]
  BY DEF NoJournal
<1> QED
  BY <1>1, <1>2, NoJournalKeeps

LEMMA SameKeeps ==
  ASSUME IInv, UNCHANGED <<phase, j, cur, op, count>>
  PROVE  IInv'
BY DEF IInv

LEMMA InitInv == Init => IInv
<1> SUFFICES ASSUME Init PROVE IInv
  OBVIOUS
<1>1. j = NoJournal /\ phase = "ready" /\ cur = 0 /\ op = Idle /\ count = 0
  BY DEF Init
<1>2. /\ DOMAIN j = JournalFields /\ j.trans = NoJournal.trans /\ j.cpq = <<>> /\ j.recq = NoJournal.recq
      /\ j.owner = NoJournal.owner /\ j.start \in Nat /\ j.last \in Nat
      /\ DOMAIN j.buf = Home /\ \A l \in Home : DOMAIN j.buf[l] = BufFields /\ j.buf[l].endWrite = 0
  BY <1>1 DEF NoJournal, NoBuf, JournalFields, BufFields
<1>3. Shaped(j) /\ Linked(j, 0, {}) /\ Tally(j, 0, 0)
  BY <1>2, FreshLinked
<1>4. count \in 0 .. MaxTrans /\ 0 \in 0 .. count /\ ToSet(j.cpq) \subseteq 1 .. count
  BY <1>1, <1>2, JournalAssumption DEF ToSet
<1> QED
  BY <1>1, <1>2, <1>3, <1>4 DEF IInv

LEMMA Inductive == IInv /\ [Next]_vars => IInv'
<1> SUFFICES ASSUME IInv, [Next]_vars PROVE IInv'
  OBVIOUS
<1>1. CASE ext4_trans_start
  BY <1>1, ext4_trans_startKeeps
<1>2. ASSUME NEW l \in Home, jbd_trans_set_block_dirty(l) PROVE IInv'
  BY <1>2, jbd_trans_set_block_dirtyKeeps
<1>3. ASSUME NEW l \in Home, ext4_trans_try_revoke_block(l) PROVE IInv'
  BY <1>3, ext4_trans_try_revoke_blockKeeps
<1>4. ASSUME NEW l \in Home, ext4_blocks_set_direct(l) PROVE IInv'
  BY <1>4, ext4_blocks_set_directKeeps
<1>5. ASSUME NEW l \in Home, ext4_trans_block_get(l) PROVE IInv'
  BY <1>5, ext4_trans_block_getKeeps
<1>6. ASSUME NEW l \in Home, ext4_block_flush_buf(l) PROVE IInv'
  BY <1>6, ext4_block_flush_bufKeeps
<1>7. CASE ext4_trans_abort
  BY <1>7, ext4_trans_abortKeeps
<1>8. CASE CommitBegin
  BY <1>8, CommitBeginKeeps
<1>9. CASE PrepareClean
  BY <1>9, PrepareCleanKeeps
<1>10. CASE PrepareDesc
  BY <1>10, PrepareDescKeeps
<1>11. CASE PrepareDescDone
  BY <1>11, PrepareDescDoneKeeps
<1>12. CASE PrepareAlloc
  BY <1>12, PrepareAllocKeeps
<1>13. CASE PrepareData
  BY <1>13, PrepareDataKeeps
<1>14. CASE PrepareRevoke
  BY <1>14, PrepareRevokeKeeps
<1>15. CASE WriteRevoke
  BY <1>15, WriteRevokeKeeps
<1>16. CASE CommitAlloc
  BY <1>16, CommitAllocKeeps
<1>17. CASE WriteCommit
  BY <1>17, WriteCommitKeeps
<1>18. CASE CommitEnd
  BY <1>18, CommitEndKeeps
<1>19. CASE ext4_trans_stop
  BY <1>19, ext4_trans_stopKeeps
<1>20. CASE CommitFails
  BY <1>20, CommitFailsKeeps
<1>21. CASE PurgeComplete
  BY <1>21, PurgeCompleteKeeps
<1>22. CASE PurgeFlush
  BY <1>22, PurgeFlushKeeps
<1>23. CASE FlushJbdBuf
  BY <1>23, FlushJbdBufKeeps
<1>24. CASE StopBegin
  BY <1>24, StopBeginKeeps
<1>25. CASE jbd_journal_stop
  BY <1>25, jbd_journal_stopKeeps
<1>26. CASE jbd_journal_start
  BY <1>26, jbd_journal_startKeeps
<1>27. CASE ext4_recover
  BY <1>27, ext4_recoverKeeps
<1>28. CASE DeviceWrite
  BY <1>28, SameKeeps DEF DeviceWrite
<1>29. CASE Crash
  BY <1>29, CrashKeeps
<1>30. CASE UNCHANGED vars
  BY <1>30, SameKeeps DEF vars
<1> QED
  BY <1>1, <1>2, <1>3, <1>4, <1>5, <1>6, <1>7, <1>8, <1>9, <1>10, <1>11, <1>12, <1>13, <1>14, <1>15,
     <1>16, <1>17, <1>18, <1>19, <1>20, <1>21, <1>22, <1>23, <1>24, <1>25, <1>26, <1>27, <1>28, <1>29, <1>30 DEF Next

(* The records of the journal agree with each other at every step of every
   call, whatever is interleaved with it: commit, abort, checkpoint,
   write-back, start, stop and power failure. *)
THEOREM JournalSound == Spec => []IInv
<1> QED
  BY InitInv, Inductive, PTL DEF Spec

LEMMA IInvRecords == IInv => RecordsLinked
<1> SUFFICES ASSUME IInv PROVE RecordsLinked
  OBVIOUS
<1>1. PICK a \in 0 .. MaxTrans : Shaped(j) /\ Linked(j, a, {})
  <2>1. CASE phase = "up"
    BY <2>1 DEF IInv, UpInv, Sound
  <2>2. CASE phase # "up"
    BY <2>2, JournalAssumption DEF IInv
  <2> QED
    BY <2>1, <2>2
<1>2. ASSUME NEW l \in Home, j.recq[l] # <<>> PROVE j.owner[l] # 0
  <2>1. j.recq[l] \in Seq(Trans)
    BY <1>1 DEF Shaped
  <2>2. Last(j.recq[l]) \in Trans
    BY <1>2, <2>1, MembersOf
  <2>3. j.owner[l] = Last(j.recq[l])
    BY <1>1, <1>2 DEF Linked
  <2> QED
    BY <2>2, <2>3, JournalAssumption DEF Trans
<1> QED
  BY <1>1, <1>2 DEF RecordsLinked, Linked

(* jbd_buf and jbd_block_rec point at each other correctly
   (jbd_trans_end_write, jbd_trans_finish_callback,
   jbd_trans_remove_block_rec). *)
THEOREM RecordsAgree == Spec => []RecordsLinked
<1> QED
  BY JournalSound, IInvRecords, PTL

LEMMA IInvQueue == IInv => QueueFillsLog
<1> SUFFICES ASSUME IInv, Quiet PROVE QueueFillsLog
  BY DEF QueueFillsLog
<1> DEFINE n == Len(j.cpq)
<1>1. phase = "up" /\ op.at = "idle" /\ UpInv(j, op, cur)
  BY DEF IInv, Quiet
<1>2. Sound(j, cur, {}, 0, 0, j.allocTid) /\ (cur # 0 => j.trans[cur].alloc = 0)
  BY <1>1, QuietUp
<1>3. InLog(j, cur) = j.cpq
  BY <1>2 DEF InLog
<1>4. Ring(j, cur) /\ Tids(j, j.allocTid) /\ j.cpq \in Seq(Trans)
  BY <1>2 DEF Sound, Shaped
<1>5. n \in Nat /\ (n = 0 <=> j.cpq = <<>>)
  BY <1>4
<1> HIDE DEF n
<1>6. j.last = IF n = 0 THEN j.start ELSE After(j, j.cpq[n])
  BY <1>3, <1>4, <1>5 DEF Ring, n
<1>7. n > 0 => j.start = j.trans[j.cpq[1]].start
  BY <1>3, <1>4, <1>5 DEF Ring
<1>8. ASSUME NEW i \in 1 .. n - 1
      PROVE  /\ j.trans[j.cpq[i + 1]].start = After(j, j.cpq[i])
             /\ j.trans[j.cpq[i + 1]].tid = j.trans[j.cpq[i]].tid + 1
  BY <1>3, <1>4 DEF Ring, Tids, n
<1> QED
  BY <1>6, <1>7, <1>8 DEF QueueFillsLog, n

(* The queued transactions fill the log from start to last, back to back and
   in order, whatever aborts, failed commits, purges and write-backs came
   before (jbd_journal_alloc_block, jbd_journal_purge_cp_trans). *)
THEOREM QueueMatchesLog == Spec => []QueueFillsLog
<1> QED
  BY JournalSound, IInvQueue, PTL
=============================================================================
