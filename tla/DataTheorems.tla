----------------------------- MODULE DataTheorems -----------------------------
(***************************************************************************)
(* Facts about numbers and sequences that the proofs about the components  *)
(* rest on.  Induction is stated for sets: a property is the set of the    *)
(* numbers that have it.                                                   *)
(***************************************************************************)
EXTENDS Integers, SequencesExt, FiniteSetTheorems, SequenceTheorems, WellFoundedInduction, TLAPS

(* A set of natural numbers that is not empty has a least member. *)
LEMMA LeastNatural ==
  ASSUME NEW S \in SUBSET Nat, S # {}
  PROVE  Min(S) \in S /\ \A k \in S : Min(S) <= k
<1> DEFINE R == OpToRel(<, Nat)
<1>1. IsWellFoundedOn(R, Nat)
  BY NatLessThanWellFounded
<1>2. \A i, k \in Nat : <<i, k>> \in R <=> i < k
  BY DEF OpToRel
<1> HIDE DEF R
<1>3. \E x \in S : \A y \in S : ~(<<y, x>> \in R)
  BY <1>1, WFMin
<1>4. PICK x \in S : \A y \in S : ~(<<y, x>> \in R)
  BY <1>3
<1>5. \A y \in S : x \in Nat /\ y \in Nat /\ ~(y < x)
  BY <1>2, <1>4
<1>6. \A y \in S : x <= y
  BY <1>5
<1> QED
  BY <1>6 DEF Min

(* What holds of 0 and of each successor holds up to n. *)
LEMMA UpTo ==
  ASSUME NEW n \in Nat, NEW S, 0 \in S, \A k \in 0 .. n - 1 : k \in S => k + 1 \in S
  PROVE  \A k \in 0 .. n : k \in S
<1> DEFINE not == (0 .. n) \ S
<1>1. SUFFICES ASSUME not # {} PROVE FALSE
  OBVIOUS
<1>2. not \in SUBSET Nat
  OBVIOUS
<1>3. Min(not) \in not /\ \A k \in not : Min(not) <= k
  BY <1>1, <1>2, LeastNatural
<1>4. PICK k \in not : \A i \in not : k <= i
  BY <1>3
<1>5. k # 0 /\ k \in 0 .. n
  OBVIOUS
<1>6. k - 1 \in 0 .. n - 1 /\ k - 1 \notin not /\ (k - 1) + 1 = k
  BY <1>4, <1>5
<1> QED
  BY <1>6

(* The greatest number of a set that has a bound. *)
LEMMA GreatestNatural ==
  ASSUME NEW n \in Nat, NEW S \in SUBSET (0 .. n), S # {}
  PROVE  Max(S) \in S /\ \A k \in S : k <= Max(S)
<1> DEFINE R == {n - k : k \in S}
<1>1. R \in SUBSET Nat /\ R # {}
  <2>1. \A k \in S : n - k \in Nat
    OBVIOUS
  <2>2. PICK k \in S : TRUE
    OBVIOUS
  <2>3. n - k \in R
    OBVIOUS
  <2> QED
    BY <2>1, <2>3
<1>2. Min(R) \in R /\ \A k \in R : Min(R) <= k
  BY <1>1, LeastNatural
<1>3. PICK m \in S : Min(R) = n - m
  BY <1>2
<1>4. \A k \in S : m >= k
  <2> SUFFICES ASSUME NEW k \in S PROVE m >= k
    OBVIOUS
  <2>1. n - k \in R
    OBVIOUS
  <2>2. n - m <= n - k
    BY <1>2, <1>3, <2>1
  <2> QED
    BY <2>2
<1> QED
  BY <1>4 DEF Max

(* The members of a sequence. *)
LEMMA MembersOf ==
  ASSUME NEW S, NEW q \in Seq(S)
  PROVE  /\ \A x : x \in ToSet(q) <=> \E i \in 1 .. Len(q) : q[i] = x
         /\ ToSet(q) \subseteq S
         /\ q # <<>> <=> Len(q) > 0
         /\ q # <<>> => Last(q) \in ToSet(q) /\ Head(q) \in ToSet(q) /\ Head(q) = q[1]
         /\ (q = <<>>) <=> (ToSet(q) = {})
<1>1. DOMAIN q = 1 .. Len(q) /\ Len(q) \in Nat
  OBVIOUS
<1>2. \A x : x \in ToSet(q) <=> \E i \in 1 .. Len(q) : q[i] = x
  BY <1>1 DEF ToSet
<1>3. ToSet(q) \subseteq S
  BY <1>1 DEF ToSet
<1>4. q # <<>> <=> Len(q) > 0
  BY EmptySeq
<1>5. q # <<>> => q[1] \in ToSet(q) /\ q[Len(q)] \in ToSet(q)
  BY <1>1, <1>2, <1>4
<1> QED
  BY <1>2, <1>3, <1>4, <1>5, <1>1 DEF Last

(* A sequence loses the element that is removed and nothing else. *)
LEMMA RemoveFirstFrom ==
  ASSUME NEW S, NEW q \in Seq(S), NEW e
  PROVE  LET r == RemoveFirst(q, e)
         IN /\ r \in Seq(S)
            /\ e \notin ToSet(q) => r = q
            /\ e \in ToSet(q) =>
                 /\ Len(r) = Len(q) - 1
                 /\ \E n \in 1 .. Len(q) :
                      /\ q[n] = e
                      /\ \A i \in 1 .. Len(q) - 1 : r[i] = IF i < n THEN q[i] ELSE q[i + 1]
<1>0. Len(q) \in Nat /\ \A i \in 1 .. Len(q) : q[i] \in S
  OBVIOUS
<1> DEFINE r == RemoveFirst(q, e)
<1>1. CASE e \in ToSet(q)
  <2> DEFINE I == {i \in 1 .. Len(q) : q[i] = e}
  <2>1. I \in SUBSET Nat /\ I # {}
    BY <1>0, <1>1, MembersOf
  <2>2. Min(I) \in I
    BY <2>1, LeastNatural
  <2>3. r = RemoveAt(q, Min(I))
    BY <2>1 DEF RemoveFirst, SelectInSeq
  <2>4. PICK n \in 1 .. Len(q) : q[n] = e /\ r = SubSeq(q, 1, n - 1) \o SubSeq(q, n + 1, Len(q))
    BY <2>2, <2>3 DEF RemoveAt
  <2> DEFINE a == SubSeq(q, 1, n - 1)
             b == SubSeq(q, n + 1, Len(q))
  <2>5. /\ a \in Seq(S) /\ Len(a) = n - 1
        /\ \A i \in 1 .. n - 1 : a[i] = q[i]
    <3>1. \A i \in 1 .. n - 1 : q[i] \in S
      BY <1>0
    <3> HIDE DEF r
    <3> QED
      BY <1>0, <3>1, SubSeqProperties
  <2>6. /\ b \in Seq(S) /\ Len(b) = Len(q) - n
        /\ \A i \in 1 .. Len(q) - n : b[i] = q[n + i]
    <3>1. \A i \in n + 1 .. Len(q) : q[i] \in S
      BY <1>0
    <3> HIDE DEF r
    <3> QED
      BY <1>0, <3>1, SubSeqProperties
  <2> HIDE DEF a, b
  <2>7. r = a \o b
    BY <2>4 DEF a, b
  <2> HIDE DEF r
  <2>8. /\ r \in Seq(S) /\ Len(r) = Len(q) - 1
        /\ \A i \in 1 .. Len(q) - 1 : r[i] = IF i < n THEN a[i] ELSE b[i - (n - 1)]
    BY <1>0, <2>5, <2>6, <2>7, ConcatProperties
  <2>9. \A i \in 1 .. Len(q) - 1 : r[i] = IF i < n THEN q[i] ELSE q[i + 1]
    BY <1>0, <2>5, <2>6, <2>8
  <2> QED
    BY <1>1, <2>4, <2>8, <2>9 DEF r
<1>2. CASE e \notin ToSet(q)
  <2>1. r = q
    BY <1>2, MembersOf DEF RemoveFirst
  <2> QED
    BY <1>2, <2>1
<1> QED
  BY <1>1, <1>2

(* In a sequence without repetition the element is gone; the last element
   stays the last unless it is the one removed. *)
LEMMA RemoveFirstOnce ==
  ASSUME NEW S, NEW q \in Seq(S), NEW e, IsInjective(q)
  PROVE  LET r == RemoveFirst(q, e)
         IN /\ r \in Seq(S)
            /\ IsInjective(r)
            /\ ToSet(r) = ToSet(q) \ {e}
            /\ Len(r) = IF e \in ToSet(q) THEN Len(q) - 1 ELSE Len(q)
            /\ q # <<>> /\ Last(q) # e => r # <<>> /\ Last(r) = Last(q)
<1> DEFINE r == RemoveFirst(q, e)
<1>1. CASE e \notin ToSet(q)
  <2>1. r = q
    BY <1>1, RemoveFirstFrom
  <2> QED
    BY <1>1, <2>1
<1>2. CASE e \in ToSet(q)
  <2>0. Len(q) \in Nat /\ DOMAIN q = 1 .. Len(q)
    OBVIOUS
  <2>1. r \in Seq(S) /\ Len(r) = Len(q) - 1
    BY <1>2, RemoveFirstFrom
  <2>2. PICK n \in 1 .. Len(q) :
          /\ q[n] = e
          /\ \A i \in 1 .. Len(q) - 1 : r[i] = IF i < n THEN q[i] ELSE q[i + 1]
    BY <1>2, RemoveFirstFrom
  <2> HIDE DEF r
  <2>3. DOMAIN r = 1 .. Len(q) - 1
    BY <2>0, <2>1
  <2>4. \A i, k \in 1 .. Len(q) : q[i] = q[k] => i = k
    BY <2>0 DEF IsInjective
  <2>5. IsInjective(r)
    BY <2>0, <2>2, <2>3, <2>4 DEF IsInjective
  <2>6. ASSUME NEW x PROVE x \in ToSet(r) <=> x \in ToSet(q) /\ x # e
    <3>1. x \in ToSet(r) => \E i \in 1 .. Len(q) - 1 : r[i] = x
      BY <2>1, MembersOf
    <3>2. ASSUME NEW i \in 1 .. Len(q) - 1 PROVE r[i] \in ToSet(q) /\ r[i] # e
      BY <2>0, <2>2, <2>4, MembersOf
    <3>3. ASSUME NEW i \in 1 .. Len(q), q[i] # e PROVE q[i] \in ToSet(r)
      <4>1. i < n => i \in 1 .. Len(q) - 1 /\ r[i] = q[i]
        BY <2>0, <2>2
      <4>2. i > n => i - 1 \in 1 .. Len(q) - 1 /\ r[i - 1] = q[i]
        BY <2>0, <2>2
      <4> QED
        BY <2>0, <2>1, <2>2, <3>3, <4>1, <4>2, MembersOf
    <3> QED
      BY <3>1, <3>2, <3>3, MembersOf
  <2>7. ASSUME q # <<>>, Last(q) # e PROVE r # <<>> /\ Last(r) = Last(q)
    <3>1. n # Len(q)
      BY <2>2, <2>7 DEF Last
    <3>2. PICK m \in Nat : m = Len(q)
      BY <2>0
    <3>3. m - 1 \in 1 .. m - 1 /\ n <= m - 1
      BY <3>1, <3>2
    <3>4. r[m - 1] = q[m]
      BY <2>2, <3>2, <3>3
    <3> QED
      BY <2>1, <3>2, <3>3, <3>4, EmptySeq DEF Last
  <2> QED
    BY <1>2, <2>1, <2>5, <2>6, <2>7 DEF r
<1> QED
  BY <1>1, <1>2

(* Appending a new element. *)
LEMMA AppendOnce ==
  ASSUME NEW S, NEW q \in Seq(S), NEW e \in S
  PROVE  /\ Append(q, e) \in Seq(S) /\ Append(q, e) # <<>>
         /\ Len(Append(q, e)) = Len(q) + 1
         /\ \A i \in 1 .. Len(q) : Append(q, e)[i] = q[i]
         /\ Append(q, e)[Len(q) + 1] = e
         /\ Last(Append(q, e)) = e
         /\ ToSet(Append(q, e)) = ToSet(q) \cup {e}
         /\ IsInjective(q) /\ e \notin ToSet(q) => IsInjective(Append(q, e))
<1> DEFINE r == Append(q, e)
<1>0. Len(q) \in Nat /\ DOMAIN q = 1 .. Len(q)
  OBVIOUS
<1>1. /\ r \in Seq(S) /\ r # <<>>
      /\ Len(r) = Len(q) + 1
      /\ \A i \in 1 .. Len(q) : r[i] = q[i]
      /\ r[Len(q) + 1] = e
  BY AppendProperties
<1> HIDE DEF r
<1>2. Last(r) = e
  BY <1>1 DEF Last
<1>3. ASSUME NEW x PROVE x \in ToSet(r) <=> x \in ToSet(q) \/ x = e
  <2>1. x \in ToSet(r) <=> \E i \in 1 .. Len(q) + 1 : r[i] = x
    BY <1>1, MembersOf
  <2>2. x \in ToSet(q) <=> \E i \in 1 .. Len(q) : q[i] = x
    BY MembersOf
  <2> QED
    BY <1>0, <1>1, <2>1, <2>2
<1>4. ASSUME IsInjective(q), e \notin ToSet(q) PROVE IsInjective(r)
  <2>1. \A i \in 1 .. Len(q) : q[i] # e
    BY <1>4, MembersOf
  <2>2. DOMAIN r = 1 .. Len(q) + 1
    BY <1>0, <1>1
  <2> QED
    BY <1>0, <1>1, <1>4, <2>1, <2>2 DEF IsInjective
<1> QED
  BY <1>1, <1>2, <1>3, <1>4 DEF r

(* A finite set of natural numbers has a bound, and so a greatest member. *)
LEMMA FiniteNaturals ==
  ASSUME NEW S \in SUBSET Nat, IsFiniteSet(S), S # {}
  PROVE  Max(S) \in S /\ \A k \in S : k <= Max(S)
<1> DEFINE n == Cardinality(S)
<1>1. n \in Nat
  BY FS_CardinalityType
<1>2. PICK f \in [1 .. n -> S] : \A x \in S : \E i \in 1 .. n : f[i] = x
  <2>1. ExistsBijection(1 .. n, S)
    BY FS_CardinalityType
  <2> QED
    BY <2>1 DEF ExistsBijection, Bijection, Surjection
<1> HIDE DEF n
<1> DEFINE B == {k \in 0 .. n : \E b \in Nat : \A i \in 1 .. k : f[i] <= b}
<1>3. 0 \in B
  <2>1. 0 \in 0 .. n /\ 1 .. 0 = {} /\ 0 \in Nat
    BY <1>1
  <2> QED
    BY <2>1
<1>4. ASSUME NEW k \in 0 .. n - 1, k \in B PROVE k + 1 \in B
  <2>1. PICK b \in Nat : \A i \in 1 .. k : f[i] <= b
    BY <1>4
  <2>2. k + 1 \in 1 .. n /\ k + 1 \in 0 .. n /\ \A i \in 1 .. k + 1 : i = k + 1 \/ i \in 1 .. k
    BY <1>1
  <2>3. f[k + 1] \in Nat
    BY <2>2
  <2>4. PICK c \in Nat : b <= c /\ f[k + 1] <= c
    BY <2>3
  <2>5. \A i \in 1 .. k : f[i] \in Nat
    <3>1. \A i \in 1 .. k : i \in 1 .. n
      BY <1>1
    <3> QED
      BY <3>1
  <2>6. \A i \in 1 .. k + 1 : f[i] <= c
    BY <2>1, <2>2, <2>3, <2>4, <2>5
  <2> QED
    BY <2>2, <2>6
<1>5. n \in B
  <2> HIDE DEF B
  <2>1. \A k \in 0 .. n : k \in B
    BY <1>1, <1>3, <1>4, UpTo
  <2> QED
    BY <1>1, <2>1
<1>6. PICK b \in Nat : \A i \in 1 .. n : f[i] <= b
  BY <1>5
<1>7. S \in SUBSET (0 .. b)
  BY <1>2, <1>6
<1> QED
  BY <1>7, GreatestNatural

(* Putting a new element first. *)
LEMMA PrependOnce ==
  ASSUME NEW S, NEW q \in Seq(S), NEW e \in S
  PROVE  LET r == <<e>> \o q
         IN /\ r \in Seq(S)
            /\ Len(r) = Len(q) + 1
            /\ ToSet(r) = ToSet(q) \cup {e}
            /\ IsInjective(q) /\ e \notin ToSet(q) => IsInjective(r)
<1> DEFINE r == <<e>> \o q
<1>0. Len(q) \in Nat /\ DOMAIN q = 1 .. Len(q)
  OBVIOUS
<1>1. /\ r \in Seq(S)
      /\ Len(r) = Len(q) + 1
      /\ r[1] = e
      /\ \A i \in 1 .. Len(q) : r[i + 1] = q[i]
  <2>1. <<e>> \in Seq(S) /\ Len(<<e>>) = 1 /\ <<e>>[1] = e
    OBVIOUS
  <2>2. /\ r \in Seq(S)
        /\ Len(r) = 1 + Len(q)
        /\ \A i \in 1 .. 1 + Len(q) : r[i] = IF i <= 1 THEN <<e>>[i] ELSE q[i - 1]
    BY <2>1, ConcatProperties
  <2> HIDE DEF r
  <2>3. 1 \in 1 .. 1 + Len(q) /\ \A i \in 1 .. Len(q) : i + 1 \in 1 .. 1 + Len(q) /\ ~(i + 1 <= 1) /\ (i + 1) - 1 = i
    BY <1>0
  <2> QED
    BY <1>0, <2>1, <2>2, <2>3
<1> HIDE DEF r
<1>2. \A i \in 1 .. Len(r) : i = 1 \/ (i - 1 \in 1 .. Len(q) /\ r[i] = q[i - 1])
  <2>1. ASSUME NEW i \in 1 .. Len(r), i # 1 PROVE i - 1 \in 1 .. Len(q) /\ (i - 1) + 1 = i
    BY <1>0, <1>1, <2>1
  <2> QED
    BY <1>1, <2>1
<1>3. ASSUME NEW x PROVE x \in ToSet(r) <=> x \in ToSet(q) \/ x = e
  <2>1. x \in ToSet(r) <=> \E i \in 1 .. Len(r) : r[i] = x
    BY <1>1, MembersOf
  <2>2. x \in ToSet(q) <=> \E i \in 1 .. Len(q) : q[i] = x
    BY MembersOf
  <2>3. 1 \in 1 .. Len(r) /\ \A i \in 1 .. Len(q) : i + 1 \in 1 .. Len(r)
    BY <1>0, <1>1
  <2> QED
    BY <1>1, <1>2, <2>1, <2>2, <2>3
<1>4. ASSUME IsInjective(q), e \notin ToSet(q) PROVE IsInjective(r)
  <2>1. \A i \in 1 .. Len(q) : q[i] # e
    BY <1>4, MembersOf
  <2>2. DOMAIN r = 1 .. Len(r) /\ DOMAIN q = 1 .. Len(q)
    BY <1>0, <1>1
  <2>3. \A i, k \in 1 .. Len(q) : q[i] = q[k] => i = k
    BY <1>4, <2>2 DEF IsInjective
  <2>4. ASSUME NEW i \in 1 .. Len(r), NEW k \in 1 .. Len(r), r[i] = r[k] PROVE i = k
    <3>1. i = 1 \/ (i - 1 \in 1 .. Len(q) /\ r[i] = q[i - 1])
      BY <1>2
    <3>2. k = 1 \/ (k - 1 \in 1 .. Len(q) /\ r[k] = q[k - 1])
      BY <1>2
    <3>3. CASE i # 1 /\ k # 1
      <4>1. i - 1 = k - 1
        BY <2>3, <2>4, <3>1, <3>2, <3>3
      <4> QED
        BY <1>1, <4>1
    <3> QED
      BY <1>1, <2>1, <2>4, <3>1, <3>2, <3>3
  <2> QED
    BY <2>2, <2>4 DEF IsInjective
<1> QED
  BY <1>1, <1>3, <1>4 DEF r

(* Taking the first element off. *)
LEMMA TailOnce ==
  ASSUME NEW S, NEW q \in Seq(S), q # <<>>
  PROVE  /\ Tail(q) \in Seq(S) /\ Len(Tail(q)) = Len(q) - 1 /\ Len(q) > 0
         /\ \A i \in 1 .. Len(q) - 1 : Tail(q)[i] = q[i + 1]
         /\ ToSet(Tail(q)) \subseteq ToSet(q)
         /\ Head(q) = q[1] /\ Head(q) \in S /\ Head(q) \in ToSet(q)
         /\ IsInjective(q) => IsInjective(Tail(q)) /\ ToSet(Tail(q)) = ToSet(q) \ {Head(q)}
<1> DEFINE t == Tail(q)
<1>1. t \in Seq(S) /\ Len(t) = Len(q) - 1 /\ (\A i \in 1 .. Len(q) - 1 : t[i] = q[i + 1]) /\ Len(q) \in Nat /\ Len(q) > 0
  OBVIOUS
<1>2. Head(q) = q[1] /\ Head(q) \in S
  BY <1>1
<1> HIDE DEF t
<1>3. \A x : x \in ToSet(q) <=> \E i \in 1 .. Len(q) : q[i] = x
  BY MembersOf
<1>4. \A x : x \in ToSet(t) <=> \E i \in 1 .. Len(t) : t[i] = x
  BY <1>1, MembersOf
<1>5. ToSet(t) \subseteq ToSet(q)
  <2> SUFFICES ASSUME NEW x, x \in ToSet(t) PROVE x \in ToSet(q)
    OBVIOUS
  <2>1. PICK i \in 1 .. Len(t) : t[i] = x
    BY <1>4
  <2>2. q[i + 1] = x /\ i + 1 \in 1 .. Len(q)
    BY <1>1, <2>1
  <2> QED
    BY <1>3, <2>2
<1>6. Head(q) \in ToSet(q)
  BY <1>1, <1>2, <1>3
<1>7. ASSUME IsInjective(q)
      PROVE  IsInjective(t) /\ ToSet(t) = ToSet(q) \ {Head(q)}
  <2>1. \A i, k \in 1 .. Len(q) : q[i] = q[k] => i = k
    BY <1>7 DEF IsInjective
  <2>2. \A i, k \in 1 .. Len(t) : t[i] = t[k] => i = k
    <3> SUFFICES ASSUME NEW i \in 1 .. Len(t), NEW k \in 1 .. Len(t), t[i] = t[k] PROVE i = k
      OBVIOUS
    <3>1. i + 1 \in 1 .. Len(q) /\ k + 1 \in 1 .. Len(q) /\ t[i] = q[i + 1] /\ t[k] = q[k + 1] /\ i \in Int /\ k \in Int
      BY <1>1
    <3>2. i + 1 = k + 1
      BY <2>1, <3>1
    <3> QED
      BY <3>1, <3>2
  <2>3. IsInjective(t)
    BY <1>1, <2>2 DEF IsInjective
  <2>4. Head(q) \notin ToSet(t)
    <3> SUFFICES ASSUME NEW i \in 1 .. Len(t), t[i] = Head(q) PROVE FALSE
      BY <1>4
    <3>1. i + 1 \in 1 .. Len(q) /\ t[i] = q[i + 1] /\ i + 1 # 1 /\ 1 \in 1 .. Len(q)
      BY <1>1
    <3> QED
      BY <1>2, <2>1, <3>1
  <2>5. ASSUME NEW x \in ToSet(q), x # Head(q) PROVE x \in ToSet(t)
    <3>1. PICK i \in 1 .. Len(q) : q[i] = x
      BY <1>3
    <3>2. i - 1 \in 1 .. Len(t) /\ t[i - 1] = q[(i - 1) + 1] /\ (i - 1) + 1 = i
      BY <1>1, <1>2, <2>5, <3>1
    <3>3. t[i - 1] = x
      BY <3>1, <3>2
    <3> QED
      BY <1>4, <3>2, <3>3
  <2> QED
    BY <1>5, <2>3, <2>4, <2>5
<1> QED
  BY <1>1, <1>2, <1>5, <1>6, <1>7 DEF t

-----------------------------------------------------------------------------
(* Sums over a finite set, as MapThenSumSet adds them up: one member after the
   other, in the order CHOOSE gives.  The sum of each subset of S: *)
Total(f, S) == MapThenSumSet(LAMBDA x : f[x], S)
Picked(s) == CHOOSE x \in s : TRUE
Added(f, S, F) == F = [s \in SUBSET S |-> IF s = {} THEN 0 ELSE f[Picked(s)] + F[s \ {Picked(s)}]]
Sums(f, S) == CHOOSE F : Added(f, S, F)

LEMMA TotalOf ==
  ASSUME NEW f, NEW S
  PROVE  Total(f, S) = Sums(f, S)[S]
<1> QED
  BY DEF Total, MapThenSumSet, MapThenFoldSet, Added, Sums, Picked

(* The subset without the member that is picked is smaller. *)
LEMMA PickedOf ==
  ASSUME NEW S, IsFiniteSet(S), NEW s \in SUBSET S, s # {}
  PROVE  /\ Picked(s) \in s /\ s \ {Picked(s)} \in SUBSET S
         /\ Cardinality(s) \in Nat \ {0} /\ Cardinality(s \ {Picked(s)}) = Cardinality(s) - 1
<1>1. Picked(s) \in s
  BY DEF Picked
<1>2. IsFiniteSet(s)
  BY FS_Subset
<1>3. Cardinality(s) \in Nat /\ Cardinality(s) # 0
  BY <1>2, FS_CardinalityType, FS_EmptySet
<1> QED
  BY <1>1, <1>2, <1>3, FS_RemoveElement

(* The sums exist: of the subsets with n members at most, for every n. *)
LEMMA SumsExist ==
  ASSUME NEW S, IsFiniteSet(S), NEW f, \A x \in S : f[x] \in Int
  PROVE  Added(f, S, Sums(f, S)) /\ Sums(f, S) \in [SUBSET S -> Int]
<1> DEFINE Right(F, s) == F[s] = IF s = {} THEN 0 ELSE f[Picked(s)] + F[s \ {Picked(s)}]
           Holds(n) == \E F \in [SUBSET S -> Int] : \A s \in SUBSET S : Cardinality(s) <= n => Right(F, s)
           Bad == {n \in Nat : ~Holds(n)}
<1>0. \A s \in SUBSET S : Cardinality(s) \in Nat /\ (Cardinality(s) = 0 <=> s = {})
  BY FS_Subset, FS_CardinalityType, FS_EmptySet
<1>1. Holds(0)
  <2>1. [s \in SUBSET S |-> 0] \in [SUBSET S -> Int]
    OBVIOUS
  <2>2. \A s \in SUBSET S : Cardinality(s) <= 0 => Right([r \in SUBSET S |-> 0], s)
    BY <1>0
  <2> QED
    BY <2>1, <2>2
<1>2. ASSUME NEW n \in Nat, Holds(n)
      PROVE  Holds(n + 1)
  <2>1. PICK F \in [SUBSET S -> Int] : \A s \in SUBSET S : Cardinality(s) <= n => Right(F, s)
    BY <1>2
  <2> DEFINE G == [s \in SUBSET S |-> IF Cardinality(s) = n + 1 THEN f[Picked(s)] + F[s \ {Picked(s)}] ELSE F[s]]
  <2>2. G \in [SUBSET S -> Int]
    <3>1. ASSUME NEW s \in SUBSET S, Cardinality(s) = n + 1
          PROVE  f[Picked(s)] + F[s \ {Picked(s)}] \in Int
      <4>1. s # {}
        BY <1>0, <3>1
      <4>2. Picked(s) \in S /\ s \ {Picked(s)} \in SUBSET S
        BY <4>1, PickedOf
      <4> QED
        BY <4>2
    <3>2. \A s \in SUBSET S : F[s] \in Int
      OBVIOUS
    <3> QED
      BY <3>1, <3>2
  <2>3. ASSUME NEW s \in SUBSET S, Cardinality(s) <= n + 1
        PROVE  Right(G, s)
    <3>1. CASE s = {}
      BY <3>1, <1>0, <2>1
    <3>2. CASE s # {}
      <4> DEFINE r == s \ {Picked(s)}
      <4>1. r \in SUBSET S /\ Cardinality(s) \in Nat /\ Cardinality(r) = Cardinality(s) - 1
        BY ONLY <3>2, PickedOf, s \in SUBSET S, IsFiniteSet(S)
      <4>2. G[r] = F[r]
        <5>1. Cardinality(r) # n + 1
          BY ONLY <4>1, <2>3, n \in Nat
        <5>2. G[r] = IF Cardinality(r) = n + 1 THEN f[Picked(r)] + F[r \ {Picked(r)}] ELSE F[r]
          <6> HIDE DEF r
          <6> QED
            BY <4>1
        <5> QED
          BY <5>1, <5>2
      <4>3. G[s] = f[Picked(s)] + F[r]
        <5>1. CASE Cardinality(s) = n + 1
          BY <5>1
        <5>2. CASE Cardinality(s) # n + 1
          BY <5>2, <4>1, <2>3, <2>1, <3>2
        <5> QED
          BY <5>1, <5>2
      <4> QED
        BY <4>2, <4>3, <3>2
    <3> QED
      BY <3>1, <3>2
  <2> HIDE DEF G
  <2> QED
    BY <2>2, <2>3
<1> HIDE DEF Holds
<1>3. \A n \in Nat : Holds(n)
  <2>1. CASE Bad # {}
    <3>1. Min(Bad) \in Bad /\ \A k \in Bad : Min(Bad) <= k
      BY <2>1, LeastNatural
    <3>2. Min(Bad) - 1 \in Nat /\ Min(Bad) - 1 \notin Bad
      BY <3>1, <1>1
    <3>3. Holds((Min(Bad) - 1) + 1)
      BY <3>2, <1>2
    <3> QED
      BY <3>1, <3>3
  <2> QED
    BY <2>1
<1>4. Cardinality(S) \in Nat /\ \A s \in SUBSET S : Cardinality(s) <= Cardinality(S)
  BY FS_CardinalityType, FS_Subset
<1>5. PICK F \in [SUBSET S -> Int] : \A s \in SUBSET S : Cardinality(s) <= Cardinality(S) => Right(F, s)
  BY <1>3, <1>4 DEF Holds
<1>6. Added(f, S, F)
  <2>1. \A s \in SUBSET S : Right(F, s)
    BY <1>4, <1>5
  <2> QED
    BY <2>1 DEF Added
<1>7. Added(f, S, Sums(f, S))
  BY <1>6 DEF Sums
<1> DEFINE G == Sums(f, S)
<1>8. G = [s \in SUBSET S |-> G[s]] /\ \A s \in SUBSET S : Right(G, s)
  BY <1>7 DEF Added
<1> HIDE DEF G
<1> DEFINE Differ == {n \in Nat : \E s \in SUBSET S : Cardinality(s) = n /\ G[s] # F[s]}
<1>9. CASE Differ # {}
  <2>1. Min(Differ) \in Differ /\ \A k \in Differ : Min(Differ) <= k
    BY <1>9, LeastNatural
  <2>2. PICK s \in SUBSET S : Cardinality(s) = Min(Differ) /\ G[s] # F[s]
    BY <2>1
  <2>3. s # {}
    BY <2>2, <1>8, <1>4, <1>5
  <2>4. s \ {Picked(s)} \in SUBSET S /\ Cardinality(s) \in Nat \ {0} /\ Cardinality(s \ {Picked(s)}) = Cardinality(s) - 1
    BY ONLY <2>3, PickedOf, s \in SUBSET S, IsFiniteSet(S)
  <2>5. Cardinality(s \ {Picked(s)}) \notin Differ
    <3>1. Cardinality(s \ {Picked(s)}) < Min(Differ) /\ Min(Differ) \in Nat
      BY ONLY <2>1, <2>2, <2>4
    <3> HIDE DEF Differ
    <3> QED
      BY ONLY <2>1, <2>4, <3>1
  <2>6. G[s \ {Picked(s)}] = F[s \ {Picked(s)}]
    <3> DEFINE r == s \ {Picked(s)}
    <3>0. r \in SUBSET S /\ Cardinality(r) \in Nat
      BY ONLY <2>4
    <3> HIDE DEF Differ
    <3>1. Cardinality(r) \notin Differ
      BY <2>5
    <3> HIDE DEF r
    <3> USE DEF Differ
    <3>2. G[r] = F[r]
      BY ONLY <3>0, <3>1
    <3> QED
      BY <3>2 DEF r
  <2>7. Right(G, s) /\ Right(F, s)
    BY <1>8, <1>4, <1>5
  <2> QED
    BY <2>2, <2>3, <2>6, <2>7
<1>10. CASE Differ = {}
  <2>1. \A s \in SUBSET S : G[s] = F[s]
    BY <1>10, <1>0
  <2>2. G \in [SUBSET S -> Int]
    BY <2>1, <1>8
  <2> QED
    BY <2>2, <1>7 DEF G
<1> QED
  BY <1>9, <1>10

(* What holds of the empty set and of every set when it holds of the set
   without the member that is picked, holds of every subset. *)
LEMMA PickInduction ==
  ASSUME NEW S, IsFiniteSet(S), NEW P \in SUBSET SUBSET S, {} \in P,
         \A s \in SUBSET S : s # {} /\ s \ {Picked(s)} \in P => s \in P
  PROVE  P = SUBSET S
<1> DEFINE Out == {Cardinality(s) : s \in (SUBSET S) \ P}
<1>1. \A s \in SUBSET S : Cardinality(s) \in Nat
  BY FS_Subset, FS_CardinalityType
<1>2. Out \in SUBSET Nat
  BY <1>1
<1> SUFFICES ASSUME Out # {} PROVE FALSE
  OBVIOUS
<1>3. Min(Out) \in Out /\ \A k \in Out : Min(Out) <= k
  BY <1>2, LeastNatural
<1>4. PICK s \in (SUBSET S) \ P : Cardinality(s) = Min(Out)
  BY <1>3
<1>5. s # {}
  BY <1>4
<1> DEFINE r == s \ {Picked(s)}
<1>6. r \in SUBSET S /\ Cardinality(s) \in Nat \ {0} /\ Cardinality(r) = Cardinality(s) - 1
  BY ONLY <1>4, <1>5, PickedOf, s \in SUBSET S, IsFiniteSet(S)
<1>7. r \notin P
  BY <1>4, <1>5
<1> HIDE DEF r
<1>8. Cardinality(r) \in Out
  BY ONLY <1>6, <1>7
<1> HIDE DEF Out
<1>9. Min(Out) <= Cardinality(r)
  BY <1>3, <1>8
<1> QED
  BY ONLY <1>4, <1>6, <1>9

(* There is one function of sums at most. *)
LEMMA AddedOnce ==
  ASSUME NEW S, IsFiniteSet(S), NEW f, NEW F, NEW G, Added(f, S, F), Added(f, S, G)
  PROVE  F = G
<1> DEFINE P == {s \in SUBSET S : F[s] = G[s]}
<1>1. \A s \in SUBSET S : /\ F[s] = IF s = {} THEN 0 ELSE f[Picked(s)] + F[s \ {Picked(s)}]
                          /\ G[s] = IF s = {} THEN 0 ELSE f[Picked(s)] + G[s \ {Picked(s)}]
  BY DEF Added
<1>2. F = [s \in SUBSET S |-> F[s]] /\ G = [s \in SUBSET S |-> G[s]]
  BY DEF Added
<1>3. {} \in P
  BY <1>1
<1>4. ASSUME NEW s \in SUBSET S, s # {}, s \ {Picked(s)} \in P
      PROVE  s \in P
  BY <1>1, <1>4
<1>5. P \in SUBSET SUBSET S
  OBVIOUS
<1> HIDE DEF P
<1>6. P = SUBSET S
  BY <1>3, <1>4, <1>5, PickInduction
<1>7. \A s \in SUBSET S : F[s] = G[s]
  BY <1>6 DEF P
<1> QED
  BY <1>2, <1>7

(* The sum of a set by the sum of the set without the member that is picked. *)
LEMMA SumsOf ==
  ASSUME NEW S, IsFiniteSet(S), NEW f, \A x \in S : f[x] \in Int, NEW s \in SUBSET S
  PROVE  /\ Sums(f, S)[s] \in Int
         /\ s = {} => Sums(f, S)[s] = 0
         /\ s # {} => /\ Picked(s) \in s
                      /\ Sums(f, S)[s] = f[Picked(s)] + Sums(f, S)[s \ {Picked(s)}]
<1> DEFINE F == Sums(f, S)
<1>1. Added(f, S, F) /\ F \in [SUBSET S -> Int]
  BY SumsExist
<1> HIDE DEF F
<1>2. F[s] = IF s = {} THEN 0 ELSE f[Picked(s)] + F[s \ {Picked(s)}]
  BY <1>1 DEF Added
<1>3. s # {} => Picked(s) \in s
  BY DEF Picked
<1> QED
  BY <1>1, <1>2, <1>3 DEF F

(* One member counts differently. *)
LEMMA TotalChanged ==
  ASSUME NEW S, IsFiniteSet(S), NEW f, NEW g, NEW a \in S,
         \A x \in S : f[x] \in Int /\ g[x] \in Int,
         \A x \in S \ {a} : g[x] = f[x]
  PROVE  Total(g, S) = Total(f, S) + (g[a] - f[a]) /\ Total(f, S) \in Int
<1> DEFINE F == Sums(f, S)
           G == Sums(g, S)
           P == {s \in SUBSET S : G[s] = F[s] + (IF a \in s THEN g[a] - f[a] ELSE 0)}
<1>0. (\A x \in S : f[x] \in Int) /\ (\A x \in S : g[x] \in Int)
  OBVIOUS
<1>01. \A s \in SUBSET S : /\ F[s] \in Int
                           /\ s = {} => F[s] = 0
                           /\ s # {} => Picked(s) \in s /\ F[s] = f[Picked(s)] + F[s \ {Picked(s)}]
  BY ONLY IsFiniteSet(S), <1>0, SumsOf
<1>02. \A s \in SUBSET S : /\ G[s] \in Int
                           /\ s = {} => G[s] = 0
                           /\ s # {} => Picked(s) \in s /\ G[s] = g[Picked(s)] + G[s \ {Picked(s)}]
  BY ONLY IsFiniteSet(S), <1>0, SumsOf
<1> HIDE DEF F, G
<1>1. ASSUME NEW s \in SUBSET S
      PROVE  /\ F[s] \in Int /\ G[s] \in Int
             /\ s = {} => F[s] = 0 /\ G[s] = 0
             /\ s # {} => /\ Picked(s) \in s
                          /\ F[s] = f[Picked(s)] + F[s \ {Picked(s)}]
                          /\ G[s] = g[Picked(s)] + G[s \ {Picked(s)}]
  BY ONLY s \in SUBSET S, <1>01, <1>02
<1>2. {} \in P
  <2>1. {} \in SUBSET S /\ F[{}] = 0 /\ G[{}] = 0
    BY <1>1
  <2> QED
    BY <2>1
<1>3. ASSUME NEW s \in SUBSET S, s # {}, s \ {Picked(s)} \in P
      PROVE  s \in P
  <2> DEFINE x == Picked(s)
             r == s \ {x}
  <2>1. x \in s /\ r \in SUBSET S /\ x \notin r
    BY <1>1, <1>3
  <2>2. F[s] = f[x] + F[r] /\ G[s] = g[x] + G[r] /\ F[r] \in Int
    BY <1>1, <1>3
  <2>3. G[r] = F[r] + (IF a \in r THEN g[a] - f[a] ELSE 0)
    BY <1>3
  <2>4. x # a => (a \in r <=> a \in s)
    OBVIOUS
  <2> HIDE DEF x, r
  <2>5. CASE x = a
    <3>1. a \notin r /\ a \in s
      BY <2>1, <2>5
    <3>2. G[s] = F[s] + (g[a] - f[a])
      BY <2>2, <2>3, <3>1, <2>5
    <3> QED
      BY <3>1, <3>2
  <2>6. CASE x # a
    <3>1. g[x] = f[x] /\ f[x] \in Int /\ g[a] \in Int /\ f[a] \in Int
      BY <2>1, <2>6
    <3> QED
      BY <2>2, <2>3, <2>4, <2>6, <3>1
  <2> QED
    BY <2>5, <2>6
<1> HIDE DEF P
<1>4. P = SUBSET S
  <2>1. P \in SUBSET SUBSET S
    BY DEF P
  <2> QED
    BY <1>2, <1>3, <2>1, PickInduction
<1>5. S \in P
  BY <1>4
<1> QED
  BY <1>1, <1>5, TotalOf DEF P, F, G

(* Some members count more. *)
LEMMA TotalAdded ==
  ASSUME NEW S, IsFiniteSet(S), NEW C \in SUBSET S, NEW f, NEW g, NEW n,
         \A x \in S : f[x] \in Int /\ g[x] \in Int,
         \A x \in C : n[x] \in Int /\ g[x] = f[x] + n[x],
         \A x \in S \ C : g[x] = f[x]
  PROVE  Total(g, S) = Total(f, S) + Total(n, C)
<1>0. IsFiniteSet(C)
  BY FS_Subset
<1> DEFINE h(s) == [x \in S |-> IF x \in s THEN g[x] ELSE f[x]]
           N == Sums(n, C)
           P == {s \in SUBSET C : Total(h(s), S) = Total(f, S) + N[s]}
<1>1. \A s \in SUBSET C : /\ N[s] \in Int
                          /\ s = {} => N[s] = 0
                          /\ s # {} => /\ Picked(s) \in s
                                       /\ N[s] = n[Picked(s)] + N[s \ {Picked(s)}]
  BY <1>0, SumsOf
<1> HIDE DEF N
<1>2. CASE S = {}
  <2>1. C = {}
    BY <1>2
  <2>2. \A m : Sums(m, {})[{}] = 0
    <3>1. IsFiniteSet({}) /\ {} \in SUBSET {}
      BY FS_EmptySet
    <3>2. ASSUME NEW m PROVE Sums(m, {})[{}] = 0
      <4>1. \A x \in {} : m[x] \in Int
        OBVIOUS
      <4> QED
        BY ONLY <3>1, <4>1, SumsOf
    <3> QED
      BY <3>2
  <2> QED
    BY <1>2, <2>1, <2>2, TotalOf
<1>3. CASE S # {}
  <2>1. ASSUME NEW p, NEW q, \A x \in S : p[x] \in Int /\ q[x] = p[x]
        PROVE  Total(q, S) = Total(p, S) /\ Total(p, S) \in Int
    <3>1. PICK a \in S : TRUE
      BY <1>3
    <3>2. \A x \in S : q[x] \in Int
      BY <2>1
    <3>3. Total(q, S) = Total(p, S) + (q[a] - p[a]) /\ Total(p, S) \in Int
      BY <2>1, <3>2, TotalChanged
    <3> QED
      BY <2>1, <3>3
  <2>2. {} \in P
    <3>1. Total(h({}), S) = Total(f, S) /\ Total(f, S) \in Int
      BY <2>1
    <3>2. {} \in SUBSET C /\ N[{}] = 0
      BY <1>1
    <3> HIDE DEF h
    <3> QED
      BY <3>1, <3>2
  <2>3. ASSUME NEW s \in SUBSET C, s # {}, s \ {Picked(s)} \in P
        PROVE  s \in P
    <3> DEFINE x == Picked(s)
               r == s \ {x}
    <3>1. x \in s /\ x \in C /\ x \in S /\ r \in SUBSET C /\ x \notin r
      BY <1>1, <2>3
    <3>2. N[s] = n[x] + N[r] /\ N[r] \in Int
      BY <1>1, <2>3
    <3>3. Total(h(r), S) = Total(f, S) + N[r]
      BY <2>3
    <3>4. \A y \in S \ {x} : h(s)[y] = h(r)[y]
      OBVIOUS
    <3> HIDE DEF x, r
    <3>5. h(s)[x] = g[x] /\ h(r)[x] = f[x]
      BY <3>1
    <3>6. \A y \in S : h(s)[y] \in Int /\ h(r)[y] \in Int
      OBVIOUS
    <3> HIDE DEF h
    <3> DEFINE p == h(r)
               q == h(s)
    <3>a. \A y \in S : q[y] \in Int /\ p[y] \in Int
      BY <3>6
    <3>b. \A y \in S \ {x} : q[y] = p[y]
      BY <3>4
    <3>c. x \in S
      BY <3>1
    <3> HIDE DEF p, q
    <3>d. Total(q, S) = Total(p, S) + (q[x] - p[x])
      BY ONLY <3>a, <3>b, <3>c, IsFiniteSet(S), TotalChanged
    <3>7. Total(h(s), S) = Total(h(r), S) + (h(s)[x] - h(r)[x])
      BY <3>d DEF p, q
    <3>8. Total(f, S) \in Int
      BY <2>1
    <3>9. Total(h(s), S) = Total(f, S) + N[s]
      BY <3>1, <3>2, <3>3, <3>5, <3>7, <3>8
    <3> QED
      BY <3>9
  <2> HIDE DEF P
  <2>4. P = SUBSET C
    <3>1. P \in SUBSET SUBSET C
      BY DEF P
    <3> QED
      BY <2>2, <2>3, <3>1, <1>0, PickInduction
  <2>5. Total(h(C), S) = Total(f, S) + N[C]
    BY <2>4 DEF P
  <2>6. Total(h(C), S) = Total(g, S)
    <3>1. \A x \in S : g[x] = h(C)[x]
      OBVIOUS
    <3> HIDE DEF h
    <3> QED
      BY <2>1, <3>1
  <2> QED
    BY <2>5, <2>6, TotalOf DEF N
<1> QED
  BY <1>2, <1>3

(* A sum of numbers from 0 to c. *)
LEMMA TotalBounded ==
  ASSUME NEW S, IsFiniteSet(S), NEW f, NEW c \in Nat, \A x \in S : f[x] \in 0 .. c
  PROVE  Total(f, S) \in Nat /\ Total(f, S) <= Cardinality(S) * c
<1> DEFINE F == Sums(f, S)
           P == {s \in SUBSET S : F[s] \in Nat /\ F[s] <= Cardinality(s) * c}
<1>1. \A s \in SUBSET S : /\ F[s] \in Int
                          /\ s = {} => F[s] = 0
                          /\ s # {} => /\ Picked(s) \in s
                                       /\ F[s] = f[Picked(s)] + F[s \ {Picked(s)}]
  BY SumsOf
<1> HIDE DEF F
<1>2. {} \in P
  <2>1. {} \in SUBSET S /\ F[{}] = 0 /\ Cardinality({}) = 0
    BY <1>1, FS_EmptySet
  <2> QED
    BY <2>1
<1>3. ASSUME NEW s \in SUBSET S, s # {}, s \ {Picked(s)} \in P
      PROVE  s \in P
  <2> DEFINE x == Picked(s)
             r == s \ {x}
  <2>1. x \in S /\ F[s] = f[x] + F[r] /\ F[r] \in Nat /\ F[r] <= Cardinality(r) * c
    BY <1>1, <1>3
  <2>2. Cardinality(s) \in Nat \ {0} /\ Cardinality(r) = Cardinality(s) - 1
    BY ONLY <1>3, PickedOf, IsFiniteSet(S)
  <2> HIDE DEF r, x
  <2>3. f[x] \in 0 .. c
    BY <2>1
  <2>4. Cardinality(s) * c = (Cardinality(s) - 1) * c + c
    BY <2>2
  <2>5. F[s] \in Nat /\ F[s] <= Cardinality(s) * c
    <3> DEFINE k == (Cardinality(s) - 1) * c
    <3>1. k \in Int /\ F[r] <= k
      BY <2>1, <2>2
    <3>2. Cardinality(s) * c = k + c
      BY <2>4
    <3> HIDE DEF k
    <3> QED
      BY <2>1, <2>3, <3>1, <3>2
  <2> QED
    BY <2>5
<1> HIDE DEF P
<1>4. P = SUBSET S
  <2>1. P \in SUBSET SUBSET S
    BY DEF P
  <2> QED
    BY <1>2, <1>3, <2>1, PickInduction
<1> QED
  BY <1>4, TotalOf DEF P, F
=============================================================================
