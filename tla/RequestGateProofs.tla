------------------------- MODULE RequestGateProofs -------------------------
(***************************************************************************)
(* Theorems about the limiters and the readiness probe for every number of *)
(* threads and callers, every limit, window and table size.                *)
(*                                                                         *)
(* The first part says what the list operations of the limiter do to the   *)
(* bucket of each caller; the invariants below speak of buckets only.      *)
(***************************************************************************)
EXTENDS RequestGate, SequenceTheorems, FiniteSetTheorems, WellFoundedInduction, TLAPS

-----------------------------------------------------------------------------
(* Every set of natural numbers that is not empty has a least member.      *)
LEMMA LeastNat ==
    ASSUME NEW T, T \subseteq Nat, T # {}
    PROVE  \E n \in T : \A m \in T : n <= m
<1> DEFINE Less == {ss \in Nat \X Nat : ss[1] < ss[2]}
<1>1. IsWellFoundedOn(Less, Nat)
  BY NatLessThanWellFounded, Zenon DEF OpToRel
<1>2. PICK n \in T : \A m \in T : <<m, n>> \notin Less
  <2> HIDE DEF Less
  <2> QED
    BY <1>1, WFMin, Zenon
<1>3. ASSUME NEW m \in T
      PROVE  n <= m
  <2>1. <<m, n>> \in Nat \X Nat /\ <<m, n>> \notin Less
    BY <1>2
  <2> QED
    BY <2>1
<1> QED
  BY <1>3

(* Induction on the members of a set.                                      *)
LEMMA SetInduction ==
    ASSUME NEW S, 0 \in S, \A n \in Nat : n \in S => n + 1 \in S
    PROVE  Nat \subseteq S
<1>1. SUFFICES ASSUME Nat \ S # {}
               PROVE  FALSE
  OBVIOUS
<1>2. PICK n \in Nat \ S : \A m \in Nat \ S : n <= m
  BY <1>1, LeastNat
<1>3. n - 1 \in Nat /\ n - 1 \notin Nat \ S
  BY <1>2
<1> QED
  BY <1>2, <1>3

-----------------------------------------------------------------------------
(* Kept: the equation of its prefixes.                                     *)
Pick(s, S, i, before) == IF s[i] \in S THEN Append(before, s[i]) ELSE before

Prefixes(s, S, n, f) ==
    f = [i \in 0..n |-> IF i = 0 THEN <<>> ELSE Pick(s, S, i, f[i - 1])]

LEMMA PrefixesExist ==
    ASSUME NEW s, NEW S, NEW n \in Nat
    PROVE  \E f : Prefixes(s, S, n, f)
<1> DEFINE N == {k \in Nat : \E f : Prefixes(s, S, k, f)}
<1>1. 0 \in N
  <2> DEFINE f == [i \in 0..0 |-> <<>>]
  <2>1. Prefixes(s, S, 0, f)
    BY DEF Prefixes
  <2> QED
    BY <2>1
<1>2. ASSUME NEW k \in Nat, k \in N
      PROVE  k + 1 \in N
  <2>1. PICK f : Prefixes(s, S, k, f)
    BY <1>2
  <2> DEFINE g == [i \in 0..(k + 1) |->
                       IF i = 0 THEN <<>> ELSE Pick(s, S, i, f[i - 1])]
             e == [i \in 0..(k + 1) |->
                       IF i = 0 THEN <<>> ELSE Pick(s, S, i, g[i - 1])]
  <2>2. \A i \in 0..k : f[i] = IF i = 0 THEN <<>> ELSE Pick(s, S, i, f[i - 1])
    BY <2>1 DEF Prefixes
  <2>3. \A i \in 0..k : g[i] = f[i]
    BY <2>2
  <2>4. \A i \in 1..(k + 1) : g[i - 1] = f[i - 1]
    <3> HIDE DEF g
    <3> QED
      BY <2>3
  <2>5. ASSUME NEW i \in 0..(k + 1)
        PROVE  g[i] = e[i]
    <3>1. CASE i = 0
      BY <3>1
    <3>2. CASE i # 0
      <4>1. i \in 1..(k + 1) /\ g[i] = Pick(s, S, i, f[i - 1])
        BY <3>2
      <4>2. e[i] = Pick(s, S, i, g[i - 1])
        BY <3>2
      <4> HIDE DEF g, e
      <4> QED
        BY <4>1, <4>2, <2>4
    <3> QED
      BY <3>1, <3>2
  <2>6. g = e
    BY <2>5
  <2>7. Prefixes(s, S, k + 1, g)
    BY <2>6 DEF Prefixes
  <2> HIDE DEF g
  <2> QED
    BY <2>7
<1>3. Nat \subseteq N
  <2> HIDE DEF N
  <2> QED
    BY <1>1, <1>2, SetInduction
<1> QED
  BY <1>3

LEMMA KeptIsPrefix ==
    ASSUME NEW s, NEW S, Len(s) \in Nat
    PROVE  \E f : Prefixes(s, S, Len(s), f) /\ Kept(s, S) = f[Len(s)]
<1>1. PICK f : f = CHOOSE g : Prefixes(s, S, Len(s), g)
  OBVIOUS
<1>2. Prefixes(s, S, Len(s), f)
  BY <1>1, PrefixesExist
<1>3. Kept(s, S) = f[Len(s)]
  BY <1>1 DEF Kept, Prefixes, Pick
<1> QED
  BY <1>2, <1>3

(* No caller has two entries.                                              *)
Distinct(t) == \A i, j \in DOMAIN t : t[i].key = t[j].key => i = j

(* Kept holds the members that are in S and no other, it is shorter unless *)
(* all are, and callers stay distinct.                                     *)
LEMMA KeptFacts ==
    ASSUME NEW A, NEW s \in Seq(A), NEW S
    PROVE  /\ Kept(s, S) \in Seq(A)
           /\ Range(Kept(s, S)) = Range(s) \cap S
           /\ Len(Kept(s, S)) <= Len(s)
           /\ Len(Kept(s, S)) = Len(s) <=> Range(s) \subseteq S
           /\ Distinct(s) => Distinct(Kept(s, S))
<1> DEFINE First(n) == {s[i] : i \in 1..n}
           Good(p, n) == /\ p \in Seq(A)
                         /\ Range(p) = First(n) \cap S
                         /\ Len(p) <= n
                         /\ Len(p) = n <=> First(n) \subseteq S
                         /\ Distinct(s) => Distinct(p)
<1>1. /\ Len(s) \in Nat /\ DOMAIN s = 1..Len(s)
      /\ \A i \in 1..Len(s) : s[i] \in A
  BY LenProperties
<1>2. PICK f : Prefixes(s, S, Len(s), f) /\ Kept(s, S) = f[Len(s)]
  BY <1>1, KeptIsPrefix
<1>3. \A i \in 0..Len(s) : f[i] = IF i = 0 THEN <<>> ELSE Pick(s, S, i, f[i - 1])
  BY <1>1, <1>2 DEF Prefixes
<1> DEFINE N == {n \in Nat : n <= Len(s) => Good(f[n], n)}
<1>4. 0 \in N
  <2>1. f[0] = <<>>
    BY <1>1, <1>3
  <2>2. First(0) = {} /\ Range(<<>>) = {}
    BY DEF Range
  <2>3. Good(<<>>, 0)
    BY <2>2 DEF Distinct
  <2> QED
    BY <2>1, <2>3
<1>5. ASSUME NEW n \in Nat, n \in N
      PROVE  n + 1 \in N
  <2>1. SUFFICES ASSUME n + 1 <= Len(s)
                 PROVE  Good(f[n + 1], n + 1)
    OBVIOUS
  <2>2. PICK p : p = f[n]
    OBVIOUS
  <2>3. Good(p, n)
    BY <1>1, <1>5, <2>1, <2>2
  <2>4. /\ p \in Seq(A) /\ Len(p) \in Nat /\ DOMAIN p = 1..Len(p)
        /\ Range(p) = First(n) \cap S
        /\ Len(p) <= n
        /\ Len(p) = n <=> First(n) \subseteq S
        /\ Distinct(s) => Distinct(p)
    BY <2>3, LenProperties
  <2>5. f[n + 1] = Pick(s, S, n + 1, p)
    BY <1>1, <1>3, <2>1, <2>2
  <2>6. First(n + 1) = First(n) \cup {s[n + 1]}
    <3>1. \A i \in 1..(n + 1) : i \in 1..n \/ i = n + 1
      OBVIOUS
    <3> QED
      BY <3>1
  <2>7. s[n + 1] \in A /\ n + 1 \in 1..Len(s)
    BY <1>1, <2>1
  <2>8. CASE s[n + 1] \notin S
    <3>1. f[n + 1] = p
      BY <2>5, <2>8 DEF Pick
    <3> HIDE DEF First
    <3>2. First(n + 1) \cap S = First(n) \cap S /\ ~(First(n + 1) \subseteq S)
      BY <2>6, <2>8
    <3>3. Len(p) <= n + 1 /\ Len(p) # n + 1
      <4>1. Len(p) \in Nat /\ Len(p) <= n
        BY <2>4
      <4> QED
        BY <4>1
    <3>4. Good(p, n + 1)
      <4>1. Range(p) = First(n + 1) \cap S
        BY <2>4, <3>2
      <4> QED
        BY <2>4, <3>2, <3>3, <4>1
    <3> QED
      BY <3>1, <3>4
  <2>9. CASE s[n + 1] \in S
    <3> DEFINE q == Append(p, s[n + 1])
    <3>1. f[n + 1] = q
      BY <2>5, <2>9 DEF Pick
    <3>2. /\ q \in Seq(A) /\ Len(q) = Len(p) + 1
          /\ \A i \in 1..Len(p) : q[i] = p[i]
          /\ q[Len(p) + 1] = s[n + 1]
      <4>1. p \in Seq(A) /\ s[n + 1] \in A
        BY <2>4, <2>7
      <4> QED
        BY <4>1, AppendProperties
    <3>3. DOMAIN q = 1..(Len(p) + 1)
      BY <3>2, LenProperties
    <3> HIDE DEF q
    <3>4. Range(q) = Range(p) \cup {s[n + 1]}
      <4>1. \A i \in 1..(Len(p) + 1) : i \in 1..Len(p) \/ i = Len(p) + 1
        <5>1. Len(p) \in Nat
          BY <2>4
        <5>2. PICK m \in Nat : m = Len(p)
          BY <5>1
        <5>3. \A i \in 1..(m + 1) : i \in 1..m \/ i = m + 1
          BY ONLY <5>2
        <5> QED
          BY <5>2, <5>3
      <4>2. \A i \in DOMAIN q : q[i] \in Range(p) \cup {s[n + 1]}
        BY <2>4, <3>2, <3>3, <4>1 DEF Range
      <4>3. \A i \in DOMAIN p : i \in DOMAIN q /\ q[i] = p[i]
        <5>1. Len(p) \in Nat /\ DOMAIN p = 1..Len(p)
          BY <2>4
        <5>2. 1..Len(p) \subseteq 1..(Len(p) + 1)
          BY <5>1
        <5> QED
          BY <3>2, <3>3, <5>1, <5>2
      <4>4. Len(p) + 1 \in DOMAIN q
        <5>1. Len(p) \in Nat
          BY <2>4
        <5> QED
          BY <3>3, <5>1
      <4> QED
        BY <3>2, <4>2, <4>3, <4>4 DEF Range
    <3>5. ASSUME Distinct(s)
          PROVE  Distinct(q)
      <4>1. Distinct(p)
        BY <2>4, <3>5
      <4>2. ASSUME NEW i \in 1..Len(p)
            PROVE  p[i].key # s[n + 1].key
        <5>1. p[i] \in First(n)
          BY <2>4 DEF Range
        <5>2. PICK j \in 1..n : p[i] = s[j]
          BY <5>1
        <5> QED
          BY <1>1, <2>1, <2>7, <3>5, <5>2 DEF Distinct
      <4>3. Len(p) \in Nat /\ DOMAIN p = 1..Len(p)
        BY <2>4
      <4>4. \A i \in 1..(Len(p) + 1) : i \in 1..Len(p) \/ i = Len(p) + 1
        BY <4>3
      <4> QED
        BY <3>2, <3>3, <4>1, <4>2, <4>3, <4>4 DEF Distinct
    <3> HIDE DEF First
    <3>6. /\ Range(q) = First(n + 1) \cap S
          /\ First(n + 1) \subseteq S <=> First(n) \subseteq S
      BY <2>4, <2>6, <2>9, <3>4
    <3>7. Len(q) <= n + 1 /\ (Len(q) = n + 1 <=> First(n + 1) \subseteq S)
      <4>1. Len(p) \in Nat /\ Len(p) <= n /\ (Len(p) = n <=> First(n) \subseteq S)
        BY <2>4
      <4> QED
        BY <3>2, <3>6, <4>1
    <3>8. Good(q, n + 1)
      BY <3>2, <3>5, <3>6, <3>7
    <3> QED
      BY <3>1, <3>8
  <2> QED
    BY <2>8, <2>9
<1>6. Nat \subseteq N
  <2> HIDE DEF N
  <2> QED
    BY <1>4, <1>5, SetInduction
<1>7. Good(f[Len(s)], Len(s))
  <2> HIDE DEF Good
  <2>1. Len(s) \in N
    BY <1>1, <1>6
  <2> QED
    BY <1>1, <2>1
<1>8. First(Len(s)) = Range(s)
  BY <1>1 DEF Range
<1> HIDE DEF First
<1> QED
  BY <1>2, <1>7, <1>8

-----------------------------------------------------------------------------
(* Expire: what is left of a bucket when its old readings are dropped.     *)
LEMMA ExpireFacts ==
    ASSUME NEW ev \in Seq(Int), NEW c \in Int
    PROVE  /\ Expire(ev, c) \in Seq(Int)
           /\ Expire(ev, c) # <<>> => Expire(ev, c)[1] > c
           /\ \A i \in 1..Len(ev) : ev[i] > c => Expire(ev, c) # <<>>
           /\ \E d \in 0..Len(ev) :
                  /\ Len(Expire(ev, c)) = Len(ev) - d
                  /\ \A i \in 1..d : ev[i] <= c
                  /\ \A i \in 1..(Len(ev) - d) : Expire(ev, c)[i] = ev[i + d]
                  /\ d = 0 => Len(ev) = 0 \/ ev[1] > c
<1> DEFINE live == {i \in DOMAIN ev : ev[i] > c}
           x == Expire(ev, c)
           n == Len(ev)
<1>1. n \in Nat /\ DOMAIN ev = 1..n /\ \A i \in 1..n : ev[i] \in Int
  BY LenProperties
<1>2. CASE live = {}
  <2>1. x = <<>>
    BY <1>2 DEF Expire
  <2>2. \A i \in 1..n : ev[i] <= c
    BY <1>1, <1>2
  <2>3. x \in Seq(Int) /\ Len(x) = 0
    BY <2>1
  <2>4. \E d \in 0..n : /\ Len(x) = n - d
                        /\ \A i \in 1..d : ev[i] <= c
                        /\ \A i \in 1..(n - d) : x[i] = ev[i + d]
                        /\ d = 0 => n = 0 \/ ev[1] > c
    <3>1. n \in 0..n /\ Len(x) = n - n /\ 1..(n - n) = {} /\ (n = 0 => n = 0)
      BY <1>1, <2>3
    <3> HIDE DEF x
    <3> QED
      BY <2>2, <3>1
  <2>5. \A i \in 1..n : ~(ev[i] > c)
    BY <1>1, <1>2
  <2> HIDE DEF x
  <2> QED
    BY <2>1, <2>3, <2>4, <2>5 DEF x
<1>3. CASE live # {}
  <2>1. live \subseteq Nat
    BY <1>1
  <2>2. \E m \in live : \A j \in live : m <= j
    <3> HIDE DEF live
    <3> QED
      BY <1>3, <2>1, LeastNat
  <2>3. PICK m : m = CHOOSE i \in live : \A j \in live : i <= j
    OBVIOUS
  <2>4. m \in live /\ \A j \in live : m <= j
    BY <2>2, <2>3
  <2>5. x = SubSeq(ev, m, n)
    BY <1>3, <2>3 DEF Expire
  <2>6. m \in 1..n /\ ev[m] > c
    BY <1>1, <2>4
  <2>7. \A i \in m..n : ev[i] \in Int
    BY <1>1, <2>6
  <2>8. /\ x \in Seq(Int)
        /\ Len(x) = n - m + 1
        /\ \A i \in 1..(n - m + 1) : x[i] = ev[m + i - 1]
    <3>1. m \in Int /\ n \in Int /\ m <= n
      BY <1>1, <2>6
    <3>2. /\ SubSeq(ev, m, n) \in Seq(Int)
          /\ Len(SubSeq(ev, m, n)) = n - m + 1
          /\ \A i \in 1..(n - m + 1) : SubSeq(ev, m, n)[i] = ev[m + i - 1]
      <4> HIDE DEF n
      <4> QED
        BY <2>7, <3>1, SubSeqProperties
    <3> QED
      BY <2>5, <3>2
  <2> HIDE DEF x
  <2>9. x # <<>> /\ x[1] = ev[m]
    <3>1. 1 \in 1..(n - m + 1) /\ Len(x) # 0 /\ m + 1 - 1 = m
      BY <1>1, <2>6, <2>8
    <3> QED
      BY <2>8, <3>1, EmptySeq
  <2>10. \A i \in 1..(m - 1) : ev[i] <= c
    <3>1. ASSUME NEW i \in 1..(m - 1)
          PROVE  ev[i] <= c
      <4>1. i \in 1..n /\ ~(m <= i)
        BY <1>1, <2>6
      <4>2. i \notin live
        BY <2>4, <4>1
      <4> QED
        BY <1>1, <4>1, <4>2
    <3> QED
      BY <3>1
  <2>11. \E d \in 0..n : /\ Len(x) = n - d
                         /\ \A i \in 1..d : ev[i] <= c
                         /\ \A i \in 1..(n - d) : x[i] = ev[i + d]
                         /\ d = 0 => n = 0 \/ ev[1] > c
    <3> DEFINE d == m - 1
    <3>1. d \in 0..n /\ n - d = n - m + 1 /\ \A i \in 1..(n - d) : m + i - 1 = i + d
      BY <1>1, <2>6
    <3>2. d = 0 => ev[1] > c
      BY <2>6
    <3> HIDE DEF n
    <3> QED
      BY <2>8, <2>10, <3>1, <3>2
  <2> QED
    BY <2>6, <2>8, <2>9, <2>11 DEF x
<1> QED
  BY <1>2, <1>3

(* Expiring drops the first reading if it is old, or nothing.              *)
LEMMA ExpireShortens ==
    ASSUME NEW ev \in Seq(Int), NEW c \in Int
    PROVE  /\ Len(Expire(ev, c)) <= Len(ev)
           /\ Expire(ev, c) = ev \/ Len(Expire(ev, c)) < Len(ev)
           /\ ev # <<>> /\ ev[1] <= c => Len(Expire(ev, c)) < Len(ev)
<1> DEFINE x == Expire(ev, c)
<1>1. x \in Seq(Int)
  BY ExpireFacts
<1>2. PICK d \in 0..Len(ev) :
          /\ Len(x) = Len(ev) - d
          /\ \A i \in 1..(Len(ev) - d) : x[i] = ev[i + d]
          /\ d = 0 => Len(ev) = 0 \/ ev[1] > c
  BY ExpireFacts
<1>3. Len(ev) \in Nat /\ (ev # <<>> => Len(ev) # 0 /\ ev[1] \in Int)
  BY EmptySeq, LenProperties
<1> HIDE DEF x
<1>4. d = 0 => x = ev
  <2>1. ASSUME d = 0
        PROVE  Len(x) = Len(ev) /\ \A i \in 1..Len(ev) : x[i] = ev[i]
    BY <1>2, <1>3, <2>1
  <2> QED
    BY <1>1, <2>1, SeqEqual
<1>5. d # 0 => Len(x) < Len(ev)
  BY <1>2, <1>3
<1>6. Len(x) <= Len(ev)
  BY <1>2, <1>3
<1>7. ev # <<>> /\ ev[1] <= c => d # 0
  BY <1>2, <1>3
<1> QED
  BY <1>4, <1>5, <1>6, <1>7 DEF x

-----------------------------------------------------------------------------
(* The limiter's table: an entry for each caller, and one at most.         *)
Entries == [key : Addresses, events : Seq(Int)]

Table(t) == t \in Seq(Entries) /\ Distinct(t)

LEMMA TableShape ==
    ASSUME NEW t, Table(t)
    PROVE  /\ Len(t) \in Nat
           /\ DOMAIN t = 1..Len(t)
           /\ Range(t) \subseteq Entries
<1>1. t \in Seq(Entries)
  BY DEF Table
<1>2. \A i \in 1..Len(t) : t[i] \in Entries
  BY <1>1, ElementOfSeq
<1> QED
  BY <1>1, <1>2, LenProperties DEF Range

(* The bucket of a caller is that of its entry, and empty without one.     *)
LEMMA BucketOfEntry ==
    ASSUME NEW t, Table(t), NEW b \in Range(t)
    PROVE  Tracks(t, b.key) /\ Bucket(t, b.key) = b.events
<1>1. Tracks(t, b.key)
  BY DEF Tracks
<1>2. PICK e : e = CHOOSE a \in Range(t) : a.key = b.key
  OBVIOUS
<1>3. e \in Range(t) /\ e.key = b.key
  BY <1>2
<1>4. e = b
  BY <1>3 DEF Table, Distinct, Range
<1> QED
  BY <1>1, <1>2, <1>4 DEF Bucket

LEMMA BucketOfNone ==
    ASSUME NEW t, NEW k, ~Tracks(t, k)
    PROVE  Bucket(t, k) = <<>>
  BY DEF Bucket

LEMMA BucketType ==
    ASSUME NEW t, Table(t), NEW k
    PROVE  Bucket(t, k) \in Seq(Int)
<1>1. CASE Tracks(t, k)
  <2>1. PICK b \in Range(t) : b.key = k
    BY <1>1 DEF Tracks
  <2>2. Bucket(t, k) = b.events /\ b \in Entries
    BY <2>1, BucketOfEntry, TableShape
  <2> QED
    BY <2>2 DEF Entries
<1>2. CASE ~Tracks(t, k)
  <2>1. Bucket(t, k) = <<>> /\ <<>> \in Seq(Int)
    BY <1>2, BucketOfNone
  <2> QED
    BY <2>1
<1> QED
  BY <1>1, <1>2

(* Two tables with the same entries for a caller have the same bucket.     *)
LEMMA SameEntrySameBucket ==
    ASSUME NEW t, Table(t), NEW u, Table(u), NEW k,
           \A b : b.key = k => (b \in Range(t) <=> b \in Range(u))
    PROVE  Bucket(t, k) = Bucket(u, k) /\ (Tracks(t, k) <=> Tracks(u, k))
<1>1. Tracks(t, k) <=> Tracks(u, k)
  BY DEF Tracks
<1>2. CASE Tracks(t, k)
  <2>1. PICK b \in Range(t) : b.key = k
    BY <1>2 DEF Tracks
  <2>2. b \in Range(u)
    BY <2>1
  <2> QED
    BY <1>1, <2>1, <2>2, BucketOfEntry
<1>3. CASE ~Tracks(t, k)
  BY <1>1, <1>3, BucketOfNone
<1> QED
  BY <1>1, <1>2, <1>3

(* An entry that is added for a caller that has none.                      *)
LEMMA AddEntry ==
    ASSUME NEW t, Table(t), NEW b \in Entries, ~Tracks(t, b.key)
    PROVE  /\ Table(Append(t, b))
           /\ Len(Append(t, b)) = Len(t) + 1
           /\ Range(Append(t, b)) = Range(t) \cup {b}
           /\ \A i \in 1..Len(t) : Append(t, b)[i] \in Range(t)
<1> DEFINE u == Append(t, b)
<1>1. /\ u \in Seq(Entries) /\ Len(u) = Len(t) + 1
      /\ \A i \in 1..Len(t) : u[i] = t[i]
      /\ u[Len(t) + 1] = b
  <2>1. t \in Seq(Entries)
    BY DEF Table
  <2> QED
    BY <2>1, AppendProperties
<1>2. DOMAIN u = 1..(Len(t) + 1)
  BY <1>1, LenProperties
<1>3. Len(t) \in Nat /\ DOMAIN t = 1..Len(t)
  BY TableShape
<1>4. \A i \in 1..(Len(t) + 1) : i \in 1..Len(t) \/ i = Len(t) + 1
  BY <1>3
<1> HIDE DEF u
<1>5. \A i \in 1..Len(t) : u[i] \in Range(t)
  BY <1>1, <1>3 DEF Range
<1>6. Range(u) = Range(t) \cup {b}
  <2>1. 1..Len(t) \subseteq DOMAIN u /\ Len(t) + 1 \in DOMAIN u
    BY <1>2, <1>3
  <2> QED
    BY <1>1, <1>2, <1>3, <1>4, <2>1 DEF Range
<1>7. Distinct(u)
  <2>1. \A i \in 1..Len(t) : t[i].key # b.key
    BY <1>3 DEF Tracks, Range
  <2>2. Distinct(t)
    BY DEF Table
  <2> QED
    BY <1>1, <1>2, <1>3, <1>4, <2>1, <2>2 DEF Distinct
<1> QED
  BY <1>1, <1>5, <1>6, <1>7 DEF Table, u

LEMMA WithoutFacts ==
    ASSUME NEW t, Table(t), NEW k
    PROVE  /\ Table(Without(t, k))
           /\ Range(Without(t, k)) = {b \in Range(t) : b.key # k}
           /\ Len(Without(t, k)) <= Len(t)
           /\ Len(Without(t, k)) = Len(t) <=> ~Tracks(t, k)
<1> DEFINE others == {b \in Range(t) : b.key # k}
<1>1. t \in Seq(Entries) /\ Distinct(t)
  BY DEF Table
<1>2. Range(t) \cap others = others
  OBVIOUS
<1>3. Range(t) \subseteq others <=> ~Tracks(t, k)
  BY DEF Tracks
<1>4. Without(t, k) = Kept(t, others)
  BY DEF Without
<1> HIDE DEF others
<1>5. /\ Kept(t, others) \in Seq(Entries)
      /\ Range(Kept(t, others)) = Range(t) \cap others
      /\ Len(Kept(t, others)) <= Len(t)
      /\ Len(Kept(t, others)) = Len(t) <=> Range(t) \subseteq others
      /\ Distinct(Kept(t, others))
  BY <1>1, KeptFacts
<1> QED
  BY <1>2, <1>3, <1>4, <1>5 DEF Table, others

(* Expired buckets: a caller in keys keeps what Expire leaves, a caller    *)
(* with nothing left has no entry.                                         *)
LEMMA CutFacts ==
    ASSUME NEW t, Table(t), NEW keys, NEW c \in Int
    PROVE  /\ Table(Cut(t, keys, c))
           /\ Len(Cut(t, keys, c)) = Len(t)
           /\ \A k : Tracks(Cut(t, keys, c), k) <=> Tracks(t, k)
           /\ \A k : Bucket(Cut(t, keys, c), k) =
                         IF k \in keys THEN Expire(Bucket(t, k), c) ELSE Bucket(t, k)
<1> DEFINE x == Cut(t, keys, c)
           entry(b) == IF b.key \in keys
                       THEN [key |-> b.key, events |-> Expire(b.events, c)] ELSE b
<1>1. /\ Len(t) \in Nat /\ DOMAIN t = 1..Len(t)
      /\ \A i \in 1..Len(t) : t[i] \in Range(t) /\ t[i] \in Entries
  BY TableShape DEF Range
<1>2. x = [i \in 1..Len(t) |-> entry(t[i])]
  BY <1>1 DEF Cut
<1>3. \A b \in Entries : entry(b) \in Entries /\ entry(b).key = b.key
  BY ExpireFacts DEF Entries
<1>4. x \in [1..Len(t) -> Entries]
  BY <1>1, <1>2, <1>3
<1>5. x \in Seq(Entries) /\ Len(x) = Len(t)
  <2>1. x \in Seq(Entries)
    BY <1>1, <1>4, SeqDef
  <2>2. 1..Len(x) = 1..Len(t) /\ Len(x) \in Nat
    BY <1>4, <2>1, LenProperties
  <2>3. \A m, n \in Nat : 1..m = 1..n => m = n
    OBVIOUS
  <2> QED
    BY <1>1, <2>1, <2>2, <2>3
<1>6. Distinct(x)
  BY <1>1, <1>2, <1>3 DEF Table, Distinct
<1>7. Table(x)
  BY <1>5, <1>6 DEF Table
<1>8. Range(x) = {entry(b) : b \in Range(t)}
  BY <1>1, <1>2 DEF Range
<1>9. ASSUME NEW k
      PROVE  /\ Tracks(x, k) <=> Tracks(t, k)
             /\ Bucket(x, k) =
                    IF k \in keys THEN Expire(Bucket(t, k), c) ELSE Bucket(t, k)
  <2>1. Tracks(x, k) <=> Tracks(t, k)
    <3> HIDE DEF x
    <3>1. \A b \in Range(t) : entry(b).key = b.key
      BY <1>3, TableShape
    <3> HIDE DEF entry
    <3> QED
      BY <1>8, <3>1 DEF Tracks
  <2>2. CASE Tracks(t, k)
    <3>1. PICK b \in Range(t) : b.key = k
      BY <2>2 DEF Tracks
    <3>2. b \in Entries
      BY TableShape
    <3>3. entry(b) \in Range(x) /\ entry(b).key = k
      BY <1>3, <1>8, <3>1, <3>2
    <3>4. entry(b).events = IF k \in keys THEN Expire(b.events, c) ELSE b.events
      BY <3>1
    <3> HIDE DEF x, entry
    <3>5. Bucket(x, k) = entry(b).events
      BY <1>7, <3>3, BucketOfEntry
    <3>6. Bucket(t, k) = b.events
      BY <3>1, BucketOfEntry
    <3> QED
      BY <2>1, <2>2, <3>4, <3>5, <3>6
  <2>3. CASE ~Tracks(t, k)
    <3>1. Bucket(t, k) = <<>> /\ Bucket(x, k) = <<>>
      BY <2>1, <2>3, BucketOfNone
    <3>2. Expire(<<>>, c) = <<>>
      BY DEF Expire
    <3> QED
      BY <2>1, <3>1, <3>2
  <2> QED
    BY <2>2, <2>3
<1> QED
  BY <1>5, <1>7, <1>9

LEMMA ExpiredFacts ==
    ASSUME NEW t, Table(t), NEW keys, NEW c \in Int
    PROVE  /\ Table(Expired(t, keys, c))
           /\ Len(Expired(t, keys, c)) <= Len(t)
           /\ \A k : Tracks(Expired(t, keys, c), k)
                         <=> Bucket(Expired(t, keys, c), k) # <<>>
           /\ \A k : Bucket(Expired(t, keys, c), k) =
                         IF k \in keys THEN Expire(Bucket(t, k), c) ELSE Bucket(t, k)
<1> DEFINE u == Cut(t, keys, c)
           full == {b \in Range(u) : b.events # <<>>}
           x == Expired(t, keys, c)
<1>1. /\ Table(u) /\ Len(u) = Len(t)
      /\ \A k : Bucket(u, k) =
                    IF k \in keys THEN Expire(Bucket(t, k), c) ELSE Bucket(t, k)
  BY CutFacts
<1>2. x = Kept(u, full) /\ Range(u) \cap full = full
  BY DEF Expired
<1> HIDE DEF u
<1>3. /\ x \in Seq(Entries) /\ Range(x) = full /\ Len(x) <= Len(u) /\ Distinct(x)
  <2>1. u \in Seq(Entries) /\ Distinct(u)
    BY <1>1 DEF Table
  <2> HIDE DEF full, x
  <2> QED
    BY <1>2, <2>1, KeptFacts
<1>4. Table(x)
  BY <1>3 DEF Table
<1> HIDE DEF x
<1>5. ASSUME NEW k
      PROVE  /\ Tracks(x, k) <=> Bucket(x, k) # <<>>
             /\ Bucket(x, k) = Bucket(u, k)
  <2>1. CASE Tracks(x, k)
    <3>1. PICK b \in Range(x) : b.key = k
      BY <2>1 DEF Tracks
    <3>2. b \in Range(u) /\ b.events # <<>>
      BY <1>3
    <3>3. Bucket(x, k) = b.events /\ Bucket(u, k) = b.events
      BY <1>1, <1>4, <3>1, <3>2, BucketOfEntry
    <3> QED
      BY <2>1, <3>2, <3>3
  <2>2. CASE ~Tracks(x, k)
    <3>1. Bucket(x, k) = <<>>
      BY <2>2, BucketOfNone
    <3>2. CASE Tracks(u, k)
      <4>1. PICK b \in Range(u) : b.key = k
        BY <3>2 DEF Tracks
      <4>2. b.events = <<>>
        BY <1>3, <2>2, <4>1 DEF Tracks
      <4>3. Bucket(u, k) = <<>>
        BY <1>1, <4>1, <4>2, BucketOfEntry
      <4> QED
        BY <2>2, <3>1, <4>3
    <3>3. CASE ~Tracks(u, k)
      BY <2>2, <3>1, <3>3, BucketOfNone
    <3> QED
      BY <3>2, <3>3
  <2> QED
    BY <2>1, <2>2
<1> QED
  BY <1>1, <1>3, <1>4, <1>5 DEF x

(* Room for a new caller: the first entry of a full table is dropped.      *)
LEMMA RoomyFacts ==
    ASSUME NEW t, Table(t), NEW key
    PROVE  /\ Table(Roomy(t, key))
           /\ \/ Roomy(t, key) = t /\ (Tracks(t, key) \/ Len(t) < MaxKeys)
              \/ /\ ~Tracks(t, key) /\ Len(t) >= MaxKeys
                 /\ Len(Roomy(t, key)) = Len(t) - 1
           /\ Range(Roomy(t, key)) \subseteq Range(t)
           /\ Tracks(Roomy(t, key), key) <=> Tracks(t, key)
<1> DEFINE r == Roomy(t, key)
<1>1. MaxKeys \in Nat \ {0} /\ Len(t) \in Nat /\ DOMAIN t = 1..Len(t)
      /\ t \in Seq(Entries) /\ Distinct(t)
  BY GateAssumption, TableShape DEF Table
<1>2. CASE Tracks(t, key) \/ Len(t) < MaxKeys
  <2>1. ~(~Tracks(t, key) /\ Len(t) >= MaxKeys)
    BY <1>1, <1>2
  <2>2. r = t
    BY <2>1 DEF Roomy
  <2> HIDE DEF r
  <2> QED
    BY <1>2, <2>2 DEF r
<1>3. CASE ~Tracks(t, key) /\ Len(t) >= MaxKeys
  <2>1. r = Tail(t) /\ t # <<>>
    BY <1>1, <1>3, EmptySeq DEF Roomy
  <2>2. /\ r \in Seq(Entries) /\ Len(r) = Len(t) - 1
        /\ \A i \in 1..Len(r) : r[i] = t[i + 1]
    BY <1>1, <2>1, HeadTailProperties
  <2>3. DOMAIN r = 1..Len(r)
    BY <2>2, LenProperties
  <2> HIDE DEF r
  <2>4. \A i \in DOMAIN r : i + 1 \in DOMAIN t /\ r[i] = t[i + 1]
    BY <1>1, <2>2, <2>3
  <2>5. Range(r) \subseteq Range(t)
    BY <2>4 DEF Range
  <2>6. Distinct(r)
    <3>1. SUFFICES ASSUME NEW i \in DOMAIN r, NEW j \in DOMAIN r, r[i].key = r[j].key
                   PROVE  i = j
      BY DEF Distinct
    <3>2. i + 1 = j + 1
      BY <1>1, <2>4, <3>1 DEF Distinct
    <3> QED
      BY <2>3, <3>2
  <2>7. ~Tracks(r, key)
    BY <1>3, <2>5 DEF Tracks
  <2> QED
    BY <1>3, <2>2, <2>5, <2>6, <2>7 DEF Table, r
<1>4. (Tracks(t, key) \/ Len(t) < MaxKeys) \/ (~Tracks(t, key) /\ Len(t) >= MaxKeys)
  BY <1>1
<1> QED
  BY <1>2, <1>3, <1>4

-----------------------------------------------------------------------------
(* Counting the readings of a window.                                      *)
Inside(ev, e) == {i \in DOMAIN ev : e - Window < ev[i] /\ ev[i] <= e}

LEMMA InsideFinite ==
    ASSUME NEW ev \in Seq(Int), NEW e \in Int
    PROVE  /\ IsFiniteSet(Inside(ev, e))
           /\ InWindow(ev, e) = Cardinality(Inside(ev, e))
           /\ InWindow(ev, e) \in Nat
           /\ InWindow(ev, e) <= Len(ev)
<1>1. Len(ev) \in Nat /\ DOMAIN ev = 1..Len(ev)
  BY LenProperties
<1>2. Inside(ev, e) \in SUBSET (1..Len(ev))
  BY <1>1 DEF Inside
<1>3. IsFiniteSet(1..Len(ev)) /\ Cardinality(1..Len(ev)) = Len(ev)
  BY <1>1, FS_Interval
<1>4. IsFiniteSet(Inside(ev, e)) /\ Cardinality(Inside(ev, e)) <= Len(ev)
  BY <1>2, <1>3, FS_Subset
<1>5. Cardinality(Inside(ev, e)) \in Nat
  BY <1>4, FS_CardinalityType
<1> QED
  BY <1>4, <1>5 DEF InWindow, Inside

(* A reading that is added counts if it is in the window.                  *)
LEMMA InWindowAppend ==
    ASSUME NEW ev \in Seq(Int), NEW r \in Int, NEW e \in Int
    PROVE  InWindow(Append(ev, r), e) =
               InWindow(ev, e) + (IF e - Window < r /\ r <= e THEN 1 ELSE 0)
<1> DEFINE u == Append(ev, r)
           n == Len(ev)
<1>1. n \in Nat /\ DOMAIN ev = 1..n
  BY LenProperties
<1>2. /\ u \in Seq(Int) /\ Len(u) = n + 1
      /\ \A i \in 1..n : u[i] = ev[i]
      /\ u[n + 1] = r
  BY AppendProperties
<1>3. DOMAIN u = 1..(n + 1) /\ n + 1 \notin 1..n
  BY <1>1, <1>2, LenProperties
<1>4. \A i \in 1..(n + 1) : i \in 1..n \/ i = n + 1
  BY <1>1
<1>5. 1..n \subseteq 1..(n + 1) /\ n + 1 \in 1..(n + 1)
  BY <1>1
<1>6. IsFiniteSet(Inside(ev, e)) /\ InWindow(ev, e) = Cardinality(Inside(ev, e))
      /\ InWindow(ev, e) \in Nat /\ InWindow(u, e) = Cardinality(Inside(u, e))
  BY <1>2, InsideFinite
<1> HIDE DEF u, n
<1>7. CASE e - Window < r /\ r <= e
  <2>1. Inside(u, e) = Inside(ev, e) \cup {n + 1}
    BY <1>1, <1>2, <1>3, <1>4, <1>5, <1>7 DEF Inside
  <2>2. n + 1 \notin Inside(ev, e)
    BY <1>1, <1>3 DEF Inside
  <2>3. Cardinality(Inside(u, e)) = Cardinality(Inside(ev, e)) + 1
    BY <1>6, <2>1, <2>2, FS_AddElement
  <2> QED
    BY <1>6, <1>7, <2>3 DEF u
<1>8. CASE ~(e - Window < r /\ r <= e)
  <2>1. Inside(u, e) = Inside(ev, e)
    BY <1>1, <1>2, <1>3, <1>4, <1>5, <1>8 DEF Inside
  <2> QED
    BY <1>6, <1>8, <2>1 DEF u
<1> QED
  BY <1>7, <1>8

(* What is expired lies before every window that ends at a later reading.  *)
LEMMA InWindowExpire ==
    ASSUME NEW ev \in Seq(Int), NEW c \in Int, NEW e \in Int, c <= e - Window
    PROVE  InWindow(ev, e) <= InWindow(Expire(ev, c), e)
<1> DEFINE x == Expire(ev, c)
<1>1. x \in Seq(Int)
  BY ExpireFacts
<1>2. PICK d \in 0..Len(ev) :
          /\ Len(x) = Len(ev) - d
          /\ \A i \in 1..d : ev[i] <= c
          /\ \A i \in 1..(Len(ev) - d) : x[i] = ev[i + d]
  BY ExpireFacts
<1>3. Len(ev) \in Nat /\ DOMAIN ev = 1..Len(ev) /\ DOMAIN x = 1..Len(x)
      /\ \A i \in 1..Len(ev) : ev[i] \in Int
  BY <1>1, LenProperties
<1>4. Window \in Int
  BY GateAssumption
<1> HIDE DEF x
<1> DEFINE f == [i \in Inside(ev, e) |-> i - d]
<1>5. ASSUME NEW i \in Inside(ev, e)
      PROVE  i \in Int /\ i - d \in Inside(x, e)
  <2>1. i \in 1..Len(ev) /\ e - Window < ev[i] /\ ev[i] <= e
    BY <1>3 DEF Inside
  <2>2. i \notin 1..d
    BY <1>2, <1>3, <1>4, <2>1
  <2>3. i - d \in 1..(Len(ev) - d) /\ (i - d) + d = i
    BY <1>2, <1>3, <2>1, <2>2
  <2>4. x[i - d] = ev[i] /\ i - d \in DOMAIN x
    BY <1>2, <1>3, <2>3
  <2> QED
    BY <2>1, <2>4 DEF Inside
<1>6. f \in Injection(Inside(ev, e), Inside(x, e))
  <2>1. f \in [Inside(ev, e) -> Inside(x, e)]
    BY <1>5
  <2>2. \A i, j \in Inside(ev, e) : f[i] = f[j] => i = j
    BY <1>2, <1>5
  <2> HIDE DEF f
  <2> QED
    BY <2>1, <2>2 DEF Injection, IsInjective
<1>7. IsFiniteSet(Inside(x, e)) /\ InWindow(x, e) = Cardinality(Inside(x, e))
      /\ InWindow(ev, e) = Cardinality(Inside(ev, e))
  BY <1>1, InsideFinite
<1> HIDE DEF f
<1>8. Cardinality(Inside(ev, e)) <= Cardinality(Inside(x, e))
  BY <1>6, <1>7, FS_Injection
<1> QED
  BY <1>7, <1>8 DEF x

(* A bucket that was expired once has nothing more to drop.                *)
LEMMA ExpireAgain ==
    ASSUME NEW ev \in Seq(Int), NEW c \in Int
    PROVE  Expire(Expire(ev, c), c) = Expire(ev, c)
<1> DEFINE x == Expire(ev, c)
<1>1. x \in Seq(Int) /\ (x # <<>> => x[1] > c)
  BY ExpireFacts
<1>2. Len(x) \in Nat /\ (Len(x) # 0 => x # <<>>) /\ \A i \in 1..Len(x) : x[i] \in Int
  BY <1>1, EmptySeq, LenProperties
<1> HIDE DEF x
<1>3. PICK d \in 0..Len(x) : Len(Expire(x, c)) = Len(x) - d /\ \A i \in 1..d : x[i] <= c
  BY <1>1, ExpireFacts
<1>4. d = 0
  <2>1. SUFFICES ASSUME d # 0
                 PROVE  FALSE
    OBVIOUS
  <2>2. 1 \in 1..d /\ 1 \in 1..Len(x)
    BY <1>2, <1>3, <2>1
  <2> QED
    BY <1>1, <1>2, <1>3, <2>2
<1>5. ~(Len(Expire(x, c)) < Len(x))
  BY <1>2, <1>3, <1>4
<1> QED
  BY <1>1, <1>5, ExpireShortens DEF x

-----------------------------------------------------------------------------
(* check() on the table: what becomes of each caller's bucket.  "own" is   *)
(* the table with the caller's own bucket expired, "swept" the one that    *)
(* check() goes on with, "full" whether it must sweep for room.            *)
Swept(t, key, c, swept) ==
    LET own == Expired(t, {key}, c)
    IN \/ swept = Expired(own, Addresses, c)
       \/ swept = own /\ ~(~Tracks(own, key) /\ Len(own) >= MaxKeys)

Gone(swept, key, k) == Tracks(swept, k) /\ ~Tracks(Roomy(swept, key), k)

Stored(swept, key, ev) ==
    Append(Without(Roomy(swept, key), key), [key |-> key, events |-> ev])

(* The caller's bucket in u is that of t, or what is left of it.           *)
Follows(u, t, k, c) ==
    Bucket(u, k) = Bucket(t, k) \/ Bucket(u, k) = Expire(Bucket(t, k), c)

LEMMA SweptFacts ==
    ASSUME NEW t, Table(t), Len(t) <= MaxKeys, NEW key \in Addresses, NEW c \in Int,
           NEW swept, Swept(t, key, c, swept)
    PROVE  /\ Table(swept)
           /\ Len(swept) <= MaxKeys
           /\ Bucket(swept, key) = Expire(Bucket(t, key), c)
           /\ \A k : Tracks(swept, k) <=> Bucket(swept, k) # <<>>
           /\ \A k : Follows(swept, t, k, c)
           /\ ~Tracks(swept, key) /\ Len(swept) >= MaxKeys =>
                  \A b \in Range(swept) : b.events \in Seq(Int) /\ b.events # <<>>
                                              /\ b.events[1] > c
<1> DEFINE own == Expired(t, {key}, c)
<1>1. /\ Table(own) /\ Len(own) <= Len(t)
      /\ \A k : Tracks(own, k) <=> Bucket(own, k) # <<>>
      /\ \A k : Bucket(own, k) = IF k \in {key} THEN Expire(Bucket(t, k), c) ELSE Bucket(t, k)
  BY ExpiredFacts
<1>2. Len(t) \in Nat /\ Len(own) \in Nat /\ MaxKeys \in Nat
  BY <1>1, TableShape, GateAssumption
<1>3. \A k : Bucket(t, k) \in Seq(Int)
  BY BucketType
<1>4. Bucket(own, key) = Expire(Bucket(t, key), c)
  BY <1>1
<1> HIDE DEF own
<1>5. CASE swept = Expired(own, Addresses, c)
  <2>1. /\ Table(swept) /\ Len(swept) <= Len(own)
        /\ \A k : Tracks(swept, k) <=> Bucket(swept, k) # <<>>
        /\ \A k : Bucket(swept, k) = IF k \in Addresses THEN Expire(Bucket(own, k), c)
                                     ELSE Bucket(own, k)
    BY <1>1, <1>5, ExpiredFacts
  <2>2. Len(swept) \in Nat
    BY <2>1, TableShape
  <2>3. Len(swept) <= MaxKeys
    <3>1. Len(own) <= Len(t) /\ Len(swept) <= Len(own)
      BY <1>1, <2>1
    <3> QED
      BY <1>2, <2>2, <3>1
  <2>4. Bucket(swept, key) = Expire(Bucket(t, key), c)
    <3>1. Bucket(swept, key) = Expire(Expire(Bucket(t, key), c), c)
      BY <1>4, <2>1
    <3> QED
      BY <1>3, <3>1, ExpireAgain
  <2>5. ASSUME NEW k
        PROVE  Follows(swept, t, k, c)
    BY <1>1, <2>1, <2>4 DEF Follows
  <2>6. ASSUME NEW b \in Range(swept)
        PROVE  b.events \in Seq(Int) /\ b.events # <<>> /\ b.events[1] > c
    <3>1. b \in Entries /\ Tracks(swept, b.key) /\ Bucket(swept, b.key) = b.events
      BY <2>1, BucketOfEntry, TableShape
    <3>2. b.key \in Addresses /\ b.events \in Seq(Int)
      BY <3>1 DEF Entries
    <3>3. b.events = Expire(Bucket(own, b.key), c) /\ b.events # <<>>
      BY <2>1, <3>1, <3>2
    <3>4. Bucket(own, b.key) \in Seq(Int)
      BY <1>1, BucketType
    <3>5. Expire(Bucket(own, b.key), c) # <<>> => Expire(Bucket(own, b.key), c)[1] > c
      BY <3>4, ExpireFacts
    <3> QED
      BY <3>2, <3>3, <3>5
  <2> QED
    BY <2>1, <2>3, <2>4, <2>5, <2>6
<1>6. CASE swept = own /\ ~(~Tracks(own, key) /\ Len(own) >= MaxKeys)
  <2>1. Len(own) <= MaxKeys
    <3>1. Len(own) <= Len(t)
      BY <1>1
    <3> QED
      BY <1>2, <3>1
  <2>2. \A k : Follows(swept, t, k, c)
    BY <1>1, <1>6 DEF Follows
  <2> QED
    BY <1>1, <1>4, <1>6, <2>1, <2>2
<1> QED
  BY <1>5, <1>6 DEF Swept, own

(* The caller's first reading is in the window.                            *)
FirstIsLive(t, k, c) == 1 \in DOMAIN Bucket(t, k) /\ Bucket(t, k)[1] > c

LEMMA StoredFacts ==
    ASSUME NEW t, Table(t), Len(t) <= MaxKeys, NEW key \in Addresses, NEW c \in Int,
           NEW swept, Swept(t, key, c, swept), NEW ev \in Seq(Int)
    PROVE  /\ Table(Stored(swept, key, ev))
           /\ Len(Stored(swept, key, ev)) <= MaxKeys
           /\ Stored(swept, key, ev) # <<>>
           /\ Tracks(Stored(swept, key, ev), key)
           /\ Bucket(Stored(swept, key, ev), key) = ev
           /\ ~Gone(swept, key, key)
           /\ \A k : k # key /\ ~Gone(swept, key, k) =>
                         Follows(Stored(swept, key, ev), t, k, c)
           /\ \A k : k # key /\ Gone(swept, key, k) =>
                         Bucket(Stored(swept, key, ev), k) = <<>>
           /\ \A k : Tracks(swept, k) /\ ~Tracks(Stored(swept, key, ev), k) =>
                  /\ Len(Stored(swept, key, ev)) = MaxKeys
                  /\ \A i \in 1..(MaxKeys - 1) :
                         FirstIsLive(Stored(swept, key, ev), Stored(swept, key, ev)[i].key, c)
<1> DEFINE r == Roomy(swept, key)
           o == Without(r, key)
           b0 == [key |-> key, events |-> ev]
           w == Append(o, b0)
<1>1. /\ Table(swept) /\ Len(swept) <= MaxKeys
      /\ \A k : Follows(swept, t, k, c)
      /\ ~Tracks(swept, key) /\ Len(swept) >= MaxKeys =>
             \A b \in Range(swept) : b.events \in Seq(Int) /\ b.events # <<>>
                                         /\ b.events[1] > c
  BY SweptFacts
<1>2. /\ Table(r)
      /\ \/ r = swept /\ (Tracks(swept, key) \/ Len(swept) < MaxKeys)
         \/ /\ ~Tracks(swept, key) /\ Len(swept) >= MaxKeys
            /\ Len(r) = Len(swept) - 1
      /\ Range(r) \subseteq Range(swept)
      /\ Tracks(r, key) <=> Tracks(swept, key)
  BY <1>1, RoomyFacts
<1> HIDE DEF r
<1>3. /\ Table(o)
      /\ Range(o) = {b \in Range(r) : b.key # key}
      /\ Len(o) <= Len(r)
      /\ Len(o) = Len(r) <=> ~Tracks(r, key)
  BY <1>2, WithoutFacts
<1> HIDE DEF o
<1>4. ~Tracks(o, key) /\ b0 \in Entries /\ b0.key = key /\ b0.events = ev
  BY <1>3 DEF Tracks, Entries
<1> HIDE DEF b0
<1>5. /\ Table(w) /\ Len(w) = Len(o) + 1
      /\ Range(w) = Range(o) \cup {b0}
      /\ \A i \in 1..Len(o) : w[i] \in Range(o)
  BY <1>3, <1>4, AddEntry
<1> HIDE DEF w
<1>6. /\ Len(o) \in Nat /\ Len(r) \in Nat /\ Len(swept) \in Nat /\ Len(w) \in Nat
      /\ MaxKeys \in Nat \ {0}
  BY <1>1, <1>2, <1>3, <1>5, TableShape, GateAssumption
<1>7. Len(w) <= MaxKeys /\ w # <<>>
  <2>1. Len(w) <= MaxKeys
    <3>1. CASE ~Tracks(r, key)
      BY <1>1, <1>2, <1>3, <1>5, <1>6, <3>1
    <3>2. CASE Tracks(r, key)
      <4>1. Len(o) # Len(r) /\ r = swept
        BY <1>2, <1>3, <3>2
      <4> QED
        BY <1>1, <1>3, <1>5, <1>6, <4>1
    <3> QED
      BY <3>1, <3>2
  <2>2. Len(w) # 0
    BY <1>5, <1>6
  <2> QED
    BY <2>1, <2>2, EmptySeq
<1>8. Tracks(w, key) /\ Bucket(w, key) = ev
  BY <1>4, <1>5, BucketOfEntry
<1>9. \A k : k # key => (Bucket(w, k) = Bucket(r, k) /\ (Tracks(w, k) <=> Tracks(r, k)))
  BY <1>2, <1>3, <1>4, <1>5, SameEntrySameBucket
<1>10. \A k : Tracks(r, k) => Bucket(r, k) = Bucket(swept, k)
  <2>1. ASSUME NEW k, NEW b \in Range(r), b.key = k
        PROVE  Bucket(r, k) = Bucket(swept, k)
    BY <1>1, <1>2, <2>1, BucketOfEntry
  <2> QED
    BY <2>1 DEF Tracks
<1>11. ASSUME NEW k, k # key, ~Gone(swept, key, k)
       PROVE  Follows(w, t, k, c)
  <2>1. Tracks(r, k) \/ ~Tracks(swept, k)
    BY <1>11 DEF Gone, r
  <2>2. ~Tracks(swept, k) => ~Tracks(r, k)
    BY <1>2 DEF Tracks
  <2>3. Bucket(w, k) = Bucket(swept, k)
    BY <1>9, <1>10, <1>11, <2>1, <2>2, BucketOfNone
  <2> QED
    BY <1>1, <2>3 DEF Follows
<1>12. ASSUME NEW k, k # key, Gone(swept, key, k)
       PROVE  Bucket(w, k) = <<>>
  <2>1. ~Tracks(r, k)
    BY <1>12 DEF Gone, r
  <2> QED
    BY <1>9, <1>12, <2>1, BucketOfNone
<1>13. ASSUME NEW k, Tracks(swept, k), ~Tracks(w, k)
       PROVE  /\ Len(w) = MaxKeys
              /\ \A i \in 1..(MaxKeys - 1) : FirstIsLive(w, w[i].key, c)
  <2>1. k # key /\ ~Tracks(r, k)
    BY <1>8, <1>9, <1>13
  <2>2. r # swept
    BY <1>13, <2>1
  <2>3. ~Tracks(swept, key) /\ Len(swept) >= MaxKeys /\ Len(r) = Len(swept) - 1
    BY <1>2, <2>2
  <2>4. Len(o) = Len(r)
    BY <1>2, <1>3, <2>3
  <2>5. Len(w) = MaxKeys /\ Len(o) = MaxKeys - 1
    BY <1>1, <1>5, <1>6, <2>3, <2>4
  <2>6. ASSUME NEW i \in 1..(MaxKeys - 1)
        PROVE  FirstIsLive(w, w[i].key, c)
    <3>1. w[i] \in Range(o)
      BY <1>5, <2>5
    <3>2. w[i] \in Range(w) /\ w[i] \in Range(swept)
      BY <1>2, <1>3, <1>5, <3>1
    <3>3. Bucket(w, w[i].key) = w[i].events
      BY <1>5, <3>2, BucketOfEntry
    <3>4. w[i].events \in Seq(Int) /\ w[i].events # <<>> /\ w[i].events[1] > c
      BY <1>1, <2>3, <3>2
    <3>5. \A x \in Seq(Int) : x # <<>> => 1 \in DOMAIN x
      BY EmptySeq, LenProperties
    <3> QED
      BY <3>3, <3>4, <3>5 DEF FirstIsLive
  <2> QED
    BY <2>5, <2>6
<1>14. w = Stored(swept, key, ev)
  BY DEF w, b0, o, r, Stored
<1>15. ~Gone(swept, key, key)
  BY <1>2 DEF Gone, r
<1> QED
  BY <1>1, <1>5, <1>7, <1>8, <1>11, <1>12, <1>13, <1>14, <1>15

-----------------------------------------------------------------------------
(* A bucket honours a promise when it has room, or its first reading will  *)
(* be out of the window by then.                                           *)
Honoured(ev, limit, until) ==
    Len(ev) < limit \/ (ev # <<>> /\ ev[1] + Window < until)

(* Retry-After is never too short.                                         *)
LEMMA RetryAfterCovers ==
    ASSUME NEW ev \in Seq(Int), ev # <<>>, NEW r \in Int
    PROVE  /\ RetryAfter(ev, r) \in Int
           /\ ev[1] + Window < r + 2 * RetryAfter(ev, r)
<1>1. ev[1] \in Int /\ Window \in Int
  <2>1. 1 \in 1..Len(ev)
    BY EmptySeq, LenProperties
  <2> QED
    BY <2>1, ElementOfSeq, GateAssumption
<1> DEFINE h == ev[1] + Window - r
<1>2. h \in Int
  BY <1>1
<1>3. ASSUME NEW x \in Int
      PROVE  /\ Seconds(x) \in Int
             /\ x < 2 * (Seconds(x) + 1)
  <2>1. CASE x >= 0
    BY <2>1 DEF Seconds
  <2>2. CASE ~(x >= 0)
    <3>1. Seconds(x) = -((-x) \div 2)
      BY <2>2 DEF Seconds
    <3> QED
      BY <2>2, <3>1
  <2> QED
    BY <2>1, <2>2
<1>4. PICK s : s = Seconds(h) + 1
  OBVIOUS
<1>5. s \in Int /\ h < 2 * s
  <2> HIDE DEF h
  <2>1. Seconds(h) \in Int /\ h < 2 * (Seconds(h) + 1)
    BY <1>2, <1>3
  <2> QED
    BY <1>2, <1>4, <2>1
<1>6. RetryAfter(ev, r) = IF s < 1 THEN 1 ELSE s
  BY <1>4 DEF RetryAfter
<1>7. RetryAfter(ev, r) \in Int /\ h < 2 * RetryAfter(ev, r)
  BY <1>2, <1>5, <1>6
<1> QED
  BY <1>1, <1>7

LEMMA HonouredLater ==
    ASSUME NEW ev \in Seq(Int), NEW c \in Int, NEW limit \in Nat, NEW until \in Int,
           Honoured(ev, limit, until), Len(ev) <= limit
    PROVE  Honoured(Expire(ev, c), limit, until)
<1>1. Len(Expire(ev, c)) <= Len(ev) /\ (Expire(ev, c) = ev \/ Len(Expire(ev, c)) < Len(ev))
  BY ExpireShortens
<1>2. Len(ev) \in Nat /\ Len(Expire(ev, c)) \in Nat
  BY ExpireFacts, LenProperties
<1>3. CASE Expire(ev, c) = ev
  BY <1>3
<1>4. CASE Len(Expire(ev, c)) < Len(ev)
  BY <1>2, <1>4 DEF Honoured
<1> QED
  BY <1>1, <1>3, <1>4

(* A caller whose promise is due has room, whatever the clock shows.       *)
LEMMA HonouredMeansRoom ==
    ASSUME NEW ev \in Seq(Int), NEW limit \in Nat, NEW until \in Int, NEW n \in Int,
           Honoured(ev, limit, until), Len(ev) <= limit, until <= n
    PROVE  Len(Expire(ev, n - Window)) < limit
<1>1. Window \in Int /\ n - Window \in Int
  BY GateAssumption
<1>2. /\ Len(Expire(ev, n - Window)) <= Len(ev)
      /\ ev # <<>> /\ ev[1] <= n - Window => Len(Expire(ev, n - Window)) < Len(ev)
  BY <1>1, ExpireShortens
<1>3. Len(ev) \in Nat /\ Len(Expire(ev, n - Window)) \in Nat
  BY <1>1, ExpireFacts, LenProperties
<1>4. CASE Len(ev) < limit
  BY <1>2, <1>3, <1>4
<1>5. CASE ev # <<>> /\ ev[1] + Window < until
  <2>1. ev[1] \in Int
    <3>1. 1 \in 1..Len(ev)
      BY <1>5, EmptySeq, LenProperties
    <3> QED
      BY <3>1, ElementOfSeq
  <2>2. ev[1] <= n - Window
    BY <1>1, <1>5, <2>1
  <2> QED
    BY <1>2, <1>3, <1>5, <2>2
<1> QED
  BY <1>4, <1>5 DEF Honoured

(* The readings let in (g) that a window may hold beyond those in the      *)
(* bucket (ev): the window is left behind, and each of the late threads    *)
(* that may still come stands for one.                                     *)
Accounted(g, ev, limit, e, time, late) ==
    \/ InWindow(g, e) <= InWindow(ev, e)
    \/ time > e /\ InWindow(g, e) + late <= limit + Cardinality(Threads) - 1

(* A check with clock reading r keeps the account of every window.         *)
LEMMA AccountKept ==
    ASSUME NEW g \in Seq(Int), NEW ev \in Seq(Int), NEW h \in Seq(Int), NEW fv \in Seq(Int),
           NEW limit \in Nat, Len(ev) <= limit, NEW e \in Int, NEW r \in Int,
           NEW time \in Int, r <= time, NEW late \in Nat, NEW left \in Nat,
           left <= late, r <= e => left + 1 <= late,
           r > e => left + 1 <= Cardinality(Threads),
           Accounted(g, ev, limit, e, time, late),
           \/ h = Append(g, r) /\ fv = Append(Expire(ev, r - Window), r)
           \/ h = g /\ (fv = ev \/ fv = Expire(ev, r - Window))
           \/ h = <<>>
    PROVE  Accounted(h, fv, limit, e, time, left)
<1>1. Window \in Nat \ {0} /\ Cardinality(Threads) \in Nat
  BY GateAssumption, FS_CardinalityType
<1> DEFINE c == r - Window
           x == Expire(ev, c)
<1>2. c \in Int /\ x \in Seq(Int)
  BY <1>1, ExpireFacts
<1>3. /\ InWindow(g, e) \in Nat /\ InWindow(ev, e) \in Nat /\ InWindow(ev, e) <= Len(ev)
      /\ InWindow(h, e) \in Nat /\ InWindow(fv, e) \in Nat
      /\ Len(ev) \in Nat
  BY InsideFinite, LenProperties
<1>4. PICK one : one = IF e - Window < r /\ r <= e THEN 1 ELSE 0
  OBVIOUS
<1>5. InWindow(Append(g, r), e) = InWindow(g, e) + one
      /\ InWindow(Append(x, r), e) = InWindow(x, e) + one
  BY <1>2, <1>4, InWindowAppend
<1>6. one \in {0, 1} /\ (r > e => one = 0)
  BY <1>4
<1>7. r <= e => InWindow(ev, e) <= InWindow(x, e)
  <2>1. r <= e => c <= e - Window
    BY <1>1
  <2> QED
    BY <1>2, <2>1, InWindowExpire
<1>8. InWindow(x, e) \in Nat
  BY <1>2, InsideFinite
<1>9. CASE h = <<>>
  <2>1. InWindow(h, e) <= Len(h) /\ Len(h) = 0
    BY <1>9, InsideFinite
  <2>2. InWindow(h, e) <= InWindow(fv, e)
    BY <1>3, <1>9, <2>1
  <2> QED
    BY <2>2 DEF Accounted
<1> HIDE DEF x, c
<1> DEFINE N == Cardinality(Threads)
           ig == InWindow(g, e)
           ie == InWindow(ev, e)
           ix == InWindow(x, e)
<1>10. ig <= ie \/ (time > e /\ ig + late <= limit + N - 1)
  BY DEF Accounted
<1>11. /\ N \in Nat /\ ig \in Nat /\ ie \in Nat /\ ix \in Nat /\ ie <= limit
       /\ left <= late /\ (r <= e => ie <= ix /\ left + 1 <= late)
       /\ r > e => time > e /\ left + 1 <= N
  <2>1. ie <= limit
    BY <1>3
  <2>2. r > e => time > e
    OBVIOUS
  <2> QED
    BY <1>1, <1>3, <1>7, <1>8, <2>1, <2>2
<1>12. CASE h = Append(g, r) /\ fv = Append(x, r)
  <2>1. InWindow(h, e) = ig + one /\ InWindow(fv, e) = ix + one
    BY <1>5, <1>12
  <2> HIDE DEF ig, ie, ix, N
  <2>2. ig + one <= ix + one \/ (time > e /\ (ig + one) + left <= limit + N - 1)
    BY <1>6, <1>10, <1>11
  <2> QED
    BY <2>1, <2>2 DEF Accounted, N
<1>13. CASE h = g /\ (fv = ev \/ fv = x)
  <2>1. InWindow(h, e) = ig /\ (InWindow(fv, e) = ie \/ InWindow(fv, e) = ix)
    BY <1>13
  <2> HIDE DEF ig, ie, ix, N
  <2>2. /\ ig <= ie \/ (time > e /\ ig + left <= limit + N - 1)
        /\ ig <= ix \/ (time > e /\ ig + left <= limit + N - 1)
    BY <1>10, <1>11
  <2> QED
    BY <2>1, <2>2 DEF Accounted, N
<1> QED
  BY <1>9, <1>12, <1>13 DEF x, c

-----------------------------------------------------------------------------
(* What holds of a limiter with this table, readings let in (g), promises  *)
(* (p) and limit; late[e] threads may still come with a reading up to e.   *)
BucketInv(ev, gk, pk, limit, time, late) ==
    /\ gk \in Seq(Int)
    /\ pk # None => limit > 0 /\ pk \in Int /\ Honoured(ev, limit, pk)
    /\ limit > 0 => /\ Len(ev) <= limit
                    /\ \A e \in Int : Accounted(gk, ev, limit, e, time, late[e])

LimiterInv(t, g, p, limit, time, late) ==
    /\ Table(t)
    /\ Len(t) <= MaxKeys
    /\ \A k \in Addresses : BucketInv(Bucket(t, k), g[k], p[k], limit, time, late)

(* The outcome of a check, given the caller's expired bucket.              *)
After(ev, limit, r) == IF Len(ev) < limit THEN Append(ev, r) ELSE ev

GrantedAfter(swept, key, ev, limit, r, g, h) ==
    \A k \in Addresses :
        h[k] = IF Gone(swept, key, k) THEN <<>>
               ELSE IF k = key /\ Len(ev) < limit THEN Append(g[k], r)
               ELSE g[k]

PromisedAfter(key, ev, limit, r, p, q) ==
    \A k \in Addresses :
        q[k] = IF k # key THEN p[k]
               ELSE IF Len(ev) < limit THEN None
               ELSE r + 2 * RetryAfter(ev, r)

(* A check of one caller, with the limit in force.                         *)
LEMMA LimiterCheck ==
    ASSUME NEW t, NEW g, NEW p, NEW limit \in Nat, limit > 0, NEW time \in Int,
           NEW late \in [Int -> Nat], NEW left \in [Int -> Nat],
           LimiterInv(t, g, p, limit, time, late),
           NEW key \in Addresses, NEW r \in Int, r <= time,
           \A e \in Int : /\ left[e] <= late[e]
                          /\ r <= e => left[e] + 1 <= late[e]
                          /\ r > e => left[e] + 1 <= Cardinality(Threads),
           NEW swept, Swept(t, key, r - Window, swept),
           NEW ev, ev = Bucket(swept, key),
           NEW fv, fv = After(ev, limit, r),
           NEW g2, GrantedAfter(swept, key, ev, limit, r, g, g2),
           NEW p2, PromisedAfter(key, ev, limit, r, p, p2)
    PROVE  LimiterInv(Stored(swept, key, fv), g2, p2, limit, time, left)
<1> DEFINE w == Stored(swept, key, fv)
<1>1. PICK c : c = r - Window
  OBVIOUS
<1>2. Window \in Nat /\ c \in Int
  BY <1>1, GateAssumption
<1>3. /\ Table(t) /\ Len(t) <= MaxKeys
      /\ \A k \in Addresses : BucketInv(Bucket(t, k), g[k], p[k], limit, time, late)
  BY DEF LimiterInv
<1>4. \A k : Bucket(t, k) \in Seq(Int)
  BY <1>3, BucketType
<1>5. ev = Expire(Bucket(t, key), c)
  BY <1>2, <1>3, <1>1, SweptFacts
<1>6. ev \in Seq(Int) /\ Len(ev) \in Nat /\ Len(ev) <= Len(Bucket(t, key))
  <2>1. Bucket(t, key) \in Seq(Int)
    BY <1>4
  <2>2. Expire(Bucket(t, key), c) \in Seq(Int)
        /\ Len(Expire(Bucket(t, key), c)) <= Len(Bucket(t, key))
    BY <1>2, <2>1, ExpireFacts, ExpireShortens
  <2> QED
    BY <1>5, <2>2, LenProperties
<1>7. fv \in Seq(Int)
  BY <1>6, AppendProperties DEF After
<1>8. /\ Table(w) /\ Len(w) <= MaxKeys
      /\ Bucket(w, key) = fv
      /\ ~Gone(swept, key, key)
      /\ \A k : k # key /\ ~Gone(swept, key, k) =>
                    Follows(w, t, k, c)
      /\ \A k : k # key /\ Gone(swept, key, k) => Bucket(w, k) = <<>>
  <2>1. Swept(t, key, c, swept) /\ Table(t) /\ Len(t) <= MaxKeys
    BY <1>3, <1>1
  <2>2. /\ c \in Int /\ fv \in Seq(Int) /\ key \in Addresses
        /\ w = Stored(swept, key, fv)
    BY <1>2, <1>7
  <2> HIDE DEF w
  <2>3. Table(Stored(swept, key, fv))
    BY ONLY <2>1, <2>2, StoredFacts
  <2>4. Bucket(Stored(swept, key, fv), key) = fv
    BY ONLY <2>1, <2>2, StoredFacts
  <2>5. ~Gone(swept, key, key)
    BY ONLY <2>1, <2>2, StoredFacts
  <2>6. Len(Stored(swept, key, fv)) <= MaxKeys
    BY ONLY <2>1, <2>2, StoredFacts
  <2>7. \A k : k # key /\ ~Gone(swept, key, k) => Follows(Stored(swept, key, fv), t, k, c)
    BY ONLY <2>1, <2>2, StoredFacts
  <2>8. \A k : k # key /\ Gone(swept, key, k) => Bucket(Stored(swept, key, fv), k) = <<>>
    BY ONLY <2>1, <2>2, StoredFacts
  <2> QED
    BY <2>2, <2>3, <2>4, <2>5, <2>6, <2>7, <2>8
<1> HIDE DEF w
<1>9. ASSUME NEW k \in Addresses
      PROVE  BucketInv(Bucket(w, k), g2[k], p2[k], limit, time, left)
  <2> DEFINE old == Bucket(t, k)
             new == Bucket(w, k)
  <2>1. /\ g[k] \in Seq(Int)
        /\ p[k] # None => p[k] \in Int /\ Honoured(old, limit, p[k])
        /\ Len(old) <= limit
        /\ \A e \in Int : Accounted(g[k], old, limit, e, time, late[e])
    BY <1>3 DEF BucketInv
  <2>2. old \in Seq(Int) /\ new \in Seq(Int)
    BY <1>4, <1>8, BucketType
  <2>3. Len(old) \in Nat /\ Len(new) \in Nat
    BY <2>2, LenProperties
  <2>4. \/ /\ k = key /\ Len(ev) < limit
           /\ g2[k] = Append(g[k], r) /\ new = Append(Expire(old, c), r)
           /\ p2[k] = None
        \/ /\ k = key /\ ~(Len(ev) < limit)
           /\ g2[k] = g[k] /\ new = Expire(old, c)
           /\ p2[k] = r + 2 * RetryAfter(ev, r)
        \/ /\ k # key
           /\ g2[k] = g[k] /\ (new = old \/ new = Expire(old, c))
           /\ p2[k] = p[k]
        \/ /\ k # key
           /\ g2[k] = <<>> /\ new = <<>>
           /\ p2[k] = p[k]
    <3>1. CASE k = key
      BY <1>5, <1>8, <3>1 DEF After, GrantedAfter, PromisedAfter
    <3>2. CASE k # key
      BY <1>8, <3>2 DEF GrantedAfter, PromisedAfter, Follows
    <3> QED
      BY <3>1, <3>2
  <2>5. /\ Expire(old, c) \in Seq(Int) /\ Len(Expire(old, c)) \in Nat
        /\ Len(Expire(old, c)) <= Len(old)
    BY <1>2, <2>2, ExpireFacts, ExpireShortens, LenProperties
  <2> HIDE DEF old, new
  <2>6. g2[k] \in Seq(Int)
    <3>1. Append(g[k], r) \in Seq(Int) /\ <<>> \in Seq(Int)
      BY <2>1, AppendProperties
    <3> QED
      BY <2>1, <2>4, <3>1
  <2>7. Len(new) <= limit
    <3>1. CASE k = key /\ Len(ev) < limit
      <4>1. new = Append(ev, r)
        BY <1>5, <2>4, <3>1 DEF old
      <4>2. Len(new) = Len(ev) + 1
        BY <1>6, <4>1, AppendProperties
      <4> QED
        BY <1>6, <3>1, <4>2
    <3>2. CASE ~(k = key /\ Len(ev) < limit)
      <4>1. new = old \/ new = Expire(old, c) \/ new = <<>>
        BY <2>4, <3>2
      <4>2. CASE new = old
        BY <2>1, <4>2
      <4>3. CASE new = Expire(old, c)
        <5>1. Len(new) <= Len(old) /\ Len(old) <= limit
          BY <2>1, <2>5, <4>3
        <5> QED
          BY <2>3, <5>1
      <4>4. CASE new = <<>>
        <5>1. Len(new) = 0
          BY <4>4
        <5> QED
          BY <5>1
      <4> QED
        BY <4>1, <4>2, <4>3, <4>4
    <3> QED
      BY <3>1, <3>2
  <2>8. ASSUME p2[k] # None
        PROVE  p2[k] \in Int /\ Honoured(new, limit, p2[k])
    <3>1. CASE k = key
      <4>1. ~(Len(ev) < limit) /\ new = ev /\ p2[k] = r + 2 * RetryAfter(ev, r)
        BY <1>5, <2>4, <2>8, <3>1 DEF old
      <4>2. ev # <<>>
        <5>1. Len(ev) # 0
          BY <1>6, <4>1
        <5> QED
          BY <5>1
      <4>3. RetryAfter(ev, r) \in Int /\ ev[1] + Window < r + 2 * RetryAfter(ev, r)
        BY <1>6, <4>2, RetryAfterCovers
      <4>4. Honoured(ev, limit, r + 2 * RetryAfter(ev, r))
        BY <4>2, <4>3 DEF Honoured
      <4>5. r + 2 * RetryAfter(ev, r) \in Int
        BY <4>3
      <4> QED
        BY <4>1, <4>4, <4>5
    <3>2. CASE k # key
      <4>1. p2[k] = p[k] /\ (new = old \/ new = Expire(old, c) \/ new = <<>>)
        BY <2>4, <3>2
      <4>2. p[k] \in Int /\ Honoured(old, limit, p[k])
        BY <2>1, <2>8, <4>1
      <4>3. Honoured(Expire(old, c), limit, p[k])
        BY <1>2, <2>1, <2>2, <4>2, HonouredLater
      <4>4. Honoured(<<>>, limit, p[k])
        BY DEF Honoured
      <4> QED
        BY <4>1, <4>2, <4>3, <4>4
    <3> QED
      BY <3>1, <3>2
  <2>9. ASSUME NEW e \in Int
        PROVE  Accounted(g2[k], new, limit, e, time, left[e])
    <3>1. \/ g2[k] = Append(g[k], r) /\ new = Append(Expire(old, r - Window), r)
          \/ g2[k] = g[k] /\ (new = old \/ new = Expire(old, r - Window))
          \/ g2[k] = <<>>
      BY <1>1, <2>4
    <3>2. late[e] \in Nat /\ left[e] \in Nat
      OBVIOUS
    <3>3. Accounted(g[k], old, limit, e, time, late[e])
      BY <2>1
    <3>4. /\ left[e] <= late[e]
          /\ r <= e => left[e] + 1 <= late[e]
          /\ r > e => left[e] + 1 <= Cardinality(Threads)
      OBVIOUS
    <3>5. g[k] \in Seq(Int) /\ Len(old) <= limit
      BY <2>1
    <3> QED
      BY <2>2, <2>6, <3>1, <3>2, <3>3, <3>4, <3>5, AccountKept, Zenon
  <2> QED
    BY <2>6, <2>7, <2>8, <2>9 DEF BucketInv, new
<1> QED
  BY <1>8, <1>9 DEF LimiterInv, w

(* Time goes on, or threads go.                                            *)
LEMMA LimiterQuiet ==
    ASSUME NEW t, NEW g, NEW p, NEW limit \in Nat,
           NEW time \in Int, NEW later \in Int, time <= later,
           NEW late \in [Int -> Nat], NEW left \in [Int -> Nat],
           LimiterInv(t, g, p, limit, time, late),
           \A e \in Int : left[e] <= late[e] \/ ~(time > e)
    PROVE  LimiterInv(t, g, p, limit, later, left)
<1>1. ASSUME NEW k \in Addresses, limit > 0, NEW e \in Int
      PROVE  Accounted(g[k], Bucket(t, k), limit, e, later, left[e])
  <2>1. g[k] \in Seq(Int) /\ Accounted(g[k], Bucket(t, k), limit, e, time, late[e])
    BY <1>1 DEF LimiterInv, BucketInv
  <2>2. InWindow(g[k], e) \in Nat /\ late[e] \in Nat /\ left[e] \in Nat
        /\ Cardinality(Threads) \in Nat
    BY <2>1, InsideFinite, GateAssumption, FS_CardinalityType
  <2>3. left[e] <= late[e] \/ ~(time > e)
    OBVIOUS
  <2>4. ASSUME time > e, InWindow(g[k], e) + late[e] <= limit + Cardinality(Threads) - 1
        PROVE  later > e /\ InWindow(g[k], e) + left[e] <= limit + Cardinality(Threads) - 1
    BY <2>2, <2>3, <2>4
  <2> QED
    BY <2>1, <2>4 DEF Accounted
<1> QED
  BY <1>1 DEF LimiterInv, BucketInv

(* A limiter that has seen nobody.                                         *)
LEMMA LimiterEmpty ==
    ASSUME NEW g, NEW p, NEW limit \in Nat, NEW time \in Int, NEW late \in [Int -> Nat],
           \A k \in Addresses : g[k] = <<>> /\ p[k] = None
    PROVE  LimiterInv(<<>>, g, p, limit, time, late)
<1>1. Table(<<>>) /\ Len(<<>>) <= MaxKeys
  BY GateAssumption DEF Table, Distinct
<1>2. \A k : Bucket(<<>>, k) = <<>>
  <2>1. \A k : ~Tracks(<<>>, k)
    BY DEF Tracks, Range
  <2> QED
    BY <2>1, BucketOfNone
<1>3. ASSUME NEW e \in Int
      PROVE  Accounted(<<>>, <<>>, limit, e, time, late[e])
  <2>1. InWindow(<<>>, e) \in Nat
    <3>1. <<>> \in Seq(Int)
      OBVIOUS
    <3> QED
      BY <3>1, InsideFinite
  <2> QED
    BY <2>1 DEF Accounted
<1>4. <<>> \in Seq(Int) /\ Len(<<>>) = 0
  OBVIOUS
<1>5. BucketInv(<<>>, <<>>, None, limit, time, late)
  BY <1>3, <1>4 DEF BucketInv
<1> QED
  BY <1>1, <1>2, <1>5 DEF LimiterInv

-----------------------------------------------------------------------------
(* The threads whose check is still to come, with a reading up to e.       *)
Waiting(T, e) == {t \in Threads : T[t].pc = "check" /\ T[t].reading <= e}

Late(T) == [e \in Int |-> Cardinality(Waiting(T, e))]

LEMMA LateType ==
    ASSUME NEW T
    PROVE  Late(T) \in [Int -> Nat]
<1>1. ASSUME NEW e \in Int
      PROVE  Cardinality(Waiting(T, e)) \in Nat
  <2>1. Waiting(T, e) \in SUBSET Threads
    BY DEF Waiting
  <2> QED
    BY <2>1, GateAssumption, FS_Subset, FS_CardinalityType
<1> QED
  BY <1>1 DEF Late

LEMMA LateShrinks ==
    ASSUME NEW T, NEW U, NEW e \in Int, Waiting(U, e) \subseteq Waiting(T, e)
    PROVE  Late(U)[e] <= Late(T)[e]
<1>1. Waiting(T, e) \in SUBSET Threads
  BY DEF Waiting
<1>2. IsFiniteSet(Waiting(T, e))
  BY <1>1, GateAssumption, FS_Subset
<1> QED
  BY <1>2, FS_Subset DEF Late

(* A thread whose check is done is no longer waited for.                   *)
LEMMA LateLeaves ==
    ASSUME NEW T, NEW U, NEW t \in Threads, T[t].pc = "check", U[t].pc # "check",
           \A x \in Threads : x # t => U[x] = T[x],
           NEW r \in Int, r = T[t].reading, NEW e \in Int
    PROVE  /\ Late(U)[e] <= Late(T)[e]
           /\ r <= e => Late(U)[e] + 1 <= Late(T)[e]
           /\ r > e => Late(U)[e] + 1 <= Cardinality(Threads)
<1>1. Late(U)[e] = Cardinality(Waiting(U, e)) /\ Late(T)[e] = Cardinality(Waiting(T, e))
  BY DEF Late
<1>2. Waiting(U, e) \subseteq Waiting(T, e) \ {t}
  BY DEF Waiting
<1>3. Waiting(T, e) \in SUBSET Threads
  BY DEF Waiting
<1>4. IsFiniteSet(Threads) /\ IsFiniteSet(Waiting(T, e))
  BY <1>3, GateAssumption, FS_Subset
<1>5. /\ IsFiniteSet(Waiting(T, e) \ {t}) /\ IsFiniteSet(Threads \ {t})
      /\ Cardinality(Waiting(T, e) \ {t}) = IF t \in Waiting(T, e)
                                            THEN Cardinality(Waiting(T, e)) - 1
                                            ELSE Cardinality(Waiting(T, e))
      /\ Cardinality(Threads \ {t}) = Cardinality(Threads) - 1
  BY <1>4, FS_RemoveElement
<1>6. IsFiniteSet(Waiting(U, e)) /\ Cardinality(Waiting(U, e)) <= Cardinality(Waiting(T, e) \ {t})
  BY <1>2, <1>5, FS_Subset
<1>7. Cardinality(Waiting(U, e)) <= Cardinality(Threads \ {t})
  <2>1. Waiting(U, e) \in SUBSET (Threads \ {t})
    BY <1>2, <1>3
  <2> QED
    BY <1>5, <2>1, FS_Subset
<1>8. /\ Cardinality(Waiting(U, e)) \in Nat /\ Cardinality(Waiting(T, e)) \in Nat
      /\ Cardinality(Threads) \in Nat
  BY <1>4, <1>6, FS_CardinalityType
<1>9. r <= e => t \in Waiting(T, e)
  BY DEF Waiting
<1>10. Late(U)[e] <= Late(T)[e] /\ (r <= e => Late(U)[e] + 1 <= Late(T)[e])
  BY <1>1, <1>5, <1>6, <1>8, <1>9
<1>11. Late(U)[e] + 1 <= Cardinality(Threads)
  BY <1>1, <1>5, <1>7, <1>8
<1> QED
  BY <1>10, <1>11

-----------------------------------------------------------------------------
(* The invariant of the limiters.                                          *)
ThreadInv(x, time) ==
    x.pc = "check" =>
        /\ x.key \in Addresses
        /\ x.limiter \in Limiters
        /\ x.reading \in Int
        /\ x.reading <= time

LimitersInv ==
    /\ now \in Int
    /\ th = [t \in Threads |-> th[t]]
    /\ \A t \in Threads : ThreadInv(th[t], now)
    /\ lim = [l \in Limiters |-> lim[l]]
    /\ granted = [l \in Limiters |-> granted[l]]
    /\ promised = [l \in Limiters |-> [k \in Addresses |-> promised[l][k]]]
    /\ \A l \in Limiters :
           LimiterInv(lim[l].table, granted[l], promised[l], Limit[l], now, Late(th))

LEMMA LimitersInit ==
    Init => LimitersInv
<1> SUFFICES ASSUME Init PROVE LimitersInv
  OBVIOUS
<1> USE DEF Init
<1>1. now \in Int /\ th = [t \in Threads |-> th[t]]
  OBVIOUS
<1>2. \A t \in Threads : ThreadInv(th[t], now)
  BY DEF ThreadInv, Idle
<1>3. /\ lim = [l \in Limiters |-> lim[l]]
      /\ granted = [l \in Limiters |-> granted[l]]
      /\ promised = [l \in Limiters |-> [k \in Addresses |-> promised[l][k]]]
  BY DEF EmptyLimiters
<1>4. ASSUME NEW l \in Limiters
      PROVE  LimiterInv(lim[l].table, granted[l], promised[l], Limit[l], now, Late(th))
  <2>1. /\ lim[l].table = <<>>
        /\ \A k \in Addresses : granted[l][k] = <<>> /\ promised[l][k] = None
    BY DEF EmptyLimiters
  <2>2. Limit[l] \in Nat /\ Late(th) \in [Int -> Nat]
    BY GateAssumption, LateType
  <2> HIDE DEF Init
  <2>3. LimiterInv(<<>>, granted[l], promised[l], Limit[l], now, Late(th))
    BY <1>1, <2>1, <2>2, LimiterEmpty
  <2> QED
    BY <2>1, <2>3
<1> QED
  BY <1>1, <1>2, <1>3, <1>4 DEF LimitersInv

(* Steps that leave the limiters alone: time goes on, threads arrive with  *)
(* a reading of now, or do something else.                                 *)
LEMMA LimitersQuiet ==
    ASSUME LimitersInv, UNCHANGED gateVars, now' \in Int, now <= now',
           th' = [t \in Threads |-> th'[t]],
           \A t \in Threads : th'[t].pc = "check" =>
               \/ th'[t] = th[t]
               \/ th'[t].reading = now /\ ThreadInv(th'[t], now)
    PROVE  LimitersInv'
<1>1. now \in Int
  BY DEF LimitersInv
<1>2. ASSUME NEW t \in Threads
      PROVE  ThreadInv(th'[t], now')
  <2>1. ThreadInv(th[t], now)
    BY DEF LimitersInv
  <2> QED
    BY <1>1, <2>1 DEF ThreadInv
<1>3. ASSUME NEW e \in Int
      PROVE  Late(th')[e] <= Late(th)[e] \/ ~(now > e)
  <2>1. SUFFICES ASSUME now > e
                 PROVE  Late(th')[e] <= Late(th)[e]
    OBVIOUS
  <2>2. Waiting(th', e) \subseteq Waiting(th, e)
    BY <1>1, <2>1 DEF Waiting
  <2> QED
    BY <2>2, LateShrinks
<1>4. ASSUME NEW l \in Limiters
      PROVE  LimiterInv(lim[l].table, granted[l], promised[l], Limit[l], now', Late(th'))
  <2>1. LimiterInv(lim[l].table, granted[l], promised[l], Limit[l], now, Late(th))
    BY DEF LimitersInv
  <2>2. Limit[l] \in Nat /\ Late(th) \in [Int -> Nat] /\ Late(th') \in [Int -> Nat]
    BY GateAssumption, LateType
  <2>3. \A e \in Int : Late(th')[e] <= Late(th)[e] \/ ~(now > e)
    BY <1>3
  <2> QED
    BY <1>1, <2>1, <2>2, <2>3, LimiterQuiet
<1>5. lim' = lim /\ granted' = granted /\ promised' = promised
  BY DEF gateVars
<1> QED
  BY <1>2, <1>4, <1>5 DEF LimitersInv

(* What check() does, in the words of the lemmas above.                    *)
CheckOutcome(t, swept, ev) ==
    LET l == th[t].limiter
        key == th[t].key
        r == th[t].reading
    IN /\ Swept(lim[l].table, key, r - Window, swept)
       /\ ev = Bucket(swept, key)
       /\ lim' = [lim EXCEPT ![l] = lim'[l]]
       /\ lim'[l].table = Stored(swept, key, After(ev, Limit[l], r))
       /\ granted' = [granted EXCEPT ![l] = granted'[l]]
       /\ GrantedAfter(swept, key, ev, Limit[l], r, granted[l], granted'[l])
       /\ promised' = [promised EXCEPT ![l] = promised'[l]]
       /\ promised'[l] = [k \in Addresses |-> promised'[l][k]]
       /\ PromisedAfter(key, ev, Limit[l], r, promised[l], promised'[l])

LEMMA CheckDoes ==
    ASSUME LimitersInv, NEW t \in Threads, Check(t), Limit[th[t].limiter] # 0
    PROVE  \E swept, ev : CheckOutcome(t, swept, ev)
<1>1. PICK l, key, r : l = th[t].limiter /\ key = th[t].key /\ r = th[t].reading
  OBVIOUS
<1>2. l \in Limiters /\ key \in Addresses
  BY <1>1 DEF LimitersInv, ThreadInv, Check
<1>3. PICK own : own = Expired(lim[l].table, {key}, r - Window)
  OBVIOUS
<1>4. PICK swept : swept = IF Sweeping(l, key, own)
                           THEN Expired(own, Addresses, r - Window) ELSE own
  OBVIOUS
<1>5. PICK ev : ev = Bucket(swept, key)
  OBVIOUS
<1>6. Swept(lim[l].table, key, r - Window, swept)
  <2>1. ~Sweeping(l, key, own) => ~(~Tracks(own, key) /\ Len(own) >= MaxKeys)
    BY DEF Sweeping
  <2> QED
    BY <1>3, <1>4, <2>1 DEF Swept
<1>7. PICK allowed \in BOOLEAN : allowed <=> Len(ev) < Limit[l]
  OBVIOUS
<1>8. /\ lim' = [lim EXCEPT ![l] =
             [checks |-> IF Sweeping(l, key, own) THEN 0 ELSE lim[l].checks + 1,
              table |-> Append(Without(Roomy(swept, key), key),
                  [key |-> key, events |-> IF allowed THEN Append(ev, r) ELSE ev])]]
      /\ promised' = [promised EXCEPT ![l][key] =
             IF allowed THEN None ELSE r + 2 * RetryAfter(ev, r)]
      /\ granted' = [granted EXCEPT ![l] =
             [k \in Addresses |->
                 IF Tracks(swept, k) /\ ~Tracks(Roomy(swept, key), k) THEN <<>>
                 ELSE IF k = key /\ allowed THEN Append(granted[l][k], r)
                 ELSE granted[l][k]]]
  BY <1>1, <1>3, <1>4, <1>5, <1>7 DEF Check, HasRoom
<1>9. DOMAIN lim = Limiters /\ DOMAIN granted = Limiters /\ DOMAIN promised = Limiters
      /\ DOMAIN promised[l] = Addresses
  BY <1>2 DEF LimitersInv
<1>10. /\ lim' = [lim EXCEPT ![l] = lim'[l]]
       /\ lim'[l].table = Stored(swept, key, After(ev, Limit[l], r))
  BY <1>2, <1>7, <1>8, <1>9 DEF Stored, After
<1>11. /\ granted' = [granted EXCEPT ![l] = granted'[l]]
       /\ GrantedAfter(swept, key, ev, Limit[l], r, granted[l], granted'[l])
  BY <1>2, <1>7, <1>8, <1>9 DEF GrantedAfter, Gone
<1>12. /\ promised' = [promised EXCEPT ![l] = promised'[l]]
       /\ promised'[l] = [k \in Addresses |-> promised'[l][k]]
       /\ PromisedAfter(key, ev, Limit[l], r, promised[l], promised'[l])
  BY <1>2, <1>7, <1>8, <1>9 DEF PromisedAfter
<1>13. CheckOutcome(t, swept, ev)
  BY <1>1, <1>5, <1>6, <1>10, <1>11, <1>12 DEF CheckOutcome
<1> QED
  BY <1>13

LEMMA LimitersCheck ==
    ASSUME LimitersInv, NEW t \in Threads, Check(t)
    PROVE  LimitersInv'
<1>1. /\ th' = [th EXCEPT ![t] = Idle] /\ th[t].pc = "check" /\ now' = now
      /\ now \in Int /\ DOMAIN th = Threads
  BY DEF Check, LimitersInv
<1>2. /\ th' = [x \in Threads |-> th'[x]]
      /\ th'[t] = Idle
      /\ \A x \in Threads : x # t => th'[x] = th[x]
  BY <1>1
<1>3. CASE Limit[th[t].limiter] = 0
  <2>1. UNCHANGED gateVars
    BY <1>3 DEF Check
  <2>2. \A x \in Threads : th'[x].pc = "check" => th'[x] = th[x]
    BY <1>2 DEF Idle
  <2> QED
    BY <1>1, <1>2, <2>1, <2>2, LimitersQuiet
<1>4. CASE Limit[th[t].limiter] # 0
  <2>1. PICK swept, ev : CheckOutcome(t, swept, ev)
    BY <1>4, CheckDoes
  <2>2. PICK l, key, r : l = th[t].limiter /\ key = th[t].key /\ r = th[t].reading
    OBVIOUS
  <2>3. l \in Limiters /\ key \in Addresses /\ r \in Int /\ r <= now
    BY <1>1, <2>2 DEF LimitersInv, ThreadInv
  <2>4. PICK fv : fv = After(ev, Limit[l], r)
    OBVIOUS
  <2>5. /\ Swept(lim[l].table, key, r - Window, swept)
        /\ ev = Bucket(swept, key)
        /\ lim' = [lim EXCEPT ![l] = lim'[l]]
        /\ lim'[l].table = Stored(swept, key, fv)
        /\ granted' = [granted EXCEPT ![l] = granted'[l]]
        /\ GrantedAfter(swept, key, ev, Limit[l], r, granted[l], granted'[l])
        /\ promised' = [promised EXCEPT ![l] = promised'[l]]
        /\ promised'[l] = [k \in Addresses |-> promised'[l][k]]
        /\ PromisedAfter(key, ev, Limit[l], r, promised[l], promised'[l])
    BY <2>1, <2>2, <2>4 DEF CheckOutcome
  <2>6. /\ lim = [m \in Limiters |-> lim[m]]
        /\ granted = [m \in Limiters |-> granted[m]]
        /\ promised = [m \in Limiters |-> [k \in Addresses |-> promised[m][k]]]
        /\ \A m \in Limiters :
               LimiterInv(lim[m].table, granted[m], promised[m], Limit[m], now, Late(th))
    BY DEF LimitersInv
  <2>7. Late(th) \in [Int -> Nat] /\ Late(th') \in [Int -> Nat]
        /\ Limit \in [Limiters -> Nat]
    BY LateType, GateAssumption
  <2>8. \A e \in Int : /\ Late(th')[e] <= Late(th)[e]
                       /\ r <= e => Late(th')[e] + 1 <= Late(th)[e]
                       /\ r > e => Late(th')[e] + 1 <= Cardinality(Threads)
    BY <1>1, <1>2, <2>2, <2>3, LateLeaves DEF Idle
  <2>9. LimiterInv(lim'[l].table, granted'[l], promised'[l], Limit[l], now, Late(th'))
    <3>1. Limit[l] \in Nat /\ Limit[l] > 0
      BY <1>4, <2>2, <2>3, <2>7
    <3>2. LimiterInv(lim[l].table, granted[l], promised[l], Limit[l], now, Late(th))
      BY <2>3, <2>6
    <3>3. LimiterInv(Stored(swept, key, fv), granted'[l], promised'[l], Limit[l], now, Late(th'))
      BY <1>1, <2>3, <2>4, <2>5, <2>7, <2>8, <3>1, <3>2, LimiterCheck
    <3> QED
      BY <2>5, <3>3
  <2>10. ASSUME NEW m \in Limiters, m # l
         PROVE  LimiterInv(lim'[m].table, granted'[m], promised'[m], Limit[m], now, Late(th'))
    <3>1. lim'[m] = lim[m] /\ granted'[m] = granted[m] /\ promised'[m] = promised[m]
      BY <2>3, <2>5, <2>6, <2>10
    <3>2. LimiterInv(lim[m].table, granted[m], promised[m], Limit[m], now, Late(th))
      BY <2>6
    <3>3. Limit[m] \in Nat /\ now <= now
      BY <1>1, <2>7
    <3>4. \A e \in Int : Late(th')[e] <= Late(th)[e] \/ ~(now > e)
      BY <2>8
    <3>5. LimiterInv(lim[m].table, granted[m], promised[m], Limit[m], now, Late(th'))
      BY <1>1, <2>7, <3>2, <3>3, <3>4, LimiterQuiet
    <3> QED
      BY <3>1, <3>5
  <2>11. /\ lim' = [m \in Limiters |-> lim'[m]]
         /\ granted' = [m \in Limiters |-> granted'[m]]
         /\ promised' = [m \in Limiters |-> [k \in Addresses |-> promised'[m][k]]]
    <3>1. lim' = [m \in Limiters |-> lim'[m]]
      BY <2>5, <2>6
    <3>2. granted' = [m \in Limiters |-> granted'[m]]
      BY <2>5, <2>6
    <3>3. promised' = [m \in Limiters |-> promised'[m]]
      BY <2>5, <2>6
    <3>4. \A m \in Limiters : promised'[m] = [k \in Addresses |-> promised'[m][k]]
      BY <2>3, <2>5, <2>6
    <3> QED
      BY <3>1, <3>2, <3>3, <3>4
  <2>12. \A x \in Threads : ThreadInv(th'[x], now)
    <3>1. \A x \in Threads : ThreadInv(th[x], now)
      BY DEF LimitersInv
    <3> QED
      BY <1>2, <3>1 DEF ThreadInv, Idle
  <2>13. \A m \in Limiters :
             LimiterInv(lim'[m].table, granted'[m], promised'[m], Limit[m], now, Late(th'))
    BY <2>9, <2>10
  <2> QED
    BY <1>1, <1>2, <2>11, <2>12, <2>13 DEF LimitersInv
<1> QED
  BY <1>3, <1>4

LEMMA LimitersStep ==
    ASSUME LimitersInv, [Next]_vars
    PROVE  LimitersInv'
<1>1. /\ now \in Int /\ DOMAIN th = Threads
      /\ th = [t \in Threads |-> th[t]]
  BY DEF LimitersInv
<1>2. CASE UNCHANGED vars
  BY <1>1, <1>2, LimitersQuiet DEF vars
<1>3. ASSUME NEW t \in Threads, NEW remote \in Addresses,
             NEW forwarded \in Addresses \cup {None}, NEW supplied \in Tokens \cup {None},
             Arrive(t, remote, forwarded, supplied)
      PROVE  LimitersInv'
  <2>1. PICK x : x = [pc |-> "check", key |-> Identity(remote, forwarded), reading |-> now,
                      limiter |-> IF Authorized(supplied) THEN "requests" ELSE "auth_failures"]
    OBVIOUS
  <2>2. /\ th' = [th EXCEPT ![t] = x]
        /\ UNCHANGED gateVars /\ now' = now
    BY <1>3, <2>1 DEF Arrive
  <2>3. x.reading = now /\ ThreadInv(x, now)
    <3>1. Identity(remote, forwarded) \in Addresses
      BY <1>3 DEF Identity
    <3> QED
      BY <1>1, <2>1, <3>1 DEF ThreadInv, Limiters
  <2>4. \A y \in Threads : th'[y] = IF y = t THEN x ELSE th[y]
    BY <1>1, <2>2
  <2>5. th' = [y \in Threads |-> th'[y]]
    BY <1>1, <2>2
  <2>6. \A y \in Threads : \/ th'[y] = th[y]
                           \/ th'[y].reading = now /\ ThreadInv(th'[y], now)
    BY <2>3, <2>4
  <2> QED
    BY <1>1, <2>2, <2>5, <2>6, LimitersQuiet
<1>4. ASSUME NEW t \in Threads, Check(t)
      PROVE  LimitersInv'
  BY <1>4, LimitersCheck
<1>5. ASSUME NEW t \in Threads,
             \/ ReadCapacity(t) \/ ReadinessCached(t) \/ ReadinessStale(t)
             \/ ProbeWrite(t) \/ ProbeStore(t)
      PROVE  LimitersInv'
  <2>1. \E x : th' = [th EXCEPT ![t] = x] /\ x.pc # "check"
    BY <1>5 DEF ReadCapacity, ReadinessCached, ReadinessStale, ProbeWrite, ProbeStore, Answer
  <2>2. UNCHANGED gateVars /\ now' = now
    BY <1>5 DEF ReadCapacity, ReadinessCached, ReadinessStale, ProbeWrite, ProbeStore
  <2>3. PICK x : th' = [th EXCEPT ![t] = x] /\ x.pc # "check"
    BY <2>1
  <2>4. \A y \in Threads : th'[y] = IF y = t THEN x ELSE th[y]
    BY <1>1, <2>3
  <2>5. th' = [y \in Threads |-> th'[y]]
    BY <1>1, <2>3
  <2>6. \A y \in Threads : th'[y].pc = "check" => th'[y] = th[y]
    BY <2>3, <2>4
  <2> QED
    BY <1>1, <2>2, <2>5, <2>6, LimitersQuiet
<1>6. CASE Fill \/ DiskChanges \/ Tick
  <2>1. UNCHANGED gateVars /\ th' = th /\ now' \in Int /\ now <= now'
    BY <1>1, <1>6 DEF Fill, DiskChanges, Tick
  <2> QED
    BY <1>1, <2>1, LimitersQuiet
<1>7. CASE Restart
  <2>1. /\ th' = [t \in Threads |-> Idle]
        /\ lim' = EmptyLimiters /\ now' = now
        /\ granted' = [l \in Limiters |-> [k \in Addresses |-> <<>>]]
        /\ promised' = [l \in Limiters |-> [k \in Addresses |-> None]]
    BY <1>7 DEF Restart
  <2>2. \A t \in Threads : ThreadInv(th'[t], now)
    BY <2>1 DEF ThreadInv, Idle
  <2>3. /\ th' = [t \in Threads |-> th'[t]]
        /\ lim' = [l \in Limiters |-> lim'[l]]
        /\ granted' = [l \in Limiters |-> granted'[l]]
        /\ promised' = [l \in Limiters |-> [k \in Addresses |-> promised'[l][k]]]
    BY <2>1 DEF EmptyLimiters
  <2>4. ASSUME NEW l \in Limiters
        PROVE  LimiterInv(lim'[l].table, granted'[l], promised'[l], Limit[l], now, Late(th'))
    <3>1. /\ lim'[l].table = <<>>
          /\ \A k \in Addresses : granted'[l][k] = <<>> /\ promised'[l][k] = None
      BY <2>1 DEF EmptyLimiters
    <3>2. Limit[l] \in Nat /\ Late(th') \in [Int -> Nat]
      BY GateAssumption, LateType
    <3>3. LimiterInv(<<>>, granted'[l], promised'[l], Limit[l], now, Late(th'))
      BY <1>1, <3>1, <3>2, LimiterEmpty
    <3> QED
      BY <3>1, <3>3
  <2> QED
    BY <1>1, <2>1, <2>2, <2>3, <2>4 DEF LimitersInv
<1> QED
  BY <1>2, <1>3, <1>4, <1>5, <1>6, <1>7 DEF Next

(* The invariant of the limiters holds in every state.                     *)
THEOREM GateInvariant == Spec => []LimitersInv
<1>1. LimitersInv /\ [Next]_vars => LimitersInv'
  BY LimitersStep
<1> QED
  BY <1>1, LimitersInit, PTL DEF Spec

-----------------------------------------------------------------------------
(* A caller that stays tracked never gets more than the limit into a       *)
(* window, and one for each other thread that read the clock before the    *)
(* window was left behind.                                                 *)
THEOREM WindowLimitHolds == Spec => []WindowLimit
<1>1. LimitersInv => WindowLimit
  <2>1. SUFFICES ASSUME LimitersInv, NEW l \in Limiters, NEW k \in Addresses, Limit[l] > 0,
                        NEW i \in DOMAIN granted[l][k]
                 PROVE  InWindow(granted[l][k], granted[l][k][i])
                            <= Limit[l] + Cardinality(Threads) - 1
    BY DEF WindowLimit
  <2>2. PICK g, ev, limit, late :
            /\ g = granted[l][k] /\ ev = Bucket(lim[l].table, k)
            /\ limit = Limit[l] /\ late = Late(th)
    OBVIOUS
  <2>3. /\ Table(lim[l].table)
        /\ BucketInv(ev, g, promised[l][k], limit, now, late)
    BY <2>1, <2>2 DEF LimitersInv, LimiterInv
  <2>4. g \in Seq(Int) /\ Len(ev) <= limit
        /\ \A e \in Int : Accounted(g, ev, limit, e, now, late[e])
    BY <2>1, <2>2, <2>3 DEF BucketInv
  <2>5. PICK e \in Int : e = g[i]
    <3>1. g[i] \in Int
      BY <2>1, <2>2, <2>4, LenProperties, ElementOfSeq
    <3> QED
      BY <3>1
  <2>6. limit \in Nat /\ late[e] \in Nat /\ ev \in Seq(Int)
    BY <2>2, <2>3, LateType, GateAssumption, BucketType
  <2>7. /\ InWindow(g, e) \in Nat /\ InWindow(ev, e) \in Nat /\ InWindow(ev, e) <= Len(ev)
        /\ Len(ev) \in Nat
    BY <2>4, <2>6, InsideFinite, LenProperties
  <2>8. Cardinality(Threads) \in Nat /\ Cardinality(Threads) # 0
    BY GateAssumption, FS_CardinalityType, FS_EmptySet
  <2>9. Accounted(g, ev, limit, e, now, late[e])
    BY <2>4
  <2>10. InWindow(g, e) <= limit + Cardinality(Threads) - 1
    BY <2>4, <2>6, <2>7, <2>8, <2>9 DEF Accounted
  <2> QED
    BY <2>2, <2>5, <2>10
<1> QED
  BY <1>1, GateInvariant, PTL

(* Who waits as long as Retry-After said finds room in its bucket.         *)
THEOREM RetryAfterHolds == Spec => []RetryAfterSuffices
<1>1. LimitersInv => RetryAfterSuffices
  <2>1. SUFFICES ASSUME LimitersInv, NEW l \in Limiters, NEW k \in Addresses,
                        promised[l][k] # None, promised[l][k] <= now
                 PROVE  Len(Expire(Bucket(lim[l].table, k), now - Window)) < Limit[l]
    BY DEF RetryAfterSuffices
  <2>2. /\ now \in Int
        /\ Table(lim[l].table)
        /\ BucketInv(Bucket(lim[l].table, k), granted[l][k], promised[l][k], Limit[l],
                     now, Late(th))
    BY <2>1 DEF LimitersInv, LimiterInv
  <2>3. /\ promised[l][k] \in Int
        /\ Honoured(Bucket(lim[l].table, k), Limit[l], promised[l][k])
        /\ Len(Bucket(lim[l].table, k)) <= Limit[l]
    BY <2>1, <2>2 DEF BucketInv
  <2>4. Limit[l] \in Nat /\ Bucket(lim[l].table, k) \in Seq(Int)
    BY <2>2, GateAssumption, BucketType
  <2> QED
    BY <2>1, <2>2, <2>3, <2>4, HonouredMeansRoom
<1> QED
  BY <1>1, GateInvariant, PTL

(* A caller with a request in the window is forgotten only for a table of  *)
(* callers each of whom has one, too.                                      *)
Lives(table, key, time) ==
    \E i \in DOMAIN Bucket(table, key) : Bucket(table, key)[i] > time - Window

THEOREM ForgetsOnlyFull == Spec => ForgetsOnlyWhenFull
<1>1. ASSUME LimitersInv, [Next]_vars, NEW t \in Threads, NEW l \in Limiters,
             NEW k \in Addresses, th[t].pc = "check", th'[t] = Idle,
             lim'[l].table # <<>>, Lives(lim[l].table, k, now), ~Tracks(lim'[l].table, k)
      PROVE  /\ Len(lim'[l].table) = MaxKeys
             /\ \A i \in 1..(MaxKeys - 1) :
                    Lives(lim'[l].table, lim'[l].table[i].key, th[t].reading)
  <2>1. lim'[l] # lim[l]
    <3>1. Tracks(lim[l].table, k)
      <4>1. Bucket(lim[l].table, k) # <<>>
        BY <1>1 DEF Lives
      <4> QED
        BY <4>1, BucketOfNone
    <3> QED
      BY <1>1, <3>1
  <2>2. DOMAIN lim = Limiters /\ DOMAIN th = Threads
    BY <1>1 DEF LimitersInv
  <2>3. Check(t)
    <3>1. ~Restart
      BY <1>1 DEF Restart, EmptyLimiters
    <3>2. \E x \in Threads : Check(x)
      BY <1>1, <2>1, <3>1 DEF Next, vars, gateVars, Arrive, ReadCapacity, ReadinessCached,
         ReadinessStale, ProbeWrite, ProbeStore, Fill, DiskChanges, Tick
    <3>3. PICK x \in Threads : Check(x)
      BY <3>2
    <3>4. th'[t] # th[t]
      BY <1>1 DEF Idle
    <3>5. x = t
      BY <2>2, <3>3, <3>4 DEF Check
    <3> QED
      BY <3>3, <3>5
  <2>4. Limit[th[t].limiter] # 0
    BY <2>1, <2>3 DEF Check, gateVars
  <2>5. PICK swept, ev : CheckOutcome(t, swept, ev)
    BY <1>1, <2>3, <2>4, CheckDoes
  <2>6. PICK key, r : key = th[t].key /\ r = th[t].reading
    OBVIOUS
  <2>7. l = th[t].limiter
    BY <1>1, <2>1, <2>2, <2>5 DEF CheckOutcome
  <2>8. key \in Addresses /\ r \in Int /\ r <= now /\ now \in Int
    BY <1>1, <2>6 DEF LimitersInv, ThreadInv
  <2>9. PICK c, fv, old : c = r - Window /\ fv = After(ev, Limit[l], r) /\ old = lim[l].table
    OBVIOUS
  <2>10. /\ Swept(old, key, c, swept)
         /\ ev = Bucket(swept, key)
         /\ lim'[l].table = Stored(swept, key, fv)
    BY <2>5, <2>6, <2>7, <2>9 DEF CheckOutcome
  <2>11. Table(old) /\ Len(old) <= MaxKeys
    BY <1>1, <2>9 DEF LimitersInv, LimiterInv
  <2>12. c \in Int
    BY <2>8, <2>9, GateAssumption
  <2>13. /\ Table(swept)
         /\ Follows(swept, old, k, c)
         /\ Tracks(swept, k) <=> Bucket(swept, k) # <<>>
    BY <2>8, <2>10, <2>11, <2>12, SweptFacts
  <2>14. Tracks(swept, k)
    <3>1. Bucket(old, k) \in Seq(Int) /\ DOMAIN Bucket(old, k) = 1..Len(Bucket(old, k))
      BY <2>11, BucketType, LenProperties
    <3>2. PICK i \in 1..Len(Bucket(old, k)) : Bucket(old, k)[i] > now - Window
      BY <1>1, <2>9, <3>1 DEF Lives
    <3>3. Bucket(old, k)[i] > c
      <4>1. Bucket(old, k)[i] \in Int /\ Window \in Int
        BY <3>1, <3>2, ElementOfSeq, GateAssumption
      <4> QED
        BY <2>8, <2>9, <3>2, <4>1
    <3>4. Expire(Bucket(old, k), c) # <<>>
      BY <2>12, <3>1, <3>3, ExpireFacts
    <3>5. Bucket(old, k) # <<>>
      <4>1. Len(Bucket(old, k)) # 0
        BY <3>1, <3>2, LenProperties
      <4> QED
        BY <4>1
    <3> QED
      BY <2>13, <3>4, <3>5 DEF Follows
  <2>15. fv \in Seq(Int)
    <3>1. ev \in Seq(Int)
      BY <2>10, <2>13, BucketType
    <3> QED
      BY <2>8, <2>9, <3>1, AppendProperties DEF After
  <2>16. ~Tracks(Stored(swept, key, fv), k)
    BY <1>1, <2>10
  <2>17. /\ Len(Stored(swept, key, fv)) = MaxKeys
         /\ \A i \in 1..(MaxKeys - 1) :
                FirstIsLive(Stored(swept, key, fv), Stored(swept, key, fv)[i].key, c)
    BY <2>8, <2>10, <2>11, <2>12, <2>14, <2>15, <2>16, StoredFacts
  <2> QED
    BY <2>6, <2>9, <2>10, <2>17 DEF FirstIsLive, Lives
<1>2. LimitersInv /\ [Next]_vars =>
          [\A t \in Threads, l \in Limiters, k \in Addresses :
              LET live(table, key, time) ==
                      \E i \in DOMAIN Bucket(table, key) :
                          Bucket(table, key)[i] > time - Window
              IN /\ th[t].pc = "check" /\ th'[t] = Idle
                 /\ lim'[l].table # <<>>
                 /\ live(lim[l].table, k, now) /\ ~Tracks(lim'[l].table, k)
                 => /\ Len(lim'[l].table) = MaxKeys
                    /\ \A i \in 1..(MaxKeys - 1) :
                           live(lim'[l].table, lim'[l].table[i].key, th[t].reading)]_vars
  BY <1>1 DEF Lives
<1> QED
  BY <1>2, GateInvariant, PTL DEF Spec, ForgetsOnlyWhenFull

-----------------------------------------------------------------------------
(* The readiness probe: the disk is not known to have failed before the    *)
(* reading that dates what a probe found.                                  *)
Since(time) == brokenAt = None \/ brokenAt >= time

ProberInv(x) ==
    /\ x.pc = "readiness" => x.accepting \in BOOLEAN
    /\ x.pc \in {"probe", "probed"} =>
           x.accepting \in BOOLEAN /\ x.reading \in Int /\ x.reading <= now
    /\ x.pc = "probed" => x.ready \in BOOLEAN /\ (x.ready => Since(x.reading))
    /\ x.pc = "idle" /\ x.ready = TRUE =>
           /\ x.at \in Int /\ x.at <= now
           /\ brokenAt # None => brokenAt > x.at - ProbeInterval \/ brokenAt >= x.at

ProbeInv ==
    /\ now \in Int
    /\ th = [t \in Threads |-> th[t]]
    /\ accepting \in BOOLEAN
    /\ writable \in BOOLEAN
    /\ writable => brokenAt = None
    /\ brokenAt # None => brokenAt \in Int /\ brokenAt <= now
    /\ probe # None => /\ probe.ready \in BOOLEAN
                       /\ probe.checkedAt \in Int
                       /\ probe.checkedAt <= now
                       /\ probe.ready => Since(probe.checkedAt)
    /\ \A t \in Threads : ProberInv(th[t])

LEMMA ProbeInit == Init => ProbeInv
<1>1. None # TRUE
  BY GateAssumption
<1>2. ProberInv(Idle)
  BY <1>1 DEF ProberInv, Idle
<1>3. ASSUME Init
      PROVE  /\ th = [t \in Threads |-> th[t]]
             /\ \A t \in Threads : th[t] = Idle
  BY <1>3 DEF Init
<1>4. ASSUME Init
      PROVE  \A t \in Threads : ProberInv(th[t])
  BY <1>2, <1>3, <1>4
<1>5. Init => now \in Int /\ accepting \in BOOLEAN /\ writable \in BOOLEAN
              /\ brokenAt = None /\ probe = None
  BY DEF Init
<1> QED
  BY <1>3, <1>4, <1>5 DEF ProbeInv

LEMMA ProbeStep ==
    ASSUME ProbeInv, [Next]_vars
    PROVE  ProbeInv'
<1>1. ProbeInv /\ None \notin BOOLEAN /\ ProbeInterval \in Nat
  BY GateAssumption
<1>2. CASE UNCHANGED vars
  BY <1>1, <1>2 DEF vars, gateVars, probeVars, ProbeInv, ProberInv, Since
<1>3. ASSUME NEW t \in Threads,
             \/ /\ UNCHANGED <<now, probeVars>>
             \/ /\ UNCHANGED <<now, accepting, writable, brokenAt>>
                /\ probe' # None => /\ probe'.ready \in BOOLEAN
                                    /\ probe'.checkedAt \in Int
                                    /\ probe'.checkedAt <= now
                                    /\ probe'.ready => Since(probe'.checkedAt),
             NEW x, th' = [th EXCEPT ![t] = x], ProberInv(x)
      PROVE  ProbeInv'
  BY <1>1, <1>3 DEF probeVars, ProbeInv, ProberInv, Since
<1>4. ASSUME NEW t \in Threads, NEW remote \in Addresses,
             NEW forwarded \in Addresses \cup {None}, NEW supplied \in Tokens \cup {None},
             Arrive(t, remote, forwarded, supplied)
      PROVE  ProbeInv'
  <2>1. PICK x : x = [pc |-> "check", key |-> Identity(remote, forwarded), reading |-> now,
                      limiter |-> IF Authorized(supplied) THEN "requests" ELSE "auth_failures"]
    OBVIOUS
  <2>2. /\ th' = [th EXCEPT ![t] = x] /\ x.pc = "check"
        /\ UNCHANGED <<now, probeVars>>
    BY <1>4, <2>1 DEF Arrive
  <2>3. ProberInv(x)
    BY <2>2 DEF ProberInv
  <2> QED
    BY <1>3, <2>2, <2>3
<1>5. ASSUME NEW t \in Threads, Check(t)
      PROVE  ProbeInv'
  <2>1. ProberInv(Idle)
    BY <1>1 DEF ProberInv, Idle
  <2>2. th' = [th EXCEPT ![t] = Idle] /\ UNCHANGED <<now, probeVars>>
    BY <1>5 DEF Check
  <2> QED
    BY <1>3, <2>1, <2>2
<1>6. ASSUME NEW t \in Threads, ReadCapacity(t)
      PROVE  ProbeInv'
  <2>1. PICK x : x = [pc |-> "readiness", accepting |-> accepting]
    OBVIOUS
  <2>2. th' = [th EXCEPT ![t] = x] /\ UNCHANGED <<now, probeVars>>
    BY <1>6, <2>1 DEF ReadCapacity
  <2>3. ProberInv(x)
    BY <1>1, <2>1 DEF ProbeInv, ProberInv
  <2> QED
    BY <1>3, <2>2, <2>3
<1>7. ASSUME NEW t \in Threads, ReadinessCached(t)
      PROVE  ProbeInv'
  <2>1. PICK x : x = [pc |-> "idle", ready |-> probe.ready /\ th[t].accepting, at |-> now]
    OBVIOUS
  <2>2. th' = [th EXCEPT ![t] = x] /\ UNCHANGED <<now, probeVars>>
    BY <1>7, <2>1 DEF ReadinessCached, Answer
  <2>3. probe # None /\ now - probe.checkedAt < ProbeInterval
    BY <1>7 DEF ReadinessCached, Recent
  <2>4. ProberInv(x)
    <3>1. x.pc = "idle" /\ x.at = now /\ (x.ready = TRUE => probe.ready)
      BY <2>1
    <3>2. /\ now \in Int /\ probe.checkedAt \in Int
          /\ probe.ready => Since(probe.checkedAt)
          /\ brokenAt # None => brokenAt \in Int
      BY <1>1, <2>3 DEF ProbeInv
    <3> QED
      BY <1>1, <2>3, <3>1, <3>2 DEF ProberInv, Since
  <2> QED
    BY <1>3, <2>2, <2>4
<1>8. ASSUME NEW t \in Threads, ReadinessStale(t)
      PROVE  ProbeInv'
  <2>1. PICK x : x = [pc |-> "probe", accepting |-> th[t].accepting, reading |-> now]
    OBVIOUS
  <2>2. th' = [th EXCEPT ![t] = x] /\ UNCHANGED <<now, probeVars>>
    BY <1>8, <2>1 DEF ReadinessStale
  <2>3. ProberInv(x)
    BY <1>1, <1>8, <2>1 DEF ReadinessStale, ProbeInv, ProberInv
  <2> QED
    BY <1>3, <2>2, <2>3
<1>9. ASSUME NEW t \in Threads, ProbeWrite(t)
      PROVE  ProbeInv'
  <2>1. PICK x : x = [pc |-> "probed", accepting |-> th[t].accepting,
                      reading |-> th[t].reading, ready |-> writable]
    OBVIOUS
  <2>2. th' = [th EXCEPT ![t] = x] /\ UNCHANGED <<now, probeVars>>
    BY <1>9, <2>1 DEF ProbeWrite
  <2>3. ProberInv(x)
    BY <1>1, <1>9, <2>1 DEF ProbeWrite, ProbeInv, ProberInv, Since
  <2> QED
    BY <1>3, <2>2, <2>3
<1>10. ASSUME NEW t \in Threads, ProbeStore(t)
       PROVE  ProbeInv'
  <2>1. PICK x : x = [pc |-> "idle", ready |-> th[t].ready /\ th[t].accepting,
                      at |-> th[t].reading]
    OBVIOUS
  <2>2. /\ th' = [th EXCEPT ![t] = x]
        /\ UNCHANGED <<now, accepting, writable, brokenAt>>
        /\ probe' = [ready |-> th[t].ready, checkedAt |-> th[t].reading]
    BY <1>10, <2>1 DEF ProbeStore, Answer
  <2>3. /\ th[t].ready \in BOOLEAN /\ th[t].reading \in Int /\ th[t].reading <= now
        /\ th[t].ready => Since(th[t].reading)
    BY <1>1, <1>10 DEF ProbeStore, ProbeInv, ProberInv
  <2>4. ProberInv(x)
    <3>1. x.pc = "idle" /\ x.at = th[t].reading /\ (x.ready = TRUE => th[t].ready)
      BY <2>1
    <3> QED
      BY <1>1, <2>3, <3>1 DEF ProberInv, Since
  <2>5. /\ probe'.ready \in BOOLEAN
        /\ probe'.checkedAt \in Int
        /\ probe'.checkedAt <= now
        /\ probe'.ready => Since(probe'.checkedAt)
    BY <2>2, <2>3
  <2> QED
    BY <1>3, <2>2, <2>4, <2>5
<1>11. CASE Fill
  BY <1>1, <1>11 DEF Fill, gateVars, ProbeInv, ProberInv, Since
<1>12. CASE DiskChanges
  <2>1. /\ writable' = ~writable
        /\ brokenAt' = IF writable THEN now ELSE None
        /\ UNCHANGED <<now, probe, accepting, th>>
    BY <1>12 DEF DiskChanges
  <2>2. /\ now \in Int /\ writable \in BOOLEAN
        /\ probe # None => probe.ready \in BOOLEAN /\ probe.checkedAt \in Int
        /\ \A t \in Threads : ProberInv(th[t])
    BY DEF ProbeInv
  <2>3. brokenAt' = None \/ brokenAt' = now
    BY <2>1
  <2>4. writable' \in BOOLEAN /\ (writable' => brokenAt' = None)
    BY <2>1, <2>2
  <2>5. probe # None => probe.checkedAt <= now
    BY DEF ProbeInv
  <2>6. (probe # None /\ probe.ready => Since(probe.checkedAt))'
    BY <2>1, <2>2, <2>3, <2>5 DEF Since
  <2>7. ASSUME NEW t \in Threads
        PROVE  ProberInv(th[t])'
    BY <2>1, <2>2, <2>3 DEF ProberInv, Since
  <2> QED
    BY <1>1, <2>1, <2>2, <2>3, <2>4, <2>5, <2>6, <2>7 DEF ProbeInv
<1>13. CASE Tick
  <2>1. now' = now + 1 /\ UNCHANGED <<probe, accepting, writable, brokenAt, th>>
    BY <1>13 DEF Tick, probeVars
  <2> QED
    BY <1>1, <2>1 DEF ProbeInv, ProberInv, Since
<1>14. CASE Restart
  <2>1. /\ probe' = None /\ th' = [t \in Threads |-> Idle]
        /\ UNCHANGED <<now, accepting, writable, brokenAt>>
    BY <1>14 DEF Restart
  <2> QED
    BY <1>1, <2>1 DEF ProbeInv, ProberInv, Since, Idle
<1> QED
  BY <1>2, <1>4, <1>5, <1>6, <1>7, <1>8, <1>9, <1>10, <1>11, <1>12, <1>13, <1>14 DEF Next

(* "ready" is answered only of a store that could be written at some       *)
(* moment of the probe interval before the answer's clock reading, or      *)
(* after it.                                                               *)
THEOREM ReadyHolds == Spec => []ReadyIsRecent
<1>1. ProbeInv /\ [Next]_vars => ProbeInv'
  BY ProbeStep
<1>2. ProbeInv => ReadyIsRecent
  BY DEF ProbeInv, ProberInv, ReadyIsRecent
<1> QED
  BY <1>1, <1>2, ProbeInit, PTL DEF Spec
=============================================================================
