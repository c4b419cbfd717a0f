------------------------- MODULE CacheListsProofs -------------------------
(***************************************************************************)
(* What the list operators of CacheLists return, for every list without    *)
(* duplicates: the lemmas that the proofs about the cache and about its    *)
(* user share.                                                             *)
(***************************************************************************)
EXTENDS CacheLists, WellFoundedInduction, FiniteSetTheorems, TLAPS

\* A nonempty set of positions has an oldest one.
LEMMA LeastElement ==
    ASSUME NEW S \in SUBSET Nat, S # {}
    PROVE  \E m \in S : \A j \in S : m <= j
<1>1. \E x \in S : \A y \in S : <<y, x>> \notin OpToRel(<, Nat)
  <2>1. IsWellFoundedOn(OpToRel(<, Nat), Nat)
    BY NatLessThanWellFounded
  <2> DEFINE R == OpToRel(<, Nat)
  <2> HIDE DEF R
  <2>2. IsWellFoundedOn(R, Nat)
    BY <2>1 DEF R
  <2>3. \E x \in S : \A y \in S : ~(<<y, x>> \in R)
    BY <2>2, WFMin
  <2> QED
    BY <2>3 DEF R
<1>2. \A x, y \in Nat : y < x => <<y, x>> \in OpToRel(<, Nat)
  BY DEF OpToRel
<1>3. PICK x \in S : \A y \in S : <<y, x>> \notin OpToRel(<, Nat)
  BY <1>1
<1>4. \A y \in S : ~(y < x)
  BY <1>2, <1>3
<1>5. \A y \in S : x <= y
  BY <1>4
<1> QED
  BY <1>5

\* Removing one position of a list without duplicates removes that record only
\* (list::erase in both Remove functions).
LEMMA DropAtFacts ==
    ASSUME NEW s \in Seq(Records), NoDuplicates(s), NEW i \in DOMAIN s
    PROVE  /\ DropAt(s, i) \in Seq(Records)
           /\ Len(DropAt(s, i)) = Len(s) - 1
           /\ NoDuplicates(DropAt(s, i))
           /\ InCache(DropAt(s, i)) = InCache(s) \ {s[i]}
<1> DEFINE d == DropAt(s, i)
<1>1. /\ Len(s) \in Nat
      /\ DOMAIN s = 1..Len(s)
      /\ i \in 1..Len(s)
      /\ \A j \in 1..Len(s) : s[j] \in Records
  OBVIOUS
<1>2. /\ d \in Seq(Records)
      /\ Len(d) = Len(s) - 1
      /\ DOMAIN d = 1..(Len(s) - 1)
      /\ \A j \in 1..(Len(s) - 1) : d[j] = IF j < i THEN s[j] ELSE s[j + 1]
  BY <1>1 DEF DropAt
<1>3. NoDuplicates(d)
  BY <1>1, <1>2 DEF NoDuplicates
<1>4. InCache(d) \subseteq InCache(s) \ {s[i]}
  BY <1>1, <1>2, SMTT(60) DEF InCache, NoDuplicates
<1>5. ASSUME NEW j \in 1..Len(s), j # i
      PROVE  s[j] \in InCache(d)
  <2>1. CASE j < i
    BY <2>1, <1>1, <1>2 DEF InCache
  <2>2. CASE j > i
    <3>1. j - 1 \in 1..(Len(s) - 1) /\ d[j - 1] = s[j]
      BY <2>2, <1>1, <1>2
    <3> QED
      BY <3>1, <1>2 DEF InCache
  <2> QED
    BY <2>1, <2>2, <1>1, <1>5
<1>6. InCache(s) \ {s[i]} \subseteq InCache(d)
  BY <1>1, <1>5 DEF InCache
<1> QED
  BY <1>2, <1>3, <1>4, <1>6

\* Drop removes a record by identity, and does nothing when it is not there.
LEMMA DropFacts ==
    ASSUME NEW s \in Seq(Records), NoDuplicates(s), NEW r
    PROVE  /\ Drop(s, r) \in Seq(Records)
           /\ NoDuplicates(Drop(s, r))
           /\ InCache(Drop(s, r)) = InCache(s) \ {r}
           /\ r \in InCache(s) => Len(Drop(s, r)) = Len(s) - 1
<1>1. CASE r \notin InCache(s)
  BY <1>1 DEF Drop
<1>2. CASE r \in InCache(s)
  <2> DEFINE i == CHOOSE x \in DOMAIN s : s[x] = r
  <2>1. i \in DOMAIN s /\ s[i] = r
    BY <1>2 DEF InCache
  <2>2. Drop(s, r) = DropAt(s, i)
    BY <1>2 DEF Drop
  <2> QED
    BY <2>1, <2>2, DropAtFacts
<1> QED
  BY <1>1, <1>2

\* push_back of a new record.
LEMMA AppendFacts ==
    ASSUME NEW s \in Seq(Records), NoDuplicates(s), NEW r \in Records, r \notin InCache(s)
    PROVE  /\ Append(s, r) \in Seq(Records)
           /\ NoDuplicates(Append(s, r))
           /\ InCache(Append(s, r)) = InCache(s) \cup {r}
           /\ Len(Append(s, r)) = Len(s) + 1
<1> DEFINE a == Append(s, r)
<1>1. /\ Len(s) \in Nat
      /\ DOMAIN s = 1..Len(s)
      /\ a \in Seq(Records)
      /\ Len(a) = Len(s) + 1
      /\ DOMAIN a = 1..(Len(s) + 1)
      /\ a[Len(s) + 1] = r
      /\ \A j \in 1..Len(s) : a[j] = s[j]
  OBVIOUS
<1>2. \A j \in 1..Len(s) : s[j] # r
  BY <1>1 DEF InCache
<1>3. NoDuplicates(a)
  BY <1>1, <1>2 DEF NoDuplicates
<1>4. InCache(a) = InCache(s) \cup {r}
  BY <1>1 DEF InCache
<1> QED
  BY <1>1, <1>3, <1>4

\* pop_front.
LEMMA TailFacts ==
    ASSUME NEW s \in Seq(Records), NoDuplicates(s), Len(s) > 0
    PROVE  /\ Head(s) \in InCache(s)
           /\ Tail(s) \in Seq(Records)
           /\ NoDuplicates(Tail(s))
           /\ InCache(Tail(s)) = InCache(s) \ {Head(s)}
           /\ Len(Tail(s)) = Len(s) - 1
<1>1. /\ Len(s) \in Nat
      /\ DOMAIN s = 1..Len(s)
      /\ 1 \in DOMAIN s
      /\ Head(s) = s[1]
      /\ Tail(s) \in Seq(Records)
      /\ Len(Tail(s)) = Len(s) - 1
      /\ DOMAIN Tail(s) = 1..(Len(s) - 1)
      /\ \A j \in 1..(Len(s) - 1) : Tail(s)[j] = s[j + 1]
  OBVIOUS
<1>2. /\ DropAt(s, 1) \in Seq(Records)
      /\ Len(DropAt(s, 1)) = Len(s) - 1
      /\ \A j \in 1..(Len(s) - 1) : DropAt(s, 1)[j] = s[j + 1]
  BY <1>1 DEF DropAt
<1>3. Tail(s) = DropAt(s, 1)
  BY <1>1, <1>2
<1>4. Head(s) \in InCache(s)
  BY <1>1 DEF InCache
<1> QED
  BY <1>1, <1>3, <1>4, DropAtFacts

\* The records of a set are taken out, all at once.
LEMMA WithoutFacts ==
    ASSUME NEW s \in Seq(Records), NoDuplicates(s), NEW R
    PROVE  /\ Without(s, R) \in Seq(Records)
           /\ NoDuplicates(Without(s, R))
           /\ InCache(Without(s, R)) = InCache(s) \ R
<1> DEFINE kept == {i \in DOMAIN s : s[i] \notin R}
           Upto(m) == {x \in kept : x <= m}
           c == Cardinality(kept)
           rank == [i \in kept |-> Cardinality(Upto(i))]
           At(n) == CHOOSE i \in kept : Cardinality(Upto(i)) = n
           w == Without(s, R)
<1>1. Len(s) \in Nat /\ DOMAIN s = 1..Len(s) /\ kept \subseteq 1..Len(s)
  OBVIOUS
<1>2. IsFiniteSet(kept) /\ c \in Nat /\ kept \subseteq Nat
  <2>1. 1 \in Int /\ Len(s) \in Int
    BY <1>1
  <2>2. IsFiniteSet(1..Len(s))
    BY <2>1, FS_Interval
  <2>3. IsFiniteSet(kept)
    <3> HIDE DEF kept
    <3> QED BY <1>1, <2>2, FS_Subset
  <2>4. c \in Nat
    <3> HIDE DEF kept
    <3> QED BY <2>3, FS_CardinalityType
  <2> QED BY <1>1, <2>3, <2>4
<1>3. w = [n \in 1..c |-> s[At(n)]]
  BY DEF Without
<1> HIDE DEF kept, w
<1>4. ASSUME NEW i \in kept
      PROVE  /\ IsFiniteSet(Upto(i)) /\ Upto(i) \subseteq kept
             /\ rank[i] = Cardinality(Upto(i)) /\ rank[i] \in 1..c
  <2>1. Upto(i) \subseteq kept /\ i \in Upto(i)
    BY <1>2
  <2>2. rank[i] = Cardinality(Upto(i))
    OBVIOUS
  <2> HIDE DEF Upto
  <2>3. IsFiniteSet(Upto(i)) /\ Cardinality(Upto(i)) <= c
    BY <1>2, <2>1, FS_Subset
  <2>4. Cardinality(Upto(i)) \in Nat
    BY <2>3, FS_CardinalityType
  <2>5. Cardinality(Upto(i)) # 0
    BY <2>1, <2>3, FS_EmptySet
  <2> QED BY <1>2, <2>1, <2>2, <2>3, <2>4, <2>5
<1>5. ASSUME NEW i \in kept, NEW j \in kept, i < j
      PROVE  rank[i] # rank[j]
  <2>1. Upto(i) \subseteq Upto(j) /\ j \in Upto(j) /\ j \notin Upto(i)
    <3>1. i \in Nat /\ j \in Nat /\ \A k \in kept : k \in Nat
      BY <1>2
    <3>2. \A k \in kept : k <= i => k <= j
      BY <1>5, <3>1
    <3>3. j <= j /\ ~(j <= i)
      BY <1>5, <3>1
    <3>4. j \in Upto(j) /\ j \notin Upto(i)
      BY <3>3
    <3>5. Upto(i) \subseteq Upto(j)
      BY <3>2
    <3> QED BY <3>4, <3>5
  <2>2. IsFiniteSet(Upto(j)) /\ rank[i] = Cardinality(Upto(i)) /\ rank[j] = Cardinality(Upto(j))
    BY <1>4
  <2> HIDE DEF Upto, rank
  <2>3. Cardinality(Upto(j)) = Cardinality(Upto(i)) => Upto(j) = Upto(i)
    BY <2>1, <2>2, FS_Subset
  <2> QED BY <2>1, <2>2, <2>3
<1>6. ASSUME NEW i \in kept, NEW j \in kept, rank[i] = rank[j]
      PROVE  i = j
  <2>1. i < j \/ j < i \/ i = j
    BY <1>2
  <2> HIDE DEF rank
  <2> QED BY <1>5, <1>6, <2>1
<1>7. rank \in [kept -> 1..c]
  BY <1>4
<1>8. \A n \in 1..c : At(n) \in kept /\ rank[At(n)] = n
  <2>1. 1 \in Int /\ c \in Int
    BY <1>2
  <2>2. IsFiniteSet(1..c) /\ Cardinality(1..c) = c
    <3>1. IsFiniteSet(1..c) /\ Cardinality(1..c) = IF 1 > c THEN 0 ELSE c - 1 + 1
      BY <2>1, FS_Interval
    <3> QED BY <1>2, <3>1
  <2> HIDE DEF rank
  <2>3. rank \in Injection(kept, 1..c)
    BY <1>6, <1>7 DEF Injection, IsInjective
  <2>4. rank \in Surjection(kept, 1..c)
    BY <2>2, <2>3, FS_Injection
  <2>5. \A n \in 1..c : \E i \in kept : rank[i] = n
    BY <2>4 DEF Surjection
  <2>6. \A i \in kept : rank[i] = Cardinality(Upto(i))
    BY <1>4
  <2> HIDE DEF Upto
  <2>7. \A n \in 1..c : \E i \in kept : Cardinality(Upto(i)) = n
    BY <2>5, <2>6
  <2>8. \A n \in 1..c : At(n) \in kept /\ Cardinality(Upto(At(n))) = n
    BY <2>7
  <2> QED BY <2>6, <2>8
<1> HIDE DEF At, rank
<1>9. /\ DOMAIN w = 1..c /\ \A n \in 1..c : w[n] = s[At(n)]
      /\ \A n \in 1..c : At(n) \in DOMAIN s /\ s[At(n)] \in Records /\ s[At(n)] \notin R
  <2>1. DOMAIN w = 1..c /\ \A n \in 1..c : w[n] = s[At(n)]
    BY <1>3
  <2>2. \A i \in kept : i \in DOMAIN s /\ s[i] \in Records /\ s[i] \notin R
    BY DEF kept
  <2> QED BY <2>1, <2>2, <1>8
<1> HIDE DEF c
<1>10. w \in Seq(Records)
  <2>1. w = [n \in 1..c |-> s[At(n)]]
    BY <1>3
  <2>2. c \in Nat
    BY <1>2 DEF c
  <2> QED BY <2>1, <2>2, <1>9
<1>11. NoDuplicates(w)
  <2> SUFFICES ASSUME NEW m \in 1..c, NEW n \in 1..c, w[m] = w[n] PROVE m = n
    BY <1>9 DEF NoDuplicates
  <2>1. s[At(m)] = s[At(n)] /\ At(m) \in DOMAIN s /\ At(n) \in DOMAIN s
    BY <1>9
  <2>2. At(m) = At(n)
    BY <2>1 DEF NoDuplicates
  <2> QED BY <1>8, <2>2
<1>12. InCache(w) = InCache(s) \ R
  <2>1. ASSUME NEW x \in InCache(w) PROVE x \in InCache(s) \ R
    <3>1. PICK n \in 1..c : w[n] = x
      BY <1>9, <2>1 DEF InCache
    <3> QED BY <3>1, <1>9 DEF InCache
  <2>2. ASSUME NEW x \in InCache(s), x \notin R PROVE x \in InCache(w)
    <3>1. PICK i \in DOMAIN s : s[i] = x
      BY <2>2 DEF InCache
    <3>2. i \in kept
      BY <2>2, <3>1 DEF kept
    <3>3. rank[i] \in 1..c
      BY <1>7, <3>2
    <3>4. At(rank[i]) = i
      BY <1>6, <1>8, <3>2, <3>3
    <3> QED BY <1>9, <3>1, <3>3, <3>4 DEF InCache
  <2> QED BY <2>1, <2>2
<1> QED BY <1>10, <1>11, <1>12 DEF w

\* At most one record is displaced, a cached one.
LEMMA DisplacedFacts ==
    ASSUME NEW s \in Seq(Records), NEW r \in Records
    PROVE  /\ Displaced(s, r) \subseteq InCache(s)
           /\ Displaced(s, r) = {} \/ \E x : Displaced(s, r) = {x}
<1> DEFINE own == OfToken(s, TokenOf[r])
<1>1. /\ Len(s) \in Nat /\ DOMAIN s = 1..Len(s) /\ own \subseteq DOMAIN s
      /\ devCapacity \in Nat /\ devCapacity > 0 /\ procCapacity \in Nat /\ procCapacity > 0
  BY CacheConstants DEF OfToken
<1>2. CASE Cardinality(own) >= procCapacity
  <2>1. own # {}
    <3>1. Cardinality({}) = 0
      BY FS_EmptySet
    <3> HIDE DEF own
    <3>2. own = {} => Cardinality(own) = 0
      BY <3>1, Zenon
    <3> QED BY <1>1, <1>2, <3>2
  <2>2. own \in SUBSET Nat
    BY <1>1
  <2> HIDE DEF own
  <2>3. \E k \in own : \A j \in own : k <= j
    BY <2>1, <2>2, LeastElement
  <2>4. OldestIndex(own) \in own
    BY <2>3 DEF OldestIndex
  <2>5. Displaced(s, r) = {s[OldestIndex(own)]}
    BY <1>2 DEF Displaced, own
  <2> QED BY <1>1, <2>4, <2>5 DEF InCache
<1>3. CASE ~(Cardinality(own) >= procCapacity) /\ Len(s) >= devCapacity
  <2>1. Displaced(s, r) = {s[1]} /\ 1 \in DOMAIN s
    BY <1>1, <1>3 DEF Displaced
  <2> QED BY <2>1 DEF InCache
<1>4. CASE ~(Cardinality(own) >= procCapacity) /\ ~(Len(s) >= devCapacity)
  BY <1>4 DEF Displaced
<1> QED BY <1>2, <1>3, <1>4

LEMMA WithRecordFacts ==
    ASSUME NEW s \in Seq(Records), NoDuplicates(s), NEW r \in Records, r \notin InCache(s)
    PROVE  /\ WithRecord(s, r) \in Seq(Records)
           /\ NoDuplicates(WithRecord(s, r))
           /\ InCache(WithRecord(s, r)) = (InCache(s) \ Displaced(s, r)) \cup {r}
<1>1. CASE Displaced(s, r) = {}
  <2>1. WithRecord(s, r) = Append(s, r)
    BY <1>1 DEF WithRecord
  <2> QED BY <1>1, <2>1, AppendFacts
<1>2. ASSUME NEW x, Displaced(s, r) = {x}
      PROVE  /\ WithRecord(s, r) \in Seq(Records)
             /\ NoDuplicates(WithRecord(s, r))
             /\ InCache(WithRecord(s, r)) = (InCache(s) \ Displaced(s, r)) \cup {r}
  <2>1. Displaced(s, r) # {} /\ (CHOOSE y \in Displaced(s, r) : TRUE) = x
    BY <1>2
  <2>2. WithRecord(s, r) = Append(Drop(s, x), r)
    BY <2>1 DEF WithRecord
  <2>3. Drop(s, x) \in Seq(Records) /\ NoDuplicates(Drop(s, x)) /\ InCache(Drop(s, x)) = InCache(s) \ {x}
    BY DropFacts
  <2>4. r \notin InCache(Drop(s, x))
    BY <2>3
  <2> QED BY <1>2, <2>2, <2>3, <2>4, AppendFacts
<1> QED BY <1>1, <1>2, DisplacedFacts
=============================================================================
