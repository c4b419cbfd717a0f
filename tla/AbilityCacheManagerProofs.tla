--------------------- MODULE AbilityCacheManagerProofs ---------------------
(***************************************************************************)
(* Proofs about the extension cache, for every set of records and tokens   *)
(* and for all capacities: the two levels of lists and their counters      *)
(* agree, no capacity is exceeded, the two levels implement the one list   *)
(* of ExtensionCache, and no record is dropped in silence.  The inductive  *)
(* invariant is the conjunction of the three invariants that TLC checks;   *)
(* the refinement adds that the list of an access token has its records in *)
(* the order of the device list: only then is the front of the one the     *)
(* oldest of its token in the other.                                       *)
(***************************************************************************)
EXTENDS AbilityCacheManager, CacheListsProofs

\* A list with its counter: no record twice, and the counter is its length.
GoodList(l) ==
    /\ l \in [recList : Seq(Records), cnt : Nat]
    /\ NoDuplicates(l.recList)
    /\ l.cnt = Len(l.recList)

\* A map of such lists, each within procCapacity and of its own token.
GoodMap(map) ==
    /\ DOMAIN map \subseteq Tokens
    /\ \A t \in DOMAIN map :
          /\ GoodList(map[t])
          /\ map[t].cnt <= procCapacity
          /\ \A r \in InCache(map[t].recList) : TokenOf[r] = t

\* The records the map holds.
Held(map) == UNION {InCache(map[t].recList) : t \in DOMAIN map}

\* The map without the entry of token t.
Rest(map, t) == [u \in DOMAIN map \ {t} |-> map[u]]

-----------------------------------------------------------------------------
\* What a map holds is what one of its lists holds and what the others hold.
LEMMA HeldSplit ==
    ASSUME NEW map, NEW t \in DOMAIN map
    PROVE  Held(map) = InCache(map[t].recList) \cup Held(Rest(map, t))
<1> DEFINE rest == Rest(map, t)
<1>1. DOMAIN rest = DOMAIN map \ {t} /\ \A u \in DOMAIN rest : rest[u].recList = map[u].recList
  BY DEF Rest
<1>2. ASSUME NEW x \in Held(map) PROVE x \in InCache(map[t].recList) \cup Held(rest)
  BY <1>1, <1>2 DEF Held
<1>3. ASSUME NEW x \in InCache(map[t].recList) \cup Held(rest) PROVE x \in Held(map)
  BY <1>1, <1>3 DEF Held
<1> QED
  BY <1>2, <1>3

\* Removing a record from the lists of a map: it is held no more, and an entry
\* that is erased with its counter at zero held nothing else.
LEMMA RemoveProcFacts ==
    ASSUME NEW map, GoodMap(map), NEW r \in Records
    PROVE  /\ GoodMap(RemoveAbilityRecInProcList(map, r))
           /\ Held(RemoveAbilityRecInProcList(map, r)) = Held(map) \ {r}
<1> DEFINE t == TokenOf[r]
           new == RemoveAbilityRecInProcList(map, r)
<1>1. CASE t \notin DOMAIN map \/ r \notin InCache(map[t].recList)
  <2>1. new = map
    BY <1>1 DEF RemoveAbilityRecInProcList
  <2>2. r \notin Held(map)
    BY <1>1 DEF GoodMap, Held
  <2> QED
    BY <2>1, <2>2
<1>2. CASE t \in DOMAIN map /\ r \in InCache(map[t].recList)
  <2> DEFINE s == map[t].recList
  <2>1. /\ s \in Seq(Records)
        /\ NoDuplicates(s)
        /\ map[t].cnt = Len(s)
        /\ Len(s) \in Nat
        /\ Len(s) <= procCapacity
        /\ \A x \in InCache(s) : TokenOf[x] = t
    BY <1>2 DEF GoodMap, GoodList
  <2>2. /\ Drop(s, r) \in Seq(Records)
        /\ NoDuplicates(Drop(s, r))
        /\ InCache(Drop(s, r)) = InCache(s) \ {r}
        /\ Len(Drop(s, r)) = Len(s) - 1
    BY <1>2, <2>1, DropFacts
  <2>3. \A u \in DOMAIN map \ {t} : r \notin InCache(map[u].recList)
    BY DEF GoodMap
  <2>4. CASE map[t].cnt - 1 = 0
    <3>1. new = [u \in DOMAIN map \ {t} |-> map[u]]
      BY <1>2, <2>4 DEF RemoveAbilityRecInProcList
    <3>2. InCache(s) \ {r} = {}
      <4>1. Len(Drop(s, r)) = 0
        BY <2>1, <2>2, <2>4
      <4>2. DOMAIN Drop(s, r) = {}
        BY <4>1, <2>2
      <4>3. InCache(Drop(s, r)) = {}
        BY <4>2 DEF InCache
      <4> QED
        BY <4>3, <2>2
    <3>3. GoodMap(new)
      BY <3>1 DEF GoodMap
    <3>4. Held(new) = Held(map) \ {r}
      BY <1>2, <2>3, <3>1, <3>2 DEF Held
    <3> QED
      BY <3>3, <3>4
  <2>5. CASE map[t].cnt - 1 # 0
    <3> DEFINE l == [recList |-> Drop(s, r), cnt |-> map[t].cnt - 1]
    <3>1. /\ DOMAIN new = DOMAIN map
          /\ new[t] = l
          /\ \A u \in DOMAIN map \ {t} : new[u] = map[u]
      BY <1>2, <2>5 DEF RemoveAbilityRecInProcList
    <3>2. Len(s) - 1 \in Nat
      BY <2>2, <2>1
    <3>3. GoodList(l) /\ l.cnt <= procCapacity /\ \A x \in InCache(l.recList) : TokenOf[x] = t
      BY <2>1, <2>2, <3>2, CacheConstants DEF GoodList
    <3>4. GoodMap(new)
      BY <3>1, <3>3 DEF GoodMap
    <3>5. Held(new) = Held(map) \ {r}
      BY <1>2, <2>2, <2>3, <3>1 DEF Held
    <3> QED
      BY <3>4, <3>5
  <2> QED
    BY <2>4, <2>5
<1> QED
  BY <1>1, <1>2

\* Adding a record that is not held: the list it joins gives up its front when
\* it is full, and nothing else leaves.
LEMMA AddToProcFacts ==
    ASSUME NEW map, GoodMap(map), NEW r \in Records, r \notin Held(map)
    PROVE  /\ GoodMap(AddToProcLru(map, r))
           /\ Held(AddToProcLru(map, r)) = (Held(map) \ {ProcVictim(map, r)}) \cup {r}
           /\ ProcVictim(map, r) # NoRecord => ProcVictim(map, r) \in Held(map)
<1> DEFINE t == TokenOf[r]
           new == AddToProcLru(map, r)
           v == ProcVictim(map, r)
<1>0. t \in Tokens /\ NoRecord \notin Held(map) /\ procCapacity \in Nat /\ procCapacity > 0
  <2>1. \A u \in DOMAIN map : InCache(map[u].recList) \subseteq Records
    BY DEF GoodMap, GoodList, InCache
  <2> QED
    BY <2>1, CacheConstants, ManagerConstants DEF Held
<1>1. CASE t \notin DOMAIN map
  <2> DEFINE l == [recList |-> <<r>>, cnt |-> 1]
  <2>1. /\ DOMAIN new = DOMAIN map \cup {t}
        /\ new[t] = l
        /\ \A u \in DOMAIN map : new[u] = map[u]
        /\ v = NoRecord
    BY <1>1 DEF AddToProcLru, ProcVictim
  <2>2. /\ <<r>> \in Seq(Records) /\ Len(<<r>>) = 1
        /\ NoDuplicates(<<r>>)
        /\ InCache(<<r>>) = {r}
    BY DEF NoDuplicates, InCache
  <2>3. GoodList(l) /\ l.cnt <= procCapacity /\ \A x \in InCache(l.recList) : TokenOf[x] = t
    BY <1>0, <2>2 DEF GoodList
  <2>4. GoodMap(new)
    BY <1>0, <2>1, <2>3 DEF GoodMap
  <2>5. Held(new) = Held(map) \cup {r}
    BY <1>1, <2>1, <2>2 DEF Held
  <2> QED
    BY <1>0, <2>1, <2>4, <2>5
<1>2. CASE t \in DOMAIN map
  <2> DEFINE s == map[t].recList
  <2>1. /\ s \in Seq(Records)
        /\ NoDuplicates(s)
        /\ map[t].cnt = Len(s)
        /\ map[t] = [recList |-> s, cnt |-> Len(s)]
        /\ Len(s) \in Nat
        /\ Len(s) <= procCapacity
        /\ \A x \in InCache(s) : TokenOf[x] = t
        /\ InCache(s) \subseteq Held(map)
        /\ r \notin InCache(s)
    BY <1>2 DEF GoodMap, GoodList, Held
  <2>2. CASE Len(s) = procCapacity
    <3>1. /\ Head(s) \in InCache(s)
          /\ Tail(s) \in Seq(Records)
          /\ NoDuplicates(Tail(s))
          /\ InCache(Tail(s)) = InCache(s) \ {Head(s)}
          /\ Len(Tail(s)) = Len(s) - 1
      BY <1>0, <2>1, <2>2, TailFacts
    <3> DEFINE a == Append(Tail(s), r)
               l == [recList |-> a, cnt |-> Len(s)]
    <3>2. /\ a \in Seq(Records)
          /\ NoDuplicates(a)
          /\ InCache(a) = (InCache(s) \ {Head(s)}) \cup {r}
          /\ Len(a) = Len(s)
      <4>1. r \notin InCache(Tail(s))
        BY <2>1, <3>1
      <4>2. /\ a \in Seq(Records)
            /\ NoDuplicates(a)
            /\ InCache(a) = InCache(Tail(s)) \cup {r}
            /\ Len(a) = Len(Tail(s)) + 1
        BY <3>1, <4>1, AppendFacts
      <4> QED
        BY <2>1, <3>1, <4>2
    <3>3. /\ DOMAIN new = DOMAIN map
          /\ new[t] = l
          /\ \A u \in DOMAIN map \ {t} : new[u] = map[u]
          /\ v = Head(s)
      BY <1>2, <2>1, <2>2 DEF AddToProcLru, ProcVictim
    <3>4. GoodList(l) /\ l.cnt <= procCapacity /\ \A x \in InCache(l.recList) : TokenOf[x] = t
      BY <2>1, <3>2 DEF GoodList
    <3>5. GoodMap(new)
      BY <3>3, <3>4 DEF GoodMap
    <3>6. \A u \in DOMAIN map \ {t} : Head(s) \notin InCache(map[u].recList)
      BY <2>1, <3>1 DEF GoodMap
    <3>7. Held(new) = (Held(map) \ {Head(s)}) \cup {r}
      <4>1. new[t].recList = a
        BY <3>3
      <4>2. Rest(new, t) = Rest(map, t)
        BY <3>3 DEF Rest
      <4>3. Held(new) = InCache(a) \cup Held(Rest(map, t))
        BY <1>2, <3>3, <4>1, <4>2, HeldSplit, ZenonT(60)
      <4>4. Held(map) = InCache(s) \cup Held(Rest(map, t))
        BY <1>2, HeldSplit
      <4>5. Head(s) \notin Held(Rest(map, t))
        BY <3>6 DEF Held, Rest
      <4>6. r # Head(s)
        BY <2>1, <3>1
      <4> QED
        BY <3>2, <4>3, <4>4, <4>5, <4>6
    <3> QED
      BY <2>1, <3>1, <3>3, <3>5, <3>7
  <2>3. CASE Len(s) # procCapacity
    <3> DEFINE a == Append(s, r)
               l == [recList |-> a, cnt |-> Len(s) + 1]
    <3>2. /\ a \in Seq(Records)
          /\ NoDuplicates(a)
          /\ InCache(a) = InCache(s) \cup {r}
          /\ Len(a) = Len(s) + 1
      BY <2>1, AppendFacts
    <3>3. /\ DOMAIN new = DOMAIN map
          /\ new[t] = l
          /\ \A u \in DOMAIN map \ {t} : new[u] = map[u]
          /\ v = NoRecord
      BY <1>2, <2>1, <2>3 DEF AddToProcLru, ProcVictim
    <3>4. GoodList(l) /\ l.cnt <= procCapacity /\ \A x \in InCache(l.recList) : TokenOf[x] = t
      BY <1>0, <2>1, <2>3, <3>2 DEF GoodList
    <3>5. GoodMap(new)
      BY <3>3, <3>4 DEF GoodMap
    <3>7. Held(new) = Held(map) \cup {r}
      <4>1. new[t].recList = a
        BY <3>3
      <4>2. Rest(new, t) = Rest(map, t)
        BY <3>3 DEF Rest
      <4>3. Held(new) = InCache(a) \cup Held(Rest(map, t))
        BY <1>2, <3>3, <4>1, <4>2, HeldSplit, ZenonT(60)
      <4>4. Held(map) = InCache(s) \cup Held(Rest(map, t))
        BY <1>2, HeldSplit
      <4> QED
        BY <3>2, <4>3, <4>4
    <3> QED
      BY <1>0, <3>3, <3>5, <3>7
  <2> QED
    BY <2>2, <2>3
<1> QED
  BY <1>1, <1>2

\* The device list without a record.
LEMMA RemoveDevFacts ==
    ASSUME NEW dev, GoodList(dev), NEW r
    PROVE  /\ GoodList(RemoveAbilityRecInDevList(dev, r))
           /\ InCache(RemoveAbilityRecInDevList(dev, r).recList) = InCache(dev.recList) \ {r}
           /\ RemoveAbilityRecInDevList(dev, r).cnt <= dev.cnt
           /\ r \in InCache(dev.recList) => RemoveAbilityRecInDevList(dev, r).cnt < dev.cnt
<1> DEFINE s == dev.recList
           new == RemoveAbilityRecInDevList(dev, r)
<1>1. s \in Seq(Records) /\ NoDuplicates(s) /\ dev.cnt = Len(s) /\ Len(s) \in Nat
  BY DEF GoodList
<1>2. CASE r \notin InCache(s)
  <2>1. new = dev
    BY <1>2 DEF RemoveAbilityRecInDevList
  <2> QED
    BY <1>1, <1>2, <2>1
<1>3. CASE r \in InCache(s)
  <2> DEFINE d == Drop(s, r)
  <2>1. /\ d \in Seq(Records)
        /\ NoDuplicates(d)
        /\ InCache(d) = InCache(s) \ {r}
        /\ Len(d) = Len(s) - 1
        /\ Len(d) \in Nat
    BY <1>1, <1>3, DropFacts
  <2>2. new = [recList |-> d, cnt |-> Len(s) - 1]
    BY <1>1, <1>3 DEF RemoveAbilityRecInDevList
  <2>3. GoodList(new)
    BY <1>1, <2>1, <2>2 DEF GoodList
  <2> QED
    BY <1>1, <2>1, <2>2, <2>3
<1> QED
  BY <1>2, <1>3

\* The device list with a new record, when the access token's list has given up
\* a record (then the device list is not full) or has not.
LEMMA AddToDevFacts ==
    ASSUME NEW dev, GoodList(dev), dev.cnt <= devCapacity,
           NEW r \in Records, r \notin InCache(dev.recList),
           NEW victim, victim # NoRecord => dev.cnt < devCapacity
    PROVE  LET v   == DevVictim(dev, victim)
               new == AddToDevLru(dev, r, v)
           IN  /\ GoodList(new)
               /\ new.cnt <= devCapacity
               /\ InCache(new.recList) = (InCache(dev.recList) \ {v}) \cup {r}
               /\ v # NoRecord => v \in InCache(dev.recList)
               /\ victim # NoRecord => v = NoRecord
<1> DEFINE s == dev.recList
           v == DevVictim(dev, victim)
           new == AddToDevLru(dev, r, v)
<1>1. /\ s \in Seq(Records) /\ NoDuplicates(s) /\ dev.cnt = Len(s) /\ Len(s) \in Nat
      /\ InCache(s) \subseteq Records
      /\ NoRecord \notin Records
      /\ devCapacity \in Nat /\ devCapacity > 0
  BY CacheConstants, ManagerConstants DEF GoodList, InCache
<1>2. CASE victim = NoRecord /\ dev.cnt = devCapacity
  <2>1. /\ Head(s) \in InCache(s)
        /\ Tail(s) \in Seq(Records)
        /\ NoDuplicates(Tail(s))
        /\ InCache(Tail(s)) = InCache(s) \ {Head(s)}
        /\ Len(Tail(s)) = Len(s) - 1
    BY <1>1, <1>2, TailFacts
  <2>2. v = Head(s) /\ v # NoRecord
    BY <1>1, <1>2, <2>1 DEF DevVictim
  <2> DEFINE a == Append(Tail(s), r)
  <2>3. r \notin InCache(Tail(s))
    BY <2>1
  <2>4. /\ a \in Seq(Records)
        /\ NoDuplicates(a)
        /\ InCache(a) = InCache(Tail(s)) \cup {r}
        /\ Len(a) = Len(Tail(s)) + 1
    BY <2>1, <2>3, AppendFacts
  <2>5. new = [recList |-> a, cnt |-> Len(s)]
    BY <1>1, <2>2 DEF AddToDevLru
  <2>6. GoodList(new)
    BY <1>1, <2>1, <2>4, <2>5 DEF GoodList
  <2>7. new.recList = a /\ new.cnt = Len(s)
    BY <2>5
  <2>8. InCache(new.recList) = (InCache(s) \ {v}) \cup {r}
    BY <2>1, <2>2, <2>4, <2>7
  <2> QED
    BY <1>1, <1>2, <2>1, <2>2, <2>6, <2>7, <2>8
<1>3. CASE ~(victim = NoRecord /\ dev.cnt = devCapacity)
  <2>1. v = NoRecord
    BY <1>3 DEF DevVictim
  <2> DEFINE a == Append(s, r)
  <2>2. /\ a \in Seq(Records)
        /\ NoDuplicates(a)
        /\ InCache(a) = InCache(s) \cup {r}
        /\ Len(a) = Len(s) + 1
    BY <1>1, AppendFacts
  <2>3. new = [recList |-> a, cnt |-> Len(s) + 1]
    BY <1>1, <2>1 DEF AddToDevLru
  <2>4. GoodList(new)
    BY <1>1, <2>2, <2>3 DEF GoodList
  <2>5. new.cnt <= devCapacity
    BY <1>1, <1>3, <2>3
  <2> QED
    BY <1>1, <2>1, <2>2, <2>3, <2>4, <2>5
<1> QED
  BY <1>2, <1>3

\* Taking a record by name out of the list of a token.
LEMMA GetProcFacts ==
    ASSUME NEW map, GoodMap(map), NEW t \in Tokens, NEW n
    PROVE  LET found == GetAbilityRecInProcList(map, t, n)
           IN  /\ GoodMap(found.map)
               /\ found.rec = NoRecord => found.map = map
               /\ found.rec # NoRecord => /\ found.rec \in Held(map)
                                          /\ Held(found.map) = Held(map) \ {found.rec}
<1> DEFINE s == map[t].recList
           hits == {i \in DOMAIN s : NameOf[s[i]] = n}
           found == GetAbilityRecInProcList(map, t, n)
<1>1. CASE t \notin DOMAIN map \/ hits = {}
  <2>1. found = [rec |-> NoRecord, map |-> map]
    BY <1>1 DEF GetAbilityRecInProcList
  <2> QED
    BY <2>1
<1>2. CASE t \in DOMAIN map /\ hits # {}
  <2>1. /\ s \in Seq(Records)
        /\ NoDuplicates(s)
        /\ map[t].cnt = Len(s)
        /\ Len(s) \in Nat
        /\ Len(s) <= procCapacity
        /\ \A x \in InCache(s) : TokenOf[x] = t
    BY <1>2 DEF GoodMap, GoodList
  <2> DEFINE i == OldestIndex(hits)
             d == DropAt(s, i)
             new == [map EXCEPT ![t] = [recList |-> DropAt(@.recList, i), cnt |-> @.cnt - 1]]
  <2>2. i \in DOMAIN s
    <3>1. hits \subseteq Nat
      BY <2>1
    <3>2. PICK m \in hits : \A j \in hits : m <= j
      <4>1. hits \in SUBSET Nat /\ hits # {}
        BY <1>2, <3>1
      <4> HIDE DEF hits
      <4> QED
        BY <4>1, LeastElement
    <3>3. i \in hits
      BY <3>2 DEF OldestIndex
    <3> QED
      BY <3>3
  <2>3. /\ d \in Seq(Records)
        /\ Len(d) = Len(s) - 1
        /\ NoDuplicates(d)
        /\ InCache(d) = InCache(s) \ {s[i]}
        /\ Len(d) \in Nat
    <3> HIDE DEF i
    <3>1. /\ d \in Seq(Records)
          /\ Len(d) = Len(s) - 1
          /\ NoDuplicates(d)
          /\ InCache(d) = InCache(s) \ {s[i]}
      BY <2>1, <2>2, DropAtFacts
    <3> HIDE DEF d
    <3> QED
      BY <3>1
  <2>4. found = [rec |-> s[i], map |-> new]
    BY <1>2 DEF GetAbilityRecInProcList
  <2> HIDE DEF i
  <2>5. /\ DOMAIN new = DOMAIN map
        /\ new[t] = [recList |-> d, cnt |-> Len(s) - 1]
        /\ \A u \in DOMAIN map \ {t} : new[u] = map[u]
    BY <1>2, <2>1
  <2>6. s[i] \in InCache(s) /\ s[i] \in Records
    BY <2>1, <2>2 DEF InCache
  <2>7. GoodMap(new)
    <3>1. /\ GoodList(new[t])
          /\ new[t].cnt <= procCapacity
          /\ \A x \in InCache(new[t].recList) : TokenOf[x] = t
      BY <2>1, <2>3, <2>5, CacheConstants DEF GoodList
    <3> HIDE DEF new
    <3> QED
      BY <2>5, <3>1 DEF GoodMap
  <2>8. Held(new) = Held(map) \ {s[i]}
    <3>1. Rest(new, t) = Rest(map, t)
      BY <2>5 DEF Rest
    <3>2. Held(new) = InCache(d) \cup Held(Rest(map, t))
      BY <1>2, <2>5, <3>1, HeldSplit
    <3>3. Held(map) = InCache(s) \cup Held(Rest(map, t))
      BY <1>2, HeldSplit
    <3>4. s[i] \notin Held(Rest(map, t))
      BY <2>1, <2>6 DEF Held, Rest, GoodMap
    <3> QED
      BY <2>3, <3>2, <3>3, <3>4
  <2>9. s[i] \in Held(map)
    BY <1>2, <2>6 DEF Held
  <2>10. found.rec = s[i] /\ found.map = new /\ s[i] # NoRecord
    BY <2>4, <2>6, ManagerConstants
  <2> QED
    BY <2>7, <2>8, <2>9, <2>10
<1> QED
  BY <1>1, <1>2

-----------------------------------------------------------------------------
\* The device list and the map, each well formed and within its capacity, hold
\* the same records.
Good(dev, map) ==
    /\ GoodList(dev)
    /\ dev.cnt <= devCapacity
    /\ GoodMap(map)
    /\ InCache(dev.recList) = Held(map)

WalkOK == walkBundle \in Bundles \cup {NoBundle} /\ walkAt \in Nat \ {0}

\* The inductive invariant: the three invariants together.  None is inductive
\* alone: fullness is tested on the counters, and the victim of one list is
\* looked up in the other.
CacheInv == TypeOK /\ ListsAgree /\ WithinCapacity

GoodCache == Good(Dev, procLruMap)

\* The invariant, in the form the lemmas use.
LEMMA CacheInvIsGood == CacheInv <=> WalkOK /\ GoodCache
<1>1. CacheInv => WalkOK /\ Good(Dev, procLruMap)
  BY DEF CacheInv, TypeOK, ListsAgree, WithinCapacity, WalkOK, Good, GoodList, GoodMap, Held, Dev
<1>2. ASSUME WalkOK, Good(Dev, procLruMap) PROVE CacheInv
  <2>1. /\ devRecLru \in Seq(Records) /\ devLruCnt \in Nat
        /\ NoDuplicates(devRecLru)
        /\ devLruCnt = Len(devRecLru)
        /\ Len(devRecLru) <= devCapacity
        /\ InCache(devRecLru) = Held(procLruMap)
        /\ GoodMap(procLruMap)
    BY <1>2 DEF Good, GoodList, Dev
  <2>2. TypeOK
    BY <1>2, <2>1 DEF TypeOK, WalkOK, GoodMap, GoodList
  <2>3. ListsAgree
    BY <2>1 DEF ListsAgree, GoodMap, GoodList, Held
  <2>4. WithinCapacity
    BY <2>1 DEF WithinCapacity, GoodMap, GoodList
  <2> QED
    BY <2>2, <2>3, <2>4 DEF CacheInv
<1> QED
  BY <1>1, <1>2 DEF GoodCache

\* The empty cache, at the start and after a crash of the service.
LEMMA EmptyIsGood ==
    ASSUME NEW f, f = [t \in {} |-> [recList |-> <<>>, cnt |-> 0]]
    PROVE  Good([recList |-> <<>>, cnt |-> 0], f)
<1>1. DOMAIN f = {}
  OBVIOUS
<1>2. <<>> \in Seq(Records) /\ Len(<<>>) = 0 /\ NoDuplicates(<<>>) /\ InCache(<<>>) = {}
  BY DEF NoDuplicates, InCache
<1>3. Held(f) = {}
  BY <1>1 DEF Held
<1> DEFINE l == [recList |-> <<>>, cnt |-> 0]
<1>4. l.recList = <<>> /\ l.cnt = 0 /\ l \in [recList : Seq(Records), cnt : Nat]
  OBVIOUS
<1> HIDE DEF l
<1>5. GoodList(l) /\ l.cnt <= devCapacity /\ InCache(l.recList) = {}
  BY <1>2, <1>4, CacheConstants DEF GoodList
<1>6. GoodMap(f)
  BY <1>1 DEF GoodMap
<1> QED
  BY <1>3, <1>5, <1>6 DEF Good, l

\* Put: the victim of the token's list makes room in the device list too, and the
\* victim of the device list leaves the map.
LEMMA PutIsGood ==
    ASSUME NEW dev, NEW map, Good(dev, map), NEW r \in Records, r \notin InCache(dev.recList)
    PROVE  LET victim    == ProcVictim(map, r)
               map1      == AddToProcLru(map, r)
               dev1      == IF victim = NoRecord THEN dev
                            ELSE RemoveAbilityRecInDevList(dev, victim)
               devVictim == DevVictim(dev1, victim)
               map2      == IF devVictim = NoRecord THEN map1
                            ELSE RemoveAbilityRecInProcList(map1, devVictim)
           IN  Good(AddToDevLru(dev1, r, devVictim), map2)
<1> DEFINE victim    == ProcVictim(map, r)
           map1      == AddToProcLru(map, r)
           dev1      == IF victim = NoRecord THEN dev
                        ELSE RemoveAbilityRecInDevList(dev, victim)
           devVictim == DevVictim(dev1, victim)
           map2      == IF devVictim = NoRecord THEN map1
                        ELSE RemoveAbilityRecInProcList(map1, devVictim)
           dev2      == AddToDevLru(dev1, r, devVictim)
<1>1. /\ GoodList(dev) /\ GoodMap(map)
      /\ dev.cnt <= devCapacity
      /\ InCache(dev.recList) = Held(map)
      /\ InCache(dev.recList) \subseteq Records
      /\ NoRecord \notin Records
      /\ dev.cnt \in Nat /\ devCapacity \in Nat
  BY CacheConstants, ManagerConstants DEF Good, GoodList, InCache
<1>2. /\ GoodMap(map1)
      /\ Held(map1) = (Held(map) \ {victim}) \cup {r}
      /\ victim # NoRecord => victim \in Held(map)
  BY <1>1, AddToProcFacts
<1>3. /\ GoodList(dev1)
      /\ InCache(dev1.recList) = InCache(dev.recList) \ {victim}
      /\ dev1.cnt <= devCapacity
      /\ victim # NoRecord => dev1.cnt < devCapacity
  <2>1. CASE victim = NoRecord
    BY <1>1, <2>1
  <2>2. CASE victim # NoRecord
    <3> DEFINE d == RemoveAbilityRecInDevList(dev, victim)
    <3>1. /\ GoodList(d)
          /\ InCache(d.recList) = InCache(dev.recList) \ {victim}
          /\ d.cnt < dev.cnt
      BY <1>1, <1>2, <2>2, RemoveDevFacts
    <3>2. d.cnt \in Nat
      BY <3>1 DEF GoodList
    <3>3. d.cnt < devCapacity /\ d.cnt <= devCapacity
      BY <1>1, <3>1, <3>2
    <3>4. dev1 = d
      BY <2>2
    <3> QED
      BY <3>1, <3>3, <3>4
  <2> QED
    BY <2>1, <2>2
<1> HIDE DEF victim, dev1, map1
<1>4. /\ GoodList(dev2)
      /\ dev2.cnt <= devCapacity
      /\ InCache(dev2.recList) = (InCache(dev1.recList) \ {devVictim}) \cup {r}
      /\ devVictim # NoRecord => devVictim \in InCache(dev1.recList)
      /\ victim # NoRecord => devVictim = NoRecord
  BY <1>1, <1>3, AddToDevFacts
<1> HIDE DEF dev2, devVictim
<1>5. CASE devVictim = NoRecord
  <2>1. map2 = map1
    BY <1>5
  <2>2. InCache(dev2.recList) = Held(map1)
    BY <1>1, <1>2, <1>3, <1>4, <1>5
  <2> QED
    BY <1>2, <1>4, <2>1, <2>2 DEF Good, dev2, devVictim, dev1, map1, victim
<1>6. CASE devVictim # NoRecord
  <2>1. devVictim \in Records /\ devVictim # r /\ victim = NoRecord
    BY <1>1, <1>3, <1>4, <1>6
  <2>2. map2 = RemoveAbilityRecInProcList(map1, devVictim)
    BY <1>6
  <2>3. GoodMap(map2) /\ Held(map2) = Held(map1) \ {devVictim}
    BY <1>2, <2>1, <2>2, RemoveProcFacts
  <2>4. InCache(dev2.recList) = Held(map2)
    BY <1>1, <1>2, <1>3, <1>4, <2>1, <2>3
  <2> QED
    BY <1>4, <2>3, <2>4 DEF Good, dev2, devVictim, dev1, map1, victim
<1> QED
  BY <1>5, <1>6

\* Remove, and each erasure of DeleteInvalidServiceRecord.
LEMMA RemoveIsGood ==
    ASSUME NEW dev, NEW map, Good(dev, map), NEW r \in Records
    PROVE  Good(RemoveAbilityRecInDevList(dev, r), RemoveAbilityRecInProcList(map, r))
<1> DEFINE d == RemoveAbilityRecInDevList(dev, r)
<1>1. GoodList(dev) /\ GoodMap(map) /\ dev.cnt <= devCapacity
      /\ InCache(dev.recList) = Held(map) /\ dev.cnt \in Nat /\ devCapacity \in Nat
  BY CacheConstants DEF Good, GoodList
<1>2. GoodList(d) /\ InCache(d.recList) = InCache(dev.recList) \ {r} /\ d.cnt <= dev.cnt /\ d.cnt \in Nat
  <2>1. GoodList(d) /\ InCache(d.recList) = InCache(dev.recList) \ {r} /\ d.cnt <= dev.cnt
    BY <1>1, RemoveDevFacts
  <2> QED
    BY <2>1 DEF GoodList
<1>3. d.cnt <= devCapacity
  BY <1>1, <1>2
<1> QED
  BY <1>1, <1>2, <1>3, RemoveProcFacts DEF Good

\* Get.
LEMMA GetIsGood ==
    ASSUME NEW dev, NEW map, Good(dev, map), NEW t \in Tokens, NEW n
    PROVE  LET found == GetAbilityRecInProcList(map, t, n)
           IN  /\ found.rec = NoRecord => Good(dev, found.map)
               /\ found.rec # NoRecord => Good(RemoveAbilityRecInDevList(dev, found.rec), found.map)
<1> DEFINE found == GetAbilityRecInProcList(map, t, n)
           d == RemoveAbilityRecInDevList(dev, found.rec)
<1>1. GoodList(dev) /\ GoodMap(map) /\ dev.cnt <= devCapacity
      /\ InCache(dev.recList) = Held(map) /\ dev.cnt \in Nat /\ devCapacity \in Nat
  BY CacheConstants DEF Good, GoodList
<1>2. /\ GoodMap(found.map)
      /\ found.rec = NoRecord => found.map = map
      /\ found.rec # NoRecord => Held(found.map) = Held(map) \ {found.rec}
  BY <1>1, GetProcFacts
<1>3. GoodList(d) /\ InCache(d.recList) = InCache(dev.recList) \ {found.rec} /\ d.cnt <= dev.cnt
  BY <1>1, RemoveDevFacts
<1>4. d.cnt \in Nat
  BY <1>3 DEF GoodList
<1>5. d.cnt <= devCapacity
  BY <1>1, <1>3, <1>4
<1> QED
  BY <1>1, <1>2, <1>3, <1>5 DEF Good

-----------------------------------------------------------------------------
\* Every step of the cache manager keeps the invariant.
LEMMA CacheStep == CacheInv /\ [Next]_cacheVars => CacheInv'
<1>0. CacheInv' <=> WalkOK' /\ GoodCache'
  BY CacheInvIsGood, PTL
<1> SUFFICES ASSUME CacheInv, [Next]_cacheVars
             PROVE  WalkOK' /\ Good(Dev', procLruMap')
  BY <1>0 DEF GoodCache
<1>1. WalkOK /\ Good(Dev, procLruMap)
  BY CacheInvIsGood DEF GoodCache
<1>2. devRecLru \in Seq(Records) /\ Dev.recList = devRecLru
  BY DEF CacheInv, TypeOK, Dev
<1>3. ASSUME NEW d, SetDev(d), d \in [recList : Seq(Records), cnt : Nat]
      PROVE  Dev' = d
  BY <1>3 DEF SetDev, Dev
<1>4. ASSUME NEW r \in Records, Put(r)
      PROVE  WalkOK' /\ Good(Dev', procLruMap')
  <2> DEFINE victim    == ProcVictim(procLruMap, r)
             map1      == AddToProcLru(procLruMap, r)
             dev1      == IF victim = NoRecord THEN Dev
                          ELSE RemoveAbilityRecInDevList(Dev, victim)
             devVictim == DevVictim(dev1, victim)
             map2      == IF devVictim = NoRecord THEN map1
                          ELSE RemoveAbilityRecInProcList(map1, devVictim)
             dev2      == AddToDevLru(dev1, r, devVictim)
  <2>1. r \notin InCache(Dev.recList) /\ SetDev(dev2) /\ procLruMap' = map2 /\ WalkOK'
    BY <1>1, <1>2, <1>4 DEF Put, WalkOK
  <2>2. Good(dev2, map2)
    BY <1>1, <2>1, PutIsGood
  <2> HIDE DEF dev2, map2
  <2>3. Dev' = dev2
    BY <1>3, <2>1, <2>2 DEF Good, GoodList
  <2> QED
    BY <2>1, <2>2, <2>3
<1>5. ASSUME NEW r \in Records,
             procLruMap' = RemoveAbilityRecInProcList(procLruMap, r),
             SetDev(RemoveAbilityRecInDevList(Dev, r))
      PROVE  Good(Dev', procLruMap')
  <2>1. Good(RemoveAbilityRecInDevList(Dev, r), RemoveAbilityRecInProcList(procLruMap, r))
    BY <1>1, RemoveIsGood
  <2>2. Dev' = RemoveAbilityRecInDevList(Dev, r)
    BY <1>3, <1>5, <2>1 DEF Good, GoodList
  <2> QED
    BY <1>5, <2>1, <2>2
<1>6. ASSUME NEW r \in Records, Remove(r)
      PROVE  WalkOK' /\ Good(Dev', procLruMap')
  BY <1>1, <1>5, <1>6 DEF Remove, WalkOK
<1>7. ASSUME NEW t \in Tokens, NEW n \in Names, Get(t, n)
      PROVE  WalkOK' /\ Good(Dev', procLruMap')
  <2> DEFINE found == GetAbilityRecInProcList(procLruMap, t, n)
             d == RemoveAbilityRecInDevList(Dev, found.rec)
  <2>1. procLruMap' = found.map /\ WalkOK'
    BY <1>1, <1>7 DEF Get, WalkOK
  <2>2. CASE found.rec = NoRecord
    <3>1. Dev' = Dev
      BY <1>7, <2>2 DEF Get, Dev
    <3> QED
      BY <1>1, <2>1, <2>2, <3>1, GetIsGood
  <2>3. CASE found.rec # NoRecord
    <3>1. SetDev(d)
      BY <1>7, <2>3 DEF Get
    <3>2. Good(d, found.map)
      BY <1>1, <2>3, GetIsGood
    <3>3. Dev' = d
      BY <1>3, <3>1, <3>2 DEF Good, GoodList
    <3> QED
      BY <2>1, <3>2, <3>3
  <2> QED
    BY <2>2, <2>3
<1>8. ASSUME NEW b \in Bundles, DeleteInvalidServiceRecord(b)
      PROVE  WalkOK' /\ Good(Dev', procLruMap')
  <2>1. Dev' = Dev /\ procLruMap' = procLruMap /\ WalkOK'
    BY <1>8 DEF DeleteInvalidServiceRecord, WalkOK, Dev
  <2> QED
    BY <1>1, <2>1
<1>9. CASE DeleteSkip
  <2>1. Dev' = Dev /\ procLruMap' = procLruMap /\ WalkOK'
    BY <1>1, <1>9 DEF DeleteSkip, WalkOK, Dev
  <2> QED
    BY <1>1, <2>1
<1>10. CASE DeleteErase
  <2>1. devRecLru[walkAt] \in Records
    BY <1>1, <1>2, <1>10 DEF DeleteErase, WalkOK
  <2>2. WalkOK'
    BY <1>1, <1>10 DEF DeleteErase, WalkOK
  <2> QED
    BY <1>5, <1>10, <2>1, <2>2 DEF DeleteErase
<1>11. CASE DeleteCrashes
  <2> DEFINE d == [recList |-> <<>>, cnt |-> 0]
  <2>1. SetDev(d) /\ WalkOK' /\ procLruMap' = [t \in {} |-> d]
    BY <1>11 DEF DeleteCrashes, WalkOK
  <2>2. Dev' = d
    BY <2>1 DEF SetDev, Dev
  <2> QED
    BY <2>1, <2>2, EmptyIsGood
<1>12. CASE DeleteEnds
  <2>1. Dev' = Dev /\ procLruMap' = procLruMap /\ WalkOK'
    BY <1>1, <1>12 DEF DeleteEnds, WalkOK, Dev
  <2> QED
    BY <1>1, <2>1
<1>13. CASE UNCHANGED cacheVars
  <2>1. Dev' = Dev /\ procLruMap' = procLruMap /\ WalkOK'
    BY <1>1, <1>13 DEF cacheVars, WalkOK, Dev
  <2> QED
    BY <1>1, <2>1
<1> QED
  BY <1>4, <1>6, <1>7, <1>8, <1>9, <1>10, <1>11, <1>12, <1>13 DEF Next

LEMMA CacheInit == Init => CacheInv
<1> SUFFICES ASSUME Init PROVE WalkOK /\ Good(Dev, procLruMap)
  BY CacheInvIsGood DEF GoodCache
<1>1. WalkOK /\ Dev = [recList |-> <<>>, cnt |-> 0]
      /\ procLruMap = [t \in {} |-> [recList |-> <<>>, cnt |-> 0]]
  BY DEF Init, WalkOK, Dev
<1> QED
  BY <1>1, EmptyIsGood

\* The variables of the cache manager always have their types.
THEOREM CacheTypes == Spec => []TypeOK
<1>1. CacheInv => TypeOK
  BY DEF CacheInv
<1> QED
  BY <1>1, CacheInit, CacheStep, PTL DEF Spec

\* The device list and the lists of the access tokens always hold the same
\* records, each once, and the counters are the lengths: Put, Remove, Get and
\* DeleteInvalidServiceRecord keep both levels of ability_cache_manager.cpp in step.
THEOREM CacheListsAgree == Spec => []ListsAgree
<1>1. CacheInv => ListsAgree
  BY DEF CacheInv
<1> QED
  BY <1>1, CacheInit, CacheStep, PTL DEF Spec

\* No list is ever longer than its capacity, although fullness is tested with ==.
THEOREM CacheWithinCapacity == Spec => []WithinCapacity
<1>1. CacheInv => WithinCapacity
  BY DEF CacheInv
<1> QED
  BY <1>1, CacheInit, CacheStep, PTL DEF Spec

-----------------------------------------------------------------------------
(* The refinement of ExtensionCache.                                       *)

\* Record x is older than record y in the list s.
Before(s, x, y) == \E i, j \in DOMAIN s : i < j /\ s[i] = x /\ s[j] = y

\* The lists of the map are ordered as the list d is.
Ordered(d, map) ==
    \A t \in DOMAIN map : \A x, y \in Records : Before(map[t].recList, x, y) => Before(d, x, y)

OrderAgrees == Ordered(devRecLru, procLruMap)

\* The bundle that is being deleted is the argument of the last operation.
WalkArg == walkBundle # NoBundle => last.op = "Delete" /\ last.arg = walkBundle

RefinementInv == CacheInv /\ OrderAgrees /\ WalkArg

-----------------------------------------------------------------------------
\* list::erase keeps the order of the others.
LEMMA BeforeDropAt ==
    ASSUME NEW s \in Seq(Records), NoDuplicates(s), NEW i \in DOMAIN s, NEW x, NEW y
    PROVE  Before(DropAt(s, i), x, y) <=> Before(s, x, y) /\ x # s[i] /\ y # s[i]
<1> DEFINE n == Len(s)
           d == DropAt(s, i)
<1>1. n \in Nat /\ DOMAIN s = 1..n /\ i \in 1..n
  OBVIOUS
<1>2. /\ DOMAIN d = 1..(n - 1)
      /\ \A j \in 1..(n - 1) : d[j] = IF j < i THEN s[j] ELSE s[j + 1]
  BY <1>1 DEF DropAt
<1>3. \A j, k \in 1..n : s[j] = s[k] => j = k
  BY <1>1 DEF NoDuplicates
<1> HIDE DEF n, d
<1>4. ASSUME Before(d, x, y) PROVE Before(s, x, y) /\ x # s[i] /\ y # s[i]
  <2>1. PICK j \in 1..(n - 1), k \in 1..(n - 1) : j < k /\ d[j] = x /\ d[k] = y
    BY <1>4, <1>2 DEF Before
  <2> DEFINE p == IF j < i THEN j ELSE j + 1
             q == IF k < i THEN k ELSE k + 1
  <2>2. p \in 1..n /\ q \in 1..n /\ p < q /\ p # i /\ q # i /\ s[p] = x /\ s[q] = y
    BY <1>1, <1>2, <2>1
  <2> HIDE DEF p, q
  <2>3. Before(s, x, y)
    BY <2>2, <1>1 DEF Before
  <2> QED BY <2>2, <2>3, <1>1, <1>3
<1>5. ASSUME Before(s, x, y), x # s[i], y # s[i] PROVE Before(d, x, y)
  <2>1. PICK j \in 1..n, k \in 1..n : j < k /\ s[j] = x /\ s[k] = y
    BY <1>5, <1>1 DEF Before
  <2>2. j # i /\ k # i
    BY <2>1, <1>5
  <2> DEFINE p == IF j < i THEN j ELSE j - 1
             q == IF k < i THEN k ELSE k - 1
  <2>3. p \in 1..(n - 1) /\ q \in 1..(n - 1) /\ p < q
    BY <1>1, <2>1, <2>2
  <2>4. d[p] = x /\ d[q] = y
    BY <1>1, <1>2, <2>1, <2>2, <2>3
  <2> HIDE DEF p, q
  <2> QED BY <2>3, <2>4, <1>2 DEF Before
<1> QED BY <1>4, <1>5 DEF d

LEMMA BeforeDrop ==
    ASSUME NEW s \in Seq(Records), NoDuplicates(s), NEW r, NEW x, NEW y
    PROVE  Before(Drop(s, r), x, y) <=> Before(s, x, y) /\ x # r /\ y # r
<1>1. CASE r \notin InCache(s)
  <2>1. Before(s, x, y) => x # r /\ y # r
    BY <1>1 DEF Before, InCache
  <2> QED BY <2>1, <1>1 DEF Drop
<1>2. CASE r \in InCache(s)
  <2> DEFINE i == CHOOSE j \in DOMAIN s : s[j] = r
  <2>1. i \in DOMAIN s /\ s[i] = r
    BY <1>2 DEF InCache
  <2>2. Drop(s, r) = DropAt(s, i)
    BY <1>2 DEF Drop
  <2> HIDE DEF i
  <2> QED BY <2>1, <2>2, BeforeDropAt
<1> QED BY <1>1, <1>2

\* pop_front is the erasure of the front.
LEMMA TailIsDrop ==
    ASSUME NEW s \in Seq(Records), NoDuplicates(s), Len(s) > 0
    PROVE  Tail(s) = Drop(s, Head(s))
<1>1. /\ Len(s) \in Nat /\ DOMAIN s = 1..Len(s) /\ 1 \in DOMAIN s /\ Head(s) = s[1]
      /\ Tail(s) \in Seq(Records) /\ Len(Tail(s)) = Len(s) - 1
      /\ \A j \in 1..(Len(s) - 1) : Tail(s)[j] = s[j + 1]
  OBVIOUS
<1>2. (CHOOSE j \in DOMAIN s : s[j] = Head(s)) = 1
  <2>1. \A j \in DOMAIN s : s[j] = Head(s) => j = 1
    BY <1>1 DEF NoDuplicates
  <2> QED BY <2>1, <1>1
<1>3. Head(s) \in InCache(s)
  BY <1>1 DEF InCache
<1>4. Drop(s, Head(s)) = DropAt(s, 1)
  BY <1>2, <1>3 DEF Drop
<1>5. /\ DropAt(s, 1) \in Seq(Records) /\ Len(DropAt(s, 1)) = Len(s) - 1
      /\ \A j \in 1..(Len(s) - 1) : DropAt(s, 1)[j] = s[j + 1]
  BY <1>1 DEF DropAt
<1> QED BY <1>1, <1>4, <1>5

\* push_back makes the record the youngest.
LEMMA BeforeAppend ==
    ASSUME NEW s \in Seq(Records), NEW r \in Records, NEW x, NEW y
    PROVE  Before(Append(s, r), x, y) <=> Before(s, x, y) \/ (x \in InCache(s) /\ y = r)
<1> DEFINE n == Len(s)
           a == Append(s, r)
<1>1. /\ n \in Nat /\ DOMAIN s = 1..n /\ DOMAIN a = 1..(n + 1)
      /\ a[n + 1] = r /\ \A j \in 1..n : a[j] = s[j]
  OBVIOUS
<1> HIDE DEF n, a
<1>2. ASSUME Before(a, x, y) PROVE Before(s, x, y) \/ (x \in InCache(s) /\ y = r)
  <2>1. PICK i \in 1..(n + 1), j \in 1..(n + 1) : i < j /\ a[i] = x /\ a[j] = y
    BY <1>2, <1>1 DEF Before
  <2>2. i \in 1..n
    BY <2>1, <1>1
  <2>3. CASE j = n + 1
    BY <2>1, <2>2, <2>3, <1>1 DEF InCache
  <2>4. CASE j # n + 1
    <3>1. j \in 1..n
      BY <2>4, <1>1
    <3> QED BY <3>1, <2>1, <2>2, <1>1 DEF Before
  <2> QED BY <2>3, <2>4
<1>3. ASSUME Before(s, x, y) PROVE Before(a, x, y)
  <2>1. PICK i \in 1..n, j \in 1..n : i < j /\ s[i] = x /\ s[j] = y
    BY <1>3, <1>1 DEF Before
  <2>2. i \in 1..(n + 1) /\ j \in 1..(n + 1)
    BY <1>1
  <2> QED BY <2>1, <2>2, <1>1 DEF Before
<1>4. ASSUME x \in InCache(s), y = r PROVE Before(a, x, y)
  <2>1. PICK i \in 1..n : s[i] = x
    BY <1>4, <1>1 DEF InCache
  <2>2. i \in 1..(n + 1) /\ n + 1 \in 1..(n + 1) /\ i < n + 1
    BY <1>1
  <2> QED BY <2>1, <2>2, <1>1, <1>4 DEF Before
<1> QED BY <1>2, <1>3, <1>4 DEF a

LEMMA BeforeMembers ==
    ASSUME NEW s, NEW x, NEW y, Before(s, x, y)
    PROVE  x \in InCache(s) /\ y \in InCache(s)
BY DEF Before, InCache

-----------------------------------------------------------------------------
(* The order of the lists of a map. *)

\* The map new has the order of map, without the record r.
OrderWithout(new, map, r) ==
    \A u \in DOMAIN new : /\ u \in DOMAIN map
                          /\ \A x, y \in Records : Before(new[u].recList, x, y) =>
                               Before(map[u].recList, x, y) /\ x # r /\ y # r

LEMMA RemoveProcOrder ==
    ASSUME NEW map, GoodMap(map), NEW r \in Records
    PROVE  OrderWithout(RemoveAbilityRecInProcList(map, r), map, r)
<1> DEFINE t == TokenOf[r]
           new == RemoveAbilityRecInProcList(map, r)
<1>1. ASSUME NEW u \in DOMAIN map, r \notin InCache(map[u].recList), NEW x, NEW y,
             Before(map[u].recList, x, y)
      PROVE  x # r /\ y # r
  BY <1>1, BeforeMembers
<1>2. \A u \in DOMAIN map \ {t} : r \notin InCache(map[u].recList)
  BY DEF GoodMap
<1>3. CASE t \notin DOMAIN map \/ r \notin InCache(map[t].recList)
  <2>1. new = map
    BY <1>3 DEF RemoveAbilityRecInProcList
  <2>2. \A u \in DOMAIN map : r \notin InCache(map[u].recList)
    BY <1>2, <1>3
  <2> QED BY <1>1, <2>1, <2>2 DEF OrderWithout
<1>4. CASE t \in DOMAIN map /\ r \in InCache(map[t].recList) /\ map[t].cnt - 1 = 0
  <2>1. new = [u \in DOMAIN map \ {t} |-> map[u]]
    BY <1>4 DEF RemoveAbilityRecInProcList
  <2> QED BY <1>1, <1>2, <2>1 DEF OrderWithout
<1>5. CASE t \in DOMAIN map /\ r \in InCache(map[t].recList) /\ map[t].cnt - 1 # 0
  <2> DEFINE s == map[t].recList
  <2>1. /\ DOMAIN new = DOMAIN map
        /\ new[t].recList = Drop(s, r)
        /\ \A u \in DOMAIN map \ {t} : new[u] = map[u]
    BY <1>5 DEF RemoveAbilityRecInProcList
  <2>2. s \in Seq(Records) /\ NoDuplicates(s)
    BY <1>5 DEF GoodMap, GoodList
  <2>3. \A x, y : Before(Drop(s, r), x, y) => Before(s, x, y) /\ x # r /\ y # r
    BY <2>2, BeforeDrop
  <2> HIDE DEF new
  <2>4. OrderWithout(new, map, r)
    BY <1>1, <1>2, <2>1, <2>3 DEF OrderWithout
  <2> QED BY <2>4 DEF new
<1> QED BY <1>3, <1>4, <1>5

\* The map new has the order of map, without v and with r as the youngest of its list.
OrderWith(new, map, v, r) ==
    \A u \in DOMAIN new : \A x, y \in Records : Before(new[u].recList, x, y) =>
        \/ u \in DOMAIN map /\ Before(map[u].recList, x, y) /\ x # v /\ y # v
        \/ y = r /\ x \in Held(map) \ {v}

LEMMA AddToProcOrder ==
    ASSUME NEW map, GoodMap(map), NEW r \in Records, r \notin Held(map)
    PROVE  OrderWith(AddToProcLru(map, r), map, ProcVictim(map, r), r)
<1> DEFINE t == TokenOf[r]
           new == AddToProcLru(map, r)
           v == ProcVictim(map, r)
<1>0. /\ t \in Tokens /\ procCapacity \in Nat /\ procCapacity > 0
      /\ \A u \in DOMAIN map : InCache(map[u].recList) \subseteq Records \cap Held(map)
      /\ NoRecord \notin Records
  <2>1. \A u \in DOMAIN map : InCache(map[u].recList) \subseteq Records
    BY DEF GoodMap, GoodList, InCache
  <2>2. \A u \in DOMAIN map : InCache(map[u].recList) \subseteq Held(map)
    BY DEF Held
  <2> QED BY <2>1, <2>2, CacheConstants, ManagerConstants
<1>1. ASSUME NEW u \in DOMAIN map, v \notin InCache(map[u].recList), NEW x, NEW y,
             Before(map[u].recList, x, y)
      PROVE  x # v /\ y # v
  BY <1>1, BeforeMembers
<1>2. CASE t \notin DOMAIN map
  <2>1. /\ DOMAIN new = DOMAIN map \cup {t}
        /\ new[t].recList = <<r>>
        /\ \A u \in DOMAIN map : new[u] = map[u]
        /\ v = NoRecord
    BY <1>2 DEF AddToProcLru, ProcVictim
  <2>2. \A x, y : ~Before(<<r>>, x, y)
    BY DEF Before
  <2> HIDE DEF new, v
  <2>3. OrderWith(new, map, v, r)
    BY <1>0, <1>1, <2>1, <2>2 DEF OrderWith
  <2> QED BY <2>3 DEF new, v
<1>3. CASE t \in DOMAIN map
  <2> DEFINE s == map[t].recList
  <2>1. /\ s \in Seq(Records) /\ NoDuplicates(s) /\ map[t].cnt = Len(s) /\ Len(s) \in Nat
        /\ map[t] = [recList |-> s, cnt |-> Len(s)]
        /\ \A x \in InCache(s) : TokenOf[x] = t
    BY <1>3 DEF GoodMap, GoodList
  <2>2. CASE Len(s) = procCapacity
    <3>1. /\ DOMAIN new = DOMAIN map
          /\ new[t].recList = Append(Tail(s), r)
          /\ \A u \in DOMAIN map \ {t} : new[u] = map[u]
          /\ v = Head(s)
      BY <1>3, <2>1, <2>2 DEF AddToProcLru, ProcVictim
    <3>2. /\ Tail(s) = Drop(s, v) /\ Tail(s) \in Seq(Records) /\ v \in InCache(s)
          /\ InCache(Tail(s)) = InCache(s) \ {v}
      BY <1>0, <2>1, <2>2, <3>1, TailIsDrop, TailFacts
    <3>3. \A x, y : Before(Tail(s), x, y) <=> Before(s, x, y) /\ x # v /\ y # v
      BY <2>1, <3>2, BeforeDrop
    <3>4. \A x, y : Before(Append(Tail(s), r), x, y) <=>
                      Before(Tail(s), x, y) \/ (x \in InCache(Tail(s)) /\ y = r)
      BY <3>2, BeforeAppend
    <3>5. \A u \in DOMAIN map \ {t} : v \notin InCache(map[u].recList)
      BY <2>1, <3>2 DEF GoodMap
    <3>6. InCache(s) \subseteq Held(map)
      BY <1>0, <1>3
    <3> HIDE DEF new, v
    <3>7. ASSUME NEW u \in DOMAIN new, NEW x \in Records, NEW y \in Records, Before(new[u].recList, x, y)
          PROVE  \/ u \in DOMAIN map /\ Before(map[u].recList, x, y) /\ x # v /\ y # v
                 \/ y = r /\ x \in Held(map) \ {v}
      <4>1. CASE u = t
        <5>1. Before(Append(Tail(s), r), x, y)
          BY <3>1, <3>7, <4>1
        <5> QED BY <5>1, <4>1, <1>3, <3>2, <3>3, <3>4, <3>6
      <4>2. CASE u # t
        BY <4>2, <1>1, <3>1, <3>5, <3>7
      <4> QED BY <4>1, <4>2
    <3>8. OrderWith(new, map, v, r)
      BY <3>7 DEF OrderWith
    <3> QED BY <3>8 DEF new, v
  <2>3. CASE Len(s) # procCapacity
    <3>1. /\ DOMAIN new = DOMAIN map
          /\ new[t].recList = Append(s, r)
          /\ \A u \in DOMAIN map \ {t} : new[u] = map[u]
          /\ v = NoRecord
      BY <1>3, <2>1, <2>3 DEF AddToProcLru, ProcVictim
    <3>2. \A x, y : Before(Append(s, r), x, y) <=> Before(s, x, y) \/ (x \in InCache(s) /\ y = r)
      BY <2>1, BeforeAppend
    <3>3. \A u \in DOMAIN map : v \notin InCache(map[u].recList)
      BY <1>0, <3>1
    <3>4. InCache(s) \subseteq Held(map)
      BY <1>0, <1>3
    <3> HIDE DEF new, v
    <3>5. ASSUME NEW u \in DOMAIN new, NEW x \in Records, NEW y \in Records, Before(new[u].recList, x, y)
          PROVE  \/ u \in DOMAIN map /\ Before(map[u].recList, x, y) /\ x # v /\ y # v
                 \/ y = r /\ x \in Held(map) \ {v}
      <4>1. CASE u = t
        <5>1. Before(Append(s, r), x, y)
          BY <3>1, <3>5, <4>1
        <5>2. Before(s, x, y) => x # v /\ y # v
          BY <1>1, <1>3, <3>3
        <5> QED BY <5>1, <5>2, <4>1, <1>0, <1>3, <3>1, <3>2, <3>4
      <4>2. CASE u # t
        BY <4>2, <1>1, <3>1, <3>3, <3>5
      <4> QED BY <4>1, <4>2
    <3>6. OrderWith(new, map, v, r)
      BY <3>5 DEF OrderWith
    <3> QED BY <3>6 DEF new, v
  <2> QED BY <2>2, <2>3
<1> QED BY <1>2, <1>3

LEMMA GetProcOrder ==
    ASSUME NEW map, GoodMap(map), NEW t \in Tokens, NEW n,
           GetAbilityRecInProcList(map, t, n).rec # NoRecord
    PROVE  OrderWithout(GetAbilityRecInProcList(map, t, n).map, map,
                        GetAbilityRecInProcList(map, t, n).rec)
<1> DEFINE s == map[t].recList
           hits == {i \in DOMAIN s : NameOf[s[i]] = n}
           i == OldestIndex(hits)
           found == GetAbilityRecInProcList(map, t, n)
           new == [map EXCEPT ![t] = [recList |-> DropAt(@.recList, i), cnt |-> @.cnt - 1]]
<1>1. t \in DOMAIN map /\ hits # {}
  BY DEF GetAbilityRecInProcList
<1>2. s \in Seq(Records) /\ NoDuplicates(s) /\ Len(s) \in Nat /\ \A x \in InCache(s) : TokenOf[x] = t
  BY <1>1 DEF GoodMap, GoodList
<1>3. found = [rec |-> s[i], map |-> new]
  BY <1>1 DEF GetAbilityRecInProcList
<1>4. i \in DOMAIN s
  <2>1. hits \in SUBSET Nat /\ hits # {}
    BY <1>1, <1>2
  <2> HIDE DEF hits
  <2>2. \E m \in hits : \A j \in hits : m <= j
    BY <2>1, LeastElement
  <2>3. i \in hits
    BY <2>2 DEF OldestIndex
  <2> QED BY <2>3 DEF hits
<1> HIDE DEF i, found
<1>5. /\ DOMAIN new = DOMAIN map /\ new[t].recList = DropAt(s, i)
      /\ \A u \in DOMAIN map \ {t} : new[u] = map[u]
  BY <1>1
<1> HIDE DEF new
<1>6. \A x, y : Before(DropAt(s, i), x, y) => Before(s, x, y) /\ x # s[i] /\ y # s[i]
  BY <1>2, <1>4, BeforeDropAt
<1>7. s[i] \in InCache(s)
  BY <1>4 DEF InCache
<1>8. ASSUME NEW u \in DOMAIN new, NEW x \in Records, NEW y \in Records, Before(new[u].recList, x, y)
      PROVE  u \in DOMAIN map /\ Before(map[u].recList, x, y) /\ x # s[i] /\ y # s[i]
  <2>1. CASE u = t
    <3>1. Before(DropAt(s, i), x, y)
      BY <1>5, <1>8, <2>1
    <3> QED BY <3>1, <1>1, <1>6, <2>1
  <2>2. CASE u # t
    <3>1. s[i] \notin InCache(map[u].recList)
      BY <1>2, <1>5, <1>7, <2>2 DEF GoodMap
    <3> QED BY <1>5, <1>8, <2>2, <3>1, BeforeMembers
  <2> QED BY <2>1, <2>2
<1>9. OrderWithout(new, map, s[i])
  BY <1>5, <1>8 DEF OrderWithout
<1> QED BY <1>3, <1>9 DEF found

\* A record leaves both levels: the order stays.
LEMMA OrderedWithout ==
    ASSUME NEW d \in Seq(Records), NoDuplicates(d), NEW map, NEW new, NEW r,
           Ordered(d, map), OrderWithout(new, map, r)
    PROVE  Ordered(Drop(d, r), new)
<1> SUFFICES ASSUME NEW t \in DOMAIN new, NEW x \in Records, NEW y \in Records, Before(new[t].recList, x, y)
             PROVE  Before(Drop(d, r), x, y)
  BY DEF Ordered
<1>1. t \in DOMAIN map /\ Before(map[t].recList, x, y) /\ x # r /\ y # r
  BY DEF OrderWithout
<1>2. Before(d, x, y)
  BY <1>1 DEF Ordered
<1> QED BY <1>1, <1>2, BeforeDrop

\* A record joins both levels as the youngest, and v leaves both.
LEMMA OrderedWith ==
    ASSUME NEW d \in Seq(Records), NoDuplicates(d), NEW map, NEW new, NEW v, NEW r \in Records,
           Ordered(d, map), OrderWith(new, map, v, r), InCache(d) = Held(map)
    PROVE  Ordered(Append(Drop(d, v), r), new)
<1> SUFFICES ASSUME NEW t \in DOMAIN new, NEW x \in Records, NEW y \in Records, Before(new[t].recList, x, y)
             PROVE  Before(Append(Drop(d, v), r), x, y)
  BY DEF Ordered
<1>1. Drop(d, v) \in Seq(Records) /\ InCache(Drop(d, v)) = InCache(d) \ {v}
  BY DropFacts
<1>2. Before(Append(Drop(d, v), r), x, y) <=>
        Before(Drop(d, v), x, y) \/ (x \in InCache(Drop(d, v)) /\ y = r)
  BY <1>1, BeforeAppend
<1>3. CASE t \in DOMAIN map /\ Before(map[t].recList, x, y) /\ x # v /\ y # v
  <2>1. Before(d, x, y)
    BY <1>3 DEF Ordered
  <2> QED BY <1>2, <1>3, <2>1, BeforeDrop
<1>4. CASE y = r /\ x \in Held(map) \ {v}
  BY <1>1, <1>2, <1>4
<1> QED BY <1>3, <1>4 DEF OrderWith

\* What Put returns: the record of the token's own list, or of the device list.
Eliminated(dev, map, r) ==
    LET victim == ProcVictim(map, r)
        dev1   == IF victim = NoRecord THEN dev ELSE RemoveAbilityRecInDevList(dev, victim)
    IN  IF victim # NoRecord THEN victim ELSE DevVictim(dev1, victim)

\* Put leaves the device list without the record it returns and with the new one.
LEMMA PutList ==
    ASSUME NEW dev, NEW map, Good(dev, map), NEW r \in Records, r \notin InCache(dev.recList)
    PROVE  LET victim    == ProcVictim(map, r)
               map1      == AddToProcLru(map, r)
               dev1      == IF victim = NoRecord THEN dev
                            ELSE RemoveAbilityRecInDevList(dev, victim)
               devVictim == DevVictim(dev1, victim)
               map2      == IF devVictim = NoRecord THEN map1
                            ELSE RemoveAbilityRecInProcList(map1, devVictim)
               out       == Eliminated(dev, map, r)
           IN  /\ AddToDevLru(dev1, r, devVictim).recList = Append(Drop(dev.recList, out), r)
               /\ OrderWith(map2, map, out, r)
<1> DEFINE victim    == ProcVictim(map, r)
           map1      == AddToProcLru(map, r)
           dev1      == IF victim = NoRecord THEN dev
                        ELSE RemoveAbilityRecInDevList(dev, victim)
           devVictim == DevVictim(dev1, victim)
           map2      == IF devVictim = NoRecord THEN map1
                        ELSE RemoveAbilityRecInProcList(map1, devVictim)
           out       == Eliminated(dev, map, r)
           s         == dev.recList
<1>1. /\ GoodList(dev) /\ GoodMap(map) /\ InCache(s) = Held(map) /\ InCache(s) \subseteq Records
      /\ s \in Seq(Records) /\ NoDuplicates(s) /\ dev.cnt = Len(s) /\ Len(s) \in Nat
      /\ NoRecord \notin Records /\ devCapacity \in Nat /\ devCapacity > 0
  BY CacheConstants, ManagerConstants DEF Good, GoodList, InCache
<1>2. /\ GoodMap(map1)
      /\ victim # NoRecord => victim \in Held(map)
  BY <1>1, AddToProcFacts
<1>3. OrderWith(map1, map, victim, r)
  BY <1>1, AddToProcOrder
<1>4. out = IF victim # NoRecord THEN victim ELSE devVictim
  BY DEF Eliminated
<1>5. Drop(s, NoRecord) = s
  BY <1>1 DEF Drop
<1> HIDE DEF victim, map1, out
<1>6. CASE victim # NoRecord
  <2>1. devVictim = NoRecord /\ map2 = map1 /\ out = victim
    BY <1>4, <1>6 DEF DevVictim
  <2>2. victim \in InCache(s)
    BY <1>1, <1>2, <1>6
  <2>3. dev1.recList = Drop(s, victim)
    BY <1>6, <2>2 DEF RemoveAbilityRecInDevList
  <2>4. AddToDevLru(dev1, r, devVictim).recList = Append(Drop(s, out), r)
    BY <2>1, <2>3 DEF AddToDevLru
  <2> QED BY <2>1, <2>4, <1>3 DEF victim, map1, out
<1>7. CASE victim = NoRecord /\ devVictim = NoRecord
  <2>1. dev1 = dev /\ map2 = map1 /\ out = victim
    BY <1>4, <1>7
  <2>2. AddToDevLru(dev1, r, devVictim).recList = Append(s, r)
    BY <1>7, <2>1 DEF AddToDevLru
  <2> QED BY <2>1, <2>2, <1>3, <1>5, <1>7 DEF victim, map1, out
<1>8. CASE victim = NoRecord /\ devVictim # NoRecord
  <2>1. dev1 = dev /\ out = devVictim /\ map2 = RemoveAbilityRecInProcList(map1, devVictim)
    BY <1>4, <1>8
  <2>2. dev.cnt = devCapacity /\ devVictim = Head(s) /\ Len(s) > 0
    BY <1>1, <1>8, <2>1 DEF DevVictim
  <2>3. Tail(s) = Drop(s, out) /\ out \in InCache(s)
    BY <1>1, <2>1, <2>2, TailIsDrop, TailFacts
  <2>4. AddToDevLru(dev1, r, devVictim).recList = Append(Drop(s, out), r)
    BY <1>8, <2>1, <2>3 DEF AddToDevLru
  <2>5. OrderWithout(map2, map1, out)
    BY <1>1, <1>2, <2>1, <2>3, RemoveProcOrder
  <2> HIDE DEF map2
  <2>6. OrderWith(map2, map, out, r)
    BY <1>3, <2>5, <1>8 DEF OrderWith, OrderWithout
  <2> QED BY <2>4, <2>6 DEF victim, map1, out, map2
<1> QED BY <1>6, <1>7, <1>8


-----------------------------------------------------------------------------
(* The list of a token is what the abstract cache sees of that token. *)

\* As many records of a token are in the device list as in the token's own list.
LEMMA OwnCount ==
    ASSUME NEW dev, NEW map, Good(dev, map), NEW t \in Tokens
    PROVE  /\ t \notin DOMAIN map => Cardinality(OfToken(dev.recList, t)) = 0
           /\ t \in DOMAIN map =>
                Cardinality(OfToken(dev.recList, t)) = Len(map[t].recList)
<1> DEFINE d == dev.recList
           own == OfToken(d, t)
<1>1. d \in Seq(Records) /\ NoDuplicates(d) /\ InCache(d) = Held(map) /\ GoodMap(map)
  BY DEF Good, GoodList
<1>2. ASSUME NEW i \in own
      PROVE  t \in DOMAIN map /\ d[i] \in InCache(map[t].recList)
  <2>1. i \in DOMAIN d /\ TokenOf[d[i]] = t /\ d[i] \in Held(map)
    BY <1>1 DEF OfToken, InCache
  <2>2. PICK u \in DOMAIN map : d[i] \in InCache(map[u].recList)
    BY <2>1 DEF Held
  <2>3. u = t
    BY <1>1, <2>1, <2>2 DEF GoodMap
  <2> QED BY <2>2, <2>3
<1>3. CASE t \notin DOMAIN map
  <2>1. own = {}
    BY <1>2, <1>3
  <2> QED BY <1>3, <2>1, FS_EmptySet
<1>4. CASE t \in DOMAIN map
  <2> DEFINE s == map[t].recList
             n == Len(s)
             f == [j \in 1..n |-> CHOOSE i \in DOMAIN d : d[i] = s[j]]
  <2>1. /\ s \in Seq(Records) /\ NoDuplicates(s) /\ n \in Nat /\ DOMAIN s = 1..n
        /\ \A x \in InCache(s) : TokenOf[x] = t
    BY <1>1, <1>4 DEF GoodMap, GoodList
  <2>2. \A j \in 1..n : s[j] \in InCache(s) /\ s[j] \in InCache(d)
    <3>1. InCache(s) \subseteq InCache(d)
      BY <1>1, <1>4 DEF Held
    <3>2. \A j \in 1..n : s[j] \in InCache(s)
      BY <2>1 DEF InCache
    <3> QED BY <3>1, <3>2
  <2>3. \A j \in 1..n : f[j] \in DOMAIN d /\ d[f[j]] = s[j]
    BY <2>2 DEF InCache
  <2>4. DOMAIN f = 1..n /\ f = [j \in 1..n |-> f[j]]
    OBVIOUS
  <2> HIDE DEF f, n
  <2>5. \A j \in 1..n : f[j] \in own
    BY <2>1, <2>2, <2>3 DEF OfToken
  <2>6. f \in [1..n -> own]
    BY <2>4, <2>5
  <2>7. \A j, k \in 1..n : f[j] = f[k] => j = k
    BY <2>1, <2>3 DEF NoDuplicates
  <2>8. \A i \in own : \E j \in 1..n : f[j] = i
    <3> SUFFICES ASSUME NEW i \in own PROVE \E j \in 1..n : f[j] = i
      OBVIOUS
    <3>1. PICK j \in 1..n : s[j] = d[i]
      BY <1>2, <2>1 DEF InCache
    <3>2. i \in DOMAIN d /\ f[j] \in DOMAIN d /\ d[f[j]] = d[i]
      BY <2>3, <3>1 DEF OfToken
    <3>3. f[j] = i
      BY <1>1, <3>2 DEF NoDuplicates
    <3> QED BY <3>3
  <2> HIDE DEF own
  <2>9. ExistsBijection(1..n, own)
    <3>1. f \in Injection(1..n, own)
      BY <2>4, <2>6, <2>7 DEF Injection, IsInjective
    <3>2. f \in Surjection(1..n, own)
      BY <2>6, <2>8 DEF Surjection
    <3> QED BY <3>1, <3>2 DEF ExistsBijection, Bijection
  <2>10. IsFiniteSet(1..n) /\ Cardinality(1..n) = IF 1 > n THEN 0 ELSE n - 1 + 1
    <3>1. 1 \in Int /\ n \in Int
      BY <2>1
    <3> QED BY <3>1, FS_Interval
  <2>11. Cardinality(own) = Cardinality(1..n)
    BY <2>9, <2>10, FS_Bijection
  <2> QED BY <1>4, <2>1, <2>10, <2>11 DEF own, n
<1> QED BY <1>3, <1>4

\* The front of a token's list is the oldest of its records on the device.
LEMMA OldestIsFront ==
    ASSUME NEW dev, NEW map, Good(dev, map), Ordered(dev.recList, map),
           NEW t \in DOMAIN map, Len(map[t].recList) > 0
    PROVE  dev.recList[OldestIndex(OfToken(dev.recList, t))] = Head(map[t].recList)
<1> DEFINE d == dev.recList
           s == map[t].recList
           own == OfToken(d, t)
           m == OldestIndex(own)
<1>1. /\ d \in Seq(Records) /\ NoDuplicates(d) /\ InCache(d) = Held(map) /\ GoodMap(map)
      /\ Len(d) \in Nat /\ DOMAIN d = 1..Len(d)
  BY DEF Good, GoodList
<1>2. /\ s \in Seq(Records) /\ NoDuplicates(s) /\ Len(s) \in Nat /\ DOMAIN s = 1..Len(s)
      /\ \A x \in InCache(s) : TokenOf[x] = t
      /\ Head(s) = s[1] /\ 1 \in DOMAIN s
  BY <1>1 DEF GoodMap, GoodList
<1>3. InCache(s) \subseteq InCache(d)
  BY <1>1 DEF Held
<1>4. own \in SUBSET Nat /\ own # {}
  <2>1. s[1] \in InCache(s)
    BY <1>2 DEF InCache
  <2>2. PICK i \in DOMAIN d : d[i] = s[1]
    BY <1>3, <2>1 DEF InCache
  <2>3. i \in own
    BY <1>2, <2>1, <2>2 DEF OfToken
  <2> QED BY <1>1, <2>3 DEF OfToken
<1>5. m \in own /\ \A j \in own : m <= j
  <2> HIDE DEF own
  <2>1. \E k \in own : \A j \in own : k <= j
    BY <1>4, LeastElement
  <2> QED BY <2>1 DEF OldestIndex
<1> HIDE DEF m
<1>6. m \in DOMAIN d /\ TokenOf[d[m]] = t /\ d[m] \in InCache(d)
  BY <1>5 DEF OfToken, InCache
<1>7. d[m] \in InCache(s)
  <2>1. PICK u \in DOMAIN map : d[m] \in InCache(map[u].recList)
    BY <1>1, <1>6 DEF Held
  <2>2. u = t
    BY <1>1, <1>6, <2>1 DEF GoodMap
  <2> QED BY <2>1, <2>2
<1>8. PICK k \in DOMAIN s : s[k] = d[m]
  BY <1>7 DEF InCache
<1>9. k = 1
  <2> SUFFICES ASSUME k # 1 PROVE FALSE
    OBVIOUS
  <2>1. 1 < k /\ s[1] \in Records /\ d[m] \in Records
    BY <1>1, <1>2, <1>6, <1>8
  <2>2. Before(s, s[1], d[m])
    BY <1>2, <1>8, <2>1 DEF Before
  <2>3. Before(d, s[1], d[m])
    BY <2>1, <2>2 DEF Ordered
  <2>4. PICK i \in DOMAIN d, j \in DOMAIN d : i < j /\ d[i] = s[1] /\ d[j] = d[m]
    BY <2>3 DEF Before
  <2>5. j = m
    BY <1>1, <1>6, <2>4 DEF NoDuplicates
  <2>6. i \in own
    <3>1. s[1] \in InCache(s)
      BY <1>2 DEF InCache
    <3> QED BY <1>2, <2>4, <3>1 DEF OfToken
  <2> QED BY <1>1, <1>5, <1>6, <2>4, <2>5, <2>6
<1> QED BY <1>2, <1>8, <1>9 DEF m

\* Put gives up exactly what the abstract cache displaces.
LEMMA EliminatedIsDisplaced ==
    ASSUME NEW dev, NEW map, Good(dev, map), Ordered(dev.recList, map), NEW r \in Records
    PROVE  Append(Drop(dev.recList, Eliminated(dev, map, r)), r) = WithRecord(dev.recList, r)
<1> DEFINE d == dev.recList
           t == TokenOf[r]
           own == OfToken(d, t)
           victim == ProcVictim(map, r)
           out == Eliminated(dev, map, r)
<1>1. /\ d \in Seq(Records) /\ dev.cnt = Len(d) /\ Len(d) \in Nat /\ Len(d) <= devCapacity
      /\ GoodMap(map) /\ InCache(d) \subseteq Records
      /\ NoRecord \notin Records /\ t \in Tokens
      /\ devCapacity \in Nat /\ devCapacity > 0 /\ procCapacity \in Nat /\ procCapacity > 0
  BY CacheConstants, ManagerConstants DEF Good, GoodList, InCache
<1>2. /\ t \notin DOMAIN map => Cardinality(own) = 0
      /\ t \in DOMAIN map => Cardinality(own) = Len(map[t].recList)
  BY <1>1, OwnCount
<1>3. ASSUME t \in DOMAIN map
      PROVE  /\ map[t].recList \in Seq(Records) /\ map[t].cnt = Len(map[t].recList)
             /\ map[t].cnt \in Nat /\ map[t].cnt <= procCapacity
  BY <1>1, <1>3 DEF GoodMap, GoodList
<1>4. Drop(d, NoRecord) = d
  BY <1>1 DEF Drop
<1>5. ASSUME NEW x, Displaced(d, r) = {x} PROVE WithRecord(d, r) = Append(Drop(d, x), r)
  <2>1. Displaced(d, r) # {} /\ (CHOOSE y \in Displaced(d, r) : TRUE) = x
    BY <1>5
  <2> QED BY <2>1 DEF WithRecord
<1>6. CASE t \in DOMAIN map /\ map[t].cnt = procCapacity
  <2>1. victim = Head(map[t].recList) /\ Len(map[t].recList) > 0 /\ Cardinality(own) >= procCapacity
    BY <1>1, <1>2, <1>3, <1>6 DEF ProcVictim
  <2>2. victim \in Records
    BY <1>3, <1>6, <2>1
  <2>3. victim # NoRecord
    BY <1>1, <2>2
  <2>4. out = victim
    BY <2>3 DEF Eliminated
  <2>5. d[OldestIndex(own)] = victim
    BY <1>6, <2>1, OldestIsFront
  <2>6. Displaced(d, r) = {victim}
    BY <2>1, <2>5 DEF Displaced
  <2> HIDE DEF out, victim
  <2> QED BY <1>5, <2>4, <2>6 DEF out
<1>7. CASE ~(t \in DOMAIN map /\ map[t].cnt = procCapacity)
  <2>1. victim = NoRecord
    BY <1>7 DEF ProcVictim
  <2>2. ~(Cardinality(own) >= procCapacity)
    BY <1>1, <1>2, <1>3, <1>7
  <2>3. out = DevVictim(dev, NoRecord)
    BY <2>1 DEF Eliminated
  <2>4. CASE dev.cnt = devCapacity
    <3>1. out = d[1]
      BY <1>1, <2>3, <2>4 DEF DevVictim
    <3>2. Displaced(d, r) = {d[1]}
      BY <1>1, <2>2, <2>4 DEF Displaced
    <3> HIDE DEF out
    <3> QED BY <1>5, <3>1, <3>2 DEF out
  <2>5. CASE dev.cnt # devCapacity
    <3>1. out = NoRecord
      BY <2>3, <2>5 DEF DevVictim
    <3>2. Displaced(d, r) = {}
      BY <1>1, <2>2, <2>5 DEF Displaced
    <3>3. WithRecord(d, r) = Append(d, r)
      BY <3>2 DEF WithRecord
    <3> HIDE DEF out
    <3> QED BY <1>4, <3>1, <3>3 DEF out
  <2> QED BY <2>4, <2>5
<1> QED BY <1>6, <1>7

-----------------------------------------------------------------------------
(* The steps of the cache manager. *)

\* A record r has left both levels, and nothing else has changed in them.
Taken(r) ==
    /\ devRecLru' = Drop(devRecLru, r)
    /\ OrderWithout(procLruMap', procLruMap, r)

LEMMA TakenIsOrdered ==
    ASSUME RefinementInv, NEW r, Taken(r)
    PROVE  OrderAgrees'
<1>1. devRecLru \in Seq(Records) /\ NoDuplicates(devRecLru) /\ Ordered(devRecLru, procLruMap)
  BY DEF RefinementInv, CacheInv, TypeOK, ListsAgree, OrderAgrees
<1>2. Ordered(Drop(devRecLru, r), procLruMap')
  BY <1>1, OrderedWithout DEF Taken
<1> QED BY <1>2 DEF Taken, OrderAgrees

\* Remove, and each erasure of DeleteInvalidServiceRecord, take their record.
LEMMA RemoveTakes ==
    ASSUME RefinementInv, NEW r \in Records,
           procLruMap' = RemoveAbilityRecInProcList(procLruMap, r),
           SetDev(RemoveAbilityRecInDevList(Dev, r))
    PROVE  Taken(r)
<1>1. GoodMap(procLruMap)
  BY CacheInvIsGood DEF RefinementInv, GoodCache, Good
<1>2. OrderWithout(procLruMap', procLruMap, r)
  BY <1>1, RemoveProcOrder
<1>3. devRecLru' = RemoveAbilityRecInDevList(Dev, r).recList
  BY DEF SetDev
<1>4. devRecLru' = Drop(devRecLru, r)
  BY <1>3 DEF RemoveAbilityRecInDevList, Dev, Drop
<1> QED BY <1>2, <1>4 DEF Taken

\* Get takes the record it returns, which was cached.
LEMMA GetTakes ==
    ASSUME RefinementInv, NEW t \in Tokens, NEW n \in Names, Get(t, n)
    PROVE  LET rec == GetAbilityRecInProcList(procLruMap, t, n).rec
           IN  /\ last'.op = "Get" /\ last'.ret = rec
               /\ \/ rec = NoRecord /\ UNCHANGED <<devRecLru, procLruMap>>
                  \/ rec \in InCache(devRecLru) /\ Taken(rec)
<1> DEFINE found == GetAbilityRecInProcList(procLruMap, t, n)
<1>1. GoodMap(procLruMap) /\ InCache(devRecLru) = Held(procLruMap)
  BY CacheInvIsGood DEF RefinementInv, GoodCache, Good, Dev
<1>2. /\ found.rec = NoRecord => found.map = procLruMap
      /\ found.rec # NoRecord => found.rec \in Held(procLruMap)
  BY <1>1, GetProcFacts
<1>3. last'.op = "Get" /\ last'.ret = found.rec /\ procLruMap' = found.map
  BY DEF Get
<1>4. CASE found.rec = NoRecord
  BY <1>2, <1>3, <1>4 DEF Get
<1>5. CASE found.rec # NoRecord
  <2>1. OrderWithout(procLruMap', procLruMap, found.rec)
    BY <1>1, <1>3, <1>5, GetProcOrder
  <2>2. devRecLru' = RemoveAbilityRecInDevList(Dev, found.rec).recList
    BY <1>5 DEF Get, SetDev
  <2>3. devRecLru' = Drop(devRecLru, found.rec)
    BY <2>2 DEF RemoveAbilityRecInDevList, Dev, Drop
  <2> QED BY <1>1, <1>2, <1>3, <1>5, <2>1, <2>3 DEF Taken
<1> QED BY <1>4, <1>5

\* Put returns the one record that leaves, and does what the abstract cache does.
LEMMA PutDisplaces ==
    ASSUME RefinementInv, NEW r \in Records, Put(r)
    PROVE  /\ r \notin InCache(devRecLru)
           /\ devRecLru' = WithRecord(devRecLru, r)
           /\ devRecLru' = Append(Drop(devRecLru, last'.ret), r)
           /\ last'.op = "Put"
           /\ OrderAgrees'
<1> DEFINE victim    == ProcVictim(procLruMap, r)
           map1      == AddToProcLru(procLruMap, r)
           dev1      == IF victim = NoRecord THEN Dev
                        ELSE RemoveAbilityRecInDevList(Dev, victim)
           devVictim == DevVictim(dev1, victim)
           map2      == IF devVictim = NoRecord THEN map1
                        ELSE RemoveAbilityRecInProcList(map1, devVictim)
           out       == Eliminated(Dev, procLruMap, r)
<1>1. Good(Dev, procLruMap) /\ Dev.recList = devRecLru
  BY CacheInvIsGood DEF RefinementInv, GoodCache, Dev
<1>2. /\ devRecLru \in Seq(Records) /\ NoDuplicates(devRecLru)
      /\ Ordered(devRecLru, procLruMap) /\ InCache(devRecLru) = Held(procLruMap)
  BY <1>1 DEF RefinementInv, CacheInv, TypeOK, ListsAgree, OrderAgrees, Good
<1>3. r \notin InCache(devRecLru)
  BY DEF Put
<1>4. /\ AddToDevLru(dev1, r, devVictim).recList = Append(Drop(devRecLru, out), r)
      /\ OrderWith(map2, procLruMap, out, r)
  <2>1. r \notin InCache(Dev.recList)
    BY <1>1, <1>3
  <2>2. /\ AddToDevLru(dev1, r, devVictim).recList = Append(Drop(Dev.recList, out), r)
        /\ OrderWith(map2, procLruMap, out, r)
    BY <1>1, <2>1, PutList
  <2> QED BY <1>1, <2>2
<1>5. Append(Drop(devRecLru, out), r) = WithRecord(devRecLru, r)
  <2>1. Ordered(Dev.recList, procLruMap)
    BY <1>1, <1>2
  <2>2. Append(Drop(Dev.recList, out), r) = WithRecord(Dev.recList, r)
    BY <1>1, <2>1, EliminatedIsDisplaced
  <2> QED BY <1>1, <2>2
<1>6. last'.op = "Put" /\ last'.ret = out
  BY DEF Put, Eliminated
<1>7. devRecLru' = AddToDevLru(dev1, r, devVictim).recList /\ procLruMap' = map2
  BY DEF Put, SetDev
<1> HIDE DEF out, map2, dev1, devVictim
<1>8. Ordered(Append(Drop(devRecLru, out), r), map2)
  BY <1>2, <1>4, OrderedWith
<1>9. OrderAgrees'
  BY <1>4, <1>7, <1>8 DEF OrderAgrees
<1> QED BY <1>3, <1>4, <1>5, <1>6, <1>7, <1>9

\* One case for each way a step can treat the device list.  All of it is needed
\* three times: for the order, for the abstract cache and for what a caller gets.
CachedStep ==
    \/ \E r \in Records :
         /\ r \notin InCache(devRecLru)
         /\ devRecLru' = WithRecord(devRecLru, r)
         /\ devRecLru' = Append(Drop(devRecLru, last'.ret), r)
         /\ last'.op = "Put"
    \/ \E r \in Records :
         /\ devRecLru' = Drop(devRecLru, r)
         /\ \/ last'.op = "Remove" /\ last'.arg = r
            \/ last'.op = "Get" /\ last'.ret = r
            \/ last'.op = "Delete" /\ last'.arg = BundleOf[TokenOf[r]]
    \/ devRecLru' = <<>> /\ last'.op = "Init"
    \/ devRecLru' = devRecLru

LEMMA RefinementStep ==
    ASSUME RefinementInv, [Next]_cacheVars
    PROVE  OrderAgrees' /\ WalkArg' /\ CachedStep
<1>1. /\ devRecLru \in Seq(Records) /\ walkAt \in Nat \ {0} /\ NoBundle \notin Bundles
      /\ InCache(devRecLru) \subseteq Records
  BY ManagerConstants DEF RefinementInv, CacheInv, TypeOK, InCache
<1>2. ASSUME UNCHANGED <<devRecLru, procLruMap>> PROVE OrderAgrees' /\ CachedStep
  BY <1>2 DEF RefinementInv, OrderAgrees, CachedStep
<1>3. ASSUME NEW r \in Records, Put(r) PROVE OrderAgrees' /\ WalkArg' /\ CachedStep
  <2>1. WalkArg'
    BY <1>3 DEF Put, WalkArg
  <2>2. /\ r \notin InCache(devRecLru)
        /\ devRecLru' = WithRecord(devRecLru, r)
        /\ devRecLru' = Append(Drop(devRecLru, last'.ret), r)
        /\ last'.op = "Put"
        /\ OrderAgrees'
    BY <1>3, PutDisplaces
  <2> QED BY <2>1, <2>2 DEF CachedStep
<1>4. ASSUME NEW r \in Records, Remove(r) PROVE OrderAgrees' /\ WalkArg' /\ CachedStep
  <2>1. WalkArg' /\ last'.op = "Remove" /\ last'.arg = r
    BY <1>4 DEF Remove, WalkArg
  <2>2. Taken(r)
    BY <1>4, RemoveTakes DEF Remove
  <2> QED BY <2>1, <2>2, TakenIsOrdered DEF CachedStep, Taken
<1>5. ASSUME NEW t \in Tokens, NEW n \in Names, Get(t, n)
      PROVE  OrderAgrees' /\ WalkArg' /\ CachedStep
  <2> DEFINE rec == GetAbilityRecInProcList(procLruMap, t, n).rec
  <2>1. WalkArg'
    BY <1>5 DEF Get, WalkArg
  <2>2. /\ last'.op = "Get" /\ last'.ret = rec
        /\ \/ rec = NoRecord /\ UNCHANGED <<devRecLru, procLruMap>>
           \/ rec \in InCache(devRecLru) /\ Taken(rec)
    BY <1>5, GetTakes
  <2> HIDE DEF rec
  <2>3. CASE UNCHANGED <<devRecLru, procLruMap>>
    BY <1>2, <2>1, <2>3
  <2>4. CASE rec \in InCache(devRecLru) /\ Taken(rec)
    <3>1. rec \in Records
      BY <1>1, <2>4
    <3> QED BY <2>1, <2>2, <2>4, <3>1, TakenIsOrdered DEF CachedStep, Taken
  <2> QED BY <2>2, <2>3, <2>4
<1>6. ASSUME NEW b \in Bundles, DeleteInvalidServiceRecord(b)
      PROVE  OrderAgrees' /\ WalkArg' /\ CachedStep
  BY <1>2, <1>6 DEF DeleteInvalidServiceRecord, WalkArg
<1>7. CASE DeleteSkip
  BY <1>2, <1>7 DEF DeleteSkip, WalkArg, RefinementInv
<1>8. CASE DeleteErase
  <2> DEFINE r == devRecLru[walkAt]
  <2>1. r \in Records
    BY <1>1, <1>8 DEF DeleteErase
  <2>2. WalkArg' /\ last'.op = "Delete" /\ last'.arg = BundleOf[TokenOf[r]]
    BY <1>8 DEF DeleteErase, RefinementInv, WalkArg
  <2>3. Taken(r)
    BY <1>8, <2>1, RemoveTakes DEF DeleteErase
  <2> HIDE DEF r
  <2> QED BY <2>1, <2>2, <2>3, TakenIsOrdered DEF CachedStep, Taken
<1>9. CASE DeleteCrashes
  <2>1. /\ devRecLru' = <<>> /\ last'.op = "Init" /\ WalkArg'
        /\ procLruMap' = [t \in {} |-> [recList |-> <<>>, cnt |-> 0]]
    BY <1>9 DEF DeleteCrashes, SetDev, WalkArg
  <2>2. DOMAIN procLruMap' = {}
    BY <2>1
  <2>3. OrderAgrees'
    BY <2>2 DEF OrderAgrees, Ordered
  <2> QED BY <2>1, <2>3 DEF CachedStep
<1>10. CASE DeleteEnds
  BY <1>2, <1>10 DEF DeleteEnds, WalkArg, RefinementInv
<1>11. CASE UNCHANGED cacheVars
  BY <1>2, <1>11 DEF cacheVars, WalkArg, RefinementInv
<1> QED
  BY <1>3, <1>4, <1>5, <1>6, <1>7, <1>8, <1>9, <1>10, <1>11 DEF Next

LEMMA RefinementInit == Init => RefinementInv
<1> SUFFICES ASSUME Init PROVE OrderAgrees /\ WalkArg
  BY CacheInit DEF RefinementInv
<1>1. DOMAIN procLruMap = {} /\ WalkArg
  BY DEF Init, WalkArg
<1> QED BY <1>1 DEF OrderAgrees, Ordered

LEMMA RefinementInductive == RefinementInv /\ [Next]_cacheVars => RefinementInv'
BY CacheStep, RefinementStep DEF RefinementInv

-----------------------------------------------------------------------------
(* The theorems. *)

\* ability_cache_manager.cpp implements the one-list cache of ExtensionCache:
\* each Put displaces the record the abstract cache displaces, the oldest of its
\* own application instance or else the oldest of the device, and every other
\* operation takes one cached record, or nothing.
THEOREM CacheRefines == Spec => ImplementsCache
<1>1. Init => Abstract!CacheInit
  BY DEF Init, Abstract!CacheInit
<1>2. ASSUME RefinementInv, [Next]_cacheVars
      PROVE  [Abstract!CacheNext]_devRecLru
  <2>1. CachedStep
    BY <1>2, RefinementStep
  <2>2. ASSUME NEW r \in Records, r \notin InCache(devRecLru),
               devRecLru' = WithRecord(devRecLru, r)
        PROVE  Abstract!CachePut(r)
    <3>1. Abstract!InCache(devRecLru) = InCache(devRecLru)
      BY DEF Abstract!InCache, InCache
    <3>2. Abstract!Displaced(devRecLru, r) = Displaced(devRecLru, r)
      <4> DEFINE own == OfToken(devRecLru, TokenOf[r])
      <4>1. Abstract!Cardinality(own) = Cardinality(own)
        BY DEF Abstract!Cardinality, Cardinality
      <4>2. Abstract!OfToken(devRecLru, TokenOf[r]) = own
        BY DEF Abstract!OfToken, OfToken
      <4>3. Abstract!OldestIndex(own) = OldestIndex(own)
        BY DEF Abstract!OldestIndex, OldestIndex
      <4> QED BY <4>1, <4>2, <4>3 DEF Abstract!Displaced, Displaced
    <3>3. ASSUME NEW x PROVE Abstract!Drop(devRecLru, x) = Drop(devRecLru, x)
      BY <3>1 DEF Abstract!Drop, Abstract!DropAt, Drop, DropAt
    <3>4. Abstract!WithRecord(devRecLru, r) = WithRecord(devRecLru, r)
      BY <3>2, <3>3 DEF Abstract!WithRecord, WithRecord
    <3> QED BY <2>2, <3>1, <3>4 DEF Abstract!CachePut
  <2>3. ASSUME NEW r \in Records, r \in InCache(devRecLru), devRecLru' = Drop(devRecLru, r)
        PROVE  Abstract!CacheTake(r)
    BY <2>3 DEF Abstract!CacheTake, Abstract!InCache, Abstract!Drop, Abstract!DropAt,
                InCache, Drop, DropAt
  <2>4. ASSUME NEW r \in Records, r \notin InCache(devRecLru), devRecLru' = Drop(devRecLru, r)
        PROVE  devRecLru' = devRecLru
    BY <2>4 DEF Drop
  <2>5. devRecLru' = <<>> => Abstract!CacheLost
    BY DEF Abstract!CacheLost
  <2> QED
    BY <2>1, <2>2, <2>3, <2>4, <2>5 DEF CachedStep, Abstract!CacheNext
<1> QED
  BY <1>1, <1>2, RefinementInit, RefinementInductive, PTL
     DEF Spec, ImplementsCache, Abstract!CacheSpec

\* A cached record leaves the cache only in the hands of a caller: as what Put
\* eliminates or Get returns, as the argument of Remove, or as a record of the
\* bundle that DeleteInvalidServiceRecord deletes.
THEOREM CacheDropsNothing == Spec => NoSilentDrop
<1> DEFINE Handed(r) ==
             CASE last'.op \in {"Put", "Get"} -> r = last'.ret
               [] last'.op = "Remove"         -> r = last'.arg
               [] last'.op = "Delete"         -> BundleOf[TokenOf[r]] = last'.arg
               [] OTHER                       -> TRUE
           Kept == \A r \in InCache(devRecLru) \ InCache(devRecLru') : Handed(r)
<1>1. ASSUME RefinementInv, [Next]_cacheVars
      PROVE  Kept
  <2>1. CachedStep
    BY <1>1, RefinementStep
  <2>2. devRecLru \in Seq(Records) /\ NoDuplicates(devRecLru)
    BY <1>1 DEF RefinementInv, CacheInv, TypeOK, ListsAgree
  <2>3. ASSUME NEW x PROVE InCache(Drop(devRecLru, x)) = InCache(devRecLru) \ {x}
    BY <2>2, DropFacts
  <2> SUFFICES ASSUME NEW r \in InCache(devRecLru), r \notin InCache(devRecLru')
               PROVE  Handed(r)
    OBVIOUS
  <2>4. ASSUME NEW x \in Records, devRecLru' = Append(Drop(devRecLru, last'.ret), x),
               last'.op = "Put"
        PROVE  Handed(r)
    <3> DEFINE d == Drop(devRecLru, last'.ret)
    <3>1. d \in Seq(Records) /\ InCache(d) = InCache(devRecLru) \ {last'.ret}
      BY <2>2, DropFacts
    <3> HIDE DEF d
    <3>2. InCache(d) \subseteq InCache(Append(d, x))
      BY <3>1 DEF InCache
    <3>3. devRecLru' = Append(d, x)
      BY <2>4 DEF d
    <3>4. r = last'.ret
      BY <3>1, <3>2, <3>3
    <3> QED BY <2>4, <3>4
  <2>5. ASSUME NEW x \in Records, devRecLru' = Drop(devRecLru, x),
               \/ last'.op = "Remove" /\ last'.arg = x
               \/ last'.op = "Get" /\ last'.ret = x
               \/ last'.op = "Delete" /\ last'.arg = BundleOf[TokenOf[x]]
        PROVE  Handed(r)
    <3>1. r = x
      BY <2>3, <2>5
    <3> QED BY <2>5, <3>1
  <2>6. last'.op = "Init" => Handed(r)
    OBVIOUS
  <2>7. devRecLru' # devRecLru
    OBVIOUS
  <2> QED BY <2>1, <2>4, <2>5, <2>6, <2>7 DEF CachedStep
<1>2. RefinementInv /\ [Next]_cacheVars => [Kept]_cacheVars
  BY <1>1
<1>3. NoSilentDrop <=> [][Kept]_cacheVars
  BY DEF NoSilentDrop
<1> HIDE DEF Kept
<1> QED
  BY <1>2, <1>3, RefinementInit, RefinementInductive, PTL DEF Spec
=============================================================================
