------------------------ MODULE AbilityCacheManager ------------------------
(***************************************************************************)
(* services/abilitymgr/src/ability_cache_manager.cpp: the two-level LRU    *)
(* cache of idle extension records.  The code keeps every cached record in *)
(* two lists, one for the device and one per access token, with a counter  *)
(* beside each list; every public operation holds mutex_ from its first to *)
(* its last access, so each one is a single step here, except that the     *)
(* walk of DeleteInvalidServiceRecord takes one step per list element,     *)
(* during which the lock keeps every other operation out.                  *)
(*                                                                         *)
(* The capacities are set once by AbilityManagerService::Init before the   *)
(* first operation.                                                        *)
(***************************************************************************)
EXTENDS CacheLists

CONSTANTS
    Names,          \* (module name, ability name) pairs
    NameOf,         \* the name of a record
    NoRecord,       \* nullptr
    NoBundle        \* no deletion is under way

ASSUME ManagerConstants ==
    /\ NameOf \in [Records -> Names]
    /\ NoRecord \notin Records
    /\ NoBundle \notin Bundles

VARIABLES
    devRecLru,      \* list of all cached records, oldest first
    devLruCnt,      \* its counter
    procLruMap,     \* access token -> [recList, cnt]; absent tokens have no entry
    walkBundle,     \* the bundle DeleteInvalidServiceRecord is deleting, or NoBundle
    walkAt,         \* the position of its iterator in devRecLru
    last            \* the last operation: [op, arg, ret], ret the record returned

cacheVars == <<devRecLru, devLruCnt, procLruMap, walkBundle, walkAt, last>>

-----------------------------------------------------------------------------
\* Mutant: the counter is decremented although the record was not found.
MutantRemoveCountsMisses(dev, r) ==
    [recList |-> Drop(dev.recList, r), cnt |-> dev.cnt - 1]

\* What RemoveAbilityRecInDevList does to the list and its counter.
RemoveAbilityRecInDevList(dev, r) ==
    IF r \in InCache(dev.recList)
    THEN [recList |-> Drop(dev.recList, r), cnt |-> dev.cnt - 1]
    ELSE dev

\* An entry whose counter drops to zero leaves the map.
RemoveAbilityRecInProcList(map, r) ==
    LET t == TokenOf[r]
    IN  IF t \notin DOMAIN map \/ r \notin InCache(map[t].recList) THEN map
        ELSE IF map[t].cnt - 1 = 0
        THEN [u \in DOMAIN map \ {t} |-> map[u]]
        ELSE [map EXCEPT ![t] = [recList |-> Drop(@.recList, r), cnt |-> @.cnt - 1]]

\* The record the access token's list gives up for r, if that list is full.
ProcVictim(map, r) ==
    LET t == TokenOf[r]
    IN  IF t \in DOMAIN map /\ map[t].cnt = procCapacity
        THEN Head(map[t].recList) ELSE NoRecord

\* Mutant: a record is pushed to the front of a list that has room.
MutantAddToFront(map, r) ==
    LET t == TokenOf[r]
    IN  IF t \notin DOMAIN map
        THEN [u \in DOMAIN map \cup {t} |->
                 IF u = t THEN [recList |-> <<r>>, cnt |-> 1] ELSE map[u]]
        ELSE IF map[t].cnt = procCapacity
        THEN [map EXCEPT ![t].recList = Append(Tail(@), r)]
        ELSE [map EXCEPT ![t] = [recList |-> <<r>> \o @.recList, cnt |-> @.cnt + 1]]

\* The map after AddToProcLru: a full list drops its front, keeping its count.
AddToProcLru(map, r) ==
    LET t == TokenOf[r]
    IN  IF t \notin DOMAIN map
        THEN [u \in DOMAIN map \cup {t} |->
                 IF u = t THEN [recList |-> <<r>>, cnt |-> 1] ELSE map[u]]
        ELSE IF map[t].cnt = procCapacity
        THEN [map EXCEPT ![t].recList = Append(Tail(@), r)]
        ELSE [map EXCEPT ![t] = [recList |-> Append(@.recList, r), cnt |-> @.cnt + 1]]

\* Mutant: the device list is considered full one record too late.
MutantDevVictimLate(dev, victim) ==
    IF victim = NoRecord /\ dev.cnt = devCapacity + 1 THEN Head(dev.recList) ELSE NoRecord

\* Mutant: a device list that was full when Put began gives up its oldest record
\* even though the access token's own list has already given up one.
MutantDevVictimAgain(dev, victim) ==
    IF dev.cnt = (IF victim = NoRecord THEN devCapacity ELSE devCapacity - 1)
    THEN Head(dev.recList) ELSE NoRecord

\* AddToDevLru looks at the device capacity only when no record has already
\* been given up by the access token's own list.
DevVictim(dev, victim) ==
    IF victim = NoRecord /\ dev.cnt = devCapacity THEN Head(dev.recList) ELSE NoRecord

AddToDevLru(dev, r, devVictim) ==
    IF devVictim # NoRecord
    THEN [recList |-> Append(Tail(dev.recList), r), cnt |-> dev.cnt]
    ELSE [recList |-> Append(dev.recList, r), cnt |-> dev.cnt + 1]

Dev == [recList |-> devRecLru, cnt |-> devLruCnt]

SetDev(dev) == devRecLru' = dev.recList /\ devLruCnt' = dev.cnt

-----------------------------------------------------------------------------
Init ==
    /\ devRecLru = <<>>
    /\ devLruCnt = 0
    /\ procLruMap = [t \in {} |-> [recList |-> <<>>, cnt |-> 0]]
    /\ walkBundle = NoBundle
    /\ walkAt = 1
    /\ last = [op |-> "Init", arg |-> NoRecord, ret |-> NoRecord]

\* A record enters the cache when the connect manager has dropped it from its
\* service map; it is not cached already.  The eliminated record is returned.
Put(r) ==
    /\ walkBundle = NoBundle
    /\ r \notin InCache(devRecLru)
    /\ LET victim    == ProcVictim(procLruMap, r)
           map1      == AddToProcLru(procLruMap, r)
           dev1      == IF victim = NoRecord THEN Dev
                        ELSE RemoveAbilityRecInDevList(Dev, victim)
           devVictim == DevVictim(dev1, victim)
           map2      == IF devVictim = NoRecord THEN map1
                        ELSE RemoveAbilityRecInProcList(map1, devVictim)
       IN  /\ SetDev(AddToDevLru(dev1, r, devVictim))
           /\ procLruMap' = map2
           /\ last' = [op |-> "Put", arg |-> r,
                       ret |-> IF victim # NoRecord THEN victim ELSE devVictim]
    /\ UNCHANGED <<walkBundle, walkAt>>

\* Remove is called for records that may or may not be cached.
Remove(r) ==
    /\ walkBundle = NoBundle
    /\ procLruMap' = RemoveAbilityRecInProcList(procLruMap, r)
    /\ SetDev(RemoveAbilityRecInDevList(Dev, r))
    /\ last' = [op |-> "Remove", arg |-> r, ret |-> NoRecord]
    /\ UNCHANGED <<walkBundle, walkAt>>

\* Mutant: the counter of the entry is not decremented when a record is taken.
MutantGetKeepsCount(map, t, n) ==
    LET hits == IF t \in DOMAIN map
                THEN {i \in DOMAIN map[t].recList : NameOf[map[t].recList[i]] = n} ELSE {}
    IN  IF hits = {} THEN [rec |-> NoRecord, map |-> map]
        ELSE [rec |-> map[t].recList[OldestIndex(hits)],
              map |-> [map EXCEPT ![t].recList = DropAt(@, OldestIndex(hits))]]

\* GetAbilityRecInProcList: the first record of the token with that name.  The
\* entry of the token stays in the map, with an empty list, when it was the last.
GetAbilityRecInProcList(map, t, n) ==
    LET hits == IF t \in DOMAIN map
                THEN {i \in DOMAIN map[t].recList : NameOf[map[t].recList[i]] = n} ELSE {}
    IN  IF hits = {} THEN [rec |-> NoRecord, map |-> map]
        ELSE [rec |-> map[t].recList[OldestIndex(hits)],
              map |-> [map EXCEPT ![t] = [recList |-> DropAt(@.recList, OldestIndex(hits)),
                                          cnt     |-> @.cnt - 1]]]

Get(t, n) ==
    LET found == GetAbilityRecInProcList(procLruMap, t, n)
    IN  /\ walkBundle = NoBundle
        /\ procLruMap' = found.map
        /\ IF found.rec = NoRecord THEN UNCHANGED <<devRecLru, devLruCnt>>
           ELSE SetDev(RemoveAbilityRecInDevList(Dev, found.rec))
        /\ last' = [op |-> "Get", arg |-> n, ret |-> found.rec]
        /\ UNCHANGED <<walkBundle, walkAt>>

\* DeleteInvalidServiceRecord walks the device list, from its beginning.
DeleteInvalidServiceRecord(b) ==
    /\ walkBundle = NoBundle
    /\ walkBundle' = b
    /\ walkAt' = 1
    /\ last' = [op |-> "Delete", arg |-> b, ret |-> NoRecord]
    /\ UNCHANGED <<devRecLru, devLruCnt, procLruMap>>

\* One turn of its loop at a record of another bundle.
DeleteSkip ==
    /\ walkBundle # NoBundle
    /\ walkAt <= Len(devRecLru)
    /\ BundleOf[TokenOf[devRecLru[walkAt]]] # walkBundle
    /\ walkAt' = walkAt + 1
    /\ UNCHANGED <<devRecLru, devLruCnt, procLruMap, walkBundle, last>>

\* One turn at a record of the bundle: it is erased from both lists, and then
\* the iterator that pointed to it is incremented, which is undefined behaviour.
\* If the freed node is still intact the walk goes on with the next record; if
\* it has been reused the walk may end anywhere, here at once.
DeleteErase ==
    /\ walkBundle # NoBundle
    /\ walkAt <= Len(devRecLru)
    /\ BundleOf[TokenOf[devRecLru[walkAt]]] = walkBundle
    /\ procLruMap' = RemoveAbilityRecInProcList(procLruMap, devRecLru[walkAt])
    /\ SetDev(RemoveAbilityRecInDevList(Dev, devRecLru[walkAt]))
    /\ \/ UNCHANGED <<walkBundle, walkAt>>
       \/ walkBundle' = NoBundle /\ walkAt' = 1
    /\ UNCHANGED last

\* ... or following the reused node crashes the service, which starts afresh.
DeleteCrashes ==
    /\ walkBundle # NoBundle
    /\ walkAt <= Len(devRecLru)
    /\ BundleOf[TokenOf[devRecLru[walkAt]]] = walkBundle
    /\ SetDev([recList |-> <<>>, cnt |-> 0])
    /\ procLruMap' = [t \in {} |-> [recList |-> <<>>, cnt |-> 0]]
    /\ walkBundle' = NoBundle
    /\ walkAt' = 1
    /\ last' = [op |-> "Init", arg |-> NoRecord, ret |-> NoRecord]

\* The walk reaches the end of the list and releases mutex_.
DeleteEnds ==
    /\ walkBundle # NoBundle
    /\ walkAt > Len(devRecLru)
    /\ walkBundle' = NoBundle
    /\ walkAt' = 1
    /\ UNCHANGED <<devRecLru, devLruCnt, procLruMap, last>>

Next ==
    \/ \E r \in Records : Put(r) \/ Remove(r)
    \/ \E t \in Tokens, n \in Names : Get(t, n)
    \/ \E b \in Bundles : DeleteInvalidServiceRecord(b)
    \/ DeleteSkip \/ DeleteErase \/ DeleteCrashes \/ DeleteEnds

Spec == Init /\ [][Next]_cacheVars

-----------------------------------------------------------------------------
TypeOK ==
    /\ devRecLru \in Seq(Records)
    /\ devLruCnt \in Nat
    /\ walkBundle \in Bundles \cup {NoBundle}
    /\ walkAt \in Nat \ {0}
    /\ DOMAIN procLruMap \subseteq Tokens
    /\ \A t \in DOMAIN procLruMap :
          procLruMap[t] \in [recList : Seq(Records), cnt : Nat]

\* Both levels hold the same records, each of them once, and both counters say
\* how long their list is: a record that is in one list only could never be
\* found, or never be evicted, and a wrong counter lets a list grow past its
\* capacity, because fullness is tested with == (ability_cache_manager.cpp:91, 111).
ListsAgree ==
    /\ NoDuplicates(devRecLru)
    /\ devLruCnt = Len(devRecLru)
    /\ \A t \in DOMAIN procLruMap :
          /\ NoDuplicates(procLruMap[t].recList)
          /\ procLruMap[t].cnt = Len(procLruMap[t].recList)
          /\ \A r \in InCache(procLruMap[t].recList) : TokenOf[r] = t
    /\ InCache(devRecLru) = UNION {InCache(procLruMap[t].recList) : t \in DOMAIN procLruMap}

\* Neither the device nor any access token ever holds more than its capacity
\* (AddToProcLru, AddToDevLru).
WithinCapacity ==
    /\ Len(devRecLru) <= devCapacity
    /\ \A t \in DOMAIN procLruMap : Len(procLruMap[t].recList) <= procCapacity

\* A cached record leaves the cache only in the hands of the caller: as the
\* record Put eliminates or Get returns, or as the one the caller removes or
\* deletes.  (TerminateOrCacheAbility terminates what Put returns; a record
\* dropped in silence would keep its process running for ever.)
NoSilentDrop ==
    [][\A r \in InCache(devRecLru) \ InCache(devRecLru') :
          CASE last'.op \in {"Put", "Get"} -> r = last'.ret
            [] last'.op = "Remove"         -> r = last'.arg
            [] last'.op = "Delete"         -> BundleOf[TokenOf[r]] = last'.arg
            [] OTHER                       -> TRUE]_cacheVars

\* The two lists implement the one list of the abstract specification: every Put
\* displaces exactly the record the abstract cache displaces, in LRU order.
Abstract == INSTANCE ExtensionCache WITH cached <- devRecLru

ImplementsCache == Abstract!CacheSpec

\* "Delete the invalid ability by bundleName from ability cache manager."
\* (ability_cache_manager.h:109): after DeleteInvalidServiceRecord no record of
\* the bundle is cached.
DeletedBundleIsGone ==
    last.op = "Delete" /\ walkBundle = NoBundle => \A r \in InCache(devRecLru) : BundleOf[TokenOf[r]] # last.arg

=============================================================================
