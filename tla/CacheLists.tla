----------------------------- MODULE CacheLists -----------------------------
(***************************************************************************)
(* The constants and the list operators shared by the cache of idle        *)
(* extension records (AbilityCacheManager), by what that cache promises    *)
(* (ExtensionCache) and by its user (AbilityConnectManager).               *)
(***************************************************************************)
EXTENDS Integers, Sequences, FiniteSets

CONSTANTS
    Records,        \* ability records that can be cached
    Tokens,         \* access tokens: one per application instance
    Bundles,        \* bundle names
    TokenOf,        \* the access token of a record's application
    BundleOf,       \* the bundle an access token was issued for
    devCapacity,    \* most records cached on the device
    procCapacity    \* most records cached for one access token

ASSUME CacheConstants ==
    /\ TokenOf \in [Records -> Tokens]
    /\ BundleOf \in [Tokens -> Bundles]
    /\ devCapacity \in Nat \ {0}
    /\ procCapacity \in Nat \ {0}

-----------------------------------------------------------------------------
InCache(cache) == {cache[i] : i \in DOMAIN cache}

NoDuplicates(list) == \A i, j \in DOMAIN list : list[i] = list[j] => i = j

OldestIndex(I) == CHOOSE i \in I : \A j \in I : i <= j

\* Positions in the cache of the records of access token t.
OfToken(cache, t) == {i \in DOMAIN cache : TokenOf[cache[i]] = t}

\* The cache without the entry at position i.
DropAt(cache, i) ==
    [j \in 1..(Len(cache) - 1) |-> IF j < i THEN cache[j] ELSE cache[j + 1]]

\* The cache without record r (a record is cached at most once).
Drop(cache, r) ==
    IF r \in InCache(cache)
    THEN DropAt(cache, CHOOSE i \in DOMAIN cache : cache[i] = r)
    ELSE cache

\* The cache without the records of R: the entries that are kept, in their order.
Without(cache, R) ==
    LET kept    == {i \in DOMAIN cache : cache[i] \notin R}
        Rank(i) == Cardinality({j \in kept : j <= i})
    IN  [n \in 1..Cardinality(kept) |-> cache[CHOOSE i \in kept : Rank(i) = n]]

\* The records (none or one) that have to leave to make room for record r.
Displaced(cache, r) ==
    LET own == OfToken(cache, TokenOf[r])
    IN  IF Cardinality(own) >= procCapacity THEN {cache[OldestIndex(own)]}
        ELSE IF Len(cache) >= devCapacity THEN {cache[1]}
        ELSE {}

\* The cache after record r has been put into it.
WithRecord(cache, r) ==
    Append(IF Displaced(cache, r) = {} THEN cache
           ELSE Drop(cache, CHOOSE x \in Displaced(cache, r) : TRUE), r)
=============================================================================
