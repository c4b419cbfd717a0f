--------------------------- MODULE ExtensionCache ---------------------------
(***************************************************************************)
(* What the cache of idle extension records promises: one list of records, *)
(* oldest first, in which no application instance (access token) holds     *)
(* more than procCapacity records and the device no more than devCapacity. *)
(* A record that does not fit displaces the oldest record of its own       *)
(* application instance, or else the oldest record of the device.          *)
(*                                                                         *)
(* AbilityCacheManager.tla models the code and implements this module;     *)
(* AbilityConnectManager.tla uses the same operators.                      *)
(***************************************************************************)
EXTENDS CacheLists

VARIABLE
    cached          \* the cached records, oldest first

CacheInit == cached = <<>>

CachePut(r) == r \notin InCache(cached) /\ cached' = WithRecord(cached, r)

\* A record is taken out to be reused, or is removed or deleted.
CacheTake(r) == r \in InCache(cached) /\ cached' = Drop(cached, r)

\* The service that holds the cache restarts.
CacheLost == cached' = <<>>

CacheNext ==
    \/ \E r \in Records : CachePut(r) \/ CacheTake(r)
    \/ CacheLost

CacheSpec == CacheInit /\ [][CacheNext]_cached
=============================================================================
