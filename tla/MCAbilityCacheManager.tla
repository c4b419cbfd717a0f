----------------------- MODULE MCAbilityCacheManager -----------------------
(***************************************************************************)
(* Five records of two access tokens; two records of t1 share their module *)
(* and ability names (form render services that differ only in their       *)
(* index do).  Token t1 owns more records than procCapacity and the two    *)
(* tokens together more than devCapacity, so both evictions happen.        *)
(***************************************************************************)
EXTENDS AbilityCacheManager, TLC

CONSTANTS r1, r2, r3, r4, r5, t1, t2, b1, b2, n1, n2

MCRecords == {r1, r2, r3, r4, r5}
MCTokenOf == r1 :> t1 @@ r2 :> t1 @@ r3 :> t1 @@ r4 :> t2 @@ r5 :> t2
MCBundleOf == t1 :> b1 @@ t2 :> b2
MCNameOf == r1 :> n1 @@ r2 :> n2 @@ r3 :> n1 @@ r4 :> n1 @@ r5 :> n2
=============================================================================
