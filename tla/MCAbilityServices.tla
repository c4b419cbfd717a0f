-------------------------- MODULE MCAbilityServices --------------------------
(***************************************************************************)
(* The cache of idle extensions and the manager of UI abilities of the     *)
(* ability manager service, and the startup framework in the application   *)
(* whose abilities it launches.  They share no state: a behaviour is one   *)
(* of the three, chosen at the start.                                      *)
(*                                                                         *)
(* Of the cache there are five records of two access tokens; two records   *)
(* of t1 share their module and ability names (form render services that   *)
(* differ only in their index do).  Token t1 owns more records than        *)
(* procCapacity and the two tokens together more than devCapacity, so both *)
(* evictions happen.                                                       *)
(***************************************************************************)
EXTENDS AbilityCacheManager, UIAbilityLifecycle, AppStartup, TLC

CONSTANTS r1, r2, r3, r4, r5, t1, t2, b1, b2, n1, n2, s1, s2, k1, k2

MCRecords == {r1, r2, r3, r4, r5}
MCTokenOf == r1 :> t1 @@ r2 :> t1 @@ r3 :> t1 @@ r4 :> t2 @@ r5 :> t2
MCBundleOf == t1 :> b1 @@ t2 :> b2
MCNameOf == r1 :> n1 @@ r2 :> n2 @@ r3 :> n1 @@ r4 :> n1 @@ r5 :> n2

VARIABLE manager    \* the manager this behaviour is about

ServicesInit ==
    /\ manager \in {"cache", "ui", "startup"}
    /\ Init /\ UIInit /\ StartupInit
    /\ manager # "startup" => deps = [t \in StartupTasks |-> {}]

ServicesNext ==
    \/ manager = "cache" /\ Next /\ UNCHANGED <<manager, uiVars, startupVars>>
    \/ manager = "ui" /\ UINext /\ UNCHANGED <<manager, cacheVars, startupVars>>
    \/ manager = "startup" /\ StartupNext /\ UNCHANGED <<manager, cacheVars, uiVars>>

ServicesSpec ==
    /\ ServicesInit
    /\ [][ServicesNext]_<<manager, cacheVars, uiVars, startupVars>>
    /\ UIFairness /\ StartupFairness
=============================================================================
