---------------------------- MODULE MCAppServices ----------------------------
(***************************************************************************)
(* The quick fix service and the records of running applications of the    *)
(* application manager.  They share no state: a behaviour is one of the    *)
(* two, chosen at the start.                                               *)
(***************************************************************************)
EXTENDS QuickFixManager, AppRunning, TLC

VARIABLE manager    \* the manager this behaviour is about

ServicesInit ==
    /\ manager \in {"quickfix", "app"}
    /\ QuickFixInit /\ AppInit
    /\ manager # "quickfix" => fixAlive = {}
    /\ manager # "app" => sceneBoard

ServicesNext ==
    \/ manager = "quickfix" /\ QuickFixNext /\ UNCHANGED <<manager, appVars>>
    \/ manager = "app" /\ AppNext /\ UNCHANGED <<manager, fixVars>>

ServicesSpec ==
    /\ ServicesInit
    /\ [][ServicesNext]_<<manager, fixVars, appVars>>
    /\ QuickFixFairness /\ AppFairness
=============================================================================
