----------------------------- MODULE MCManagers -----------------------------
(***************************************************************************)
(* One instance of each of five managers.  They run in different           *)
(* processes, or under different locks of one service, and share no state: *)
(* a behaviour is one of a single manager, which is chosen at the start,   *)
(* and the other managers rest in their initial states.                    *)
(***************************************************************************)
EXTENDS DataAbilityManager, QuickFixManager, AppRunning, UIAbilityLifecycle, AppStartup, TLC

CONSTANTS d1, d2, A, data, system, s1, k1, k2, k3

MCNameOf == [d \in Records |-> A]
MCKindOf == [c \in Callers |-> IF c = data THEN "data" ELSE "system"]

VARIABLE manager    \* the manager this behaviour is about

ManagersInit ==
    /\ manager \in {"data", "quickfix", "app", "ui", "startup"}
    /\ Init /\ QuickFixInit /\ AppInit /\ UIInit /\ StartupInit
    /\ manager # "quickfix" => fixAlive = {}
    /\ ~sceneBoard      \* DelayKillAbility terminates by force here, too
    /\ manager # "startup" => deps = [t \in StartupTasks |-> {}]

\* Two records of one name are interchangeable: d1 is the one that is made first.
InOrder == state[d2] # "none" => state[d1] # "none"

ManagersNext ==
    \/ /\ manager = "data" /\ Next /\ InOrder'
       /\ UNCHANGED <<manager, fixVars, appVars, uiVars, startupVars>>
    \/ manager = "quickfix" /\ QuickFixNext /\ UNCHANGED <<manager, dataVars, appVars, uiVars, startupVars>>
    \/ manager = "app" /\ AppNext /\ UNCHANGED <<manager, dataVars, fixVars, uiVars, startupVars>>
    \/ manager = "ui" /\ UINext /\ UNCHANGED <<manager, dataVars, fixVars, appVars, startupVars>>
    \/ manager = "startup" /\ StartupNext /\ UNCHANGED <<manager, dataVars, fixVars, appVars, uiVars>>

ManagersSpec ==
    ManagersInit /\ [][ManagersNext]_<<manager, dataVars, fixVars, appVars, uiVars, startupVars>>

\* The variables of each manager have their types.
ManagersTypes == TypeOK /\ QuickFixTypes /\ AppTypes /\ UITypes /\ StartupTypes
=============================================================================
