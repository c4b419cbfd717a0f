-------------------------- MODULE UIAbilityLifecycle --------------------------
(***************************************************************************)
(* UIAbilityLifecycleManager (services/abilitymgr/src/scene_board), which  *)
(* drives the UI abilities of one user on devices where SceneBoard owns    *)
(* the windows, with the part of AbilityRecord it uses and with            *)
(* UIAbilityImpl, the other end of every life cycle command, in the        *)
(* application.                                                            *)
(*                                                                         *)
(* The manager's calls take sessionLock_ for the whole of their work and   *)
(* each is one action.  An answer of the application is dispatched under   *)
(* the lock, but the transition is completed by a task posted to the       *)
(* serial queue of the service: anything may happen in between.  Timeouts  *)
(* may fire at any moment after they were armed; applications answer       *)
(* late, never, or die.                                                    *)
(*                                                                         *)
(* Left out: start by call (tmpAbilityMap_), specified processes, debug    *)
(* mode (no timeouts are armed), the results given to callers, silent      *)
(* foreground and the first, merely logged, half of each timeout; that a   *)
(* background timeout which has begun may wait for sessionLock_ while an   *)
(* answer is dispatched; and isNewWant, with which an ability that takes   *)
(* itself for backgrounded handles a background command after all.         *)
(* Whether a record is of new process mode is read off its session.        *)
(***************************************************************************)
EXTENDS Naturals, Sequences, FiniteSets

CONSTANTS
  UISessions,         \* persistentIds of the windows SceneBoard manages
  StatusBarSessions,  \* sessions started in new process mode
  MaxUIRecords,       \* ability records created in one behaviour
  MaxUICommands       \* commands an application may have unhandled when a
                      \* further one is asked for past the pending state

ASSUME UIConstants ==
  /\ StatusBarSessions \subseteq UISessions
  /\ MaxUIRecords \in Nat \ {0}
  /\ MaxUICommands \in Nat

VARIABLES
  uis,            \* the ability records, by their order of creation
  sessionMap,     \* sessionAbilityMap_
  terminateList,  \* terminateAbilityList_
  uiTasks         \* tasks of the service's serial queue that complete a
                  \* transition, oldest first

uiVars == <<uis, sessionMap, terminateList, uiTasks>>

UIRecords == 1..MaxUIRecords
NoUI      == 0
UIStates  == {"initial", "foregrounding", "foreground", "backgrounding",
              "background", "terminating"}
UITimers  == {"load", "foreground", "background", "terminate", "kill"}
UITaskKinds == {"foregrounded", "failed", "freezed", "backgrounded",
                "terminated", "died"}

(* AbilityRecord: currentState_, pendingState_, isTerminating_, isReady_,  *)
(* whether its visibility state was set and whether the death recipient is *)
(* registered; the timeouts armed for it; whether the application manager  *)
(* owes it OnAbilityRequestDone; what the application manager was told to  *)
(* do with it.  The application: its process, the commands it has not      *)
(* handled, UIAbilityImpl's lifecycleState_ and notifyForegroundByAbility_, *)
(* its window, whether the window manager ever refused to show it without  *)
(* failing (frozen, or nothing to do), and whether SceneBoard was asked to *)
(* close the session because the process could not be attached.            *)
UIRecordType ==
  [state : UIStates, pending : {"initial", "foreground", "background"},
   terminating : BOOLEAN, ready : BOOLEAN, visible : BOOLEAN,
   watched : BOOLEAN, timers : SUBSET UITimers, asked : BOOLEAN,
   told : SUBSET {"terminate", "kill"},
   proc : {"none", "starting", "running", "dead"},
   commands : Seq({"foreground", "background", "terminate"}),
   impl : {"initial", "started", "foreground", "background", "stopped"},
   byAbility : BOOLEAN, refused : BOOLEAN, closeAsked : BOOLEAN,
   window : {"hidden", "showing", "shown", "hiding"}]

UnusedUI ==
  [state |-> "initial", pending |-> "initial", terminating |-> FALSE,
   ready |-> FALSE, visible |-> FALSE, watched |-> FALSE, timers |-> {},
   asked |-> FALSE, told |-> {}, proc |-> "none", commands |-> <<>>,
   impl |-> "initial", byAbility |-> FALSE, refused |-> FALSE,
   closeAsked |-> FALSE, window |-> "hidden"]

UITypes ==
  /\ uis \in [UIRecords -> UIRecordType]
  /\ sessionMap \in [UISessions -> UIRecords \cup {NoUI}]
  /\ terminateList \subseteq UIRecords
  /\ uiTasks \in Seq([kind : UITaskKinds, record : UIRecords])

UIInit ==
  /\ uis = [r \in UIRecords |-> UnusedUI]
  /\ sessionMap = [s \in UISessions |-> NoUI]
  /\ terminateList = {}
  /\ uiTasks = <<>>

-----------------------------------------------------------------------------
(* AbilityRecord: each operator is the record after one of its methods.    *)

(* lifecycleDeal_ forgets the scheduler when the application dies.         *)
SendTo(u, command) ==
  IF u.proc = "running" /\ u.ready
  THEN [u EXCEPT !.commands = Append(@, command)] ELSE u

Arm(u, timer)    == [u EXCEPT !.timers = @ \cup {timer}]
Disarm(u, timer) == [u EXCEPT !.timers = @ \ {timer}]

ForegroundAbility(u) ==
  SendTo([u EXCEPT !.state = "foregrounding"], "foreground")

(* AppScheduler::MoveToForeground: answered with OnAbilityRequestDone.     *)
MoveToForeground(u) == [u EXCEPT !.asked = u.proc \in {"starting", "running"}]

LoadUIAbility(u) ==
  Arm([u EXCEPT !.proc = IF @ = "none" THEN "starting" ELSE @], "load")

ProcessForegroundAbility(u) ==
  CASE ~u.ready -> LoadUIAbility(u)
    [] u.ready /\ u.state = "foreground" ->
         ForegroundAbility(Arm(u, "foreground"))
    [] OTHER ->
         MoveToForeground([Arm(u, "foreground") EXCEPT
                             !.state = "foregrounding"])

(* As below, but the application is not told.                              *)
MutantBackgroundUnsent(u) == [Arm(u, "background") EXCEPT !.state = "backgrounding"]

MoveToBackground(u) ==
  SendTo([Arm(u, "background") EXCEPT !.state = "backgrounding"], "background")

TerminateUI(u) ==
  SendTo([Arm(u, "terminate") EXCEPT !.state = "terminating"], "terminate")

(* The application's own state, of which the manager hears only while the  *)
(* record is known: AbilityTransactionDone looks it up.                    *)
Unheard(u) == [u EXCEPT !.commands = <<>>, !.impl = "initial",
                        !.byAbility = FALSE, !.window = "hidden"]

(* A dead application has nothing left that could be terminated or killed. *)
ToldTo(u, what) ==
  IF u.proc = "dead" THEN u ELSE [u EXCEPT !.told = @ \cup {what}]

-----------------------------------------------------------------------------
InMap(r) == \E s \in UISessions : sessionMap[s] = r

(* GetAbilityRecordByToken looks in both containers.                       *)
Known(r) == InMap(r) \/ r \in terminateList

(* EraseAbilityRecord: compares tokens, so it never erases the record that *)
(* a later start put under the same session.                               *)
Erased(r) == [s \in UISessions |-> IF sessionMap[s] = r THEN NoUI
                                                        ELSE sessionMap[s]]
SetUI(r, u)  == uis' = [uis EXCEPT ![r] = u]
PostUI(kind, r) == uiTasks' = Append(uiTasks, [kind |-> kind, record |-> r])

StartUIAbility(s) ==
  /\ IF sessionMap[s] = NoUI
     THEN \E r \in UIRecords :
            /\ uis[r].proc = "none"
            /\ \A q \in UIRecords : q < r => uis[q].proc # "none"
            /\ SetUI(r, LoadUIAbility([uis[r] EXCEPT !.pending = "foreground"]))
            /\ sessionMap' = [sessionMap EXCEPT ![s] = r]
     ELSE LET u == uis[sessionMap[s]]
              wanted == [u EXCEPT !.pending = "foreground"]
          IN /\ SetUI(sessionMap[s], IF u.pending # "initial" THEN wanted
                                     ELSE ProcessForegroundAbility(wanted))
             /\ UNCHANGED sessionMap
  /\ UNCHANGED <<terminateList, uiTasks>>

(* A session of new process mode is shown again from the status bar: the   *)
(* pending state is not looked at.                                         *)
ChangeUIAbilityVisibilityBySCB(s) ==
  LET r == sessionMap[s] IN
  /\ r # NoUI
  /\ uis[r].visible
  /\ Len(uis[r].commands) + Len(uiTasks) < MaxUICommands
  /\ SetUI(r, ProcessForegroundAbility(uis[r]))
  /\ UNCHANGED <<sessionMap, terminateList, uiTasks>>

MinimizeUIAbility(s) ==
  LET r == sessionMap[s]
      u == uis[r]
      wanted == [u EXCEPT !.pending = "background"]
  IN /\ r # NoUI
     /\ \/ u.pending # "initial" /\ SetUI(r, wanted)
        \/ /\ u.pending = "initial" /\ u.state = "foreground"
           /\ SetUI(r, MoveToBackground(wanted))
     /\ UNCHANGED <<sessionMap, terminateList, uiTasks>>

(* The load timeout is removed only when the ability never attached; a     *)
(* record that never left INITIAL is dropped at once.                      *)
CloseUIAbilityInner(r) ==
  LET u == [uis[r] EXCEPT !.terminating = TRUE] IN
  IF uis[r].terminating /\ uis[r].state \notin {"foreground", "foregrounding"}
  THEN UNCHANGED <<uis, sessionMap, terminateList>>
  ELSE /\ sessionMap' = Erased(r)
       /\ IF u.state = "initial"
          THEN /\ SetUI(r, ToldTo(Unheard(IF u.ready THEN u ELSE Disarm(u, "load")),
                                  "terminate"))
               /\ UNCHANGED terminateList
          ELSE /\ terminateList' = terminateList \cup {r}
               /\ SetUI(r, CASE u.state \in {"foreground", "foregrounding"} ->
                                  MoveToBackground([u EXCEPT !.pending = "background"])
                             [] u.state = "background" -> TerminateUI(u)
                             [] OTHER -> u)

CloseUIAbility(s) ==
  /\ sessionMap[s] # NoUI
  /\ CloseUIAbilityInner(sessionMap[s])
  /\ UNCHANGED uiTasks

-----------------------------------------------------------------------------
(* As below, but no timeout watches over the foreground of the ability.    *)
MutantAttachUntimed(r) ==
  /\ uis[r].proc = "starting"
  /\ SetUI(r, IF InMap(r)
              THEN [Disarm(uis[r], "load") EXCEPT !.proc = "running", !.ready = TRUE, !.watched = TRUE]
              ELSE [uis[r] EXCEPT !.proc = "running"])
  /\ UNCHANGED <<sessionMap, terminateList, uiTasks>>

(* The application attaches; a record the manager gave up is not known.    *)
(* DoProcessAttachment may fail in new process mode: TerminateSession asks *)
(* SceneBoard to close the session, and nothing else is done.              *)
UIAttachAbilityThread(r) ==
  LET attached == [Disarm(uis[r], "load") EXCEPT !.proc = "running", !.ready = TRUE,
                                                 !.watched = TRUE]
  IN /\ uis[r].proc = "starting"
     /\ \/ InMap(r) /\ SetUI(r, MoveToForeground(Arm(attached, "foreground")))
        \/ /\ \E s \in StatusBarSessions : sessionMap[s] = r
           /\ SetUI(r, [attached EXCEPT !.closeAsked = TRUE])
        \/ ~InMap(r) /\ SetUI(r, [uis[r] EXCEPT !.proc = "running"])
     /\ UNCHANGED <<sessionMap, terminateList, uiTasks>>

(* The application manager reports that the application is in the          *)
(* foreground: the ability may follow.  Nothing is done for a record that  *)
(* is not known any more.                                                  *)
OnAbilityRequestDone(r) ==
  LET u == [uis[r] EXCEPT !.asked = FALSE] IN
  /\ uis[r].asked /\ uis[r].proc = "running" /\ Known(r)
  /\ SetUI(r, IF u.terminating THEN Disarm(u, "foreground") ELSE ForegroundAbility(u))
  /\ UNCHANGED <<sessionMap, terminateList, uiTasks>>

(* As below, but every answer of a foregrounding ability is dispatched.    *)
MutantDispatchEverything(r, u, answer) ==
  /\ IF Known(r) /\ u.state = "foregrounding"
     THEN SetUI(r, Disarm(u, "foreground")) /\ PostUI(answer, r)
     ELSE SetUI(r, u) /\ UNCHANGED uiTasks
  /\ UNCHANGED <<sessionMap, terminateList>>

(* AbilityTransactionDone and DispatchState: u is the record after the     *)
(* application's own part of the step, answer what it reports.  An answer  *)
(* that does not fit the state is refused and disarms nothing.             *)
AbilityTransactionDone(r, u, answer) ==
  LET posts(timer, kind) == SetUI(r, Disarm(u, timer)) /\ PostUI(kind, r) IN
  /\ CASE Known(r) /\ answer \in {"foregrounded", "failed", "freezed"}
               /\ u.state = "foregrounding" -> posts("foreground", answer)
       [] Known(r) /\ answer = "backgrounded" /\ u.state = "backgrounding" ->
            posts("background", answer)
       [] Known(r) /\ answer = "terminated" /\ u.state = "terminating" ->
            posts("terminate", answer)
       [] OTHER -> SetUI(r, u) /\ UNCHANGED uiTasks
  /\ UNCHANGED <<sessionMap, terminateList>>

-----------------------------------------------------------------------------
(* The tasks that complete a transition.                                   *)

(* As below, but a foreground request that was served stays pending.       *)
MutantForegroundKeepsPending(r) ==
  LET u == [uis[r] EXCEPT !.state = "foreground"] IN
  /\ SetUI(r, IF u.pending = "background" THEN MoveToBackground(u) ELSE u)
  /\ UNCHANGED <<sessionMap, terminateList>>

CompleteForegroundSuccess(r) ==
  LET u == [uis[r] EXCEPT
              !.state = "foreground",
              !.visible = @ \/ \E s \in StatusBarSessions : sessionMap[s] = r]
  IN /\ SetUI(r, CASE u.pending = "background" -> MoveToBackground(u)
                   [] u.pending = "foreground" -> [u EXCEPT !.pending = "initial"]
                   [] OTHER -> u)
     /\ UNCHANGED <<sessionMap, terminateList>>

HandleForegroundFailed(r) ==
  IF uis[r].state = "foregrounding" THEN CloseUIAbilityInner(r)
                                    ELSE UNCHANGED <<uis, sessionMap, terminateList>>

(* Neither the lock nor the state is looked at, and the pending state      *)
(* stays as it was.                                                        *)
WindowFreezed(r) ==
  /\ SetUI(r, [uis[r] EXCEPT !.state = "background"])
  /\ UNCHANGED <<sessionMap, terminateList>>

(* As below, but the start that came meanwhile is forgotten.               *)
MutantBackgroundForgetsStart(r, us) ==
  /\ uis' = IF us[r].state # "backgrounding" THEN us
            ELSE [us EXCEPT ![r] =
                    IF r \in terminateList
                    THEN TerminateUI([@ EXCEPT !.state = "background"])
                    ELSE [@ EXCEPT !.state = "background"]]
  /\ UNCHANGED <<sessionMap, terminateList>>

(* As below, but the terminate list is not looked through.                 *)
MutantBackgroundSparesClosed(r, us) ==
  /\ uis' = IF us[r].state # "backgrounding" THEN us
            ELSE [us EXCEPT ![r] = [@ EXCEPT !.state = "background",
                                             !.pending = "initial"]]
  /\ UNCHANGED <<sessionMap, terminateList>>

(* Every ability of the terminate list that is in the background is told   *)
(* to terminate, not only r.                                               *)
CompleteBackground(r, us) ==
  LET u == [us[r] EXCEPT !.state = "background"]
      next == CASE u.pending = "foreground" ->
                     MoveToForeground(Arm(u, "foreground"))
                [] u.pending = "background" -> [u EXCEPT !.pending = "initial"]
                [] OTHER -> u
      all == [us EXCEPT ![r] = next]
  IN /\ uis' = IF us[r].state # "backgrounding" THEN us
               ELSE [q \in UIRecords |->
                       IF q \in terminateList /\ all[q].state = "background"
                       THEN TerminateUI(all[q]) ELSE all[q]]
     /\ UNCHANGED <<sessionMap, terminateList>>

CompleteTerminate(r, us) ==
  IF us[r].state # "terminating"
  THEN uis' = us /\ UNCHANGED <<sessionMap, terminateList>>
  ELSE /\ uis' = [us EXCEPT ![r] = ToldTo([Unheard(@) EXCEPT !.watched = FALSE], "terminate")]
       /\ terminateList' = terminateList \ {r}
       /\ UNCHANGED sessionMap

(* UIOnAbilityDied sets the state and posts CompleteTerminate through        *)
(* DispatchTerminate; the session is told and the process killed.          *)
UIOnAbilityDied(r) ==
  LET u == uis[r]
      stale == (IF u.state = "initial" THEN {"load"} ELSE {})
               \cup (IF u.state = "foregrounding" THEN {"foreground"} ELSE {})
               \cup (IF u.state = "backgrounding" THEN {"background"} ELSE {})
               \cup {"terminate"}
  IN /\ SetUI(r, ToldTo([u EXCEPT !.timers = @ \ stale,
                                  !.state = "terminating"], "kill"))
     /\ sessionMap' = Erased(r)
     /\ terminateList' = terminateList \cup {r}

RunUITask ==
  /\ uiTasks # <<>>
  /\ LET kind == Head(uiTasks).kind
         r    == Head(uiTasks).record
     IN /\ uiTasks' = IF kind = "died"
                      THEN Append(Tail(uiTasks), [kind |-> "terminated", record |-> r])
                      ELSE Tail(uiTasks)
        /\ CASE kind = "foregrounded" -> CompleteForegroundSuccess(r)
             [] kind = "failed"       -> HandleForegroundFailed(r)
             [] kind = "freezed"      -> WindowFreezed(r)
             [] kind = "backgrounded" -> CompleteBackground(r, uis)
             [] kind = "terminated"   -> CompleteTerminate(r, uis)
             [] OTHER                 -> UIOnAbilityDied(r)

-----------------------------------------------------------------------------
(* Timeouts.  OnTimeOut looks only in the session map and does nothing for *)
(* a record that has left it, which never returns: no step is made of that. *)
(* The timeouts that run as delayed tasks have no such look.               *)

(* As below, but the process that did not answer is left running.          *)
MutantTimeoutSparesProcess(r, timer) ==
  LET acts == timer = "load" \/ uis[r].state = "foregrounding" IN
  /\ InMap(r) /\ timer \in uis[r].timers \cap {"load", "foreground"}
  /\ SetUI(r, Disarm(uis[r], timer))
  /\ sessionMap' = IF acts THEN Erased(r) ELSE sessionMap
  /\ UNCHANGED <<terminateList, uiTasks>>

(* HandleForegroundTimeout acts in FOREGROUNDING only.                     *)
OnTimeOut(r, timer) ==
  LET u == Disarm(uis[r], timer)
      acts == timer = "load" \/ u.state = "foregrounding"
  IN /\ InMap(r) /\ timer \in uis[r].timers \cap {"load", "foreground"}
     /\ SetUI(r, IF acts THEN ToldTo(Unheard(u), "kill") ELSE u)
     /\ sessionMap' = IF acts THEN Erased(r) ELSE sessionMap
     /\ UNCHANGED <<terminateList, uiTasks>>

(* A delayed task of the serial queue runs after the tasks that were there *)
(* before it was due.                                                      *)
Due(r, timer) ==
  /\ timer \in uis[r].timers
  /\ \A i \in DOMAIN uiTasks : uiTasks[i].record # r

UIBackgroundTimeout(r) ==
  /\ Due(r, "background")
  /\ CompleteBackground(r, [uis EXCEPT ![r] = Disarm(@, "background")])
  /\ UNCHANGED uiTasks

(* DelayCompleteTerminate: the application gets a last delay.              *)
TerminateTimeout(r) ==
  /\ Due(r, "terminate")
  /\ SetUI(r, Arm(Disarm(uis[r], "terminate"), "kill"))
  /\ UNCHANGED <<sessionMap, terminateList, uiTasks>>

KillTimeout(r) ==
  /\ Due(r, "kill")
  /\ CompleteTerminate(r, [uis EXCEPT ![r] = Disarm(@, "kill")])
  /\ UNCHANGED uiTasks

-----------------------------------------------------------------------------
(* UIAbilityImpl.  AbilityTransitionDone is a synchronous call, so a step  *)
(* of the application and the manager's dispatch of its answer are one     *)
(* action.  What an application does that the manager has forgotten finds  *)
(* no record: no step is made of it.                                       *)

Taken(r) ==
  LET u == uis[r] IN
  [u EXCEPT !.commands = Tail(@), !.impl = IF @ = "initial" THEN "started" ELSE @]

Received(r, command) ==
  /\ uis[r].proc = "running" /\ Known(r)
  /\ uis[r].commands # <<>>
  /\ Head(uis[r].commands) = command

(* HandleAbilityTransaction, HandleForegroundNewState and Foreground.  The *)
(* window shows itself during onForeground or later.                       *)
HandleForegroundNewState(r) ==
  LET u == Taken(r) IN
  /\ Received(r, "foreground")
  /\ \/ /\ u.impl = "foreground"
        /\ AbilityTransactionDone(r, u, "foregrounded")
     \/ /\ u.impl # "foreground"
        /\ AbilityTransactionDone(r,
             IF u.byAbility THEN [u EXCEPT !.impl = "background", !.window = "shown"]
                            ELSE [u EXCEPT !.impl = "foreground", !.window = "shown"],
             "foregrounded")
     \/ /\ u.impl # "foreground"
        /\ SetUI(r, [u EXCEPT !.byAbility = TRUE, !.window = "showing"])
        /\ UNCHANGED <<sessionMap, terminateList, uiTasks>>

(* WindowLifeCycleImpl::AfterForeground: the window was shown after        *)
(* onForeground had returned.                                              *)
AfterForeground(r) ==
  LET u == [uis[r] EXCEPT !.window = "shown"] IN
  /\ uis[r].proc = "running" /\ Known(r) /\ uis[r].window = "showing"
  /\ AbilityTransactionDone(r, [u EXCEPT !.byAbility = FALSE, !.impl = "background"],
                            "foregrounded")

(* FOREGROUND_DO_NOTHING is a state DispatchState does not support.        *)
ForegroundFailed(r) ==
  /\ uis[r].proc = "running" /\ Known(r) /\ uis[r].window = "showing"
  /\ \E answer \in {"failed", "freezed", "nothing"} :
       AbilityTransactionDone(r, [uis[r] EXCEPT !.window = "hidden",
                                    !.refused = @ \/ answer # "failed"], answer)

(* An ability that takes itself for backgrounded neither runs onBackground *)
(* nor answers.                                                            *)
HandleBackground(r) ==
  LET u == Taken(r)
      gone == [u EXCEPT !.impl = "background", !.window = "hiding"]
  IN /\ Received(r, "background")
     /\ CASE u.impl = "background" ->
               SetUI(r, u) /\ UNCHANGED <<sessionMap, terminateList, uiTasks>>
          [] u.impl = "started" -> AbilityTransactionDone(r, gone, "backgrounded")
          [] OTHER ->
               SetUI(r, gone) /\ UNCHANGED <<sessionMap, terminateList, uiTasks>>

(* The window reports that it is hidden, or cannot say.                    *)
AfterBackground(r) ==
  LET u == [uis[r] EXCEPT !.window = "hidden"] IN
  /\ uis[r].proc = "running" /\ Known(r) /\ uis[r].window = "hiding"
  /\ \/ AbilityTransactionDone(r, u, "backgrounded")
     \/ SetUI(r, u) /\ UNCHANGED <<sessionMap, terminateList, uiTasks>>

HandleInitialState(r) ==
  /\ Received(r, "terminate")
  /\ AbilityTransactionDone(r, [Taken(r) EXCEPT !.impl = "stopped",
                                  !.window = "hidden"], "terminated")

(* With its process go the commands it has not handled, its own state and  *)
(* what was still to be done with it.                                      *)
ProcessGone(u) ==
  [Unheard(u) EXCEPT !.proc = "dead", !.asked = FALSE, !.watched = FALSE, !.told = {}]

(* The process ends: by itself, or because the application manager was     *)
(* told to kill it.  OnSchedulerDied or, before it attached, OnProcessDied *)
(* posts UIOnAbilityDied.                                                    *)
ProcessEnds(r) ==
  LET u == uis[r] IN
  /\ u.proc \in {"starting", "running"}
  /\ SetUI(r, ProcessGone(u))
  /\ IF u.watched \/ (~u.ready /\ "terminate" \notin u.told)
     THEN PostUI("died", r) ELSE UNCHANGED uiTasks
  /\ UNCHANGED <<sessionMap, terminateList>>

(* The application manager has the application drop one ability.           *)
AbilityCleaned(r) ==
  /\ uis[r].proc \in {"starting", "running"}
  /\ "terminate" \in uis[r].told
  /\ SetUI(r, ProcessGone(uis[r]))
  /\ UNCHANGED <<sessionMap, terminateList, uiTasks>>

-----------------------------------------------------------------------------
UISession(s) ==
  \/ StartUIAbility(s)
  \/ ChangeUIAbilityVisibilityBySCB(s)
  \/ MinimizeUIAbility(s)
  \/ CloseUIAbility(s)

UITimesOut(r) ==
  \/ \E timer \in {"load", "foreground"} : OnTimeOut(r, timer)
  \/ UIBackgroundTimeout(r)
  \/ TerminateTimeout(r)
  \/ KillTimeout(r)

UIApplication(r) ==
  \/ UIAttachAbilityThread(r)
  \/ HandleForegroundNewState(r)
  \/ AfterForeground(r)
  \/ ForegroundFailed(r)
  \/ HandleBackground(r)
  \/ AfterBackground(r)
  \/ HandleInitialState(r)

UINext ==
  \/ \E s \in UISessions : UISession(s)
  \/ RunUITask
  \/ \E r \in UIRecords : \/ UIApplication(r)
                          \/ UITimesOut(r)
                          \/ OnAbilityRequestDone(r)
                          \/ ProcessEnds(r)
                          \/ AbilityCleaned(r)

(* Tasks run and timeouts fire.  The application manager answers, and an   *)
(* application that is alive handles its commands and hears of its window  *)
(* (one that hangs is killed by the freeze detection).  An application     *)
(* that was started need not attach, and SceneBoard need not call again.   *)
UIFairness ==
  /\ WF_uiVars(RunUITask)
  /\ \A r \in UIRecords :
       /\ \A timer \in {"load", "foreground"} : WF_uiVars(OnTimeOut(r, timer))
       /\ WF_uiVars(UIBackgroundTimeout(r))
       /\ WF_uiVars(TerminateTimeout(r))
       /\ WF_uiVars(KillTimeout(r))
       /\ WF_uiVars(OnAbilityRequestDone(r))
       /\ WF_uiVars(\/ HandleForegroundNewState(r)
                    \/ HandleBackground(r)
                    \/ HandleInitialState(r))
       /\ WF_uiVars(AfterForeground(r) \/ ForegroundFailed(r))
       /\ WF_uiVars(AfterBackground(r))

UISpec == UIInit /\ [][UINext]_uiVars /\ UIFairness

-----------------------------------------------------------------------------
(* Something is under way that will change r: a timeout that acts in its   *)
(* state, a task, an answer owed by the application manager, a command or  *)
(* a window event of the application.                                      *)
Underway(r) ==
  LET u == uis[r] IN
  \/ "load" \in u.timers
  \/ u.asked
  \/ \E i \in DOMAIN uiTasks : uiTasks[i].record = r
  \/ u.commands # <<>>
  \/ u.window \in {"showing", "hiding"}
  \/ u.state = "foregrounding" /\ "foreground" \in u.timers
  \/ u.state = "backgrounding" /\ "background" \in u.timers

(* StartUIAbility and MinimizeUIAbility drop a request when the pending    *)
(* state is set, trusting the transition under way to serve it.  There is  *)
(* one: a session is never left with a pending state that nothing will     *)
(* resolve.  There are two exceptions.  A window the window manager        *)
(* refused to show: the FOREGROUND_WINDOW_FREEZED task leaves the pending  *)
(* state set, after which every start of the session is dropped;           *)
(* MissionListManager resets it in the same place.  And a process that     *)
(* could not be attached to the status bar: the manager waits, without a   *)
(* timeout, for SceneBoard to close the session as it was asked to.        *)
UIPendingUnderway ==
  \A s \in UISessions :
    LET r == sessionMap[s] IN
    r # NoUI => \/ uis[r].pending = "initial" \/ Underway(r)
                \/ uis[r].refused \/ uis[r].closeAsked

(* No living ability is forgotten: when it is in neither container, the    *)
(* application manager has been told to terminate it or kill its process,  *)
(* however its close, its timeouts, its death and the start of a new       *)
(* ability for the same session interleave.                                *)
UINoOrphan ==
  \A r \in UIRecords :
    uis[r].proc \in {"starting", "running"} => Known(r) \/ uis[r].told # {}

(* A start of a session is eventually served: the ability is in the        *)
(* foreground, is minimized instead, or is given up and its session told,  *)
(* or SceneBoard is asked to close the session (DoProcessAttachment).      *)
UIStartServed ==
  \A r \in UIRecords :
    (InMap(r) /\ uis[r].pending = "foreground") ~>
      (\/ ~InMap(r)
       \/ uis[r].pending # "foreground"
       \/ uis[r].refused \/ uis[r].closeAsked)

(* A closed ability eventually leaves terminateAbilityList_, that is, the  *)
(* application manager is told to terminate it, although the completion of *)
(* an earlier foreground transition may still be queued and puts the       *)
(* closing ability back to FOREGROUND.  Two exceptions, both left in the   *)
(* list for good: the freeze task moved a closing ability from             *)
(* BACKGROUNDING to BACKGROUND, and a session shown from the status bar    *)
(* had two such completions queued.                                        *)
UIClosedEnds ==
  \A r \in UIRecords :
    (r \in terminateList /\ ~uis[r].visible) ~>
      (r \notin terminateList \/ uis[r].refused)

(* Once the manager has recorded that an ability is in the background and  *)
(* the application has nothing left to handle, the application does not    *)
(* take itself to be shown in the foreground, although the completion of   *)
(* the background transition may have been forced by its timeout and       *)
(* stale answers may have been queued.  Again a window that was refused is *)
(* the exception: WindowFreezed records the background whatever the        *)
(* application did meanwhile.  (The converse fails: AfterForeground sets   *)
(* UIAbilityImpl's lifecycleState_ to BACKGROUND when the window shows     *)
(* after onForeground has returned, and the next background command is     *)
(* taken for a repetition, so that the window stays shown.)                *)
UIBackgroundAgreed ==
  \A r \in UIRecords :
    LET u == uis[r] IN
    (/\ Known(r) /\ u.proc = "running" /\ ~u.refused
     /\ u.state = "background" /\ u.commands = <<>>)
      => ~(u.impl = "foreground" /\ u.window = "shown")

=============================================================================
