----------------------------- MODULE AppRunning ------------------------------
(***************************************************************************)
(* services/appmgr: the running records of the processes of one            *)
(* application (AppRunningManager, AppRunningRecord, ModuleRunningRecord), *)
(* with the client's side of the protocol (MainThread, ApplicationImpl).   *)
(*                                                                         *)
(* Every operation of the service is a task of one serial queue, so each   *)
(* is one step.  What interleaves are the requests of the ability manager, *)
(* in any order, the answers of the processes, which handle their commands *)
(* one by one and may end at any moment (by themselves, by a crash, or     *)
(* killed by the service or the system), and the timers.                   *)
(*                                                                         *)
(* All records have the same process name and one module.  There is no     *)
(* process cache, no keep-alive application, no debugging and no           *)
(* libc.hook_mode, in which HandleTimeOut ignores every timer.             *)
(***************************************************************************)
EXTENDS Integers, Sequences, FiniteSets
LOCAL INSTANCE SequencesExt

CONSTANTS
    JointUser,          \* whether the bundle has a jointUserId, for processes of several bundles
    Pages,              \* tokens of page abilities, numbers in the order of their loading:
                        \* a bound on loads
    MaxAppRecords,      \* bound: records in appRunningRecordMap_ at a time
    MaxSlow             \* bound: times a process is slower than the timer of its background

ASSUME AppConstants ==
    /\ JointUser \in BOOLEAN
    /\ Pages \subseteq Nat /\ IsFiniteSet(Pages)
    /\ MaxAppRecords \in Nat /\ MaxSlow \in Nat

VARIABLES
    apps,           \* the AppRunningRecords in appRunningRecordMap_, each with its process
    pages,          \* the AbilityRunningRecords and the list of their module they are on
    sceneBoard      \* whether SceneBoard is enabled: abilities are terminated by force

appVars == <<apps, pages, sceneBoard>>

AppRecords == 1..MaxAppRecords

\* A record that is not in the map.  Its process, its timers and the answers that are still
\* under way are forgotten with it: nothing of them finds the record.
NoApp ==
    [listed |-> FALSE, client |-> FALSE, state |-> "CREATE", pending |-> "READY",
     terminating |-> FALSE, module |-> FALSE, tokens |-> {},
     backgroundTimer |-> FALSE, exitTimer |-> FALSE,    \* timers of the service
     inbox |-> <<>>,        \* commands the process has not handled
     outbox |-> <<>>,       \* its answers, tasks the service has not run
     process |-> "dead",    \* curState_ of ApplicationImpl in the process, or "dead"
     notice |-> FALSE,      \* the death recipient has posted OnRemoteDied
     slow |-> 0,            \* background timers that have fired, for the properties
     overridden |-> FALSE]  \* a request for the foreground was replaced, for the properties

NoPage == [list |-> "none", record |-> 0, state |-> "CREATE", cleanTimer |-> FALSE, attachTimer |-> FALSE]
GonePage == [NoPage EXCEPT !.list = "gone"]

AppInit ==
    /\ apps = [r \in AppRecords |-> NoApp]
    /\ pages = [a \in Pages |-> NoPage]
    /\ sceneBoard \in BOOLEAN

PagesOf(r) == {a \in Pages : pages[a].record = r}
AbilitiesOf(r) == {a \in PagesOf(r) : pages[a].list = "abilities"}
RecordOf(a) == apps[pages[a].record]

\* GetAppRunningRecordByAbilityToken and GetAbilityRunningRecordByToken.
Running(a) == pages[a].list = "abilities"

SetApp(r, app) == apps' = [apps EXCEPT ![r] = app]

\* Commands reach a process only through the client it attached with.
Sent(app, commands) == IF app.client THEN [app EXCEPT !.inbox = @ \o commands] ELSE app

\* RemoveAppRunningRecordById.
RemoveAppRunningRecord(r) ==
    /\ SetApp(r, NoApp)
    /\ pages' = [a \in Pages |-> IF a \in PagesOf(r) THEN GonePage ELSE pages[a]]

-----------------------------------------------------------------------------
(* Loading an ability and attaching its process. *)

\* Mutant: a record that is terminating is found as well.
MutantExistsTerminating(app) == app.listed

\* A record whose last module was removed has no appInfos_ any more, but of a bundle with a
\* jointUserId they are not asked about.
CheckAppRunningRecordIsExist(app) == app.listed /\ ~app.terminating /\ (JointUser \/ app.module)

\* When the process cannot be spawned the record is removed again and nobody is told: no
\* step of the model.
StartProcess(app) == [app EXCEPT !.process = "CREATE"]

\* CreateAppRunningRecord and LoadAbilityNoAppRecord.
CreateAppRunningRecord(a, r) ==
    /\ ~\E q \in AppRecords : CheckAppRunningRecordIsExist(apps[q])
    /\ ~apps[r].listed /\ \A q \in 1..(r - 1) : apps[q].listed
    /\ SetApp(r, StartProcess([NoApp EXCEPT !.listed = TRUE, !.module = TRUE]))
    /\ pages' = [pages EXCEPT ![a].list = "abilities", ![a].record = r]

LaunchAbility(app, a) == Sent(app, <<<<"launch", a>>>>)

\* AddModule brings the module back when it was removed.  Before its process has attached
\* the ability waits in state CREATE.
StartAbility(a, r) ==
    LET app == [apps[r] EXCEPT !.module = TRUE] IN
    /\ CheckAppRunningRecordIsExist(apps[r])
    /\ pages' = [pages EXCEPT ![a].list = "abilities", ![a].record = r,
                              ![a].state = IF app.state = "CREATE" THEN "CREATE" ELSE "READY"]
    /\ SetApp(r, IF app.state = "CREATE" THEN app ELSE LaunchAbility(app, a))

LoadAbility(a) ==
    /\ pages[a].list = "none"
    /\ \A b \in Pages : b < a => pages[b].list # "none"
    /\ \E r \in AppRecords : CreateAppRunningRecord(a, r) \/ StartAbility(a, r)
    /\ UNCHANGED sceneBoard

LaunchPendingAbilities(app, order) ==
    [app EXCEPT !.inbox = @ \o [i \in DOMAIN order |-> <<"launch", order[i]>>]]

LaunchApplication(app, order) ==
    LaunchPendingAbilities([app EXCEPT !.state = "READY", !.inbox = <<<<"application">>>>], order)

\* The abilities wait in a map, in the order of their tokens.
AttachApplication(r) ==
    LET waiting == {a \in AbilitiesOf(r) : pages[a].state = "CREATE"} IN
    /\ apps[r].listed /\ ~apps[r].client /\ apps[r].process # "dead"
    /\ \E order \in SetToSeqs(waiting) :
         SetApp(r, LaunchApplication([apps[r] EXCEPT !.client = TRUE], order))
    /\ pages' = [a \in Pages |-> IF a \in waiting THEN [pages[a] EXCEPT !.state = "READY"] ELSE pages[a]]
    /\ UNCHANGED sceneBoard

-----------------------------------------------------------------------------
(* Foreground and background. *)

ScheduleForegroundRunning(app) == Sent(app, <<<<"foreground">>>>)

\* Cancels the timer, posts it again, and sends the command.
ScheduleBackgroundRunning(app) == Sent([app EXCEPT !.backgroundTimer = TRUE], <<<<"background">>>>)

\* SetApplicationPendingState; the command is sent when nothing is under way.
AwaitForeground(app, a) ==
    LET next == [app EXCEPT !.pending = "FOREGROUNDING", !.tokens = @ \cup {a}, !.overridden = FALSE]
    IN IF app.pending = "READY" THEN ScheduleForegroundRunning(next) ELSE next

AbilityForeground(a) ==
    LET app == RecordOf(a) IN
    /\ pages[a].state \in {"READY", "BACKGROUND"}
    /\ \/ /\ app.state = "FOREGROUND" /\ app.pending # "BACKGROUNDING"
          /\ pages' = [pages EXCEPT ![a].state = "FOREGROUND"]
          /\ UNCHANGED apps
       \/ /\ app.state \in {"READY", "BACKGROUND"} \/ (app.state = "FOREGROUND" /\ app.pending = "BACKGROUNDING")
          /\ SetApp(pages[a].record, AwaitForeground(app, a))
          /\ UNCHANGED pages

AwaitBackground(app) ==
    LET next == [app EXCEPT !.pending = "BACKGROUNDING", !.overridden = app.tokens # {}]
    IN IF app.pending = "READY" THEN ScheduleBackgroundRunning(next) ELSE next

\* Mutant: abilities that are in the foreground are not asked about.
MutantBackgroundRegardless(a) ==
    LET app == RecordOf(a) IN
    /\ pages[a].state \in {"READY", "FOREGROUND"}
    /\ pages' = [pages EXCEPT ![a].state = "BACKGROUND"]
    /\ IF app.state = "FOREGROUND" THEN SetApp(pages[a].record, AwaitBackground(app)) ELSE UNCHANGED apps

\* Abilities in the foreground are asked about, and those that wait for it are not.
AbilityBackground(a) ==
    LET app == RecordOf(a)
        others == AbilitiesOf(pages[a].record) \ {a}
    IN /\ pages[a].state \in {"READY", "FOREGROUND"}
       /\ pages' = [pages EXCEPT ![a].state = "BACKGROUND"]
       /\ IF app.state = "FOREGROUND" /\ \A b \in others : pages[b].state # "FOREGROUND"
          THEN SetApp(pages[a].record, AwaitBackground(app))
          ELSE UNCHANGED apps

UpdateAbilityState(a) ==
    /\ Running(a)
    /\ AbilityForeground(a) \/ AbilityBackground(a)
    /\ UNCHANGED sceneBoard

\* PopForegroundingAbilityTokens: an ability that was put to the background again in the
\* meantime is still in the set.
PopForegroundingAbilityTokens(r) ==
    pages' = [a \in Pages |-> IF a \in apps[r].tokens /\ a \in AbilitiesOf(r)
                              THEN [pages[a] EXCEPT !.state = "FOREGROUND"]
                              ELSE pages[a]]

ApplicationForegrounded(r, app) ==
    LET next == [app EXCEPT !.state = IF @ \in {"READY", "BACKGROUND"} THEN "FOREGROUND" ELSE @,
                            !.pending = IF @ = "FOREGROUNDING" THEN "READY" ELSE @,
                            !.tokens = {}, !.overridden = FALSE]
    IN /\ SetApp(r, IF app.pending = "BACKGROUNDING" THEN ScheduleBackgroundRunning(next) ELSE next)
       /\ PopForegroundingAbilityTokens(r)

\* Mutant: a request for the foreground that has arrived meanwhile is not sent.
MutantBackgroundedForgets(r, app) ==
    /\ SetApp(r, [app EXCEPT !.state = IF @ = "FOREGROUND" THEN "BACKGROUND" ELSE @,
                             !.pending = IF @ = "BACKGROUNDING" THEN "READY" ELSE @])
    /\ UNCHANGED pages

ApplicationBackgrounded(r, app) ==
    LET next == [app EXCEPT !.state = IF @ = "FOREGROUND" THEN "BACKGROUND" ELSE @,
                            !.pending = IF @ = "BACKGROUNDING" THEN "READY" ELSE @]
    IN /\ SetApp(r, IF app.pending = "FOREGROUNDING" THEN ScheduleForegroundRunning(next) ELSE next)
       /\ UNCHANGED pages

\* The timer runs the same handler as the answer, which may still come.
BackgroundTimeout(r) ==
    /\ apps[r].backgroundTimer /\ apps[r].slow < MaxSlow
    /\ ApplicationBackgrounded(r, [apps[r] EXCEPT !.backgroundTimer = FALSE, !.slow = @ + 1])
    /\ UNCHANGED sceneBoard

-----------------------------------------------------------------------------
(* Terminating abilities and the application. *)

IsLastAbility(a) == AbilitiesOf(pages[a].record) = {a}

PrepareTerminate(a) ==
    /\ Running(a) /\ IsLastAbility(a)
    /\ SetApp(pages[a].record, [RecordOf(a) EXCEPT !.terminating = TRUE])
    /\ UNCHANGED <<pages, sceneBoard>>

\* ModuleRunningRecord::TerminateAbility.  Without force an ability that is not in the
\* background moves to terminateAbilities_ and is neither cleaned nor timed.  Before the
\* process has attached there is nobody to tell, and TerminateApplication removes the record.
ModuleTerminateAbility(a, app, force) ==
    LET clean == force \/ pages[a].state = "BACKGROUND" IN
    IF clean /\ ~app.client
    THEN RemoveAppRunningRecord(pages[a].record)
    ELSE /\ pages' = [pages EXCEPT ![a].list = "terminateAbilities", ![a].cleanTimer = clean,
                                   ![a].attachTimer = FALSE]
         /\ SetApp(pages[a].record, IF clean THEN Sent(app, <<<<"clean", a>>>>) ELSE app)

\* With the flag of a cleared mission the process of the last ability is killed later, one
\* of the ways a process ends.
TerminateAbility(a) ==
    /\ Running(a)
    /\ ModuleTerminateAbility(a, [RecordOf(a) EXCEPT !.terminating = @ \/ IsLastAbility(a)], sceneBoard)
    /\ UNCHANGED sceneBoard

RemoveModuleRecord(app) == [app EXCEPT !.module = FALSE]

ScheduleTerminate(app) == Sent([app EXCEPT !.exitTimer = TRUE], <<<<"terminate">>>>)

\* The terminating list of the module goes with it.
Forgotten(a, last) ==
    [b \in Pages |->
        IF b = a THEN GonePage
        ELSE IF last /\ pages[b].record = pages[a].record THEN [pages[b] EXCEPT !.list = "removed"]
        ELSE pages[b]]

\* Mutant: the process whose module goes is not told to end.
MutantTerminateSilent(a, app) ==
    LET r == pages[a].record
        last == AbilitiesOf(r) = {}
    IN /\ pages' = Forgotten(a, last)
       /\ SetApp(r, IF last THEN RemoveModuleRecord(app) ELSE app)

\* AbilityTerminated, by the answer or by the timer of the ability: the module goes with its
\* last ability, whatever is still terminating, and the process is told to end.
AbilityTerminated(a, app) ==
    LET r == pages[a].record
        last == AbilitiesOf(r) = {}
    IN /\ pages' = Forgotten(a, last)
       /\ SetApp(r, IF last THEN ScheduleTerminate(RemoveModuleRecord(app)) ELSE app)

\* GetTerminatingAppRunningRecord: the lists of a removed module are not found.
Terminating(a) == pages[a].list = "terminateAbilities"

HandleTerminateTimeOut(a) ==
    /\ pages[a].cleanTimer /\ Terminating(a)
    /\ AbilityTerminated(a, RecordOf(a))
    /\ UNCHANGED sceneBoard

\* The ability manager has not seen the ability attach in time.
HandleAbilityAttachTimeOut(a) ==
    /\ Running(a) /\ ~pages[a].attachTimer
    /\ SetApp(pages[a].record, [RecordOf(a) EXCEPT !.terminating = @ \/ IsLastAbility(a)])
    /\ pages' = [pages EXCEPT ![a].attachTimer = TRUE]
    /\ UNCHANGED sceneBoard

DelayKillAbility(a) ==
    /\ Running(a) /\ pages[a].attachTimer
    /\ ModuleTerminateAbility(a, RecordOf(a), TRUE)
    /\ UNCHANGED sceneBoard

\* RemoveEvent comes first: an application that is not in the background keeps its record,
\* without a timer, until its process has died.
ApplicationTerminated(r, app) ==
    IF app.state = "BACKGROUND"
    THEN RemoveAppRunningRecord(r)
    ELSE SetApp(r, [app EXCEPT !.exitTimer = FALSE]) /\ UNCHANGED pages

\* TerminateApplication removes the record, and the process is killed later.
HandleTerminateApplicationTimeOut(r) ==
    /\ apps[r].exitTimer
    /\ RemoveAppRunningRecord(r)
    /\ UNCHANGED sceneBoard

HandleAnswer(r) ==
    /\ apps[r].outbox # <<>>
    /\ LET answer == Head(apps[r].outbox)
           app == [apps[r] EXCEPT !.outbox = Tail(@)]
       IN \/ answer[1] = "foregrounded" /\ ApplicationForegrounded(r, app)
          \/ answer[1] = "backgrounded" /\ ApplicationBackgrounded(r, app)
          \/ answer[1] = "terminated" /\ ApplicationTerminated(r, app)
          \/ /\ answer[1] = "cleaned"
             /\ IF Terminating(answer[2]) /\ pages[answer[2]].record = r
                THEN AbilityTerminated(answer[2], app)
                ELSE SetApp(r, app) /\ UNCHANGED pages
    /\ UNCHANGED sceneBoard

-----------------------------------------------------------------------------
(* The process: MainThread and ApplicationImpl. *)

\* PerformAppReady, PerformForeground, PerformBackground and PerformTerminate.
Perform(process, command) ==
    CASE command = "application" /\ process = "CREATE" -> "READY"
      [] command = "foreground" /\ process \in {"READY", "BACKGROUND"} -> "FOREGROUND"
      [] command = "background" /\ process = "FOREGROUND" -> "BACKGROUND"
      [] command = "terminate" -> "TERMINATED"
      [] OTHER -> process

\* The answer does not depend on whether the state allowed the command.  An ability is
\* cleaned at most once, and after it was launched: it is found.
AnswerTo(command) ==
    CASE command[1] = "foreground" -> <<<<"foregrounded">>>>
      [] command[1] = "background" -> <<<<"backgrounded">>>>
      [] command[1] = "clean" -> <<<<"cleaned", command[2]>>>>
      [] command[1] = "terminate" -> <<<<"terminated">>>>
      [] OTHER -> <<>>

\* HandleTerminateApplication stops the main thread.  The IPC entry of the service cancels
\* the timer of the background when the answer comes, before the task of the answer runs.
HandleCommand(r) ==
    LET app == apps[r]
        command == Head(app.inbox)
    IN /\ app.inbox # <<>> /\ app.process \notin {"dead", "TERMINATED"}
       /\ SetApp(r, [app EXCEPT !.inbox = Tail(@), !.outbox = @ \o AnswerTo(command),
                                !.process = Perform(@, command[1]),
                                !.backgroundTimer = @ /\ command[1] # "background"])
       /\ UNCHANGED <<pages, sceneBoard>>

\* Before it has attached a process has no death recipient.
AppProcessDies(r) ==
    /\ apps[r].process # "dead"
    /\ SetApp(r, [apps[r] EXCEPT !.process = "dead", !.inbox = <<>>, !.notice = apps[r].client])
    /\ UNCHANGED <<pages, sceneBoard>>

OnAppRemoteDied(r) ==
    /\ apps[r].notice
    /\ RemoveAppRunningRecord(r)
    /\ UNCHANGED sceneBoard

AppNext ==
    \/ \E a \in Pages :
         \/ LoadAbility(a) \/ UpdateAbilityState(a)
         \/ PrepareTerminate(a) \/ TerminateAbility(a) \/ HandleTerminateTimeOut(a)
         \/ HandleAbilityAttachTimeOut(a) \/ DelayKillAbility(a)
    \/ \E r \in AppRecords :
         \/ AttachApplication(r) \/ HandleAnswer(r) \/ BackgroundTimeout(r)
         \/ HandleTerminateApplicationTimeOut(r)
         \/ HandleCommand(r) \/ AppProcessDies(r) \/ OnAppRemoteDied(r)

-----------------------------------------------------------------------------
(* Properties. *)

\* Types of the records; a record leaves the map when its application has terminated.
AppTypes ==
    /\ apps \in [AppRecords ->
          [listed : BOOLEAN, client : BOOLEAN,
           state : {"CREATE", "READY", "FOREGROUND", "BACKGROUND"},
           pending : {"READY", "FOREGROUNDING", "BACKGROUNDING"},
           terminating : BOOLEAN, module : BOOLEAN, tokens : SUBSET Pages,
           backgroundTimer : BOOLEAN, exitTimer : BOOLEAN,
           inbox : Seq({<<c>> : c \in {"application", "foreground", "background", "terminate"}}
                       \cup {"launch", "clean"} \X Pages),
           outbox : Seq({<<c>> : c \in {"foregrounded", "backgrounded", "terminated"}}
                        \cup {"cleaned"} \X Pages),
           process : {"dead", "CREATE", "READY", "FOREGROUND", "BACKGROUND", "TERMINATED"},
           notice : BOOLEAN, slow : 0..MaxSlow, overridden : BOOLEAN]]
    /\ pages \in [Pages -> [list : {"none", "abilities", "terminateAbilities", "removed", "gone"},
                            record : 0..MaxAppRecords,
                            state : {"CREATE", "READY", "FOREGROUND", "BACKGROUND"},
                            cleanTimer : BOOLEAN, attachTimer : BOOLEAN]]

Quiet(app) == app.client /\ app.process \notin {"dead", "TERMINATED"} /\ app.inbox = <<>> /\ app.outbox = <<>>

\* When a process has handled every command and the service every answer, the service
\* awaits nothing of it and has its state right, however late its answers came and however
\* often the timer of ScheduleBackgroundRunning ran ApplicationBackgrounded in their place.
AppSettled ==
    \A r \in AppRecords : Quiet(apps[r]) => apps[r].pending = "READY" /\ apps[r].state = apps[r].process

\* An ability is in the foreground only when its application is, or is on the way, unless the
\* timer of the background has run.  After it has, the answers to repeated commands are
\* taken for those of later ones, and the application can end up in the background with an
\* ability in the foreground, although AbilityBackground schedules the application only
\* "when all ability is not foreground".
AppForegroundBacked ==
    \A a \in Pages : Running(a) /\ pages[a].state = "FOREGROUND" /\ RecordOf(a).slow = 0 =>
        RecordOf(a).state = "FOREGROUND" \/ RecordOf(a).pending = "FOREGROUNDING"

\* No ability is launched in a process that has been told to end: a record that is
\* terminating, or whose last module was removed, is not found by
\* CheckAppRunningRecordIsExist.  It does not hold for a bundle with a jointUserId: its
\* record is found without a module, when no operation has marked it terminating.
AppLaunchBeforeEnd ==
    ~JointUser => \A r \in AppRecords : \A i, j \in DOMAIN apps[r].inbox :
        apps[r].inbox[i][1] = "terminate" /\ apps[r].inbox[j][1] = "launch" => j < i

\* The main thread of a process handles its commands and exits once it has stopped, the
\* service runs its tasks, its timers and the notices of deaths.  Nobody has to start or
\* attach a process, and no timer of the background has to run.
AppFairness ==
    /\ \A r \in AppRecords :
         /\ WF_appVars(HandleCommand(r))
         /\ WF_appVars(HandleAnswer(r))
         /\ WF_appVars(HandleTerminateApplicationTimeOut(r))
         /\ WF_appVars(OnAppRemoteDied(r))
         /\ WF_appVars(apps[r].process = "TERMINATED" /\ AppProcessDies(r))
    /\ \A a \in Pages : WF_appVars(HandleTerminateTimeOut(a))

AppSpec == AppInit /\ [][AppNext]_appVars /\ AppFairness

\* The requests for the foreground that wait in a record are served by
\* PopForegroundingAbilityTokens, or overridden, or the record goes with its process.
AppForegroundReached ==
    \A r \in AppRecords :
        apps[r].tokens # {} ~> apps[r].tokens = {} \/ apps[r].overridden

\* An ability that is being cleaned goes in the end: by the answer of its process, by its
\* timer, or, when another ability has taken the module with it, with the record.
AppPageEnds == \A a \in Pages : pages[a].cleanTimer ~> pages[a].list = "gone"
=============================================================================
