--------------------------- MODULE QuickFixManager ---------------------------
(***************************************************************************)
(* services/quickfixmgr: tasks that apply a quick fix to a bundle or       *)
(* revoke it, with the parts of appmgr they rely on: the observers of      *)
(* process deaths and the callback that collects one answer per process    *)
(* (quick_fix_callback_with_record.cpp).                                   *)
(*                                                                         *)
(* A task posts its steps to the handler shared by all tasks.  The answers *)
(* of the bundle manager and of appmgr come on binder threads, so they     *)
(* interleave with the handler; so do the steps of appmgr that ask the     *)
(* processes one after the other.  All timers are tasks of one name, and   *)
(* RemoveTimeoutTask removes every one of them, whichever task posted it.  *)
(*                                                                         *)
(* All tasks are about one bundle.  The bundle manager is external: it     *)
(* refuses a request or answers it later, with a result of its choice.     *)
(***************************************************************************)
EXTENDS Integers, Sequences, FiniteSets, Bags
LOCAL INSTANCE BagsExt

CONSTANTS
    FixTasks,       \* the QuickFixManagerApplyTask objects, numbers in the order they are made
    FixProcesses,   \* record ids of the processes of the bundle, in the order they start: a
                    \* bound on starts
    MaxObservers,   \* bound: observers a task registers
    MaxRounds,      \* bound: notifications of the processes under way at a time
    MaxSplits       \* bound: callbacks that come once more, which split a task in two

ASSUME FixConstants ==
    /\ FixTasks \subseteq Nat /\ IsFiniteSet(FixTasks)
    /\ FixProcesses \subseteq Nat /\ IsFiniteSet(FixProcesses)
    /\ MaxObservers \in Nat /\ MaxRounds \in Nat /\ MaxSplits \in Nat

Requests == {"deploy", "switch", "delete"}
Notifications == {"load", "unload", "reload"}

VARIABLES
    applyTasks,     \* a task's taskType_, bundleName_ (named), isSoContained_, type_ (hot)
                    \* and isRunning_, and whether applyTasks_ of the service lists it
    fixQueue,       \* steps posted to the handler: <<step, task>>
    fixTimers,      \* timers a task has posted
    asked,          \* bag of <<request, task>> the bundle manager has not answered
    rounds,         \* notifications of the processes, by number
    observers,      \* numbers of the observers of a task that appmgr knows
    registered,     \* how many observers a task has made: the last is appStateCallback_
    binder,         \* bag of handlers in progress on binder threads
    fixAlive,       \* processes with a record in appRunningRecordMap_
    fixDead,        \* processes that have died
    obituaries,     \* deaths appmgr has not told the observers of
    diedCalls,      \* OnProcessDied calls on their way to a task
    \* what happened, for the properties
    achieved,       \* requests of a task the bundle manager has carried out
    reports,        \* results a task has published
    splits,         \* calls back that were not the last of their notification
    bereaved,       \* tasks listed when a process died, or told of an earlier death
    unanswered,     \* tasks whose notification ended without a call, though a process was told
    fixRan          \* processes that ran when a task learned what its fix holds

fixTaskVars == <<applyTasks, reports>>
handlerVars == <<fixQueue, fixTimers>>
observerVars == <<observers, registered, obituaries, diedCalls>>
processVars == <<fixAlive, fixDead, bereaved, unanswered, splits>>
fixVars == <<fixTaskVars, achieved, fixRan, handlerVars, asked, rounds, observerVars, binder,
             processVars>>

NewTask == [type |-> "none", named |-> FALSE, so |-> FALSE, hot |-> FALSE,
            running |-> FALSE, listed |-> FALSE]

QuickFixInit ==
    /\ applyTasks = [t \in FixTasks |-> NewTask]
    /\ fixQueue = <<>>
    /\ fixTimers = [t \in FixTasks |-> 0]
    /\ asked = EmptyBag
    /\ rounds = <<>>
    /\ observers = [t \in FixTasks |-> {}]
    /\ registered = [t \in FixTasks |-> 0]
    /\ binder = EmptyBag
    /\ fixAlive \in SUBSET FixProcesses
    /\ \A p \in fixAlive, q \in FixProcesses : q < p => q \in fixAlive
    /\ fixDead = {}
    /\ obituaries = 0
    /\ diedCalls = [t \in FixTasks |-> 0]
    /\ achieved = [t \in FixTasks |-> {}]
    /\ reports = [t \in FixTasks |-> {}]
    /\ splits = 0
    /\ bereaved = {} /\ unanswered = {}
    /\ fixRan = [t \in FixTasks |-> {}]

NoTimers == [t \in FixTasks |-> 0]
TimerPosted(t) == [fixTimers EXCEPT ![t] = @ + 1]
Asking(t) == \E r \in Requests : BagIn(<<r, t>>, asked)
OnBinder(t) == \E b \in BagToSet(binder) : b.task = t
RoundsOf(t) == {i \in DOMAIN rounds : rounds[i].task = t}
Queued(t) == {i \in DOMAIN fixQueue : fixQueue[i][2] = t}

\* Strong references keep a task alive: the list of the service, and the callbacks in the
\* closures of posted steps, in the bundle manager and in appmgr.  A timer and the first
\* step of a revocation have weak ones.
Referenced(t) ==
    \/ applyTasks[t].listed
    \/ \E i \in Queued(t) : fixQueue[i][1] # "revoke"
    \/ Asking(t) \/ OnBinder(t) \/ RoundsOf(t) # {}
    \/ observers[t] # {} \/ diedCalls[t] > 0

\* NotifyApplyStatus publishes the result; RemoveSelf takes the task off the list.
NotifyApplyStatus(t, result) == reports' = [reports EXCEPT ![t] = @ \cup {result}]
RemoveSelf(t) == applyTasks' = [applyTasks EXCEPT ![t].listed = FALSE]
Finish(t, result) == NotifyApplyStatus(t, result) /\ RemoveSelf(t)

\* The next step is posted with a timer, which is removed again, with all the others,
\* when the caller ends with RemoveTimeoutTask.
PostTask(t, step, removeTimers) ==
    /\ fixQueue' = Append(fixQueue, <<step, t>>)
    /\ fixTimers' = IF removeTimers THEN NoTimers ELSE TimerPosted(t)

RemoveTimeoutTask == fixTimers' = NoTimers /\ UNCHANGED fixQueue

\* A call of the bundle manager: it accepts the request or refuses it.
Ask(t, request, pending) ==
    \/ asked' = BagAdd(pending, <<request, t>>) /\ UNCHANGED fixTaskVars
    \/ asked' = pending /\ Finish(t, "failed")

-----------------------------------------------------------------------------
(* The service. *)

\* AddApplyTask and Run: nothing asks whether another task is at work on the bundle.
NextTask(t) == applyTasks[t].type = "none" /\ \A u \in FixTasks : u < t => applyTasks[u].type # "none"

ApplyQuickFix(t) ==
    /\ NextTask(t)
    /\ applyTasks' = [applyTasks EXCEPT ![t].type = "apply", ![t].listed = TRUE]
    /\ PostTask(t, "deploy", FALSE)
    /\ UNCHANGED <<reports, achieved, fixRan, asked, rounds, observerVars, binder, processVars>>

\* CheckTaskRunningState compares names, and a task that applies a fix has none until the
\* fix is deployed.
CheckTaskRunningState(t) ==
    /\ NextTask(t)
    /\ ~\E u \in FixTasks : applyTasks[u].listed /\ applyTasks[u].named
    /\ applyTasks' = [applyTasks EXCEPT ![t].type = "checked"]
    /\ UNCHANGED <<reports, achieved, fixRan, handlerVars, asked, rounds, observerVars, binder,
                   processVars>>

\* RevokeQuickFix then asks the bundle manager about the fix, so that other calls may come
\* between the check and AddApplyTask.
RevokeQuickFix(t) ==
    /\ applyTasks[t].type = "checked"
    /\ \E so \in BOOLEAN :
         applyTasks' = [applyTasks EXCEPT ![t].type = "revoke", ![t].named = TRUE,
                                          ![t].so = so, ![t].listed = TRUE]
    /\ fixRan' = [fixRan EXCEPT ![t] = fixAlive]
    /\ PostTask(t, "revoke", FALSE)
    /\ UNCHANGED <<reports, achieved, asked, rounds, observerVars, binder, processVars>>

-----------------------------------------------------------------------------
(* Notifications of the processes, in appmgr. *)

\* Nobody will call the callback any more: a process that dies releases it.
RoundOver(r, alive) ==
    r.todo = {} /\ r.telling = {} /\ r.waiting \cap alive = {} /\ r.inspecting = {}

FreeRounds == (1..MaxRounds) \ DOMAIN rounds
SetRound(i, r) ==
    rounds' = [j \in {k \in DOMAIN rounds \cup {i} : k # i \/ ~RoundOver(r, fixAlive)} |->
                  IF j = i THEN r ELSE rounds[j]]

\* With no process left the call succeeds, and nobody will ever call back.
StartRound(t, kind, by) ==
    IF fixAlive = {}
    THEN UNCHANGED rounds
    ELSE \E i \in FreeRounds :
           /\ \A j \in FreeRounds : i <= j
           /\ SetRound(i, [task |-> t, kind |-> kind, by |-> by, todo |-> fixAlive,
                           telling |-> {}, told |-> FALSE, waiting |-> {}, inspecting |-> {},
                           failed |-> FALSE, called |-> FALSE])

\* One iteration of the loop of NotifyLoadRepairPatch and its likes, in the order of the map,
\* adds the id of the process ...
AddRecordId(i) ==
    /\ rounds[i].telling = {}
    /\ \E p \in rounds[i].todo :
         /\ \A q \in rounds[i].todo : p <= q
         /\ SetRound(i, [rounds[i] EXCEPT !.todo = @ \ {p}, !.waiting = @ \cup {p}, !.telling = {p}])
    /\ UNCHANGED <<fixTaskVars, achieved, fixRan, handlerVars, asked, observerVars, binder,
                   processVars>>

\* ... tells the process, whose answer may come before the call returns, and removes the id
\* when that fails: an answer that found the id listed calls nobody, and nobody looks at the
\* list any more.  The whole call fails when no process could be told; a revocation then
\* ends OnPatchSwitched.
NotifyProcess(i) ==
    LET r == rounds[i] IN
    \E p \in r.telling, ok \in BOOLEAN :
      LET told == r.told \/ ok
          left == IF ok THEN r.waiting ELSE r.waiting \ {p}
          next == [r EXCEPT !.telling = {}, !.told = told, !.waiting = left]
          lost == told /\ ~ok /\ ~r.called /\ RoundOver(next, fixAlive)
      IN /\ IF ok THEN p \in fixAlive \/ p \notin r.waiting ELSE p \in r.waiting
         /\ SetRound(i, next)
         /\ unanswered' = IF lost THEN unanswered \cup {r.task} ELSE unanswered
         /\ IF r.todo = {} /\ ~told THEN Finish(r.task, "failed") ELSE UNCHANGED fixTaskVars
         /\ IF r.todo = {} /\ r.by = "binder" THEN RemoveTimeoutTask ELSE UNCHANGED handlerVars
         /\ UNCHANGED <<achieved, fixRan, asked, observerVars, binder, fixAlive, fixDead, bereaved,
                        splits>>

\* ProcessCallback of a process's answer removes its id from the list ...
ProcessAnswers(i) ==
    /\ splits < MaxSplits \/ (rounds[i].todo = {} /\ rounds[i].inspecting = {})
    /\ \E p \in rounds[i].waiting \cap fixAlive, ok \in BOOLEAN :
         SetRound(i, [rounds[i] EXCEPT !.waiting = @ \ {p}, !.inspecting = @ \cup {<<p, ok>>}])
    /\ UNCHANGED <<fixTaskVars, achieved, fixRan, handlerVars, asked, observerVars, binder,
                   processVars>>

OnLoadPatchDone(t) ==
    /\ PostTask(t, "delete", FALSE)
    /\ UNCHANGED <<fixTaskVars, asked>>

\* Mutant: an unloaded fix is deleted at once.
MutantUnloadSkipsSwitch(t) ==
    PostTask(t, "delete", FALSE) /\ UNCHANGED <<fixTaskVars, asked>>

OnUnloadPatchDone(t) ==
    \/ /\ applyTasks[t].type = "apply"
       /\ PostTask(t, "switch", FALSE)
       /\ UNCHANGED <<fixTaskVars, asked>>
    \/ /\ applyTasks[t].type = "revoke"
       /\ Ask(t, "delete", asked)
       /\ UNCHANGED handlerVars

OnReloadPageDone(t) == Finish(t, "ok") /\ UNCHANGED <<handlerVars, asked>>

\* ... and later stores a failure and looks whether the list is empty.  Other answers may
\* have removed their ids, and other ids may have been added or not yet, in between: the
\* task may be called more than once.
RoundDone(i) ==
    LET r == rounds[i] IN
    \E e \in r.inspecting :
      LET failed == r.failed \/ ~e[2]
          others == r.inspecting \ {e}
      IN /\ SetRound(i, [r EXCEPT !.inspecting = others, !.failed = failed,
                                  !.called = @ \/ r.waiting = {}])
         /\ splits' = IF r.waiting = {} /\ (others # {} \/ r.todo # {}) THEN splits + 1 ELSE splits
         /\ \/ /\ r.waiting # {}
               /\ UNCHANGED <<fixTaskVars, handlerVars, asked>>
            \/ /\ r.waiting = {} /\ failed
               /\ Finish(r.task, "failed")
               /\ UNCHANGED <<handlerVars, asked>>
            \/ /\ r.waiting = {} /\ ~failed
               /\ \/ r.kind = "load" /\ OnLoadPatchDone(r.task)
                  \/ r.kind = "unload" /\ OnUnloadPatchDone(r.task)
                  \/ r.kind = "reload" /\ OnReloadPageDone(r.task)
         /\ UNCHANGED <<achieved, fixRan, observerVars, binder, fixAlive, fixDead, bereaved,
                        unanswered>>

-----------------------------------------------------------------------------
(* The handler. *)

HandlerFree ==
    /\ \A i \in DOMAIN rounds : rounds[i].by = "handler" =>
          rounds[i].todo = {} /\ rounds[i].telling = {}
    /\ \A b \in BagToSet(binder) : b.from # "revoke"

\* The weak reference of the first step of a revocation: a timer has released the task.
TaskGone ==
    LET t == Head(fixQueue)[2] IN
    /\ Head(fixQueue)[1] = "revoke" /\ ~Referenced(t)
    /\ UNCHANGED <<fixTaskVars, asked, rounds, binder>>

RunRequest ==
    LET t == Head(fixQueue)[2] IN
    /\ Head(fixQueue)[1] \in Requests
    /\ Ask(t, Head(fixQueue)[1], asked)
    /\ UNCHANGED <<rounds, binder>>

RunNotification ==
    LET t == Head(fixQueue)[2] IN
    /\ Head(fixQueue)[1] \in Notifications
    /\ StartRound(t, Head(fixQueue)[1], "handler")
    /\ UNCHANGED <<fixTaskVars, asked, binder>>

\* HandleRevokeQuickFixAppRunning and HandleRevokeQuickFixAppStop.
RunRevoke ==
    LET t == Head(fixQueue)[2] IN
    /\ Head(fixQueue)[1] = "revoke" /\ Referenced(t)
    /\ IF fixAlive # {} /\ applyTasks[t].so
       THEN /\ binder' = BagAdd(binder, [task |-> t, at |-> "register", from |-> "revoke"])
            /\ UNCHANGED <<fixTaskVars, asked>>
       ELSE Ask(t, "switch", asked) /\ UNCHANGED binder
    /\ UNCHANGED rounds

RunHandler ==
    /\ fixQueue # <<>> /\ HandlerFree
    /\ TaskGone \/ RunRequest \/ RunNotification \/ RunRevoke
    /\ fixQueue' = Tail(fixQueue)
    /\ UNCHANGED <<achieved, fixRan, fixTimers, observerVars, processVars>>

\* The timer of PostTimeOutTask.
TimeOut(t) ==
    /\ fixTimers[t] > 0 /\ HandlerFree
    /\ fixTimers' = [fixTimers EXCEPT ![t] = @ - 1]
    /\ IF Referenced(t) THEN Finish(t, "timeout") ELSE UNCHANGED fixTaskVars
    /\ UNCHANGED <<achieved, fixRan, fixQueue, asked, rounds, observerVars, binder, processVars>>

-----------------------------------------------------------------------------
(* Answers of the bundle manager. *)

Answered(request, t) == BagIn(<<request, t>>, asked)
Pending(request, t) == BagRemove(asked, <<request, t>>)
Achieve(request, t) == achieved' = [achieved EXCEPT ![t] = @ \cup {request}]

\* Mutant: a failed request is repeated.
MutantRetryForEver(request, t) ==
    /\ Answered(request, t)
    /\ asked' = Pending(request, t)
    /\ PostTask(t, request, TRUE)
    /\ UNCHANGED <<fixTaskVars, achieved, fixRan, rounds, observerVars, binder, processVars>>

\* A refusal, or information about the fix that cannot be parsed (SetQuickFixInfo).
OnPatchFailed(request, t) ==
    /\ Answered(request, t)
    /\ asked' = Pending(request, t)
    /\ Finish(t, "failed")
    /\ RemoveTimeoutTask
    /\ UNCHANGED <<achieved, fixRan, rounds, observerVars, binder, processVars>>

\* Mutant: running processes without an older fix are forgotten.
MutantDeployedForgets(t, task, from, others) ==
    LET running == fixAlive # {} IN
    /\ applyTasks' = [applyTasks EXCEPT ![t] = [task EXCEPT !.running = running]]
    /\ IF running /\ task.so
       THEN /\ binder' = BagAdd(others, [task |-> t, at |-> "register", from |-> from])
            /\ UNCHANGED handlerVars
       ELSE /\ \/ running /\ PostTask(t, "unload", from = "deployed")
               \/ running /\ fixTimers' = NoTimers /\ UNCHANGED fixQueue
               \/ ~running /\ PostTask(t, "switch", from = "deployed")
            /\ binder' = others

\* HandlePatchDeployed: wait for the processes to end when the fix holds native libraries,
\* unload an older fix from running processes, or switch at once.  Between GetRunningState
\* and RegAppStateObserver, two calls of appmgr, a process may die.
HandlePatchDeployed(t, task, from, others) ==
    LET running == fixAlive # {} IN
    /\ applyTasks' = [applyTasks EXCEPT ![t] = [task EXCEPT !.running = running]]
    /\ IF running /\ task.so
       THEN /\ binder' = BagAdd(others, [task |-> t, at |-> "register", from |-> from])
            /\ UNCHANGED handlerVars
       ELSE /\ \/ running /\ PostTask(t, "unload", from = "deployed")
               \/ PostTask(t, "switch", from = "deployed")
            /\ binder' = others

OnPatchDeployed(t) ==
    /\ Answered("deploy", t)
    /\ asked' = Pending("deploy", t)
    /\ Achieve("deploy", t)
    /\ fixRan' = [fixRan EXCEPT ![t] = fixAlive]
    /\ \E so, hot \in BOOLEAN :
         HandlePatchDeployed(t, [applyTasks[t] EXCEPT !.named = TRUE, !.so = so, !.hot = hot],
                             "deployed", binder)
    /\ UNCHANGED <<reports, rounds, observerVars, processVars>>

HandlePatchSwitched(t) ==
    /\ PostTask(t, IF applyTasks[t].running /\ ~applyTasks[t].so THEN "load" ELSE "delete", TRUE)
    /\ asked' = Pending("switch", t)
    /\ UNCHANGED <<fixTaskVars, rounds>>

\* PostRevokeQuickFixNotifyUnloadPatchTask and PostRevokeQuickFixDeleteTask call appmgr and
\* the bundle manager on the binder thread itself, with no timer.
HandleRevokePatchSwitched(t) ==
    \/ /\ fixAlive # {}
       /\ StartRound(t, "unload", "binder")
       /\ asked' = Pending("switch", t)
       /\ UNCHANGED <<fixTaskVars, handlerVars>>
    \/ /\ fixAlive = {}
       /\ Ask(t, "delete", Pending("switch", t))
       /\ RemoveTimeoutTask
       /\ UNCHANGED rounds

OnPatchSwitched(t) ==
    /\ Answered("switch", t)
    /\ Achieve("switch", t)
    /\ \/ applyTasks[t].type = "apply" /\ HandlePatchSwitched(t)
       \/ applyTasks[t].type = "revoke" /\ HandleRevokePatchSwitched(t)
    /\ UNCHANGED <<fixRan, observerVars, binder, processVars>>

\* HandlePatchDeleted reloads the pages of a hot reload; a revocation is done.
HandlePatchDeleted(t) ==
    IF applyTasks[t].type = "apply" /\ applyTasks[t].running /\ ~applyTasks[t].so
         /\ applyTasks[t].hot
    THEN PostTask(t, "reload", TRUE) /\ UNCHANGED fixTaskVars
    ELSE Finish(t, "ok") /\ RemoveTimeoutTask

OnPatchDeleted(t) ==
    /\ Answered("delete", t)
    /\ asked' = Pending("delete", t)
    /\ Achieve("delete", t)
    /\ HandlePatchDeleted(t)
    /\ UNCHANGED <<fixRan, rounds, observerVars, binder, processVars>>

-----------------------------------------------------------------------------
(* Deaths of processes and their observers. *)

\* RegAppStateObserver, and what its caller does next: RemoveTimeoutTask, or
\* UnregAppStateObserver after OnProcessDied.
Unregister(t, numbers, last) == [observers EXCEPT ![t] = numbers \ {last}]

RegAppStateObserver(b) ==
    LET t == b.task
        n == registered[t] + 1
        died == b.from = "died"
    IN /\ b \in BagToSet(binder) /\ b.at = "register"
       /\ binder' = BagRemove(binder, b)
       /\ \/ /\ n <= MaxObservers
             /\ registered' = [registered EXCEPT ![t] = n]
             /\ observers' = Unregister(t, observers[t] \cup {n}, IF died THEN n ELSE 0)
             /\ UNCHANGED fixTaskVars
          \/ /\ Finish(t, "failed")
             /\ observers' = Unregister(t, observers[t], IF died THEN n - 1 ELSE 0)
             /\ UNCHANGED registered
       /\ IF died THEN UNCHANGED handlerVars ELSE RemoveTimeoutTask
       /\ UNCHANGED <<achieved, fixRan, asked, rounds, obituaries, diedCalls, processVars>>

\* HandleOnProcessDied of appmgr calls the observers that are registered by then.
HandleOnProcessDied ==
    /\ obituaries > 0
    /\ obituaries' = obituaries - 1
    /\ diedCalls' = [t \in FixTasks |-> diedCalls[t] + Cardinality(observers[t])]
    /\ bereaved' = bereaved \cup {t \in FixTasks : observers[t] # {}}
    /\ UNCHANGED <<fixTaskVars, achieved, fixRan, handlerVars, asked, rounds, observers,
                   registered, binder, fixAlive, fixDead, unanswered, splits>>

\* Mutant: the first death is taken for the last.
MutantDiedUnchecked(t) ==
    /\ diedCalls[t] > 0
    /\ diedCalls' = [diedCalls EXCEPT ![t] = @ - 1]
    /\ applyTasks[t].type = "revoke"
    /\ Ask(t, "switch", asked)
    /\ fixTimers' = TimerPosted(t)
    /\ observers' = Unregister(t, observers[t], registered[t])
    /\ UNCHANGED <<fixQueue, binder, achieved, fixRan, rounds, obituaries, registered, processVars>>

\* OnProcessDied goes on only when no process of the bundle is left, but unregisters the
\* observer in any case.
OnProcessDied(t) ==
    /\ diedCalls[t] > 0
    /\ diedCalls' = [diedCalls EXCEPT ![t] = @ - 1]
    /\ \/ /\ fixAlive = {} /\ applyTasks[t].type = "apply"
          /\ binder' = BagAdd(binder, [task |-> t, at |-> "handle", from |-> "died"])
          /\ UNCHANGED <<fixTaskVars, handlerVars, asked, observers>>
       \/ /\ fixAlive = {} /\ applyTasks[t].type = "revoke"
          /\ Ask(t, "switch", asked)
          /\ fixTimers' = TimerPosted(t)
          /\ observers' = Unregister(t, observers[t], registered[t])
          /\ UNCHANGED <<fixQueue, binder>>
       \/ /\ fixAlive # {}
          /\ observers' = Unregister(t, observers[t], registered[t])
          /\ UNCHANGED <<fixTaskVars, handlerVars, asked, binder>>
    /\ UNCHANGED <<achieved, fixRan, rounds, obituaries, registered, processVars>>

\* HandlePatchDeployed once more, called by OnProcessDied: it asks again what is running.
HandleAfterDeath(t) ==
    LET b == [task |-> t, at |-> "handle", from |-> "died"] IN
    /\ BagIn(b, binder)
    /\ HandlePatchDeployed(t, applyTasks[t], "died", BagRemove(binder, b))
    /\ observers' = IF fixAlive # {} /\ applyTasks[t].so THEN observers
                    ELSE Unregister(t, observers[t], registered[t])
    /\ UNCHANGED <<reports, achieved, fixRan, asked, rounds, registered, obituaries, diedCalls,
                   processVars>>

-----------------------------------------------------------------------------
(* The processes of the bundle. *)

ProcessStarts(p) ==
    /\ p \notin fixAlive \cup fixDead
    /\ \A q \in FixProcesses : q < p => q \in fixAlive \cup fixDead
    /\ fixAlive' = fixAlive \cup {p}
    /\ UNCHANGED <<fixTaskVars, achieved, fixRan, handlerVars, asked, rounds, observerVars,
                   binder, fixDead, bereaved, unanswered, splits>>

FixProcessDies(p) ==
    /\ p \in fixAlive
    /\ fixAlive' = fixAlive \ {p}
    /\ fixDead' = fixDead \cup {p}
    /\ obituaries' = obituaries + 1
    /\ bereaved' = bereaved \cup {t \in FixTasks : applyTasks[t].listed}
    /\ rounds' = [i \in {j \in DOMAIN rounds : ~RoundOver(rounds[j], fixAlive')} |-> rounds[i]]
    /\ UNCHANGED <<fixTaskVars, achieved, fixRan, handlerVars, asked, observers, registered,
                   diedCalls, binder, unanswered, splits>>

-----------------------------------------------------------------------------

RoundStep ==
    \E i \in DOMAIN rounds :
        AddRecordId(i) \/ NotifyProcess(i) \/ ProcessAnswers(i) \/ RoundDone(i)

BundleManagerAnswers(t) ==
    \/ \E request \in Requests : OnPatchFailed(request, t)
    \/ OnPatchDeployed(t) \/ OnPatchSwitched(t) \/ OnPatchDeleted(t)

BinderStep ==
    \/ \E b \in BagToSet(binder) : RegAppStateObserver(b)
    \/ \E t \in FixTasks : HandleAfterDeath(t)

QuickFixNext ==
    \/ \E t \in FixTasks :
         \/ ApplyQuickFix(t) \/ CheckTaskRunningState(t) \/ RevokeQuickFix(t)
         \/ TimeOut(t) \/ OnProcessDied(t)
         \/ BundleManagerAnswers(t)
    \/ RunHandler \/ RoundStep \/ BinderStep \/ HandleOnProcessDied
    \/ \E p \in FixProcesses : ProcessStarts(p) \/ FixProcessDies(p)

QuickFixSpec == QuickFixInit /\ [][QuickFixNext]_fixVars

\* The handler and the binder threads run, living processes and the bundle manager answer.
\* No fairness of timers: RemoveTimeoutTask may have removed them.
QuickFixFairness ==
    /\ WF_fixVars(RunHandler) /\ WF_fixVars(RoundStep) /\ WF_fixVars(BinderStep)
    /\ \A t \in FixTasks : WF_fixVars(BundleManagerAnswers(t))

-----------------------------------------------------------------------------
(* Properties. *)

\* Every variable has its type.
QuickFixTypes ==
    /\ applyTasks \in [FixTasks -> [type : {"none", "checked", "apply", "revoke"}, named : BOOLEAN,
                                    so : BOOLEAN, hot : BOOLEAN, running : BOOLEAN,
                                    listed : BOOLEAN]]
    /\ fixQueue \in Seq((Requests \cup Notifications \cup {"revoke"}) \X FixTasks)
    /\ fixTimers \in [FixTasks -> Nat] /\ diedCalls \in [FixTasks -> Nat]
    /\ IsABag(asked) /\ BagToSet(asked) \subseteq Requests \X FixTasks
    /\ DOMAIN rounds \subseteq 1..MaxRounds
    /\ \A i \in DOMAIN rounds : ~RoundOver(rounds[i], fixAlive)
    /\ observers \in [FixTasks -> SUBSET (1..MaxObservers)]
    /\ registered \in [FixTasks -> 0..MaxObservers]
    /\ IsABag(binder)
    /\ fixAlive \subseteq FixProcesses /\ fixDead \subseteq FixProcesses \ fixAlive
    /\ obituaries \in Nat /\ splits \in Nat
    /\ achieved \in [FixTasks -> SUBSET Requests]
    /\ reports \in [FixTasks -> SUBSET {"ok", "failed", "timeout"}]
    /\ bereaved \subseteq FixTasks /\ unanswered \subseteq FixTasks
    /\ fixRan \in [FixTasks -> SUBSET FixProcesses]

\* Something is still to happen to a task: a step, an answer, a timer or a death.
HasWork(t) ==
    \/ Queued(t) # {} \/ Asking(t) \/ RoundsOf(t) # {} \/ OnBinder(t)
    \/ fixTimers[t] > 0
    \/ observers[t] # {} \/ diedCalls[t] > 0

\* A listed task is never left with nothing to wait for, although every timer is removed by
\* every answer (RemoveTimeoutTask), with two exceptions.  A process died while it was listed
\* or it was told of an earlier death: a process that dies with the question of a patch
\* unanswered, between GetRunningState and RegAppStateObserver, or as the first of two,
\* leaves the task listed for ever.  Or a failed notification removed the last id from the
\* list after the last answer had looked at it (RemoveRecordId in NotifyLoadRepairPatch).
FixAccounted ==
    \A t \in FixTasks : applyTasks[t].listed => HasWork(t) \/ t \in bereaved \cup unanswered

\* Success is published only for a task all of whose requests the bundle manager has carried
\* out, on whichever of its chains (NotifyApplyStatus(QUICK_FIX_OK)).
FixOkComplete ==
    \A t \in FixTasks : "ok" \in reports[t] =>
        (IF applyTasks[t].type = "apply" THEN Requests ELSE {"switch", "delete"}) \subseteq achieved[t]

\* A fix that holds native libraries is switched, or its switch is asked for, only when every
\* process that ran as the task learned of the libraries has ended, whichever of
\* OnPatchDeployed, OnProcessDied, HandlePatchDeployed and the revocation decided it.
FixOldProcessesGone ==
    \A t \in FixTasks :
        applyTasks[t].so /\ (BagIn(<<"switch", t>>, asked) \/ "switch" \in achieved[t])
            => fixRan[t] \cap fixAlive = {}

\* A task that no death concerns and whose callback is not lost ends, or waits for the
\* processes of the bundle to end.
FixEnds ==
    \A t \in FixTasks :
        applyTasks[t].listed ~> \/ ~applyTasks[t].listed \/ t \in bereaved \cup unanswered
                                \/ observers[t] # {}
=============================================================================
