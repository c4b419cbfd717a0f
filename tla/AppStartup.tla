----------------------------- MODULE AppStartup -----------------------------
(***************************************************************************)
(* The application startup framework (frameworks/native/appkit/            *)
(* app_startup): before the first ability of a module is launched, or when *)
(* a script asks for it, startup tasks are initialised in the order of     *)
(* their dependencies.  Several runs may share tasks.                      *)
(*                                                                         *)
(* All of it happens on the main thread of the application, so that one    *)
(* event is handled to its end before the next; but a task that is         *)
(* initialised already is dispatched at once, from within the dispatch of  *)
(* another, and a task may fail at once.  The calls under way are the      *)
(* variable stack, and events are handled when it is empty.                *)
(*                                                                         *)
(* Names are data: the order in which maps list tasks is left open.  Left  *)
(* out: dependencies that are not registered (Sort refuses them as it      *)
(* refuses cycles) or that are named twice (both counters of a dependency  *)
(* count it twice) and scripts that call the framework from its callbacks. *)
(* A StartupTaskManager whose run ends within a nested Dispatch is taken   *)
(* to live until the outer calls have returned.  In the code the           *)
(* dispatcher only refers to its tasks_ (startup_task_dispatcher.h:38), so *)
(* that the outer Dispatch reads a destroyed map; what it then reads is    *)
(* not modelled.                                                           *)
(***************************************************************************)
EXTENDS Integers, Sequences, FiniteSets
SeqExt == INSTANCE SequencesExt

CONSTANTS
    StartupTasks,   \* the registered tasks
    MainTasks,      \* those with callCreateOnMainThread_; the others go to the task pool
    AwaitedTasks,   \* those with waitOnMainThread_
    ExcludedTasks,  \* those with isExcludeFromAutoStart_
    MaxRuns         \* bound: launches of abilities and runs asked for by scripts

ASSUME StartupConstants ==
    /\ IsFiniteSet(StartupTasks)
    /\ MainTasks \cup AwaitedTasks \cup ExcludedTasks \subseteq StartupTasks
    /\ MaxRuns \in Nat
    /\ "no task" \notin StartupTasks

VARIABLES
    deps,           \* dependencies_ of the tasks, never changed
    taskState,      \* state_; LOST stands for INITIALIZING when nobody will complete the task
    callbacks,      \* runs that wait for a task: first the one that started it, then extraCallbacks_
    initialised,    \* tasks that have been initialised at some time, for the properties
    startupRuns,    \* each run's StartupTaskManager, its dispatcher and who asked for it
    stack,          \* Run and Dispatch under way, the innermost last
    calls,          \* calls of Dispatch the current event has still to make: <<run, task, ok>>
    posted,         \* runs whose mainThreadAwaitCallback OnError has posted
    stage           \* the run whose AbilityStage is in abilityStages_, or 0

startupVars == <<deps, taskState, callbacks, initialised, startupRuns, stack, calls, posted, stage>>

Runs == 1..MaxRuns
NoTask == "no task"

\* listed: in startupTaskManagerMap_, which alone keeps the manager and its dispatcher alive
\* once Run has returned; completed and awaitCalled: isCalled_ of the two callbacks;
\* told and outcome: calls of the listener and the last result; launched: how often the
\* ability was launched; refused: Run has returned an error.
NoRun == [kind |-> "none", tasks |-> {}, inDegree |-> [t \in StartupTasks |-> 0],
          tasksCount |-> 0, awaitCount |-> 0, listed |-> FALSE, timer |-> FALSE,
          completed |-> FALSE, awaitCalled |-> FALSE, told |-> 0, outcome |-> "none",
          launched |-> 0, refused |-> FALSE]

StartupInit ==
    /\ deps \in [StartupTasks -> SUBSET StartupTasks]
    /\ taskState = [t \in StartupTasks |-> "CREATED"]
    /\ callbacks = [t \in StartupTasks |-> <<>>]
    /\ initialised = {}
    /\ startupRuns = [r \in Runs |-> NoRun]
    /\ stack = <<>> /\ calls = <<>> /\ posted = {} /\ stage = 0

-----------------------------------------------------------------------------
(* Building and sorting.                                                   *)

\* AddStartupTask: the tasks and everything they depend on.
WithDependencies(tasks) ==
    LET reach[n \in 0..Cardinality(StartupTasks)] ==
          IF n = 0 THEN tasks ELSE reach[n - 1] \cup UNION {deps[t] : t \in reach[n - 1]}
    IN  reach[Cardinality(StartupTasks)]

\* SortZeroDeque for every task: inDegreeMap, and the queue of the tasks without dependencies.
SortZeroDeque(tasks) ==
    [inDegree |-> [t \in tasks |-> Cardinality(deps[t])],
     queue |-> SeqExt!SetToSeq({t \in tasks : deps[t] = {}}), taken |-> 0]

\* Mutant: the degree of a child is not looked at before it is put into the queue.
MutantSortUncounted(tasks, s) ==
    LET children == {c \in tasks : Head(s.queue) \in deps[c]}
    IN  IF s.queue = <<>> THEN s
        ELSE [inDegree |-> [c \in tasks |-> s.inDegree[c] - IF c \in children THEN 1 ELSE 0],
              queue |-> Tail(s.queue) \o SeqExt!SetToSeq(children), taken |-> s.taken + 1]

\* One round of the loop of Sort: a task is taken from the queue and counted, and its
\* children follow when their degrees have come down to zero.
SortRound(tasks, s) ==
    LET children == {c \in tasks : Head(s.queue) \in deps[c]}
        lowered == [c \in tasks |-> s.inDegree[c] - IF c \in children THEN 1 ELSE 0]
    IN  IF s.queue = <<>> THEN s
        ELSE [inDegree |-> lowered,
              queue |-> Tail(s.queue) \o SeqExt!SetToSeq({c \in children : lowered[c] = 0}),
              taken |-> s.taken + 1]

\* The loop runs until the queue is empty; one round for each task and one more would show
\* a task that is taken twice.
Sorted(tasks) ==
    LET rounds[n \in 0..Cardinality(tasks) + 1] ==
          IF n = 0 THEN SortZeroDeque(tasks) ELSE SortRound(tasks, rounds[n - 1])
    IN  rounds[Cardinality(tasks) + 1]

\* Sort succeeds if it has taken as many tasks as there are.
SortSucceeds(tasks) == Sorted(tasks).taken = Cardinality(tasks)

Children(run, t) == {c \in run.tasks : t \in deps[c]}

-----------------------------------------------------------------------------
(* What is done to a run: each operator is the run after one call.         *)

\* CallListenerOnCompleted; the manager leaves the map.
Told(run, outcome) ==
    [run EXCEPT !.told = @ + 1, !.outcome = outcome, !.listed = FALSE]

\* The completed callback, which is called once; it cancels the timer.
Completed(run, outcome) ==
    IF run.completed THEN run
    ELSE Told([run EXCEPT !.completed = TRUE, !.timer = FALSE], outcome)

\* AutoStartupDone or, with no callback, the rest of AddAbilityStage and HandleLaunchAbility.
LaunchedOnce(run) == [run EXCEPT !.launched = @ + 1]

\* mainThreadAwaitCallback, which is called once.
AwaitCalled(run) ==
    IF run.awaitCalled THEN run
    ELSE IF run.kind = "auto" THEN LaunchedOnce([run EXCEPT !.awaitCalled = TRUE])
    ELSE [run EXCEPT !.awaitCalled = TRUE]

\* A launch sets the stage of its module.
SetRun(r, run) ==
    /\ startupRuns' = [startupRuns EXCEPT ![r] = run]
    /\ stage' = IF run.launched > startupRuns[r].launched THEN r ELSE stage

Frame(r, t, todo) == [run |-> r, task |-> t, todo |-> todo, failed |-> FALSE]
Top == stack[Len(stack)]
Below == SubSeq(stack, 1, Len(stack) - 1)
Idle == stack = <<>> /\ calls = <<>>

-----------------------------------------------------------------------------
(* Starting a run.                                                         *)

\* Mutant: the timer is not posted.
MutantRunUntimed(run) ==
    [run EXCEPT !.inDegree = [t \in StartupTasks |-> IF t \in run.tasks THEN Cardinality(deps[t]) ELSE 0],
                !.tasksCount = Cardinality(run.tasks),
                !.awaitCount = Cardinality(run.tasks \cap AwaitedTasks)]

\* StartupTaskManager::Run and StartupTaskDispatcher::Run up to their loop.
Prepared(run) ==
    [run EXCEPT !.inDegree = [t \in StartupTasks |-> IF t \in run.tasks THEN Cardinality(deps[t]) ELSE 0],
                !.tasksCount = Cardinality(run.tasks),
                !.awaitCount = Cardinality(run.tasks \cap AwaitedTasks),
                !.timer = TRUE]

\* Prepare, which tells the listener of a cycle but not that there are no tasks, and Run.
\* An ability whose run cannot be prepared is launched at once.
BuildAndRun(r, kind, tasks) ==
    LET run == [NoRun EXCEPT !.kind = kind, !.tasks = tasks, !.listed = TRUE]
        launch(x) == IF kind = "auto" THEN LaunchedOnce(x) ELSE x
    IN  /\ IF ~SortSucceeds(tasks) THEN SetRun(r, launch(Told(run, "error"))) /\ UNCHANGED stack
           ELSE IF tasks = {} THEN SetRun(r, launch(run)) /\ UNCHANGED stack
           ELSE /\ SetRun(r, IF tasks \cap AwaitedTasks = {} THEN AwaitCalled(Prepared(run))
                             ELSE Prepared(run))
                /\ stack' = <<Frame(r, NoTask, {t \in tasks : deps[t] = {}})>>
        /\ UNCHANGED <<deps, taskState, callbacks, initialised, calls, posted>>

NextRun(r) == startupRuns[r].kind = "none" /\ \A q \in Runs : q < r => startupRuns[q].kind # "none"

\* HandleLaunchAbility of an ability of the entry module.
LaunchWithStartup(r) ==
    /\ Idle /\ NextRun(r)
    /\ IF stage # 0
       THEN /\ startupRuns' = [startupRuns EXCEPT ![r] = LaunchedOnce([NoRun EXCEPT !.kind = "direct"])]
            /\ UNCHANGED <<deps, taskState, callbacks, initialised, stack, calls, posted, stage>>
       ELSE BuildAndRun(r, "auto", WithDependencies(StartupTasks \ ExcludedTasks))

\* JsStartupManager::OnRun; the tasks are registered by the first launch.
OnRun(r, input) ==
    /\ Idle /\ NextRun(r) /\ r > 1
    /\ BuildAndRun(r, "js", WithDependencies(input))

-----------------------------------------------------------------------------
(* The dispatcher.                                                         *)

\* Mutant: the callback is posted only for runs asked for by scripts.
MutantErrorUnposted(r) ==
    /\ SetRun(r, Completed(startupRuns[r], "error"))
    /\ posted' = IF startupRuns[r].kind = "js" THEN posted \cup {r} ELSE posted

OnError(r) ==
    /\ SetRun(r, Completed(startupRuns[r], "error"))
    /\ posted' = posted \cup {r}

\* Mutant: the listener is told again although the callback has told it.
MutantRunTellsAgain(run) ==
    LET failed == Told([run EXCEPT !.timer = FALSE, !.refused = TRUE], "error")
    IN  IF run.kind = "auto" /\ ~run.awaitCalled THEN LaunchedOnce(failed) ELSE failed

\* The end of Run after an error: the ability is launched at once unless the callback,
\* which OnError has only posted, was called already.
RunFailed(run) ==
    LET refused == [run EXCEPT !.timer = FALSE, !.refused = TRUE]
        failed == IF run.completed THEN refused ELSE Told(refused, "error")
    IN  IF run.kind = "auto" /\ ~run.awaitCalled THEN LaunchedOnce(failed) ELSE failed

\* The counts after t is done: all are lowered before the first child is started.
Lowered(run, t) ==
    [run EXCEPT !.inDegree = [c \in StartupTasks |-> IF c \in Children(run, t) THEN @[c] - 1 ELSE @[c]]]

\* Mutant: a child is started with the first of its dependencies.
MutantNotifyEarly(r, t, outer) ==
    LET run == Lowered(startupRuns[r], t)
    IN  /\ SetRun(r, run)
        /\ stack' = Append(outer, Frame(r, t, {c \in Children(run, t) : run.inDegree[c] = Cardinality(deps[c]) - 1}))

\* Dispatch of a task that succeeded, up to the loop of NotifyChildren.
NotifyChildren(r, t, outer) ==
    LET run == Lowered(startupRuns[r], t)
    IN  /\ SetRun(r, run)
        /\ stack' = Append(outer, Frame(r, t, {c \in Children(run, t) : run.inDegree[c] = 0}))

\* The loop at the top of the stack goes on to task t.
Remaining(t) == [stack EXCEPT ![Len(stack)].todo = @ \ {t}]

\* RunTaskInit of a task that is initialised: its dispatch is called at once.
DispatchInitialised(t) ==
    /\ taskState[t] = "INITIALIZED"
    /\ NotifyChildren(Top.run, t, Remaining(t))
    /\ UNCHANGED <<deps, taskState, callbacks, initialised, calls, posted>>

\* RunTaskInit of a task that is being initialised: AddExtraCallback.
AddExtraCallback(t) ==
    /\ taskState[t] \in {"INITIALIZING", "LOST"}
    /\ callbacks' = IF taskState[t] = "LOST" THEN callbacks
                    ELSE [callbacks EXCEPT ![t] = Append(@, Top.run)]
    /\ stack' = Remaining(t)
    /\ UNCHANGED <<deps, taskState, initialised, startupRuns, calls, posted, stage>>

\* RunTaskInit of a new task: its init is called, or it is handed to the pool.
StartTask(t) ==
    /\ taskState[t] = "CREATED"
    /\ taskState' = [taskState EXCEPT ![t] = "INITIALIZING"]
    /\ callbacks' = [callbacks EXCEPT ![t] = <<Top.run>>]
    /\ stack' = Remaining(t)
    /\ UNCHANGED <<deps, initialised, startupRuns, calls, posted, stage>>


\* The init of a task of the main thread returns no promise: ReplyFailed sets the state
\* back and dispatches the error, and the loop is left.
StartTaskRefused(t) ==
    /\ taskState[t] = "CREATED" /\ t \in MainTasks
    /\ OnError(Top.run)
    /\ stack' = [stack EXCEPT ![Len(stack)].failed = TRUE]
    /\ UNCHANGED <<deps, taskState, callbacks, initialised, calls>>

\* A task cannot be handed to the pool: the loop is left with the task INITIALIZING, and
\* nobody is told.
StartTaskLost(t) ==
    /\ taskState[t] = "CREATED" /\ t \notin MainTasks
    /\ taskState' = [taskState EXCEPT ![t] = "LOST"]
    /\ stack' = [stack EXCEPT ![Len(stack)].failed = TRUE]
    /\ UNCHANGED <<deps, callbacks, initialised, startupRuns, calls, posted, stage>>

RunTaskInit ==
    /\ stack # <<>> /\ ~Top.failed
    /\ \E t \in Top.todo : \/ DispatchInitialised(t)
                           \/ AddExtraCallback(t)
                           \/ StartTask(t)
                           \/ StartTaskRefused(t)
                           \/ StartTaskLost(t)

\* The rest of Dispatch after its children were started.
Dispatched(run, t) ==
    LET counted == [run EXCEPT !.awaitCount = IF t \in AwaitedTasks THEN @ - 1 ELSE @,
                               !.tasksCount = @ - 1]
        awaited == IF t \in AwaitedTasks /\ counted.awaitCount = 0 THEN AwaitCalled(counted) ELSE counted
    IN  IF awaited.tasksCount = 0 THEN Completed(awaited, "ok") ELSE awaited

\* The call at the top of the stack returns.  Only Run passes an error on: whoever called
\* Dispatch is not told of it.
FrameReturns ==
    /\ stack # <<>> /\ (Top.failed \/ Top.todo = {})
    /\ LET run == startupRuns[Top.run]
       IN  SetRun(Top.run, IF Top.task = NoTask
                           THEN IF Top.failed THEN RunFailed(run) ELSE run
                           ELSE IF Top.failed THEN run ELSE Dispatched(run, Top.task))
    /\ stack' = Below
    /\ UNCHANGED <<deps, taskState, callbacks, initialised, calls, posted>>

-----------------------------------------------------------------------------
(* Events of the main thread.                                              *)

\* The promise of a task is settled, or the pool reports its result, which cannot be an
\* error.  The result is saved, and the runs that wait are called: those that came later
\* first, in their order, then the one that started the task.
CompleteTask(t, ok) ==
    /\ Idle /\ taskState[t] = "INITIALIZING"
    /\ ok \/ t \in MainTasks
    /\ taskState' = [taskState EXCEPT ![t] = IF ok THEN "INITIALIZED" ELSE "CREATED"]
    /\ initialised' = IF ok THEN initialised \cup {t} ELSE initialised
    /\ calls' = [i \in 1..Len(callbacks[t]) |->
                    <<(Tail(callbacks[t]) \o <<Head(callbacks[t])>>)[i], t, ok>>]
    /\ callbacks' = [callbacks EXCEPT ![t] = <<>>]
    /\ UNCHANGED <<deps, startupRuns, stack, posted, stage>>

\* The next callback of the event; it does nothing once its dispatcher is gone.
NextCall ==
    /\ stack = <<>> /\ calls # <<>>
    /\ LET r == Head(calls)[1]
           t == Head(calls)[2]
       IN  \/ ~startupRuns[r].listed /\ UNCHANGED <<startupRuns, stack, posted, stage>>
           \/ startupRuns[r].listed /\ Head(calls)[3] /\ NotifyChildren(r, t, <<>>) /\ UNCHANGED posted
           \/ startupRuns[r].listed /\ ~Head(calls)[3] /\ OnError(r) /\ UNCHANGED stack
    /\ calls' = Tail(calls)
    /\ UNCHANGED <<deps, taskState, callbacks, initialised>>

\* The timer tells the listener and drops the run; mainThreadAwaitCallback goes with it.
OnTimeout(r) ==
    /\ Idle /\ startupRuns[r].timer
    /\ SetRun(r, Told([startupRuns[r] EXCEPT !.timer = FALSE], "timeout"))
    /\ UNCHANGED <<deps, taskState, callbacks, initialised, stack, calls, posted>>

\* The callback OnError posted.
RunPosted(r) ==
    /\ Idle /\ r \in posted
    /\ SetRun(r, AwaitCalled(startupRuns[r]))
    /\ posted' = posted \ {r}
    /\ UNCHANGED <<deps, taskState, callbacks, initialised, stack, calls>>

\* RemoveResult of one task, or of all of them, asked for by a script.
RemoveResults(tasks) ==
    /\ Idle /\ startupRuns[1].kind # "none"
    /\ \E t \in tasks : taskState[t] = "INITIALIZED"
    /\ taskState' = [t \in StartupTasks |->
                        IF t \in tasks /\ taskState[t] = "INITIALIZED" THEN "CREATED" ELSE taskState[t]]
    /\ UNCHANGED <<deps, callbacks, initialised, startupRuns, stack, calls, posted, stage>>

StartupNext ==
    \/ \E r \in Runs :
        \/ LaunchWithStartup(r)
        \/ \E input \in SUBSET StartupTasks : OnRun(r, input)
        \/ OnTimeout(r)
        \/ RunPosted(r)
    \/ \E t \in StartupTasks, ok \in BOOLEAN : CompleteTask(t, ok)
    \/ \E tasks \in {{t} : t \in StartupTasks} \cup {StartupTasks} : RemoveResults(tasks)
    \/ RunTaskInit
    \/ FrameReturns
    \/ NextCall

\* Calls return, posted tasks run and timers expire; nothing says that a task completes.
StartupFairness ==
    /\ WF_startupVars(RunTaskInit \/ FrameReturns \/ NextCall)
    /\ \A r \in Runs : SF_startupVars(OnTimeout(r)) /\ SF_startupVars(RunPosted(r))

StartupSpec == StartupInit /\ [][StartupNext]_startupVars /\ StartupFairness

-----------------------------------------------------------------------------
(* Properties.                                                             *)

\* The values of the variables; a task is awaited exactly while it is being initialised, and
\* no counter of a dispatcher falls below zero.
StartupTypes ==
    /\ deps \in [StartupTasks -> SUBSET StartupTasks]
    /\ taskState \in [StartupTasks -> {"CREATED", "INITIALIZING", "LOST", "INITIALIZED"}]
    /\ \A t \in StartupTasks : (callbacks[t] # <<>>) = (taskState[t] = "INITIALIZING")
    /\ \A r \in Runs :
        /\ startupRuns[r].tasksCount >= 0 /\ startupRuns[r].awaitCount >= 0
        /\ \A t \in StartupTasks : startupRuns[r].inDegree[t] >= 0
    /\ initialised \subseteq StartupTasks /\ posted \subseteq Runs /\ stage \in {0} \cup Runs

\* No task is begun, by whatever run, before every task it depends on has been initialised:
\* runs that share tasks count their dependencies separately, and a task that another run
\* initialises meanwhile must be counted once.
StartupOrder ==
    \A t \in StartupTasks : taskState[t] # "CREATED" => deps[t] \subseteq initialised

\* The listener of a run is told once, and told of success only when every task of the run
\* has been initialised: completed callback, error, error at once, and timeout compete.  An
\* ability is launched a second time only when Run has returned an error, which makes
\* AddAbilityStage go on although OnError has posted the callback: never because a task
\* fails after the ability was launched, or because the last awaited task is done.
StartupToldOnce ==
    \A r \in Runs :
        LET run == startupRuns[r]
        IN  /\ run.told <= 1
            /\ run.outcome = "ok" => run.tasks \subseteq initialised
            /\ ~run.listed /\ run.kind \in {"auto", "js"} => run.told = 1
            /\ run.launched > 1 => run.refused /\ run.launched = 2

\* The loop of Sort, which counts degrees down and takes tasks from a queue, ends with an
\* empty queue, takes no task twice, lets no unsigned degree wrap around, and refuses exactly
\* the graphs in which some tasks all wait for one another.
SortFindsCycles ==
    \A r \in Runs :
        LET tasks == startupRuns[r].tasks
            sorted == Sorted(tasks)
        IN  /\ sorted.queue = <<>>
            /\ \A t \in tasks : sorted.inDegree[t] >= 0
            /\ SortSucceeds(tasks) <=> \A S \in (SUBSET tasks) \ {{}} : \E t \in S : deps[t] \cap S = {}

\* A run ends: even if a task never answers, or is lost on its way to the pool.
StartupRunEnds ==
    \A r \in Runs : startupRuns[r].listed /\ startupRuns[r].tasks # {} ~> ~startupRuns[r].listed

\* An ability whose startup ends otherwise than by timeout is launched.
StartupLaunches ==
    \A r \in Runs : startupRuns[r].kind = "auto" ~>
                        startupRuns[r].launched > 0 \/ startupRuns[r].outcome = "timeout"
=============================================================================
