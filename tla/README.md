# Verification of the ability runtime services

TLA+ models of the services in this repository that decide when an ability runs: the ability
manager (`services/abilitymgr`), the application manager (`services/appmgr`), the quick fix
service (`services/quickfixmgr`), and the ends of their protocols in the application
(`frameworks/native`). TLC checks the models on small instances; TLAPS proves the central
invariants for every value of the constants. `PROJECT.json` lists the components, the runs,
the mutants, the source lines of every definition, the findings, the hazards and the theorems.

Contents: [inventory](#1-inventory), [plan](#2-plan), [modules](#3-modules-and-the-code),
[runs and bounds](#4-runs), [fairness](#5-fairness), [findings](#6-what-the-runs-found),
[proofs](#7-proofs), [what is left out](#8-what-is-not-modelled).

## 1. Inventory

The program is a set of system services, reached by binder calls, and the client
libraries that call them. An application process holds *abilities* (pages, data
abilities, extensions); the ability manager decides which of them exist and in which
life-cycle state, and the application manager starts and kills the processes.

| Component | State it keeps | Operations | Talks to |
|---|---|---|---|
| `AbilityConnectManager` | `serviceMap_` (records by URI), `connectMap_` (connections by client callback), `terminatingExtensionList_`, `startServiceReqList_`, `restartResidentTaskList_`, timeouts in the task queue | start, stop, connect, disconnect, attach, transition done, connect/disconnect/command done, five timeouts, process death, client death, freeze, kill | extension processes through `AbilityRecord` and `LifecycleDeal`; `AppScheduler`; `AbilityCacheManager`; client callbacks |
| `AbilityCacheManager` | device LRU list and one LRU list per access token, a counter beside each | `Put`, `Get`, `Remove`, `Find*`, `DeleteInvalidServiceRecord` | called by `AbilityConnectManager` and `AbilityManagerService` |
| `AbilityRecord`, `ConnectionRecord`, `LifecycleDeal` | life-cycle state, connection list, scheduler, remote object; connection state and callback | set by their managers; send life-cycle messages to the process | application process |
| `TaskHandlerWrap`, queue and ffrt handlers | named tasks, their status | submit (with delay, by name), cancel by name | every manager |
| `DataAbilityManager` | loaded and loading data abilities, clients per record | acquire (waits on a condition variable), release, attach, done, death, load timeout | application processes, `AppScheduler` |
| `MissionListManager`, `MissionList` | mission stacks, waiting queue of start requests | start, minimise, move to front, terminate, transitions, timeouts, death | `AppScheduler`, window service |
| `UIAbilityLifecycleManager` | `sessionAbilityMap_`, `terminateAbilityList_`, the pending state of each record | start, show, minimise, close, attach, transitions, timeouts, death | SceneBoard, `UIAbilityImpl` in the application, `AppScheduler` |
| `PendingWantManager` | want-agent records by key | get, send, cancel, register callbacks | `AbilityManagerService` |
| `CallContainer`, `CallRecord` | callers of an ability by call | call, release, death of a caller | `MissionListManager` |
| `ConnectionStateManager` | observers; connections, data clients and dlp states per process | add, remove, death | called by the managers, calls observers |
| `FreeInstallManager`, `InsightIntentExecuteManager`, `UserController` | requests in progress | start, result, timeout, death; user switch | bundle manager, scene board |
| `AppMgrServiceInner`, `AppRunningRecord`, `AppRunningManager` | process records, their modules and abilities, the pending state, tokens that wait for the foreground, timers | load, attach, foreground, background, terminate, kill, death | spawn service, `MainThread` in the application |
| `QuickFixManagerService` | the task of each quick fix, its timers and its observer of process deaths | deploy, switch, delete, load, unload, reload, with a timeout on each | bundle manager, application manager and every process of the bundle |
| `DataObsMgr`, `UriPermissionManager` | observers of URIs; granted URI permissions | register, notify, unregister, death; grant, revoke | clients |
| App startup framework (client) | registered tasks and their states, one manager and dispatcher per run | build, sort, run, complete, time out, remove results | scripts, the task pool, the launch of abilities |
| Client side `ConnectionManager` | connections of one process | connect, disconnect, callbacks | `AbilityManagerService` |

**What is hard.** Every manager is entered by many binder threads, by the worker of a
task queue and by death recipients. Requests that need the application process are
sent and forgotten; an answer, a timeout or a death comes later, in any order, and
possibly more than one of them. A timeout is cancelled by name, which has no effect
once it has begun and waits for the manager's lock. Several maps must agree on one
record (`serviceMap_`, cache, terminating list; `connectMap_` and the list in each
record; a cache list and its counter), and they are erased by key. Some tasks run
without the lock. Nothing is persisted by the parts modelled so far, so a crash is
always the crash of an application process or a client, never of the service.

**What makes the parts correct.** For connections: a client that asked is told, in the
end, and not told nonsense; a process that runs is known; a record that nobody uses is
terminated; whoever waits has a timeout. For the cache: the two levels agree, capacities
hold, nothing is dropped unless the caller learns of it. For data abilities: a
name that is being loaded does not stay taken when the load fails, acquisitions are
counted. For quick fixes: a task ends, reports success only when every step was done, and does
not switch native code while a process that ran the old one lives. For
applications: service and process agree on the state when nothing is under way, a request for
the foreground is served, a cleaned ability goes, nothing is launched in a process that was
told to end. For UI abilities: a pending transition is under way, a running process is
known, a start is served and a close is carried out. For startup: no task begins before
those it depends on, a run is told once how it ended, and the ability that waits is
launched. For the parts still to come: one mission is on exactly one list.

The hazards, each at its line with the properties that would catch it, are in
`PROJECT.json`.

## 2. Plan

1. **Extension cache** (done): `CacheLists`, `ExtensionCache` (abstract),
   `AbilityCacheManager` (code), and `AbilityCacheManagerProofs` with the invariants and the
   refinement.
2. **Extension connections** (done except UI extensions): `AbilityConnectManager`, built
   on `CacheLists`, so that the manager is composed with the cache as the abstract
   specification describes it, to which the code of the cache is related by refinement.
3. **Proofs about connections** (done): `AbilityConnectManagerProofs`.
4. **Data abilities** (done): `DataAbilityManager`, with the waiting acquirers as threads,
   its load timeout, the deaths of clients and servers, and its proofs. Left: a property of
   bound clients (a client added after the death of the server is not killed with it) and
   the liveness of `Acquire`.
5. **Quick fixes** (done): `QuickFixManager` and `QuickFixManagerProofs`.
6. **Applications** (done for records with one module): `AppRunning`. Left: keep-alive
   applications, the process cache, child and render processes.
7. **UI abilities under SceneBoard** (done): `UIAbilityLifecycle`, manager and application in
   one module, because every property is about the two of them.
8. **Startup** (done): `AppStartup`; the sort is the loop of the code, checked against a reference
   definition of acyclic graphs.
9. **Proofs** about 5, 6, 7 and 8 (done): `QuickFixManagerProofs`, `AppRunningProofs`,
   `UIAbilityLifecycleProofs`, `AppStartupProofs`.
10. **Abstract connection specification**: one client and one extension, told connected at
    most once before being told disconnected; `AbilityConnectManager` related to it for the
    configurations in which it holds (see the findings). The client side
    `ConnectionManager` composed with it.
11. **Missions** (`MissionListManager`), `PendingWantManager`, `CallContainer`,
    `UserController`, `FreeInstallManager` as far as they go.

## 3. Modules and the code

| Module | Models | Remarks |
|---|---|---|
| `CacheLists` | the constants and list operators of the cache | no state; `WithRecord` is what a put does to the list, `Displaced` what has to leave |
| `ExtensionCache` | what the cache promises | one list, oldest first |
| `AbilityCacheManager` | `ability_cache_manager.cpp` | one action per public operation (each holds `mutex_`); the walk of `DeleteInvalidServiceRecord` is one step per element, during which no other operation is possible |
| `CacheListsProofs` | — | lemmas about the list operators, shared by the proofs below |
| `AbilityCacheManagerProofs` | — | theorems: invariants and the refinement of `ExtensionCache` |
| `AbilityConnectManager` | `ability_connect_manager.cpp`, `connection_record.cpp`, the extension part of `ability_record.cpp` and `lifecycle_deal.cpp`, `KillProcess` and `OnAbilityDied` of `ability_manager_service.cpp`, `SubmitTask` and `CancelTask` of `task_handler_wrap.cpp` | see below |
| `AbilityConnectManagerProofs` | — | theorems |
| `DataAbilityManager` | `data_ability_manager.cpp`, `data_ability_record.cpp` | see below |
| `DataAbilityManagerProofs` | — | theorems |
| `QuickFixManager` | `quick_fix_manager_service.cpp`, `quick_fix_manager_apply_task.cpp`, and of the application manager the rounds of notifications (`app_running_manager.cpp`, `quick_fix_callback_with_record.cpp`) and the observers of process deaths | see below |
| `AppRunning` | `app_mgr_service_inner.cpp`, `app_running_manager.cpp`, `app_running_record.cpp`, `module_running_record.cpp`; `main_thread.cpp` and `application_impl.cpp` of the application | see below |
| `UIAbilityLifecycle` | `ui_ability_lifecycle_manager.cpp`, the page part of `ability_record.cpp`; `ui_ability_impl.cpp` of the application | see below |
| `QuickFixManagerProofs`, `AppRunningProofs`, `UIAbilityLifecycleProofs`, `AppStartupProofs` | — | theorems |
| `AppStartup` | `app_startup/*.cpp`, `js_startup_manager.cpp`, and the launch in `ohos_application.cpp` and `js_ability_stage.cpp` | see below |
| `MCAbilityCacheManager`, `MCAbilityConnectManager`, `MCDataAbilityManager` | — | values of constants for TLC, symmetry |
| `MCManagers`, `MCAppServices`, `MCAbilityServices` | — | sums of components that share no state: a behaviour is one of a component chosen at the start |

**AbilityCacheManager.** `devRecLru`, `devLruCnt` and `procLruMap` are the members of the
same names; `last` remembers the last operation and what it returned, for the properties
only. `RemoveAbilityRecInDevList` erases the list element on which the loop of
`DeleteInvalidServiceRecord` stands, and the loop then increments the dangling iterator.
That is undefined behaviour; the model lets the walk go on with the next record (the freed
node is intact), end at once, or crash the service.

**AbilityConnectManager.** The handlers call one another, so they are written as
functions from the manager's state (record `Now`) to its new state; an action picks the
inputs, tests the guards and installs the result with `Become`, which also forgets
records nothing refers to any more (they are `shared_ptr`s in the code; a forgotten model
value can stand for a new record). Three kinds of thread act:

* *binder threads* hold `serialMutex_` from beginning to end, so each call is one step:
  `StartAbility`, `StopServiceAbilityLocked`, `TerminateAbility`, `ConnectAbilityLocked`,
  `DisconnectAbilityLocked`, `AttachAbilityThread`, the answers (`InactiveDone`,
  `Schedule...Done`, `TerminateAnswer`), `KillProcess`, `HandleProcessFrozen`;
* *the worker of the task queue*: `RunTask` takes the next immediate task; a delayed one
  takes two steps, `TimeoutBegins` (from then on it cannot be cancelled) and
  `TimeoutFinishes` (it has got the lock). With `Overtaking`, binder threads act in
  between. `PostDelayed` keeps a second task under a name that is taken, as `SubmitTask`
  does by default: it runs, but cannot be cancelled by name;
* *death recipients*: `OnSchedulerDied` and `OnCallBackDied` only queue tasks.

An extension process is its `inbox`: it may answer the first message, at any time or
never, or die (`ProcessDies`). An answer and its handling by the manager are one step.
The scheduler of the operating system and binder are external. Of the application manager only
what it does to this manager is modelled: it starts a process, kills it, or lets an
ability go (`EndProcess`).

**DataAbilityManager.** `loaded` and `loading` are the two maps, `clients` counts the entries
of `clients_` per record and client, `holds` what a client got and has not given back. A
thread (a client's binder thread, or the `Worker` that handles deaths and restarts resident
data abilities) goes through `Acquire` in at most four steps: `Find` looks at the two maps and
takes `mutex_` if the ability has to be loaded; `LoadLocked` asks for the process, with the
lock; `WaitForLoaded` ends the wait, by notification or by the timeout, and releases the lock;
`AcquireLoaded` or `AcquireTimedOut` is the rest of the function. `WaitForLoaded` adopts
`mutex_` in a `unique_lock`, which unlocks it when the function returns, and the `lock_guard`
of `Acquire` unlocks it again at the end. The second unlock is undefined behaviour; the model
lets it free the mutex, whoever holds it, which is what the build's `std::mutex` does.
Handlers that do not wait are one step. Clients are of three kinds, as the code tells them
apart when they die: pages and extensions (no handler of this manager is called), data
abilities (`ClientDied`), native processes (`OnSchedulerDied`, which takes no lock). The
processes and the dispatch of deaths are external; of the application manager, only its
timeout of a process that does not attach (`AttachTimeOut`) acts on its own.

**QuickFixManager.** A task of the service is a record of `applyTasks`; its steps are posted
to the service's handler (`fixQueue`, one at a time), where the timers (`fixTimers`, counted
per task) run as well. `RemoveTimeoutTask` removes *every* timer of its name, whichever task
posted it, because all tasks use one name. Requests to the bundle manager (`asked`) are
answered at any time, once, or fail. A round is one `NotifyLoadRepairPatch` (or unload, or
reload): the processes still to be notified, those whose answer is outstanding, and those
whose record is looked at; its callback fires when all have answered or died. To notify a
process is two steps: its id is added to the list of the callback (`AddRecordId`), and the
process is called and, if that fails, its id taken off again (`NotifyProcess`). Answers of
other processes come in between, and the removal calls nobody back. `unanswered` remembers
the tasks whose callback was lost in this way, and `fixRan` the processes that ran when a
task learned whether its fix holds native libraries, for the properties. The
registration of the observer and its deaths are steps of their own, in either order with
respect to the rounds. A task lives as long as something refers to it (`Referenced`), as
the `shared_ptr`s do.

**AppRunning.** A record has a state, a pending state, a set of tokens waiting for the
foreground, its abilities (running or terminating) and its timers; the process has a state, an
inbox of commands and an outbox of answers. Calls of the service run on one serial queue and
are one step each. The timer of a background command runs the handler of the answer, which may
still come: `MaxSlow` counts how often it does in one behaviour. With SceneBoard, abilities
are terminated with force, without it not; a behaviour is of one kind (`sceneBoard`).
The run `managers` is about devices without it, on which `DelayKillAbility` terminates with
force all the same; `app_services` is about both. `JointUser` says whether the bundle has a
`jointUserId`: then `CheckAppRunningRecordIsExist` looks for the record in another way, without the
guard on its modules. An ability whose module is removed before the process has attached is
forgotten by the process as well (`Forgotten`).

**UIAbilityLifecycle.** Calls of the manager hold `sessionLock_` and are one step. An answer of the
application is dispatched under the lock, but completed by a task posted to the serial
queue (`uiTasks`), and anything may happen in between. The application's end is
`UIAbilityImpl`: `impl` is `lifecycleState_`, `byAbility` is `notifyForegroundByAbility_`, the
window reports that it was shown during or after `onForeground`. `refused` remembers
that the window manager froze the window or did nothing, `closeAsked` that a process could not be
attached to the status bar and SceneBoard was asked to close its session
(`DoProcessAttachment`), for the properties. What an
application does, or a timeout finds, after its record has left both containers has no effect
in the code, because the token is looked up first: it is no step of the model, and the
application's own state is forgotten with the record.

**AppStartup.** Everything happens on the main thread. A task that is initialised already is
dispatched from within the dispatch of another, so the calls under way are a stack of
frames; a frame that fails is left, and only `Run` passes the failure on. Events (a promise
settled, a timer, a posted callback, a call of a script) come when the stack is empty. The
dependencies are any graph, chosen at the start, cycles included. `Sorted` is the loop of
the topological sort, with its queue, its degrees and the count of tasks it has taken; it is one
step, as it calls nothing. A task whose hand-over to
the pool failed has the state `LOST`: `INITIALIZING` in the code, but nobody will
complete it.

Data is abstracted: a want, an element name or a URI is the service it names, an ability
record id the record, a connection record id a number in creation order; caller
information, permissions, statistics, logging and event reports are left out.

## 4. Runs

| Run | Instance | Checks |
|---|---|---|
| `managers` | one of: 1 resident data ability name, 2 records, a data ability, a native client and the worker, 2 acquisitions each, crashes; 2 quick fix tasks, 1 process, 2 observers, 3 rounds; 1 application record, 2 abilities, 1 late answer; 1 session in new process mode, 2 UI ability records; 3 startup tasks with any dependencies, 2 runs | `ManagersTypes`; `LoadingIsAwaited`, `ClientsCounted`; `FixAccounted`; `AppSettled`, `AppForegroundBacked`, `AppLaunchBeforeEnd`; `UIPendingUnderway`, `UINoOrphan`, `UIBackgroundAgreed`; `StartupOrder`, `StartupToldOnce`, `SortFindsCycles` |
| `app_services` | one of: 1 quick fix task, 2 processes, one that starts meanwhile; 1 application record of a bundle with a joint user, 2 abilities | `FixAccounted`, `FixOkComplete`, `FixOldProcessesGone`, `FixEnds`; `AppForegroundReached`, `AppPageEnds` |
| `ability_services` | one of: the cache with 5 records, 2 tokens, 2 bundles, capacities 3 and 2; 2 sessions (one in new process mode), 1 UI ability record; 2 startup tasks, 2 runs | `TypeOK`, `ListsAgree`, `WithinCapacity`, `NoSilentDrop`, `ImplementsCache`; `UIPendingUnderway`, `UIStartServed`, `UIClosedEnds`; `StartupRunEnds`, `StartupLaunches` |
| `cache_delete` | the cache of `ability_services` | `DeletedBundleIsGone`: violated |
| `connect_timeouts` | 1 service, 2 records, 2 clients, 2 connections; auto disconnect, crashes, kill, null remote objects, overtaking | `OneHome`, `TimeoutsArmed`, `UnusedIsTerminated` |
| `connect_restart` | 1 resident and cacheable service, 2 records, 1 client, 2 waiting start requests; started, stopped, crashing | `TypeOK`, `OneHome`, `TimeoutsArmed` |
| `connect_cache` | 2 cacheable services with 2 records each, room for one in the cache, 1 client; one stopped, one started and frozen | `OneHome` |
| `connect_liveness` | 1 service, 1 record, 2 clients, 3 connections; auto disconnect, crashes, silence | `ConnectedIsMapped`, `RequestsResolve`, `DeathIsReported`, `TerminationCompletes` |
| `connect_null` | 2 clients, an extension that may return no remote object | `RequestsResolve`: violated |
| `connect_killed` | 2 clients, somebody kills the application | `DeathIsReported`: violated |
| `connect_stopped` | 2 clients, somebody stops the service | `TerminationCompletes`: violated |
| `data_lock` | 1 resident name, 3 records, a page, a native client and the worker; crashes | `NamesOnce`: violated |

**Sums.** Components that share no state are checked together: the variable `manager` is chosen at
the start, the others keep their initial values, and no step changes two components. A
property of one component holds trivially in the behaviours of the others, so a sum
checks exactly what separate runs would. `MCManagers` also has the two data
ability records of one name made in a fixed order (`InOrder`): they are interchangeable, so
no behaviour is lost but its mirror image.

**The properties in words.** `OneHome`: a record is in one of service map, cache and
terminating list at most, a service has at most one reachable record, and no process runs
whose record cannot be found (window extensions excepted, see section 8). `TimeoutsArmed`: a
record that loads or terminates, a waiting start request and a registered restart each have a
task that will end the wait. `UnusedIsTerminated`: a record without connections that was never
started does not stay mapped. `ConnectedIsMapped`: a record does not go before its
connections. `RequestsResolve`, `DeathIsReported`, `TerminationCompletes`: waiting ends; the
connections of a dead process are dropped and their living clients told; terminating records
go. `LoadingIsAwaited`: an entry of the loading map always has a thread that will erase it if
nothing else does. `ClientsCounted`: a loaded ability lists a living client as often as the
client acquired and did not release it. `NamesOnce`: no name is in both maps.

`ManagersTypes`: the type invariants of the five managers. `FixAccounted`: a listed task has
something under way that will take it on, unless the death of a process has cost it an answer
(`bereaved`), or a failed notification its callback (`unanswered`): then it stays listed for
ever. `FixOkComplete`: success is reported only after every step of the bundle manager the
kind of fix calls for. `FixOldProcessesGone`: a fix with native code is switched, or its
switch asked for, only when every process that ran as the task learned of the native code has
ended. A process that starts between the decision and the switch is not among them: it runs
the old code, and nothing in the code prevents it. `FixEnds`: a task that neither such a death
nor a lost callback concerns ends, or waits for the processes of the bundle to end.

`AppSettled`: when process and service have handled everything, they agree on the state and
nothing is pending. `AppForegroundBacked`: an ability is in the foreground only if its
application is, or is on the way, unless a late answer was taken for a later one.
`AppForegroundReached`: a token that waits is served or overridden. `AppLaunchBeforeEnd`: no
launch follows the command to end, in a bundle without a joint user. `AppPageEnds`: an ability
that was cleaned goes.

`UIPendingUnderway`: a pending state has a transition under way that will end it (but see the
frozen window and the failed attachment below). `UINoOrphan`: a process runs only for a record
the manager can find. `UIBackgroundAgreed`: an ability the manager takes for backgrounded is
not in the foreground in its application once it has handled its commands, unless the window
manager refused its window (`refused`). `UIStartServed`: a started ability gets to the
foreground, or its session ends or is told, with the same two exceptions. `UIClosedEnds`: a
closed ability goes.

`StartupOrder`: no task has begun before all it depends on were initialised.
`StartupToldOnce`: a run that has gone told its listener once, and success only if all its
tasks were initialised; an ability is launched twice at most, and only when `Run` returned an
error. `SortFindsCycles`: the loop of the sort ends with its queue empty, counts no unsigned
degree below zero, and refuses exactly the runs in which some tasks all wait for one another.
`StartupRunEnds`: a run ends even if a task never answers. `StartupLaunches`: the ability is
launched unless its startup timed out.

**Bounds.** `MaxConns` bounds the connections made in one behaviour. Two are enough for
every path of the code to be taken, because the code tells apart only the first
connection of a record (which sends a request and arms a timeout), a further one, the last
one that disconnects and one that is not the last; the third in `connect_liveness` is a client
that returns. Two records per service allow an old instance to terminate while the new
one is loaded, which is as much as `serviceMap_` can confuse; liveness is checked with
one, because the tasks of an old instance touch only that instance (`OneHome`, in
the runs with two). `MaxReqs` and `MaxInbox` bound waiting start requests and unanswered
messages when somebody adds to them; answers are never blocked by them, and timeouts
and deaths only where they restart a resident service. A
handler that would need a new record when the set is exhausted is not enabled (`RoomFor`,
`RoomToRestart`). In the cache, five records over two tokens with capacities 3 and 2 make both
kinds of eviction happen, in either order. For data abilities, each record is made once,
so the records bound the loads: two allow a reload after a timeout or a death while the old
process is still there; `data_lock` needs three, because the first load has to fail.
`MaxHolds` of two tells one acquisition of a client from several.

Two quick fix tasks share the name of the timers; two processes answer or die in either order;
`MaxObservers` and `MaxRounds` allow a retry after a process has started meanwhile
(`MaxSplits`). Two abilities of an application tell the last one from the others; the guard of
`CheckAppRunningRecordIsExist` on records without modules that are not terminating needs a
third one and is not reached by the runs. With three abilities and `JointUser`, which has no
such guard, TLC refutes `AppLaunchBeforeEnd` without its condition in eight steps: two loads,
a load timeout of the first ability, the second terminated, attach, `DelayKillAbility` for the
first, the terminate timeout of the second, and a load. The theorems `QuietIsSettled` and
`ForegroundIsBacked` are about either kind of bundle. Two UI ability records are a session
that is closed and started anew; two sessions are one in new process mode and one that is not.
`MaxUICommands` bounds the commands a session may pile up at a silent application; answers are
never blocked. It is 0 in `managers`, which has two records, and 1 in `ability_services`,
which has two sessions with one; either has a session in new process mode, whose attachment to
the status bar may fail. Three startup tasks have chains, forks, joins and cycles; two runs
share them.

**Deadlock.** The runs do not check deadlock: when the connections, records, tasks or runs of
the instance are used up, or all clients are dead, nothing need happen. Waiting for ever is
excluded by the liveness properties instead.

**Mutants.** For each property of each passing run a plausible bug (a timeout that is not
armed, an entry that is not erased, a counter that is decremented once too often) is defined
next to the operator it replaces; TLC finds the property violated under the same
configuration.

## 5. Fairness

`FairSpec` assumes that the worker of the task queue finishes what it began, runs what is
queued and begins delayed tasks when they are due; that death recipients are called; and that
a process told to become inactive answers or dies. The first two are what the task handler
and binder do. The third is an assumption about applications: for an ordinary extension
the inactive timeout does nothing (`HandleInactiveTimeout`), so the code relies on it too.
Nothing else is assumed of processes (they may be silent for ever at every other message)
or of clients.

All conditions but the one on deaths are weak fairness written out as "infinitely often
there is nothing to do, or infinitely often it is done". The set of start timers is separated
from the other timers, so that a start timeout that is due over and over does not stand for
progress of the rest. Liveness is checked without resident services, because the bounds on
records could then disable a task.

The other liveness properties assume the same kinds of things. `QuickFixFairness`: the handler
runs what is queued, timers expire, the bundle manager and the binder calls answer, and rounds
of notifications go on; no process has to start or to stop. `AppFairness`: a process handles
its commands and exits once it has stopped, the service handles answers, timers and deaths;
nobody has to start or attach a process, and no background timer has to run. `UIFairness`: the
queue of the service runs, timers expire, the application manager answers, and an application
handles its commands and hears from its window, or dies; that an application is late enough
for every timeout is a possible behaviour, for timers may expire at any time.
`StartupFairness`: calls return, posted callbacks run, timers expire (strong fairness, as they
wait until the main thread is idle, and an event loop reaches what is due); no task has to
complete.

The run `connect_liveness` also leaves out, because TLC finds the properties violated with them:
`Overtaking` (`HandleConnectTimeoutTask` reads the list of connections, line 1589, before
it has the lock; a client that connects in between is forgotten by the task and waits for
ever), `Freezes` (`HandleProcessFrozen`, line 2967, tests in one step and terminates in
another; a client that connected in between is never told), stopped services and
killed applications (below). Started services are left out as well: a start command that
is never answered has no effect when it times out (`HandleCommandTimeoutTask`, line 1574),
and connections that arrived before the answer wait with it.

## 6. What the runs found

* **`cache_delete`**: `DeleteInvalidServiceRecord` increments an iterator whose element has
  been erased (`ability_cache_manager.cpp:299-301`); a record of the deleted bundle may stay
  cached.
* **`connect_null`**: when `onConnect` returned no object, the record is active, has no remote
  object and keeps its only connection until a queued task drops it. A second client that
  connects before that is neither connected nor given a timeout
  (`ability_connect_manager.cpp:700`).
* **`connect_killed`**: `KillProcess` forgets the records right after the kill
  (`ability_manager_service.cpp:6211`); the deaths that arrive later are looked up by
  record, and the clients are never told.
* **`connect_stopped`**: the task that completes a second connection makes the record
  `ACTIVE` whatever it is (`connection_record.cpp:135`). A service stopped in between is
  then refused by `TerminateDone`: its process is never terminated, its record stays on the
  terminating list, and its client is told *connected* after *disconnected*.
* **`data_lock`**: the second unlock of `mutex_` (`data_ability_record.cpp:79`,
  `data_ability_manager.cpp:73`) frees the lock of another thread that is loading. A third
  thread then finds neither map filled and loads the same ability, and the name ends up in
  both maps.

Modelling `DataAbilityManager` also showed, without a run: a waiter that times out
erases the entry of its *name*, which may belong to a newer load; a client that is added
after its server's death was handled is not killed although it asked to be bound; and
`RemoveClients` is reached only for clients that are data abilities themselves, because
`AbilityManagerService::OnAbilityDied` sends the deaths of pages and extensions elsewhere.

Modelling the other components showed, and the properties that would fail make an exception for it:

* the task that handles a frozen window sets the record to `BACKGROUND` and leaves
  `pendingState_` (`ui_ability_lifecycle_manager.cpp:437`), so that later starts are dropped;
  `MissionListManager` resets it (`UIPendingUnderway`, `UIStartServed` except `refused`);
* a process that cannot be attached to the status bar (`DoProcessAttachment`) has lost its load
  timer already and gets neither a foreground command nor its timer
  (`ui_ability_lifecycle_manager.cpp:237`); the pending state stays set until SceneBoard closes
  the session, as it was asked to (`UIPendingUnderway`, `UIStartServed` except `closeAsked`);
* the task of a frozen window also makes a record `BACKGROUND` without a word to the
  application. A session of new process mode that is shown again from the status bar meanwhile
  has a second foreground command under way: the application ends in the foreground and the
  manager takes it for backgrounded (`UIBackgroundAgreed` excepts `refused`; the proof failed
  at this step without the exception, and TLC shows the behaviour with `MaxUICommands` of two,
  which the run `managers` does not have);
* a window shown after `onForeground` has returned leaves `lifecycleState_` at
  `BACKGROUND_NEW` (`ui_ability_impl.cpp:459`), so the next background command is ignored
  and only its timer completes it;
* an ability put to the background while another waits for the foreground overwrites the
  pending state, and the waiting request is never served (`app_running_record.cpp:1038`;
  `AppForegroundReached` excepts `overridden`);
* the id of a process that cannot be notified is on the list of the callback for a moment. An answer of
  the last other process that comes then does not call back, and neither does the removal of
  the id (`app_running_manager.cpp:1036`); the quick fix task stays listed for ever
  (`FixAccounted`, `FixEnds` except `unanswered`);
* a bundle with a `jointUserId` finds a record whose last module is gone and whose process was told
  to end, if no operation marked it terminating (`app_running_manager.cpp:122`), and launches
  an ability in it (`AppLaunchBeforeEnd` is about the other bundles);
* the background timer runs `ApplicationBackgrounded`, and the late answer runs it again
  (`AppForegroundBacked` excepts records with `slow`);
* a startup task that fails at once makes the ability launch twice (`StartupToldOnce`), a
  timed-out startup never launches it (`StartupLaunches`), and a second launch while the first
  waits replaces its `AbilityStage`;
* a startup task that cannot be handed to the pool stays `INITIALIZING` for ever, so every later run
  that needs it ends by its timer.

## 7. Proofs

`AbilityCacheManagerProofs` proves, for every set of records and tokens and all
capacities, `Spec => []TypeOK` (`CacheTypes`), `Spec => []ListsAgree`
(`CacheListsAgree`) and `Spec => []WithinCapacity` (`CacheWithinCapacity`). None of the
invariants is inductive alone: fullness is tested with `==` on counters, so capacity needs
the counters to be right; eviction takes the head of a list, which must not be empty; and
a record taken out of one list is found in the other only because both agree.
The inductive invariant `CacheInv` is the conjunction of the three, which the run `ability_services`
checks as well. The argument:

1. facts about dropping from and appending to a list without duplicates (`DropAtFacts`,
   `DropFacts`, `AppendFacts`, `TailFacts`; `LeastElement` for the oldest entry);
2. what each operation of the code does to a good list or map (`RemoveProcFacts`,
   `AddToProcFacts`, `RemoveDevFacts`, `AddToDevFacts`, `GetProcFacts`);
3. each public operation keeps the cache good (`PutIsGood`, `GetIsGood`, `RemoveIsGood`), and
   `CacheStep` puts the actions together, the steps of the undefined walk included.

The assumptions are `CacheConstants` and `ManagerConstants`: every record has a token,
every token a bundle, and capacities are positive, as the defaults in the code are.

`DataAbilityManagerProofs` proves, for any number of clients, names and records and any
bound on acquisitions, `TypeOK` (`DataTypes`), `LoadingIsAwaited` (`DataLoadingIsAwaited`)
and `ClientsCounted` (`DataClientsCounted`), from
`DataConstants` (the kinds of the constants; the worker is not a client).
The inductive invariant `DataInv` adds three parts. `RecordsOK`: the maps hold records
under their own names, loaded ones are active and attached, loading ones are not active, and
a record that is not active has no clients. It is needed when a load completes, for the
counts of the record start at zero, and because two names never share a record.
`ThreadsOK`: a thread that waits or has waited refers to a record, which is active once
the wait was successful; so `AcquireLoaded` never takes its error path. `NoticesOK`: what
is left to be handled are deaths of clients that are gone, so that clearing their entries
breaks no count of the living. There is one lemma per action; `ThreadMoves` and
`AddClientFacts` are shared. The interesting case of `LoadingIsAwaited` is
`AcquireTimedOut`: the thread that goes may have been the only one that waits for the
entry, and erases the entry of the name it waited under.

`AbilityCacheManagerProofs` also proves `Spec => ImplementsCache` (`CacheRefines`) and
`Spec => NoSilentDrop` (`CacheDropsNothing`). The refinement mapping is the device list. To
`CacheInv` the inductive invariant `RefinementInv` adds that each list of the map has its
records in the order of the device list (`OrderAgrees`): the code evicts the front of the
token's list, the abstract cache the oldest record of the token, and only the order makes
them the same (`OldestIsFront`, `EliminatedIsDisplaced`). That the two levels agree in their
counts is `OwnCount`, a bijection between a token's list and its positions in the device list.

`AbilityConnectManagerProofs` proves `TypeOK` (`ConnectTypes`), `OneHome`
(`RecordsHaveOneHome`), `TimeoutsArmed` (`TimeoutsAreArmed`) and `UnusedIsTerminated`
(`UnusedAreTerminated`) for every set of services, records and callbacks, all bounds, and
every combination of the switches (crashes, kills, freezes, resident and cacheable services,
null remote objects, auto disconnect, overtaking), from `ConnectConstants` and
`CacheConstants`. The handlers are functions of the manager's state, so the inductive
invariant is `ConnectInv == Fits(Now, {running.task}) /\ RunFits(running) /\ dead \subseteq
Callbacks`, where `Fits` is a predicate of such a state and there is one lemma per handler (it
maps a state that fits to one that does), then one per action, each with `BecomeInv` for the
records that are forgotten at its end. What had to be found:

* `Fits(s, E)` takes the set `E` of *excused* timeouts. In the middle of a handler a timeout
  is cancelled before, or armed after, the state it belongs to changes; and the timeout the
  worker has begun is not armed any more, although its record may still wait for it. With
  `E` the lemmas compose, and at the end of an action only `running.task` is left in it;
* `Housed` ties states to places: a record in use never has the state `none`, so that
  `GetOrCreateServiceRecord` makes no record of one that is in use; cached records are
  active and cacheable; a record of the service map is not terminating; and a record whose death is
  still to be handled (`Mourned`) has no running process, so that a queued death never
  erases a record that was started anew;
* waiting start requests and restarts are equivalent to their timers, in both directions,
  because a timer left behind would end a later wait;
* `HandleAbilityDiedTask` and the start timeout restart what they killed, and a completed
  start works off the waiting requests one by one: the model writes that as a recursive function
  (`started`); that it exists is shown by the least number at which it would not
  (`RestartsExist`), without induction theorems.

`UnusedIsTerminated` has a second inductive invariant, `UsedInv`, proved on top of
`ConnectInv`: every record of the service map is `Needed` (it has a connection, was started,
or is on its way to its first command), and the facts of `Sound` and `ListFits` without which
one handler or another would break that:

* a queued `completeConnect` belongs to a record that is active or terminating.
  `CompleteConnect` makes the record active without looking, and a record that was
  loaded to be started would lose the reason it is there for;
* a client has one connection to a record at most, so `DisconnectAbility` for all
  connections of a client never drops the last two of a record directly;
* connections belong to records in use, so a record made anew starts without any;
* the load message is the first of its inbox and its record is still `INITIAL`: a second
  attach cannot take a record back to `INACTIVATING`;
* the connections that a timeout has read before it waited for the mutex are all of one
  record, whatever overtakes it (`ListFits`); a connection keeps its record as long as it is
  referred to (`Targets`).

Most handlers leave the reasons alone (`Keeps`, which composes); there is one lemma for each of the
others, and one per action.

`UIAbilityLifecycleProofs` proves, for any sessions and any number of records, commands and
tasks, the types (`UIRecordTypes`), `UINoOrphan` (`UIAbilitiesAccounted`), `UIPendingUnderway`
(`UIPendingIsUnderway`) and `UIBackgroundAgreed` (`UIBackgroundIsAgreed`), from `UIConstants`.
A step changes one record, its place in the two containers and the tasks queued for it, so the
inductive invariant `UIInv` is `RecordFits` of these four for each record. The parts that are
not obvious: what resolves a pending state is a matter of the *last* command sent, not of any
(`Resolving`); an ability that is being backgrounded will not be in the foreground when it has
handled all its commands (`Settling`), which speaks of the future of the application, as the
property itself holds only when no command is left; a death of a mapped record is queued; a
frozen window was refused; and where a process could not be attached, `closeAsked` is set
until the session is closed.

`AppRunningProofs` proves, for any number of abilities, records and late answers, the types
(`AppRecordTypes`), `AppLaunchBeforeEnd` (`LaunchesBeforeEnd`), `AppSettled`
(`QuietIsSettled`) and `AppForegroundBacked` (`ForegroundIsBacked`), from `AppConstants`. The
inductive invariant `AppInv` says of each record how its state and its pending state fit the
two queues: what is awaited is under way; when no turn is left in the inbox, the process is
where the last answer in the outbox says or, if there is none, where the service says
(`SettlesFits`); and as long as no timer has stood in for an answer, one turn at most is under
way, and it is the one the pending state calls for (`PromptFits`). The first part of these
holds even when a late answer is taken for a later one, which is why `AppSettled` needs no
exception and `AppForegroundBacked` does. `LaunchesBeforeEnd` is the only one of these that
uses the guard on modules, so it is stated for bundles without a joint user; the others hold
for every value of `JointUser`.

`QuickFixManagerProofs` proves, for any number of tasks, processes, observers and rounds, the
types (`QuickFixTypesHold`), `FixAccounted` (`FixAccountedHolds`), `FixOkComplete`
(`FixOkCompleteHolds`) and `FixOldProcessesGone` (`FixOldProcessesGoneHolds`), from
`FixConstants`. Nothing in the code says how far a task is, and a callback that comes twice
has it in two places; so the inductive invariant `FixInv` collects the *jobs* of a task
wherever they are (the queue, the bundle manager, the rounds, the observers, the published
results) and says of each task (`TaskFits`):

* `StagesFit`: the bundle manager has carried out what the job needs (`Needs`). Repeated
  callbacks add jobs but never one that is not allowed, which is `FixOkComplete`;
* `LiveFits`: a listed task that is neither bereaved nor unanswered has something under way
  that is not a timer, and not a round that has called back already and only goes on asking
  processes that are gone (`Spent`). `FixAccounted` is not inductive: any answer removes every
  timer, and a round may end without a call. What was seen running still runs, so that every
  notification finds somebody to answer. A round that is telling a process has called back or
  still has an answer to come (`TellingFits`, part of the types);
* `DeployFits`: a fix is deployed once, so when the answer comes there is no other job of the task,
  whose `isSoContained_` the answer sets; and a fix with native libraries is never unloaded;
* `DeathFits`: whoever handles a death is among the bereaved, for whom `LiveFits` says nothing.

A step is about one task, so there is one lemma for the others (`SameFits`), one for what a step
of a task has to show (`MovesOn`, `TaskMoves`) and one per action. These lemmas prove, with
`FixInv'`, that the switch of a fix with native libraries is decided only when no process
runs (`SwitchFits`). From this follows the second inductive invariant, `RanInv`: once the switch is
decided, none of the processes of `fixRan` is alive, and nobody comes back from the dead
(`NoReturn`).

`AppStartupProofs` proves, for any finite set of tasks, any dependencies and any number of
runs, the types (`StartupTypesHold`), `StartupOrder` (`StartupOrderHolds`) and
`StartupToldOnce` (`StartupToldOnceHolds`), from `StartupConstants` (the kinds of the
constants; `"no task"`, which stands for the null task, is not a task). A dispatcher keeps
counters only, and a count says nothing of which tasks were counted; so the inductive
invariant `StartupInvariant` relates them to tasks:

* `Progress`: for each run there are two sets, the tasks whose children have been notified and
  those whose `Dispatch` has counted, such that the degree of each task and the count of the
  dispatcher are what the sets say. `Dispatch` calls itself through tasks that succeed at
  once, and the two sets differ by the calls on the stack;
* `PendingOnce`: a task waits in one place for each run: in a loop on the stack that will start it,
  for its completion, or for a `Dispatch` still to be made.
  Without it one task could be counted twice and another one begun too early;
* `TasksInOrder` is `StartupOrder` with what relates the state of a task to those who wait for
  it and to the history `initialised`, which survives `RemoveAllResult`;
* `OneRun`, `WaitersBegun`: the calls on the stack are all of one run, and whoever may still be
  called has a dispatcher.

The closure of the tasks under dependencies is an iteration. The induction theorems of the
library cannot be used, so the module derives from the well-foundedness of finite sets that a
set of numbers has a least element (`LeastNumber`), and from this that a growing iteration
within a finite set stops in time (`IterationStops`). With it `WithDependenciesCloses` shows
that the closure is closed. The proofs need nothing of the sort: a graph with a cycle that it
let pass would end by the timer of its run.

Only model-checked: all liveness (fairness and `ENABLED` are outside the prover's reach);
`ManagersTypes`, which is the conjunction of type invariants of components, each of them
proved in the module about its component; `SortFindsCycles`, as the loop of the sort is an induction
over its rounds; and `ConnectedIsMapped`, which holds
for the switches of its run and not for all (caching, a kill, a freeze or a completion that
overtakes another leaves a connected record outside the map).

## 8. What is not modelled

UI extensions and their sessions, window extensions (which get a new record while the old
process runs, `ability_connect_manager.cpp:490`, so that `OneHome` is not claimed of them),
`UI_SERVICE` extensions, the root launcher and the scene board take branches of their own in
`AbilityConnectManager` and are left to a module that extends it; so is the failure of
`ReportXiaoYiToRSSIfNeeded`, which one bundle can meet. Launches of debug applications and
with `libc.hook_mode`, which arm no timeouts, are left out of every module.
`HandleCallBackDiedTask`, which locks twice, and `StartServiceTimeout`, which begins before it
has its lock, are one step each. Of `DataAbilityManager`, `OnAppStateChanged`, the death of a
scheduler without an ability record (`data_ability_record.cpp:501`), the reports to
`ConnectionStateManager` and accesses of two unlocked threads to one container at the same
instant are left out. Of the application manager, keep-alive applications and their restarts,
the process cache, debugging, render and child processes and configurations are left out; of
UI abilities, start by call, specified abilities and prepare-terminate, a new want that comes
with the background command (`isNewWant`: the model keeps the harder case, in which the
command is ignored) and a background timeout that has begun and waits for the lock; of quick
fixes, the calls of the bundle manager between the check of a revocation and its
`AddApplyTask`; of the startup framework, unregistered dependencies, a dependency named twice,
scripts that call it from its own callbacks, and the destruction of a manager whose outer
`Dispatch` is still under way. The notes in `PROJECT.json` say so per component. Permissions,
dump functions, event reports and statistics decide nothing in the models. The other
components of the table in section 1 are not modelled yet. Language bindings, the simulator,
command line tools and dialogs have no state the services depend on.
