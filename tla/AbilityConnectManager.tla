----------------------- MODULE AbilityConnectManager -----------------------
(***************************************************************************)
(* services/abilitymgr/src/ability_connect_manager.cpp together with       *)
(* connection_record.cpp and the parts of ability_record.cpp and           *)
(* lifecycle_deal.cpp it drives: starting, connecting, disconnecting,      *)
(* stopping, caching and restarting service extensions.                    *)
(*                                                                         *)
(* Three kinds of thread act on the manager.                               *)
(*  - Binder threads bring requests of clients and answers of extension    *)
(*    processes.  Each holds serialMutex_ from its first to its last       *)
(*    access, so each is one step.                                         *)
(*  - One worker runs the serial task queue (task_handler_wrap.cpp): tasks *)
(*    submitted without delay in order, delayed tasks when they are due.   *)
(*    A delayed task can be cancelled by name only until the worker begins *)
(*    it; it then waits for serialMutex_.  Hence those timeouts take two   *)
(*    steps here: it begins (variable running), and it finishes.           *)
(*  - Death recipients report dead processes and clients by queueing tasks.*)
(*                                                                         *)
(* A message to an extension process stays in its inbox until the process  *)
(* answers it; handling a message and delivering the answer are one step.  *)
(* Ability records are shared_ptrs: a record nothing refers to any more is *)
(* reset to Blank and may stand for a new one.                             *)
(*                                                                         *)
(* UI extensions, the root launcher and the scene board, which take other  *)
(* branches, are left out.  So are                                         *)
(*  - window extensions: GetOrCreateServiceRecord does not reuse their     *)
(*    records (noReuse) but erases the mapped one and makes another while  *)
(*    the process of the old one runs (ability_connect_manager.cpp:471 and *)
(*    490-498), so that OneHome is not claimed of them;                    *)
(*  - debug applications, whose loads arm no timeout (1417) and whose      *)
(*    terminations neither (ability_record.cpp:1571), and libc.hook_mode,  *)
(*    which arms none at all (1513): TimeoutsArmed is not claimed of them. *)
(* Two tasks that take a lock and then serialMutex_, or begin and then     *)
(* wait for startServiceReqListLock_, are one step: HandleCallBackDiedTask *)
(* (what it does first, clearing callbacks of a client that is dead, shows *)
(* only in what it does next) and StartServiceTimeout (requests of the     *)
(* service that replace the waiting ones in between would be dropped in    *)
(* their stead, and their own task would find none).                       *)
(***************************************************************************)
EXTENDS CacheLists

CONSTANTS
    NoRecord,       \* nullptr
    Services,       \* service extensions: the keys of serviceMap_
    ServiceOf,      \* the service a record is an instance of
    Callbacks,      \* IAbilityConnection objects of clients
    MaxConns,       \* bound: connection records made in one behaviour
    MaxReqs,        \* bound: start requests waiting for one service
    MaxInbox,       \* bound: messages to one process when a client adds one
    Cacheable,      \* services whose type CacheExtensionUtils lists
    KeepAlive,      \* resident services (IsAbilityNeedKeepAlive)
    AutoDisconnect, \* services whose type has an auto disconnect time
    Startable,      \* services somebody starts
    Stoppable,      \* services somebody stops, or that stop themselves
    Crashing,       \* services whose process may die
    KillBundles,    \* bundles somebody kills (KillProcess)
    NullRemote,     \* may an extension's onConnect return no remote object
    Freezes,        \* may the system report frozen processes
    Overtaking      \* may binder threads overtake a timeout waiting for serialMutex_

ASSUME ConnectConstants ==
    /\ NoRecord \notin Records
    /\ ServiceOf \in [Records -> Services]
    /\ MaxConns \in Nat /\ MaxReqs \in Nat /\ MaxInbox \in Nat
    /\ Cacheable \subseteq Services /\ KeepAlive \subseteq Services
    /\ AutoDisconnect \subseteq Services /\ Startable \subseteq Services
    /\ Stoppable \subseteq Services /\ Crashing \subseteq Services
    /\ KillBundles \subseteq Bundles
    /\ NullRemote \in BOOLEAN /\ Freezes \in BOOLEAN /\ Overtaking \in BOOLEAN

\* Connection records, numbered as GetRecordId numbers them, in creation order:
\* a list of connections is the set of its numbers, its first entry the least.
Conns == 1..MaxConns

VARIABLES
    ability,        \* the ability records
    conn,           \* the connection records
    serviceMap,     \* serviceMap_: the records in it (the key of r is ServiceOf[r])
    terminating,    \* terminatingExtensionList_
    cache,          \* AbilityCacheManager, as CacheLists describes it
    connList,       \* the union of the connRecordList_ of all ability records
    connMap,        \* the union of the lists in connectMap_
    reqs,           \* startServiceReqList_: waiting start requests per service
    restartList,    \* restartResidentTaskList_
    timers,         \* delayed tasks, <<kind, id>>; with a third entry "again"
                    \* the ones that cannot be cancelled by name
    queue,          \* tasks submitted without delay
    running,        \* the timeout the worker has begun, or Idle
    dead            \* callbacks whose client process has died

acmVars == <<ability, conn, serviceMap, terminating, cache, connList, connMap, reqs,
             restartList, timers, queue, running, dead>>

AbilityStates == {"INITIAL", "INACTIVATING", "INACTIVE", "ACTIVE", "TERMINATING"}
ConnStates == {"INIT", "CONNECTING", "CONNECTED", "DISCONNECTING", "DISCONNECTED"}
Messages == {"load", "inactive", "connect", "disconnect", "command", "terminate"}

Blank == [st |-> "none", byConnect |-> FALSE, started |-> FALSE, isConnected |-> FALSE,
          remote |-> FALSE, sched |-> FALSE, process |-> "none", inbox |-> <<>>]

Unused == [st |-> "INIT", target |-> NoRecord, owner |-> "none", callback |-> FALSE,
           told |-> "nothing"]

Idle == [task |-> <<"idle", 0>>, list |-> {}]

-----------------------------------------------------------------------------
(* The handlers are written as functions of the manager's state, because   *)
(* they call one another; an action reads Now and installs the result.     *)

Now == [ability |-> ability, conn |-> conn, serviceMap |-> serviceMap,
        terminating |-> terminating, cache |-> cache, connList |-> connList,
        connMap |-> connMap, reqs |-> reqs, restartList |-> restartList,
        timers |-> timers, queue |-> queue]

\* The ids of the tasks of some kinds that are due, queued or running.
Tasks(s, run, kinds) ==
    {t[2] : t \in {u \in s.timers \cup InCache(s.queue) \cup {run.task} : u[1] \in kinds}}

\* Connection records and ability records something still refers to.
LiveConns(s, run) ==
    s.connList \cup s.connMap \cup run.list
    \cup Tasks(s, run, {"disconnectTimeout", "delayDisconnect", "completeConnect"})

LiveRecords(s, run) ==
    s.serviceMap \cup s.terminating \cup InCache(s.cache)
    \cup {s.conn[k].target : k \in LiveConns(s, run) \cup Tasks(s, run, {"connectTimeout"})}
    \cup Tasks(s, run, {"loadTimeout", "terminate", "disconnectDone", "died", "handleDied",
                        "frozen"})
    \cup {r \in Records : s.ability[r].process = "running"}

\* The end of a handler: what lost its last shared_ptr is destroyed.
Become(s, run) ==
    /\ ability' = [r \in Records |-> IF r \in LiveRecords(s, run) THEN s.ability[r] ELSE Blank]
    /\ conn' = [k \in Conns |->
                  IF k \in LiveConns(s, run) \cup Tasks(s, run, {"connectTimeout"}) THEN s.conn[k]
                  ELSE [s.conn[k] EXCEPT !.target = NoRecord]]
    /\ serviceMap' = s.serviceMap
    /\ terminating' = s.terminating
    /\ cache' = s.cache
    /\ connList' = s.connList
    /\ connMap' = s.connMap
    /\ reqs' = s.reqs
    /\ restartList' = s.restartList
    /\ timers' = s.timers
    /\ queue' = s.queue
    /\ running' = run

Submit(s, task) == [s EXCEPT !.queue = Append(@, task)]

\* A task whose name is taken, by one that is due later or being run, is
\* submitted all the same, but only the first can be cancelled by name.
PostDelayed(s, tasks) ==
    LET again == tasks \cap (s.timers \cup {running.task})
    IN  [s EXCEPT !.timers = @ \cup (tasks \ again)
                               \cup {<<task[1], task[2], "again">> : task \in again}]

CancelTask(s, tasks) == [s EXCEPT !.timers = @ \ tasks]

\* A message to the processes of the records R: LifecycleDeal drops it while
\* there is no scheduler, and binder when the process is gone.
Schedule(s, R, message) ==
    [s EXCEPT !.ability = [r \in Records |->
        IF r \in R /\ @[r].sched /\ @[r].process = "running"
        THEN [@[r] EXCEPT !.inbox = Append(s.ability[r].inbox, message)] ELSE @[r]]]

\* A binder thread has serialMutex_; the client processes stay as they are.
Locked == (Overtaking \/ running = Idle) /\ UNCHANGED dead

First(K) == CHOOSE k \in K : \A j \in K : k <= j

ConnectList(s, r) == {k \in s.connList : s.conn[k].target = r}

InState(s, K, state) == {k \in K : s.conn[k].st = state}

Mapped(s, v) == {r \in s.serviceMap : ServiceOf[r] = v}

Cached(s, v) == {i \in DOMAIN s.cache : ServiceOf[s.cache[i]] = v}

\* Records that can stand for a new one.
Free(s, v) == {r \in Records : ServiceOf[r] = v /\ s.ability[r].st = "none"}

\* Bound: a handler that may have to create a record of v finds one to use.
RoomFor(v) == Mapped(Now, v) # {} \/ Free(Now, v) # {}

\* Bound: so does one that may restart v, and the request may have to wait.
RoomToRestart(v) == v \in KeepAlive => Free(Now, v) # {} /\ reqs[v] < MaxReqs

-----------------------------------------------------------------------------
(* Loading, commanding and terminating one extension.                      *)

\* Mutant: a load without its timeout.
MutantLoadWithoutTimeout(s, r) ==
    [s EXCEPT !.ability[r].process = "running", !.ability[r].inbox = <<"load">>]

LoadAbility(s, r) ==
    PostDelayed([s EXCEPT !.ability[r].process = "running", !.ability[r].inbox = <<"load">>],
                {<<"loadTimeout", r>>})

CommandAbility(s, r) == Schedule([s EXCEPT !.ability[r].started = TRUE], {r}, "command")

\* Mutant: a connect request without its timeout.
MutantConnectWithoutTimeout(s, r) ==
    Schedule([s EXCEPT !.ability[r].isConnected = TRUE], {r}, "connect")

\* ConnectAbility with its timeout, which is named after the first connection
\* that is being made; without one there is no timeout.
ConnectAbility(s, r) ==
    LET connecting == InState(s, ConnectList(s, r), "CONNECTING")
        timeout == IF connecting = {} THEN {} ELSE {<<"connectTimeout", First(connecting)>>}
    IN  Schedule([PostDelayed(s, timeout) EXCEPT !.ability[r].isConnected = TRUE], {r}, "connect")

\* Mutant: the record stays in the service map.
MutantMoveKeepsEntry(s, R) ==
    [s EXCEPT !.terminating = @ \cup R,
              !.cache = Without(@, R)]

\* serviceMap_ is erased by key, whatever record is under it.
MoveToTerminatingMap(s, R) ==
    [s EXCEPT !.terminating = @ \cup R,
              !.serviceMap  = {x \in @ : ServiceOf[x] \notin {ServiceOf[r] : r \in R}},
              !.cache       = Without(@, R)]

RemoveServiceAbility(s, r) == [s EXCEPT !.terminating = @ \ {r}]

\* Mutant: a termination without its timeout.
MutantTerminateWithoutTimeout(s, R) ==
    Schedule([s EXCEPT !.ability = [r \in Records |->
                 IF r \in R THEN [@[r] EXCEPT !.st = "TERMINATING"] ELSE @[r]]],
             R, "terminate")

Terminate(s, R) ==
    Schedule(PostDelayed([s EXCEPT !.ability = [r \in Records |->
                             IF r \in R THEN [@[r] EXCEPT !.st = "TERMINATING"] ELSE @[r]]],
                         {<<"terminate", r>> : r \in R}),
             R, "terminate")

\* TerminateRecord for the records of a set; those found in neither the service
\* map nor the cache are left alone.
TerminateRecord(s, R) ==
    LET found == R \cap (s.serviceMap \cup InCache(s.cache))
    IN  Terminate(MoveToTerminatingMap(s, found), found)

\* AppScheduler::TerminateAbility and AttachTimeOut have the application manager end the
\* process; the steps it takes for that are module AppRunning's.
EndProcess(s, r) == [s EXCEPT !.ability[r].process = "none", !.ability[r].inbox = <<>>]

TerminateDone(s, r) ==
    IF s.ability[r].st # "TERMINATING" THEN s
    ELSE RemoveServiceAbility(EndProcess(s, r), r)

AddToServiceMap(s, r) ==
    IF Mapped(s, ServiceOf[r]) # {} THEN s ELSE [s EXCEPT !.serviceMap = @ \cup {r}]

\* Mutant: the evicted record is terminated without going back to the service
\* map, so that TerminateRecord does not find it.
MutantEliminateNotMapped(s, R) == TerminateRecord(s, R)

ProcessEliminateAbilityRecord(s, R) ==
    LET added == [s EXCEPT !.serviceMap =
                     @ \cup {r \in R : Mapped(s, ServiceOf[r]) = {}}]
    IN  TerminateRecord(added, R)

TerminateOrCacheAbility(s, r) ==
    IF ServiceOf[r] \notin Cacheable THEN TerminateRecord(s, {r})
    ELSE ProcessEliminateAbilityRecord(
            [s EXCEPT !.serviceMap = {x \in @ : ServiceOf[x] # ServiceOf[r]},
                      !.cache      = WithRecord(@, r)],
            Displaced(s.cache, r))

-----------------------------------------------------------------------------
(* Starting: the record is the mapped one, or a cached one, or a new one.  *)

GetOrCreateServiceRecord(s, v, byConnect) ==
    IF Mapped(s, v) # {}
    THEN [s |-> s, r |-> CHOOSE r \in Mapped(s, v) : TRUE, loaded |-> TRUE]
    ELSE IF v \in Cacheable /\ Cached(s, v) # {}
    THEN LET r == s.cache[OldestIndex(Cached(s, v))]
         IN  [s |-> AddToServiceMap([s EXCEPT !.cache = Drop(@, r)], r), r |-> r, loaded |-> TRUE]
    ELSE LET r == CHOOSE r \in Free(s, v) : TRUE
             fresh == [Blank EXCEPT !.st = "INITIAL", !.byConnect = byConnect]
         IN  [s |-> AddToServiceMap([s EXCEPT !.ability[r] = fresh], r), r |-> r, loaded |-> FALSE]

\* Mutant: a request that finds a list is pushed twice.
MutantEnqueueTwice(s, v) ==
    PostDelayed([s EXCEPT !.reqs[v] = IF @ = 0 THEN 1 ELSE @ + 2],
                IF s.reqs[v] = 0 THEN {<<"startServiceTimeout", v>>} ELSE {})

\* Mutant: only the second request arms the timeout.
MutantEnqueueArmsLate(s, v) ==
    PostDelayed([s EXCEPT !.reqs[v] = @ + 1],
                IF s.reqs[v] = 1 THEN {<<"startServiceTimeout", v>>} ELSE {})

EnqueueStartServiceReq(s, v) ==
    PostDelayed([s EXCEPT !.reqs[v] = @ + 1],
                IF s.reqs[v] = 0 THEN {<<"startServiceTimeout", v>>} ELSE {})

StartAbilityLocked(s, v) ==
    LET target == GetOrCreateServiceRecord(s, v, FALSE)
    IN  IF ~target.loaded THEN LoadAbility(target.s, target.r)
        ELSE IF target.s.ability[target.r].st = "ACTIVE" THEN CommandAbility(target.s, target.r)
        ELSE EnqueueStartServiceReq(target.s, v)

\* The waiting requests are taken and started again, one after the other.
CompleteStartServiceReq(s, v) ==
    LET taken == CancelTask([s EXCEPT !.reqs[v] = 0], {<<"startServiceTimeout", v>>})
        started[n \in 0..s.reqs[v]] ==
            IF n = 0 THEN taken ELSE StartAbilityLocked(started[n - 1], v)
    IN  IF s.reqs[v] = 0 THEN s ELSE started[s.reqs[v]]

\* CanRestartResident looks at the clock: restartNow is what it finds.
RestartAbility(s, v, restartNow) ==
    IF restartNow THEN StartAbilityLocked(s, v)
    ELSE IF v \in s.restartList THEN s
    ELSE PostDelayed([s EXCEPT !.restartList = @ \cup {v}], {<<"restartResident", v>>})

-----------------------------------------------------------------------------
(* Connection records.                                                     *)

\* CompleteConnect for the connections K of record r.  It does not look at the
\* state of either: each connection becomes CONNECTED and the record ACTIVE.
\* Without a remote object the connection is given up again at once.
CompleteConnect(s, r, K) ==
    LET active == [s EXCEPT !.ability[r].st = IF K = {} THEN @ ELSE "ACTIVE"]
    IN  IF s.ability[r].remote
        THEN [active EXCEPT !.conn = [k \in Conns |->
                 IF k \in K
                 THEN [@[k] EXCEPT !.st = "CONNECTED",
                                   !.told = IF s.conn[k].callback THEN "connected"
                                            ELSE s.conn[k].told]
                 ELSE @[k]]]
        ELSE [active EXCEPT
                 !.conn = [k \in Conns |->
                     IF k \in K THEN [@[k] EXCEPT !.st = "DISCONNECTING"] ELSE @[k]],
                 !.queue = @ \o [i \in 1..Cardinality(K) |-> <<"disconnectDone", r>>]]

\* CompleteDisconnect, RemoveConnectRecordFromList and
\* RemoveConnectionRecordFromMap for the connections K.  They are separate calls;
\* every caller makes all three before it releases serialMutex_.
CompleteDisconnect(s, K) ==
    LET emptied == {r \in {s.conn[k].target : k \in K} : ConnectList(s, r) \subseteq K}
    IN  [s EXCEPT
            !.conn = [k \in Conns |->
                IF k \in K
                THEN [@[k] EXCEPT !.st = "DISCONNECTED",
                                  !.told = IF s.conn[k].callback THEN "disconnected"
                                           ELSE s.conn[k].told]
                ELSE @[k]],
            !.ability = [r \in Records |->
                IF r \in emptied THEN [@[r] EXCEPT !.isConnected = FALSE] ELSE @[r]],
            !.connList = @ \ K,
            !.connMap = @ \ K]

\* ConnectionRecord::DisconnectAbility for CONNECTED connections K of different
\* records: the only connection of a record asks the extension to disconnect,
\* any other is dropped directly.
DisconnectAbility(s, K) ==
    LET only    == {k \in K : Cardinality(ConnectList(s, s.conn[k].target)) = 1}
        targets == {s.conn[k].target : k \in only}
        dropped == CompleteDisconnect(s, K \ only)
        asked   == [dropped EXCEPT
                       !.conn = [k \in Conns |->
                           IF k \in only THEN [@[k] EXCEPT !.st = "DISCONNECTING"] ELSE @[k]],
                       !.ability = [r \in Records |->
                           IF r \in targets THEN [@[r] EXCEPT !.isConnected = FALSE] ELSE @[r]]]
    IN  Schedule(PostDelayed(asked, {<<"disconnectTimeout", k>> : k \in only}),
                 targets, "disconnect")

\* Mutant: a record that lost its last connection is terminated only when it was
\* started.
MutantTerminateStarted(s, R) ==
    TerminateRecord(s, {r \in R : ConnectList(s, r) = {} /\ s.ability[r].started})

\* What DisconnectRecordForce does after it has dropped the connections K.
TerminateUnused(s, R) ==
    TerminateRecord(s, {r \in R : ConnectList(s, r) = {} /\ ~s.ability[r].started})

-----------------------------------------------------------------------------
(* Requests of clients.                                                    *)

StartAbility(v) ==
    /\ v \in Startable
    /\ RoomFor(v)
    /\ reqs[v] < MaxReqs
    /\ \A r \in Mapped(Now, v) : Len(ability[r].inbox) < MaxInbox
    /\ Become(StartAbilityLocked(Now, v), running)
    /\ Locked

\* A further connection of an active record is completed by a task of its own
\* when the remote object is known; otherwise it waits for the first one.
HandleActiveAbility(s, r, k) ==
    IF Cardinality(ConnectList(s, r)) = 1 THEN ConnectAbility(s, r)
    ELSE IF s.ability[r].remote THEN Submit(s, <<"completeConnect", k>>)
    ELSE s

Connected(s, k, r, c) ==
    [s EXCEPT !.conn[k] = [st |-> "CONNECTING", target |-> r, owner |-> c, callback |-> TRUE,
                           told |-> "nothing"],
              !.connList = @ \cup {k},
              !.connMap = @ \cup {k}]

ConnectAbilityLocked(c, v) ==
    LET unused == {k \in Conns : conn[k].st = "INIT"}
        target == GetOrCreateServiceRecord(Now, v, TRUE)
        r      == target.r
        k      == First(unused)
        s      == Connected(target.s, k, r, c)
    IN  /\ c \notin dead
        /\ unused # {}
        /\ RoomFor(v)
        /\ IF target.loaded /\ \E j \in connMap : conn[j].owner = c /\ conn[j].target = r
           THEN Become(target.s, running)
           ELSE Become(IF ~target.loaded THEN LoadAbility(s, r)
                       ELSE IF s.ability[r].st = "ACTIVE" THEN HandleActiveAbility(s, r, k)
                       ELSE s,
                       running)
        /\ Locked

\* The connections of a callback are visited in order; the first that is not
\* CONNECTED ends the loop.  Visited connections lose their auto disconnect.
DisconnectAbilityLocked(c) ==
    LET own     == {k \in connMap : conn[k].owner = c}
        visited == {k \in own : \A j \in own : j < k => conn[j].st = "CONNECTED"}
    IN  /\ c \notin dead
        /\ own # {}
        /\ Become(DisconnectAbility(
                      CancelTask(Now, {<<"delayDisconnect", k>> : k \in visited}),
                      InState(Now, visited, "CONNECTED")),
                  running)
        /\ Locked

\* A stopped service is looked for in the service map and then in the cache;
\* all its connections are dropped before it is terminated.
StopServiceAbilityLocked(v) ==
    LET found == IF Mapped(Now, v) # {} THEN [s |-> Now, R |-> Mapped(Now, v)]
                 ELSE LET R == {cache[OldestIndex(I)] : I \in {Cached(Now, v)} \ {{}}}
                      IN  [s |-> [Now EXCEPT !.cache = Without(@, R),
                                             !.serviceMap = @ \cup R], R |-> R]
    IN  /\ v \in Stoppable
        /\ found.R # {}
        /\ Become(TerminateRecord(
                      CompleteDisconnect(found.s, {k \in connList : conn[k].target \in found.R}),
                      found.R),
                  running)
        /\ Locked

\* An extension terminates itself: TerminateAbilityInner, TerminateAbilityLocked.
TerminateAbility(r) ==
    /\ ServiceOf[r] \in Stoppable
    /\ ability[r].process = "running" /\ ability[r].sched
    /\ r \in serviceMap \cup InCache(cache)
    /\ Become(Terminate(CompleteDisconnect(MoveToTerminatingMap(Now, {r}), ConnectList(Now, r)),
                        {r}),
              running)
    /\ Locked

-----------------------------------------------------------------------------
(* Answers of extension processes.                                         *)

\* The state after process r has taken the message it answers from its inbox.
Answers(r, message) ==
    /\ ability[r].process = "running"
    /\ ability[r].inbox # <<>>
    /\ Head(ability[r].inbox) = message
    /\ Locked

Taken(r) == [Now EXCEPT !.ability[r].inbox = Tail(@)]

\* The process of a record attaches its scheduler and is made inactive.
AttachAbilityThread(r) ==
    /\ Answers(r, "load")
    /\ IF r \notin serviceMap THEN Become(Taken(r), running)
       ELSE Become(Schedule([CancelTask(Taken(r), {<<"loadTimeout", r>>}) EXCEPT
                                !.ability[r].sched = TRUE, !.ability[r].st = "INACTIVATING"],
                            {r}, "inactive"),
                   running)

DispatchInactive(s, r) ==
    LET inactive == [s EXCEPT !.ability[r].st = "INACTIVE"]
    IN  IF s.ability[r].byConnect THEN ConnectAbility(inactive, r)
        ELSE IF ConnectList(s, r) = {} THEN CommandAbility(inactive, r)
        ELSE ConnectAbility(CommandAbility(inactive, r), r)

InactiveDone(r) ==
    /\ Answers(r, "inactive")
    /\ Become(IF r \in serviceMap /\ ability[r].st = "INACTIVATING"
              THEN DispatchInactive(Taken(r), r) ELSE Taken(r),
              running)

\* onConnect has returned: remote tells whether it returned an object.
ScheduleConnectAbilityDone(r, remote) ==
    LET list == ConnectList(Now, r)
        set  == [Taken(r) EXCEPT !.ability[r].remote = remote]
        done == CompleteConnect(CancelTask(set, {<<"connectTimeout", k>> :
                                                   k \in InState(Now, list, "CONNECTING")}),
                                r, InState(Now, list, "CONNECTING"))
        auto == IF ServiceOf[r] \in AutoDisconnect
                THEN {<<"delayDisconnect", k>> : k \in list} ELSE {}
    IN  /\ Answers(r, "connect")
        /\ reqs[ServiceOf[r]] = 0 \/ RoomFor(ServiceOf[r])
        /\ Become(IF ability[r].st \in {"INACTIVE", "ACTIVE"}
                  THEN CompleteStartServiceReq(PostDelayed(done, auto), ServiceOf[r])
                  ELSE Taken(r),
                  running)

\* ScheduleDisconnectAbilityDoneLocked: from the extension, from the timeout of
\* a disconnection and after a null remote object.
DisconnectDone(s, r) ==
    LET leaving == InState(s, ConnectList(s, r), "DISCONNECTING")
        k       == First(leaving)
        done    == CompleteDisconnect(CancelTask(s, {<<"disconnectTimeout", k>>}), {k})
    IN  IF r \notin s.serviceMap \/ leaving = {} \/ s.ability[r].st # "ACTIVE" THEN s
        ELSE IF ConnectList(done, r) = {} /\ ~s.ability[r].started
        THEN TerminateOrCacheAbility(done, r)
        ELSE done

ScheduleDisconnectAbilityDone(r) ==
    /\ Answers(r, "disconnect")
    /\ Become(DisconnectDone(Taken(r), r), running)

CompleteCommandAbility(s, r) ==
    LET done == CompleteStartServiceReq([s EXCEPT !.ability[r].st = "ACTIVE"], ServiceOf[r])
    IN  IF ConnectList(done, r) # {} /\ ~done.ability[r].isConnected
        THEN ConnectAbility(done, r) ELSE done

ScheduleCommandAbilityDone(r) ==
    /\ Answers(r, "command")
    /\ reqs[ServiceOf[r]] = 0 \/ RoomFor(ServiceOf[r])
    /\ Become(IF ability[r].st \in {"INACTIVE", "ACTIVE"}
              THEN CompleteCommandAbility(Taken(r), r) ELSE Taken(r),
              running)

\* The extension reports that it has reached INITIAL: DispatchTerminate.
TerminateAnswer(r) ==
    /\ Answers(r, "terminate")
    /\ Become(IF r \in terminating
              THEN TerminateDone(CancelTask(Taken(r), {<<"terminate", r>>}), r) ELSE Taken(r),
              running)

-----------------------------------------------------------------------------
(* Deaths.                                                                 *)

\* The process of an extension dies, or could not be started at all.
ProcessDies(r) ==
    /\ ServiceOf[r] \in Crashing
    /\ ability[r].process = "running"
    /\ \/ Become([Now EXCEPT !.ability[r].process = "dying", !.ability[r].inbox = <<>>], running)
       \/ /\ ability[r].inbox = <<"load">>
          /\ Become(EndProcess(Now, r), running)
    /\ UNCHANGED dead

\* OnSchedulerDied, or OnProcessDied for a process that had not attached.
OnSchedulerDied(r) ==
    /\ ability[r].process = "dying"
    /\ Become(Submit([EndProcess(Now, r) EXCEPT !.ability[r].sched = FALSE], <<"died", r>>),
              running)
    /\ UNCHANGED dead

\* The client process of a callback that has a death recipient dies.
OnCallBackDied(c) ==
    /\ c \notin dead
    /\ dead' = dead \cup {c}
    /\ Become(IF \E k \in connMap : conn[k].owner = c
              THEN Submit(Now, <<"callbackDied", c>>) ELSE Now,
              running)

\* KillProcess: the application is killed, and then DeleteInvalidServiceRecord
\* forgets its records, the resident ones excepted.
KillProcess(b) ==
    LET killed == {r \in Records : BundleOf[TokenOf[r]] = b /\ ability[r].process = "running"}
    IN  /\ b \in KillBundles
        /\ \E r \in serviceMap \cup InCache(cache) : BundleOf[TokenOf[r]] = b
        /\ Become([Now EXCEPT
               !.ability = [r \in Records |->
                   IF r \in killed THEN [@[r] EXCEPT !.process = "dying", !.inbox = <<>>] ELSE @[r]],
               !.serviceMap = {r \in @ : BundleOf[TokenOf[r]] = b => ServiceOf[r] \in KeepAlive},
               !.cache = Without(@, {x \in Records : BundleOf[TokenOf[x]] = b})], running)
        /\ UNCHANGED dead

\* HandleProcessFrozen: started records without connections are to be
\* terminated, by a task that does not look again.
HandleProcessFrozen(r) ==
    /\ Freezes
    /\ r \in serviceMap
    /\ ConnectList(Now, r) = {} /\ ability[r].started /\ ability[r].sched
    /\ ServiceOf[r] \notin KeepAlive \cup AutoDisconnect
    /\ <<"frozen", r>> \notin InCache(queue)
    /\ Become(Submit(Now, <<"frozen", r>>), running)
    /\ UNCHANGED dead

-----------------------------------------------------------------------------
(* Tasks of the queue.                                                     *)

\* Mutant: the service map is not searched.
MutantDiedNotSearched(s, r) ==
    IF r \in InCache(s.cache) \cup s.terminating THEN Submit(s, <<"handleDied", r>>) ELSE s

\* AbilityManagerService::OnAbilityDied looks for the manager that knows the
\* token; a record in none of the three places is ignored.
OnAbilityDied(s, r) ==
    IF r \in s.serviceMap \cup InCache(s.cache) \cup s.terminating
    THEN Submit(s, <<"handleDied", r>>) ELSE s

\* Mutant: the connections of a dead extension are kept.
MutantDiedKeepsConnections(s, r, enough, restartNow) ==
    IF r \in s.serviceMap THEN RemoveServiceAbility(MoveToTerminatingMap(s, {r}), r) ELSE s

\* KeepAbilityAlive restarts only when there is memory: enough is what it finds.
HandleAbilityDiedTask(s, r, enough, restartNow) ==
    LET list    == ConnectList(s, r)
        dropped == CompleteDisconnect(
                       CancelTask([s EXCEPT !.ability[r].remote = FALSE],
                                  {<<"delayDisconnect", k>> : k \in list}), list)
        removed == IF r \in s.serviceMap \/ (ServiceOf[r] \in Cacheable /\ r \in InCache(s.cache))
                   THEN RemoveServiceAbility(MoveToTerminatingMap(dropped, {r}), r)
                   ELSE dropped
    IN  IF ServiceOf[r] \in KeepAlive /\ enough
        THEN RestartAbility(removed, ServiceOf[r], restartNow) ELSE removed

HandleCallBackDiedTask(s, c) ==
    LET own     == {k \in s.connMap : s.conn[k].owner = c}
        cleared == CancelTask([s EXCEPT !.conn = [k \in Conns |->
                                  IF k \in own THEN [@[k] EXCEPT !.callback = FALSE] ELSE @[k]]],
                              {<<"delayDisconnect", k>> : k \in own})
        normal  == InState(s, own, "CONNECTED")
        forced  == own \ normal
    IN  TerminateUnused(CompleteDisconnect(DisconnectAbility(cleared, normal), forced),
                        {s.conn[k].target : k \in forced})

\* The worker takes the first task.
RunTask ==
    /\ running = Idle
    /\ queue # <<>>
    /\ LET s    == [Now EXCEPT !.queue = Tail(@)]
           task == Head(queue)
           id   == task[2]
       IN  \/ /\ task[1] = "completeConnect"
              /\ Become(CompleteConnect(s, conn[id].target, {id}), Idle)
           \/ /\ task[1] = "disconnectDone"
              /\ Become(DisconnectDone(s, id), Idle)
           \/ /\ task[1] = "died"
              /\ Become(OnAbilityDied(s, id), Idle)
           \/ /\ task[1] = "handleDied"
              /\ RoomToRestart(ServiceOf[id])
              /\ \E enough, restartNow \in BOOLEAN :
                    Become(HandleAbilityDiedTask(s, id, enough, restartNow), Idle)
           \/ /\ task[1] = "callbackDied"
              /\ Become(HandleCallBackDiedTask(s, id), Idle)
           \/ /\ task[1] = "frozen"
              /\ Become(TerminateRecord(s, {id}), Idle)
    /\ UNCHANGED dead

-----------------------------------------------------------------------------
(* Timeouts.                                                               *)

\* A timeout begins and can no longer be cancelled.  The one of a connection
\* reads the connections of the record before it waits for serialMutex_.
TimeoutBegins(task) ==
    /\ running = Idle
    /\ task[1] \in {"loadTimeout", "connectTimeout", "disconnectTimeout", "terminate",
                    "delayDisconnect"}
    /\ Become(CancelTask(Now, {task}),
              [task |-> task,
               list |-> IF task[1] = "connectTimeout"
                        THEN ConnectList(Now, conn[task[2]].target) ELSE {}])
    /\ UNCHANGED dead

\* Mutant: the process that did not attach is left running (no AttachTimeOut).
MutantLoadTimeoutKeepsProcess(s, r, restartNow) ==
    LET dropped == CompleteDisconnect(s, InState(s, ConnectList(s, r), "CONNECTING"))
    IN  IF r \notin s.serviceMap THEN dropped
        ELSE RemoveServiceAbility(MoveToTerminatingMap(dropped, {r}), r)

HandleStartTimeoutTask(s, r, restartNow) ==
    LET dropped == CompleteDisconnect(s, InState(s, ConnectList(s, r), "CONNECTING"))
        removed == EndProcess(RemoveServiceAbility(MoveToTerminatingMap(dropped, {r}), r), r)
    IN  IF r \notin s.serviceMap THEN dropped
        ELSE IF ServiceOf[r] \in KeepAlive THEN RestartAbility(removed, ServiceOf[r], restartNow)
        ELSE removed

HandleConnectTimeoutTask(s, r, list) ==
    LET dropped == CompleteDisconnect(
                       CancelTask(s, {<<kind, k>> : kind \in {"delayDisconnect", "connectTimeout"},
                                                    k \in list}), list)
    IN  IF s.ability[r].started THEN dropped ELSE TerminateRecord(dropped, {r})

\* Auto disconnect.  A connection that is DISCONNECTED already is reported again.
HandleExtensionDisconnectTask(s, k) ==
    CASE s.conn[k].st = "CONNECTED"    -> DisconnectAbility(s, {k})
      [] s.conn[k].st = "DISCONNECTED" -> CompleteDisconnect(s, {k})
      [] OTHER                         -> s

TimeoutFinishes ==
    LET kind == running.task[1]
        id   == running.task[2]
    IN  /\ \/ /\ kind = "loadTimeout"
              /\ RoomToRestart(ServiceOf[id])
              /\ \E restartNow \in BOOLEAN :
                    Become(HandleStartTimeoutTask(Now, id, restartNow), Idle)
           \/ /\ kind = "connectTimeout"
              /\ Become(HandleConnectTimeoutTask(Now, conn[id].target, running.list), Idle)
           \/ /\ kind = "disconnectTimeout"
              /\ Become(DisconnectDone(Now, conn[id].target), Idle)
           \/ /\ kind = "terminate"
              /\ Become(TerminateDone(Now, id), Idle)
           \/ /\ kind = "delayDisconnect"
              /\ Become(HandleExtensionDisconnectTask(Now, id), Idle)
        /\ UNCHANGED dead

\* The requests that waited for the service are dropped.
StartServiceTimeout(v) ==
    /\ running = Idle
    /\ <<"startServiceTimeout", v>> \in timers
    /\ Become([CancelTask(Now, {<<"startServiceTimeout", v>>}) EXCEPT !.reqs[v] = 0], Idle)
    /\ UNCHANGED dead

HandleRestartResidentTask(v) ==
    /\ running = Idle
    /\ <<"restartResident", v>> \in timers
    /\ RoomFor(v)
    /\ reqs[v] < MaxReqs
    /\ Become(StartAbilityLocked([CancelTask(Now, {<<"restartResident", v>>}) EXCEPT
                                     !.restartList = @ \ {v}], v), Idle)
    /\ UNCHANGED dead

-----------------------------------------------------------------------------
Init ==
    /\ ability = [r \in Records |-> Blank]
    /\ conn = [k \in Conns |-> Unused]
    /\ serviceMap = {} /\ terminating = {} /\ cache = <<>>
    /\ connList = {} /\ connMap = {}
    /\ reqs = [v \in Services |-> 0]
    /\ restartList = {}
    /\ timers = {} /\ queue = <<>> /\ running = Idle
    /\ dead = {}

Next ==
    \/ \E v \in Services : StartAbility(v) \/ StopServiceAbilityLocked(v)
                           \/ StartServiceTimeout(v) \/ HandleRestartResidentTask(v)
    \/ \E c \in Callbacks, v \in Services : ConnectAbilityLocked(c, v)
    \/ \E c \in Callbacks : DisconnectAbilityLocked(c) \/ OnCallBackDied(c)
    \/ \E r \in Records :
          \/ TerminateAbility(r)
          \/ AttachAbilityThread(r)
          \/ InactiveDone(r)
          \/ \E remote \in IF NullRemote THEN BOOLEAN ELSE {TRUE} :
                ScheduleConnectAbilityDone(r, remote)
          \/ ScheduleDisconnectAbilityDone(r)
          \/ ScheduleCommandAbilityDone(r)
          \/ TerminateAnswer(r)
          \/ ProcessDies(r)
          \/ OnSchedulerDied(r)
          \/ HandleProcessFrozen(r)
    \/ \E b \in Bundles : KillProcess(b)
    \/ RunTask
    \/ \E task \in timers : TimeoutBegins(task)
    \/ TimeoutFinishes

Spec == Init /\ [][Next]_acmVars

-----------------------------------------------------------------------------
(* Fairness.  The worker of the task queue finishes the timeout it has     *)
(* begun, runs the tasks that are queued and begins the delayed ones when  *)
(* they are due, so that start requests whose timeout is due over and over *)
(* do not keep the other tasks waiting; death recipients are called; a     *)
(* process that has been told to become inactive answers or dies           *)
(* (INACTIVE_TIMEOUT_MSG does nothing for an ordinary extension,           *)
(* HandleInactiveTimeout).  Nothing is assumed of clients, of any other    *)
(* answer or of process deaths.  All but the condition on deaths are weak  *)
(* fairness written out (infinitely often there is nothing to do, or       *)
(* infinitely often it is done), which spares TLC an ENABLED over the      *)
(* whole handlers.                                                         *)

StartTimers == {task \in timers : task[1] \in {"startServiceTimeout", "restartResident"}}

InactiveLeft ==
    \E r \in Records : ability[r].inbox # <<>> /\ Head(ability[r].inbox) = "inactive"

Fairness ==
    /\ []<>(running = Idle) \/ []<><<TimeoutFinishes>>_acmVars
    /\ []<>(queue = <<>>) \/ []<><<RunTask>>_acmVars
    /\ []<>(timers = StartTimers) \/ []<><<\E task \in timers : TimeoutBegins(task)>>_acmVars
    /\ []<>(StartTimers = {})
       \/ []<><<\E v \in Services : StartServiceTimeout(v) \/ HandleRestartResidentTask(v)>>_acmVars
    /\ WF_acmVars(\E r \in Records : OnSchedulerDied(r))
    /\ []<>~InactiveLeft \/ []<><<\E r \in Records : InactiveDone(r)>>_acmVars

FairSpec == Spec /\ Fairness

-----------------------------------------------------------------------------
(* Properties.                                                             *)

TypeOK ==
    /\ ability \in [Records -> [st : AbilityStates \cup {"none"}, byConnect : BOOLEAN,
                                started : BOOLEAN, isConnected : BOOLEAN, remote : BOOLEAN,
                                sched : BOOLEAN, process : {"none", "running", "dying"},
                                inbox : Seq(Messages)]]
    /\ \A k \in Conns :
          /\ conn[k].st \in ConnStates
          /\ conn[k].target \in Records \cup {NoRecord}
          /\ conn[k].callback \in BOOLEAN
          /\ conn[k].told \in {"nothing", "connected", "disconnected"}
    /\ serviceMap \subseteq Records /\ terminating \subseteq Records /\ cache \in Seq(Records)
    /\ connList \subseteq Conns /\ connMap \subseteq Conns
    /\ reqs \in [Services -> 0..MaxReqs] /\ restartList \subseteq Services
    /\ dead \subseteq Callbacks
    /\ \A k \in connList \cup connMap : conn[k].target \in Records

Pending(task) == task \in timers \/ running.task = task

\* A record is in at most one of serviceMap_, the cache and
\* terminatingExtensionList_, and a service has at most one record that can be
\* reached: AddToServiceMap never overwrites and MoveToTerminatingMap erases by
\* key, so a second record would be lost or would take another's place.  A record
\* whose process runs is in one of them, so that the death is noticed and the
\* extension can be terminated (SubManagersHelper::GetConnectManagerByToken).  Window
\* extensions, which are not modelled, are excluded.
OneHome ==
    /\ serviceMap \cap terminating = {}
    /\ InCache(cache) \cap (serviceMap \cup terminating) = {}
    /\ \A r, q \in serviceMap \cup InCache(cache) : ServiceOf[r] = ServiceOf[q] => r = q
    /\ \A r \in Records :
          ability[r].process = "running" => r \in serviceMap \cup InCache(cache) \cup terminating

\* Whatever waits for a timeout has one: a record that is being loaded, one that
\* is being terminated, queued start requests and a registered restart (LoadAbility,
\* Terminate, EnqueueStartServiceReq, RestartAbility).  Without it the record, or
\* the request, would stay for ever when the process does not answer.  (A debug
\* application, or any under libc.hook_mode, has no timeouts: not modelled.)
TimeoutsArmed ==
    /\ \A r \in serviceMap : ability[r].st = "INITIAL" => Pending(<<"loadTimeout", r>>)
    /\ \A r \in terminating : ability[r].st = "TERMINATING" => Pending(<<"terminate", r>>)
    /\ \A v \in Services : reqs[v] > 0 <=> <<"startServiceTimeout", v>> \in timers
    /\ \A v \in Services : v \in restartList <=> <<"restartResident", v>> \in timers

\* A record that has no connection and was never started is not kept in the
\* service map: whoever removes its last connection terminates or caches it.
UnusedIsTerminated ==
    \A r \in serviceMap :
        ConnectList(Now, r) = {} /\ ~ability[r].started
            => ~ability[r].byConnect /\ ability[r].st \in {"INITIAL", "INACTIVATING"}

\* Every connection belongs to a record that is in the service map: a record that
\* is terminated, cached or removed takes all its connections with it.
ConnectedIsMapped == \A k \in connMap : conn[k].target \in serviceMap

\* A client that is waiting for a connection, or for a disconnection, does not
\* wait for ever, whatever the extension process does: the connection changes its
\* state or is dropped (ConnectTimeout_ and DisconnectTimeout_ tasks).
RequestsResolve ==
    \A k \in Conns, state \in {"CONNECTING", "DISCONNECTING"} :
        k \in connMap /\ conn[k].st = state ~> ~(k \in connMap /\ conn[k].st = state)

\* When the process of an extension has died, its connections are dropped and
\* those of their clients that live told, by whichever handler (HandleAbilityDiedTask).
DeathIsReported ==
    \A k \in Conns :
        k \in connMap /\ ability[conn[k].target].process # "running"
            ~> k \notin connMap /\ (conn[k].callback => conn[k].told = "disconnected")

\* A record that is being terminated leaves the list in the end, with or without
\* the answer of its process (TerminateDone, HandleStopTimeoutTask): a service that
\* is stopped or no longer used is destroyed, and its application told so.
TerminationCompletes == \A r \in Records : r \in terminating ~> r \notin terminating

=============================================================================
