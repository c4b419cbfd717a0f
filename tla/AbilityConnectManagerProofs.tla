-------------------- MODULE AbilityConnectManagerProofs --------------------
(***************************************************************************)
(* Proofs about the extension connections, for any services, records,      *)
(* callbacks and bounds and for every combination of the switches: the     *)
(* types, OneHome, TimeoutsArmed and UnusedIsTerminated.                   *)
(*                                                                         *)
(* The handlers of the code are functions of the manager's state, so the   *)
(* invariant is a predicate Fits of such a state, and there is one lemma   *)
(* for each function: it returns a state that fits.  What is allowed for   *)
(* in between is a timeout that was cancelled, or not yet armed, while the *)
(* handler goes on: Fits takes the set of tasks that need not be armed.    *)
(*                                                                         *)
(* The second half is about UnusedIsTerminated.  Its invariant, Uses, is   *)
(* a predicate of the state again.  Most functions leave the reasons for   *)
(* which a record is mapped as they were (Keeps); the others have a lemma  *)
(* that says why a record that loses one reason has another or goes.       *)
(***************************************************************************)
EXTENDS AbilityConnectManager, CacheListsProofs

AbilityRecord == [st : AbilityStates \cup {"none"}, byConnect : BOOLEAN, started : BOOLEAN,
                  isConnected : BOOLEAN, remote : BOOLEAN, sched : BOOLEAN,
                  process : {"none", "running", "dying"}, inbox : Seq(Messages)]

ConnRecord == [st : ConnStates, target : Records \cup {NoRecord}, owner : Callbacks \cup {"none"},
               callback : BOOLEAN, told : {"nothing", "connected", "disconnected"}]

\* The tasks of the queue, and the delayed ones.
QueueTasks ==
    ({"completeConnect"} \X Conns) \cup ({"died", "handleDied", "frozen"} \X Records)
    \cup ({"disconnectDone"} \X (Records \cup {NoRecord})) \cup ({"callbackDied"} \X Callbacks)

Delayed ==
    ({"loadTimeout", "terminate"} \X Records)
    \cup ({"connectTimeout", "disconnectTimeout", "delayDisconnect"} \X Conns)
    \cup ({"startServiceTimeout", "restartResident"} \X Services)

Again == {<<task[1], task[2], "again">> : task \in Delayed}

\* The timeouts that the worker begins before it has serialMutex_.
TwoSteps == {"loadTimeout", "connectTimeout", "disconnectTimeout", "terminate", "delayDisconnect"}

RunFits(run) ==
    run \in [task : {<<"idle", 0>>} \cup {task \in Delayed \cup Again : task[1] \in TwoSteps},
             list : SUBSET Conns]

Typed(s) ==
    s \in [ability : [Records -> AbilityRecord], conn : [Conns -> ConnRecord],
           serviceMap : SUBSET Records, terminating : SUBSET Records, cache : Seq(Records),
           connList : SUBSET Conns, connMap : SUBSET Conns, reqs : [Services -> 0..MaxReqs],
           restartList : SUBSET Services, timers : SUBSET (Delayed \cup Again),
           queue : Seq(QueueTasks)]

\* The records a death of which is still to be handled.
Mourned(s, r) == <<"died", r>> \in InCache(s.queue) \/ <<"handleDied", r>> \in InCache(s.queue)

Home(s) == s.serviceMap \cup InCache(s.cache) \cup s.terminating

\* One home for each record.  The states matter because a new record is made of one
\* whose state is "none", which must not be in use; because a cached record goes
\* back to the service map as if it had just been loaded; and because a process
\* whose death is handled may not have been started again meanwhile.
Housed(s) ==
    /\ s.serviceMap \cap s.terminating = {}
    /\ InCache(s.cache) \cap (s.serviceMap \cup s.terminating) = {}
    /\ \A r, q \in s.serviceMap \cup InCache(s.cache) : ServiceOf[r] = ServiceOf[q] => r = q
    /\ NoDuplicates(s.cache)
    /\ \A r \in Records :
          /\ s.ability[r].process = "running" => r \in Home(s)
          /\ r \in Home(s) \/ s.ability[r].process # "none" \/ Mourned(s, r)
                => s.ability[r].st # "none"
          /\ Mourned(s, r) => s.ability[r].process # "running"
          /\ r \in InCache(s.cache) => s.ability[r].st = "ACTIVE" /\ ServiceOf[r] \in Cacheable
          /\ r \in s.serviceMap => s.ability[r].st # "TERMINATING"

\* Whatever waits has its timeout, or the timeout is in E.
Armed(s, E) ==
    /\ \A r \in s.serviceMap :
          s.ability[r].st = "INITIAL" => <<"loadTimeout", r>> \in s.timers \cup E
    /\ \A r \in s.terminating :
          s.ability[r].st = "TERMINATING" => <<"terminate", r>> \in s.timers \cup E
    /\ \A v \in Services :
          /\ s.reqs[v] > 0 => <<"startServiceTimeout", v>> \in s.timers \cup E
          /\ <<"startServiceTimeout", v>> \in s.timers => s.reqs[v] > 0
          /\ v \in s.restartList => <<"restartResident", v>> \in s.timers \cup E
          /\ <<"restartResident", v>> \in s.timers => v \in s.restartList

\* Both lists have the same connections, and clients know of their ends.
Told(s) ==
    /\ s.connList = s.connMap
    /\ \A k \in Conns :
          /\ s.conn[k].callback /\ s.conn[k].st = "DISCONNECTED" => s.conn[k].told = "disconnected"
          /\ k \in s.connMap => s.conn[k].told # "disconnected" /\ s.conn[k].target \in Records

Fits(s, E) == Typed(s) /\ Housed(s) /\ Armed(s, E) /\ Told(s)

\* The inductive invariant.
ConnectInv == Fits(Now, {running.task}) /\ RunFits(running) /\ dead \subseteq Callbacks

-----------------------------------------------------------------------------
(* Changes of the abilities that the invariant allows without further ado. *)

\* The states differ in their abilities at most.
OnlyAbilities(s, p) ==
    /\ p.conn = s.conn /\ p.serviceMap = s.serviceMap /\ p.terminating = s.terminating
    /\ p.cache = s.cache /\ p.connList = s.connList /\ p.connMap = s.connMap
    /\ p.reqs = s.reqs /\ p.restartList = s.restartList /\ p.timers = s.timers
    /\ p.queue = s.queue

\* No process is started, and a state changes only to one that asks for nothing.
Gentle(s, p) ==
    \A r \in Records :
       /\ p.ability[r].process = s.ability[r].process \/ p.ability[r].process = "none"
          \/ (s.ability[r].process = "running" /\ p.ability[r].process = "dying")
       /\ \/ p.ability[r].st = s.ability[r].st
          \/ p.ability[r].st = "ACTIVE"
          \/ p.ability[r].st \in {"INACTIVATING", "INACTIVE"} /\ r \in s.serviceMap

LEMMA GentleFits ==
    ASSUME NEW s, NEW p, NEW E, Fits(s, E), Typed(p), OnlyAbilities(s, p), Gentle(s, p)
    PROVE  Fits(p, E)
<1>1. Typed(s) /\ Housed(s) /\ Armed(s, E) /\ Told(s)
  BY DEF Fits
<1>2. Home(p) = Home(s) /\ \A r : Mourned(p, r) <=> Mourned(s, r)
  BY DEF OnlyAbilities, Home, Mourned
<1>3. s.serviceMap \subseteq Records /\ s.terminating \subseteq Records
  BY <1>1 DEF Typed
<1>4. Housed(p)
  BY <1>1, <1>2 DEF Housed, OnlyAbilities, Gentle
<1>5. Armed(p, E)
  BY <1>1, <1>3 DEF Armed, OnlyAbilities, Gentle
<1>6. Told(p)
  BY <1>1 DEF Told, OnlyAbilities
<1> QED BY <1>4, <1>5, <1>6 DEF Fits

\* A message to some processes.
LEMMA ScheduleFits ==
    ASSUME NEW s, NEW E, Fits(s, E), NEW R, NEW message \in Messages
    PROVE  Fits(Schedule(s, R, message), E) /\ OnlyAbilities(s, Schedule(s, R, message))
<1> DEFINE p == Schedule(s, R, message)
<1>1. Typed(s)
  BY DEF Fits
<1>2. /\ OnlyAbilities(s, p)
      /\ p.ability = [r \in Records |->
           IF r \in R /\ s.ability[r].sched /\ s.ability[r].process = "running"
           THEN [s.ability[r] EXCEPT !.inbox = Append(@, message)] ELSE s.ability[r]]
  BY <1>1 DEF Schedule, OnlyAbilities, Typed
<1>3. \A r \in Records : s.ability[r] \in AbilityRecord
  BY <1>1 DEF Typed
<1>4. \A r \in Records : [s.ability[r] EXCEPT !.inbox = Append(@, message)] \in AbilityRecord
  <2>1. ASSUME NEW a \in AbilityRecord PROVE [a EXCEPT !.inbox = Append(@, message)] \in AbilityRecord
    BY DEF AbilityRecord
  <2> QED BY <1>3, <2>1
<1>5. p.ability \in [Records -> AbilityRecord]
  BY <1>2, <1>3, <1>4
<1>6. Typed(p)
  <2>1. p = [s EXCEPT !.ability = p.ability]
    BY <1>1 DEF Schedule, Typed
  <2> HIDE DEF p
  <2> QED BY <1>1, <1>5, <2>1 DEF Typed
<1>7. Gentle(s, p)
  BY <1>2, <1>3 DEF Gentle, AbilityRecord
<1> HIDE DEF p
<1> QED BY <1>2, <1>6, <1>7, GentleFits DEF p

\* A change of one record.
LEMMA SetAbilityFits ==
    ASSUME NEW s, NEW E, Fits(s, E), NEW r \in Records, NEW a \in AbilityRecord,
           \/ a.process = s.ability[r].process \/ a.process = "none"
           \/ s.ability[r].process = "running" /\ a.process = "dying",
           \/ a.st = s.ability[r].st \/ a.st = "ACTIVE"
           \/ a.st \in {"INACTIVATING", "INACTIVE"} /\ r \in s.serviceMap
    PROVE  /\ Fits([s EXCEPT !.ability[r] = a], E)
           /\ OnlyAbilities(s, [s EXCEPT !.ability[r] = a])
<1> DEFINE p == [s EXCEPT !.ability[r] = a]
<1>1. Typed(s)
  BY DEF Fits
<1>2. Typed(p) /\ OnlyAbilities(s, p) /\ p.ability = [s.ability EXCEPT ![r] = a]
  BY <1>1 DEF Typed, OnlyAbilities
<1>3. s.ability \in [Records -> AbilityRecord]
  BY <1>1 DEF Typed
<1> HIDE DEF p
<1>4. \A q \in Records : p.ability[q] = IF q = r THEN a ELSE s.ability[q]
  BY <1>2, <1>3
<1>5. Gentle(s, p)
  BY <1>4 DEF Gentle
<1> QED BY <1>2, <1>5, GentleFits DEF p

\* The changes of one record that the handlers make.
LEMMA AbilityUpdates ==
    ASSUME NEW a \in AbilityRecord
    PROVE  /\ \A b \in BOOLEAN :
                /\ [a EXCEPT !.started = b] \in AbilityRecord
                /\ [a EXCEPT !.isConnected = b] \in AbilityRecord
                /\ [a EXCEPT !.remote = b] \in AbilityRecord
                /\ [a EXCEPT !.sched = b] \in AbilityRecord
           /\ \A st \in AbilityStates : [a EXCEPT !.st = st] \in AbilityRecord
           /\ \A process \in {"none", "running", "dying"}, inbox \in Seq(Messages) :
                [a EXCEPT !.process = process, !.inbox = inbox] \in AbilityRecord
           /\ \A inbox \in Seq(Messages) : [a EXCEPT !.inbox = inbox] \in AbilityRecord
<1>1. ASSUME NEW b \in BOOLEAN
      PROVE  /\ [a EXCEPT !.started = b] \in AbilityRecord
             /\ [a EXCEPT !.isConnected = b] \in AbilityRecord
             /\ [a EXCEPT !.remote = b] \in AbilityRecord
             /\ [a EXCEPT !.sched = b] \in AbilityRecord
  BY DEF AbilityRecord
<1>2. ASSUME NEW st \in AbilityStates PROVE [a EXCEPT !.st = st] \in AbilityRecord
  BY DEF AbilityRecord
<1>3. ASSUME NEW process \in {"none", "running", "dying"}, NEW inbox \in Seq(Messages)
      PROVE  [a EXCEPT !.process = process, !.inbox = inbox] \in AbilityRecord
  BY DEF AbilityRecord
<1>4. ASSUME NEW inbox \in Seq(Messages) PROVE [a EXCEPT !.inbox = inbox] \in AbilityRecord
  BY DEF AbilityRecord
<1> QED BY <1>1, <1>2, <1>3, <1>4

LEMMA BlankTypes == Blank \in AbilityRecord /\ Blank.process = "none" /\ Blank.st = "none"
<1>1. <<>> \in Seq(Messages)
  OBVIOUS
<1> QED BY <1>1 DEF Blank, AbilityRecord

LEMMA PairIsNoTriple ==
    ASSUME NEW a, NEW b, NEW c, NEW d, NEW e
    PROVE  <<a, b>> # <<c, d, e>>
<1>1. Len(<<a, b>>) = 2 /\ Len(<<c, d, e>>) = 3
  OBVIOUS
<1> QED BY <1>1

-----------------------------------------------------------------------------
(* Timers. *)

\* The states differ in their timers at most.
OnlyTimers(s, p) ==
    /\ p.ability = s.ability
    /\ p.conn = s.conn /\ p.serviceMap = s.serviceMap /\ p.terminating = s.terminating
    /\ p.cache = s.cache /\ p.connList = s.connList /\ p.connMap = s.connMap
    /\ p.reqs = s.reqs /\ p.restartList = s.restartList
    /\ p.queue = s.queue

LEMMA TimersFit ==
    ASSUME NEW s, NEW p, NEW E, Fits(s, E), Typed(p), OnlyTimers(s, p), NEW F, Armed(p, F)
    PROVE  Fits(p, F)
<1>1. Housed(p)
  <2>1. Housed(s)
    BY DEF Fits
  <2>2. Home(p) = Home(s) /\ \A r : Mourned(p, r) <=> Mourned(s, r)
    BY DEF OnlyTimers, Home, Mourned
  <2> QED BY <2>1, <2>2 DEF Housed, OnlyTimers
<1>2. Told(p)
  BY DEF Fits, Told, OnlyTimers
<1> QED BY <1>1, <1>2 DEF Fits

\* What may be missing when some timers are cancelled.
LEMMA CancelFits ==
    ASSUME NEW s, NEW E, Fits(s, E), NEW T
    PROVE  Fits(CancelTask(s, T), E \cup T) /\ OnlyTimers(s, CancelTask(s, T))
<1> DEFINE p == CancelTask(s, T)
<1>1. Typed(s) /\ Armed(s, E)
  BY DEF Fits
<1>2. OnlyTimers(s, p) /\ p.timers = s.timers \ T
  BY <1>1 DEF CancelTask, OnlyTimers, Typed
<1>3. Typed(p)
  BY <1>1 DEF CancelTask, Typed
<1> HIDE DEF p
<1>4. Armed(p, E \cup T)
  BY <1>1, <1>2 DEF Armed, OnlyTimers
<1> QED BY <1>2, <1>3, <1>4, TimersFit DEF p

\* A timer that nothing waits for need not be armed.
LEMMA ExcuseFits ==
    ASSUME NEW s, NEW E, NEW F, Fits(s, F),
           \A r \in s.serviceMap :
              s.ability[r].st = "INITIAL" /\ <<"loadTimeout", r>> \in F => <<"loadTimeout", r>> \in s.timers \cup E,
           \A r \in s.terminating :
              s.ability[r].st = "TERMINATING" /\ <<"terminate", r>> \in F => <<"terminate", r>> \in s.timers \cup E,
           \A v \in Services :
              s.reqs[v] > 0 /\ <<"startServiceTimeout", v>> \in F => <<"startServiceTimeout", v>> \in s.timers \cup E,
           \A v \in Services :
              v \in s.restartList /\ <<"restartResident", v>> \in F => <<"restartResident", v>> \in s.timers \cup E
    PROVE  Fits(s, E)
BY DEF Fits, Armed

\* The connection timers are not among those the invariant speaks of.
LEMMA CancelConnectionTimers ==
    ASSUME NEW s, NEW E, Fits(s, E), NEW T,
           \A task \in T : task[1] \in {"connectTimeout", "disconnectTimeout", "delayDisconnect"}
    PROVE  Fits(CancelTask(s, T), E) /\ OnlyTimers(s, CancelTask(s, T))
<1> DEFINE p == CancelTask(s, T)
<1>1. Fits(p, E \cup T) /\ OnlyTimers(s, p)
  BY CancelFits
<1>2. ASSUME NEW x PROVE /\ <<"loadTimeout", x>> \notin T /\ <<"terminate", x>> \notin T
                         /\ <<"startServiceTimeout", x>> \notin T
                         /\ <<"restartResident", x>> \notin T
  OBVIOUS
<1> HIDE DEF p
<1>3. Fits(p, E)
  BY <1>1, <1>2, ExcuseFits
<1> QED BY <1>1, <1>3 DEF p

\* Timers are armed: what was missing is there now, in the list or as what runs.
LEMMA PostFits ==
    ASSUME NEW s, NEW E, NEW T, T \subseteq Delayed, Fits(s, E \cup T), running.task \in E,
           \A v \in Services : <<"startServiceTimeout", v>> \in T => s.reqs[v] > 0,
           \A v \in Services : <<"restartResident", v>> \in T => v \in s.restartList
    PROVE  Fits(PostDelayed(s, T), E) /\ OnlyTimers(s, PostDelayed(s, T))
<1> DEFINE p == PostDelayed(s, T)
           again == T \cap (s.timers \cup {running.task})
           more == {<<task[1], task[2], "again">> : task \in again}
<1>1. Typed(s) /\ Armed(s, E \cup T)
  BY DEF Fits
<1>2. OnlyTimers(s, p) /\ p.timers = s.timers \cup (T \ again) \cup more
  BY <1>1 DEF PostDelayed, OnlyTimers, Typed
<1>3. p.timers \subseteq Delayed \cup Again
  <2>1. more \subseteq Again
    BY DEF Again
  <2> QED BY <1>1, <1>2, <2>1 DEF Typed
<1>4. Typed(p)
  <2>1. p = [s EXCEPT !.timers = p.timers]
    BY <1>1 DEF PostDelayed, Typed
  <2> HIDE DEF p
  <2> QED BY <1>1, <1>3, <2>1 DEF Typed
<1>5. \A a, b : <<a, b>> \notin more
  BY PairIsNoTriple
<1> HIDE DEF p, more
<1>6. s.timers \cup E \cup T \subseteq p.timers \cup E
  BY <1>2
<1>7. \A a, b : <<a, b>> \in p.timers => <<a, b>> \in s.timers \/ <<a, b>> \in T
  BY <1>2, <1>5
<1> HIDE DEF again
<1>8. Armed(p, E)
  BY <1>1, <1>2, <1>6, <1>7 DEF Armed, OnlyTimers
<1> QED BY <1>2, <1>4, <1>8, TimersFit DEF p

-----------------------------------------------------------------------------
(* Moving records from one home to another. *)

\* The states differ in where the records are at most.
OnlyHomes(s, p) ==
    /\ p.ability = s.ability /\ p.conn = s.conn
    /\ p.connList = s.connList /\ p.connMap = s.connMap
    /\ p.reqs = s.reqs /\ p.restartList = s.restartList
    /\ p.timers = s.timers /\ p.queue = s.queue

LEMMA HomesFit ==
    ASSUME NEW s, NEW p, NEW E, Fits(s, E), Typed(p), OnlyHomes(s, p),
           p.serviceMap \cap p.terminating = {},
           InCache(p.cache) \cap (p.serviceMap \cup p.terminating) = {},
           \A r, q \in p.serviceMap \cup InCache(p.cache) : ServiceOf[r] = ServiceOf[q] => r = q,
           NoDuplicates(p.cache),
           \A r \in Records : s.ability[r].process = "running" /\ r \in Home(s) => r \in Home(p),
           \A r \in Home(p) : s.ability[r].st # "none",
           \A r \in InCache(p.cache) : s.ability[r].st = "ACTIVE" /\ ServiceOf[r] \in Cacheable,
           \A r \in p.serviceMap : /\ s.ability[r].st # "TERMINATING"
                                   /\ r \in s.serviceMap \/ s.ability[r].st # "INITIAL",
           \A r \in p.terminating : r \in s.terminating \/ s.ability[r].st # "TERMINATING"
    PROVE  Fits(p, E)
<1>1. Housed(s) /\ Armed(s, E) /\ Told(s)
  BY DEF Fits
<1>2. \A r : Mourned(p, r) <=> Mourned(s, r)
  BY DEF OnlyHomes, Mourned
<1>3. \A r \in Records :
          /\ p.ability[r].process = "running" => r \in Home(p)
          /\ r \in Home(p) \/ p.ability[r].process # "none" \/ Mourned(p, r)
                => p.ability[r].st # "none"
          /\ Mourned(p, r) => p.ability[r].process # "running"
          /\ r \in InCache(p.cache) => p.ability[r].st = "ACTIVE" /\ ServiceOf[r] \in Cacheable
          /\ r \in p.serviceMap => p.ability[r].st # "TERMINATING"
  BY <1>1, <1>2 DEF Housed, OnlyHomes
<1>4. Housed(p)
  BY <1>3 DEF Housed
<1>5. Armed(p, E)
  BY <1>1 DEF Armed, OnlyHomes
<1>6. Told(p)
  BY <1>1 DEF Told, OnlyHomes
<1> QED BY <1>4, <1>5, <1>6 DEF Fits

\* The types of what the handlers rely on.
LEMMA FitsTypes ==
    ASSUME NEW s, NEW E, Fits(s, E)
    PROVE  /\ s.serviceMap \subseteq Records /\ s.terminating \subseteq Records
           /\ s.cache \in Seq(Records) /\ NoDuplicates(s.cache) /\ InCache(s.cache) \subseteq Records
           /\ Home(s) \subseteq Records
           /\ s.ability \in [Records -> AbilityRecord]
<1>1. /\ s.serviceMap \subseteq Records /\ s.terminating \subseteq Records
      /\ s.cache \in Seq(Records) /\ NoDuplicates(s.cache)
      /\ s.ability \in [Records -> AbilityRecord]
  BY DEF Fits, Typed, Housed
<1>2. InCache(s.cache) \subseteq Records
  BY <1>1 DEF InCache
<1> QED BY <1>1, <1>2 DEF Home

\* Records that can be reached are moved to the list of the terminating ones.  Erasing
\* by key takes no other record out of the service map.
LEMMA MoveFits ==
    ASSUME NEW s, NEW E, Fits(s, E), NEW R, R \subseteq s.serviceMap \cup InCache(s.cache)
    PROVE  LET p == MoveToTerminatingMap(s, R)
           IN  /\ Fits(p, E) /\ OnlyHomes(s, p)
               /\ p.serviceMap = s.serviceMap \ R
               /\ p.terminating = s.terminating \cup R
               /\ InCache(p.cache) = InCache(s.cache) \ R
<1> DEFINE p == MoveToTerminatingMap(s, R)
           keys == {ServiceOf[r] : r \in R}
<1>1. Typed(s) /\ Housed(s)
  BY DEF Fits
<1>2. /\ s.serviceMap \subseteq Records /\ s.terminating \subseteq Records
      /\ s.cache \in Seq(Records) /\ NoDuplicates(s.cache) /\ InCache(s.cache) \subseteq Records
  BY FitsTypes
<1>3. /\ OnlyHomes(s, p) /\ p.terminating = s.terminating \cup R
      /\ p.serviceMap = {x \in s.serviceMap : ServiceOf[x] \notin keys}
      /\ p.cache = Without(s.cache, R)
  BY <1>1 DEF MoveToTerminatingMap, OnlyHomes, Typed
<1>4. p.cache \in Seq(Records) /\ NoDuplicates(p.cache) /\ InCache(p.cache) = InCache(s.cache) \ R
  BY <1>2, <1>3, WithoutFacts
<1>5. p.serviceMap = s.serviceMap \ R
  <2>1. \A x \in s.serviceMap : ServiceOf[x] \in keys <=> x \in R
    BY <1>1 DEF Housed
  <2> QED BY <1>3, <2>1
<1>6. Typed(p)
  <2>1. p = [s EXCEPT !.terminating = p.terminating, !.serviceMap = p.serviceMap, !.cache = p.cache]
    BY <1>1 DEF MoveToTerminatingMap, Typed
  <2>2. p.terminating \in SUBSET Records /\ p.serviceMap \in SUBSET Records
    BY <1>2, <1>3
  <2> HIDE DEF p
  <2> QED BY <1>1, <1>4, <2>1, <2>2 DEF Typed
<1> HIDE DEF p, keys
<1>7. Home(p) = Home(s)
  BY <1>3, <1>4, <1>5 DEF Home
<1>8. \A r \in R : s.ability[r].st # "TERMINATING"
  BY <1>1, <1>2 DEF Housed
<1>9. \A r \in Home(s) : s.ability[r].st # "none"
  BY <1>1, <1>2 DEF Housed, Home
<1>10. Fits(p, E)
  <2>1. /\ p.serviceMap \cap p.terminating = {}
        /\ InCache(p.cache) \cap (p.serviceMap \cup p.terminating) = {}
        /\ \A r, q \in p.serviceMap \cup InCache(p.cache) : ServiceOf[r] = ServiceOf[q] => r = q
    BY <1>1, <1>3, <1>4, <1>5 DEF Housed
  <2>2. \A r \in InCache(p.cache) : s.ability[r].st = "ACTIVE" /\ ServiceOf[r] \in Cacheable
    BY <1>1, <1>2, <1>4 DEF Housed
  <2>3. \A r \in p.serviceMap : s.ability[r].st # "TERMINATING" /\ r \in s.serviceMap
    BY <1>1, <1>2, <1>5 DEF Housed
  <2> QED BY <1>3, <1>4, <1>6, <1>7, <1>8, <1>9, <2>1, <2>2, <2>3, HomesFit
<1> QED BY <1>3, <1>4, <1>5, <1>10 DEF p

\* A record whose process does not run leaves the list of the terminating ones.
LEMMA RemoveFits ==
    ASSUME NEW s, NEW E, Fits(s, E), NEW r \in Records, s.ability[r].process # "running"
    PROVE  LET p == RemoveServiceAbility(s, r)
           IN  /\ Fits(p, E) /\ OnlyHomes(s, p)
               /\ p.serviceMap = s.serviceMap /\ p.cache = s.cache
               /\ p.terminating = s.terminating \ {r}
<1> DEFINE p == RemoveServiceAbility(s, r)
<1>1. Typed(s) /\ Housed(s)
  BY DEF Fits
<1>2. /\ OnlyHomes(s, p) /\ p.terminating = s.terminating \ {r}
      /\ p.serviceMap = s.serviceMap /\ p.cache = s.cache
  BY <1>1 DEF RemoveServiceAbility, OnlyHomes, Typed
<1>3. Typed(p)
  BY <1>1 DEF RemoveServiceAbility, Typed
<1>4. s.serviceMap \subseteq Records /\ Home(s) \subseteq Records /\ InCache(s.cache) \subseteq Records
  BY FitsTypes
<1> HIDE DEF p
<1>5. Home(p) \subseteq Home(s) /\ Home(s) \subseteq Home(p) \cup {r}
  BY <1>2 DEF Home
<1>6. \A x \in Home(p) : s.ability[x].st # "none"
  BY <1>1, <1>4, <1>5 DEF Housed
<1>7. \A x \in Records : s.ability[x].process = "running" /\ x \in Home(s) => x \in Home(p)
  BY <1>5
<1>8. \A x \in InCache(p.cache) : s.ability[x].st = "ACTIVE" /\ ServiceOf[x] \in Cacheable
  BY <1>1, <1>2, <1>4 DEF Housed
<1>9. \A x \in p.serviceMap : s.ability[x].st # "TERMINATING" /\ x \in s.serviceMap
  BY <1>1, <1>2, <1>4 DEF Housed
<1>10. /\ p.serviceMap \cap p.terminating = {} /\ NoDuplicates(p.cache)
       /\ InCache(p.cache) \cap (p.serviceMap \cup p.terminating) = {}
       /\ \A x, q \in p.serviceMap \cup InCache(p.cache) : ServiceOf[x] = ServiceOf[q] => x = q
  BY <1>1, <1>2 DEF Housed
<1>11. Fits(p, E)
  BY <1>2, <1>3, <1>6, <1>7, <1>8, <1>9, <1>10, HomesFit
<1> QED BY <1>2, <1>11 DEF p

-----------------------------------------------------------------------------
(* Terminating. *)

LEMMA EndProcessFits ==
    ASSUME NEW s, NEW E, Fits(s, E), NEW r \in Records
    PROVE  LET p == EndProcess(s, r)
           IN  /\ Fits(p, E) /\ OnlyAbilities(s, p)
               /\ p.ability[r].process = "none"
               /\ \A q \in Records : p.ability[q].st = s.ability[q].st
<1> DEFINE p == EndProcess(s, r)
           a == [s.ability[r] EXCEPT !.process = "none", !.inbox = <<>>]
<1>1. Typed(s) /\ s.ability \in [Records -> AbilityRecord] /\ s.ability[r] \in AbilityRecord
  BY FitsTypes DEF Fits
<1>2. <<>> \in Seq(Messages)
  OBVIOUS
<1>3. a \in AbilityRecord
  BY <1>1, <1>2, AbilityUpdates
<1>4. a.process = "none" /\ a.st = s.ability[r].st
  BY <1>1 DEF AbilityRecord
<1>5. p = [s EXCEPT !.ability[r] = a]
  BY <1>1 DEF EndProcess, Typed
<1> HIDE DEF a
<1>6. p.ability = [s.ability EXCEPT ![r] = a]
  BY <1>1, <1>5 DEF Typed
<1> HIDE DEF p
<1>7. Fits(p, E) /\ OnlyAbilities(s, p)
  BY <1>3, <1>4, <1>5, SetAbilityFits
<1>8. p.ability[r].process = "none" /\ \A q \in Records : p.ability[q].st = s.ability[q].st
  BY <1>1, <1>4, <1>6
<1> QED BY <1>7, <1>8 DEF p

LEMMA TerminateFits ==
    ASSUME NEW s, NEW E, Fits(s, E), running.task \in E, NEW R, R \subseteq s.terminating
    PROVE  Fits(Terminate(s, R), E)
<1> DEFINE T == {<<"terminate", r>> : r \in R}
           p == [s EXCEPT !.ability = [r \in Records |->
                   IF r \in R THEN [s.ability[r] EXCEPT !.st = "TERMINATING"] ELSE s.ability[r]]]
<1>1. Typed(s) /\ Housed(s) /\ Armed(s, E) /\ Told(s)
  BY DEF Fits
<1>2. s.ability \in [Records -> AbilityRecord] /\ s.terminating \subseteq Records /\ s.serviceMap \subseteq Records
      /\ InCache(s.cache) \subseteq Records
  BY FitsTypes
<1>3. \A r \in Records : /\ [s.ability[r] EXCEPT !.st = "TERMINATING"] \in AbilityRecord
                         /\ [s.ability[r] EXCEPT !.st = "TERMINATING"].st = "TERMINATING"
                         /\ [s.ability[r] EXCEPT !.st = "TERMINATING"].process = s.ability[r].process
  <2>1. "TERMINATING" \in AbilityStates
    BY DEF AbilityStates
  <2>2. ASSUME NEW a \in AbilityRecord
        PROVE  /\ [a EXCEPT !.st = "TERMINATING"] \in AbilityRecord
               /\ [a EXCEPT !.st = "TERMINATING"].st = "TERMINATING"
               /\ [a EXCEPT !.st = "TERMINATING"].process = a.process
    <3>1. [a EXCEPT !.st = "TERMINATING"] \in AbilityRecord
      BY <2>1, AbilityUpdates
    <3>2. /\ [a EXCEPT !.st = "TERMINATING"].st = "TERMINATING"
          /\ [a EXCEPT !.st = "TERMINATING"].process = a.process
      BY DEF AbilityRecord
    <3> QED BY <3>1, <3>2
  <2> QED BY <1>2, <2>2
<1>4. /\ OnlyAbilities(s, p)
      /\ p.ability = [r \in Records |->
           IF r \in R THEN [s.ability[r] EXCEPT !.st = "TERMINATING"] ELSE s.ability[r]]
  BY <1>1 DEF OnlyAbilities, Typed
<1>5. p.ability \in [Records -> AbilityRecord]
  BY <1>2, <1>3, <1>4
<1>6. Typed(p)
  <2>1. p = [s EXCEPT !.ability = p.ability]
    BY <1>1 DEF Typed
  <2> HIDE DEF p
  <2> QED BY <1>1, <1>5, <2>1 DEF Typed
<1>7. \A r \in Records : /\ p.ability[r].process = s.ability[r].process
                         /\ p.ability[r].st = IF r \in R THEN "TERMINATING" ELSE s.ability[r].st
  BY <1>3, <1>4
<1>8. Terminate(s, R) = Schedule(PostDelayed(p, T), R, "terminate")
  BY DEF Terminate
<1> HIDE DEF p
<1>9. Home(p) = Home(s) /\ \A r : Mourned(p, r) <=> Mourned(s, r)
  BY <1>4 DEF OnlyAbilities, Home, Mourned
<1>10. R \cap (s.serviceMap \cup InCache(s.cache)) = {}
  BY <1>1 DEF Housed
<1>11. Housed(p)
  BY <1>1, <1>4, <1>7, <1>9, <1>10 DEF Housed, OnlyAbilities
<1>12. Armed(p, E \cup T)
  BY <1>1, <1>2, <1>4, <1>7, <1>10 DEF Armed, OnlyAbilities
<1>13. Told(p)
  BY <1>1, <1>4 DEF Told, OnlyAbilities
<1>14. Fits(p, E \cup T)
  BY <1>6, <1>11, <1>12, <1>13 DEF Fits
<1>15. T \subseteq Delayed /\ \A v : <<"startServiceTimeout", v>> \notin T /\ <<"restartResident", v>> \notin T
  BY <1>2 DEF Delayed
<1> HIDE DEF T
<1>16. Fits(PostDelayed(p, T), E)
  BY <1>14, <1>15, PostFits
<1>17. "terminate" \in Messages
  BY DEF Messages
<1> QED BY <1>8, <1>16, <1>17, ScheduleFits

LEMMA TerminateRecordFits ==
    ASSUME NEW s, NEW E, Fits(s, E), running.task \in E, NEW R
    PROVE  Fits(TerminateRecord(s, R), E)
<1> DEFINE found == R \cap (s.serviceMap \cup InCache(s.cache))
           p == MoveToTerminatingMap(s, found)
<1>1. TerminateRecord(s, R) = Terminate(p, found)
  BY DEF TerminateRecord
<1>2. found \subseteq s.serviceMap \cup InCache(s.cache)
  OBVIOUS
<1> HIDE DEF found
<1>3. Fits(p, E) /\ p.terminating = s.terminating \cup found
  BY <1>2, MoveFits
<1> HIDE DEF p
<1>4. found \subseteq p.terminating
  BY <1>3
<1> QED BY <1>1, <1>3, <1>4, TerminateFits

\* The end of a termination, by the answer or by the timeout: neither is needed any more.
LEMMA TerminateDoneFits ==
    ASSUME NEW s, NEW E, NEW r \in Records, Fits(s, E \cup {<<"terminate", r>>})
    PROVE  Fits(TerminateDone(s, r), E)
<1> DEFINE F == E \cup {<<"terminate", r>>}
<1>1. \A x : /\ <<"loadTimeout", x>> \in F => <<"loadTimeout", x>> \in E
             /\ <<"startServiceTimeout", x>> \in F => <<"startServiceTimeout", x>> \in E
             /\ <<"restartResident", x>> \in F => <<"restartResident", x>> \in E
             /\ <<"terminate", x>> \in F => x = r \/ <<"terminate", x>> \in E
  OBVIOUS
<1>2. CASE s.ability[r].st # "TERMINATING"
  <2>1. TerminateDone(s, r) = s
    BY <1>2 DEF TerminateDone
  <2>2. Fits(s, F)
    OBVIOUS
  <2> HIDE DEF F
  <2>3. Fits(s, E)
    BY <1>1, <1>2, <2>2, ExcuseFits
  <2> QED BY <2>1, <2>3
<1>3. CASE s.ability[r].st = "TERMINATING"
  <2> DEFINE p == EndProcess(s, r)
             q == RemoveServiceAbility(p, r)
  <2>1. TerminateDone(s, r) = q
    BY <1>3 DEF TerminateDone
  <2>2. Fits(p, F) /\ p.ability[r].process = "none"
    BY EndProcessFits
  <2>3. Fits(q, F) /\ q.terminating = p.terminating \ {r}
    <3> HIDE DEF p, F
    <3> QED BY <2>2, RemoveFits
  <2> HIDE DEF q, F
  <2>4. Fits(q, E)
    BY <1>1, <2>3, ExcuseFits
  <2> QED BY <2>1, <2>4
<1> QED BY <1>2, <1>3

-----------------------------------------------------------------------------
(* The cache. *)

\* A record that is active goes from the service map to the cache, and the ones it displaces
\* come back to be terminated.
LEMMA CacheFits ==
    ASSUME NEW s, NEW E, Fits(s, E), NEW r \in s.serviceMap, s.ability[r].st = "ACTIVE",
           ServiceOf[r] \in Cacheable
    PROVE  \E p, D : /\ TerminateOrCacheAbility(s, r) = TerminateRecord(p, D)
                     /\ Fits(p, E) /\ OnlyHomes(s, p) /\ D \subseteq InCache(s.cache)
                     /\ p.serviceMap = (s.serviceMap \ {r}) \cup D
                     /\ InCache(p.cache) = (InCache(s.cache) \ D) \cup {r}
<1>1. Typed(s) /\ Housed(s)
  BY DEF Fits
<1>2. /\ s.serviceMap \subseteq Records /\ s.terminating \subseteq Records
      /\ s.cache \in Seq(Records) /\ NoDuplicates(s.cache) /\ InCache(s.cache) \subseteq Records
      /\ r \in Records /\ Home(s) \subseteq Records
  BY FitsTypes
<1> DEFINE D == Displaced(s.cache, r)
           x == [s EXCEPT !.serviceMap = {y \in @ : ServiceOf[y] # ServiceOf[r]},
                          !.cache = WithRecord(@, r)]
           p == [x EXCEPT !.serviceMap = @ \cup {d \in D : Mapped(x, ServiceOf[d]) = {}}]
<1>3. TerminateOrCacheAbility(s, r) = TerminateRecord(p, D)
  BY DEF TerminateOrCacheAbility, ProcessEliminateAbilityRecord
<1>4. D \subseteq InCache(s.cache) /\ r \notin InCache(s.cache)
  BY <1>1, <1>2, DisplacedFacts DEF Housed
<1>5. /\ x.serviceMap = s.serviceMap \ {r}
      /\ x.cache = WithRecord(s.cache, r)
  <2>1. /\ x.serviceMap = {y \in s.serviceMap : ServiceOf[y] # ServiceOf[r]}
        /\ x.cache = WithRecord(s.cache, r)
    BY <1>1 DEF Typed
  <2>2. \A y \in s.serviceMap : ServiceOf[y] = ServiceOf[r] <=> y = r
    BY <1>1 DEF Housed
  <2> HIDE DEF x
  <2> QED BY <2>1, <2>2
<1>6. {d \in D : Mapped(x, ServiceOf[d]) = {}} = D
  <2> SUFFICES ASSUME NEW d \in D PROVE Mapped(x, ServiceOf[d]) = {}
    OBVIOUS
  <2>1. \A y \in s.serviceMap : ServiceOf[y] # ServiceOf[d]
    BY <1>1, <1>4 DEF Housed
  <2> HIDE DEF x, D
  <2> QED BY <1>5, <2>1 DEF Mapped
<1>7. /\ p.serviceMap = (s.serviceMap \ {r}) \cup D
      /\ p.cache = WithRecord(s.cache, r) /\ p.terminating = s.terminating
      /\ OnlyHomes(s, p)
  BY <1>1, <1>5, <1>6 DEF Typed, OnlyHomes
<1>8. /\ p.cache \in Seq(Records) /\ NoDuplicates(p.cache)
      /\ InCache(p.cache) = (InCache(s.cache) \ D) \cup {r}
  <2> HIDE DEF p
  <2> QED BY <1>2, <1>4, <1>7, WithRecordFacts
<1>9. Typed(p)
  <2>1. p = [s EXCEPT !.serviceMap = p.serviceMap, !.cache = p.cache]
    BY <1>1 DEF Typed
  <2>2. p.serviceMap \in SUBSET Records
    BY <1>2, <1>4, <1>7
  <2> HIDE DEF p
  <2> QED BY <1>1, <1>8, <2>1, <2>2 DEF Typed
<1> HIDE DEF p, x, D
<1>10. Home(p) = Home(s)
  BY <1>4, <1>7, <1>8 DEF Home
<1>11. /\ p.serviceMap \cap p.terminating = {}
       /\ InCache(p.cache) \cap (p.serviceMap \cup p.terminating) = {}
       /\ \A y, q \in p.serviceMap \cup InCache(p.cache) : ServiceOf[y] = ServiceOf[q] => y = q
  BY <1>1, <1>4, <1>7, <1>8 DEF Housed
<1>12. \A y \in Home(p) : s.ability[y].st # "none"
  BY <1>1, <1>2, <1>10 DEF Housed
<1>13. \A y \in InCache(p.cache) : s.ability[y].st = "ACTIVE" /\ ServiceOf[y] \in Cacheable
  BY <1>1, <1>2, <1>8 DEF Housed
<1>14. \A y \in p.serviceMap : /\ s.ability[y].st # "TERMINATING"
                               /\ y \in s.serviceMap \/ s.ability[y].st # "INITIAL"
  BY <1>1, <1>2, <1>4, <1>7 DEF Housed
<1>15. Fits(p, E)
  BY <1>7, <1>8, <1>9, <1>10, <1>11, <1>12, <1>13, <1>14, HomesFit
<1> QED BY <1>3, <1>4, <1>7, <1>8, <1>15

LEMMA TerminateOrCacheFits ==
    ASSUME NEW s, NEW E, Fits(s, E), running.task \in E,
           NEW r \in s.serviceMap, s.ability[r].st = "ACTIVE"
    PROVE  Fits(TerminateOrCacheAbility(s, r), E)
<1>1. CASE ServiceOf[r] \notin Cacheable
  BY <1>1, TerminateRecordFits DEF TerminateOrCacheAbility
<1>2. CASE ServiceOf[r] \in Cacheable
  <2>1. PICK p, D : TerminateOrCacheAbility(s, r) = TerminateRecord(p, D) /\ Fits(p, E)
    BY <1>2, CacheFits
  <2> QED BY <2>1, TerminateRecordFits
<1> QED BY <1>1, <1>2

-----------------------------------------------------------------------------
(* Starting. *)

\* The record that is in the service map of a service, once there is one.
Ready(s, r) == r \in s.serviceMap /\ ~Mourned(s, r)

\* There is a record for service v, or one can be made.
RoomIn(s, v) == Mapped(s, v) # {} \/ Free(s, v) # {}

\* What getting a record leaves alone.
SameRest(s, p) ==
    /\ p.conn = s.conn /\ p.connList = s.connList /\ p.connMap = s.connMap
    /\ p.reqs = s.reqs /\ p.restartList = s.restartList
    /\ p.timers = s.timers /\ p.queue = s.queue /\ p.terminating = s.terminating

\* A cached record goes back to the service map.
LEMMA ReuseFits ==
    ASSUME NEW s, NEW E, Fits(s, E), NEW r \in InCache(s.cache), Mapped(s, ServiceOf[r]) = {}
    PROVE  LET p == AddToServiceMap([s EXCEPT !.cache = Drop(@, r)], r)
           IN  /\ Fits(p, E) /\ SameRest(s, p) /\ p.ability = s.ability
               /\ p.serviceMap = s.serviceMap \cup {r}
               /\ InCache(p.cache) = InCache(s.cache) \ {r}
<1> DEFINE x == [s EXCEPT !.cache = Drop(@, r)]
           p == AddToServiceMap(x, r)
<1>1. Typed(s) /\ Housed(s)
  BY DEF Fits
<1>2. /\ s.serviceMap \subseteq Records /\ s.terminating \subseteq Records
      /\ s.cache \in Seq(Records) /\ NoDuplicates(s.cache) /\ InCache(s.cache) \subseteq Records
      /\ r \in Records /\ Home(s) \subseteq Records
  BY FitsTypes
<1>3. Mapped(x, ServiceOf[r]) = {}
  <2>1. x.serviceMap = s.serviceMap
    BY <1>1 DEF Typed
  <2> HIDE DEF x
  <2> QED BY <2>1 DEF Mapped
<1>4. p = [x EXCEPT !.serviceMap = @ \cup {r}]
  BY <1>3 DEF AddToServiceMap
<1>5. /\ p.serviceMap = s.serviceMap \cup {r} /\ p.cache = Drop(s.cache, r)
      /\ p.terminating = s.terminating /\ OnlyHomes(s, p) /\ SameRest(s, p)
  BY <1>1, <1>4 DEF Typed, OnlyHomes, SameRest
<1>6. p.cache \in Seq(Records) /\ NoDuplicates(p.cache) /\ InCache(p.cache) = InCache(s.cache) \ {r}
  <2> HIDE DEF p
  <2> QED BY <1>2, <1>5, DropFacts
<1>7. Typed(p)
  <2>1. p = [s EXCEPT !.serviceMap = p.serviceMap, !.cache = p.cache]
    BY <1>1, <1>4 DEF Typed
  <2>2. p.serviceMap \in SUBSET Records
    BY <1>2, <1>5
  <2> HIDE DEF p
  <2> QED BY <1>1, <1>6, <2>1, <2>2 DEF Typed
<1> HIDE DEF p, x
<1>8. Home(p) = Home(s)
  BY <1>5, <1>6 DEF Home
<1>9. /\ p.serviceMap \cap p.terminating = {}
      /\ InCache(p.cache) \cap (p.serviceMap \cup p.terminating) = {}
      /\ \A y, q \in p.serviceMap \cup InCache(p.cache) : ServiceOf[y] = ServiceOf[q] => y = q
  BY <1>1, <1>5, <1>6 DEF Housed
<1>10. \A y \in Home(p) : s.ability[y].st # "none"
  BY <1>1, <1>2, <1>8 DEF Housed
<1>11. \A y \in InCache(p.cache) : s.ability[y].st = "ACTIVE" /\ ServiceOf[y] \in Cacheable
  BY <1>1, <1>2, <1>6 DEF Housed
<1>12. \A y \in p.serviceMap : /\ s.ability[y].st # "TERMINATING"
                               /\ y \in s.serviceMap \/ s.ability[y].st # "INITIAL"
  BY <1>1, <1>2, <1>5 DEF Housed
<1>13. Fits(p, E)
  BY <1>5, <1>6, <1>7, <1>8, <1>9, <1>10, <1>11, <1>12, HomesFit
<1> QED BY <1>5, <1>6, <1>13 DEF p, x, OnlyHomes

\* A new record, which waits for its load timeout to be armed.
LEMMA CreateFits ==
    ASSUME NEW s, NEW E, Fits(s, E), NEW r \in Records, s.ability[r].st = "none",
           NEW byConnect \in BOOLEAN,
           \A q \in s.serviceMap \cup InCache(s.cache) : ServiceOf[q] # ServiceOf[r]
    PROVE  LET fresh == [Blank EXCEPT !.st = "INITIAL", !.byConnect = byConnect]
               p == AddToServiceMap([s EXCEPT !.ability[r] = fresh], r)
           IN  /\ Fits(p, E \cup {<<"loadTimeout", r>>}) /\ SameRest(s, p) /\ Ready(p, r)
               /\ \A q \in Records : p.ability[q].st = IF q = r THEN "INITIAL" ELSE s.ability[q].st
               /\ p.serviceMap = s.serviceMap \cup {r}
<1> DEFINE fresh == [Blank EXCEPT !.st = "INITIAL", !.byConnect = byConnect]
           x == [s EXCEPT !.ability[r] = fresh]
           p == AddToServiceMap(x, r)
           F == E \cup {<<"loadTimeout", r>>}
<1>1. Typed(s) /\ Housed(s) /\ Armed(s, E) /\ Told(s)
  BY DEF Fits
<1>2. /\ s.ability \in [Records -> AbilityRecord] /\ s.serviceMap \subseteq Records
      /\ InCache(s.cache) \subseteq Records /\ s.terminating \subseteq Records
  BY FitsTypes
<1>3. /\ fresh \in AbilityRecord /\ fresh.st = "INITIAL" /\ fresh.process = "none"
  <2>1. Blank \in AbilityRecord /\ Blank.process = "none"
    BY BlankTypes
  <2>2. "INITIAL" \in AbilityStates
    BY DEF AbilityStates
  <2>3. ASSUME NEW a \in AbilityRecord
        PROVE  /\ [a EXCEPT !.st = "INITIAL", !.byConnect = byConnect] \in AbilityRecord
               /\ [a EXCEPT !.st = "INITIAL", !.byConnect = byConnect].st = "INITIAL"
               /\ [a EXCEPT !.st = "INITIAL", !.byConnect = byConnect].process = a.process
    BY <2>2 DEF AbilityRecord
  <2> QED BY <2>1, <2>3
<1> HIDE DEF fresh
<1>4. Mapped(x, ServiceOf[r]) = {}
  <2>1. x.serviceMap = s.serviceMap
    BY <1>1 DEF Typed
  <2> HIDE DEF x
  <2> QED BY <2>1 DEF Mapped
<1>5. p = [x EXCEPT !.serviceMap = @ \cup {r}]
  BY <1>4 DEF AddToServiceMap
<1>6. /\ p.serviceMap = s.serviceMap \cup {r} /\ p.cache = s.cache
      /\ p.ability = [s.ability EXCEPT ![r] = fresh] /\ SameRest(s, p)
  BY <1>1, <1>5 DEF Typed, SameRest
<1>7. Typed(p)
  <2>1. p = [s EXCEPT !.serviceMap = p.serviceMap, !.ability = p.ability]
    BY <1>1, <1>5 DEF Typed
  <2>2. p.serviceMap \in SUBSET Records /\ p.ability \in [Records -> AbilityRecord]
    BY <1>2, <1>3, <1>6
  <2> HIDE DEF p
  <2> QED BY <1>1, <2>1, <2>2 DEF Typed
<1> HIDE DEF p, x
<1>8. \A q \in Records : p.ability[q] = IF q = r THEN fresh ELSE s.ability[q]
  BY <1>2, <1>6
<1>9. /\ \A q : Mourned(p, q) <=> Mourned(s, q)
      /\ Home(p) = Home(s) \cup {r}
  BY <1>6 DEF SameRest, Mourned, Home
<1>10. r \notin Home(s) /\ ~Mourned(s, r)
  BY <1>1 DEF Housed
<1>11. \A q \in Records :
          /\ p.ability[q].process = "running" => q \in Home(p)
          /\ q \in Home(p) \/ p.ability[q].process # "none" \/ Mourned(p, q)
                => p.ability[q].st # "none"
          /\ Mourned(p, q) => p.ability[q].process # "running"
          /\ q \in InCache(p.cache) => p.ability[q].st = "ACTIVE" /\ ServiceOf[q] \in Cacheable
          /\ q \in p.serviceMap => p.ability[q].st # "TERMINATING"
  <2> SUFFICES ASSUME NEW q \in Records
               PROVE  /\ p.ability[q].process = "running" => q \in Home(p)
                      /\ q \in Home(p) \/ p.ability[q].process # "none" \/ Mourned(p, q)
                            => p.ability[q].st # "none"
                      /\ Mourned(p, q) => p.ability[q].process # "running"
                      /\ q \in InCache(p.cache) => p.ability[q].st = "ACTIVE" /\ ServiceOf[q] \in Cacheable
                      /\ q \in p.serviceMap => p.ability[q].st # "TERMINATING"
    OBVIOUS
  <2>1. CASE q = r
    BY <1>3, <1>6, <1>8, <1>9, <1>10, <2>1 DEF Home
  <2>2. CASE q # r
    BY <1>1, <1>6, <1>8, <1>9, <2>2 DEF Housed
  <2> QED BY <2>1, <2>2
<1>12. Housed(p)
  <2>1. /\ p.serviceMap \cap p.terminating = {}
        /\ InCache(p.cache) \cap (p.serviceMap \cup p.terminating) = {}
    BY <1>1, <1>6, <1>10 DEF Housed, Home, SameRest
  <2>2. \A y, q \in p.serviceMap \cup InCache(p.cache) : ServiceOf[y] = ServiceOf[q] => y = q
    BY <1>1, <1>6 DEF Housed
  <2>3. NoDuplicates(p.cache)
    BY <1>1, <1>6 DEF Housed
  <2> QED BY <1>11, <2>1, <2>2, <2>3 DEF Housed
<1>13. Armed(p, F)
  <2>1. \A q \in p.serviceMap :
          p.ability[q].st = "INITIAL" => <<"loadTimeout", q>> \in p.timers \cup F
    BY <1>1, <1>2, <1>6, <1>8 DEF Armed, SameRest
  <2>2. \A q \in p.terminating :
          p.ability[q].st = "TERMINATING" => <<"terminate", q>> \in p.timers \cup F
    BY <1>1, <1>2, <1>3, <1>6, <1>8 DEF Armed, SameRest
  <2> QED BY <1>1, <1>6, <2>1, <2>2 DEF Armed, SameRest
<1>14. Told(p)
  BY <1>1, <1>6 DEF Told, SameRest
<1>15. Ready(p, r)
  BY <1>6, <1>9, <1>10 DEF Ready
<1>16. \A q \in Records : p.ability[q].st = IF q = r THEN "INITIAL" ELSE s.ability[q].st
  BY <1>3, <1>8
<1> QED BY <1>6, <1>7, <1>12, <1>13, <1>14, <1>15, <1>16 DEF Fits, p, x, fresh

\* GetOrCreateServiceRecord returns a record that is in the service map.
LEMMA GetFits ==
    ASSUME NEW s, NEW E, Fits(s, E), NEW v \in Services, RoomIn(s, v), NEW byConnect \in BOOLEAN
    PROVE  LET g == GetOrCreateServiceRecord(s, v, byConnect)
           IN  /\ g.r \in Records /\ ServiceOf[g.r] = v
               /\ g.r \in g.s.serviceMap /\ SameRest(s, g.s)
               /\ g.s.serviceMap \subseteq s.serviceMap \cup InCache(s.cache) \cup Free(s, v)
               /\ g.loaded \in BOOLEAN
               /\ g.loaded => Fits(g.s, E) /\ g.s.ability = s.ability
               /\ ~g.loaded => /\ Fits(g.s, E \cup {<<"loadTimeout", g.r>>}) /\ Ready(g.s, g.r)
                               /\ g.r \in Free(s, v)
<1> DEFINE g == GetOrCreateServiceRecord(s, v, byConnect)
<1>1. Typed(s) /\ Housed(s)
  BY DEF Fits
<1>2. /\ s.serviceMap \subseteq Records /\ s.cache \in Seq(Records) /\ InCache(s.cache) \subseteq Records
  BY FitsTypes
<1>3. CASE Mapped(s, v) # {}
  <2> DEFINE r == CHOOSE r \in Mapped(s, v) : TRUE
  <2>1. r \in Mapped(s, v)
    BY <1>3
  <2>2. g = [s |-> s, r |-> r, loaded |-> TRUE]
    BY <1>3 DEF GetOrCreateServiceRecord
  <2> HIDE DEF r
  <2>3. g.s = s /\ g.r = r /\ g.loaded = TRUE
    BY <2>2
  <2> QED BY <1>2, <2>1, <2>3 DEF Mapped, SameRest
<1>4. CASE Mapped(s, v) = {} /\ v \in Cacheable /\ Cached(s, v) # {}
  <2> DEFINE i == OldestIndex(Cached(s, v))
             r == s.cache[i]
             p == AddToServiceMap([s EXCEPT !.cache = Drop(@, r)], r)
  <2>1. Cached(s, v) \in SUBSET Nat
    BY <1>2 DEF Cached
  <2>2. \E m \in Cached(s, v) : \A j \in Cached(s, v) : m <= j
    BY <1>4, <2>1, LeastElement
  <2>3. i \in Cached(s, v)
    BY <2>2 DEF OldestIndex
  <2>4. r \in InCache(s.cache) /\ ServiceOf[r] = v
    BY <2>3 DEF Cached, InCache
  <2>5. g = [s |-> p, r |-> r, loaded |-> TRUE]
    BY <1>4 DEF GetOrCreateServiceRecord
  <2>6. /\ Fits(p, E) /\ SameRest(s, p) /\ p.ability = s.ability
        /\ p.serviceMap = s.serviceMap \cup {r}
    BY <1>4, <2>4, ReuseFits
  <2> HIDE DEF p, r, i
  <2>7. g.s = p /\ g.r = r /\ g.loaded = TRUE
    BY <2>5
  <2> QED BY <1>2, <2>4, <2>6, <2>7
<1>5. CASE Mapped(s, v) = {} /\ ~(v \in Cacheable /\ Cached(s, v) # {})
  <2> DEFINE r == CHOOSE r \in Free(s, v) : TRUE
             fresh == [Blank EXCEPT !.st = "INITIAL", !.byConnect = byConnect]
             p == AddToServiceMap([s EXCEPT !.ability[r] = fresh], r)
  <2>1. r \in Free(s, v)
    BY <1>5 DEF RoomIn
  <2>2. r \in Records /\ ServiceOf[r] = v /\ s.ability[r].st = "none"
    BY <2>1 DEF Free
  <2>3. \A q \in s.serviceMap \cup InCache(s.cache) : ServiceOf[q] # ServiceOf[r]
    <3>1. \A q \in s.serviceMap : ServiceOf[q] # v
      BY <1>5 DEF Mapped
    <3>2. \A q \in InCache(s.cache) : ServiceOf[q] # v
      <4> SUFFICES ASSUME NEW q \in InCache(s.cache), ServiceOf[q] = v PROVE FALSE
        OBVIOUS
      <4>1. v \in Cacheable
        BY <1>1, <1>2 DEF Housed
      <4>2. Cached(s, v) # {}
        BY DEF Cached, InCache
      <4> QED BY <1>5, <4>1, <4>2
    <3> QED BY <2>2, <3>1, <3>2
  <2>4. g = [s |-> p, r |-> r, loaded |-> FALSE]
    BY <1>5 DEF GetOrCreateServiceRecord
  <2> HIDE DEF r
  <2>5. /\ Fits(p, E \cup {<<"loadTimeout", r>>}) /\ SameRest(s, p) /\ Ready(p, r)
        /\ p.serviceMap = s.serviceMap \cup {r}
    BY <2>2, <2>3, CreateFits
  <2> HIDE DEF p
  <2>6. g.s = p /\ g.r = r /\ g.loaded = FALSE
    BY <2>4
  <2> HIDE DEF g
  <2>7. /\ g.r \in Records /\ ServiceOf[g.r] = v
        /\ g.r \in g.s.serviceMap /\ SameRest(s, g.s)
        /\ g.s.serviceMap \subseteq s.serviceMap \cup InCache(s.cache) \cup Free(s, v)
        /\ Fits(g.s, E \cup {<<"loadTimeout", g.r>>}) /\ Ready(g.s, g.r)
        /\ g.r \in Free(s, v)
    BY <2>1, <2>2, <2>5, <2>6
  <2> QED BY <2>6, <2>7 DEF g
<1> QED BY <1>3, <1>4, <1>5

\* The load request, with its timeout.
LEMMA LoadFits ==
    ASSUME NEW s, NEW E, NEW r \in Records, Fits(s, E \cup {<<"loadTimeout", r>>}),
           running.task \in E, Ready(s, r)
    PROVE  LET p == LoadAbility(s, r)
           IN  Fits(p, E) /\ p.serviceMap = s.serviceMap /\ p.reqs = s.reqs
<1> DEFINE T == {<<"loadTimeout", r>>}
           a == [s.ability[r] EXCEPT !.process = "running", !.inbox = <<"load">>]
           p == [s EXCEPT !.ability[r] = a]
<1>1. Typed(s) /\ Housed(s) /\ Armed(s, E \cup T) /\ Told(s)
  BY DEF Fits
<1>2. s.ability \in [Records -> AbilityRecord] /\ s.serviceMap \subseteq Records
      /\ s.terminating \subseteq Records
  BY FitsTypes
<1>3. a \in AbilityRecord
  <2>1. <<"load">> \in Seq(Messages)
    BY DEF Messages
  <2> QED BY <1>2, <2>1, AbilityUpdates
<1>4. a.process = "running" /\ a.st = s.ability[r].st
  <2>1. s.ability[r] \in AbilityRecord
    BY <1>2
  <2> QED BY <2>1 DEF AbilityRecord
<1>5. LoadAbility(s, r) = PostDelayed(p, T)
  BY <1>1 DEF LoadAbility, Typed
<1> HIDE DEF a
<1>6. Typed(p) /\ OnlyAbilities(s, p) /\ p.ability = [s.ability EXCEPT ![r] = a]
  BY <1>1, <1>3 DEF Typed, OnlyAbilities
<1> HIDE DEF p
<1>7. \A q \in Records : /\ p.ability[q].st = s.ability[q].st
                         /\ p.ability[q].process = IF q = r THEN "running" ELSE s.ability[q].process
  BY <1>2, <1>4, <1>6
<1>8. Home(p) = Home(s) /\ (\A q : Mourned(p, q) <=> Mourned(s, q))
      /\ r \in Home(s) /\ ~Mourned(s, r)
  BY <1>6 DEF OnlyAbilities, Home, Mourned, Ready
<1>9. Housed(p)
  BY <1>1, <1>6, <1>7, <1>8 DEF Housed, OnlyAbilities
<1>10. Armed(p, E \cup T)
  BY <1>1, <1>2, <1>6, <1>7 DEF Armed, OnlyAbilities
<1>11. Told(p)
  BY <1>1, <1>6 DEF Told, OnlyAbilities
<1>12. Fits(p, E \cup T)
  BY <1>6, <1>9, <1>10, <1>11 DEF Fits
<1>13. T \subseteq Delayed /\ \A v : <<"startServiceTimeout", v>> \notin T /\ <<"restartResident", v>> \notin T
  BY DEF Delayed
<1> HIDE DEF T
<1>14. Fits(PostDelayed(p, T), E) /\ OnlyTimers(p, PostDelayed(p, T))
  BY <1>12, <1>13, PostFits
<1> QED BY <1>5, <1>6, <1>14 DEF OnlyTimers, OnlyAbilities

\* A flag of a record.
LEMMA FlagFits ==
    ASSUME NEW s, NEW E, Fits(s, E), NEW r \in Records, NEW b \in BOOLEAN
    PROVE  /\ Fits([s EXCEPT !.ability[r].started = b], E)
           /\ OnlyAbilities(s, [s EXCEPT !.ability[r].started = b])
           /\ Fits([s EXCEPT !.ability[r].isConnected = b], E)
           /\ OnlyAbilities(s, [s EXCEPT !.ability[r].isConnected = b])
           /\ Fits([s EXCEPT !.ability[r].remote = b], E)
           /\ OnlyAbilities(s, [s EXCEPT !.ability[r].remote = b])
           /\ Fits([s EXCEPT !.ability[r].sched = b], E)
           /\ OnlyAbilities(s, [s EXCEPT !.ability[r].sched = b])
<1>1. Typed(s) /\ s.ability \in [Records -> AbilityRecord] /\ s.ability[r] \in AbilityRecord
  BY FitsTypes DEF Fits
<1>2. /\ [s.ability[r] EXCEPT !.started = b] \in AbilityRecord
      /\ [s.ability[r] EXCEPT !.isConnected = b] \in AbilityRecord
      /\ [s.ability[r] EXCEPT !.remote = b] \in AbilityRecord
      /\ [s.ability[r] EXCEPT !.sched = b] \in AbilityRecord
  BY <1>1, AbilityUpdates
<1>3. /\ [s EXCEPT !.ability[r].started = b] = [s EXCEPT !.ability[r] = [s.ability[r] EXCEPT !.started = b]]
      /\ [s EXCEPT !.ability[r].isConnected = b] = [s EXCEPT !.ability[r] = [s.ability[r] EXCEPT !.isConnected = b]]
      /\ [s EXCEPT !.ability[r].remote = b] = [s EXCEPT !.ability[r] = [s.ability[r] EXCEPT !.remote = b]]
      /\ [s EXCEPT !.ability[r].sched = b] = [s EXCEPT !.ability[r] = [s.ability[r] EXCEPT !.sched = b]]
  BY <1>1 DEF Typed
<1>4. ASSUME NEW a \in AbilityRecord, a.process = s.ability[r].process, a.st = s.ability[r].st
      PROVE  /\ Fits([s EXCEPT !.ability[r] = a], E)
             /\ OnlyAbilities(s, [s EXCEPT !.ability[r] = a])
  BY <1>4, SetAbilityFits
<1>5. ASSUME NEW a \in AbilityRecord
      PROVE  /\ [a EXCEPT !.started = b].st = a.st /\ [a EXCEPT !.started = b].process = a.process
             /\ [a EXCEPT !.isConnected = b].st = a.st /\ [a EXCEPT !.isConnected = b].process = a.process
             /\ [a EXCEPT !.remote = b].st = a.st /\ [a EXCEPT !.remote = b].process = a.process
             /\ [a EXCEPT !.sched = b].st = a.st /\ [a EXCEPT !.sched = b].process = a.process
  BY DEF AbilityRecord
<1>6. /\ Fits([s EXCEPT !.ability[r].started = b], E)
      /\ OnlyAbilities(s, [s EXCEPT !.ability[r].started = b])
  BY <1>1, <1>2, <1>3, <1>4, <1>5
<1>7. /\ Fits([s EXCEPT !.ability[r].isConnected = b], E)
      /\ OnlyAbilities(s, [s EXCEPT !.ability[r].isConnected = b])
  BY <1>1, <1>2, <1>3, <1>4, <1>5
<1>8. /\ Fits([s EXCEPT !.ability[r].remote = b], E)
      /\ OnlyAbilities(s, [s EXCEPT !.ability[r].remote = b])
  BY <1>1, <1>2, <1>3, <1>4, <1>5
<1>9. /\ Fits([s EXCEPT !.ability[r].sched = b], E)
      /\ OnlyAbilities(s, [s EXCEPT !.ability[r].sched = b])
  BY <1>1, <1>2, <1>3, <1>4, <1>5
<1> QED BY <1>6, <1>7, <1>8, <1>9

LEMMA CommandFits ==
    ASSUME NEW s, NEW E, Fits(s, E), NEW r \in Records
    PROVE  Fits(CommandAbility(s, r), E) /\ OnlyAbilities(s, CommandAbility(s, r))
<1> DEFINE p == [s EXCEPT !.ability[r].started = TRUE]
<1>1. Fits(p, E) /\ OnlyAbilities(s, p)
  BY FlagFits
<1>2. "command" \in Messages
  BY DEF Messages
<1>3. CommandAbility(s, r) = Schedule(p, {r}, "command")
  BY DEF CommandAbility
<1> HIDE DEF p
<1>4. Fits(Schedule(p, {r}, "command"), E) /\ OnlyAbilities(p, Schedule(p, {r}, "command"))
  BY <1>1, <1>2, ScheduleFits
<1> QED BY <1>1, <1>3, <1>4 DEF OnlyAbilities

LEMMA FirstIsMember ==
    ASSUME NEW K \in SUBSET Conns, K # {}
    PROVE  First(K) \in K
<1>1. K \in SUBSET Nat
  BY DEF Conns
<1>2. \E k \in K : \A j \in K : k <= j
  BY <1>1, LeastElement
<1> QED BY <1>2 DEF First

LEMMA ConnectFits ==
    ASSUME NEW s, NEW E, Fits(s, E), running.task \in E, NEW r \in Records
    PROVE  Fits(ConnectAbility(s, r), E)
<1> DEFINE connecting == InState(s, ConnectList(s, r), "CONNECTING")
           T == IF connecting = {} THEN {} ELSE {<<"connectTimeout", First(connecting)>>}
           p == PostDelayed(s, T)
           q == [p EXCEPT !.ability[r].isConnected = TRUE]
<1>1. connecting \in SUBSET Conns
  <2>1. s.connList \subseteq Conns
    BY DEF Fits, Typed
  <2> QED BY <2>1 DEF InState, ConnectList
<1>2. T \subseteq Delayed /\ \A v : <<"startServiceTimeout", v>> \notin T /\ <<"restartResident", v>> \notin T
  <2>1. CASE connecting = {}
    BY <2>1
  <2>2. CASE connecting # {}
    <3>1. First(connecting) \in Conns
      BY <1>1, <2>2, FirstIsMember
    <3> QED BY <2>2, <3>1 DEF Delayed
  <2> QED BY <2>1, <2>2
<1>3. ConnectAbility(s, r) = Schedule(q, {r}, "connect")
  BY DEF ConnectAbility
<1> HIDE DEF T
<1>4. Fits(s, E \cup T)
  BY DEF Fits, Armed
<1>5. Fits(p, E)
  BY <1>2, <1>4, PostFits
<1> HIDE DEF p
<1>6. Fits(q, E)
  BY <1>5, FlagFits
<1> HIDE DEF q
<1>7. "connect" \in Messages
  BY DEF Messages
<1> QED BY <1>3, <1>6, <1>7, ScheduleFits

\* A waiting request has its timeout from the first one on.
LEMMA EnqueueFits ==
    ASSUME NEW s, NEW E, Fits(s, E), running.task \in E, NEW v \in Services, s.reqs[v] < MaxReqs
    PROVE  LET p == EnqueueStartServiceReq(s, v)
           IN  Fits(p, E) /\ p.serviceMap = s.serviceMap /\ p.reqs = [s.reqs EXCEPT ![v] = @ + 1]
<1> DEFINE T == IF s.reqs[v] = 0 THEN {<<"startServiceTimeout", v>>} ELSE {}
           p == [s EXCEPT !.reqs[v] = @ + 1]
<1>1. Typed(s) /\ Housed(s) /\ Armed(s, E) /\ Told(s)
  BY DEF Fits
<1>2. s.reqs \in [Services -> 0..MaxReqs] /\ MaxReqs \in Nat
  BY <1>1, ConnectConstants DEF Typed
<1>3. /\ p.ability = s.ability /\ p.conn = s.conn /\ p.serviceMap = s.serviceMap
      /\ p.terminating = s.terminating /\ p.cache = s.cache /\ p.connList = s.connList
      /\ p.connMap = s.connMap /\ p.restartList = s.restartList /\ p.timers = s.timers
      /\ p.queue = s.queue /\ p.reqs = [s.reqs EXCEPT ![v] = @ + 1]
  BY <1>1 DEF Typed
<1>4. p.reqs \in [Services -> 0..MaxReqs]
  BY <1>2, <1>3
<1>5. Typed(p)
  <2>1. p = [s EXCEPT !.reqs = p.reqs]
    BY <1>1 DEF Typed
  <2> HIDE DEF p
  <2> QED BY <1>1, <1>4, <2>1 DEF Typed
<1>6. EnqueueStartServiceReq(s, v) = PostDelayed(p, T)
  BY DEF EnqueueStartServiceReq
<1> HIDE DEF p
<1>7. \A w \in Services : /\ w # v => p.reqs[w] = s.reqs[w]
                          /\ p.reqs[v] > 0
                          /\ s.reqs[v] = 0 \/ s.reqs[v] > 0
  BY <1>2, <1>3
<1>8. Housed(p)
  <2>1. Home(p) = Home(s) /\ \A q : Mourned(p, q) <=> Mourned(s, q)
    BY <1>3 DEF Home, Mourned
  <2> QED BY <1>1, <1>3, <2>1 DEF Housed
<1>9. Armed(p, E \cup T)
  BY <1>1, <1>3, <1>7 DEF Armed
<1>10. Told(p)
  BY <1>1, <1>3 DEF Told
<1>11. Fits(p, E \cup T)
  BY <1>5, <1>8, <1>9, <1>10 DEF Fits
<1>12. /\ T \subseteq Delayed
       /\ \A w \in Services : <<"startServiceTimeout", w>> \in T => p.reqs[w] > 0
       /\ \A w : <<"restartResident", w>> \notin T
  BY <1>7 DEF Delayed
<1> HIDE DEF T
<1>13. Fits(PostDelayed(p, T), E) /\ OnlyTimers(p, PostDelayed(p, T))
  BY <1>11, <1>12, PostFits
<1> QED BY <1>3, <1>6, <1>13 DEF OnlyTimers

LEMMA StartFits ==
    ASSUME NEW s, NEW E, Fits(s, E), running.task \in E, NEW v \in Services, RoomIn(s, v),
           s.reqs[v] < MaxReqs
    PROVE  LET p == StartAbilityLocked(s, v)
           IN  /\ Fits(p, E) /\ RoomIn(p, v)
               /\ p.reqs = s.reqs \/ p.reqs = [s.reqs EXCEPT ![v] = @ + 1]
               /\ p.serviceMap \subseteq s.serviceMap \cup InCache(s.cache) \cup Free(s, v)
<1> DEFINE g == GetOrCreateServiceRecord(s, v, FALSE)
           p == StartAbilityLocked(s, v)
<1>1. /\ g.r \in Records /\ ServiceOf[g.r] = v
      /\ g.r \in g.s.serviceMap /\ SameRest(s, g.s)
      /\ g.s.serviceMap \subseteq s.serviceMap \cup InCache(s.cache) \cup Free(s, v)
      /\ g.loaded \in BOOLEAN
      /\ g.loaded => Fits(g.s, E) /\ g.s.ability = s.ability
      /\ ~g.loaded => Fits(g.s, E \cup {<<"loadTimeout", g.r>>}) /\ Ready(g.s, g.r)
  BY GetFits
<1>2. p = IF ~g.loaded THEN LoadAbility(g.s, g.r)
          ELSE IF g.s.ability[g.r].st = "ACTIVE" THEN CommandAbility(g.s, g.r)
          ELSE EnqueueStartServiceReq(g.s, v)
  BY DEF StartAbilityLocked
<1> HIDE DEF g, p
<1>3. g.s.reqs = s.reqs
  BY <1>1 DEF SameRest
<1>4. Fits(p, E) /\ p.serviceMap = g.s.serviceMap
      /\ (p.reqs = s.reqs \/ p.reqs = [s.reqs EXCEPT ![v] = @ + 1])
  <2>1. CASE ~g.loaded
    BY <1>1, <1>2, <1>3, <2>1, LoadFits
  <2>2. CASE g.loaded /\ g.s.ability[g.r].st = "ACTIVE"
    <3>1. p = CommandAbility(g.s, g.r)
      BY <1>2, <2>2
    <3> QED BY <1>1, <1>3, <2>2, <3>1, CommandFits DEF OnlyAbilities
  <2>3. CASE g.loaded /\ g.s.ability[g.r].st # "ACTIVE"
    <3>1. p = EnqueueStartServiceReq(g.s, v)
      BY <1>2, <2>3
    <3> QED BY <1>1, <1>3, <2>3, <3>1, EnqueueFits
  <2> QED BY <1>1, <2>1, <2>2, <2>3
<1>5. RoomIn(p, v)
  BY <1>1, <1>4 DEF RoomIn, Mapped
<1> QED BY <1>1, <1>4, <1>5 DEF p

\* The function that starts the requests one after the other exists: a least number of
\* requests without one is contradicted by the function for one less.
Restarts(f, m, taken, v) ==
    f = [n \in 0..m |-> IF n = 0 THEN taken ELSE StartAbilityLocked(f[n - 1], v)]

LEMMA RestartsExist ==
    ASSUME NEW N \in Nat, NEW taken, NEW v
    PROVE  \E f : Restarts(f, N, taken, v)
<1> DEFINE Bad == {m \in Nat : ~\E f : Restarts(f, m, taken, v)}
<1> SUFFICES ASSUME Bad # {} PROVE FALSE
  OBVIOUS
<1>1. PICK m \in Bad : \A j \in Bad : m <= j
  BY LeastElement
<1>2. m # 0
  <2>1. ASSUME m = 0 PROVE FALSE
    <3> DEFINE f == [n \in 0..0 |-> taken]
    <3>1. f = [n \in 0..0 |-> IF n = 0 THEN taken ELSE StartAbilityLocked(f[n - 1], v)]
      OBVIOUS
    <3>2. Restarts(f, 0, taken, v)
      BY <3>1 DEF Restarts
    <3> HIDE DEF f
    <3> QED BY <2>1, <3>2
  <2> QED BY <2>1
<1>3. m - 1 \in Nat /\ m - 1 \notin Bad
  BY <1>1, <1>2
<1>4. PICK f : Restarts(f, m - 1, taken, v)
  BY <1>3
<1> DEFINE g == [n \in 0..m |-> IF n = m THEN StartAbilityLocked(f[m - 1], v) ELSE f[n]]
<1>5. ASSUME NEW n \in 0..m
      PROVE  g[n] = IF n = 0 THEN taken ELSE StartAbilityLocked(g[n - 1], v)
  <2>1. CASE n = m
    <3>1. g[n] = StartAbilityLocked(f[m - 1], v)
      BY <2>1
    <3>2. g[n - 1] = f[m - 1]
      BY <1>3, <2>1
    <3> HIDE DEF g
    <3> QED BY <1>2, <2>1, <3>1, <3>2
  <2>2. CASE n # m
    <3>1. n \in 0..(m - 1)
      BY <1>3, <2>2
    <3>2. f[n] = IF n = 0 THEN taken ELSE StartAbilityLocked(f[n - 1], v)
      BY <1>4, <3>1 DEF Restarts
    <3>3. g[n] = f[n]
      BY <2>2
    <3>4. n # 0 => g[n - 1] = f[n - 1]
      BY <3>1, <1>3
    <3> HIDE DEF g
    <3> QED BY <3>2, <3>3, <3>4
  <2> QED BY <2>1, <2>2
<1>6. Restarts(g, m, taken, v)
  <2>1. g = [n \in 0..m |-> g[n]]
    OBVIOUS
  <2> HIDE DEF g
  <2>2. [n \in 0..m |-> g[n]]
        = [n \in 0..m |-> IF n = 0 THEN taken ELSE StartAbilityLocked(g[n - 1], v)]
    BY <1>5
  <2> QED BY <2>1, <2>2 DEF Restarts
<1> HIDE DEF g
<1> QED BY <1>1, <1>6

\* The waiting requests of a service are taken, and their timeout with them.
LEMMA TakeFits ==
    ASSUME NEW s, NEW E, Fits(s, E), NEW v \in Services
    PROVE  LET p == CancelTask([s EXCEPT !.reqs[v] = 0], {<<"startServiceTimeout", v>>})
           IN  /\ Fits(p, E) /\ p.serviceMap = s.serviceMap /\ p.ability = s.ability
               /\ p.reqs[v] = 0
<1> DEFINE x == [s EXCEPT !.reqs[v] = 0]
           T == {<<"startServiceTimeout", v>>}
           taken == CancelTask(x, T)
<1>1. Typed(s) /\ Housed(s) /\ Armed(s, E) /\ Told(s)
  BY DEF Fits
<1>2. s.reqs \in [Services -> 0..MaxReqs] /\ MaxReqs \in Nat
  BY <1>1, ConnectConstants DEF Typed
<1>3. /\ x.ability = s.ability /\ x.conn = s.conn /\ x.serviceMap = s.serviceMap
      /\ x.terminating = s.terminating /\ x.cache = s.cache /\ x.connList = s.connList
      /\ x.connMap = s.connMap /\ x.restartList = s.restartList /\ x.timers = s.timers
      /\ x.queue = s.queue /\ x.reqs = [s.reqs EXCEPT ![v] = 0]
  BY <1>1 DEF Typed
<1>4. /\ taken.ability = s.ability /\ taken.conn = s.conn /\ taken.serviceMap = s.serviceMap
      /\ taken.terminating = s.terminating /\ taken.cache = s.cache /\ taken.connList = s.connList
      /\ taken.connMap = s.connMap /\ taken.restartList = s.restartList
      /\ taken.timers = s.timers \ T
      /\ taken.queue = s.queue /\ taken.reqs = [s.reqs EXCEPT ![v] = 0]
  BY <1>1, <1>3 DEF Typed, CancelTask
<1>5. taken.reqs \in [Services -> 0..MaxReqs] /\ taken.timers \subseteq Delayed \cup Again
  <2>1. s.timers \subseteq Delayed \cup Again
    BY <1>1 DEF Typed
  <2> HIDE DEF taken, x
  <2>2. taken.timers \subseteq Delayed \cup Again
    BY <1>4, <2>1
  <2>3. taken.reqs \in [Services -> 0..MaxReqs]
    BY <1>2, <1>4
  <2> QED BY <2>2, <2>3
<1>6. Typed(taken)
  <2>1. taken = [s EXCEPT !.reqs = taken.reqs, !.timers = taken.timers]
    BY <1>1, <1>3 DEF Typed, CancelTask
  <2> HIDE DEF taken
  <2> QED BY <1>1, <1>5, <2>1 DEF Typed
<1> HIDE DEF taken, x
<1>7. taken.reqs[v] = 0 /\ \A w \in Services : w # v => taken.reqs[w] = s.reqs[w]
  BY <1>2, <1>4
<1>8. Housed(taken)
  <2>1. Home(taken) = Home(s) /\ \A q : Mourned(taken, q) <=> Mourned(s, q)
    BY <1>4 DEF Home, Mourned
  <2> QED BY <1>1, <1>4, <2>1 DEF Housed
<1>9. Armed(taken, E)
  BY <1>1, <1>4, <1>7 DEF Armed
<1>10. Told(taken)
  BY <1>1, <1>4 DEF Told
<1> QED BY <1>4, <1>6, <1>7, <1>8, <1>9, <1>10 DEF Fits, taken, x

\* The waiting requests are taken, with their timeout, and started again: at most as many wait
\* again.
LEMMA CompleteStartFits ==
    ASSUME NEW s, NEW E, Fits(s, E), running.task \in E, NEW v \in Services,
           s.reqs[v] = 0 \/ RoomIn(s, v)
    PROVE  Fits(CompleteStartServiceReq(s, v), E)
<1> DEFINE N == s.reqs[v]
           x == [s EXCEPT !.reqs[v] = 0]
           T == {<<"startServiceTimeout", v>>}
           taken == CancelTask(x, T)
           f == CHOOSE f : Restarts(f, N, taken, v)
<1>1. Typed(s) /\ Housed(s) /\ Armed(s, E) /\ Told(s)
  BY DEF Fits
<1>2. s.reqs \in [Services -> 0..MaxReqs] /\ MaxReqs \in Nat /\ N \in 0..MaxReqs
  BY <1>1, ConnectConstants DEF Typed
<1>3. CASE N = 0
  BY <1>3 DEF CompleteStartServiceReq
<1>4. CASE N # 0
  <2>1. CompleteStartServiceReq(s, v) = f[N]
    BY <1>4 DEF CompleteStartServiceReq, Restarts
  <2>2. Restarts(f, N, taken, v)
    BY <1>2, RestartsExist, SMTT(60)
  <2>3. Fits(taken, E) /\ RoomIn(taken, v) /\ taken.reqs[v] = 0
    <3>1. /\ Fits(taken, E) /\ taken.serviceMap = s.serviceMap /\ taken.ability = s.ability
          /\ taken.reqs[v] = 0
      BY TakeFits
    <3> QED BY <1>4, <3>1 DEF RoomIn, Mapped, Free
  <2> HIDE DEF taken, f
  <2> DEFINE Bad == {n \in 0..N : ~(Fits(f[n], E) /\ RoomIn(f[n], v) /\ f[n].reqs[v] <= n)}
  <2>4. Bad = {}
    <3> SUFFICES ASSUME Bad # {} PROVE FALSE
      OBVIOUS
    <3>1. Bad \in SUBSET Nat
      OBVIOUS
    <3>2. PICK n \in Bad : \A j \in Bad : n <= j
      BY <3>1, LeastElement
    <3>3. CASE n = 0
      <4>1. f[0] = taken
        BY <1>2, <2>2 DEF Restarts
      <4> QED BY <2>3, <3>2, <3>3, <4>1
    <3>4. CASE n # 0
      <4>1. n \in 1..N /\ n - 1 \in 0..N /\ n - 1 \notin Bad
        BY <1>2, <3>2, <3>4
      <4>2. f[n] = StartAbilityLocked(f[n - 1], v)
        BY <2>2, <4>1 DEF Restarts
      <4> DEFINE p == f[n - 1]
                 q == f[n]
      <4>3. Fits(p, E) /\ RoomIn(p, v) /\ p.reqs[v] <= n - 1
        BY <4>1
      <4> HIDE DEF p, Bad
      <4>4. p.reqs \in [Services -> 0..MaxReqs] /\ p.reqs[v] \in Nat
        BY <1>2, <4>3 DEF Fits, Typed
      <4>5. p.reqs[v] < MaxReqs
        BY <1>2, <4>1, <4>3, <4>4
      <4>6. q = StartAbilityLocked(p, v)
        BY <4>2 DEF p
      <4> HIDE DEF q
      <4>7. Fits(q, E) /\ RoomIn(q, v) /\ (q.reqs = p.reqs \/ q.reqs = [p.reqs EXCEPT ![v] = @ + 1])
        BY <4>3, <4>5, <4>6, StartFits
      <4>8. q.reqs[v] <= n
        BY <4>1, <4>3, <4>4, <4>7
      <4> QED BY <3>2, <4>7, <4>8 DEF Bad, q
    <3> QED BY <3>3, <3>4
  <2>5. N \in 0..N
    BY <1>2
  <2> QED BY <2>1, <2>4, <2>5
<1> QED BY <1>3, <1>4

LEMMA RestartFits ==
    ASSUME NEW s, NEW E, Fits(s, E), running.task \in E, NEW v \in Services, RoomIn(s, v),
           s.reqs[v] < MaxReqs, NEW restartNow \in BOOLEAN
    PROVE  LET p == RestartAbility(s, v, restartNow)
           IN  /\ Fits(p, E)
               /\ p.serviceMap \subseteq s.serviceMap \cup InCache(s.cache) \cup Free(s, v)
<1> DEFINE T == {<<"restartResident", v>>}
           x == [s EXCEPT !.restartList = @ \cup {v}]
           p == RestartAbility(s, v, restartNow)
<1>1. CASE restartNow
  BY <1>1, StartFits DEF RestartAbility
<1>2. CASE ~restartNow /\ v \in s.restartList
  BY <1>2 DEF RestartAbility
<1>3. CASE ~restartNow /\ v \notin s.restartList
  <2>1. p = PostDelayed(x, T)
    BY <1>3 DEF RestartAbility
  <2>2. Typed(s) /\ Housed(s) /\ Armed(s, E) /\ Told(s)
    BY DEF Fits
  <2>3. /\ x.ability = s.ability /\ x.conn = s.conn /\ x.serviceMap = s.serviceMap
        /\ x.terminating = s.terminating /\ x.cache = s.cache /\ x.connList = s.connList
        /\ x.connMap = s.connMap /\ x.reqs = s.reqs /\ x.timers = s.timers
        /\ x.queue = s.queue /\ x.restartList = s.restartList \cup {v}
    BY <2>2 DEF Typed
  <2>4. Typed(x)
    BY <2>2 DEF Typed
  <2> HIDE DEF x
  <2>5. Housed(x)
    <3>1. Home(x) = Home(s) /\ \A q : Mourned(x, q) <=> Mourned(s, q)
      BY <2>3 DEF Home, Mourned
    <3> QED BY <2>2, <2>3, <3>1 DEF Housed
  <2>6. Armed(x, E \cup T)
    BY <2>2, <2>3 DEF Armed
  <2>7. Told(x)
    BY <2>2, <2>3 DEF Told
  <2>8. Fits(x, E \cup T)
    BY <2>4, <2>5, <2>6, <2>7 DEF Fits
  <2>9. /\ T \subseteq Delayed
        /\ \A w \in Services : <<"restartResident", w>> \in T => w \in x.restartList
        /\ \A w : <<"startServiceTimeout", w>> \notin T
    BY <2>3 DEF Delayed
  <2> HIDE DEF T
  <2>10. Fits(PostDelayed(x, T), E) /\ OnlyTimers(x, PostDelayed(x, T))
    BY <2>8, <2>9, PostFits
  <2> HIDE DEF p
  <2> QED BY <2>1, <2>3, <2>10 DEF OnlyTimers, p
<1> QED BY <1>1, <1>2, <1>3

-----------------------------------------------------------------------------
(* Connections. *)

\* Connections, flags and the queue change, but no home, no timer and no request, and no
\* death is announced.
Calm(s, p) ==
    /\ p.serviceMap = s.serviceMap /\ p.terminating = s.terminating /\ p.cache = s.cache
    /\ p.reqs = s.reqs /\ p.restartList = s.restartList /\ p.timers = s.timers
    /\ \A r \in Records : Mourned(p, r) => Mourned(s, r)
    /\ Gentle(s, p)

LEMMA CalmFits ==
    ASSUME NEW s, NEW p, NEW E, Fits(s, E), Typed(p), Calm(s, p), Told(p)
    PROVE  Fits(p, E)
<1>1. Typed(s) /\ Housed(s) /\ Armed(s, E)
  BY DEF Fits
<1>2. Home(p) = Home(s)
  BY DEF Calm, Home
<1>3. s.serviceMap \subseteq Records /\ s.terminating \subseteq Records
  BY <1>1 DEF Typed
<1>4. Housed(p)
  BY <1>1, <1>2 DEF Housed, Calm, Gentle
<1>5. Armed(p, E)
  BY <1>1, <1>3 DEF Armed, Calm, Gentle
<1> QED BY <1>4, <1>5 DEF Fits

LEMMA ConnTypes ==
    ASSUME NEW s, NEW E, Fits(s, E)
    PROVE  /\ s.conn \in [Conns -> ConnRecord] /\ s.connList = s.connMap /\ s.connMap \subseteq Conns
           /\ \A k \in Conns : /\ s.conn[k] \in ConnRecord
                               /\ s.conn[k].told \in {"nothing", "connected", "disconnected"}
                               /\ s.conn[k].callback \in BOOLEAN
                               /\ s.conn[k].target \in Records \cup {NoRecord}
                               /\ s.conn[k].st \in ConnStates
<1>1. s.conn \in [Conns -> ConnRecord] /\ s.connList = s.connMap /\ s.connMap \subseteq Conns
  BY DEF Fits, Typed, Told
<1> QED BY <1>1 DEF ConnRecord

\* Connections are dropped, and their clients told.
LEMMA CompleteDisconnectFits ==
    ASSUME NEW s, NEW E, Fits(s, E), NEW K
    PROVE  LET p == CompleteDisconnect(s, K)
           IN  /\ Fits(p, E) /\ p.serviceMap = s.serviceMap /\ p.terminating = s.terminating
               /\ p.cache = s.cache /\ p.reqs = s.reqs /\ p.timers = s.timers
               /\ \A r \in Records : /\ p.ability[r].st = s.ability[r].st
                                     /\ p.ability[r].process = s.ability[r].process
               /\ \A k \in Conns : p.conn[k].target = s.conn[k].target
               /\ p.connMap = s.connMap \ K
<1> DEFINE p == CompleteDisconnect(s, K)
           emptied == {r \in {s.conn[k].target : k \in K} : ConnectList(s, r) \subseteq K}
           Ended(k) == [s.conn[k] EXCEPT !.st = "DISCONNECTED",
                                         !.told = IF s.conn[k].callback THEN "disconnected"
                                                  ELSE s.conn[k].told]
<1>1. Typed(s) /\ Told(s)
  BY DEF Fits
<1>2. s.ability \in [Records -> AbilityRecord] /\ \A r \in Records : s.ability[r] \in AbilityRecord
  BY FitsTypes
<1>3. /\ p.conn = [k \in Conns |-> IF k \in K THEN Ended(k) ELSE s.conn[k]]
      /\ p.ability = [r \in Records |->
             IF r \in emptied THEN [s.ability[r] EXCEPT !.isConnected = FALSE] ELSE s.ability[r]]
      /\ p.connList = s.connList \ K /\ p.connMap = s.connMap \ K
      /\ p.serviceMap = s.serviceMap /\ p.terminating = s.terminating /\ p.cache = s.cache
      /\ p.reqs = s.reqs /\ p.restartList = s.restartList /\ p.timers = s.timers
      /\ p.queue = s.queue
  BY <1>1 DEF CompleteDisconnect, Typed
<1>4. p = [s EXCEPT !.conn = p.conn, !.ability = p.ability, !.connList = p.connList,
                    !.connMap = p.connMap]
  BY <1>1 DEF CompleteDisconnect, Typed
<1> HIDE DEF p, emptied
<1>5. ASSUME NEW k \in Conns
      PROVE  /\ Ended(k) \in ConnRecord /\ Ended(k).target = s.conn[k].target
             /\ Ended(k).callback => Ended(k).told = "disconnected"
  <2> DEFINE told == IF s.conn[k].callback THEN "disconnected" ELSE s.conn[k].told
             e == [s.conn[k] EXCEPT !.st = "DISCONNECTED", !.told = told]
  <2>1. /\ s.conn[k] \in ConnRecord /\ told \in {"nothing", "connected", "disconnected"}
        /\ "DISCONNECTED" \in ConnStates
    BY ConnTypes DEF ConnStates
  <2>2. s.conn[k].callback => told = "disconnected"
    OBVIOUS
  <2> HIDE DEF told
  <2>3. /\ e \in ConnRecord /\ e.target = s.conn[k].target /\ e.told = told
        /\ e.callback <=> s.conn[k].callback
    <3> DEFINE c == s.conn[k]
    <3>1. c \in ConnRecord
      BY <2>1
    <3>2. e = [c EXCEPT !.st = "DISCONNECTED", !.told = told]
      OBVIOUS
    <3> HIDE DEF c, e
    <3>3. e \in ConnRecord
      BY <2>1, <3>1, <3>2 DEF ConnRecord
    <3>4. e.target = c.target /\ e.told = told
      BY <3>1, <3>2 DEF ConnRecord
    <3>5. e.callback <=> c.callback
      BY <3>1, <3>2 DEF ConnRecord
    <3> QED BY <3>3, <3>4, <3>5 DEF c
  <2>4. Ended(k) = e
    BY DEF told
  <2> HIDE DEF e, Ended
  <2> QED BY <2>2, <2>3, <2>4
<1> HIDE DEF Ended
<1>6. \A k \in Conns : p.conn[k] = IF k \in K THEN Ended(k) ELSE s.conn[k]
  BY <1>3
<1>7. p.conn \in [Conns -> ConnRecord]
  BY <1>3, <1>5, ConnTypes
<1>8. \A r \in Records : /\ p.ability[r] \in AbilityRecord
                         /\ p.ability[r].st = s.ability[r].st
                         /\ p.ability[r].process = s.ability[r].process
  <2>1. ASSUME NEW a \in AbilityRecord
        PROVE  /\ [a EXCEPT !.isConnected = FALSE] \in AbilityRecord
               /\ [a EXCEPT !.isConnected = FALSE].st = a.st
               /\ [a EXCEPT !.isConnected = FALSE].process = a.process
    BY DEF AbilityRecord
  <2>2. \A r \in Records : p.ability[r] = IF r \in emptied THEN [s.ability[r] EXCEPT !.isConnected = FALSE]
                                          ELSE s.ability[r]
    BY <1>3
  <2> QED BY <1>2, <2>1, <2>2
<1>9. p.ability \in [Records -> AbilityRecord]
  BY <1>3, <1>8
<1>10. Typed(p)
  <2>1. p.connList \in SUBSET Conns /\ p.connMap \in SUBSET Conns
    BY <1>3, ConnTypes
  <2> QED BY <1>1, <1>4, <1>7, <1>9, <2>1 DEF Typed
<1>11. Calm(s, p)
  BY <1>3, <1>8 DEF Calm, Gentle, Mourned
<1>12. Told(p)
  <2>1. p.connList = p.connMap
    BY <1>3, ConnTypes
  <2>2. ASSUME NEW k \in Conns
        PROVE  /\ p.conn[k].callback /\ p.conn[k].st = "DISCONNECTED" => p.conn[k].told = "disconnected"
               /\ k \in p.connMap => p.conn[k].told # "disconnected" /\ p.conn[k].target \in Records
    <3>1. CASE k \in K
      BY <1>3, <1>5, <1>6, <3>1
    <3>2. CASE k \notin K
      <4>1. p.conn[k] = s.conn[k] /\ (k \in p.connMap => k \in s.connMap)
        BY <1>3, <1>6, <3>2
      <4> QED BY <1>1, <4>1 DEF Told
    <3> QED BY <3>1, <3>2
  <2> QED BY <2>1, <2>2 DEF Told
<1>13. Fits(p, E)
  BY <1>10, <1>11, <1>12, CalmFits
<1>14. \A k \in Conns : p.conn[k].target = s.conn[k].target
  BY <1>5, <1>6
<1> QED BY <1>3, <1>8, <1>13, <1>14 DEF p

\* Only the connection records change, and the queue by what announces no death.
LEMMA ConnsFit ==
    ASSUME NEW s, NEW E, Fits(s, E), NEW C \in [Conns -> ConnRecord], NEW Q \in Seq(QueueTasks),
           \A r : /\ <<"died", r>> \in InCache(Q) => <<"died", r>> \in InCache(s.queue)
                  /\ <<"handleDied", r>> \in InCache(Q) => <<"handleDied", r>> \in InCache(s.queue),
           \A k \in Conns : C[k].callback /\ C[k].st = "DISCONNECTED" => C[k].told = "disconnected",
           \A k \in s.connMap : C[k].told # "disconnected" /\ C[k].target \in Records
    PROVE  Fits([s EXCEPT !.conn = C, !.queue = Q], E)
<1> DEFINE p == [s EXCEPT !.conn = C, !.queue = Q]
<1>1. Typed(s) /\ Told(s)
  BY DEF Fits
<1>2. /\ p.ability = s.ability /\ p.conn = C /\ p.serviceMap = s.serviceMap
      /\ p.terminating = s.terminating /\ p.cache = s.cache /\ p.connList = s.connList
      /\ p.connMap = s.connMap /\ p.reqs = s.reqs /\ p.timers = s.timers
      /\ p.restartList = s.restartList /\ p.queue = Q
  BY <1>1 DEF Typed
<1>3. Typed(p)
  BY <1>1 DEF Typed
<1> HIDE DEF p
<1>4. Calm(s, p)
  BY <1>2 DEF Calm, Gentle, Mourned
<1>5. Told(p)
  BY <1>1, <1>2 DEF Told
<1> QED BY <1>3, <1>4, <1>5, CalmFits DEF p

\* A record becomes active.
LEMMA ActiveFits ==
    ASSUME NEW s, NEW E, Fits(s, E), NEW r, NEW K
    PROVE  LET p == [s EXCEPT !.ability[r].st = IF K = {} THEN @ ELSE "ACTIVE"]
           IN  Fits(p, E) /\ OnlyAbilities(s, p)
<1> DEFINE p == [s EXCEPT !.ability[r].st = IF K = {} THEN @ ELSE "ACTIVE"]
           a == [s.ability[r] EXCEPT !.st = IF K = {} THEN @ ELSE "ACTIVE"]
<1>1. Typed(s) /\ s.ability \in [Records -> AbilityRecord]
  BY FitsTypes DEF Fits
<1>2. p.ability = [s.ability EXCEPT ![r] = a] /\ OnlyAbilities(s, p)
  BY <1>1 DEF OnlyAbilities, Typed
<1>3. p = [s EXCEPT !.ability = p.ability]
  BY <1>1 DEF Typed
<1>4. ASSUME NEW q \in Records
      PROVE  /\ p.ability[q] \in AbilityRecord
             /\ p.ability[q].process = s.ability[q].process
             /\ p.ability[q].st = s.ability[q].st \/ p.ability[q].st = "ACTIVE"
  <2>1. CASE q # r
    BY <1>1, <1>2, <2>1
  <2>2. CASE q = r
    <3>1. p.ability[q] = a
      BY <1>1, <1>2, <2>2
    <3>2. ASSUME NEW b \in AbilityRecord, NEW st \in AbilityStates \cup {"none"}
          PROVE  /\ [b EXCEPT !.st = st] \in AbilityRecord
                 /\ [b EXCEPT !.st = st].process = b.process
                 /\ [b EXCEPT !.st = st].st = st
      BY DEF AbilityRecord
    <3>3. s.ability[r] \in AbilityRecord
      BY <1>1, <2>2
    <3> DEFINE st == IF K = {} THEN s.ability[r].st ELSE "ACTIVE"
    <3>4. st \in AbilityStates \cup {"none"} /\ (st = s.ability[r].st \/ st = "ACTIVE")
      BY <3>3 DEF AbilityStates, AbilityRecord
    <3>5. a = [s.ability[r] EXCEPT !.st = st]
      OBVIOUS
    <3> HIDE DEF st, a, p
    <3> QED BY <2>2, <3>1, <3>2, <3>3, <3>4, <3>5
  <2> QED BY <2>1, <2>2
<1>5. p.ability \in [Records -> AbilityRecord]
  <2>1. DOMAIN p.ability = Records /\ p.ability = [q \in Records |-> p.ability[q]]
    BY <1>1, <1>2
  <2> HIDE DEF p
  <2> QED BY <1>4, <2>1
<1>6. Typed(p)
  <2> HIDE DEF p
  <2> QED BY <1>1, <1>3, <1>5 DEF Typed
<1> HIDE DEF p
<1>7. Gentle(s, p)
  BY <1>4 DEF Gentle
<1> QED BY <1>2, <1>6, <1>7, GentleFits DEF p

LEMMA ConcatMembers ==
    ASSUME NEW S, NEW u \in Seq(S), NEW w \in Seq(S)
    PROVE  \A t \in InCache(u \o w) : t \in InCache(u) \/ t \in InCache(w)
<1> SUFFICES ASSUME NEW i \in DOMAIN (u \o w)
             PROVE  (u \o w)[i] \in InCache(u) \/ (u \o w)[i] \in InCache(w)
  BY DEF InCache
<1>1. /\ Len(u) \in Nat /\ Len(w) \in Nat /\ i \in 1..(Len(u) + Len(w))
      /\ DOMAIN u = 1..Len(u) /\ DOMAIN w = 1..Len(w)
  OBVIOUS
<1>2. CASE i <= Len(u)
  <2>1. (u \o w)[i] = u[i] /\ i \in DOMAIN u
    BY <1>1, <1>2
  <2> QED BY <2>1 DEF InCache
<1>3. CASE i > Len(u)
  <2>1. (u \o w)[i] = w[i - Len(u)] /\ i - Len(u) \in DOMAIN w
    BY <1>1, <1>3
  <2> QED BY <2>1 DEF InCache
<1> QED BY <1>1, <1>2, <1>3

\* What CompleteConnect leaves as it was.
Completes(s, r, K, p) ==
    /\ p.cache = s.cache /\ p.connList = s.connList /\ p.connMap = s.connMap
    /\ p.ability = [s EXCEPT !.ability[r].st = IF K = {} THEN @ ELSE "ACTIVE"].ability
    /\ \A k \in Conns :
          /\ p.conn[k].target = s.conn[k].target /\ p.conn[k].owner = s.conn[k].owner
          /\ p.conn[k].st = "INIT" => s.conn[k].st = "INIT"
          /\ p.conn[k].st = "DISCONNECTED" => s.conn[k].st = "DISCONNECTED"
          /\ <<"completeConnect", k>> \in InCache(p.queue)
                => <<"completeConnect", k>> \in InCache(s.queue)

LEMMA CompleteConnectFits ==
    ASSUME NEW s, NEW E, Fits(s, E), NEW r \in Records \cup {NoRecord}, NEW K \in SUBSET Conns
    PROVE  LET p == CompleteConnect(s, r, K)
           IN  /\ Fits(p, E) /\ p.serviceMap = s.serviceMap /\ p.reqs = s.reqs
               /\ \A q \in Records : q # r => p.ability[q] = s.ability[q]
               /\ Completes(s, r, K, p)
<1> DEFINE x == [s EXCEPT !.ability[r].st = IF K = {} THEN @ ELSE "ACTIVE"]
           Told1(k) == IF s.conn[k].callback THEN "connected" ELSE s.conn[k].told
           C1 == [k \in Conns |-> IF k \in K THEN [s.conn[k] EXCEPT !.st = "CONNECTED", !.told = Told1(k)]
                                  ELSE s.conn[k]]
           C2 == [k \in Conns |-> IF k \in K THEN [s.conn[k] EXCEPT !.st = "DISCONNECTING"] ELSE s.conn[k]]
           n == Cardinality(K)
           D == [i \in 1..n |-> <<"disconnectDone", r>>]
           p == CompleteConnect(s, r, K)
<1>1. Fits(x, E) /\ OnlyAbilities(s, x)
  BY ActiveFits
<1>2. Typed(s) /\ Told(s) /\ Typed(x)
  BY <1>1 DEF Fits
<1>3. \A q \in Records : q # r => x.ability[q] = s.ability[q]
  <2>1. s.ability \in [Records -> AbilityRecord]
    BY <1>2 DEF Typed
  <2>2. x.ability = [s.ability EXCEPT ![r].st = IF K = {} THEN @ ELSE "ACTIVE"]
    BY <1>2 DEF Typed
  <2> HIDE DEF x
  <2> QED BY <2>1, <2>2
<1> HIDE DEF x
<1>4. x.conn = s.conn /\ x.connMap = s.connMap /\ x.queue = s.queue /\ x.serviceMap = s.serviceMap
      /\ x.reqs = s.reqs /\ x.cache = s.cache /\ x.connList = s.connList
  BY <1>1 DEF OnlyAbilities
<1>5. s.queue \in Seq(QueueTasks)
  BY <1>2 DEF Typed
<1>6. CASE s.ability[r].remote
  <2>1. p = [x EXCEPT !.conn = C1, !.queue = s.queue]
    <3>1. p = [x EXCEPT !.conn = [k \in Conns |->
                 IF k \in K
                 THEN [@[k] EXCEPT !.st = "CONNECTED",
                                   !.told = IF s.conn[k].callback THEN "connected"
                                            ELSE s.conn[k].told]
                 ELSE @[k]]]
      BY <1>6 DEF CompleteConnect, x
    <3> QED BY <1>2, <1>4, <3>1 DEF Typed
  <2>2. ASSUME NEW k \in Conns
        PROVE  /\ C1[k] \in ConnRecord /\ C1[k].target = s.conn[k].target
               /\ C1[k].owner = s.conn[k].owner
               /\ k \notin K => C1[k] = s.conn[k]
               /\ k \in K => C1[k].st = "CONNECTED"
               /\ C1[k].told = s.conn[k].told \/ C1[k].told = "connected"
    <3>1. CASE k \notin K
      BY <3>1, ConnTypes
    <3>2. CASE k \in K
      <4>1. "CONNECTED" \in ConnStates
        BY DEF ConnStates
      <4>2. C1[k] = [s.conn[k] EXCEPT !.st = "CONNECTED", !.told = Told1(k)]
        BY <3>2
      <4>3. /\ s.conn[k] \in ConnRecord /\ Told1(k) \in {"nothing", "connected", "disconnected"}
            /\ Told1(k) = s.conn[k].told \/ Told1(k) = "connected"
        BY ConnTypes
      <4> DEFINE c == s.conn[k]
                 told == Told1(k)
                 e == C1[k]
      <4>4. /\ e = [c EXCEPT !.st = "CONNECTED", !.told = told] /\ c \in ConnRecord
            /\ told \in {"nothing", "connected", "disconnected"}
        BY <4>2, <4>3
      <4> HIDE DEF C1, Told1, c, told, e
      <4>5. e \in ConnRecord
        BY <4>1, <4>4 DEF ConnRecord
      <4>6. e.target = c.target /\ e.told = told /\ e.st = "CONNECTED" /\ e.owner = c.owner
        BY <4>4 DEF ConnRecord
      <4> QED BY <3>2, <4>3, <4>5, <4>6 DEF c, told, e
    <3> QED BY <3>1, <3>2
  <2>3. C1 \in [Conns -> ConnRecord]
    <3>1. C1 = [k \in Conns |-> C1[k]]
      OBVIOUS
    <3> HIDE DEF C1
    <3> QED BY <2>2, <3>1
  <2> HIDE DEF C1
  <2>4. \A k \in Conns : C1[k].callback /\ C1[k].st = "DISCONNECTED" => C1[k].told = "disconnected"
    BY <1>2, <2>2 DEF Told
  <2>5. \A k \in s.connMap : C1[k].told # "disconnected" /\ C1[k].target \in Records
    BY <1>2, <2>2, ConnTypes DEF Told
  <2>6. Fits([x EXCEPT !.conn = C1, !.queue = s.queue], E)
    BY <1>1, <1>4, <1>5, <2>3, <2>4, <2>5, ConnsFit
  <2>7. /\ p.serviceMap = s.serviceMap /\ p.reqs = s.reqs /\ p.ability = x.ability
        /\ p.cache = s.cache /\ p.connList = s.connList /\ p.connMap = s.connMap
        /\ p.conn = C1 /\ p.queue = s.queue
    BY <1>2, <1>4, <2>1 DEF Typed
  <2>8. \A k \in Conns :
           /\ p.conn[k].target = s.conn[k].target /\ p.conn[k].owner = s.conn[k].owner
           /\ p.conn[k].st = "INIT" => s.conn[k].st = "INIT"
           /\ p.conn[k].st = "DISCONNECTED" => s.conn[k].st = "DISCONNECTED"
    BY <2>2, <2>7
  <2> HIDE DEF p
  <2> QED BY <1>3, <2>1, <2>6, <2>7, <2>8 DEF p, x, Completes
<1>7. CASE ~s.ability[r].remote
  <2> DEFINE Q == s.queue \o D
  <2>1. p = [x EXCEPT !.conn = C2, !.queue = Q]
    <3>1. p = [x EXCEPT
                 !.conn = [k \in Conns |->
                     IF k \in K THEN [@[k] EXCEPT !.st = "DISCONNECTING"] ELSE @[k]],
                 !.queue = @ \o [i \in 1..Cardinality(K) |-> <<"disconnectDone", r>>]]
      BY <1>7 DEF CompleteConnect, x
    <3> QED BY <1>2, <1>4, <3>1 DEF Typed
  <2>2. ASSUME NEW k \in Conns
        PROVE  /\ C2[k] \in ConnRecord /\ C2[k].target = s.conn[k].target
               /\ C2[k].owner = s.conn[k].owner
               /\ k \notin K => C2[k] = s.conn[k]
               /\ k \in K => C2[k].st = "DISCONNECTING"
               /\ C2[k].told = s.conn[k].told
    <3>1. CASE k \notin K
      BY <3>1, ConnTypes
    <3>2. CASE k \in K
      <4>1. ASSUME NEW c \in ConnRecord
            PROVE  /\ [c EXCEPT !.st = "DISCONNECTING"] \in ConnRecord
                   /\ [c EXCEPT !.st = "DISCONNECTING"].st = "DISCONNECTING"
                   /\ [c EXCEPT !.st = "DISCONNECTING"].told = c.told
                   /\ [c EXCEPT !.st = "DISCONNECTING"].target = c.target
                   /\ [c EXCEPT !.st = "DISCONNECTING"].owner = c.owner
        BY DEF ConnRecord, ConnStates
      <4>2. C2[k] = [s.conn[k] EXCEPT !.st = "DISCONNECTING"] /\ s.conn[k] \in ConnRecord
        BY <3>2, ConnTypes
      <4> HIDE DEF C2
      <4> QED BY <3>2, <4>1, <4>2
    <3> QED BY <3>1, <3>2
  <2>3. C2 \in [Conns -> ConnRecord]
    <3>1. C2 = [k \in Conns |-> C2[k]]
      OBVIOUS
    <3> HIDE DEF C2
    <3> QED BY <2>2, <3>1
  <2> HIDE DEF C2
  <2>4. \A k \in Conns : C2[k].callback /\ C2[k].st = "DISCONNECTED" => C2[k].told = "disconnected"
    BY <1>2, <2>2 DEF Told
  <2>5. \A k \in s.connMap : C2[k].told # "disconnected" /\ C2[k].target \in Records
    BY <1>2, <2>2, ConnTypes DEF Told
  <2>6. n \in Nat
    <3>1. IsFiniteSet(Conns)
      BY ConnectConstants, FS_Interval DEF Conns
    <3>2. IsFiniteSet(K)
      BY <3>1, FS_Subset
    <3> QED BY <3>2, FS_CardinalityType
  <2> HIDE DEF n
  <2>7. <<"disconnectDone", r>> \in QueueTasks
    BY DEF QueueTasks
  <2>8. D \in Seq(QueueTasks) /\ DOMAIN D = 1..n /\ \A i \in 1..n : D[i] = <<"disconnectDone", r>>
    BY <2>6, <2>7
  <2> HIDE DEF D
  <2>9. Q \in Seq(QueueTasks)
    BY <1>5, <2>8
  <2>10. \A t \in InCache(Q) : t \in InCache(s.queue) \/ t = <<"disconnectDone", r>>
    <3>1. \A t \in InCache(D) : t = <<"disconnectDone", r>>
      BY <2>8 DEF InCache
    <3> QED BY <1>5, <2>8, <3>1, ConcatMembers
  <2> HIDE DEF Q
  <2>11. Fits([x EXCEPT !.conn = C2, !.queue = Q], E)
    BY <1>1, <1>4, <2>3, <2>4, <2>5, <2>9, <2>10, ConnsFit
  <2>12. /\ p.serviceMap = s.serviceMap /\ p.reqs = s.reqs /\ p.ability = x.ability
         /\ p.cache = s.cache /\ p.connList = s.connList /\ p.connMap = s.connMap
         /\ p.conn = C2 /\ p.queue = Q
    BY <1>2, <1>4, <2>1 DEF Typed
  <2>13. \A k \in Conns :
           /\ p.conn[k].target = s.conn[k].target /\ p.conn[k].owner = s.conn[k].owner
           /\ p.conn[k].st = "INIT" => s.conn[k].st = "INIT"
           /\ p.conn[k].st = "DISCONNECTED" => s.conn[k].st = "DISCONNECTED"
           /\ <<"completeConnect", k>> \in InCache(p.queue)
                 => <<"completeConnect", k>> \in InCache(s.queue)
    BY <2>2, <2>10, <2>12
  <2> HIDE DEF p
  <2> QED BY <1>3, <2>1, <2>11, <2>12, <2>13 DEF p, x, Completes
<1> QED BY <1>6, <1>7

LEMMA DisconnectFits ==
    ASSUME NEW s, NEW E, Fits(s, E), running.task \in E, NEW K \in SUBSET Conns
    PROVE  Fits(DisconnectAbility(s, K), E)
<1> DEFINE only == {k \in K : Cardinality(ConnectList(s, s.conn[k].target)) = 1}
           targets == {s.conn[k].target : k \in only}
           d == CompleteDisconnect(s, K \ only)
           C == [k \in Conns |-> IF k \in only THEN [d.conn[k] EXCEPT !.st = "DISCONNECTING"] ELSE d.conn[k]]
           A == [r \in Records |-> IF r \in targets THEN [d.ability[r] EXCEPT !.isConnected = FALSE]
                                   ELSE d.ability[r]]
           p == [d EXCEPT !.conn = C, !.ability = A]
           T == {<<"disconnectTimeout", k>> : k \in only}
<1>1. DisconnectAbility(s, K) = Schedule(PostDelayed(p, T), targets, "disconnect")
  BY DEF DisconnectAbility
<1>2. Fits(d, E)
  BY CompleteDisconnectFits
<1>3. T \subseteq Delayed /\ \A v : <<"startServiceTimeout", v>> \notin T /\ <<"restartResident", v>> \notin T
  BY DEF Delayed
<1> HIDE DEF d, only, targets
<1>4. Typed(d) /\ Told(d) /\ \A r \in Records : d.ability[r] \in AbilityRecord
  BY <1>2, FitsTypes DEF Fits
<1>5. ASSUME NEW k \in Conns
      PROVE  /\ C[k] \in ConnRecord /\ C[k].told = d.conn[k].told /\ C[k].target = d.conn[k].target
             /\ C[k] = d.conn[k] \/ C[k].st = "DISCONNECTING"
  <2>1. ASSUME NEW c \in ConnRecord
        PROVE  /\ [c EXCEPT !.st = "DISCONNECTING"] \in ConnRecord
               /\ [c EXCEPT !.st = "DISCONNECTING"].st = "DISCONNECTING"
               /\ [c EXCEPT !.st = "DISCONNECTING"].told = c.told
               /\ [c EXCEPT !.st = "DISCONNECTING"].target = c.target
    BY DEF ConnRecord, ConnStates
  <2>2. d.conn[k] \in ConnRecord
    BY <1>2, ConnTypes
  <2>3. C[k] = IF k \in only THEN [d.conn[k] EXCEPT !.st = "DISCONNECTING"] ELSE d.conn[k]
    OBVIOUS
  <2> HIDE DEF C
  <2> QED BY <2>1, <2>2, <2>3
<1>6. ASSUME NEW r \in Records
      PROVE  /\ A[r] \in AbilityRecord /\ A[r].st = d.ability[r].st
             /\ A[r].process = d.ability[r].process
  <2>1. ASSUME NEW a \in AbilityRecord
        PROVE  /\ [a EXCEPT !.isConnected = FALSE] \in AbilityRecord
               /\ [a EXCEPT !.isConnected = FALSE].st = a.st
               /\ [a EXCEPT !.isConnected = FALSE].process = a.process
    BY DEF AbilityRecord
  <2>2. A[r] = IF r \in targets THEN [d.ability[r] EXCEPT !.isConnected = FALSE] ELSE d.ability[r]
    OBVIOUS
  <2> HIDE DEF A
  <2> QED BY <1>4, <2>1, <2>2
<1>7. C \in [Conns -> ConnRecord] /\ A \in [Records -> AbilityRecord]
  <2>1. C = [k \in Conns |-> C[k]] /\ A = [r \in Records |-> A[r]]
    OBVIOUS
  <2> HIDE DEF C, A
  <2> QED BY <1>5, <1>6, <2>1
<1> HIDE DEF C, A
<1>8. /\ p.ability = A /\ p.conn = C /\ p.serviceMap = d.serviceMap
      /\ p.terminating = d.terminating /\ p.cache = d.cache /\ p.connList = d.connList
      /\ p.connMap = d.connMap /\ p.reqs = d.reqs /\ p.timers = d.timers
      /\ p.restartList = d.restartList /\ p.queue = d.queue
  BY <1>4 DEF Typed
<1>9. Typed(p)
  BY <1>4, <1>7 DEF Typed
<1> HIDE DEF p
<1>10. Calm(d, p)
  BY <1>6, <1>8 DEF Calm, Gentle, Mourned
<1>11. Told(p)
  BY <1>4, <1>5, <1>8 DEF Told
<1>12. Fits(p, E)
  BY <1>2, <1>9, <1>10, <1>11, CalmFits
<1>13. Fits(p, E \cup T)
  BY <1>12 DEF Fits, Armed
<1> HIDE DEF T
<1>14. Fits(PostDelayed(p, T), E)
  BY <1>3, <1>13, PostFits
<1>15. "disconnect" \in Messages
  BY DEF Messages
<1> QED BY <1>1, <1>14, <1>15, ScheduleFits

LEMMA AppendMembers ==
    ASSUME NEW S, NEW u \in Seq(S), NEW t \in S
    PROVE  Append(u, t) \in Seq(S) /\ InCache(Append(u, t)) = InCache(u) \cup {t}
<1> DEFINE w == Append(u, t)
<1>1. /\ w \in Seq(S) /\ Len(u) \in Nat /\ DOMAIN u = 1..Len(u) /\ DOMAIN w = 1..(Len(u) + 1)
      /\ w[Len(u) + 1] = t /\ \A i \in 1..Len(u) : w[i] = u[i]
  OBVIOUS
<1> HIDE DEF w
<1>2. InCache(w) \subseteq InCache(u) \cup {t}
  <2> SUFFICES ASSUME NEW i \in 1..(Len(u) + 1) PROVE w[i] \in InCache(u) \cup {t}
    BY <1>1 DEF InCache
  <2>1. i \in 1..Len(u) \/ i = Len(u) + 1
    BY <1>1
  <2> QED BY <1>1, <2>1 DEF InCache
<1>3. InCache(u) \cup {t} \subseteq InCache(w)
  <2>1. Len(u) + 1 \in DOMAIN w /\ 1..Len(u) \subseteq DOMAIN w
    BY <1>1
  <2> QED BY <1>1, <2>1 DEF InCache
<1> QED BY <1>1, <1>2, <1>3 DEF w

\* A task is submitted; a death only of a record whose process does not run.
LEMMA SubmitFits ==
    ASSUME NEW s, NEW E, Fits(s, E), NEW task \in QueueTasks,
           \A r \in Records : task = <<"died", r>> \/ task = <<"handleDied", r>>
                                => s.ability[r].process # "running" /\ s.ability[r].st # "none"
    PROVE  Fits(Submit(s, task), E)
<1> DEFINE p == Submit(s, task)
<1>1. Typed(s) /\ Housed(s) /\ Armed(s, E) /\ Told(s)
  BY DEF Fits
<1>2. /\ p.ability = s.ability /\ p.conn = s.conn /\ p.serviceMap = s.serviceMap
      /\ p.terminating = s.terminating /\ p.cache = s.cache /\ p.connList = s.connList
      /\ p.connMap = s.connMap /\ p.reqs = s.reqs /\ p.timers = s.timers
      /\ p.restartList = s.restartList /\ p.queue = Append(s.queue, task)
  BY <1>1 DEF Typed, Submit
<1>3. s.queue \in Seq(QueueTasks)
  BY <1>1 DEF Typed
<1>4. Append(s.queue, task) \in Seq(QueueTasks) /\ InCache(Append(s.queue, task)) = InCache(s.queue) \cup {task}
  BY <1>3, AppendMembers
<1>5. Typed(p)
  <2>1. p = [s EXCEPT !.queue = p.queue]
    BY <1>1 DEF Typed, Submit
  <2> HIDE DEF p
  <2> QED BY <1>1, <1>2, <1>4, <2>1 DEF Typed
<1> HIDE DEF p
<1>6. Home(p) = Home(s)
  BY <1>2 DEF Home
<1>7. \A r \in Records : Mourned(p, r) =>
         Mourned(s, r) \/ (s.ability[r].process # "running" /\ s.ability[r].st # "none")
  BY <1>2, <1>4 DEF Mourned
<1>8. Housed(p)
  BY <1>1, <1>2, <1>6, <1>7 DEF Housed
<1>9. Armed(p, E) /\ Told(p)
  BY <1>1, <1>2 DEF Armed, Told
<1> QED BY <1>5, <1>8, <1>9 DEF p, Fits

LEMMA ConnectedFits ==
    ASSUME NEW s, NEW E, Fits(s, E), NEW k \in Conns, NEW r \in Records, NEW c \in Callbacks
    PROVE  LET p == Connected(s, k, r, c)
           IN  Fits(p, E) /\ p.ability = s.ability /\ p.serviceMap = s.serviceMap /\ p.queue = s.queue
<1> DEFINE n == [st |-> "CONNECTING", target |-> r, owner |-> c, callback |-> TRUE, told |-> "nothing"]
           C == [s.conn EXCEPT ![k] = n]
           p == Connected(s, k, r, c)
<1>1. Typed(s) /\ Told(s)
  BY DEF Fits
<1>2. n \in ConnRecord /\ n.st = "CONNECTING" /\ n.told = "nothing" /\ n.target = r
  BY DEF ConnRecord, ConnStates
<1>3. /\ p.ability = s.ability /\ p.conn = C /\ p.serviceMap = s.serviceMap
      /\ p.terminating = s.terminating /\ p.cache = s.cache /\ p.connList = s.connList \cup {k}
      /\ p.connMap = s.connMap \cup {k} /\ p.reqs = s.reqs /\ p.timers = s.timers
      /\ p.restartList = s.restartList /\ p.queue = s.queue
  BY <1>1 DEF Typed, Connected
<1>4. p = [s EXCEPT !.conn = p.conn, !.connList = p.connList, !.connMap = p.connMap]
  BY <1>1 DEF Typed, Connected
<1> HIDE DEF n, p
<1>5. C \in [Conns -> ConnRecord] /\ \A j \in Conns : C[j] = IF j = k THEN n ELSE s.conn[j]
  BY <1>2, ConnTypes
<1> HIDE DEF C
<1>6. p.connList \in SUBSET Conns /\ p.connMap \in SUBSET Conns /\ p.connList = p.connMap
  BY <1>3, ConnTypes
<1>7. Typed(p)
  BY <1>1, <1>3, <1>4, <1>5, <1>6 DEF Typed
<1>8. Calm(s, p)
  BY <1>3 DEF Calm, Gentle, Mourned
<1>9. Told(p)
  <2>1. ASSUME NEW j \in Conns
        PROVE  /\ p.conn[j].callback /\ p.conn[j].st = "DISCONNECTED" => p.conn[j].told = "disconnected"
               /\ j \in p.connMap => p.conn[j].told # "disconnected" /\ p.conn[j].target \in Records
    <3>1. CASE j = k
      BY <1>2, <1>3, <1>5, <3>1
    <3>2. CASE j # k
      <4>1. p.conn[j] = s.conn[j] /\ (j \in p.connMap => j \in s.connMap)
        BY <1>3, <1>5, <3>2
      <4> QED BY <1>1, <4>1 DEF Told
    <3> QED BY <3>1, <3>2
  <2> QED BY <1>6, <2>1 DEF Told
<1>10. Fits(p, E)
  BY <1>7, <1>8, <1>9, CalmFits
<1> QED BY <1>3, <1>10 DEF p

LEMMA HandleActiveFits ==
    ASSUME NEW s, NEW E, Fits(s, E), running.task \in E, NEW r \in Records, NEW k \in Conns
    PROVE  Fits(HandleActiveAbility(s, r, k), E)
<1>1. <<"completeConnect", k>> \in QueueTasks
  BY DEF QueueTasks
<1>2. Fits(Submit(s, <<"completeConnect", k>>), E)
  BY <1>1, SubmitFits
<1>3. Fits(ConnectAbility(s, r), E)
  BY ConnectFits
<1> QED BY <1>2, <1>3 DEF HandleActiveAbility

-----------------------------------------------------------------------------
(* What the answers of the extension processes start. *)

\* The state of one record changes.
LEMMA StateFits ==
    ASSUME NEW s, NEW E, Fits(s, E), NEW r \in Records, NEW st \in AbilityStates,
           st = "ACTIVE" \/ (st \in {"INACTIVATING", "INACTIVE"} /\ r \in s.serviceMap)
    PROVE  LET p == [s EXCEPT !.ability[r].st = st]
           IN  /\ Fits(p, E) /\ OnlyAbilities(s, p)
               /\ \A q \in Records : q # r => p.ability[q] = s.ability[q]
<1> DEFINE p == [s EXCEPT !.ability[r].st = st]
           a == [s.ability[r] EXCEPT !.st = st]
<1>1. Typed(s) /\ s.ability \in [Records -> AbilityRecord] /\ s.ability[r] \in AbilityRecord
  BY FitsTypes DEF Fits
<1>2. a \in AbilityRecord
  BY <1>1, AbilityUpdates
<1>3. a.process = s.ability[r].process /\ a.st = st
  BY <1>1 DEF AbilityRecord
<1>4. p = [s EXCEPT !.ability[r] = a]
  BY <1>1 DEF Typed
<1> HIDE DEF a
<1>5. p.ability = [s.ability EXCEPT ![r] = a]
  BY <1>1, <1>4 DEF Typed
<1> HIDE DEF p
<1>6. \A q \in Records : q # r => p.ability[q] = s.ability[q]
  BY <1>1, <1>5
<1>7. Fits(p, E) /\ OnlyAbilities(s, p)
  BY <1>2, <1>3, <1>4, SetAbilityFits
<1> QED BY <1>6, <1>7 DEF p

LEMMA DispatchFits ==
    ASSUME NEW s, NEW E, Fits(s, E), running.task \in E, NEW r \in s.serviceMap
    PROVE  Fits(DispatchInactive(s, r), E)
<1> DEFINE p == [s EXCEPT !.ability[r].st = "INACTIVE"]
<1>1. r \in Records /\ "INACTIVE" \in AbilityStates
  BY FitsTypes DEF AbilityStates
<1>2. Fits(p, E)
  BY <1>1, StateFits
<1>3. DispatchInactive(s, r) = IF s.ability[r].byConnect THEN ConnectAbility(p, r)
                               ELSE IF ConnectList(s, r) = {} THEN CommandAbility(p, r)
                               ELSE ConnectAbility(CommandAbility(p, r), r)
  BY DEF DispatchInactive
<1> HIDE DEF p
<1>4. Fits(CommandAbility(p, r), E)
  BY <1>1, <1>2, CommandFits
<1>5. Fits(ConnectAbility(p, r), E) /\ Fits(ConnectAbility(CommandAbility(p, r), r), E)
  BY <1>1, <1>2, <1>4, ConnectFits
<1> QED BY <1>3, <1>4, <1>5

LEMMA DisconnectDoneFits ==
    ASSUME NEW s, NEW E, Fits(s, E), running.task \in E, NEW r
    PROVE  Fits(DisconnectDone(s, r), E)
<1> DEFINE leaving == InState(s, ConnectList(s, r), "DISCONNECTING")
           k == First(leaving)
           T == {<<"disconnectTimeout", k>>}
           x == CancelTask(s, T)
           done == CompleteDisconnect(x, {k})
<1>1. DisconnectDone(s, r) = IF r \notin s.serviceMap \/ leaving = {} \/ s.ability[r].st # "ACTIVE" THEN s
        ELSE IF ConnectList(done, r) = {} /\ ~s.ability[r].started
        THEN TerminateOrCacheAbility(done, r)
        ELSE done
  BY DEF DisconnectDone
<1>2. Fits(x, E) /\ OnlyTimers(s, x)
  BY CancelConnectionTimers
<1> HIDE DEF x
<1>3. /\ Fits(done, E) /\ done.serviceMap = x.serviceMap
      /\ \A q \in Records : done.ability[q].st = x.ability[q].st
  BY <1>2, CompleteDisconnectFits
<1> HIDE DEF done, k, leaving
<1>4. CASE r \in s.serviceMap /\ s.ability[r].st = "ACTIVE"
  <2>1. r \in Records
    BY <1>4, FitsTypes
  <2>2. r \in done.serviceMap /\ done.ability[r].st = "ACTIVE"
    BY <1>2, <1>3, <1>4, <2>1 DEF OnlyTimers
  <2>3. Fits(TerminateOrCacheAbility(done, r), E)
    BY <1>3, <2>2, TerminateOrCacheFits
  <2> QED BY <1>1, <1>3, <2>3
<1> QED BY <1>1, <1>4

LEMMA CompleteCommandFits ==
    ASSUME NEW s, NEW E, Fits(s, E), running.task \in E, NEW r \in Records,
           s.ability[r].st # "none", s.reqs[ServiceOf[r]] = 0 \/ RoomIn(s, ServiceOf[r])
    PROVE  Fits(CompleteCommandAbility(s, r), E)
<1> DEFINE p == [s EXCEPT !.ability[r].st = "ACTIVE"]
           done == CompleteStartServiceReq(p, ServiceOf[r])
<1>1. "ACTIVE" \in AbilityStates /\ ServiceOf[r] \in Services
  BY ConnectConstants DEF AbilityStates
<1>2. /\ Fits(p, E) /\ OnlyAbilities(s, p)
      /\ \A q \in Records : q # r => p.ability[q] = s.ability[q]
  BY <1>1, StateFits
<1>3. CompleteCommandAbility(s, r) =
        IF ConnectList(done, r) # {} /\ ~done.ability[r].isConnected
        THEN ConnectAbility(done, r) ELSE done
  BY DEF CompleteCommandAbility
<1> HIDE DEF p
<1>4. p.reqs[ServiceOf[r]] = 0 \/ RoomIn(p, ServiceOf[r])
  BY <1>2 DEF OnlyAbilities, RoomIn, Mapped, Free
<1>5. Fits(done, E)
  BY <1>1, <1>2, <1>4, CompleteStartFits
<1> HIDE DEF done
<1>6. Fits(ConnectAbility(done, r), E)
  BY <1>5, ConnectFits
<1> QED BY <1>3, <1>5, <1>6

-----------------------------------------------------------------------------
(* What the tasks of the queue and the timeouts do. *)

LEMMA OnAbilityDiedFits ==
    ASSUME NEW s, NEW E, Fits(s, E), NEW r \in Records,
           s.ability[r].process # "running", s.ability[r].st # "none"
    PROVE  Fits(OnAbilityDied(s, r), E)
<1>1. <<"handleDied", r>> \in QueueTasks
  BY DEF QueueTasks
<1>2. Fits(Submit(s, <<"handleDied", r>>), E)
  BY <1>1, SubmitFits
<1> QED BY <1>2 DEF OnAbilityDied

LEMMA HandleAbilityDiedFits ==
    ASSUME NEW s, NEW E, Fits(s, E), running.task \in E, NEW r \in Records,
           s.ability[r].process # "running", NEW enough \in BOOLEAN, NEW restartNow \in BOOLEAN,
           ServiceOf[r] \in KeepAlive
              => Free(s, ServiceOf[r]) # {} /\ s.reqs[ServiceOf[r]] < MaxReqs
    PROVE  Fits(HandleAbilityDiedTask(s, r, enough, restartNow), E)
<1> DEFINE v == ServiceOf[r]
           list == ConnectList(s, r)
           T == {<<"delayDisconnect", k>> : k \in list}
           x == [s EXCEPT !.ability[r].remote = FALSE]
           y == CancelTask(x, T)
           dropped == CompleteDisconnect(y, list)
           moved == MoveToTerminatingMap(dropped, {r})
           here == r \in s.serviceMap \/ (v \in Cacheable /\ r \in InCache(s.cache))
           removed == IF here THEN RemoveServiceAbility(moved, r) ELSE dropped
<1>1. HandleAbilityDiedTask(s, r, enough, restartNow) =
        IF v \in KeepAlive /\ enough THEN RestartAbility(removed, v, restartNow) ELSE removed
  BY DEF HandleAbilityDiedTask
<1>2. Fits(x, E) /\ OnlyAbilities(s, x)
  BY FlagFits
<1>3. \A q \in Records : x.ability[q].st = s.ability[q].st /\ x.ability[q].process = s.ability[q].process
  <2>1. Typed(s) /\ s.ability \in [Records -> AbilityRecord]
    BY FitsTypes DEF Fits
  <2>2. x.ability = [s.ability EXCEPT ![r] = [s.ability[r] EXCEPT !.remote = FALSE]]
    BY <2>1 DEF Typed
  <2>3. ASSUME NEW a \in AbilityRecord
        PROVE  /\ [a EXCEPT !.remote = FALSE].st = a.st
               /\ [a EXCEPT !.remote = FALSE].process = a.process
    BY DEF AbilityRecord
  <2> HIDE DEF x
  <2> QED BY <2>1, <2>2, <2>3
<1> HIDE DEF x
<1>4. Fits(y, E) /\ OnlyTimers(x, y)
  <2>1. \A task \in T : task[1] \in {"connectTimeout", "disconnectTimeout", "delayDisconnect"}
    OBVIOUS
  <2> HIDE DEF T
  <2> QED BY <1>2, <2>1, CancelConnectionTimers
<1> HIDE DEF y, list
<1>5. /\ Fits(dropped, E) /\ dropped.serviceMap = y.serviceMap
      /\ dropped.cache = y.cache /\ dropped.reqs = y.reqs
      /\ \A q \in Records : /\ dropped.ability[q].st = y.ability[q].st
                            /\ dropped.ability[q].process = y.ability[q].process
  BY <1>4, CompleteDisconnectFits
<1> HIDE DEF dropped
<1>6. /\ dropped.serviceMap = s.serviceMap /\ dropped.cache = s.cache /\ dropped.reqs = s.reqs
      /\ \A q \in Records : /\ dropped.ability[q].st = s.ability[q].st
                            /\ dropped.ability[q].process = s.ability[q].process
  BY <1>2, <1>3, <1>4, <1>5 DEF OnlyAbilities, OnlyTimers
<1>7. /\ Fits(removed, E) /\ removed.reqs = s.reqs
      /\ \A q \in Records : removed.ability[q].st = s.ability[q].st
  <2>1. CASE here
    <3>1. {r} \subseteq dropped.serviceMap \cup InCache(dropped.cache)
      BY <1>6, <2>1
    <3>2. Fits(moved, E) /\ OnlyHomes(dropped, moved)
      BY <1>5, <3>1, MoveFits
    <3> HIDE DEF moved
    <3>3. moved.ability[r].process # "running"
      BY <1>6, <3>2 DEF OnlyHomes
    <3>4. Fits(RemoveServiceAbility(moved, r), E) /\ OnlyHomes(moved, RemoveServiceAbility(moved, r))
      BY <3>2, <3>3, RemoveFits
    <3>5. removed = RemoveServiceAbility(moved, r)
      BY <2>1
    <3> HIDE DEF removed
    <3> QED BY <1>6, <3>2, <3>4, <3>5 DEF OnlyHomes
  <2>2. CASE ~here
    <3>1. removed = dropped
      BY <2>2
    <3> QED BY <1>5, <1>6, <3>1
  <2> QED BY <2>1, <2>2
<1> HIDE DEF removed
<1>8. CASE v \in KeepAlive /\ enough
  <2>1. v \in Services /\ Free(removed, v) # {} /\ removed.reqs[v] < MaxReqs
    BY <1>7, <1>8, ConnectConstants DEF Free
  <2>2. RoomIn(removed, v)
    BY <2>1 DEF RoomIn
  <2> HIDE DEF v
  <2>3. Fits(RestartAbility(removed, v, restartNow), E)
    BY <1>7, <2>1, <2>2, RestartFits
  <2> QED BY <1>1, <1>8, <2>3
<1> QED BY <1>1, <1>7, <1>8

LEMMA HandleCallBackDiedFits ==
    ASSUME NEW s, NEW E, Fits(s, E), running.task \in E, NEW c
    PROVE  Fits(HandleCallBackDiedTask(s, c), E)
<1> DEFINE own == {k \in s.connMap : s.conn[k].owner = c}
           C == [k \in Conns |-> IF k \in own THEN [s.conn[k] EXCEPT !.callback = FALSE] ELSE s.conn[k]]
           x == [s EXCEPT !.conn = C]
           T == {<<"delayDisconnect", k>> : k \in own}
           cleared == CancelTask(x, T)
           normal == InState(s, own, "CONNECTED")
           forced == own \ normal
           left == DisconnectAbility(cleared, normal)
           dropped == CompleteDisconnect(left, forced)
           R == {s.conn[k].target : k \in forced}
<1>1. HandleCallBackDiedTask(s, c) = TerminateUnused(dropped, R)
  BY DEF HandleCallBackDiedTask
<1>2. Typed(s) /\ Told(s)
  BY DEF Fits
<1>3. ASSUME NEW k \in Conns
      PROVE  /\ C[k] \in ConnRecord /\ C[k].told = s.conn[k].told /\ C[k].target = s.conn[k].target
             /\ C[k] = s.conn[k] \/ ~C[k].callback
  <2>1. ASSUME NEW e \in ConnRecord
        PROVE  /\ [e EXCEPT !.callback = FALSE] \in ConnRecord
               /\ [e EXCEPT !.callback = FALSE].told = e.told
               /\ [e EXCEPT !.callback = FALSE].target = e.target
    BY DEF ConnRecord
  <2>2. ASSUME NEW e \in ConnRecord PROVE ~[e EXCEPT !.callback = FALSE].callback
    BY DEF ConnRecord
  <2>3. s.conn[k] \in ConnRecord
    BY ConnTypes
  <2>4. C[k] = IF k \in own THEN [s.conn[k] EXCEPT !.callback = FALSE] ELSE s.conn[k]
    OBVIOUS
  <2> HIDE DEF C, own
  <2>5. CASE k \in own
    BY <2>1, <2>2, <2>3, <2>4, <2>5
  <2>6. CASE k \notin own
    BY <2>3, <2>4, <2>6
  <2> QED BY <2>5, <2>6
<1>4. C \in [Conns -> ConnRecord]
  <2>1. C = [k \in Conns |-> C[k]]
    OBVIOUS
  <2> HIDE DEF C
  <2> QED BY <1>3, <2>1
<1>5. normal \in SUBSET Conns
  BY ConnTypes DEF InState
<1> HIDE DEF C, own, normal, forced, R
<1>6. Fits(x, E)
  <2>1. x = [s EXCEPT !.conn = C, !.queue = s.queue] /\ s.queue \in Seq(QueueTasks)
    BY <1>2 DEF Typed
  <2>2. \A k \in Conns : C[k].callback /\ C[k].st = "DISCONNECTED" => C[k].told = "disconnected"
    BY <1>2, <1>3 DEF Told
  <2>3. \A k \in s.connMap : C[k].told # "disconnected" /\ C[k].target \in Records
    BY <1>2, <1>3, ConnTypes DEF Told
  <2>4. Fits([s EXCEPT !.conn = C, !.queue = s.queue], E)
    BY <1>4, <2>1, <2>2, <2>3, ConnsFit
  <2> QED BY <2>1, <2>4
<1>7. Fits(cleared, E)
  <2>1. \A task \in T : task[1] \in {"connectTimeout", "disconnectTimeout", "delayDisconnect"}
    OBVIOUS
  <2> HIDE DEF T, x
  <2> QED BY <1>6, <2>1, CancelConnectionTimers
<1> HIDE DEF cleared
<1>8. Fits(left, E)
  BY <1>5, <1>7, DisconnectFits
<1> HIDE DEF left
<1>9. Fits(dropped, E)
  BY <1>8, CompleteDisconnectFits
<1> HIDE DEF dropped
<1> QED BY <1>1, <1>9, TerminateRecordFits DEF TerminateUnused

\* The load timeout of a record is not needed when the record is not in the service map.
LEMMA LoadExcused ==
    ASSUME NEW s, NEW E, NEW r, Fits(s, E \cup {<<"loadTimeout", r>>}), r \notin s.serviceMap
    PROVE  Fits(s, E)
<1> DEFINE F == E \cup {<<"loadTimeout", r>>}
<1>1. \A x : /\ <<"terminate", x>> \in F => <<"terminate", x>> \in E
             /\ <<"startServiceTimeout", x>> \in F => <<"startServiceTimeout", x>> \in E
             /\ <<"restartResident", x>> \in F => <<"restartResident", x>> \in E
             /\ <<"loadTimeout", x>> \in F => x = r \/ <<"loadTimeout", x>> \in E
  OBVIOUS
<1>2. Fits(s, F)
  OBVIOUS
<1> HIDE DEF F
<1> QED BY <1>1, <1>2, ExcuseFits

\* The load timeout: the record is removed with its process, and what is started again is
\* another record, so that the timeout that runs is no longer needed.
LEMMA HandleStartTimeoutFits ==
    ASSUME NEW s, NEW E, NEW r \in Records, Fits(s, E \cup {<<"loadTimeout", r>>}),
           running.task \in E \cup {<<"loadTimeout", r>>}, NEW restartNow \in BOOLEAN,
           ServiceOf[r] \in KeepAlive
              => Free(s, ServiceOf[r]) # {} /\ s.reqs[ServiceOf[r]] < MaxReqs
    PROVE  Fits(HandleStartTimeoutTask(s, r, restartNow), E)
<1> DEFINE F == E \cup {<<"loadTimeout", r>>}
           v == ServiceOf[r]
           K == InState(s, ConnectList(s, r), "CONNECTING")
           dropped == CompleteDisconnect(s, K)
           moved == MoveToTerminatingMap(dropped, {r})
           ended == EndProcess(moved, r)
           removed == RemoveServiceAbility(ended, r)
<1>1. /\ Fits(dropped, F) /\ dropped.serviceMap = s.serviceMap /\ dropped.reqs = s.reqs
      /\ dropped.cache = s.cache
      /\ \A q \in Records : dropped.ability[q].st = s.ability[q].st
  BY CompleteDisconnectFits
<1> HIDE DEF K
<1>2. CASE r \notin s.serviceMap
  <2>1. HandleStartTimeoutTask(s, r, restartNow) = dropped
    BY <1>2 DEF HandleStartTimeoutTask, K
  <2> HIDE DEF dropped
  <2> QED BY <1>1, <1>2, <2>1, LoadExcused
<1>3. CASE r \in s.serviceMap
  <2>1. /\ Fits(moved, F) /\ OnlyHomes(dropped, moved) /\ moved.serviceMap = s.serviceMap \ {r}
        /\ InCache(moved.cache) = InCache(s.cache) \ {r}
    <3>1. {r} \subseteq dropped.serviceMap \cup InCache(dropped.cache)
      BY <1>1, <1>3
    <3> HIDE DEF dropped, F
    <3> QED BY <1>1, <3>1, MoveFits
  <2>2. /\ EndProcess(RemoveServiceAbility(moved, r), r) = removed
    <3>1. Typed(moved)
      BY <2>1 DEF Fits
    <3> HIDE DEF moved
    <3> QED BY <3>1 DEF EndProcess, RemoveServiceAbility, Typed
  <2>3. HandleStartTimeoutTask(s, r, restartNow) =
          IF v \in KeepAlive THEN RestartAbility(removed, v, restartNow) ELSE removed
    BY <1>3, <2>2 DEF HandleStartTimeoutTask, K
  <2> HIDE DEF dropped, moved, F
  <2>4. /\ Fits(ended, F) /\ OnlyAbilities(moved, ended) /\ ended.ability[r].process = "none"
        /\ \A q \in Records : ended.ability[q].st = moved.ability[q].st
    BY <2>1, EndProcessFits
  <2> HIDE DEF ended
  <2>5. /\ Fits(removed, F) /\ OnlyHomes(ended, removed)
        /\ removed.serviceMap = ended.serviceMap /\ removed.cache = ended.cache
    BY <2>4, RemoveFits
  <2> HIDE DEF removed
  <2>6. /\ removed.serviceMap = s.serviceMap \ {r} /\ InCache(removed.cache) = InCache(s.cache) \ {r}
        /\ removed.reqs = s.reqs /\ \A q \in Records : removed.ability[q].st = s.ability[q].st
    BY <1>1, <2>1, <2>4, <2>5 DEF OnlyAbilities, OnlyHomes
  <2>7. s.ability[r].st # "none"
    BY <1>3 DEF Fits, Housed, Home
  <2>8. r \notin removed.serviceMap \cup InCache(removed.cache) \cup Free(removed, v)
    BY <2>6, <2>7 DEF Free
  <2>9. Fits(removed, E)
    BY <2>5, <2>8, LoadExcused DEF F
  <2>10. CASE v \in KeepAlive
    <3> DEFINE p == RestartAbility(removed, v, restartNow)
    <3>1. v \in Services /\ Free(removed, v) # {} /\ removed.reqs[v] < MaxReqs
      BY <2>6, <2>10, ConnectConstants DEF Free
    <3>2. RoomIn(removed, v)
      BY <3>1 DEF RoomIn
    <3>3. running.task \in F
      BY DEF F
    <3> HIDE DEF v
    <3>4. /\ Fits(p, F)
          /\ p.serviceMap \subseteq removed.serviceMap \cup InCache(removed.cache) \cup Free(removed, v)
      BY <2>5, <3>1, <3>2, <3>3, RestartFits
    <3> HIDE DEF p
    <3>5. r \notin p.serviceMap
      BY <2>8, <3>4
    <3>6. Fits(p, E)
      BY <3>4, <3>5, LoadExcused DEF F
    <3> QED BY <2>3, <2>10, <3>6 DEF p
  <2>11. CASE v \notin KeepAlive
    BY <2>3, <2>9, <2>11
  <2> QED BY <2>10, <2>11
<1> QED BY <1>2, <1>3

LEMMA HandleConnectTimeoutFits ==
    ASSUME NEW s, NEW E, Fits(s, E), running.task \in E, NEW r, NEW list
    PROVE  Fits(HandleConnectTimeoutTask(s, r, list), E)
<1> DEFINE T == {<<kind, k>> : kind \in {"delayDisconnect", "connectTimeout"}, k \in list}
           x == CancelTask(s, T)
           dropped == CompleteDisconnect(x, list)
<1>1. HandleConnectTimeoutTask(s, r, list) =
        IF s.ability[r].started THEN dropped ELSE TerminateRecord(dropped, {r})
  BY DEF HandleConnectTimeoutTask
<1>2. Fits(x, E)
  <2>1. \A task \in T : task[1] \in {"connectTimeout", "disconnectTimeout", "delayDisconnect"}
    OBVIOUS
  <2> HIDE DEF T
  <2> QED BY <2>1, CancelConnectionTimers
<1> HIDE DEF x
<1>3. Fits(dropped, E)
  BY <1>2, CompleteDisconnectFits
<1> HIDE DEF dropped
<1>4. Fits(TerminateRecord(dropped, {r}), E)
  BY <1>3, TerminateRecordFits
<1> QED BY <1>1, <1>3, <1>4

LEMMA HandleExtensionDisconnectFits ==
    ASSUME NEW s, NEW E, Fits(s, E), running.task \in E, NEW k \in Conns
    PROVE  Fits(HandleExtensionDisconnectTask(s, k), E)
<1>1. {k} \in SUBSET Conns
  OBVIOUS
<1>2. Fits(DisconnectAbility(s, {k}), E)
  BY <1>1, DisconnectFits
<1>3. Fits(CompleteDisconnect(s, {k}), E)
  BY CompleteDisconnectFits
<1>4. CASE s.conn[k].st = "CONNECTED"
  BY <1>2, <1>4 DEF HandleExtensionDisconnectTask
<1>5. CASE s.conn[k].st = "DISCONNECTED"
  BY <1>3, <1>5 DEF HandleExtensionDisconnectTask
<1>6. CASE s.conn[k].st # "CONNECTED" /\ s.conn[k].st # "DISCONNECTED"
  BY <1>6 DEF HandleExtensionDisconnectTask
<1> QED BY <1>4, <1>5, <1>6

-----------------------------------------------------------------------------
(* The end of a handler. *)

\* What is destroyed is in no list, runs no process and has no death to be handled.
LEMMA BecomeInv ==
    ASSUME NEW s, NEW run, Fits(s, {run.task}), RunFits(run), Become(s, run), dead' \subseteq Callbacks
    PROVE  ConnectInv'
<1> DEFINE L == LiveRecords(s, run)
           C == LiveConns(s, run) \cup Tasks(s, run, {"connectTimeout"})
           p == [ability |-> ability', conn |-> conn', serviceMap |-> serviceMap',
                 terminating |-> terminating', cache |-> cache', connList |-> connList',
                 connMap |-> connMap', reqs |-> reqs', restartList |-> restartList',
                 timers |-> timers', queue |-> queue']
<1>1. Typed(s) /\ Housed(s) /\ Armed(s, {run.task}) /\ Told(s)
  BY DEF Fits
<1>2. Home(s) \subseteq L /\ s.connMap \subseteq C
  BY <1>1 DEF Home, LiveRecords, LiveConns, Told
<1>3. \A r \in Records : /\ s.ability[r].process = "running" => r \in L
                         /\ Mourned(s, r) => r \in L
  <2> SUFFICES ASSUME NEW r \in Records
               PROVE  /\ s.ability[r].process = "running" => r \in L
                      /\ Mourned(s, r) => r \in L
    OBVIOUS
  <2>1. s.ability[r].process = "running" => r \in L
    BY DEF LiveRecords
  <2>2. ASSUME NEW t \in InCache(s.queue), t = <<"died", r>> \/ t = <<"handleDied", r>>
        PROVE  r \in L
    <3>1. t[1] \in {"loadTimeout", "terminate", "disconnectDone", "died", "handleDied", "frozen"}
          /\ t[2] = r
      BY <2>2
    <3>2. r \in Tasks(s, run, {"loadTimeout", "terminate", "disconnectDone", "died", "handleDied",
                               "frozen"})
      BY <3>1 DEF Tasks
    <3> QED BY <3>2 DEF LiveRecords
  <2> QED BY <2>1, <2>2 DEF Mourned
<1> HIDE DEF L, C
<1>4. /\ p.ability = [r \in Records |-> IF r \in L THEN s.ability[r] ELSE Blank]
      /\ p.conn = [k \in Conns |-> IF k \in C THEN s.conn[k] ELSE [s.conn[k] EXCEPT !.target = NoRecord]]
      /\ p.serviceMap = s.serviceMap
      /\ p.terminating = s.terminating /\ p.cache = s.cache /\ p.connList = s.connList
      /\ p.connMap = s.connMap /\ p.reqs = s.reqs /\ p.timers = s.timers
      /\ p.restartList = s.restartList /\ p.queue = s.queue
  BY DEF Become, L, C
<1>5. p = [ability |-> p.ability, conn |-> p.conn, serviceMap |-> s.serviceMap,
           terminating |-> s.terminating, cache |-> s.cache, connList |-> s.connList,
           connMap |-> s.connMap, reqs |-> s.reqs, restartList |-> s.restartList,
           timers |-> s.timers, queue |-> s.queue]
  BY DEF Become
<1> HIDE DEF p
<1>6. \A r \in Records : p.ability[r] = IF r \in L THEN s.ability[r] ELSE Blank
  BY <1>4
<1>7. p.ability \in [Records -> AbilityRecord]
  BY <1>4, FitsTypes, BlankTypes
<1>8. ASSUME NEW k \in Conns
      PROVE  /\ p.conn[k] \in ConnRecord /\ p.conn[k].st = s.conn[k].st
             /\ p.conn[k].told = s.conn[k].told
             /\ k \in C => p.conn[k] = s.conn[k]
             /\ p.conn[k].callback => s.conn[k].callback
  <2>1. ASSUME NEW c \in ConnRecord
        PROVE  /\ [c EXCEPT !.target = NoRecord] \in ConnRecord
               /\ [c EXCEPT !.target = NoRecord].st = c.st
               /\ [c EXCEPT !.target = NoRecord].told = c.told
    BY DEF ConnRecord
  <2>2. ASSUME NEW c \in ConnRecord PROVE [c EXCEPT !.target = NoRecord].callback => c.callback
    BY DEF ConnRecord
  <2>3. s.conn[k] \in ConnRecord
    BY ConnTypes
  <2>4. p.conn[k] = IF k \in C THEN s.conn[k] ELSE [s.conn[k] EXCEPT !.target = NoRecord]
    BY <1>4
  <2>5. CASE k \in C
    BY <2>3, <2>4, <2>5
  <2>6. CASE k \notin C
    BY <2>1, <2>2, <2>3, <2>4, <2>6
  <2> QED BY <2>5, <2>6
<1>9. p.conn \in [Conns -> ConnRecord]
  <2>1. p.conn = [k \in Conns |-> p.conn[k]]
    BY <1>4
  <2> QED BY <1>8, <2>1
<1>10. Typed(p)
  BY <1>1, <1>5, <1>7, <1>9 DEF Typed
<1>11. Home(p) = Home(s) /\ (\A r : Mourned(p, r) <=> Mourned(s, r)) /\ Home(s) \subseteq Records
       /\ s.serviceMap \subseteq Home(s) /\ InCache(s.cache) \subseteq Home(s)
       /\ s.terminating \subseteq Home(s)
  BY <1>4, FitsTypes DEF Home, Mourned
<1>12. \A r \in Records :
          /\ p.ability[r].process = "running" => r \in Home(p)
          /\ r \in Home(p) \/ p.ability[r].process # "none" \/ Mourned(p, r)
                => p.ability[r].st # "none"
          /\ Mourned(p, r) => p.ability[r].process # "running"
          /\ r \in InCache(p.cache) => p.ability[r].st = "ACTIVE" /\ ServiceOf[r] \in Cacheable
          /\ r \in p.serviceMap => p.ability[r].st # "TERMINATING"
  <2> SUFFICES ASSUME NEW r \in Records
               PROVE  /\ p.ability[r].process = "running" => r \in Home(p)
                      /\ r \in Home(p) \/ p.ability[r].process # "none" \/ Mourned(p, r)
                            => p.ability[r].st # "none"
                      /\ Mourned(p, r) => p.ability[r].process # "running"
                      /\ r \in InCache(p.cache) => p.ability[r].st = "ACTIVE" /\ ServiceOf[r] \in Cacheable
                      /\ r \in p.serviceMap => p.ability[r].st # "TERMINATING"
    OBVIOUS
  <2>1. CASE r \in L
    BY <1>1, <1>4, <1>6, <1>11, <2>1 DEF Housed
  <2>2. CASE r \notin L
    BY <1>2, <1>3, <1>4, <1>6, <1>11, <2>2, BlankTypes
  <2> QED BY <2>1, <2>2
<1>13. Housed(p)
  BY <1>1, <1>4, <1>12 DEF Housed
<1>14. Armed(p, {run.task})
  BY <1>1, <1>2, <1>4, <1>6, <1>11 DEF Armed
<1>15. Told(p)
  BY <1>1, <1>2, <1>4, <1>8 DEF Told
<1>16. Fits(p, {run.task}) /\ running' = run
  BY <1>10, <1>13, <1>14, <1>15 DEF Fits, Become
<1> QED BY <1>16 DEF ConnectInv, Now, p

-----------------------------------------------------------------------------
(* Requests of clients. *)

LEMMA InvFacts ==
    ASSUME ConnectInv
    PROVE  /\ Fits(Now, {running.task}) /\ RunFits(running) /\ dead \subseteq Callbacks
           /\ running.task \in {running.task}
BY DEF ConnectInv

LEMMA StartInv ==
    ASSUME ConnectInv, NEW v \in Services, StartAbility(v)
    PROVE  ConnectInv'
<1>1. Fits(Now, {running.task}) /\ RunFits(running) /\ dead \subseteq Callbacks
  BY InvFacts
<1>2. RoomIn(Now, v) /\ Now.reqs[v] < MaxReqs
  BY DEF StartAbility, RoomFor, RoomIn, Now
<1>3. Fits(StartAbilityLocked(Now, v), {running.task})
  BY <1>1, <1>2, StartFits
<1>4. Become(StartAbilityLocked(Now, v), running) /\ dead' \subseteq Callbacks
  BY <1>1 DEF StartAbility, Locked
<1> QED BY <1>1, <1>3, <1>4, BecomeInv

LEMMA ConnectActionInv ==
    ASSUME ConnectInv, NEW c \in Callbacks, NEW v \in Services, ConnectAbilityLocked(c, v)
    PROVE  ConnectInv'
<1> DEFINE E == {running.task}
           unused == {k \in Conns : conn[k].st = "INIT"}
           g == GetOrCreateServiceRecord(Now, v, TRUE)
           r == g.r
           k == First(unused)
           s == Connected(g.s, k, r, c)
           p == IF ~g.loaded THEN LoadAbility(s, r)
                ELSE IF s.ability[r].st = "ACTIVE" THEN HandleActiveAbility(s, r, k)
                ELSE s
<1>1. Fits(Now, E) /\ RunFits(running) /\ dead \subseteq Callbacks /\ running.task \in E
  BY InvFacts
<1>2. RoomIn(Now, v)
  BY DEF ConnectAbilityLocked, RoomFor, RoomIn
<1>3. /\ r \in Records /\ g.loaded \in BOOLEAN
      /\ g.loaded => Fits(g.s, E)
      /\ ~g.loaded => Fits(g.s, E \cup {<<"loadTimeout", r>>}) /\ Ready(g.s, r)
  BY <1>1, <1>2, GetFits
<1>4. k \in Conns
  <2>1. unused # {}
    BY DEF ConnectAbilityLocked
  <2>2. unused \in SUBSET Conns
    OBVIOUS
  <2> HIDE DEF unused
  <2> QED BY <2>1, <2>2, FirstIsMember
<1>5. /\ (Become(g.s, running) /\ g.loaded) \/ Become(p, running)
      /\ dead' \subseteq Callbacks
  BY <1>1 DEF ConnectAbilityLocked, Locked
<1> HIDE DEF g, k, r
<1>6. Fits(p, E)
  <2>1. CASE ~g.loaded
    <3>1. /\ Fits(s, E \cup {<<"loadTimeout", r>>}) /\ s.ability = g.s.ability
          /\ s.serviceMap = g.s.serviceMap /\ s.queue = g.s.queue
      BY <1>3, <1>4, <2>1, ConnectedFits
    <3> HIDE DEF s
    <3>2. Ready(s, r)
      BY <1>3, <2>1, <3>1 DEF Ready, Mourned
    <3> HIDE DEF E
    <3>3. Fits(LoadAbility(s, r), E)
      BY <1>1, <1>3, <3>1, <3>2, LoadFits
    <3> QED BY <2>1, <3>3
  <2>2. CASE g.loaded
    <3>1. Fits(s, E)
      BY <1>3, <1>4, <2>2, ConnectedFits
    <3> HIDE DEF s
    <3>2. Fits(HandleActiveAbility(s, r, k), E)
      BY <1>1, <1>3, <1>4, <3>1, HandleActiveFits
    <3> QED BY <2>2, <3>1, <3>2
  <2> QED BY <1>3, <2>1, <2>2
<1> HIDE DEF p
<1>7. CASE Become(p, running)
  BY <1>1, <1>5, <1>6, <1>7, BecomeInv
<1>8. CASE Become(g.s, running) /\ g.loaded
  BY <1>1, <1>3, <1>5, <1>8, BecomeInv
<1> QED BY <1>5, <1>7, <1>8

LEMMA DisconnectActionInv ==
    ASSUME ConnectInv, NEW c \in Callbacks, DisconnectAbilityLocked(c)
    PROVE  ConnectInv'
<1> DEFINE E == {running.task}
           own == {k \in connMap : conn[k].owner = c}
           visited == {k \in own : \A j \in own : j < k => conn[j].st = "CONNECTED"}
           T == {<<"delayDisconnect", k>> : k \in visited}
           x == CancelTask(Now, T)
           K == InState(Now, visited, "CONNECTED")
<1>1. Fits(Now, E) /\ RunFits(running) /\ dead \subseteq Callbacks /\ running.task \in E
  BY InvFacts
<1>2. K \in SUBSET Conns
  <2>1. Now.connMap \subseteq Conns
    BY <1>1, ConnTypes
  <2> QED BY <2>1 DEF InState, Now
<1>3. Become(DisconnectAbility(x, K), running) /\ dead' \subseteq Callbacks
  BY <1>1 DEF DisconnectAbilityLocked, Locked
<1>4. Fits(x, E)
  <2>1. \A task \in T : task[1] \in {"connectTimeout", "disconnectTimeout", "delayDisconnect"}
    OBVIOUS
  <2> HIDE DEF T
  <2> QED BY <1>1, <2>1, CancelConnectionTimers
<1> HIDE DEF x, K
<1>5. Fits(DisconnectAbility(x, K), E)
  BY <1>1, <1>2, <1>4, DisconnectFits
<1> QED BY <1>1, <1>3, <1>5, BecomeInv

\* A record of the cache goes back to the service map before it is stopped.
LEMMA RestoreFits ==
    ASSUME NEW s, NEW E, Fits(s, E), NEW R, R \subseteq InCache(s.cache),
           \A r \in R : Mapped(s, ServiceOf[r]) = {}
    PROVE  Fits([s EXCEPT !.cache = Without(@, R), !.serviceMap = @ \cup R], E)
<1> DEFINE p == [s EXCEPT !.cache = Without(@, R), !.serviceMap = @ \cup R]
<1>1. Typed(s) /\ Housed(s)
  BY DEF Fits
<1>2. /\ s.serviceMap \subseteq Records /\ s.terminating \subseteq Records
      /\ s.cache \in Seq(Records) /\ NoDuplicates(s.cache) /\ InCache(s.cache) \subseteq Records
      /\ Home(s) \subseteq Records
  BY FitsTypes
<1>3. /\ p.serviceMap = s.serviceMap \cup R /\ p.cache = Without(s.cache, R)
      /\ p.terminating = s.terminating /\ OnlyHomes(s, p)
  BY <1>1 DEF Typed, OnlyHomes
<1>4. p.cache \in Seq(Records) /\ NoDuplicates(p.cache) /\ InCache(p.cache) = InCache(s.cache) \ R
  <2> HIDE DEF p
  <2> QED BY <1>2, <1>3, WithoutFacts
<1>5. Typed(p)
  <2>1. p = [s EXCEPT !.serviceMap = p.serviceMap, !.cache = p.cache]
    BY <1>1 DEF Typed
  <2>2. p.serviceMap \in SUBSET Records
    BY <1>2, <1>3
  <2> HIDE DEF p
  <2> QED BY <1>1, <1>4, <2>1, <2>2 DEF Typed
<1> HIDE DEF p
<1>6. Home(p) = Home(s)
  BY <1>3, <1>4 DEF Home
<1>7. /\ p.serviceMap \cap p.terminating = {}
      /\ InCache(p.cache) \cap (p.serviceMap \cup p.terminating) = {}
      /\ \A y, q \in p.serviceMap \cup InCache(p.cache) : ServiceOf[y] = ServiceOf[q] => y = q
  BY <1>1, <1>3, <1>4 DEF Housed
<1>8. \A y \in Home(p) : s.ability[y].st # "none"
  BY <1>1, <1>2, <1>6 DEF Housed
<1>9. \A y \in InCache(p.cache) : s.ability[y].st = "ACTIVE" /\ ServiceOf[y] \in Cacheable
  BY <1>1, <1>2, <1>4 DEF Housed
<1>10. \A y \in p.serviceMap : /\ s.ability[y].st # "TERMINATING"
                               /\ y \in s.serviceMap \/ s.ability[y].st # "INITIAL"
  BY <1>1, <1>2, <1>3 DEF Housed
<1>11. Fits(p, E)
  BY <1>3, <1>4, <1>5, <1>6, <1>7, <1>8, <1>9, <1>10, HomesFit
<1> QED BY <1>11 DEF p

LEMMA StopInv ==
    ASSUME ConnectInv, NEW v \in Services, StopServiceAbilityLocked(v)
    PROVE  ConnectInv'
<1> DEFINE E == {running.task}
           R == {cache[OldestIndex(I)] : I \in {Cached(Now, v)} \ {{}}}
           x == [Now EXCEPT !.cache = Without(@, R), !.serviceMap = @ \cup R]
           found == IF Mapped(Now, v) # {} THEN [s |-> Now, R |-> Mapped(Now, v)]
                    ELSE [s |-> x, R |-> R]
           K == {k \in connList : conn[k].target \in found.R}
           d == CompleteDisconnect(found.s, K)
<1>1. Fits(Now, E) /\ RunFits(running) /\ dead \subseteq Callbacks /\ running.task \in E
  BY InvFacts
<1>2. Become(TerminateRecord(d, found.R), running) /\ dead' \subseteq Callbacks
  BY <1>1 DEF StopServiceAbilityLocked, Locked
<1>3. Fits(found.s, E)
  <2>1. CASE Mapped(Now, v) # {}
    <3>1. found.s = Now
      BY <2>1
    <3> QED BY <1>1, <3>1
  <2>2. CASE Mapped(Now, v) = {}
    <3>1. \A r \in R : r \in InCache(Now.cache) /\ ServiceOf[r] = v
      <4> SUFFICES ASSUME NEW r \in R PROVE r \in InCache(Now.cache) /\ ServiceOf[r] = v
        OBVIOUS
      <4>1. Cached(Now, v) # {} /\ r = cache[OldestIndex(Cached(Now, v))] /\ Now.cache = cache
        BY DEF Now
      <4>2. Cached(Now, v) \in SUBSET Nat
        BY <1>1, FitsTypes DEF Cached
      <4>3. \E m \in Cached(Now, v) : \A j \in Cached(Now, v) : m <= j
        BY <4>1, <4>2, LeastElement
      <4>4. OldestIndex(Cached(Now, v)) \in Cached(Now, v)
        BY <4>3 DEF OldestIndex
      <4> QED BY <4>1, <4>4 DEF Cached, InCache
    <3>2. R \subseteq InCache(Now.cache) /\ \A r \in R : Mapped(Now, ServiceOf[r]) = {}
      BY <2>2, <3>1
    <3> HIDE DEF R
    <3>3. Fits(x, E)
      BY <1>1, <3>2, RestoreFits
    <3>4. found.s = x
      BY <2>2
    <3> QED BY <3>3, <3>4
  <2> QED BY <2>1, <2>2
<1> HIDE DEF found, K
<1>4. Fits(d, E)
  BY <1>3, CompleteDisconnectFits
<1> HIDE DEF d
<1>5. Fits(TerminateRecord(d, found.R), E)
  BY <1>1, <1>4, TerminateRecordFits
<1> QED BY <1>1, <1>2, <1>5, BecomeInv

LEMMA TerminateInv ==
    ASSUME ConnectInv, NEW r \in Records, TerminateAbility(r)
    PROVE  ConnectInv'
<1> DEFINE E == {running.task}
           m == MoveToTerminatingMap(Now, {r})
           d == CompleteDisconnect(m, ConnectList(Now, r))
<1>1. Fits(Now, E) /\ RunFits(running) /\ dead \subseteq Callbacks /\ running.task \in E
  BY InvFacts
<1>2. Become(Terminate(d, {r}), running) /\ dead' \subseteq Callbacks
  BY <1>1 DEF TerminateAbility, Locked
<1>3. {r} \subseteq Now.serviceMap \cup InCache(Now.cache)
  BY DEF TerminateAbility, Now
<1>4. Fits(m, E) /\ m.terminating = Now.terminating \cup {r}
  BY <1>1, <1>3, MoveFits
<1> HIDE DEF m
<1>5. Fits(d, E) /\ d.terminating = m.terminating
  BY <1>4, CompleteDisconnectFits
<1> HIDE DEF d
<1>6. {r} \subseteq d.terminating
  BY <1>4, <1>5
<1>7. Fits(Terminate(d, {r}), E)
  BY <1>1, <1>5, <1>6, TerminateFits
<1> QED BY <1>1, <1>2, <1>7, BecomeInv

-----------------------------------------------------------------------------
(* Answers of extension processes. *)

LEMMA TakenFits ==
    ASSUME ConnectInv, NEW r \in Records, NEW message, Answers(r, message)
    PROVE  /\ Fits(Taken(r), {running.task}) /\ OnlyAbilities(Now, Taken(r))
           /\ \A q \in Records : /\ Taken(r).ability[q].st = ability[q].st
                                 /\ Taken(r).ability[q].process = ability[q].process
           /\ dead' \subseteq Callbacks
<1> DEFINE a == [ability[r] EXCEPT !.inbox = Tail(ability[r].inbox)]
           p == Taken(r)
<1>1. Fits(Now, {running.task}) /\ Now.ability = ability
  BY InvFacts DEF Now
<1>2. ability \in [Records -> AbilityRecord] /\ ability[r] \in AbilityRecord
  BY <1>1, FitsTypes
<1>3. Tail(ability[r].inbox) \in Seq(Messages)
  <2>1. ability[r].inbox \in Seq(Messages) /\ ability[r].inbox # <<>>
    BY <1>2 DEF AbilityRecord, Answers
  <2> QED BY <2>1
<1>4. a \in AbilityRecord
  BY <1>2, <1>3, AbilityUpdates
<1>5. a.st = ability[r].st /\ a.process = ability[r].process
  BY <1>2 DEF AbilityRecord
<1>6. p = [Now EXCEPT !.ability[r] = a]
  BY <1>2 DEF Taken, Now
<1> HIDE DEF a
<1>7. p.ability = [ability EXCEPT ![r] = a]
  BY <1>6 DEF Now
<1> HIDE DEF p
<1>8. Fits(p, {running.task}) /\ OnlyAbilities(Now, p)
  BY <1>1, <1>4, <1>5, <1>6, SetAbilityFits
<1>9. \A q \in Records : p.ability[q].st = ability[q].st /\ p.ability[q].process = ability[q].process
  BY <1>2, <1>5, <1>7
<1>10. dead' \subseteq Callbacks
  BY InvFacts DEF Answers, Locked
<1> QED BY <1>8, <1>9, <1>10 DEF p

LEMMA AttachInv ==
    ASSUME ConnectInv, NEW r \in Records, AttachAbilityThread(r)
    PROVE  ConnectInv'
<1> DEFINE E == {running.task}
           T == {<<"loadTimeout", r>>}
           t == Taken(r)
           x == CancelTask(t, T)
           y == [x EXCEPT !.ability[r].sched = TRUE, !.ability[r].st = "INACTIVATING"]
<1>1. /\ Fits(t, E) /\ OnlyAbilities(Now, t) /\ dead' \subseteq Callbacks
  BY TakenFits DEF AttachAbilityThread
<1>2. RunFits(running)
  BY InvFacts
<1>3. CASE r \notin serviceMap
  <2>1. Become(t, running)
    BY <1>3 DEF AttachAbilityThread
  <2> QED BY <1>1, <1>2, <2>1, BecomeInv
<1>4. CASE r \in serviceMap
  <2>1. Become(Schedule(y, {r}, "inactive"), running)
    BY <1>4 DEF AttachAbilityThread
  <2> HIDE DEF t
  <2>2. Fits(x, E \cup T) /\ OnlyTimers(t, x)
    BY <1>1, CancelFits
  <2>3. r \in x.serviceMap
    BY <1>1, <1>4, <2>2 DEF OnlyAbilities, OnlyTimers, Now
  <2> HIDE DEF x, T
  <2> DEFINE z == [x EXCEPT !.ability[r].sched = TRUE]
  <2>4. Fits(z, E \cup T) /\ OnlyAbilities(x, z)
    BY <2>2, FlagFits
  <2>5. y = [z EXCEPT !.ability[r].st = "INACTIVATING"]
    OBVIOUS
  <2> HIDE DEF z, y
  <2>6. r \in z.serviceMap /\ "INACTIVATING" \in AbilityStates
    BY <2>3, <2>4 DEF OnlyAbilities, AbilityStates
  <2>7. Fits(y, E \cup T)
    BY <2>4, <2>5, <2>6, StateFits
  <2>8. y.ability[r].st # "INITIAL"
    <3>1. Typed(z) /\ z.ability \in [Records -> AbilityRecord]
      BY <2>4, FitsTypes DEF Fits
    <3>2. z.ability[r] \in AbilityRecord
      BY <3>1
    <3>3. y.ability[r].st = "INACTIVATING"
      BY <2>5, <3>1, <3>2 DEF AbilityRecord, Typed
    <3> QED BY <3>3
  <2>9. Fits(y, E)
    <3>1. \A w : /\ <<"terminate", w>> \notin T /\ <<"startServiceTimeout", w>> \notin T
                 /\ <<"restartResident", w>> \notin T
                 /\ <<"loadTimeout", w>> \in T => w = r
      BY DEF T
    <3> HIDE DEF E
    <3> QED BY <2>7, <2>8, <3>1, ExcuseFits
  <2>10. "inactive" \in Messages
    BY DEF Messages
  <2>11. Fits(Schedule(y, {r}, "inactive"), E)
    BY <2>9, <2>10, ScheduleFits
  <2> QED BY <1>1, <1>2, <2>1, <2>11, BecomeInv
<1> QED BY <1>3, <1>4

LEMMA InactiveInv ==
    ASSUME ConnectInv, NEW r \in Records, InactiveDone(r)
    PROVE  ConnectInv'
<1> DEFINE E == {running.task}
           t == Taken(r)
           p == IF r \in serviceMap /\ ability[r].st = "INACTIVATING" THEN DispatchInactive(t, r) ELSE t
<1>1. Fits(t, E) /\ OnlyAbilities(Now, t) /\ dead' \subseteq Callbacks
  BY TakenFits DEF InactiveDone
<1>2. RunFits(running) /\ running.task \in E
  BY InvFacts
<1>3. Become(p, running)
  BY DEF InactiveDone
<1> HIDE DEF t
<1>4. Fits(p, E)
  <2>1. r \in serviceMap => r \in t.serviceMap
    BY <1>1 DEF OnlyAbilities, Now
  <2>2. r \in serviceMap => Fits(DispatchInactive(t, r), E)
    BY <1>1, <1>2, <2>1, DispatchFits
  <2> QED BY <1>1, <2>2
<1> QED BY <1>1, <1>2, <1>3, <1>4, BecomeInv

LEMMA ConnectDoneInv ==
    ASSUME ConnectInv, NEW r \in Records, NEW remote \in BOOLEAN,
           ScheduleConnectAbilityDone(r, remote)
    PROVE  ConnectInv'
<1> DEFINE E == {running.task}
           v == ServiceOf[r]
           list == ConnectList(Now, r)
           K == InState(Now, list, "CONNECTING")
           t == Taken(r)
           set == [t EXCEPT !.ability[r].remote = remote]
           T == {<<"connectTimeout", k>> : k \in K}
           x == CancelTask(set, T)
           done == CompleteConnect(x, r, K)
           auto == IF v \in AutoDisconnect THEN {<<"delayDisconnect", k>> : k \in list} ELSE {}
           y == PostDelayed(done, auto)
           p == IF ability[r].st \in {"INACTIVE", "ACTIVE"} THEN CompleteStartServiceReq(y, v) ELSE t
<1>1. /\ Fits(t, E) /\ OnlyAbilities(Now, t) /\ dead' \subseteq Callbacks
      /\ \A q \in Records : t.ability[q].st = ability[q].st
  BY TakenFits DEF ScheduleConnectAbilityDone
<1>2. RunFits(running) /\ running.task \in E /\ v \in Services
  BY InvFacts, ConnectConstants
<1>3. Become(p, running) /\ (reqs[v] = 0 \/ RoomFor(v))
  BY DEF ScheduleConnectAbilityDone
<1>4. list \in SUBSET Conns /\ K \in SUBSET Conns
  <2>1. Now.connList \subseteq Conns
    BY InvFacts DEF Fits, Typed
  <2> QED BY <2>1 DEF ConnectList, InState
<1>5. auto \subseteq Delayed
      /\ \A w : <<"startServiceTimeout", w>> \notin auto /\ <<"restartResident", w>> \notin auto
  BY <1>4 DEF Delayed
<1>6. \A task \in T : task[1] \in {"connectTimeout", "disconnectTimeout", "delayDisconnect"}
  OBVIOUS
<1> HIDE DEF t, T, auto, list, K, v
<1>7. Fits(set, E) /\ OnlyAbilities(t, set)
  BY <1>1, FlagFits
<1>8. \A q \in Records : q # r => set.ability[q] = t.ability[q]
  <2>1. Typed(t) /\ t.ability \in [Records -> AbilityRecord]
    BY <1>1, FitsTypes DEF Fits
  <2>2. set.ability = [t.ability EXCEPT ![r].remote = remote]
    BY <2>1 DEF Typed
  <2> HIDE DEF set
  <2> QED BY <2>1, <2>2
<1> HIDE DEF set
<1>9. Fits(x, E) /\ OnlyTimers(set, x)
  BY <1>6, <1>7, CancelConnectionTimers
<1> HIDE DEF x
<1>10. /\ Fits(done, E) /\ done.serviceMap = x.serviceMap /\ done.reqs = x.reqs
       /\ \A q \in Records : q # r => done.ability[q] = x.ability[q]
  BY <1>4, <1>9, CompleteConnectFits
<1> HIDE DEF done
<1>11. Fits(y, E) /\ OnlyTimers(done, y)
  <2>1. Fits(done, E \cup auto)
    BY <1>10 DEF Fits, Armed
  <2> HIDE DEF E
  <2> QED BY <1>2, <1>5, <2>1, PostFits
<1> HIDE DEF y
<1>12. /\ y.serviceMap = serviceMap /\ y.reqs = reqs
       /\ \A q \in Records : q # r => y.ability[q].st = ability[q].st
  BY <1>1, <1>7, <1>8, <1>9, <1>10, <1>11 DEF OnlyAbilities, OnlyTimers, Now
<1>13. Fits(p, E)
  <2>1. CASE ability[r].st \in {"INACTIVE", "ACTIVE"}
    <3>1. RoomFor(v) => RoomIn(y, v)
      BY <1>12, <2>1 DEF RoomFor, RoomIn, Mapped, Free, Now
    <3>2. y.reqs[v] = 0 \/ RoomIn(y, v)
      BY <1>3, <1>12, <3>1
    <3>3. Fits(CompleteStartServiceReq(y, v), E)
      BY <1>2, <1>11, <3>2, CompleteStartFits
    <3> QED BY <2>1, <3>3
  <2>2. CASE ability[r].st \notin {"INACTIVE", "ACTIVE"}
    BY <1>1, <2>2
  <2> QED BY <2>1, <2>2
<1> HIDE DEF p
<1> QED BY <1>1, <1>2, <1>3, <1>13, BecomeInv

LEMMA DisconnectDoneInv ==
    ASSUME ConnectInv, NEW r \in Records, ScheduleDisconnectAbilityDone(r)
    PROVE  ConnectInv'
<1> DEFINE E == {running.task}
           t == Taken(r)
<1>1. Fits(t, E) /\ dead' \subseteq Callbacks
  BY TakenFits DEF ScheduleDisconnectAbilityDone
<1>2. RunFits(running) /\ running.task \in E
  BY InvFacts
<1>3. Become(DisconnectDone(t, r), running)
  BY DEF ScheduleDisconnectAbilityDone
<1> HIDE DEF t
<1>4. Fits(DisconnectDone(t, r), E)
  BY <1>1, <1>2, DisconnectDoneFits
<1> QED BY <1>1, <1>2, <1>3, <1>4, BecomeInv

LEMMA CommandDoneInv ==
    ASSUME ConnectInv, NEW r \in Records, ScheduleCommandAbilityDone(r)
    PROVE  ConnectInv'
<1> DEFINE E == {running.task}
           v == ServiceOf[r]
           t == Taken(r)
           p == IF ability[r].st \in {"INACTIVE", "ACTIVE"} THEN CompleteCommandAbility(t, r) ELSE t
<1>1. /\ Fits(t, E) /\ OnlyAbilities(Now, t) /\ dead' \subseteq Callbacks
      /\ \A q \in Records : t.ability[q].st = ability[q].st
  BY TakenFits DEF ScheduleCommandAbilityDone
<1>2. RunFits(running) /\ running.task \in E
  BY InvFacts
<1>3. Become(p, running) /\ (reqs[v] = 0 \/ RoomFor(v))
  BY DEF ScheduleCommandAbilityDone
<1> HIDE DEF t
<1>4. t.reqs[v] = 0 \/ RoomIn(t, v)
  BY <1>1, <1>3 DEF RoomFor, RoomIn, Mapped, Free, Now, OnlyAbilities
<1>5. Fits(p, E)
  <2>1. CASE ability[r].st \in {"INACTIVE", "ACTIVE"}
    <3>1. t.ability[r].st # "none"
      BY <1>1, <2>1
    <3>2. Fits(CompleteCommandAbility(t, r), E)
      BY <1>1, <1>2, <1>4, <3>1, CompleteCommandFits
    <3> QED BY <2>1, <3>2
  <2>2. CASE ability[r].st \notin {"INACTIVE", "ACTIVE"}
    BY <1>1, <2>2
  <2> QED BY <2>1, <2>2
<1> HIDE DEF p
<1> QED BY <1>1, <1>2, <1>3, <1>5, BecomeInv

LEMMA TerminateAnswerInv ==
    ASSUME ConnectInv, NEW r \in Records, TerminateAnswer(r)
    PROVE  ConnectInv'
<1> DEFINE E == {running.task}
           T == {<<"terminate", r>>}
           t == Taken(r)
           p == IF r \in terminating THEN TerminateDone(CancelTask(t, T), r) ELSE t
<1>1. Fits(t, E) /\ dead' \subseteq Callbacks
  BY TakenFits DEF TerminateAnswer
<1>2. RunFits(running)
  BY InvFacts
<1>3. Become(p, running)
  BY DEF TerminateAnswer
<1> HIDE DEF t
<1>4. Fits(CancelTask(t, T), E \cup T)
  BY <1>1, CancelFits
<1>5. Fits(TerminateDone(CancelTask(t, T), r), E)
  BY <1>4, TerminateDoneFits
<1>6. Fits(p, E)
  BY <1>1, <1>5
<1> HIDE DEF p
<1> QED BY <1>1, <1>2, <1>3, <1>6, BecomeInv

-----------------------------------------------------------------------------
(* Deaths. *)

LEMMA ProcessDiesInv ==
    ASSUME ConnectInv, NEW r \in Records, ProcessDies(r)
    PROVE  ConnectInv'
<1> DEFINE E == {running.task}
           a == [ability[r] EXCEPT !.process = "dying", !.inbox = <<>>]
           p == [Now EXCEPT !.ability[r].process = "dying", !.ability[r].inbox = <<>>]
<1>1. Fits(Now, E) /\ RunFits(running) /\ dead' \subseteq Callbacks /\ Now.ability = ability
  BY InvFacts DEF ProcessDies, Now
<1>2. ability \in [Records -> AbilityRecord] /\ ability[r] \in AbilityRecord
  BY <1>1, FitsTypes
<1>3. Fits(p, E)
  <2>1. <<>> \in Seq(Messages)
    OBVIOUS
  <2>2. a \in AbilityRecord
    BY <1>2, <2>1, AbilityUpdates
  <2>3. a.st = ability[r].st /\ a.process = "dying" /\ ability[r].process = "running"
    BY <1>2 DEF AbilityRecord, ProcessDies
  <2>4. p = [Now EXCEPT !.ability[r] = a]
    BY <1>2, ZenonT(60) DEF Now
  <2> HIDE DEF a, p
  <2> QED BY <1>1, <2>2, <2>3, <2>4, SetAbilityFits
<1>4. Fits(EndProcess(Now, r), E)
  BY <1>1, EndProcessFits
<1>5. Become(p, running) \/ Become(EndProcess(Now, r), running)
  BY DEF ProcessDies
<1> HIDE DEF p
<1> QED BY <1>1, <1>3, <1>4, <1>5, BecomeInv

LEMMA SchedulerDiedInv ==
    ASSUME ConnectInv, NEW r \in Records, OnSchedulerDied(r)
    PROVE  ConnectInv'
<1> DEFINE E == {running.task}
           x == EndProcess(Now, r)
           y == [x EXCEPT !.ability[r].sched = FALSE]
<1>1. Fits(Now, E) /\ RunFits(running) /\ dead' \subseteq Callbacks /\ Now.ability = ability
  BY InvFacts DEF OnSchedulerDied, Now
<1>2. ability[r].st # "none" /\ Become(Submit(y, <<"died", r>>), running)
  BY <1>1 DEF OnSchedulerDied, Fits, Housed
<1>3. /\ Fits(x, E) /\ x.ability[r].process = "none"
      /\ \A q \in Records : x.ability[q].st = ability[q].st
  BY <1>1, EndProcessFits
<1> HIDE DEF x
<1>4. Fits(y, E)
  BY <1>3, FlagFits
<1>5. y.ability[r].process = "none" /\ y.ability[r].st = ability[r].st
  <2>1. Typed(x) /\ x.ability \in [Records -> AbilityRecord] /\ x.ability[r] \in AbilityRecord
    BY <1>3, FitsTypes DEF Fits
  <2>2. y.ability[r] = [x.ability[r] EXCEPT !.sched = FALSE]
    BY <2>1 DEF Typed
  <2> HIDE DEF y
  <2>3. y.ability[r].process = x.ability[r].process /\ y.ability[r].st = x.ability[r].st
    BY <2>1, <2>2 DEF AbilityRecord
  <2> QED BY <1>3, <2>3
<1> HIDE DEF y
<1>6. <<"died", r>> \in QueueTasks
  BY DEF QueueTasks
<1>7. Fits(Submit(y, <<"died", r>>), E)
  BY <1>2, <1>4, <1>5, <1>6, SubmitFits
<1> QED BY <1>1, <1>2, <1>7, BecomeInv

LEMMA CallBackDiedInv ==
    ASSUME ConnectInv, NEW c \in Callbacks, OnCallBackDied(c)
    PROVE  ConnectInv'
<1> DEFINE E == {running.task}
           p == IF \E k \in connMap : conn[k].owner = c THEN Submit(Now, <<"callbackDied", c>>) ELSE Now
<1>1. Fits(Now, E) /\ RunFits(running) /\ dead' \subseteq Callbacks
  BY InvFacts DEF OnCallBackDied
<1>2. Become(p, running)
  BY DEF OnCallBackDied
<1>3. <<"callbackDied", c>> \in QueueTasks
  BY DEF QueueTasks
<1>4. Fits(Submit(Now, <<"callbackDied", c>>), E)
  BY <1>1, <1>3, SubmitFits
<1>5. Fits(p, E)
  BY <1>1, <1>4
<1> HIDE DEF p
<1> QED BY <1>1, <1>2, <1>5, BecomeInv

LEMMA FrozenInv ==
    ASSUME ConnectInv, NEW r \in Records, HandleProcessFrozen(r)
    PROVE  ConnectInv'
<1>1. Fits(Now, {running.task}) /\ RunFits(running) /\ dead' \subseteq Callbacks
  BY InvFacts DEF HandleProcessFrozen
<1>2. <<"frozen", r>> \in QueueTasks
  BY DEF QueueTasks
<1>3. Fits(Submit(Now, <<"frozen", r>>), {running.task})
  BY <1>1, <1>2, SubmitFits
<1>4. Become(Submit(Now, <<"frozen", r>>), running)
  BY DEF HandleProcessFrozen
<1> QED BY <1>1, <1>3, <1>4, BecomeInv

\* What KillProcess leaves behind.
Killed(b) ==
    LET killed == {r \in Records : BundleOf[TokenOf[r]] = b /\ ability[r].process = "running"}
    IN  [Now EXCEPT
           !.ability = [r \in Records |->
               IF r \in killed THEN [@[r] EXCEPT !.process = "dying", !.inbox = <<>>] ELSE @[r]],
           !.serviceMap = {r \in @ : BundleOf[TokenOf[r]] = b => ServiceOf[r] \in KeepAlive},
           !.cache = Without(@, {x \in Records : BundleOf[TokenOf[x]] = b})]

\* The records of the killed bundle that are forgotten have no running process any more.
LEMMA KillFits ==
    ASSUME ConnectInv, NEW b \in Bundles
    PROVE  Fits(Killed(b), {running.task})
<1> DEFINE E == {running.task}
           killed == {r \in Records : BundleOf[TokenOf[r]] = b /\ ability[r].process = "running"}
           D(r) == [ability[r] EXCEPT !.process = "dying", !.inbox = <<>>]
           A == [r \in Records |-> IF r \in killed THEN D(r) ELSE ability[r]]
           M == {r \in serviceMap : BundleOf[TokenOf[r]] = b => ServiceOf[r] \in KeepAlive}
           B == {x \in Records : BundleOf[TokenOf[x]] = b}
           x == [Now EXCEPT !.ability = A]
           p == [x EXCEPT !.serviceMap = M, !.cache = Without(cache, B)]
<1>1. Fits(Now, E) /\ Now.ability = ability
      /\ Now.serviceMap = serviceMap /\ Now.cache = cache /\ Now.terminating = terminating
  BY InvFacts DEF Now
<1>2. ability \in [Records -> AbilityRecord] /\ \A r \in Records : ability[r] \in AbilityRecord
  BY <1>1, FitsTypes
<1>3. p = Killed(b)
  BY DEF Killed, Now
<1>4. \A r \in Records : /\ D(r) \in AbilityRecord
                         /\ D(r).st = ability[r].st /\ D(r).process = "dying"
  <2>1. <<>> \in Seq(Messages)
    OBVIOUS
  <2>2. ASSUME NEW r \in Records PROVE D(r) \in AbilityRecord
    BY <1>2, <2>1, AbilityUpdates
  <2>3. ASSUME NEW r \in Records PROVE D(r).st = ability[r].st /\ D(r).process = "dying"
    <3>1. ability[r] \in AbilityRecord
      BY <1>2
    <3> QED BY <3>1 DEF AbilityRecord
  <2> QED BY <2>2, <2>3
<1> HIDE DEF D
<1>5. A \in [Records -> AbilityRecord] /\ \A r \in Records : A[r] = IF r \in killed THEN D(r) ELSE ability[r]
  BY <1>2, <1>4
<1> HIDE DEF A
<1>6. Typed(x) /\ OnlyAbilities(Now, x) /\ x.ability = A
  <2>1. Typed(Now)
    BY <1>1 DEF Fits
  <2> QED BY <1>5, <2>1 DEF Typed, OnlyAbilities
<1> HIDE DEF x
<1>7. Gentle(Now, x)
  BY <1>1, <1>4, <1>5, <1>6 DEF Gentle
<1>8. Fits(x, E)
  BY <1>1, <1>6, <1>7, GentleFits
<1>9. Typed(x) /\ Housed(x)
  BY <1>8 DEF Fits
<1>10. /\ x.serviceMap = serviceMap /\ x.cache = cache /\ x.terminating = terminating
       /\ serviceMap \subseteq Records /\ cache \in Seq(Records) /\ NoDuplicates(cache)
       /\ InCache(cache) \subseteq Records /\ Home(x) \subseteq Records
  BY <1>1, <1>6, <1>8, FitsTypes DEF OnlyAbilities
<1>11. /\ p.serviceMap = M /\ p.cache = Without(cache, B)
       /\ p.terminating = terminating /\ OnlyHomes(x, p)
  BY <1>9, <1>10 DEF Typed, OnlyHomes
<1>12. p.cache \in Seq(Records) /\ NoDuplicates(p.cache) /\ InCache(p.cache) = InCache(cache) \ B
  <2> HIDE DEF p, B
  <2> QED BY <1>10, <1>11, WithoutFacts
<1>13. Typed(p)
  <2>1. p = [x EXCEPT !.serviceMap = p.serviceMap, !.cache = p.cache]
    BY <1>9 DEF Typed
  <2>2. p.serviceMap \in SUBSET Records
    BY <1>10, <1>11
  <2> HIDE DEF p
  <2> QED BY <1>9, <1>12, <2>1, <2>2 DEF Typed
<1> HIDE DEF p
<1>14. p.serviceMap \subseteq serviceMap /\ InCache(p.cache) \subseteq InCache(cache)
       /\ Home(p) \subseteq Home(x)
  BY <1>10, <1>11, <1>12 DEF Home
<1>15. \A r \in Records : x.ability[r].process = "running" /\ r \in Home(x) => r \in Home(p)
  <2> SUFFICES ASSUME NEW r \in Records, x.ability[r].process = "running", r \in Home(x)
               PROVE  r \in Home(p)
    OBVIOUS
  <2>1. BundleOf[TokenOf[r]] # b
    BY <1>4, <1>5, <1>6
  <2> QED BY <1>10, <1>11, <1>12, <2>1 DEF Home
<1>16. \A y \in Home(p) : x.ability[y].st # "none"
  BY <1>9, <1>10, <1>14 DEF Housed
<1>17. \A y \in InCache(p.cache) : x.ability[y].st = "ACTIVE" /\ ServiceOf[y] \in Cacheable
  BY <1>9, <1>10, <1>14 DEF Housed
<1>18. \A y \in p.serviceMap : x.ability[y].st # "TERMINATING" /\ y \in x.serviceMap
  BY <1>9, <1>10, <1>14 DEF Housed
<1>19. /\ p.serviceMap \cap p.terminating = {}
       /\ InCache(p.cache) \cap (p.serviceMap \cup p.terminating) = {}
       /\ \A y, q \in p.serviceMap \cup InCache(p.cache) : ServiceOf[y] = ServiceOf[q] => y = q
  BY <1>9, <1>10, <1>11, <1>14 DEF Housed
<1>20. p.terminating = x.terminating
  BY <1>10, <1>11
<1> HIDE DEF E
<1>21. Fits(p, E)
  BY <1>8, <1>11, <1>12, <1>13, <1>15, <1>16, <1>17, <1>18, <1>19, <1>20, HomesFit
<1> QED BY <1>3, <1>21 DEF E

LEMMA KillInv ==
    ASSUME ConnectInv, NEW b \in Bundles, KillProcess(b)
    PROVE  ConnectInv'
<1>1. RunFits(running) /\ dead' \subseteq Callbacks
  BY InvFacts DEF KillProcess
<1>2. Become(Killed(b), running)
  BY DEF KillProcess, Killed
<1> QED BY <1>1, <1>2, KillFits, BecomeInv

-----------------------------------------------------------------------------
(* The task queue. *)

LEMMA QueueTaskIds ==
    ASSUME NEW task \in QueueTasks
    PROVE  /\ task = <<task[1], task[2]>>
           /\ task[1] = "completeConnect" => task[2] \in Conns
           /\ task[1] \in {"died", "handleDied", "frozen"} => task[2] \in Records
           /\ task[1] = "disconnectDone" => task[2] \in Records \cup {NoRecord}
           /\ task[1] = "callbackDied" => task[2] \in Callbacks
BY DEF QueueTasks

\* The worker takes the first task.
LEMMA TailFits ==
    ASSUME ConnectInv, queue # <<>>
    PROVE  /\ Fits([Now EXCEPT !.queue = Tail(@)], {running.task})
           /\ Head(queue) \in QueueTasks /\ Head(queue) \in InCache(queue)
<1> DEFINE Q == Tail(queue)
<1>1. Fits(Now, {running.task}) /\ Now.queue = queue /\ Now.conn = conn /\ Now.connMap = connMap
  BY InvFacts DEF Now
<1>2. queue \in Seq(QueueTasks) /\ conn \in [Conns -> ConnRecord] /\ Told(Now)
  BY <1>1 DEF Fits, Typed
<1>3. /\ Len(queue) \in Nat /\ Len(queue) > 0 /\ DOMAIN queue = 1..Len(queue)
      /\ Q \in Seq(QueueTasks) /\ Head(queue) = queue[1] /\ DOMAIN Q = 1..(Len(queue) - 1)
      /\ \A i \in 1..(Len(queue) - 1) : Q[i] = queue[i + 1]
  BY <1>2
<1> HIDE DEF Q
<1>4. 1 \in DOMAIN queue /\ \A i \in 1..(Len(queue) - 1) : i + 1 \in DOMAIN queue
  BY <1>3
<1>5. InCache(Q) \subseteq InCache(queue)
  BY <1>3, <1>4 DEF InCache
<1>6. [Now EXCEPT !.queue = Tail(@)] = [Now EXCEPT !.conn = conn, !.queue = Q]
  <2>1. Typed(Now)
    BY <1>1 DEF Fits
  <2> QED BY <1>1, <2>1 DEF Typed, Q
<1>7. Fits([Now EXCEPT !.conn = conn, !.queue = Q], {running.task})
  <2>1. \A k \in Conns : conn[k].callback /\ conn[k].st = "DISCONNECTED" => conn[k].told = "disconnected"
    BY <1>1, <1>2 DEF Told
  <2>2. \A k \in Now.connMap : conn[k].told # "disconnected" /\ conn[k].target \in Records
    BY <1>1, <1>2, ConnTypes DEF Told
  <2> QED BY <1>1, <1>2, <1>3, <1>5, <2>1, <2>2, ConnsFit, ZenonT(60)
<1>8. Head(queue) \in InCache(queue) /\ Head(queue) \in QueueTasks
  BY <1>2, <1>3, <1>4 DEF InCache
<1> QED BY <1>6, <1>7, <1>8

LEMMA RunTaskInv ==
    ASSUME ConnectInv, RunTask
    PROVE  ConnectInv'
<1> DEFINE E == {running.task}
           s == [Now EXCEPT !.queue = Tail(@)]
           task == Head(queue)
           id == task[2]
<1>1. Fits(Now, E) /\ RunFits(Idle) /\ dead' \subseteq Callbacks /\ running = Idle /\ queue # <<>>
      /\ running.task \in E
  BY InvFacts DEF RunTask
<1>2. Fits(s, E) /\ task \in QueueTasks /\ task \in InCache(queue)
  BY <1>1, TailFits
<1>3. s.ability = ability /\ s.conn = conn /\ s.reqs = reqs
  BY DEF Now
<1>4. \/ task[1] = "completeConnect" /\ Become(CompleteConnect(s, conn[id].target, {id}), Idle)
      \/ task[1] = "disconnectDone" /\ Become(DisconnectDone(s, id), Idle)
      \/ task[1] = "died" /\ Become(OnAbilityDied(s, id), Idle)
      \/ /\ task[1] = "handleDied" /\ RoomToRestart(ServiceOf[id])
         /\ \E enough, restartNow \in BOOLEAN :
               Become(HandleAbilityDiedTask(s, id, enough, restartNow), Idle)
      \/ task[1] = "callbackDied" /\ Become(HandleCallBackDiedTask(s, id), Idle)
      \/ task[1] = "frozen" /\ Become(TerminateRecord(s, {id}), Idle)
  BY DEF RunTask
<1> HIDE DEF s, task
<1>5. /\ task = <<task[1], id>>
      /\ task[1] = "completeConnect" => id \in Conns
      /\ task[1] \in {"died", "handleDied", "frozen"} => id \in Records
  BY <1>2, QueueTaskIds
<1>6. task[1] \in {"died", "handleDied"} => ability[id].process # "running" /\ ability[id].st # "none"
  <2>1. Now.queue = queue /\ Now.ability = ability
    BY DEF Now
  <2>2. task[1] \in {"died", "handleDied"} => Mourned(Now, id)
    BY <1>2, <1>5, <2>1 DEF Mourned
  <2> QED BY <1>1, <1>5, <2>1, <2>2 DEF Fits, Housed
<1> HIDE DEF id
<1>7. ASSUME NEW p, Fits(p, E), Become(p, Idle) PROVE ConnectInv'
  <2>1. Fits(p, {Idle.task})
    BY <1>1, <1>7
  <2> QED BY <1>1, <1>7, <2>1, BecomeInv
<1>8. CASE task[1] = "completeConnect" /\ Become(CompleteConnect(s, conn[id].target, {id}), Idle)
  <2>1. conn[id].target \in Records \cup {NoRecord} /\ {id} \in SUBSET Conns
    BY <1>2, <1>3, <1>5, <1>8, ConnTypes
  <2>2. Fits(CompleteConnect(s, conn[id].target, {id}), E)
    BY <1>2, <2>1, CompleteConnectFits
  <2> QED BY <1>7, <1>8, <2>2
<1>9. CASE task[1] = "disconnectDone" /\ Become(DisconnectDone(s, id), Idle)
  <2>1. Fits(DisconnectDone(s, id), E)
    BY <1>1, <1>2, DisconnectDoneFits
  <2> QED BY <1>7, <1>9, <2>1
<1>10. CASE task[1] = "died" /\ Become(OnAbilityDied(s, id), Idle)
  <2>1. Fits(OnAbilityDied(s, id), E)
    BY <1>2, <1>3, <1>5, <1>6, <1>10, OnAbilityDiedFits
  <2> QED BY <1>7, <1>10, <2>1
<1>11. CASE /\ task[1] = "handleDied" /\ RoomToRestart(ServiceOf[id])
            /\ \E enough, restartNow \in BOOLEAN :
                  Become(HandleAbilityDiedTask(s, id, enough, restartNow), Idle)
  <2>1. PICK enough \in BOOLEAN, restartNow \in BOOLEAN :
           Become(HandleAbilityDiedTask(s, id, enough, restartNow), Idle)
    BY <1>11
  <2>2. ServiceOf[id] \in KeepAlive
           => Free(s, ServiceOf[id]) # {} /\ s.reqs[ServiceOf[id]] < MaxReqs
    BY <1>3, <1>11 DEF RoomToRestart, Free, Now
  <2>3. Fits(HandleAbilityDiedTask(s, id, enough, restartNow), E)
    BY <1>1, <1>2, <1>3, <1>5, <1>6, <1>11, <2>2, HandleAbilityDiedFits
  <2> QED BY <1>7, <2>1, <2>3
<1>12. CASE task[1] = "callbackDied" /\ Become(HandleCallBackDiedTask(s, id), Idle)
  <2>1. Fits(HandleCallBackDiedTask(s, id), E)
    BY <1>1, <1>2, HandleCallBackDiedFits
  <2> QED BY <1>7, <1>12, <2>1
<1>13. CASE task[1] = "frozen" /\ Become(TerminateRecord(s, {id}), Idle)
  <2>1. Fits(TerminateRecord(s, {id}), E)
    BY <1>1, <1>2, TerminateRecordFits
  <2> QED BY <1>7, <1>13, <2>1
<1> QED BY <1>4, <1>8, <1>9, <1>10, <1>11, <1>12, <1>13

-----------------------------------------------------------------------------
(* Timeouts. *)

LEMMA TimerIds ==
    ASSUME NEW task \in Delayed \cup Again
    PROVE  /\ task = <<task[1], task[2]>> \/ task = <<task[1], task[2], "again">>
           /\ task[1] \in {"loadTimeout", "terminate"} => task[2] \in Records
           /\ task[1] \in {"connectTimeout", "disconnectTimeout", "delayDisconnect"} => task[2] \in Conns
<1>1. ASSUME NEW t \in Delayed
      PROVE  /\ t = <<t[1], t[2]>>
             /\ t[1] \in {"loadTimeout", "terminate"} => t[2] \in Records
             /\ t[1] \in {"connectTimeout", "disconnectTimeout", "delayDisconnect"} => t[2] \in Conns
  BY DEF Delayed
<1>2. CASE task \in Delayed
  BY <1>1, <1>2
<1>3. CASE task \in Again
  <2>1. PICK t \in Delayed : task = <<t[1], t[2], "again">>
    BY <1>3 DEF Again
  <2>2. task[1] = t[1] /\ task[2] = t[2]
    BY <2>1
  <2> QED BY <1>1, <2>1, <2>2
<1> QED BY <1>2, <1>3

\* No record waits for a task that is not its load or its termination timeout.
LEMMA OtherExcused ==
    ASSUME NEW s, NEW t, NEW E, Fits(s, E \cup {t}),
           \A x : /\ t # <<"loadTimeout", x>> /\ t # <<"terminate", x>>
                  /\ t # <<"startServiceTimeout", x>> /\ t # <<"restartResident", x>>
    PROVE  Fits(s, E)
<1> DEFINE F == E \cup {t}
<1>1. \A x : /\ <<"terminate", x>> \in F => <<"terminate", x>> \in E
             /\ <<"startServiceTimeout", x>> \in F => <<"startServiceTimeout", x>> \in E
             /\ <<"restartResident", x>> \in F => <<"restartResident", x>> \in E
             /\ <<"loadTimeout", x>> \in F => <<"loadTimeout", x>> \in E
  OBVIOUS
<1>2. Fits(s, F)
  OBVIOUS
<1> HIDE DEF F
<1> QED BY <1>1, <1>2, ExcuseFits

LEMMA MoreExcused ==
    ASSUME NEW s, NEW E, NEW F, Fits(s, E), E \subseteq F
    PROVE  Fits(s, F)
BY DEF Fits, Armed

LEMMA TimeoutBeginsInv ==
    ASSUME ConnectInv, NEW task \in timers, TimeoutBegins(task)
    PROVE  ConnectInv'
<1> DEFINE list == IF task[1] = "connectTimeout" THEN ConnectList(Now, conn[task[2]].target) ELSE {}
           run == [task |-> task, list |-> list]
           x == CancelTask(Now, {task})
<1>1. Fits(Now, {running.task}) /\ dead' \subseteq Callbacks /\ running = Idle
      /\ Become(x, run) /\ task[1] \in TwoSteps
  BY InvFacts DEF TimeoutBegins, TwoSteps
<1>2. task \in Delayed \cup Again /\ connList \subseteq Conns
  <2>1. Now.timers \subseteq Delayed \cup Again /\ Now.connList \subseteq Conns
    BY <1>1 DEF Fits, Typed
  <2> QED BY <2>1 DEF Now
<1>3. list \in SUBSET Conns
  BY <1>2 DEF ConnectList, Now
<1> HIDE DEF list
<1>4. RunFits(run)
  BY <1>1, <1>2, <1>3 DEF RunFits
<1>5. Fits(x, {running.task} \cup {task})
  BY <1>1, CancelFits
<1> HIDE DEF x
<1>6. Fits(x, {task} \cup {running.task})
  <2>1. {running.task} \cup {task} = {task} \cup {running.task}
    OBVIOUS
  <2> QED BY <1>5, <2>1
<1>7. \A y : /\ running.task # <<"loadTimeout", y>> /\ running.task # <<"terminate", y>>
             /\ running.task # <<"startServiceTimeout", y>> /\ running.task # <<"restartResident", y>>
  BY <1>1 DEF Idle
<1>8. Fits(x, {task})
  BY <1>6, <1>7, OtherExcused
<1>9. run.task = task
  OBVIOUS
<1> HIDE DEF run
<1> QED BY <1>1, <1>4, <1>8, <1>9, BecomeInv

LEMMA TimeoutFinishesInv ==
    ASSUME ConnectInv, TimeoutFinishes
    PROVE  ConnectInv'
<1> DEFINE E == {running.task}
           I == {Idle.task}
           t == running.task
           kind == t[1]
           id == t[2]
<1>1. Fits(Now, E) /\ RunFits(running) /\ dead' \subseteq Callbacks /\ running.task \in E
  BY InvFacts DEF TimeoutFinishes
<1>2. RunFits(Idle)
  BY DEF RunFits, Idle
<1>3. \/ /\ kind = "loadTimeout" /\ RoomToRestart(ServiceOf[id])
         /\ \E restartNow \in BOOLEAN : Become(HandleStartTimeoutTask(Now, id, restartNow), Idle)
      \/ /\ kind = "connectTimeout"
         /\ Become(HandleConnectTimeoutTask(Now, conn[id].target, running.list), Idle)
      \/ kind = "disconnectTimeout" /\ Become(DisconnectDone(Now, conn[id].target), Idle)
      \/ kind = "terminate" /\ Become(TerminateDone(Now, id), Idle)
      \/ kind = "delayDisconnect" /\ Become(HandleExtensionDisconnectTask(Now, id), Idle)
  BY DEF TimeoutFinishes
<1>4. kind \in TwoSteps
  BY <1>3 DEF TwoSteps
<1>5. t \in Delayed \cup Again
  <2>1. t \in {<<"idle", 0>>} \cup {task \in Delayed \cup Again : task[1] \in TwoSteps}
    BY <1>1 DEF RunFits
  <2>2. t # <<"idle", 0>>
    BY <1>4 DEF TwoSteps
  <2> QED BY <2>1, <2>2
<1>6. /\ t = <<kind, id>> \/ t = <<kind, id, "again">>
      /\ kind \in {"loadTimeout", "terminate"} => id \in Records
      /\ kind \in {"connectTimeout", "disconnectTimeout", "delayDisconnect"} => id \in Conns
  BY <1>5, TimerIds
<1> HIDE DEF t, kind, id
<1>7. ASSUME NEW p, Fits(p, I), Become(p, Idle) PROVE ConnectInv'
  BY <1>1, <1>2, <1>7, BecomeInv
<1>8. ASSUME NEW p, Fits(p, E),
             t = <<kind, id, "again">> \/ kind \in {"connectTimeout", "disconnectTimeout", "delayDisconnect"}
      PROVE  Fits(p, I)
  <2>1. \A x : /\ t # <<"loadTimeout", x>> /\ t # <<"terminate", x>>
               /\ t # <<"startServiceTimeout", x>> /\ t # <<"restartResident", x>>
    BY <1>6, <1>8, PairIsNoTriple
  <2>2. Fits(p, I \cup {t})
    <3>1. E \subseteq I \cup {t}
      BY DEF t
    <3> QED BY <1>8, <3>1, MoreExcused
  <2> QED BY <2>1, <2>2, OtherExcused
<1>9. CASE /\ kind = "loadTimeout" /\ RoomToRestart(ServiceOf[id])
           /\ \E restartNow \in BOOLEAN : Become(HandleStartTimeoutTask(Now, id, restartNow), Idle)
  <2>1. PICK restartNow \in BOOLEAN : Become(HandleStartTimeoutTask(Now, id, restartNow), Idle)
    BY <1>9
  <2> DEFINE p == HandleStartTimeoutTask(Now, id, restartNow)
  <2>2. id \in Records /\ (ServiceOf[id] \in KeepAlive
           => Free(Now, ServiceOf[id]) # {} /\ Now.reqs[ServiceOf[id]] < MaxReqs)
    BY <1>6, <1>9 DEF RoomToRestart, Now
  <2>3. CASE t = <<kind, id>>
    <3>1. Fits(Now, I \cup {<<"loadTimeout", id>>}) /\ running.task \in I \cup {<<"loadTimeout", id>>}
      <4>1. E \subseteq I \cup {<<"loadTimeout", id>>}
        BY <1>9, <2>3 DEF t
      <4> QED BY <1>1, <4>1, MoreExcused
    <3> HIDE DEF I
    <3>2. Fits(p, I)
      BY <2>2, <3>1, HandleStartTimeoutFits
    <3> QED BY <1>7, <2>1, <3>2
  <2>4. CASE t = <<kind, id, "again">>
    <3>1. Fits(Now, E \cup {<<"loadTimeout", id>>}) /\ running.task \in E \cup {<<"loadTimeout", id>>}
      <4>1. E \subseteq E \cup {<<"loadTimeout", id>>}
        OBVIOUS
      <4> QED BY <1>1, <4>1, MoreExcused
    <3> HIDE DEF E
    <3>2. Fits(p, E)
      BY <2>2, <3>1, HandleStartTimeoutFits
    <3> HIDE DEF p
    <3>3. Fits(p, I)
      BY <1>8, <2>4, <3>2
    <3> QED BY <1>7, <2>1, <3>3 DEF p
  <2> QED BY <1>6, <2>3, <2>4
<1>10. CASE /\ kind = "connectTimeout"
            /\ Become(HandleConnectTimeoutTask(Now, conn[id].target, running.list), Idle)
  <2>1. Fits(HandleConnectTimeoutTask(Now, conn[id].target, running.list), E)
    BY <1>1, HandleConnectTimeoutFits
  <2> QED BY <1>7, <1>8, <1>10, <2>1
<1>11. CASE kind = "disconnectTimeout" /\ Become(DisconnectDone(Now, conn[id].target), Idle)
  <2>1. Fits(DisconnectDone(Now, conn[id].target), E)
    BY <1>1, DisconnectDoneFits
  <2> QED BY <1>7, <1>8, <1>11, <2>1
<1>12. CASE kind = "terminate" /\ Become(TerminateDone(Now, id), Idle)
  <2>1. Fits(Now, I \cup {<<"terminate", id>>})
    <3>1. CASE t = <<kind, id>>
      <4>1. E \subseteq I \cup {<<"terminate", id>>}
        BY <1>12, <3>1 DEF t
      <4> QED BY <1>1, <4>1, MoreExcused
    <3>2. CASE t = <<kind, id, "again">>
      <4>1. Fits(Now, I)
        BY <1>1, <1>8, <3>2
      <4>2. I \subseteq I \cup {<<"terminate", id>>}
        OBVIOUS
      <4> QED BY <4>1, <4>2, MoreExcused
    <3> QED BY <1>6, <3>1, <3>2
  <2> HIDE DEF I
  <2>2. Fits(TerminateDone(Now, id), I)
    BY <1>6, <1>12, <2>1, TerminateDoneFits
  <2> QED BY <1>7, <1>12, <2>2
<1>13. CASE kind = "delayDisconnect" /\ Become(HandleExtensionDisconnectTask(Now, id), Idle)
  <2>1. Fits(HandleExtensionDisconnectTask(Now, id), E)
    BY <1>1, <1>6, <1>13, HandleExtensionDisconnectFits
  <2> QED BY <1>7, <1>8, <1>13, <2>1
<1> QED BY <1>3, <1>9, <1>10, <1>11, <1>12, <1>13

\* The requests that waited are dropped with their timeout.
LEMMA StartServiceTimeoutInv ==
    ASSUME ConnectInv, NEW v \in Services, StartServiceTimeout(v)
    PROVE  ConnectInv'
<1> DEFINE T == {<<"startServiceTimeout", v>>}
           p == CancelTask([Now EXCEPT !.reqs[v] = 0], T)
<1>1. Fits(Now, {running.task}) /\ RunFits(running) /\ dead' \subseteq Callbacks /\ running = Idle
  BY InvFacts DEF StartServiceTimeout
<1>2. [CancelTask(Now, T) EXCEPT !.reqs[v] = 0] = p
  <2>1. Typed(Now)
    BY <1>1 DEF Fits
  <2> HIDE DEF T
  <2> QED BY <2>1 DEF Typed, CancelTask
<1>3. Become(p, running)
  BY <1>1, <1>2 DEF StartServiceTimeout
<1>4. Fits(p, {running.task})
  BY <1>1, TakeFits
<1> HIDE DEF p
<1> QED BY <1>1, <1>3, <1>4, BecomeInv

\* The registered restart and its timeout end together.
LEMMA RestartTakenFits ==
    ASSUME ConnectInv, NEW v \in Services
    PROVE  LET p == [CancelTask(Now, {<<"restartResident", v>>}) EXCEPT !.restartList = @ \ {v}]
           IN  /\ Fits(p, {running.task}) /\ p.reqs = reqs /\ (RoomFor(v) => RoomIn(p, v))
               /\ p.ability = Now.ability /\ p.conn = Now.conn /\ p.serviceMap = Now.serviceMap
               /\ p.cache = Now.cache /\ p.connList = Now.connList /\ p.connMap = Now.connMap
               /\ p.queue = Now.queue
<1> DEFINE E == {running.task}
           T == {<<"restartResident", v>>}
           x == CancelTask(Now, T)
           p == [x EXCEPT !.restartList = @ \ {v}]
<1>1. Fits(Now, E)
  BY InvFacts
<1>2. p = [CancelTask(Now, {<<"restartResident", v>>}) EXCEPT !.restartList = @ \ {v}]
  OBVIOUS
<1>3. Fits(x, E \cup T) /\ OnlyTimers(Now, x)
  BY <1>1, CancelFits
<1>4. x.timers = timers \ T
  BY DEF CancelTask, Now
<1> HIDE DEF x
<1>5. Typed(x) /\ Housed(x) /\ Armed(x, E \cup T) /\ Told(x)
  BY <1>3 DEF Fits
<1>6. /\ p.ability = x.ability /\ p.conn = x.conn /\ p.serviceMap = x.serviceMap
      /\ p.terminating = x.terminating /\ p.cache = x.cache /\ p.connList = x.connList
      /\ p.connMap = x.connMap /\ p.reqs = x.reqs /\ p.timers = x.timers
      /\ p.queue = x.queue /\ p.restartList = x.restartList \ {v}
  BY <1>5 DEF Typed
<1>7. Typed(p)
  BY <1>5 DEF Typed
<1> HIDE DEF p
<1>8. Housed(p)
  <2>1. Home(p) = Home(x) /\ \A q : Mourned(p, q) <=> Mourned(x, q)
    BY <1>6 DEF Home, Mourned
  <2> QED BY <1>5, <1>6, <2>1 DEF Housed
<1>9. Armed(p, E)
  <2>1. <<"restartResident", v>> \notin x.timers
    BY <1>4
  <2>2. \A w : /\ <<"loadTimeout", w>> \notin T /\ <<"terminate", w>> \notin T
               /\ <<"startServiceTimeout", w>> \notin T
               /\ <<"restartResident", w>> \in T => w = v
    OBVIOUS
  <2> HIDE DEF E, T
  <2> QED BY <1>5, <1>6, <2>1, <2>2 DEF Armed
<1>10. Told(p)
  BY <1>5, <1>6 DEF Told
<1>11. Fits(p, E)
  BY <1>7, <1>8, <1>9, <1>10 DEF Fits
<1>12. p.reqs = reqs /\ (RoomFor(v) => RoomIn(p, v))
  BY <1>3, <1>6 DEF RoomFor, RoomIn, Mapped, Free, OnlyTimers, Now
<1>13. /\ p.ability = Now.ability /\ p.conn = Now.conn /\ p.serviceMap = Now.serviceMap
       /\ p.cache = Now.cache /\ p.connList = Now.connList /\ p.connMap = Now.connMap
       /\ p.queue = Now.queue
  BY <1>3, <1>6 DEF OnlyTimers
<1> QED BY <1>2, <1>11, <1>12, <1>13

LEMMA RestartResidentInv ==
    ASSUME ConnectInv, NEW v \in Services, HandleRestartResidentTask(v)
    PROVE  ConnectInv'
<1> DEFINE E == {running.task}
           p == [CancelTask(Now, {<<"restartResident", v>>}) EXCEPT !.restartList = @ \ {v}]
<1>1. RunFits(running) /\ dead' \subseteq Callbacks /\ running = Idle /\ running.task \in E
  BY InvFacts DEF HandleRestartResidentTask
<1>2. Become(StartAbilityLocked(p, v), running) /\ RoomFor(v) /\ reqs[v] < MaxReqs
  BY <1>1 DEF HandleRestartResidentTask
<1>3. Fits(p, E) /\ p.reqs = reqs /\ RoomIn(p, v)
  BY <1>2, RestartTakenFits
<1> HIDE DEF p
<1>4. Fits(StartAbilityLocked(p, v), E)
  BY <1>1, <1>2, <1>3, StartFits
<1> QED BY <1>1, <1>2, <1>4, BecomeInv

-----------------------------------------------------------------------------
(* The invariant, and what it implies. *)

LEMMA InitInv == Init => ConnectInv
<1> SUFFICES ASSUME Init PROVE ConnectInv
  OBVIOUS
<1>1. /\ Now.ability = [r \in Records |-> Blank] /\ Now.conn = [k \in Conns |-> Unused]
      /\ Now.serviceMap = {} /\ Now.terminating = {} /\ Now.cache = <<>>
      /\ Now.connList = {} /\ Now.connMap = {} /\ Now.reqs = [v \in Services |-> 0]
      /\ Now.restartList = {} /\ Now.timers = {} /\ Now.queue = <<>>
  BY DEF Init, Now
<1>2. Unused \in ConnRecord /\ Unused.st = "INIT"
  BY DEF Unused, ConnRecord, ConnStates
<1>3. Typed(Now)
  <2>1. Now.ability \in [Records -> AbilityRecord]
    BY <1>1, BlankTypes
  <2>2. Now.conn \in [Conns -> ConnRecord]
    BY <1>1, <1>2
  <2>3. Now.reqs \in [Services -> 0..MaxReqs]
    BY <1>1, ConnectConstants
  <2>4. Now.cache \in Seq(Records) /\ Now.queue \in Seq(QueueTasks)
    BY <1>1
  <2>5. Now = [ability |-> Now.ability, conn |-> Now.conn, serviceMap |-> {},
               terminating |-> {}, cache |-> Now.cache, connList |-> {},
               connMap |-> {}, reqs |-> Now.reqs, restartList |-> {},
               timers |-> {}, queue |-> Now.queue]
    BY DEF Now, Init
  <2> QED BY <2>1, <2>2, <2>3, <2>4, <2>5 DEF Typed
<1>4. InCache(Now.cache) = {} /\ InCache(Now.queue) = {} /\ NoDuplicates(Now.cache)
  BY <1>1 DEF InCache, NoDuplicates
<1>5. \A r \in Records : Now.ability[r].st = "none" /\ Now.ability[r].process = "none"
                         /\ r \notin Home(Now) /\ ~Mourned(Now, r)
  BY <1>1, <1>4, BlankTypes DEF Home, Mourned
<1>6. Housed(Now)
  BY <1>1, <1>4, <1>5 DEF Housed
<1>7. Armed(Now, {running.task})
  BY <1>1 DEF Armed
<1>8. Told(Now)
  BY <1>1, <1>2 DEF Told
<1>9. RunFits(running) /\ dead \subseteq Callbacks
  BY DEF Init, RunFits, Idle
<1> QED BY <1>3, <1>6, <1>7, <1>8, <1>9 DEF ConnectInv, Fits

LEMMA StepInv == ConnectInv /\ [Next]_acmVars => ConnectInv'
<1> SUFFICES ASSUME ConnectInv, [Next]_acmVars PROVE ConnectInv'
  OBVIOUS
<1>1. ASSUME NEW v \in Services,
             StartAbility(v) \/ StopServiceAbilityLocked(v) \/ StartServiceTimeout(v)
             \/ HandleRestartResidentTask(v)
      PROVE  ConnectInv'
  BY <1>1, StartInv, StopInv, StartServiceTimeoutInv, RestartResidentInv
<1>2. ASSUME NEW c \in Callbacks, NEW v \in Services, ConnectAbilityLocked(c, v) PROVE ConnectInv'
  BY <1>2, ConnectActionInv
<1>3. ASSUME NEW c \in Callbacks, DisconnectAbilityLocked(c) \/ OnCallBackDied(c) PROVE ConnectInv'
  BY <1>3, DisconnectActionInv, CallBackDiedInv
<1>4. ASSUME NEW r \in Records,
             \/ TerminateAbility(r) \/ AttachAbilityThread(r) \/ InactiveDone(r)
             \/ \E remote \in IF NullRemote THEN BOOLEAN ELSE {TRUE} :
                   ScheduleConnectAbilityDone(r, remote)
             \/ ScheduleDisconnectAbilityDone(r) \/ ScheduleCommandAbilityDone(r)
             \/ TerminateAnswer(r) \/ ProcessDies(r) \/ OnSchedulerDied(r)
             \/ HandleProcessFrozen(r)
      PROVE  ConnectInv'
  <2>1. ASSUME \E remote \in IF NullRemote THEN BOOLEAN ELSE {TRUE} :
                  ScheduleConnectAbilityDone(r, remote)
        PROVE  ConnectInv'
    <3>1. PICK remote \in IF NullRemote THEN BOOLEAN ELSE {TRUE} :
             ScheduleConnectAbilityDone(r, remote)
      BY <2>1
    <3>2. remote \in BOOLEAN
      OBVIOUS
    <3> QED BY <3>1, <3>2, ConnectDoneInv
  <2> QED BY <1>4, <2>1, TerminateInv, AttachInv, InactiveInv, DisconnectDoneInv, CommandDoneInv,
             TerminateAnswerInv, ProcessDiesInv, SchedulerDiedInv, FrozenInv
<1>5. ASSUME NEW b \in Bundles, KillProcess(b) PROVE ConnectInv'
  BY <1>5, KillInv
<1>6. CASE RunTask
  BY <1>6, RunTaskInv
<1>7. ASSUME NEW task \in timers, TimeoutBegins(task) PROVE ConnectInv'
  BY <1>7, TimeoutBeginsInv
<1>8. CASE TimeoutFinishes
  BY <1>8, TimeoutFinishesInv
<1>9. CASE UNCHANGED acmVars
  <2>1. Now' = Now /\ running' = running /\ dead' = dead
    BY <1>9 DEF acmVars, Now
  <2>2. Fits(Now, {running.task}) /\ RunFits(running) /\ dead \subseteq Callbacks
    BY InvFacts
  <2> QED BY <2>1, <2>2 DEF ConnectInv
<1> QED BY <1>1, <1>2, <1>3, <1>4, <1>5, <1>6, <1>7, <1>8, <1>9 DEF Next

LEMMA ConnectInvariant == Spec => []ConnectInv
BY InitInv, StepInv, PTL DEF Spec

LEMMA InvImplies == ConnectInv => TypeOK /\ OneHome /\ TimeoutsArmed
<1> SUFFICES ASSUME ConnectInv PROVE TypeOK /\ OneHome /\ TimeoutsArmed
  OBVIOUS
<1>1. Typed(Now) /\ Housed(Now) /\ Armed(Now, {running.task}) /\ Told(Now)
      /\ dead \subseteq Callbacks /\ RunFits(running)
  BY DEF ConnectInv, Fits
<1>2. /\ Now.ability = ability /\ Now.conn = conn /\ Now.serviceMap = serviceMap
      /\ Now.terminating = terminating /\ Now.cache = cache /\ Now.connList = connList
      /\ Now.connMap = connMap /\ Now.reqs = reqs /\ Now.restartList = restartList
      /\ Now.timers = timers /\ Now.queue = queue
  BY DEF Now
<1>3. /\ ability \in [Records -> AbilityRecord] /\ conn \in [Conns -> ConnRecord]
      /\ serviceMap \subseteq Records /\ terminating \subseteq Records /\ cache \in Seq(Records)
      /\ connList \subseteq Conns /\ connMap \subseteq Conns
      /\ reqs \in [Services -> 0..MaxReqs] /\ restartList \subseteq Services
  BY <1>1, <1>2 DEF Typed
<1>4. TypeOK
  <2>1. \A k \in connList \cup connMap : conn[k].target \in Records
    BY <1>1, <1>2, <1>3 DEF Told
  <2>2. \A k \in Conns : /\ conn[k].st \in ConnStates
                         /\ conn[k].target \in Records \cup {NoRecord}
                         /\ conn[k].callback \in BOOLEAN
                         /\ conn[k].told \in {"nothing", "connected", "disconnected"}
    BY <1>3 DEF ConnRecord
  <2> QED BY <1>1, <1>3, <2>1, <2>2 DEF TypeOK, AbilityRecord
<1>5. OneHome
  BY <1>1, <1>2 DEF OneHome, Housed, Home
<1>6. TimeoutsArmed
  <2>1. \A v : running.task # <<"startServiceTimeout", v>> /\ running.task # <<"restartResident", v>>
    <3>1. running.task \in {<<"idle", 0>>} \cup {task \in Delayed \cup Again : task[1] \in TwoSteps}
      BY <1>1 DEF RunFits
    <3>2. running.task[1] # "startServiceTimeout" /\ running.task[1] # "restartResident"
      BY <3>1 DEF TwoSteps
    <3> QED BY <3>2
  <2>2. \A v \in Services : reqs[v] > 0 <=> <<"startServiceTimeout", v>> \in timers
    BY <1>1, <1>2, <2>1 DEF Armed
  <2>3. \A v \in Services : v \in restartList <=> <<"restartResident", v>> \in timers
    BY <1>1, <1>2, <2>1 DEF Armed
  <2>4. \A r \in serviceMap : ability[r].st = "INITIAL" => Pending(<<"loadTimeout", r>>)
    BY <1>1, <1>2 DEF Armed, Pending
  <2>5. \A r \in terminating : ability[r].st = "TERMINATING" => Pending(<<"terminate", r>>)
    BY <1>1, <1>2 DEF Armed, Pending
  <2> QED BY <2>2, <2>3, <2>4, <2>5 DEF TimeoutsArmed
<1> QED BY <1>4, <1>5, <1>6

\* The types of the manager's state, whatever the constants are: in particular every
\* connection that is in a list has a record to which it belongs (connection_record.cpp).
THEOREM ConnectTypes == Spec => []TypeOK
BY ConnectInvariant, InvImplies, PTL

\* A record is in at most one of the service map, the cache and the terminating list, a
\* service has one record that can be reached, and a running process belongs to a record
\* that is in one of the three (AddToServiceMap, MoveToTerminatingMap, DeleteInvalidServiceRecord).
THEOREM RecordsHaveOneHome == Spec => []OneHome
BY ConnectInvariant, InvImplies, PTL

\* Whatever waits for an answer has a timeout that is due or running, through all races of an
\* answer with the timeout that the worker has already begun (PostTimeOutTask, CancelTask).
THEOREM TimeoutsAreArmed == Spec => []TimeoutsArmed
BY ConnectInvariant, InvImplies, PTL

-----------------------------------------------------------------------------
(* Records that are in use. *)

\* What a mapped record is there for.
Needed(s, r) ==
    \/ ConnectList(s, r) # {}
    \/ s.ability[r].started
    \/ ~s.ability[r].byConnect /\ s.ability[r].st \in {"INITIAL", "INACTIVATING"}

\* Records that a request may find.
Held(s) == s.serviceMap \cup InCache(s.cache)

\* The message to load an extension is its first one, and nothing happens to the record before
\* it is answered.
Loads(a) == \A i \in 1..Len(a.inbox) : a.inbox[i] = "load" => i = 1 /\ a.st = "INITIAL"

\* A task that completes a connection never makes a record active that was not: if it did, a record
\* that somebody started would lose the reason it is there for.  A client has one connection
\* to a record at most, so that no client drops the last two of them at once.
Sound(s) ==
    /\ \A k \in Conns : <<"completeConnect", k>> \in InCache(s.queue)
          => /\ s.conn[k].target \in Records
             /\ s.ability[s.conn[k].target].st \in {"ACTIVE", "TERMINATING"}
    /\ \A j, k \in s.connMap :
          s.conn[j].owner = s.conn[k].owner /\ s.conn[j].target = s.conn[k].target => j = k
    /\ \A k \in s.connMap : s.ability[s.conn[k].target].st # "none" /\ s.conn[k].st # "DISCONNECTED"
    /\ \A k \in Conns : s.conn[k].st = "INIT" => s.conn[k].target = NoRecord
    /\ \A r \in Held(s) : Loads(s.ability[r])

Uses(s) == Sound(s) /\ \A r \in s.serviceMap : Needed(s, r)

\* The timeout of a connection drops connections of one record.
ListFits(s, run) ==
    \A k \in run.list : /\ run.task[1] = "connectTimeout" /\ s.conn[k].target \in Records
                        /\ s.conn[k].target = s.conn[run.task[2]].target

\* What the handlers do to an ability record,
Follows(a, b) ==
    /\ a.started => b.started
    /\ b.byConnect = a.byConnect
    /\ b.st = a.st \/ b.st \in {"ACTIVE", "TERMINATING"}
    /\ \A i \in 1..Len(b.inbox) : b.inbox[i] = "load" => i \in 1..Len(a.inbox) /\ a.inbox[i] = "load"

\* and to the manager, unless they create a record, a connection or a task that completes one.
Keeps(s, p) ==
    /\ Held(p) \subseteq Held(s)
    /\ p.connMap \subseteq s.connMap
    /\ \A k \in Conns :
          /\ p.conn[k].target = s.conn[k].target /\ p.conn[k].owner = s.conn[k].owner
          /\ p.conn[k].st = "INIT" => s.conn[k].st = "INIT"
          /\ k \in p.connMap /\ p.conn[k].st = "DISCONNECTED" => s.conn[k].st = "DISCONNECTED"
          /\ <<"completeConnect", k>> \in InCache(p.queue)
                => <<"completeConnect", k>> \in InCache(s.queue)
    /\ \A r \in Records :
          /\ Follows(s.ability[r], p.ability[r])
          /\ r \in Held(p) /\ s.ability[r].st \in {"INITIAL", "INACTIVATING"}
                => p.ability[r].st = s.ability[r].st

LEMMA KeepsTrans ==
    ASSUME NEW s, NEW p, NEW q, Keeps(s, p), Keeps(p, q)
    PROVE  Keeps(s, q)
<1>1. Held(q) \subseteq Held(s) /\ q.connMap \subseteq s.connMap
  BY DEF Keeps
<1>2. ASSUME NEW k \in Conns
      PROVE  /\ q.conn[k].target = s.conn[k].target /\ q.conn[k].owner = s.conn[k].owner
             /\ q.conn[k].st = "INIT" => s.conn[k].st = "INIT"
             /\ k \in q.connMap /\ q.conn[k].st = "DISCONNECTED" => s.conn[k].st = "DISCONNECTED"
             /\ <<"completeConnect", k>> \in InCache(q.queue)
                   => <<"completeConnect", k>> \in InCache(s.queue)
  BY DEF Keeps
<1>3. ASSUME NEW r \in Records
      PROVE  /\ Follows(s.ability[r], q.ability[r])
             /\ r \in Held(q) /\ s.ability[r].st \in {"INITIAL", "INACTIVATING"}
                   => q.ability[r].st = s.ability[r].st
  <2> DEFINE a == s.ability[r]
             b == p.ability[r]
             c == q.ability[r]
  <2>1. Follows(a, b) /\ Follows(b, c)
    BY DEF Keeps
  <2>2. r \in Held(q) => r \in Held(p)
    BY DEF Keeps
  <2>3. /\ r \in Held(p) /\ a.st \in {"INITIAL", "INACTIVATING"} => b.st = a.st
        /\ r \in Held(q) /\ b.st \in {"INITIAL", "INACTIVATING"} => c.st = b.st
    BY DEF Keeps
  <2> HIDE DEF a, b, c
  <2>4. Follows(a, c)
    BY <2>1 DEF Follows
  <2> QED BY <2>2, <2>3, <2>4 DEF a, c
<1> QED BY <1>1, <1>2, <1>3 DEF Keeps

LEMMA KeepsSound ==
    ASSUME NEW s, NEW E, Fits(s, E), Sound(s), NEW p, Keeps(s, p)
    PROVE  Sound(p)
<1>1. Held(s) \subseteq Records /\ s.connMap \subseteq Conns
  BY FitsTypes, ConnTypes DEF Held
<1>2. \A k \in s.connMap : s.conn[k].target \in Records
  BY <1>1 DEF Fits, Told
<1>3. ASSUME NEW k \in Conns, <<"completeConnect", k>> \in InCache(p.queue)
      PROVE  /\ p.conn[k].target \in Records
             /\ p.ability[p.conn[k].target].st \in {"ACTIVE", "TERMINATING"}
  BY <1>3 DEF Keeps, Sound, Follows
<1>4. ASSUME NEW j \in p.connMap, NEW k \in p.connMap,
             p.conn[j].owner = p.conn[k].owner, p.conn[j].target = p.conn[k].target
      PROVE  j = k
  <2>1. j \in s.connMap /\ k \in s.connMap /\ j \in Conns /\ k \in Conns
    BY <1>1 DEF Keeps
  <2>2. s.conn[j].owner = s.conn[k].owner /\ s.conn[j].target = s.conn[k].target
    BY <1>4, <2>1 DEF Keeps
  <2> QED BY <2>1, <2>2 DEF Sound
<1>5. ASSUME NEW k \in p.connMap
      PROVE  p.ability[p.conn[k].target].st # "none" /\ p.conn[k].st # "DISCONNECTED"
  <2>1. k \in s.connMap /\ k \in Conns
    BY <1>1 DEF Keeps
  <2>2. s.conn[k].target \in Records /\ p.conn[k].target = s.conn[k].target
    BY <1>2, <2>1 DEF Keeps
  <2>3. s.ability[s.conn[k].target].st # "none" /\ s.conn[k].st # "DISCONNECTED"
    BY <2>1 DEF Sound
  <2>4. p.conn[k].st # "DISCONNECTED"
    BY <1>5, <2>1, <2>3 DEF Keeps
  <2>5. Follows(s.ability[s.conn[k].target], p.ability[s.conn[k].target])
    BY <2>2 DEF Keeps
  <2> QED BY <2>2, <2>3, <2>4, <2>5 DEF Follows
<1>6. \A k \in Conns : p.conn[k].st = "INIT" => p.conn[k].target = NoRecord
  BY DEF Keeps, Sound
<1>7. ASSUME NEW r \in Held(p) PROVE Loads(p.ability[r])
  <2>1. r \in Held(s) /\ r \in Records
    BY <1>1 DEF Keeps
  <2> DEFINE a == s.ability[r]
             b == p.ability[r]
  <2>2. Loads(a) /\ Follows(a, b)
    BY <2>1 DEF Keeps, Sound
  <2>3. a.st = "INITIAL" => b.st = "INITIAL"
    BY <1>7, <2>1 DEF Keeps
  <2> HIDE DEF a, b
  <2>4. Loads(b)
    BY <2>2, <2>3 DEF Loads, Follows
  <2> QED BY <2>4 DEF b
<1> QED BY <1>3, <1>4, <1>5, <1>6, <1>7 DEF Sound

LEMMA NeededKept ==
    ASSUME NEW s, NEW p, Keeps(s, p), NEW r \in Records, r \in Held(p), Needed(s, r),
           ConnectList(s, r) # {} => ConnectList(p, r) # {} \/ p.ability[r].started
    PROVE  Needed(p, r)
BY DEF Needed, Keeps, Follows

\* A handler preserves the invariant if it drops the last connection of no record that stays.
LEMMA UsesKept ==
    ASSUME NEW s, NEW E, Fits(s, E), Uses(s), NEW p, Keeps(s, p), p.serviceMap \subseteq s.serviceMap,
           \A r \in p.serviceMap :
              ConnectList(s, r) # {} => ConnectList(p, r) # {} \/ p.ability[r].started
    PROVE  Uses(p)
<1>1. Sound(p)
  BY KeepsSound DEF Uses
<1>2. ASSUME NEW r \in p.serviceMap PROVE Needed(p, r)
  <2>1. r \in s.serviceMap /\ r \in Records /\ r \in Held(p)
    BY <1>2, FitsTypes DEF Held
  <2> QED BY <1>2, <2>1, NeededKept DEF Uses
<1> QED BY <1>1, <1>2 DEF Uses

-----------------------------------------------------------------------------
(* What the handlers leave as it was. *)

LEMMA FollowsSelf == \A a : Follows(a, a)
BY DEF Follows

LEMMA KeepsSelf == \A s : Keeps(s, s)
BY FollowsSelf DEF Keeps

\* Connections are the same.
SameConns(s, p) == p.conn = s.conn /\ p.connList = s.connList /\ p.connMap = s.connMap

LEMMA TimersKeep ==
    ASSUME NEW s, NEW p, OnlyTimers(s, p)
    PROVE  Keeps(s, p) /\ SameConns(s, p) /\ p.serviceMap = s.serviceMap /\ p.cache = s.cache
           /\ p.ability = s.ability
BY FollowsSelf DEF Keeps, SameConns, OnlyTimers, Held

LEMMA PostKeeps ==
    ASSUME NEW s, Typed(s), NEW T, T \subseteq Delayed
    PROVE  LET p == PostDelayed(s, T) IN OnlyTimers(s, p) /\ Typed(p)
<1> DEFINE p == PostDelayed(s, T)
           again == T \cap (s.timers \cup {running.task})
           more == {<<task[1], task[2], "again">> : task \in again}
<1>1. OnlyTimers(s, p) /\ p.timers = s.timers \cup (T \ again) \cup more
  BY DEF PostDelayed, OnlyTimers, Typed
<1>2. p.timers \subseteq Delayed \cup Again
  <2>1. more \subseteq Again
    BY DEF Again
  <2> QED BY <1>1, <2>1 DEF Typed
<1>3. p = [s EXCEPT !.timers = p.timers]
  BY DEF PostDelayed, Typed
<1> HIDE DEF p
<1>4. Typed(p)
  BY <1>2, <1>3 DEF Typed
<1> QED BY <1>1, <1>4 DEF p

LEMMA CancelKeeps ==
    ASSUME NEW s, Typed(s), NEW T
    PROVE  LET p == CancelTask(s, T) IN OnlyTimers(s, p) /\ Typed(p)
BY DEF CancelTask, OnlyTimers, Typed

LEMMA HomesKeep ==
    ASSUME NEW s, NEW p, OnlyHomes(s, p), Held(p) \subseteq Held(s)
    PROVE  Keeps(s, p) /\ SameConns(s, p)
BY FollowsSelf DEF Keeps, SameConns, OnlyHomes

LEMMA AbilitiesKeep ==
    ASSUME NEW s, NEW p, OnlyAbilities(s, p),
           \A r \in Records : /\ Follows(s.ability[r], p.ability[r])
                              /\ r \in Held(s) /\ s.ability[r].st \in {"INITIAL", "INACTIVATING"}
                                    => p.ability[r].st = s.ability[r].st
    PROVE  Keeps(s, p) /\ SameConns(s, p) /\ p.serviceMap = s.serviceMap /\ p.cache = s.cache
BY DEF Keeps, SameConns, OnlyAbilities, Held

LEMMA FollowsUpdates ==
    ASSUME NEW a \in AbilityRecord
    PROVE  /\ Follows(a, [a EXCEPT !.started = TRUE])
           /\ \A b \in BOOLEAN : /\ Follows(a, [a EXCEPT !.isConnected = b])
                                 /\ Follows(a, [a EXCEPT !.remote = b])
                                 /\ Follows(a, [a EXCEPT !.sched = b])
           /\ \A st \in {"ACTIVE", "TERMINATING"} : Follows(a, [a EXCEPT !.st = st])
           /\ \A process \in {"none", "running", "dying"} :
                 Follows(a, [a EXCEPT !.process = process, !.inbox = <<>>])
           /\ \A message \in Messages \ {"load"} :
                 /\ Follows(a, [a EXCEPT !.inbox = Append(@, message)])
                 /\ [a EXCEPT !.inbox = Append(@, message)].st = a.st
                 /\ [a EXCEPT !.inbox = Append(@, message)].started = a.started
<1>1. a.inbox \in Seq(Messages)
  BY DEF AbilityRecord
<1>2. Follows(a, [a EXCEPT !.started = TRUE])
  BY DEF Follows, AbilityRecord
<1>3. ASSUME NEW b \in BOOLEAN
      PROVE  /\ Follows(a, [a EXCEPT !.isConnected = b])
             /\ Follows(a, [a EXCEPT !.remote = b])
             /\ Follows(a, [a EXCEPT !.sched = b])
  BY DEF Follows, AbilityRecord
<1>4. ASSUME NEW st \in {"ACTIVE", "TERMINATING"} PROVE Follows(a, [a EXCEPT !.st = st])
  BY DEF Follows, AbilityRecord
<1>5. ASSUME NEW process \in {"none", "running", "dying"}
      PROVE  Follows(a, [a EXCEPT !.process = process, !.inbox = <<>>])
  BY DEF Follows, AbilityRecord
<1>6. ASSUME NEW message \in Messages \ {"load"}
      PROVE  /\ Follows(a, [a EXCEPT !.inbox = Append(@, message)])
             /\ [a EXCEPT !.inbox = Append(@, message)].st = a.st
             /\ [a EXCEPT !.inbox = Append(@, message)].started = a.started
  <2> DEFINE b == [a EXCEPT !.inbox = Append(@, message)]
             u == Append(a.inbox, message)
  <2>1. b.inbox = u /\ b.st = a.st /\ b.started = a.started /\ b.byConnect = a.byConnect
    BY DEF AbilityRecord
  <2>2. \A i \in 1..Len(u) : u[i] = "load" => i \in 1..Len(a.inbox) /\ a.inbox[i] = "load"
    BY <1>1
  <2> HIDE DEF b, u
  <2>3. Follows(a, b)
    BY <2>1, <2>2 DEF Follows
  <2> QED BY <2>1, <2>3 DEF b
<1> QED BY <1>2, <1>3, <1>4, <1>5, <1>6

LEMMA ScheduleKeeps ==
    ASSUME NEW s, Typed(s), NEW R, NEW message \in Messages \ {"load"}
    PROVE  LET p == Schedule(s, R, message)
           IN  /\ Typed(p) /\ Keeps(s, p) /\ SameConns(s, p) /\ p.serviceMap = s.serviceMap /\ p.cache = s.cache
               /\ \A r \in Records : p.ability[r].st = s.ability[r].st
                                     /\ p.ability[r].started = s.ability[r].started
<1> DEFINE p == Schedule(s, R, message)
<1>1. Typed(s) /\ s.ability \in [Records -> AbilityRecord]
  BY DEF Typed
<1>2. /\ OnlyAbilities(s, p)
      /\ p.ability = [r \in Records |->
           IF r \in R /\ s.ability[r].sched /\ s.ability[r].process = "running"
           THEN [s.ability[r] EXCEPT !.inbox = Append(@, message)] ELSE s.ability[r]]
  BY <1>1 DEF Schedule, OnlyAbilities, Typed
<1>5. p = [s EXCEPT !.ability = p.ability]
  BY DEF Schedule, Typed
<1> HIDE DEF p
<1>6. p.ability \in [Records -> AbilityRecord]
  <2>1. ASSUME NEW a \in AbilityRecord PROVE [a EXCEPT !.inbox = Append(@, message)] \in AbilityRecord
    BY DEF AbilityRecord
  <2> QED BY <1>1, <1>2, <2>1
<1>7. Typed(p)
  BY <1>5, <1>6 DEF Typed
<1>3. ASSUME NEW r \in Records
      PROVE  /\ Follows(s.ability[r], p.ability[r]) /\ p.ability[r].st = s.ability[r].st
             /\ p.ability[r].started = s.ability[r].started
  <2> DEFINE a == s.ability[r]
  <2>1. a \in AbilityRecord
    BY <1>1
  <2>2. p.ability[r] = a \/ p.ability[r] = [a EXCEPT !.inbox = Append(@, message)]
    BY <1>2
  <2> HIDE DEF a
  <2>3. Follows(a, p.ability[r]) /\ p.ability[r].st = a.st /\ p.ability[r].started = a.started
    BY <2>1, <2>2, FollowsUpdates, FollowsSelf
  <2> QED BY <2>3 DEF a
<1>4. Keeps(s, p) /\ SameConns(s, p) /\ p.serviceMap = s.serviceMap /\ p.cache = s.cache
  BY <1>2, <1>3, AbilitiesKeep
<1> QED BY <1>3, <1>4, <1>7 DEF p

\* A change of one record.
LEMMA SetKeeps ==
    ASSUME NEW s, Typed(s), NEW r \in Records, NEW a, Follows(s.ability[r], a),
           r \in Held(s) /\ s.ability[r].st \in {"INITIAL", "INACTIVATING"} => a.st = s.ability[r].st
    PROVE  LET p == [s EXCEPT !.ability[r] = a]
           IN  /\ Keeps(s, p) /\ SameConns(s, p) /\ p.serviceMap = s.serviceMap /\ p.cache = s.cache
               /\ p.ability = [s.ability EXCEPT ![r] = a]
               /\ p.ability[r] = a /\ \A q \in Records \ {r} : p.ability[q] = s.ability[q]
<1> DEFINE p == [s EXCEPT !.ability[r] = a]
<1>1. Typed(s) /\ s.ability \in [Records -> AbilityRecord]
  BY DEF Typed
<1>2. OnlyAbilities(s, p) /\ p.ability = [s.ability EXCEPT ![r] = a]
  BY <1>1 DEF Typed, OnlyAbilities
<1> HIDE DEF p
<1>3. p.ability[r] = a /\ \A q \in Records \ {r} : p.ability[q] = s.ability[q]
  BY <1>1, <1>2
<1>4. \A q \in Records : /\ Follows(s.ability[q], p.ability[q])
                         /\ q \in Held(s) /\ s.ability[q].st \in {"INITIAL", "INACTIVATING"}
                               => p.ability[q].st = s.ability[q].st
  BY <1>3, FollowsSelf
<1>5. Keeps(s, p) /\ SameConns(s, p) /\ p.serviceMap = s.serviceMap /\ p.cache = s.cache
  BY <1>2, <1>4, AbilitiesKeep
<1> QED BY <1>2, <1>3, <1>5 DEF p

\* The same list of connections.
LEMMA SameLists ==
    ASSUME NEW s, NEW p, SameConns(s, p)
    PROVE  \A r : ConnectList(p, r) = ConnectList(s, r)
BY DEF SameConns, ConnectList

LEMMA SameTrans ==
    ASSUME NEW s, NEW p, NEW q, SameConns(s, p), SameConns(p, q)
    PROVE  SameConns(s, q)
BY DEF SameConns

-----------------------------------------------------------------------------
(* Terminating.                                                            *)

LEMMA EndProcessKeeps ==
    ASSUME NEW s, Typed(s), NEW r \in Records
    PROVE  LET p == EndProcess(s, r)
           IN  Keeps(s, p) /\ SameConns(s, p) /\ p.serviceMap = s.serviceMap /\ p.cache = s.cache
<1> DEFINE a == s.ability[r]
           b == [a EXCEPT !.process = "none", !.inbox = <<>>]
<1>1. a \in AbilityRecord
  BY DEF Typed
<1>2. EndProcess(s, r) = [s EXCEPT !.ability[r] = b]
  BY DEF EndProcess, Typed
<1>3. b.st = a.st
  BY <1>1 DEF AbilityRecord
<1>4. Follows(a, b)
  <2> HIDE DEF a
  <2> QED BY <1>1, FollowsUpdates
<1> HIDE DEF b
<1> QED BY <1>2, <1>3, <1>4, SetKeeps

LEMMA TerminateKeeps ==
    ASSUME NEW s, Typed(s), NEW R, R \subseteq Records, R \cap Held(s) = {}
    PROVE  LET p == Terminate(s, R)
           IN  /\ Keeps(s, p) /\ SameConns(s, p) /\ p.serviceMap = s.serviceMap /\ p.cache = s.cache
               /\ \A r \in Records : p.ability[r].started = s.ability[r].started
<1> DEFINE T == {<<"terminate", r>> : r \in R}
           x == [s EXCEPT !.ability = [r \in Records |->
                   IF r \in R THEN [s.ability[r] EXCEPT !.st = "TERMINATING"] ELSE s.ability[r]]]
           y == PostDelayed(x, T)
           z == Schedule(y, R, "terminate")
<1>1. Terminate(s, R) = z
  BY DEF Terminate
<1>2. /\ OnlyAbilities(s, x)
      /\ x.ability = [r \in Records |->
           IF r \in R THEN [s.ability[r] EXCEPT !.st = "TERMINATING"] ELSE s.ability[r]]
      /\ x = [s EXCEPT !.ability = x.ability]
  BY DEF OnlyAbilities, Typed
<1>3. \A r \in Records : s.ability[r] \in AbilityRecord
  BY DEF Typed
<1>4. ASSUME NEW a \in AbilityRecord
      PROVE  /\ [a EXCEPT !.st = "TERMINATING"] \in AbilityRecord
             /\ [a EXCEPT !.st = "TERMINATING"].started = a.started
             /\ Follows(a, [a EXCEPT !.st = "TERMINATING"])
  <2>1. [a EXCEPT !.st = "TERMINATING"] \in AbilityRecord
        /\ [a EXCEPT !.st = "TERMINATING"].started = a.started
    BY DEF AbilityRecord, AbilityStates
  <2> QED BY <2>1, FollowsUpdates
<1> HIDE DEF x
<1>5. x.ability \in [Records -> AbilityRecord]
  BY <1>2, <1>3, <1>4
<1>6. Typed(x)
  BY <1>2, <1>5 DEF Typed
<1>7. \A r \in Records : /\ Follows(s.ability[r], x.ability[r])
                         /\ x.ability[r].started = s.ability[r].started
                         /\ r \notin R => x.ability[r] = s.ability[r]
  BY <1>2, <1>3, <1>4, FollowsSelf
<1>8. Keeps(s, x) /\ SameConns(s, x) /\ x.serviceMap = s.serviceMap /\ x.cache = s.cache
  BY <1>2, <1>7, AbilitiesKeep
<1>9. T \subseteq Delayed
  BY DEF Delayed
<1> HIDE DEF T
<1>10. OnlyTimers(x, y) /\ Typed(y)
  BY <1>6, <1>9, PostKeeps
<1> HIDE DEF y
<1>11. Keeps(x, y) /\ SameConns(x, y) /\ y.serviceMap = x.serviceMap /\ y.cache = x.cache
       /\ y.ability = x.ability
  BY <1>10, TimersKeep
<1>12. "terminate" \in Messages \ {"load"}
  BY DEF Messages
<1>13. /\ Keeps(y, z) /\ SameConns(y, z) /\ z.serviceMap = y.serviceMap /\ z.cache = y.cache
       /\ \A r \in Records : z.ability[r].started = y.ability[r].started
  BY <1>10, <1>12, ScheduleKeeps
<1> HIDE DEF z
<1>14. Keeps(s, z)
  BY <1>8, <1>11, <1>13, KeepsTrans
<1>15. SameConns(s, z)
  BY <1>8, <1>11, <1>13, SameTrans
<1> QED BY <1>1, <1>7, <1>8, <1>11, <1>13, <1>14, <1>15

LEMMA TerminateRecordKeeps ==
    ASSUME NEW s, NEW E, Fits(s, E), NEW R
    PROVE  LET p == TerminateRecord(s, R)
           IN  /\ Keeps(s, p) /\ SameConns(s, p)
               /\ p.serviceMap = s.serviceMap \ R /\ InCache(p.cache) = InCache(s.cache) \ R
               /\ \A r \in Records : p.ability[r].started = s.ability[r].started
<1> DEFINE found == R \cap (s.serviceMap \cup InCache(s.cache))
           x == MoveToTerminatingMap(s, found)
           p == Terminate(x, found)
<1>1. TerminateRecord(s, R) = p
  BY DEF TerminateRecord
<1>2. found \subseteq s.serviceMap \cup InCache(s.cache) /\ found \subseteq Records
      /\ s.serviceMap \ found = s.serviceMap \ R /\ InCache(s.cache) \ found = InCache(s.cache) \ R
  BY FitsTypes
<1> HIDE DEF found
<1>3. /\ Fits(x, E) /\ OnlyHomes(s, x) /\ x.serviceMap = s.serviceMap \ found
      /\ InCache(x.cache) = InCache(s.cache) \ found
  BY <1>2, MoveFits
<1> HIDE DEF x
<1>4. Held(x) \subseteq Held(s) /\ found \cap Held(x) = {} /\ Typed(x)
  BY <1>3 DEF Held, Fits
<1>5. Keeps(s, x) /\ SameConns(s, x) /\ x.ability = s.ability
  BY <1>3, <1>4, HomesKeep DEF OnlyHomes
<1>6. /\ Keeps(x, p) /\ SameConns(x, p) /\ p.serviceMap = x.serviceMap /\ p.cache = x.cache
      /\ \A r \in Records : p.ability[r].started = x.ability[r].started
  BY <1>2, <1>4, TerminateKeeps
<1> HIDE DEF p
<1>7. Keeps(s, p) /\ SameConns(s, p)
  BY <1>5, <1>6, KeepsTrans, SameTrans
<1> QED BY <1>1, <1>2, <1>3, <1>5, <1>6, <1>7

LEMMA TerminateDoneKeeps ==
    ASSUME NEW s, Typed(s), NEW r \in Records
    PROVE  LET p == TerminateDone(s, r)
           IN  Keeps(s, p) /\ SameConns(s, p) /\ p.serviceMap = s.serviceMap
<1> DEFINE x == EndProcess(s, r)
           p == RemoveServiceAbility(x, r)
<1>1. CASE s.ability[r].st # "TERMINATING"
  <2>1. TerminateDone(s, r) = s
    BY <1>1 DEF TerminateDone
  <2> QED BY <2>1, KeepsSelf DEF SameConns
<1>2. CASE s.ability[r].st = "TERMINATING"
  <2>1. TerminateDone(s, r) = p
    BY <1>2 DEF TerminateDone
  <2>2. OnlyHomes(x, p) /\ p.serviceMap = x.serviceMap /\ p.cache = x.cache
    BY DEF EndProcess, RemoveServiceAbility, OnlyHomes, Typed
  <2>3. Keeps(s, x) /\ SameConns(s, x) /\ x.serviceMap = s.serviceMap
    BY EndProcessKeeps
  <2> HIDE DEF x, p
  <2>4. Keeps(x, p) /\ SameConns(x, p)
    BY <2>2, HomesKeep DEF Held
  <2> QED BY <2>1, <2>2, <2>3, <2>4, KeepsTrans, SameTrans
<1> QED BY <1>1, <1>2

LEMMA TerminateOrCacheKeeps ==
    ASSUME NEW s, NEW E, Fits(s, E), NEW r \in s.serviceMap, s.ability[r].st = "ACTIVE"
    PROVE  LET p == TerminateOrCacheAbility(s, r)
           IN  Keeps(s, p) /\ SameConns(s, p) /\ p.serviceMap = s.serviceMap \ {r}
<1> DEFINE p == TerminateOrCacheAbility(s, r)
<1>1. CASE ServiceOf[r] \notin Cacheable
  <2>1. p = TerminateRecord(s, {r})
    BY <1>1 DEF TerminateOrCacheAbility
  <2> HIDE DEF p
  <2> QED BY <2>1, TerminateRecordKeeps DEF p
<1>2. CASE ServiceOf[r] \in Cacheable
  <2>1. PICK x, D : /\ p = TerminateRecord(x, D)
                    /\ Fits(x, E) /\ OnlyHomes(s, x) /\ D \subseteq InCache(s.cache)
                    /\ x.serviceMap = (s.serviceMap \ {r}) \cup D
                    /\ InCache(x.cache) = (InCache(s.cache) \ D) \cup {r}
    BY <1>2, CacheFits
  <2> HIDE DEF p
  <2>2. Held(x) \subseteq Held(s)
    BY <2>1 DEF Held
  <2>3. Keeps(s, x) /\ SameConns(s, x)
    BY <2>1, <2>2, HomesKeep
  <2>4. Keeps(x, p) /\ SameConns(x, p) /\ p.serviceMap = x.serviceMap \ D
    BY <2>1, TerminateRecordKeeps
  <2>5. InCache(s.cache) \cap s.serviceMap = {}
    BY DEF Fits, Housed
  <2>6. p.serviceMap = s.serviceMap \ {r}
    BY <2>1, <2>4, <2>5
  <2>7. Keeps(s, p) /\ SameConns(s, p)
    BY <2>3, <2>4, KeepsTrans, SameTrans
  <2> QED BY <2>6, <2>7 DEF p
<1> QED BY <1>1, <1>2

-----------------------------------------------------------------------------
(* Connections.                                                            *)

LEMMA CompleteDisconnectKeeps ==
    ASSUME NEW s, NEW E, Fits(s, E), NEW K
    PROVE  LET p == CompleteDisconnect(s, K)
           IN  /\ Keeps(s, p) /\ p.serviceMap = s.serviceMap /\ p.cache = s.cache
               /\ p.queue = s.queue
               /\ \A r : ConnectList(p, r) = ConnectList(s, r) \ K
               /\ \A r \in Records : /\ p.ability[r].started = s.ability[r].started
                                     /\ p.ability[r].st = s.ability[r].st
<1> DEFINE p == CompleteDisconnect(s, K)
           emptied == {r \in {s.conn[k].target : k \in K} : ConnectList(s, r) \subseteq K}
           Ended(k) == [s.conn[k] EXCEPT !.st = "DISCONNECTED",
                                         !.told = IF s.conn[k].callback THEN "disconnected"
                                                  ELSE s.conn[k].told]
<1>1. Typed(s) /\ \A r \in Records : s.ability[r] \in AbilityRecord
  BY FitsTypes DEF Fits
<1>2. /\ p.conn = [k \in Conns |-> IF k \in K THEN Ended(k) ELSE s.conn[k]]
      /\ p.ability = [r \in Records |->
             IF r \in emptied THEN [s.ability[r] EXCEPT !.isConnected = FALSE] ELSE s.ability[r]]
      /\ p.connList = s.connList \ K /\ p.connMap = s.connMap \ K
      /\ p.serviceMap = s.serviceMap /\ p.cache = s.cache
      /\ p.queue = s.queue
  BY <1>1 DEF CompleteDisconnect, Typed
<1> HIDE DEF p, emptied
<1>3. ASSUME NEW k \in Conns
      PROVE  /\ p.conn[k].target = s.conn[k].target /\ p.conn[k].owner = s.conn[k].owner
             /\ p.conn[k].st = "INIT" => s.conn[k].st = "INIT"
             /\ k \notin K => p.conn[k] = s.conn[k]
  <2>1. s.conn[k] \in ConnRecord
    BY ConnTypes
  <2>2. ASSUME NEW c \in ConnRecord, NEW t
        PROVE  /\ [c EXCEPT !.st = "DISCONNECTED", !.told = t].target = c.target
               /\ [c EXCEPT !.st = "DISCONNECTED", !.told = t].owner = c.owner
               /\ [c EXCEPT !.st = "DISCONNECTED", !.told = t].st = "DISCONNECTED"
    BY DEF ConnRecord
  <2>3. p.conn[k] = IF k \in K THEN Ended(k) ELSE s.conn[k]
    BY <1>2
  <2>4. Ended(k).target = s.conn[k].target /\ Ended(k).owner = s.conn[k].owner
        /\ Ended(k).st = "DISCONNECTED"
    BY <2>1, <2>2
  <2> HIDE DEF Ended
  <2> QED BY <2>3, <2>4
<1>4. ASSUME NEW r \in Records
      PROVE  /\ Follows(s.ability[r], p.ability[r])
             /\ p.ability[r].started = s.ability[r].started
             /\ p.ability[r].st = s.ability[r].st
  <2>1. ASSUME NEW a \in AbilityRecord
        PROVE  /\ [a EXCEPT !.isConnected = FALSE].started = a.started
               /\ [a EXCEPT !.isConnected = FALSE].st = a.st
    BY DEF AbilityRecord
  <2>2. p.ability[r] = IF r \in emptied THEN [s.ability[r] EXCEPT !.isConnected = FALSE]
                       ELSE s.ability[r]
    BY <1>2
  <2>3. FALSE \in BOOLEAN
    OBVIOUS
  <2>4. Follows(s.ability[r], [s.ability[r] EXCEPT !.isConnected = FALSE])
    BY <1>1, <2>3, FollowsUpdates
  <2> QED BY <1>1, <2>1, <2>2, <2>4, FollowsSelf
<1>5. Keeps(s, p)
  BY <1>2, <1>3, <1>4 DEF Keeps, Held
<1>6. s.connList \subseteq Conns
  BY ConnTypes
<1>7. \A r : ConnectList(p, r) = ConnectList(s, r) \ K
  <2>1. p.connList = s.connList \ K /\ \A k \in s.connList : p.conn[k].target = s.conn[k].target
    BY <1>2, <1>3, <1>6
  <2> QED BY <2>1 DEF ConnectList
<1> QED BY <1>2, <1>4, <1>5, <1>7 DEF p

\* A set with an element has no other one only if its cardinality is one.
LEMMA OtherElement ==
    ASSUME NEW S, NEW k \in S, Cardinality(S) # 1
    PROVE  S \ {k} # {}
<1>1. Cardinality({k}) = 1
  BY FS_Singleton
<1> QED BY <1>1

\* Of connections of different records those are dropped that are not the last.
LEMMA DisconnectKeeps ==
    ASSUME NEW s, NEW E, Fits(s, E), NEW K \in SUBSET Conns,
           \A j, k \in K : s.conn[j].target = s.conn[k].target => j = k
    PROVE  LET p == DisconnectAbility(s, K)
           IN  /\ Keeps(s, p) /\ p.serviceMap = s.serviceMap /\ p.cache = s.cache
               /\ \A r : ConnectList(s, r) # {} => ConnectList(p, r) # {}
               /\ \A r : ConnectList(p, r) \subseteq ConnectList(s, r)
               /\ \A r \in Records : /\ p.ability[r].started = s.ability[r].started
                                     /\ p.ability[r].st = s.ability[r].st
<1> DEFINE only == {k \in K : Cardinality(ConnectList(s, s.conn[k].target)) = 1}
           targets == {s.conn[k].target : k \in only}
           d == CompleteDisconnect(s, K \ only)
           C == [k \in Conns |-> IF k \in only THEN [d.conn[k] EXCEPT !.st = "DISCONNECTING"] ELSE d.conn[k]]
           A == [r \in Records |-> IF r \in targets THEN [d.ability[r] EXCEPT !.isConnected = FALSE]
                                   ELSE d.ability[r]]
           p == [d EXCEPT !.conn = C, !.ability = A]
           T == {<<"disconnectTimeout", k>> : k \in only}
           y == PostDelayed(p, T)
           z == Schedule(y, targets, "disconnect")
<1>1. DisconnectAbility(s, K) = z
  BY DEF DisconnectAbility
<1>2. Fits(d, E)
  BY CompleteDisconnectFits
<1>3. /\ Keeps(s, d) /\ d.serviceMap = s.serviceMap /\ d.cache = s.cache
      /\ \A r : ConnectList(d, r) = ConnectList(s, r) \ (K \ only)
      /\ \A r \in Records : /\ d.ability[r].started = s.ability[r].started
                            /\ d.ability[r].st = s.ability[r].st
  BY CompleteDisconnectKeeps
<1>4. T \subseteq Delayed
  BY DEF Delayed
<1>5. ASSUME NEW r, ConnectList(s, r) # {} PROVE ConnectList(s, r) \ (K \ only) # {}
  <2>1. CASE \E k \in K \ only : k \in ConnectList(s, r)
    <3>1. PICK k \in K \ only : k \in ConnectList(s, r)
      BY <2>1
    <3>2. s.conn[k].target = r /\ \A j \in ConnectList(s, r) : s.conn[j].target = r
      BY <3>1 DEF ConnectList
    <3>3. Cardinality(ConnectList(s, r)) # 1
      BY <3>1, <3>2
    <3>4. PICK j \in ConnectList(s, r) : j # k
      BY <3>1, <3>3, OtherElement
    <3>5. j \notin K
      BY <3>1, <3>2, <3>4
    <3> QED BY <3>4, <3>5
  <2> QED BY <1>5, <2>1
<1> HIDE DEF d, only, targets
<1>6. Typed(d) /\ (\A r \in Records : d.ability[r] \in AbilityRecord)
      /\ \A k \in Conns : d.conn[k] \in ConnRecord
  BY <1>2, FitsTypes, ConnTypes DEF Fits
<1>7. ASSUME NEW k \in Conns
      PROVE  /\ C[k] \in ConnRecord /\ C[k].target = d.conn[k].target
             /\ C[k].owner = d.conn[k].owner
             /\ C[k].st = "INIT" => d.conn[k].st = "INIT"
             /\ C[k].st = "DISCONNECTED" => d.conn[k].st = "DISCONNECTED"
  <2>1. ASSUME NEW c \in ConnRecord
        PROVE  /\ [c EXCEPT !.st = "DISCONNECTING"] \in ConnRecord
               /\ [c EXCEPT !.st = "DISCONNECTING"].st = "DISCONNECTING"
               /\ [c EXCEPT !.st = "DISCONNECTING"].owner = c.owner
               /\ [c EXCEPT !.st = "DISCONNECTING"].target = c.target
    BY DEF ConnRecord, ConnStates
  <2>2. C[k] = IF k \in only THEN [d.conn[k] EXCEPT !.st = "DISCONNECTING"] ELSE d.conn[k]
    OBVIOUS
  <2> HIDE DEF C
  <2> QED BY <1>6, <2>1, <2>2
<1>8. ASSUME NEW r \in Records
      PROVE  /\ A[r] \in AbilityRecord /\ A[r].st = d.ability[r].st
             /\ A[r].started = d.ability[r].started /\ Follows(d.ability[r], A[r])
  <2>1. ASSUME NEW a \in AbilityRecord
        PROVE  /\ [a EXCEPT !.isConnected = FALSE] \in AbilityRecord
               /\ [a EXCEPT !.isConnected = FALSE].st = a.st
               /\ [a EXCEPT !.isConnected = FALSE].started = a.started
    BY DEF AbilityRecord
  <2>2. A[r] = IF r \in targets THEN [d.ability[r] EXCEPT !.isConnected = FALSE] ELSE d.ability[r]
    OBVIOUS
  <2>3. FALSE \in BOOLEAN
    OBVIOUS
  <2>4. Follows(d.ability[r], [d.ability[r] EXCEPT !.isConnected = FALSE])
    BY <1>6, <2>3, FollowsUpdates
  <2> HIDE DEF A
  <2> QED BY <1>6, <2>1, <2>2, <2>4, FollowsSelf
<1>9. C \in [Conns -> ConnRecord] /\ A \in [Records -> AbilityRecord]
  <2>1. C = [k \in Conns |-> C[k]] /\ A = [r \in Records |-> A[r]]
    OBVIOUS
  <2> HIDE DEF C, A
  <2> QED BY <1>7, <1>8, <2>1
<1> HIDE DEF C, A
<1>10. /\ p.ability = A /\ p.conn = C /\ p.serviceMap = d.serviceMap /\ p.cache = d.cache
       /\ p.connList = d.connList /\ p.connMap = d.connMap /\ p.queue = d.queue
  BY <1>6 DEF Typed
<1>11. Typed(p)
  BY <1>6, <1>9 DEF Typed
<1> HIDE DEF p
<1>12. Keeps(d, p)
  BY <1>7, <1>8, <1>10 DEF Keeps, Held
<1>13. \A r : ConnectList(p, r) = ConnectList(d, r)
  <2>1. d.connList \subseteq Conns
    BY <1>2, ConnTypes
  <2> QED BY <1>7, <1>10, <2>1 DEF ConnectList
<1> HIDE DEF T
<1>14. OnlyTimers(p, y) /\ Typed(y)
  BY <1>4, <1>11, PostKeeps
<1> HIDE DEF y
<1>15. Keeps(p, y) /\ SameConns(p, y) /\ y.serviceMap = p.serviceMap /\ y.cache = p.cache
       /\ y.ability = p.ability
  BY <1>14, TimersKeep
<1>16. "disconnect" \in Messages \ {"load"}
  BY DEF Messages
<1>17. /\ Keeps(y, z) /\ SameConns(y, z) /\ z.serviceMap = y.serviceMap /\ z.cache = y.cache
       /\ \A r \in Records : /\ z.ability[r].st = y.ability[r].st
                             /\ z.ability[r].started = y.ability[r].started
  BY <1>14, <1>16, ScheduleKeeps
<1> HIDE DEF z
<1>18. Keeps(s, z)
  BY <1>3, <1>12, <1>15, <1>17, KeepsTrans
<1>19. \A r : ConnectList(z, r) = ConnectList(s, r) \ (K \ only)
  BY <1>3, <1>13, <1>15, <1>17, SameLists
<1>20. z.serviceMap = s.serviceMap /\ z.cache = s.cache
  BY <1>3, <1>10, <1>15, <1>17
<1>21. \A r \in Records : /\ z.ability[r].started = s.ability[r].started
                          /\ z.ability[r].st = s.ability[r].st
  BY <1>3, <1>8, <1>10, <1>15, <1>17
<1> QED BY <1>1, <1>5, <1>18, <1>19, <1>20, <1>21

\* A flag of a record.
LEMMA FlagKeeps ==
    ASSUME NEW s, Typed(s), NEW r \in Records, NEW b \in BOOLEAN
    PROVE  /\ LET p == [s EXCEPT !.ability[r].isConnected = b]
              IN  /\ Typed(p) /\ Keeps(s, p) /\ SameConns(s, p) /\ p.serviceMap = s.serviceMap
                  /\ p.cache = s.cache
           /\ LET p == [s EXCEPT !.ability[r].remote = b]
              IN  /\ Typed(p) /\ Keeps(s, p) /\ SameConns(s, p) /\ p.serviceMap = s.serviceMap
                  /\ p.cache = s.cache /\ \A q \in Records : p.ability[q].st = s.ability[q].st
<1> DEFINE a == s.ability[r]
           Ok(p) == /\ Typed(p) /\ Keeps(s, p) /\ SameConns(s, p) /\ p.serviceMap = s.serviceMap
                    /\ p.cache = s.cache /\ \A q \in Records : p.ability[q].st = s.ability[q].st
<1>1. a \in AbilityRecord /\ s.ability \in [Records -> AbilityRecord]
  BY DEF Typed
<1>2. ASSUME NEW c, c = [a EXCEPT !.isConnected = b] \/ c = [a EXCEPT !.remote = b]
      PROVE  Ok([s EXCEPT !.ability[r] = c])
  <2> DEFINE p == [s EXCEPT !.ability[r] = c]
  <2> HIDE DEF a
  <2>1. c \in AbilityRecord /\ c.st = a.st
    BY <1>1, <1>2 DEF AbilityRecord
  <2>2. Follows(a, c)
    <3>1. Follows(a, [a EXCEPT !.isConnected = b]) /\ Follows(a, [a EXCEPT !.remote = b])
      BY <1>1, FollowsUpdates
    <3> QED BY <1>2, <3>1
  <2> USE DEF a
  <2>3. Typed(p)
    BY <1>1, <2>1 DEF Typed
  <2>4. /\ Keeps(s, p) /\ SameConns(s, p) /\ p.serviceMap = s.serviceMap /\ p.cache = s.cache
        /\ p.ability[r] = c /\ \A q \in Records \ {r} : p.ability[q] = s.ability[q]
    BY <2>1, <2>2, SetKeeps
  <2> HIDE DEF p
  <2> QED BY <2>1, <2>3, <2>4 DEF p
<1>3. /\ [s EXCEPT !.ability[r].isConnected = b]
            = [s EXCEPT !.ability[r] = [a EXCEPT !.isConnected = b]]
      /\ [s EXCEPT !.ability[r].remote = b] = [s EXCEPT !.ability[r] = [a EXCEPT !.remote = b]]
  BY DEF Typed
<1> HIDE DEF a, Ok
<1>4. Ok([s EXCEPT !.ability[r].isConnected = b]) /\ Ok([s EXCEPT !.ability[r].remote = b])
  BY <1>2, <1>3
<1> QED BY <1>4 DEF Ok

LEMMA CommandKeeps ==
    ASSUME NEW s, Typed(s), NEW r \in Records
    PROVE  LET p == CommandAbility(s, r)
           IN  /\ Typed(p) /\ Keeps(s, p) /\ SameConns(s, p) /\ p.serviceMap = s.serviceMap
               /\ p.cache = s.cache /\ p.ability[r].started
               /\ \A q \in Records : p.ability[q].st = s.ability[q].st
<1> DEFINE a == s.ability[r]
           b == [a EXCEPT !.started = TRUE]
           x == [s EXCEPT !.ability[r] = b]
           p == Schedule(x, {r}, "command")
<1>1. a \in AbilityRecord /\ s.ability \in [Records -> AbilityRecord]
  BY DEF Typed
<1>2. CommandAbility(s, r) = p
  BY DEF CommandAbility, Typed
<1>3. b \in AbilityRecord /\ b.st = a.st /\ b.started
  BY <1>1 DEF AbilityRecord
<1>4. Follows(a, b)
  <2> HIDE DEF a
  <2> QED BY <1>1, FollowsUpdates
<1> HIDE DEF b
<1>5. Typed(x)
  BY <1>1, <1>3 DEF Typed
<1>6. /\ Keeps(s, x) /\ SameConns(s, x) /\ x.serviceMap = s.serviceMap /\ x.cache = s.cache
      /\ x.ability[r] = b /\ \A q \in Records \ {r} : x.ability[q] = s.ability[q]
  BY <1>3, <1>4, SetKeeps
<1> HIDE DEF x
<1>7. "command" \in Messages \ {"load"}
  BY DEF Messages
<1>8. /\ Typed(p) /\ Keeps(x, p) /\ SameConns(x, p) /\ p.serviceMap = x.serviceMap /\ p.cache = x.cache
      /\ \A q \in Records : p.ability[q].st = x.ability[q].st
                            /\ p.ability[q].started = x.ability[q].started
  BY <1>5, <1>7, ScheduleKeeps
<1> HIDE DEF p
<1>9. Keeps(s, p) /\ SameConns(s, p)
  BY <1>6, <1>8, KeepsTrans, SameTrans
<1> QED BY <1>2, <1>3, <1>6, <1>8, <1>9

LEMMA ConnectKeeps ==
    ASSUME NEW s, NEW E, Fits(s, E), NEW r \in Records
    PROVE  LET p == ConnectAbility(s, r)
           IN  Keeps(s, p) /\ SameConns(s, p) /\ p.serviceMap = s.serviceMap /\ p.cache = s.cache
<1> DEFINE connecting == InState(s, ConnectList(s, r), "CONNECTING")
           T == IF connecting = {} THEN {} ELSE {<<"connectTimeout", First(connecting)>>}
           x == PostDelayed(s, T)
           y == [x EXCEPT !.ability[r].isConnected = TRUE]
           p == Schedule(y, {r}, "connect")
<1>1. connecting \in SUBSET Conns
  <2>1. s.connList \subseteq Conns
    BY DEF Fits, Typed
  <2> QED BY <2>1 DEF InState, ConnectList
<1>2. T \subseteq Delayed
  <2>1. CASE connecting = {}
    BY <2>1
  <2>2. CASE connecting # {}
    <3>1. First(connecting) \in Conns
      BY <1>1, <2>2, FirstIsMember
    <3> QED BY <2>2, <3>1 DEF Delayed
  <2> QED BY <2>1, <2>2
<1>3. ConnectAbility(s, r) = p
  BY DEF ConnectAbility
<1>4. Typed(s)
  BY DEF Fits
<1> HIDE DEF T
<1>5. OnlyTimers(s, x) /\ Typed(x)
  BY <1>2, <1>4, PostKeeps
<1> HIDE DEF x
<1>6. Keeps(s, x) /\ SameConns(s, x) /\ x.serviceMap = s.serviceMap /\ x.cache = s.cache
  BY <1>5, TimersKeep
<1>7. Typed(y) /\ Keeps(x, y) /\ SameConns(x, y) /\ y.serviceMap = x.serviceMap /\ y.cache = x.cache
  BY <1>5, FlagKeeps
<1> HIDE DEF y
<1>8. "connect" \in Messages \ {"load"}
  BY DEF Messages
<1>9. Keeps(y, p) /\ SameConns(y, p) /\ p.serviceMap = y.serviceMap /\ p.cache = y.cache
  BY <1>7, <1>8, ScheduleKeeps
<1> HIDE DEF p
<1>10. Keeps(s, p) /\ SameConns(s, p)
  BY <1>6, <1>7, <1>9, KeepsTrans, SameTrans
<1> QED BY <1>3, <1>6, <1>7, <1>9, <1>10

LEMMA CompleteConnectKeeps ==
    ASSUME NEW s, NEW E, Fits(s, E), NEW r \in Records, NEW K \in SUBSET Conns,
           K = {} \/ s.ability[r].st \notin {"INITIAL", "INACTIVATING"},
           NEW p, p = CompleteConnect(s, r, K), Completes(s, r, K, p), p.serviceMap = s.serviceMap
    PROVE  /\ Keeps(s, p) /\ p.cache = s.cache
           /\ \A q : ConnectList(p, q) = ConnectList(s, q)
           /\ \A q \in Records : p.ability[q].started = s.ability[q].started
<1> DEFINE a == s.ability[r]
           b == IF K = {} THEN a ELSE [a EXCEPT !.st = "ACTIVE"]
<1>1. Typed(s) /\ s.ability \in [Records -> AbilityRecord] /\ a \in AbilityRecord
  BY FitsTypes DEF Fits
<1>2. p.ability = [s.ability EXCEPT ![r] = b]
  <2>1. [s EXCEPT !.ability[r].st = IF K = {} THEN @ ELSE "ACTIVE"].ability
        = [s.ability EXCEPT ![r] = [a EXCEPT !.st = IF K = {} THEN @ ELSE "ACTIVE"]]
    BY <1>1 DEF Typed
  <2>2. [a EXCEPT !.st = IF K = {} THEN @ ELSE "ACTIVE"] = b
    BY <1>1 DEF AbilityRecord
  <2> QED BY <2>1, <2>2 DEF Completes
<1>3. Follows(a, b) /\ b.started = a.started
      /\ (a.st \in {"INITIAL", "INACTIVATING"} => b.st = a.st)
  <2>1. ASSUME NEW c \in AbilityRecord
        PROVE  [c EXCEPT !.st = "ACTIVE"].started = c.started
    BY DEF AbilityRecord
  <2> HIDE DEF a
  <2>2. Follows(a, [a EXCEPT !.st = "ACTIVE"])
    BY <1>1, FollowsUpdates
  <2> QED BY <1>1, <2>1, <2>2, FollowsSelf DEF a
<1> HIDE DEF b
<1>4. p.ability[r] = b /\ \A q \in Records \ {r} : p.ability[q] = s.ability[q]
  BY <1>1, <1>2
<1>5. \A q \in Records : /\ Follows(s.ability[q], p.ability[q])
                         /\ s.ability[q].st \in {"INITIAL", "INACTIVATING"}
                               => p.ability[q].st = s.ability[q].st
                         /\ p.ability[q].started = s.ability[q].started
  BY <1>3, <1>4, FollowsSelf
<1>6. Keeps(s, p) /\ p.cache = s.cache
  BY <1>5 DEF Keeps, Completes, Held
<1>7. \A q : ConnectList(p, q) = ConnectList(s, q)
  <2>1. s.connList \subseteq Conns
    BY ConnTypes
  <2> QED BY <2>1 DEF ConnectList, Completes
<1> QED BY <1>5, <1>6, <1>7

-----------------------------------------------------------------------------
(* Starting.                                                               *)

Fresh(byConnect) == [Blank EXCEPT !.st = "INITIAL", !.byConnect = byConnect]

LEMMA FreshFacts ==
    ASSUME NEW byConnect \in BOOLEAN
    PROVE  LET a == Fresh(byConnect)
           IN  /\ a \in AbilityRecord /\ a.st = "INITIAL" /\ a.byConnect = byConnect /\ ~a.started
               /\ Loads(a)
<1> DEFINE a == Fresh(byConnect)
<1>1. a.inbox = <<>> /\ a.st = "INITIAL" /\ a.byConnect = byConnect /\ ~a.started
  BY DEF Fresh, Blank
<1>2. Blank \in AbilityRecord
  BY BlankTypes
<1>3. ASSUME NEW c \in AbilityRecord
      PROVE  [c EXCEPT !.st = "INITIAL", !.byConnect = byConnect] \in AbilityRecord
  BY DEF AbilityRecord, AbilityStates
<1>4. a \in AbilityRecord
  BY <1>2, <1>3 DEF Fresh
<1> HIDE DEF a
<1>5. Loads(a)
  BY <1>1 DEF Loads
<1> QED BY <1>1, <1>4, <1>5 DEF a

\* GetOrCreateServiceRecord finds a record in the service map or in the cache, or makes one.
Found(s, g, v, byConnect) ==
    /\ g.s.conn = s.conn /\ g.s.connList = s.connList /\ g.s.connMap = s.connMap
    /\ g.s.queue = s.queue
    /\ g.s.serviceMap = s.serviceMap \cup {g.r}
    /\ InCache(g.s.cache) \subseteq InCache(s.cache)
    /\ \/ g.loaded = TRUE /\ g.s.ability = s.ability /\ g.r \in s.serviceMap
       \/ g.loaded = TRUE /\ g.s.ability = s.ability /\ g.r \in InCache(s.cache)
       \/ /\ g.loaded = FALSE /\ g.r \in Free(s, v)
          /\ g.s.ability = [s.ability EXCEPT ![g.r] = Fresh(byConnect)]

LEMMA GetFinds ==
    ASSUME NEW s, NEW E, Fits(s, E), NEW v \in Services, RoomIn(s, v), NEW byConnect \in BOOLEAN
    PROVE  Found(s, GetOrCreateServiceRecord(s, v, byConnect), v, byConnect)
<1> DEFINE g == GetOrCreateServiceRecord(s, v, byConnect)
<1>1. Typed(s) /\ Housed(s)
  BY DEF Fits
<1>2. s.serviceMap \subseteq Records /\ s.cache \in Seq(Records) /\ InCache(s.cache) \subseteq Records
  BY FitsTypes
<1>3. CASE Mapped(s, v) # {}
  <2> DEFINE r == CHOOSE r \in Mapped(s, v) : TRUE
  <2>1. r \in Mapped(s, v)
    BY <1>3
  <2>2. g = [s |-> s, r |-> r, loaded |-> TRUE]
    BY <1>3 DEF GetOrCreateServiceRecord
  <2> HIDE DEF r
  <2>3. g.s = s /\ g.r = r /\ g.loaded = TRUE
    BY <2>2
  <2> HIDE DEF g
  <2>4. r \in s.serviceMap
    BY <2>1 DEF Mapped
  <2>5. Found(s, g, v, byConnect)
    BY <2>3, <2>4 DEF Found
  <2> QED BY <2>5 DEF g
<1>4. CASE Mapped(s, v) = {} /\ v \in Cacheable /\ Cached(s, v) # {}
  <2> DEFINE i == OldestIndex(Cached(s, v))
             r == s.cache[i]
             p == AddToServiceMap([s EXCEPT !.cache = Drop(@, r)], r)
  <2>1. Cached(s, v) \in SUBSET Nat
    BY <1>2 DEF Cached
  <2>2. \E m \in Cached(s, v) : \A j \in Cached(s, v) : m <= j
    BY <1>4, <2>1, LeastElement
  <2>3. i \in Cached(s, v)
    BY <2>2 DEF OldestIndex
  <2>4. r \in InCache(s.cache) /\ ServiceOf[r] = v
    BY <2>3 DEF Cached, InCache
  <2>5. g = [s |-> p, r |-> r, loaded |-> TRUE]
    BY <1>4 DEF GetOrCreateServiceRecord
  <2>6. /\ SameRest(s, p) /\ p.ability = s.ability
        /\ p.serviceMap = s.serviceMap \cup {r} /\ InCache(p.cache) = InCache(s.cache) \ {r}
    BY <1>4, <2>4, ReuseFits
  <2> HIDE DEF p, r, i
  <2>7. g.s = p /\ g.r = r /\ g.loaded = TRUE
    BY <2>5
  <2> HIDE DEF g
  <2>8. Found(s, g, v, byConnect)
    BY <2>4, <2>6, <2>7 DEF Found, SameRest
  <2> QED BY <2>8 DEF g
<1>5. CASE Mapped(s, v) = {} /\ ~(v \in Cacheable /\ Cached(s, v) # {})
  <2> DEFINE r == CHOOSE r \in Free(s, v) : TRUE
             x == [s EXCEPT !.ability[r] = Fresh(byConnect)]
             p == AddToServiceMap(x, r)
  <2>1. r \in Free(s, v)
    BY <1>5 DEF RoomIn
  <2>2. r \in Records /\ ServiceOf[r] = v
    BY <2>1 DEF Free
  <2>3. g = [s |-> p, r |-> r, loaded |-> FALSE]
    BY <1>5 DEF GetOrCreateServiceRecord, Fresh
  <2> HIDE DEF r
  <2>4. /\ x.serviceMap = s.serviceMap /\ x.cache = s.cache
        /\ x.conn = s.conn /\ x.connList = s.connList /\ x.connMap = s.connMap
        /\ x.queue = s.queue /\ x.ability = [s.ability EXCEPT ![r] = Fresh(byConnect)]
        /\ [x EXCEPT !.serviceMap = @ \cup {r}]
              = [s EXCEPT !.serviceMap = s.serviceMap \cup {r}, !.ability = x.ability]
    BY <1>1 DEF Typed
  <2> HIDE DEF x
  <2>5. Mapped(x, ServiceOf[r]) = {}
    BY <1>5, <2>2, <2>4 DEF Mapped
  <2>6. p = [s EXCEPT !.serviceMap = s.serviceMap \cup {r}, !.ability = x.ability]
    BY <2>4, <2>5 DEF AddToServiceMap
  <2>7. /\ p.serviceMap = s.serviceMap \cup {r} /\ p.cache = s.cache
        /\ p.conn = s.conn /\ p.connList = s.connList /\ p.connMap = s.connMap
        /\ p.queue = s.queue /\ p.ability = x.ability
    BY <1>1, <2>6 DEF Typed
  <2> HIDE DEF p
  <2>8. g.s = p /\ g.r = r /\ g.loaded = FALSE
    BY <2>3
  <2> HIDE DEF g
  <2>9. Found(s, g, v, byConnect)
    BY <2>1, <2>4, <2>7, <2>8 DEF Found
  <2> QED BY <2>9 DEF g
<1> QED BY <1>3, <1>4, <1>5

\* The record found is the only one whose use is to be shown yet.
LEMMA FoundSound ==
    ASSUME NEW s, NEW E, Fits(s, E), Uses(s), NEW v \in Services, NEW byConnect \in BOOLEAN,
           NEW g, Found(s, g, v, byConnect)
    PROVE  /\ g.r \in Records /\ Sound(g.s) /\ \A q \in g.s.serviceMap \ {g.r} : Needed(g.s, q)
           /\ g.s.ability[g.r].st # "none"
           /\ \/ g.loaded = TRUE /\ Uses(g.s)
              \/ g.loaded = TRUE /\ g.s.ability[g.r].st = "ACTIVE"
              \/ g.loaded = FALSE /\ g.s.ability[g.r] = Fresh(byConnect)
<1> DEFINE p == g.s
           r == g.r
<1>1. /\ Housed(s) /\ s.serviceMap \subseteq Records /\ InCache(s.cache) \subseteq Records
      /\ s.ability \in [Records -> AbilityRecord]
      /\ \A k \in s.connMap : k \in Conns /\ s.conn[k].target \in Records
  BY FitsTypes, ConnTypes DEF Fits, Told
<1>2. Sound(s) /\ \A q \in s.serviceMap : Needed(s, q)
  BY DEF Uses
<1>3. \A q : ConnectList(p, q) = ConnectList(s, q)
  BY DEF Found, ConnectList
<1>4. CASE g.loaded = TRUE /\ p.ability = s.ability /\ r \in Held(s)
  <2>1. Sound(p)
    BY <1>2, <1>4 DEF Sound, Found, Held
  <2>2. \A q \in s.serviceMap : Needed(p, q)
    BY <1>2, <1>3, <1>4 DEF Needed
  <2>3. r \in s.serviceMap => p.serviceMap = s.serviceMap
    BY DEF Found
  <2>4. r \in s.serviceMap \/ (r \in InCache(s.cache) /\ s.ability[r].st = "ACTIVE")
    BY <1>1, <1>4 DEF Held, Housed
  <2>5. s.ability[r].st # "none"
    BY <1>1, <1>4 DEF Held, Housed, Home
  <2> QED BY <1>1, <1>4, <2>1, <2>2, <2>3, <2>4, <2>5 DEF Uses, Held, Found
<1>5. CASE /\ g.loaded = FALSE /\ r \in Free(s, v)
           /\ p.ability = [s.ability EXCEPT ![r] = Fresh(byConnect)]
  <2>1. r \in Records /\ s.ability[r].st = "none"
    BY <1>5 DEF Free
  <2>2. p.ability[r] = Fresh(byConnect) /\ \A q \in Records \ {r} : p.ability[q] = s.ability[q]
    BY <1>1, <1>5, <2>1
  <2>3. Fresh(byConnect).st = "INITIAL" /\ Loads(Fresh(byConnect))
    BY FreshFacts
  <2>4. Sound(p)
    <3>1. ASSUME NEW k \in Conns, <<"completeConnect", k>> \in InCache(p.queue)
          PROVE  /\ p.conn[k].target \in Records
                 /\ p.ability[p.conn[k].target].st \in {"ACTIVE", "TERMINATING"}
      BY <1>2, <2>1, <2>2, <3>1 DEF Sound, Found
    <3>2. \A j, k \in p.connMap :
             p.conn[j].owner = p.conn[k].owner /\ p.conn[j].target = p.conn[k].target => j = k
      BY <1>2 DEF Sound, Found
    <3>3. ASSUME NEW k \in p.connMap
          PROVE  p.ability[p.conn[k].target].st # "none" /\ p.conn[k].st # "DISCONNECTED"
      BY <1>1, <1>2, <2>2, <2>3 DEF Sound, Found
    <3>4. \A k \in Conns : p.conn[k].st = "INIT" => p.conn[k].target = NoRecord
      BY <1>2 DEF Sound, Found
    <3>5. ASSUME NEW q \in Held(p) PROVE Loads(p.ability[q])
      <4>1. q = r \/ q \in Held(s)
        BY DEF Held, Found
      <4> QED BY <1>1, <1>2, <2>1, <2>2, <2>3, <4>1 DEF Sound, Held
    <3> QED BY <3>1, <3>2, <3>3, <3>4, <3>5 DEF Sound
  <2>5. \A q \in p.serviceMap \ {r} : Needed(p, q)
    <3>1. \A q \in p.serviceMap \ {r} : q \in s.serviceMap /\ p.ability[q] = s.ability[q]
      BY <1>1, <2>2 DEF Found
    <3> QED BY <1>2, <1>3, <3>1 DEF Needed
  <2> QED BY <1>5, <2>1, <2>2, <2>3, <2>4, <2>5
<1> QED BY <1>4, <1>5 DEF Found, Held

LEMMA LoadSound ==
    ASSUME NEW s, Typed(s), Sound(s), NEW r \in Records, s.ability[r].st = "INITIAL"
    PROVE  LET p == LoadAbility(s, r)
           IN  /\ Sound(p) /\ p.serviceMap = s.serviceMap /\ p.conn = s.conn
               /\ \A q \in Records : Needed(s, q) => Needed(p, q)
<1> DEFINE T == {<<"loadTimeout", r>>}
           a == s.ability[r]
           b == [a EXCEPT !.process = "running", !.inbox = <<"load">>]
           x == [s EXCEPT !.ability[r] = b]
           p == PostDelayed(x, T)
<1>1. a \in AbilityRecord /\ s.ability \in [Records -> AbilityRecord]
  BY DEF Typed
<1>2. LoadAbility(s, r) = p
  BY DEF LoadAbility, Typed
<1>3. /\ b.st = a.st /\ b.started = a.started /\ b.byConnect = a.byConnect
      /\ b.inbox = <<"load">> /\ b \in AbilityRecord
  <2>1. <<"load">> \in Seq(Messages)
    BY DEF Messages
  <2> QED BY <1>1, <2>1 DEF AbilityRecord
<1> HIDE DEF b
<1>4. Loads(b)
  BY <1>3 DEF Loads
<1>5. OnlyAbilities(s, x) /\ x.ability = [s.ability EXCEPT ![r] = b] /\ Typed(x)
  BY <1>1, <1>3 DEF Typed, OnlyAbilities
<1> HIDE DEF x
<1>6. T \subseteq Delayed
  BY DEF Delayed
<1> HIDE DEF T
<1>7. OnlyTimers(x, p)
  BY <1>5, <1>6, PostKeeps
<1> HIDE DEF p
<1>8. /\ p.conn = s.conn /\ p.connList = s.connList /\ p.connMap = s.connMap
      /\ p.queue = s.queue /\ p.serviceMap = s.serviceMap /\ p.cache = s.cache
      /\ p.ability[r] = b /\ \A q \in Records \ {r} : p.ability[q] = s.ability[q]
  BY <1>1, <1>5, <1>7 DEF OnlyAbilities, OnlyTimers
<1>9. \A q \in Records : /\ p.ability[q].st = s.ability[q].st
                         /\ p.ability[q].started = s.ability[q].started
                         /\ p.ability[q].byConnect = s.ability[q].byConnect
  BY <1>3, <1>8
<1>10. Sound(p)
  <2>1. ASSUME NEW k \in Conns, <<"completeConnect", k>> \in InCache(p.queue)
        PROVE  /\ p.conn[k].target \in Records
               /\ p.ability[p.conn[k].target].st \in {"ACTIVE", "TERMINATING"}
    BY <1>8, <1>9, <2>1 DEF Sound
  <2>2. \A j, k \in p.connMap :
           p.conn[j].owner = p.conn[k].owner /\ p.conn[j].target = p.conn[k].target => j = k
    BY <1>8 DEF Sound
  <2>3. ASSUME NEW k \in p.connMap
        PROVE  p.ability[p.conn[k].target].st # "none" /\ p.conn[k].st # "DISCONNECTED"
    <3>1. k \in s.connMap /\ s.ability[s.conn[k].target].st # "none" /\ p.conn[k] = s.conn[k]
          /\ s.conn[k].st # "DISCONNECTED"
      BY <1>8 DEF Sound
    <3>2. CASE s.conn[k].target \in Records
      BY <1>9, <3>1, <3>2
    <3>3. CASE s.conn[k].target \notin Records
      <4>1. p.ability = [s.ability EXCEPT ![r] = b]
        BY <1>5, <1>7 DEF OnlyTimers
      <4> QED BY <1>1, <3>1, <3>3, <4>1
    <3> QED BY <3>2, <3>3
  <2>4. \A k \in Conns : p.conn[k].st = "INIT" => p.conn[k].target = NoRecord
    BY <1>8 DEF Sound
  <2>5. ASSUME NEW q \in Held(p) PROVE Loads(p.ability[q])
    <3>1. q \in Held(s) /\ q \in Records
      <4>1. s.serviceMap \subseteq Records /\ InCache(s.cache) \subseteq Records
        BY DEF Typed, InCache
      <4> QED BY <1>8, <4>1 DEF Held
    <3> QED BY <1>4, <1>8, <3>1 DEF Sound
  <2> QED BY <2>1, <2>2, <2>3, <2>4, <2>5 DEF Sound
<1>11. \A q \in Records : Needed(s, q) => Needed(p, q)
  BY <1>8, <1>9 DEF Needed, ConnectList
<1> QED BY <1>2, <1>8, <1>10, <1>11

\* Requests and timers are not what the invariant is about.
LEMMA RestKeeps ==
    ASSUME NEW s, NEW p, p.ability = s.ability, p.conn = s.conn, p.serviceMap = s.serviceMap,
           p.cache = s.cache, p.connList = s.connList, p.connMap = s.connMap, p.queue = s.queue
    PROVE  /\ Keeps(s, p) /\ SameConns(s, p)
           /\ Uses(s) => Uses(p)
           /\ \A r : ConnectList(p, r) = ConnectList(s, r)
<1>1. Keeps(s, p) /\ SameConns(s, p)
  BY FollowsSelf DEF Keeps, SameConns, Held
<1>2. \A r : ConnectList(p, r) = ConnectList(s, r)
  BY DEF ConnectList
<1>3. Uses(s) => Uses(p)
  BY <1>2 DEF Uses, Sound, Needed, Held
<1> QED BY <1>1, <1>2, <1>3

LEMMA EnqueueUses ==
    ASSUME NEW s, NEW E, Fits(s, E), Uses(s), NEW v \in Services, s.reqs[v] < MaxReqs
    PROVE  LET p == EnqueueStartServiceReq(s, v) IN Uses(p) /\ p.conn = s.conn
<1> DEFINE T == IF s.reqs[v] = 0 THEN {<<"startServiceTimeout", v>>} ELSE {}
           x == [s EXCEPT !.reqs[v] = @ + 1]
           p == PostDelayed(x, T)
<1>1. Typed(s) /\ s.reqs \in [Services -> 0..MaxReqs] /\ MaxReqs \in Nat
  BY ConnectConstants DEF Fits, Typed
<1>2. EnqueueStartServiceReq(s, v) = p
  BY DEF EnqueueStartServiceReq
<1>3. /\ x.ability = s.ability /\ x.conn = s.conn /\ x.serviceMap = s.serviceMap
      /\ x.cache = s.cache /\ x.connList = s.connList
      /\ x.connMap = s.connMap /\ x.queue = s.queue /\ x.reqs = [s.reqs EXCEPT ![v] = @ + 1]
  BY <1>1 DEF Typed
<1>4. x.reqs \in [Services -> 0..MaxReqs]
  BY <1>1, <1>3
<1>5. Typed(x)
  <2>1. x = [s EXCEPT !.reqs = x.reqs]
    BY <1>1 DEF Typed
  <2> HIDE DEF x
  <2> QED BY <1>1, <1>4, <2>1 DEF Typed
<1> HIDE DEF x
<1>6. T \subseteq Delayed
  BY DEF Delayed
<1> HIDE DEF T
<1>7. OnlyTimers(x, p)
  BY <1>5, <1>6, PostKeeps
<1> HIDE DEF p
<1>8. Uses(p) /\ p.conn = s.conn
  BY <1>3, <1>7, RestKeeps DEF OnlyTimers
<1> QED BY <1>2, <1>8

LEMMA StartUses ==
    ASSUME NEW s, NEW E, Fits(s, E), NEW v \in Services, RoomIn(s, v),
           s.reqs[v] < MaxReqs, Uses(s)
    PROVE  LET p == StartAbilityLocked(s, v) IN Uses(p) /\ p.conn = s.conn
<1> DEFINE g == GetOrCreateServiceRecord(s, v, FALSE)
           p == StartAbilityLocked(s, v)
<1>1. /\ SameRest(s, g.s) /\ g.r \in g.s.serviceMap
      /\ g.loaded => Fits(g.s, E) /\ g.s.ability = s.ability
      /\ ~g.loaded => Fits(g.s, E \cup {<<"loadTimeout", g.r>>}) /\ Ready(g.s, g.r)
  BY GetFits
<1>2. p = IF ~g.loaded THEN LoadAbility(g.s, g.r)
          ELSE IF g.s.ability[g.r].st = "ACTIVE" THEN CommandAbility(g.s, g.r)
          ELSE EnqueueStartServiceReq(g.s, v)
  BY DEF StartAbilityLocked
<1>3. Found(s, g, v, FALSE)
  BY GetFinds
<1> HIDE DEF g, p
<1>4. /\ g.r \in Records /\ Sound(g.s) /\ \A q \in g.s.serviceMap \ {g.r} : Needed(g.s, q)
      /\ \/ g.loaded = TRUE /\ Uses(g.s)
         \/ g.loaded = TRUE /\ g.s.ability[g.r].st = "ACTIVE"
         \/ g.loaded = FALSE /\ g.s.ability[g.r] = Fresh(FALSE)
  BY <1>3, FoundSound
<1>5. PICK x, r : x = g.s /\ r = g.r /\ x.conn = s.conn
  BY <1>3 DEF Found
<1>6. CASE ~g.loaded
  <2>1. x.ability[r].st = "INITIAL" /\ ~x.ability[r].byConnect
    BY <1>4, <1>5, <1>6, FreshFacts
  <2>2. Typed(x) /\ x.serviceMap \subseteq Records
    BY <1>1, <1>5, <1>6, FitsTypes DEF Fits
  <2>3. p = LoadAbility(x, r) /\ r \in Records /\ Sound(x)
    BY <1>2, <1>4, <1>5, <1>6
  <2>4. \A q \in x.serviceMap : Needed(x, q)
    BY <1>4, <1>5, <2>1 DEF Needed
  <2>5. /\ Sound(p) /\ p.serviceMap = x.serviceMap /\ p.conn = x.conn
        /\ \A q \in Records : Needed(x, q) => Needed(p, q)
    BY <2>1, <2>2, <2>3, LoadSound
  <2> QED BY <1>5, <2>2, <2>4, <2>5 DEF Uses, p
<1>7. CASE g.loaded /\ x.ability[r].st = "ACTIVE"
  <2>1. p = CommandAbility(x, r) /\ r \in Records /\ Sound(x) /\ Fits(x, E)
    BY <1>1, <1>2, <1>4, <1>5, <1>7
  <2>2. Typed(x) /\ x.serviceMap \subseteq Records
    BY <2>1, FitsTypes DEF Fits
  <2>3. /\ Keeps(x, p) /\ SameConns(x, p) /\ p.serviceMap = x.serviceMap /\ p.ability[r].started
    BY <2>1, <2>2, CommandKeeps
  <2>4. Sound(p)
    BY <2>1, <2>3, KeepsSound
  <2>5. ASSUME NEW q \in p.serviceMap PROVE Needed(p, q)
    <3>1. CASE q = r
      BY <2>3, <3>1 DEF Needed
    <3>2. CASE q # r
      <4>1. q \in Records /\ q \in Held(p) /\ Needed(x, q) /\ ConnectList(p, q) = ConnectList(x, q)
        BY <1>4, <1>5, <2>2, <2>3, <3>2, SameLists DEF Held
      <4> QED BY <2>3, <4>1, NeededKept
    <3> QED BY <3>1, <3>2
  <2> QED BY <1>5, <2>3, <2>4, <2>5 DEF Uses, SameConns, p
<1>8. CASE g.loaded /\ x.ability[r].st # "ACTIVE"
  <2>1. p = EnqueueStartServiceReq(x, v) /\ Fits(x, E) /\ Uses(x) /\ x.reqs = s.reqs
    BY <1>1, <1>2, <1>4, <1>5, <1>8 DEF SameRest
  <2>2. Uses(p) /\ p.conn = x.conn
    BY <2>1, EnqueueUses
  <2> QED BY <1>5, <2>2 DEF p
<1> QED BY <1>6, <1>7, <1>8

LEMMA CompleteStartUses ==
    ASSUME NEW s, NEW E, Fits(s, E), running.task \in E, NEW v \in Services,
           s.reqs[v] = 0 \/ RoomIn(s, v), Uses(s)
    PROVE  LET p == CompleteStartServiceReq(s, v) IN Uses(p) /\ p.conn = s.conn
<1> DEFINE N == s.reqs[v]
           x == [s EXCEPT !.reqs[v] = 0]
           T == {<<"startServiceTimeout", v>>}
           taken == CancelTask(x, T)
           f == CHOOSE f : Restarts(f, N, taken, v)
<1>1. Typed(s)
  BY DEF Fits
<1>2. s.reqs \in [Services -> 0..MaxReqs] /\ MaxReqs \in Nat /\ N \in 0..MaxReqs
  BY <1>1, ConnectConstants DEF Typed
<1>3. CASE N = 0
  BY <1>3 DEF CompleteStartServiceReq
<1>4. CASE N # 0
  <2>1. CompleteStartServiceReq(s, v) = f[N]
    BY <1>4 DEF CompleteStartServiceReq, Restarts
  <2>2. Restarts(f, N, taken, v)
    BY <1>2, RestartsExist, SMTT(60)
  <2>3. Fits(taken, E) /\ RoomIn(taken, v) /\ taken.reqs[v] = 0
    <3>1. /\ Fits(taken, E) /\ taken.serviceMap = s.serviceMap /\ taken.ability = s.ability
          /\ taken.reqs[v] = 0
      BY TakeFits
    <3> QED BY <1>4, <3>1 DEF RoomIn, Mapped, Free
  <2>4. Uses(taken) /\ taken.conn = s.conn
    <3>1. /\ x.ability = s.ability /\ x.conn = s.conn /\ x.serviceMap = s.serviceMap
          /\ x.cache = s.cache /\ x.connList = s.connList /\ x.connMap = s.connMap
          /\ x.queue = s.queue
      BY <1>1 DEF Typed
    <3>2. /\ taken.ability = x.ability /\ taken.conn = x.conn /\ taken.serviceMap = x.serviceMap
          /\ taken.cache = x.cache /\ taken.connList = x.connList /\ taken.connMap = x.connMap
          /\ taken.queue = x.queue
      BY <1>1 DEF Typed, CancelTask
    <3> HIDE DEF taken, x
    <3> QED BY <3>1, <3>2, RestKeeps
  <2> HIDE DEF taken, f
  <2> DEFINE Bad == {n \in 0..N : ~(Fits(f[n], E) /\ RoomIn(f[n], v) /\ f[n].reqs[v] <= n
                                      /\ Uses(f[n]) /\ f[n].conn = s.conn)}
  <2>5. Bad = {}
    <3> SUFFICES ASSUME Bad # {} PROVE FALSE
      OBVIOUS
    <3>1. Bad \in SUBSET Nat
      OBVIOUS
    <3>2. PICK n \in Bad : \A j \in Bad : n <= j
      BY <3>1, LeastElement
    <3>3. CASE n = 0
      <4>1. f[0] = taken
        BY <1>2, <2>2 DEF Restarts
      <4> QED BY <2>3, <2>4, <3>2, <3>3, <4>1
    <3>4. CASE n # 0
      <4>1. n \in 1..N /\ n - 1 \in 0..N /\ n - 1 \notin Bad
        BY <1>2, <3>2, <3>4
      <4>2. f[n] = StartAbilityLocked(f[n - 1], v)
        <5> HIDE DEF Bad
        <5>1. n \in 0..N /\ n # 0
          BY <4>1
        <5> QED BY ONLY <2>2, <5>1 DEF Restarts
      <4> DEFINE p == f[n - 1]
                 q == f[n]
      <4>3. Fits(p, E) /\ RoomIn(p, v) /\ p.reqs[v] <= n - 1 /\ Uses(p) /\ p.conn = s.conn
        BY <4>1
      <4> HIDE DEF p, Bad
      <4>4. p.reqs \in [Services -> 0..MaxReqs] /\ p.reqs[v] \in Nat
        BY <1>2, <4>3 DEF Fits, Typed
      <4>5. p.reqs[v] < MaxReqs
        BY <1>2, <4>1, <4>3, <4>4
      <4>6. q = StartAbilityLocked(p, v)
        BY <4>2 DEF p
      <4> HIDE DEF q
      <4>7. Fits(q, E) /\ RoomIn(q, v) /\ (q.reqs = p.reqs \/ q.reqs = [p.reqs EXCEPT ![v] = @ + 1])
        BY <4>3, <4>5, <4>6, StartFits
      <4>8. q.reqs[v] <= n
        BY <4>1, <4>3, <4>4, <4>7
      <4>9. Uses(q) /\ q.conn = s.conn
        BY <4>3, <4>5, <4>6, StartUses
      <4> QED BY <3>2, <4>7, <4>8, <4>9 DEF Bad, q
    <3> QED BY <3>3, <3>4
  <2>6. N \in 0..N
    BY <1>2
  <2> QED BY <2>1, <2>5, <2>6
<1> QED BY <1>3, <1>4

LEMMA RestartUses ==
    ASSUME NEW s, NEW E, Fits(s, E), NEW v \in Services, RoomIn(s, v),
           s.reqs[v] < MaxReqs, NEW restartNow \in BOOLEAN, Uses(s)
    PROVE  Uses(RestartAbility(s, v, restartNow))
<1> DEFINE T == {<<"restartResident", v>>}
           x == [s EXCEPT !.restartList = @ \cup {v}]
           p == RestartAbility(s, v, restartNow)
<1>1. CASE restartNow
  BY <1>1, StartUses DEF RestartAbility
<1>2. CASE ~restartNow /\ v \in s.restartList
  BY <1>2 DEF RestartAbility
<1>3. CASE ~restartNow /\ v \notin s.restartList
  <2>1. p = PostDelayed(x, T)
    BY <1>3 DEF RestartAbility
  <2>2. Typed(s)
    BY DEF Fits
  <2>3. /\ x.ability = s.ability /\ x.conn = s.conn /\ x.serviceMap = s.serviceMap
        /\ x.cache = s.cache /\ x.connList = s.connList
        /\ x.connMap = s.connMap /\ x.queue = s.queue
    BY <2>2 DEF Typed
  <2>4. Typed(x)
    BY <2>2 DEF Typed
  <2> HIDE DEF x
  <2>5. T \subseteq Delayed
    BY DEF Delayed
  <2> HIDE DEF T
  <2>6. PICK y : y = PostDelayed(x, T) /\ OnlyTimers(x, y)
    BY <2>4, <2>5, PostKeeps
  <2>7. Uses(y)
    BY <2>3, <2>6, RestKeeps DEF OnlyTimers
  <2> QED BY <2>1, <2>6, <2>7
<1> QED BY <1>1, <1>2, <1>3

-----------------------------------------------------------------------------
(* Connecting.                                                             *)

\* A task is submitted that completes no connection.
LEMMA SubmitKeeps ==
    ASSUME NEW s, Typed(s), NEW task \in QueueTasks,
           \A k \in Conns : task # <<"completeConnect", k>>
    PROVE  LET p == Submit(s, task)
           IN  /\ Typed(p) /\ Keeps(s, p) /\ SameConns(s, p) /\ p.serviceMap = s.serviceMap
               /\ p.cache = s.cache /\ p.ability = s.ability
<1> DEFINE p == Submit(s, task)
<1>1. /\ p.ability = s.ability /\ p.conn = s.conn /\ p.serviceMap = s.serviceMap
      /\ p.cache = s.cache /\ p.connList = s.connList /\ p.connMap = s.connMap
      /\ p.queue = Append(s.queue, task)
  BY DEF Typed, Submit
<1>2. s.queue \in Seq(QueueTasks)
  BY DEF Typed
<1>3. p.queue \in Seq(QueueTasks) /\ InCache(p.queue) = InCache(s.queue) \cup {task}
  <2> HIDE DEF p
  <2> QED BY <1>1, <1>2, AppendMembers
<1>4. Typed(p)
  <2>1. p = [s EXCEPT !.queue = p.queue]
    BY DEF Typed, Submit
  <2> HIDE DEF p
  <2> QED BY <1>3, <2>1 DEF Typed
<1> HIDE DEF p
<1>5. Keeps(s, p)
  BY <1>1, <1>3, FollowsSelf DEF Keeps, Held
<1> QED BY <1>1, <1>4, <1>5 DEF p, SameConns

\* A record with a new connection is in use, and the client has no other one to it.
LEMMA ConnectedUses ==
    ASSUME NEW s, NEW E, Fits(s, E), Sound(s), NEW k \in Conns, s.conn[k].st = "INIT",
           NEW r \in Records, s.ability[r].st # "none", NEW c \in Callbacks,
           \A j \in s.connMap : ~(s.conn[j].owner = c /\ s.conn[j].target = r),
           \A q \in s.serviceMap \ {r} : Needed(s, q)
    PROVE  LET p == Connected(s, k, r, c)
           IN  /\ Uses(p) /\ p.conn[k].target = r
               /\ \A j \in Conns : s.conn[j].target \in Records => p.conn[j].target = s.conn[j].target
<1> DEFINE n == [st |-> "CONNECTING", target |-> r, owner |-> c, callback |-> TRUE, told |-> "nothing"]
           p == Connected(s, k, r, c)
<1>1. Typed(s) /\ Told(s)
  BY DEF Fits
<1>2. n.st = "CONNECTING" /\ n.target = r /\ n.owner = c
  OBVIOUS
<1>3. /\ p.ability = s.ability /\ p.conn = [s.conn EXCEPT ![k] = n] /\ p.serviceMap = s.serviceMap
      /\ p.cache = s.cache /\ p.connList = s.connList \cup {k}
      /\ p.connMap = s.connMap \cup {k} /\ p.queue = s.queue
  BY <1>1 DEF Typed, Connected
<1> HIDE DEF n, p
<1>4. p.conn[k] = n /\ \A j \in Conns \ {k} : p.conn[j] = s.conn[j]
  BY <1>3, ConnTypes
<1>5. s.conn[k].target = NoRecord /\ NoRecord \notin Records
  BY ConnectConstants DEF Sound
<1>6. s.connMap \subseteq Conns /\ s.connList = s.connMap /\ k \notin s.connMap
      /\ \A j \in s.connMap : s.conn[j].target \in Records /\ p.conn[j] = s.conn[j]
  BY <1>1, <1>4, <1>5, ConnTypes DEF Told
<1>7. Sound(p)
  <2>1. ASSUME NEW j \in Conns, <<"completeConnect", j>> \in InCache(p.queue)
        PROVE  /\ p.conn[j].target \in Records
               /\ p.ability[p.conn[j].target].st \in {"ACTIVE", "TERMINATING"}
    <3>1. s.conn[j].target \in Records /\ s.ability[s.conn[j].target].st \in {"ACTIVE", "TERMINATING"}
      BY <1>3, <2>1 DEF Sound
    <3>2. j # k
      BY <1>5, <3>1
    <3> QED BY <1>3, <1>4, <3>1, <3>2
  <2>2. ASSUME NEW i \in p.connMap, NEW j \in p.connMap,
               p.conn[i].owner = p.conn[j].owner, p.conn[i].target = p.conn[j].target
        PROVE  i = j
    <3>1. CASE i \in s.connMap /\ j \in s.connMap
      BY <1>6, <2>2, <3>1 DEF Sound
    <3>2. CASE i = k
      BY <1>2, <1>3, <1>4, <1>6, <2>2, <3>2
    <3>3. CASE j = k
      BY <1>2, <1>3, <1>4, <1>6, <2>2, <3>3
    <3> QED BY <1>3, <3>1, <3>2, <3>3
  <2>3. ASSUME NEW j \in p.connMap
        PROVE  p.ability[p.conn[j].target].st # "none" /\ p.conn[j].st # "DISCONNECTED"
    <3>1. CASE j = k
      BY <1>2, <1>3, <1>4, <3>1
    <3>2. CASE j \in s.connMap
      BY <1>3, <1>6, <3>2 DEF Sound
    <3> QED BY <1>3, <3>1, <3>2
  <2>4. ASSUME NEW j \in Conns, p.conn[j].st = "INIT" PROVE p.conn[j].target = NoRecord
    BY <1>2, <1>4, <2>4 DEF Sound
  <2>5. \A q \in Held(p) : Loads(p.ability[q])
    BY <1>3 DEF Sound, Held
  <2> QED BY <2>1, <2>2, <2>3, <2>4, <2>5 DEF Sound
<1>8. ASSUME NEW q \in p.serviceMap PROVE Needed(p, q)
  <2>1. CASE q = r
    <3>1. k \in ConnectList(p, q)
      BY <1>2, <1>3, <1>4, <2>1 DEF ConnectList
    <3> QED BY <3>1 DEF Needed
  <2>2. CASE q # r
    <3>1. ConnectList(s, q) \subseteq ConnectList(p, q)
      BY <1>3, <1>6 DEF ConnectList
    <3> QED BY <1>3, <2>2, <3>1 DEF Needed
  <2> QED BY <2>1, <2>2
<1>9. \A j \in Conns : s.conn[j].target \in Records => p.conn[j].target = s.conn[j].target
  BY <1>4, <1>5
<1> QED BY <1>2, <1>4, <1>7, <1>8, <1>9 DEF p, Uses

LEMMA HandleActiveUses ==
    ASSUME NEW s, NEW E, Fits(s, E), Uses(s), NEW r \in Records, NEW k \in Conns,
           s.conn[k].target = r, s.ability[r].st = "ACTIVE"
    PROVE  LET p == HandleActiveAbility(s, r, k) IN Uses(p) /\ p.conn = s.conn
<1> DEFINE x == ConnectAbility(s, r)
           y == Submit(s, <<"completeConnect", k>>)
<1>1. Uses(x) /\ x.conn = s.conn
  <2>1. Keeps(s, x) /\ SameConns(s, x) /\ x.serviceMap = s.serviceMap
    BY ConnectKeeps
  <2> HIDE DEF x
  <2>2. \A q : ConnectList(x, q) = ConnectList(s, q)
    BY <2>1, SameLists
  <2> QED BY <2>1, <2>2, UsesKept DEF SameConns
<1>2. Uses(y) /\ y.conn = s.conn
  <2>1. /\ y.ability = s.ability /\ y.conn = s.conn /\ y.serviceMap = s.serviceMap
        /\ y.cache = s.cache /\ y.connList = s.connList /\ y.connMap = s.connMap
        /\ y.queue = Append(s.queue, <<"completeConnect", k>>)
    BY DEF Fits, Typed, Submit
  <2>2. s.queue \in Seq(QueueTasks) /\ <<"completeConnect", k>> \in QueueTasks
    BY DEF Fits, Typed, QueueTasks
  <2> HIDE DEF y
  <2>3. InCache(y.queue) = InCache(s.queue) \cup {<<"completeConnect", k>>}
    BY <2>1, <2>2, AppendMembers
  <2>4. \A j \in Conns : <<"completeConnect", j>> \in InCache(y.queue)
           => <<"completeConnect", j>> \in InCache(s.queue) \/ j = k
    BY <2>3
  <2>5. Sound(y)
    BY <2>1, <2>4 DEF Uses, Sound, Held
  <2>6. \A q \in y.serviceMap : Needed(y, q)
    BY <2>1 DEF Uses, Needed, ConnectList
  <2> QED BY <2>1, <2>5, <2>6 DEF Uses
<1>3. HandleActiveAbility(s, r, k) \in {x, y, s}
  BY DEF HandleActiveAbility
<1> HIDE DEF x, y
<1> QED BY <1>1, <1>2, <1>3

-----------------------------------------------------------------------------
(* What the answers of the extension processes start.                      *)

\* A record that was being loaded gets another state.
LEMMA StateSound ==
    ASSUME NEW s, NEW E, Fits(s, E), Sound(s), NEW r \in Records,
           s.ability[r].st \in {"INITIAL", "INACTIVATING"}, NEW b, b.st # "none",
           \A i \in 1..Len(b.inbox) : b.inbox[i] # "load", NEW p, OnlyAbilities(s, p),
           p.ability[r] = b, \A q \in Records \ {r} : p.ability[q] = s.ability[q]
    PROVE  /\ Sound(p) /\ SameConns(s, p)
           /\ \A q \in s.serviceMap \ {r} : Needed(s, q) => Needed(p, q)
<1>1. /\ p.conn = s.conn /\ p.connList = s.connList /\ p.connMap = s.connMap
      /\ p.queue = s.queue /\ p.serviceMap = s.serviceMap /\ p.cache = s.cache
  BY DEF OnlyAbilities
<1>2. \A k \in s.connMap : s.conn[k].target \in Records
  BY ConnTypes DEF Fits, Told
<1>3. Held(s) \subseteq Records /\ s.serviceMap \subseteq Records
  BY FitsTypes DEF Held
<1>4. Loads(b)
  BY DEF Loads
<1>5. \A k \in Conns : <<"completeConnect", k>> \in InCache(p.queue)
          => /\ p.conn[k].target \in Records
             /\ p.ability[p.conn[k].target].st \in {"ACTIVE", "TERMINATING"}
  BY <1>1 DEF Sound
<1>6. \A k \in p.connMap : p.ability[p.conn[k].target].st # "none" /\ p.conn[k].st # "DISCONNECTED"
  BY <1>1, <1>2 DEF Sound
<1>7. \A q \in Held(p) : Loads(p.ability[q])
  BY <1>1, <1>3, <1>4 DEF Sound, Held
<1>8. Sound(p)
  <2>1. \A j, k \in p.connMap :
           p.conn[j].owner = p.conn[k].owner /\ p.conn[j].target = p.conn[k].target => j = k
    BY <1>1 DEF Sound
  <2>2. \A k \in Conns : p.conn[k].st = "INIT" => p.conn[k].target = NoRecord
    BY <1>1 DEF Sound
  <2> QED BY ONLY <1>5, <1>6, <1>7, <2>1, <2>2 DEF Sound
<1>9. \A q \in s.serviceMap \ {r} : Needed(s, q) => Needed(p, q)
  BY <1>1, <1>3 DEF Needed, ConnectList
<1> QED BY <1>1, <1>8, <1>9 DEF SameConns

LEMMA DispatchUses ==
    ASSUME NEW s, NEW E, Fits(s, E), running.task \in E, Uses(s), NEW r \in s.serviceMap,
           s.ability[r].st = "INACTIVATING",
           \A i \in 1..Len(s.ability[r].inbox) : s.ability[r].inbox[i] # "load"
    PROVE  LET p == DispatchInactive(s, r) IN Uses(p) /\ p.conn = s.conn
<1> DEFINE a == s.ability[r]
           b == [a EXCEPT !.st = "INACTIVE"]
           x == [s EXCEPT !.ability[r].st = "INACTIVE"]
           y == CommandAbility(x, r)
           cx == ConnectAbility(x, r)
           cy == ConnectAbility(y, r)
<1>1. r \in Records /\ "INACTIVE" \in AbilityStates /\ a \in AbilityRecord
  BY FitsTypes DEF AbilityStates
<1>2. /\ Fits(x, E) /\ OnlyAbilities(s, x)
      /\ \A q \in Records : q # r => x.ability[q] = s.ability[q]
  BY <1>1, StateFits
<1>3. x.ability[r] = b
  BY <1>1 DEF Fits, Typed
<1>4. DispatchInactive(s, r) = IF a.byConnect THEN cx ELSE IF ConnectList(s, r) = {} THEN y ELSE cy
  BY DEF DispatchInactive
<1>5. b.st = "INACTIVE" /\ b.inbox = a.inbox /\ b.started = a.started
  BY <1>1 DEF AbilityRecord
<1> HIDE DEF x, b
<1>6. /\ Sound(x) /\ SameConns(s, x)
      /\ \A q \in s.serviceMap \ {r} : Needed(s, q) => Needed(x, q)
  <2>1. \A i \in 1..Len(b.inbox) : b.inbox[i] # "load"
    BY <1>5
  <2> HIDE DEF a
  <2>2. Sound(s) /\ s.ability[r].st \in {"INITIAL", "INACTIVATING"} /\ b.st # "none"
        /\ \A q \in Records \ {r} : x.ability[q] = s.ability[q]
    BY <1>2, <1>5 DEF Uses
  <2> QED BY <1>1, <1>2, <1>3, <2>1, <2>2, StateSound
<1>7. x.serviceMap = s.serviceMap /\ x.conn = s.conn
  BY <1>2 DEF OnlyAbilities
<1>8. a.byConnect \/ ConnectList(s, r) # {} => Needed(x, r) \/ ~a.byConnect
  <2>1. Needed(s, r) /\ ConnectList(x, r) = ConnectList(s, r)
    BY <1>6, SameLists DEF Uses
  <2> QED BY <1>3, <1>5, <2>1 DEF Needed
<1>9. a.byConnect => Uses(x)
  BY <1>6, <1>7, <1>8 DEF Uses
<1>10. Typed(x)
  BY <1>2 DEF Fits
<1>11. /\ Keeps(x, y) /\ SameConns(x, y) /\ y.serviceMap = x.serviceMap /\ y.ability[r].started
  BY <1>1, <1>10, CommandKeeps
<1>12. Fits(y, E)
  BY <1>1, <1>2, CommandFits
<1>13. Keeps(x, cx) /\ SameConns(x, cx) /\ cx.serviceMap = x.serviceMap
  BY <1>1, <1>2, ConnectKeeps
<1> HIDE DEF y
<1>14. Keeps(y, cy) /\ SameConns(y, cy) /\ cy.serviceMap = y.serviceMap
  BY <1>1, <1>12, ConnectKeeps
<1> HIDE DEF cx, cy
<1>15. Uses(y)
  <2>1. Sound(y)
    BY <1>2, <1>6, <1>11, KeepsSound
  <2>2. ASSUME NEW q \in y.serviceMap PROVE Needed(y, q)
    <3>1. CASE q = r
      BY <1>11, <3>1 DEF Needed
    <3>2. CASE q # r
      <4>1. q \in s.serviceMap /\ q \in Records /\ q \in Held(y)
        BY <1>7, <1>11, FitsTypes DEF Held
      <4>2. Needed(x, q) /\ ConnectList(y, q) = ConnectList(x, q)
        BY <1>6, <1>11, <3>2, <4>1, SameLists DEF Uses
      <4> QED BY <1>11, <4>1, <4>2, NeededKept
    <3> QED BY <3>1, <3>2
  <2> QED BY <2>1, <2>2 DEF Uses
<1>16. Uses(cy)
  BY <1>12, <1>14, <1>15, SameLists, UsesKept
<1>17. a.byConnect => Uses(cx)
  BY <1>2, <1>9, <1>13, SameLists, UsesKept
<1>18. cx.conn = s.conn /\ cy.conn = s.conn /\ y.conn = s.conn
  BY <1>7, <1>11, <1>13, <1>14 DEF SameConns
<1> HIDE DEF a
<1> QED BY <1>4, <1>15, <1>16, <1>17, <1>18

\* Connections have the targets they had.
Targets(s, p) == \A k \in Conns : s.conn[k].target \in Records => p.conn[k].target = s.conn[k].target

LEMMA TargetsKept ==
    ASSUME NEW s, NEW p, Keeps(s, p) \/ p.conn = s.conn
    PROVE  Targets(s, p)
BY DEF Targets, Keeps

LEMMA TargetsTrans ==
    ASSUME NEW s, NEW p, NEW q, Targets(s, p), Targets(p, q)
    PROVE  Targets(s, q)
BY DEF Targets

LEMMA SameUses ==
    ASSUME NEW s, NEW E, Fits(s, E), Uses(s), NEW p, Keeps(s, p), SameConns(s, p),
           p.serviceMap = s.serviceMap
    PROVE  Uses(p)
<1>1. \A r : ConnectList(p, r) = ConnectList(s, r)
  BY SameLists
<1> QED BY <1>1, UsesKept

\* Connection timers are cancelled.
LEMMA CancelUses ==
    ASSUME NEW s, NEW E, Fits(s, E), Uses(s), NEW T
    PROVE  LET p == CancelTask(s, T)
           IN  Uses(p) /\ Keeps(s, p) /\ SameConns(s, p) /\ p.serviceMap = s.serviceMap
               /\ p.cache = s.cache /\ p.ability = s.ability
<1> DEFINE p == CancelTask(s, T)
<1>1. OnlyTimers(s, p)
  BY CancelKeeps DEF Fits
<1> HIDE DEF p
<1>2. Keeps(s, p) /\ SameConns(s, p) /\ p.serviceMap = s.serviceMap /\ p.cache = s.cache
      /\ p.ability = s.ability
  BY <1>1, TimersKeep
<1>3. Uses(p)
  BY <1>2, SameUses
<1> QED BY <1>2, <1>3 DEF p

LEMMA DisconnectDoneUses ==
    ASSUME NEW s, NEW E, Fits(s, E), running.task \in E, Uses(s), NEW r
    PROVE  LET p == DisconnectDone(s, r) IN Uses(p) /\ Targets(s, p)
<1> DEFINE leaving == InState(s, ConnectList(s, r), "DISCONNECTING")
           k == First(leaving)
           T == {<<"disconnectTimeout", k>>}
           x == CancelTask(s, T)
           done == CompleteDisconnect(x, {k})
           gone == TerminateOrCacheAbility(done, r)
<1>1. DisconnectDone(s, r) = IF r \notin s.serviceMap \/ leaving = {} \/ s.ability[r].st # "ACTIVE" THEN s
        ELSE IF ConnectList(done, r) = {} /\ ~s.ability[r].started THEN gone
        ELSE done
  BY DEF DisconnectDone
<1>2. Fits(x, E) /\ OnlyTimers(s, x)
  BY CancelConnectionTimers
<1>3. CASE r \in s.serviceMap /\ leaving # {} /\ s.ability[r].st = "ACTIVE"
  <2>1. Keeps(s, x) /\ SameConns(s, x) /\ x.serviceMap = s.serviceMap /\ x.ability = s.ability
    BY CancelUses
  <2>2. leaving \in SUBSET Conns
    <3>1. s.connList \subseteq Conns
      BY ConnTypes
    <3> QED BY <3>1 DEF InState, ConnectList
  <2>3. k \in ConnectList(s, r)
    <3>1. k \in leaving
      BY <1>3, <2>2, FirstIsMember
    <3> QED BY <3>1 DEF InState
  <2>4. \A q : q # r => k \notin ConnectList(s, q)
    BY <2>3 DEF ConnectList
  <2> HIDE DEF k, x, leaving
  <2>5. Fits(done, E)
    BY <1>2, CompleteDisconnectFits
  <2>6. /\ Keeps(x, done) /\ done.serviceMap = x.serviceMap /\ done.cache = x.cache
        /\ \A q : ConnectList(done, q) = ConnectList(x, q) \ {k}
        /\ \A q \in Records : /\ done.ability[q].started = x.ability[q].started
                              /\ done.ability[q].st = x.ability[q].st
    BY <1>2, CompleteDisconnectKeeps
  <2> HIDE DEF done
  <2>7. Keeps(s, done)
    BY <2>1, <2>6, KeepsTrans
  <2>8. \A q : q # r => ConnectList(done, q) = ConnectList(s, q)
    BY <2>1, <2>4, <2>6, SameLists
  <2>9. r \in Records
    BY <1>3, FitsTypes
  <2>10. CASE ConnectList(done, r) = {} /\ ~s.ability[r].started
    <3>1. r \in done.serviceMap /\ done.ability[r].st = "ACTIVE"
      BY <1>3, <2>1, <2>6, <2>9
    <3>2. Keeps(done, gone) /\ SameConns(done, gone) /\ gone.serviceMap = done.serviceMap \ {r}
      BY <2>5, <3>1, TerminateOrCacheKeeps
    <3>3. DisconnectDone(s, r) = gone
      BY <1>1, <1>3, <2>10
    <3> HIDE DEF gone
    <3>4. Keeps(s, gone)
      BY <2>7, <3>2, KeepsTrans
    <3>5. gone.serviceMap = s.serviceMap \ {r} /\ \A q : ConnectList(gone, q) = ConnectList(done, q)
      BY <2>1, <2>6, <3>2, SameLists
    <3>6. Uses(gone)
      BY <2>8, <3>4, <3>5, UsesKept
    <3> QED BY <3>3, <3>4, <3>6, TargetsKept
  <2>11. CASE ~(ConnectList(done, r) = {} /\ ~s.ability[r].started)
    <3>1. DisconnectDone(s, r) = done
      BY <1>1, <1>3, <2>11
    <3>2. done.ability[r].started = s.ability[r].started /\ done.serviceMap = s.serviceMap
      BY <2>1, <2>6, <2>9
    <3>3. Uses(done)
      BY <2>7, <2>8, <2>11, <3>2, UsesKept
    <3> QED BY <2>7, <3>1, <3>3, TargetsKept
  <2> QED BY <2>10, <2>11
<1>4. CASE ~(r \in s.serviceMap /\ leaving # {} /\ s.ability[r].st = "ACTIVE")
  <2>1. DisconnectDone(s, r) = s
    BY <1>1, <1>4
  <2> QED BY <2>1 DEF Targets
<1> QED BY <1>3, <1>4

LEMMA CompleteCommandUses ==
    ASSUME NEW s, NEW E, Fits(s, E), running.task \in E, Uses(s), NEW r \in Records,
           s.ability[r].st \in {"INACTIVE", "ACTIVE"},
           s.reqs[ServiceOf[r]] = 0 \/ RoomIn(s, ServiceOf[r])
    PROVE  LET p == CompleteCommandAbility(s, r) IN Uses(p) /\ Targets(s, p)
<1> DEFINE a == s.ability[r]
           b == [a EXCEPT !.st = "ACTIVE"]
           x == [s EXCEPT !.ability[r].st = "ACTIVE"]
           done == CompleteStartServiceReq(x, ServiceOf[r])
           p == ConnectAbility(done, r)
<1>1. "ACTIVE" \in AbilityStates /\ ServiceOf[r] \in Services
  BY ConnectConstants DEF AbilityStates
<1>2. /\ Fits(x, E) /\ OnlyAbilities(s, x)
      /\ \A q \in Records : q # r => x.ability[q] = s.ability[q]
  BY <1>1, StateFits
<1>3. CompleteCommandAbility(s, r) =
        IF ConnectList(done, r) # {} /\ ~done.ability[r].isConnected THEN p ELSE done
  BY DEF CompleteCommandAbility
<1>4. x = [s EXCEPT !.ability[r] = b] /\ a \in AbilityRecord /\ Typed(s)
  BY FitsTypes DEF Fits, Typed
<1>5. Follows(a, b)
  <2> HIDE DEF a
  <2> QED BY <1>4, FollowsUpdates
<1> HIDE DEF b, x
<1>6. Keeps(s, x) /\ SameConns(s, x) /\ x.serviceMap = s.serviceMap
  BY <1>4, <1>5, SetKeeps
<1>7. Uses(x)
  BY <1>6, SameUses
<1>8. x.reqs[ServiceOf[r]] = 0 \/ RoomIn(x, ServiceOf[r])
  BY <1>2 DEF OnlyAbilities, RoomIn, Mapped, Free
<1>9. Fits(done, E)
  BY <1>1, <1>2, <1>8, CompleteStartFits
<1>10. Uses(done) /\ done.conn = x.conn
  BY <1>1, <1>2, <1>7, <1>8, CompleteStartUses
<1> HIDE DEF done
<1>11. Keeps(done, p) /\ SameConns(done, p) /\ p.serviceMap = done.serviceMap
  BY <1>9, ConnectKeeps
<1> HIDE DEF p
<1>12. Uses(p)
  BY <1>9, <1>10, <1>11, SameUses
<1>13. Targets(s, done) /\ Targets(s, p)
  BY <1>6, <1>10, <1>11, TargetsKept DEF SameConns
<1> QED BY <1>3, <1>10, <1>12, <1>13

-----------------------------------------------------------------------------
(* What the tasks of the queue and the timeouts do.                        *)

LEMMA HandleAbilityDiedUses ==
    ASSUME NEW s, NEW E, Fits(s, E), running.task \in E, Uses(s), NEW r \in Records,
           s.ability[r].process # "running", NEW enough \in BOOLEAN, NEW restartNow \in BOOLEAN,
           ServiceOf[r] \in KeepAlive
              => Free(s, ServiceOf[r]) # {} /\ s.reqs[ServiceOf[r]] < MaxReqs
    PROVE  Uses(HandleAbilityDiedTask(s, r, enough, restartNow))
<1> DEFINE v == ServiceOf[r]
           list == ConnectList(s, r)
           T == {<<"delayDisconnect", k>> : k \in list}
           x == [s EXCEPT !.ability[r].remote = FALSE]
           y == CancelTask(x, T)
           dropped == CompleteDisconnect(y, list)
           moved == MoveToTerminatingMap(dropped, {r})
           here == r \in s.serviceMap \/ (v \in Cacheable /\ r \in InCache(s.cache))
           removed == IF here THEN RemoveServiceAbility(moved, r) ELSE dropped
<1>1. HandleAbilityDiedTask(s, r, enough, restartNow) =
        IF v \in KeepAlive /\ enough THEN RestartAbility(removed, v, restartNow) ELSE removed
  BY DEF HandleAbilityDiedTask
<1>2. Fits(x, E) /\ OnlyAbilities(s, x)
  BY FlagFits
<1>3. Keeps(s, x) /\ SameConns(s, x) /\ \A q \in Records : x.ability[q].st = s.ability[q].st
  BY FlagKeeps DEF Fits
<1>4. \A q \in Records : x.ability[q].process = s.ability[q].process
  <2>1. Typed(s) /\ s.ability \in [Records -> AbilityRecord]
    BY FitsTypes DEF Fits
  <2>2. x.ability = [s.ability EXCEPT ![r] = [s.ability[r] EXCEPT !.remote = FALSE]]
    BY <2>1 DEF Typed
  <2>3. ASSUME NEW a \in AbilityRecord PROVE [a EXCEPT !.remote = FALSE].process = a.process
    BY DEF AbilityRecord
  <2> HIDE DEF x
  <2> QED BY <2>1, <2>2, <2>3
<1> HIDE DEF x
<1>5. Fits(y, E) /\ OnlyTimers(x, y)
  <2>1. \A task \in T : task[1] \in {"connectTimeout", "disconnectTimeout", "delayDisconnect"}
    OBVIOUS
  <2> HIDE DEF T
  <2> QED BY <1>2, <2>1, CancelConnectionTimers
<1> HIDE DEF y
<1>6. Keeps(x, y) /\ SameConns(x, y)
  BY <1>5, TimersKeep
<1>7. \A q : q # r => ConnectList(s, q) \ list = ConnectList(s, q)
  BY DEF ConnectList
<1> HIDE DEF list
<1>8. /\ Fits(dropped, E) /\ dropped.serviceMap = y.serviceMap
      /\ dropped.cache = y.cache /\ dropped.reqs = y.reqs
      /\ \A q \in Records : /\ dropped.ability[q].st = y.ability[q].st
                            /\ dropped.ability[q].process = y.ability[q].process
  BY <1>5, CompleteDisconnectFits
<1>9. Keeps(y, dropped) /\ \A q : ConnectList(dropped, q) = ConnectList(y, q) \ list
  BY <1>5, CompleteDisconnectKeeps
<1> HIDE DEF dropped
<1>10. /\ dropped.serviceMap = s.serviceMap /\ dropped.cache = s.cache /\ dropped.reqs = s.reqs
       /\ \A q \in Records : /\ dropped.ability[q].st = s.ability[q].st
                             /\ dropped.ability[q].process = s.ability[q].process
  BY <1>2, <1>3, <1>4, <1>5, <1>8 DEF OnlyAbilities, OnlyTimers
<1>11. Keeps(s, dropped)
  BY <1>3, <1>6, <1>9, KeepsTrans
<1>12. \A q : q # r => ConnectList(dropped, q) = ConnectList(s, q)
  BY <1>3, <1>6, <1>7, <1>9, SameLists
<1>13. /\ Fits(removed, E) /\ removed.reqs = s.reqs /\ Uses(removed)
       /\ \A q \in Records : removed.ability[q].st = s.ability[q].st
  <2>1. CASE here
    <3>1. {r} \subseteq dropped.serviceMap \cup InCache(dropped.cache)
      BY <1>10, <2>1
    <3>2. /\ Fits(moved, E) /\ OnlyHomes(dropped, moved) /\ moved.serviceMap = dropped.serviceMap \ {r}
          /\ InCache(moved.cache) = InCache(dropped.cache) \ {r}
      <4>1. Fits(dropped, E)
        BY <1>8
      <4> QED BY ONLY <3>1, <4>1, MoveFits
    <3> HIDE DEF moved
    <3>3. moved.ability[r].process # "running"
      BY <1>10, <3>2 DEF OnlyHomes
    <3>4. PICK p : p = RemoveServiceAbility(moved, r)
      OBVIOUS
    <3>5. /\ Fits(p, E) /\ OnlyHomes(moved, p) /\ p.serviceMap = moved.serviceMap /\ p.cache = moved.cache
      BY <3>2, <3>3, <3>4, RemoveFits
    <3>6. removed = p
      BY <2>1, <3>4
    <3> HIDE DEF removed
    <3>7. OnlyHomes(dropped, p) /\ Held(p) \subseteq Held(dropped) /\ p.serviceMap = s.serviceMap \ {r}
      BY <1>10, <3>2, <3>5 DEF OnlyHomes, Held
    <3>8. Keeps(dropped, p) /\ SameConns(dropped, p)
      BY <3>7, HomesKeep
    <3>9. Keeps(s, p) /\ \A q : ConnectList(p, q) = ConnectList(dropped, q)
      BY <1>11, <3>8, KeepsTrans, SameLists
    <3>10. Uses(p)
      BY <1>12, <3>7, <3>9, UsesKept
    <3> QED BY <1>10, <3>5, <3>6, <3>7, <3>10 DEF OnlyHomes
  <2>2. CASE ~here
    <3>1. removed = dropped /\ r \notin dropped.serviceMap
      BY <1>10, <2>2
    <3>2. Uses(dropped)
      BY <1>10, <1>11, <1>12, <3>1, UsesKept
    <3> QED BY <1>8, <1>10, <3>1, <3>2
  <2> QED BY <2>1, <2>2
<1> HIDE DEF removed
<1>14. CASE v \in KeepAlive /\ enough
  <2>1. v \in Services /\ Free(removed, v) # {} /\ removed.reqs[v] < MaxReqs
    BY <1>13, <1>14, ConnectConstants DEF Free
  <2>2. RoomIn(removed, v)
    BY <2>1 DEF RoomIn
  <2> HIDE DEF v
  <2>3. Uses(RestartAbility(removed, v, restartNow))
    BY <1>13, <2>1, <2>2, RestartUses
  <2> QED BY <1>1, <1>14, <2>3
<1> QED BY <1>1, <1>13, <1>14

\* The connections of a client that died: those that are made are asked to disconnect, the others
\* are dropped, and a record that has lost its last one is terminated.
LEMMA HandleCallBackDiedUses ==
    ASSUME NEW s, NEW E, Fits(s, E), running.task \in E, Uses(s), NEW c
    PROVE  Uses(HandleCallBackDiedTask(s, c))
<1> DEFINE own == {k \in s.connMap : s.conn[k].owner = c}
           C == [k \in Conns |-> IF k \in own THEN [s.conn[k] EXCEPT !.callback = FALSE] ELSE s.conn[k]]
           x == [s EXCEPT !.conn = C]
           T == {<<"delayDisconnect", k>> : k \in own}
           cleared == CancelTask(x, T)
           normal == InState(s, own, "CONNECTED")
           forced == own \ normal
           left == DisconnectAbility(cleared, normal)
           dropped == CompleteDisconnect(left, forced)
           R == {s.conn[k].target : k \in forced}
           U == {r \in R : ConnectList(dropped, r) = {} /\ ~dropped.ability[r].started}
           p == TerminateRecord(dropped, U)
<1>1. HandleCallBackDiedTask(s, c) = p
  BY DEF HandleCallBackDiedTask, TerminateUnused
<1>2. Typed(s) /\ Told(s) /\ Sound(s)
  BY DEF Fits, Uses
<1>3. ASSUME NEW k \in Conns
      PROVE  /\ C[k] \in ConnRecord /\ C[k].told = s.conn[k].told /\ C[k].target = s.conn[k].target
             /\ C[k].owner = s.conn[k].owner /\ C[k].st = s.conn[k].st
             /\ C[k] = s.conn[k] \/ ~C[k].callback
  <2>1. ASSUME NEW e \in ConnRecord
        PROVE  /\ [e EXCEPT !.callback = FALSE] \in ConnRecord
               /\ [e EXCEPT !.callback = FALSE].told = e.told
               /\ [e EXCEPT !.callback = FALSE].target = e.target
               /\ [e EXCEPT !.callback = FALSE].owner = e.owner
               /\ [e EXCEPT !.callback = FALSE].st = e.st
    BY DEF ConnRecord
  <2>2. ASSUME NEW e \in ConnRecord PROVE ~[e EXCEPT !.callback = FALSE].callback
    BY DEF ConnRecord
  <2>3. s.conn[k] \in ConnRecord
    BY ConnTypes
  <2>4. C[k] = IF k \in own THEN [s.conn[k] EXCEPT !.callback = FALSE] ELSE s.conn[k]
    OBVIOUS
  <2> HIDE DEF C, own
  <2>5. CASE k \in own
    BY <2>1, <2>2, <2>3, <2>4, <2>5
  <2>6. CASE k \notin own
    BY <2>3, <2>4, <2>6
  <2> QED BY <2>5, <2>6
<1>4. C \in [Conns -> ConnRecord]
  <2>1. C = [k \in Conns |-> C[k]]
    OBVIOUS
  <2> HIDE DEF C
  <2> QED BY <1>3, <2>1
<1>5. own \subseteq Conns /\ normal \in SUBSET own /\ forced \subseteq own
  BY ConnTypes DEF InState
<1>6. \A j, k \in own : s.conn[j].target = s.conn[k].target => j = k
  BY <1>2 DEF Sound
<1>7. \A k \in forced : s.conn[k].target \in R
  OBVIOUS
<1> HIDE DEF C, own, normal, forced, R
<1>8. Fits(x, E)
  <2>1. x = [s EXCEPT !.conn = C, !.queue = s.queue] /\ s.queue \in Seq(QueueTasks)
    BY <1>2 DEF Typed
  <2>2. \A k \in Conns : C[k].callback /\ C[k].st = "DISCONNECTED" => C[k].told = "disconnected"
    BY <1>2, <1>3 DEF Told
  <2>3. \A k \in s.connMap : C[k].told # "disconnected" /\ C[k].target \in Records
    BY <1>2, <1>3, ConnTypes DEF Told
  <2>4. Fits([s EXCEPT !.conn = C, !.queue = s.queue], E)
    BY <1>4, <2>1, <2>2, <2>3, ConnsFit
  <2> QED BY <2>1, <2>4
<1>9. /\ x.ability = s.ability /\ x.conn = C /\ x.serviceMap = s.serviceMap /\ x.cache = s.cache
      /\ x.connList = s.connList /\ x.connMap = s.connMap /\ x.queue = s.queue
  BY <1>2 DEF Typed
<1> HIDE DEF x
<1>10. Keeps(s, x) /\ \A r : ConnectList(x, r) = ConnectList(s, r)
  <2>1. Keeps(s, x)
    BY <1>3, <1>9, FollowsSelf DEF Keeps, Held
  <2>2. s.connList \subseteq Conns
    BY ConnTypes
  <2> QED BY <1>3, <1>9, <2>1, <2>2 DEF ConnectList
<1>11. Fits(cleared, E) /\ OnlyTimers(x, cleared)
  <2>1. \A task \in T : task[1] \in {"connectTimeout", "disconnectTimeout", "delayDisconnect"}
    OBVIOUS
  <2> HIDE DEF T
  <2> QED BY <1>8, <2>1, CancelConnectionTimers
<1> HIDE DEF cleared
<1>12. Keeps(x, cleared) /\ SameConns(x, cleared) /\ cleared.serviceMap = x.serviceMap
       /\ cleared.conn = C
  BY <1>9, <1>11, TimersKeep DEF OnlyTimers
<1>13. normal \in SUBSET Conns /\ \A j, k \in normal : cleared.conn[j].target = cleared.conn[k].target => j = k
  BY <1>3, <1>5, <1>6, <1>12
<1>14. Fits(left, E)
  BY <1>11, <1>13, DisconnectFits
<1>15. /\ Keeps(cleared, left) /\ left.serviceMap = cleared.serviceMap
       /\ \A r : ConnectList(cleared, r) # {} => ConnectList(left, r) # {}
  BY <1>11, <1>13, DisconnectKeeps
<1> HIDE DEF left
<1>16. Fits(dropped, E)
  BY <1>14, CompleteDisconnectFits
<1>17. /\ Keeps(left, dropped) /\ dropped.serviceMap = left.serviceMap
       /\ \A r : ConnectList(dropped, r) = ConnectList(left, r) \ forced
  BY <1>14, CompleteDisconnectKeeps
<1> HIDE DEF dropped
<1>18. /\ Keeps(dropped, p) /\ SameConns(dropped, p) /\ p.serviceMap = dropped.serviceMap \ U
       /\ \A r \in Records : p.ability[r].started = dropped.ability[r].started
  BY <1>16, TerminateRecordKeeps
<1>19. \A r \in R : r \in U \/ ConnectList(dropped, r) # {} \/ dropped.ability[r].started
  OBVIOUS
<1> HIDE DEF U, p
<1>20. Keeps(s, left) /\ Keeps(s, p)
  <2>1. Keeps(s, left)
    BY <1>10, <1>12, <1>15, KeepsTrans
  <2> QED BY <1>17, <1>18, <2>1, KeepsTrans
<1>21. p.serviceMap = s.serviceMap \ U
  BY <1>9, <1>12, <1>15, <1>17, <1>18
<1>22. ASSUME NEW r \in p.serviceMap, ConnectList(s, r) # {}
       PROVE  ConnectList(p, r) # {} \/ p.ability[r].started
  <2>1. ConnectList(p, r) = ConnectList(left, r) \ forced
    BY <1>17, <1>18, SameLists
  <2>2. ConnectList(left, r) # {}
    BY <1>10, <1>12, <1>15, <1>22, SameLists
  <2>3. r \in Records /\ r \notin U
    BY <1>21, FitsTypes
  <2>4. CASE r \in R
    BY <1>17, <1>18, <1>19, <2>1, <2>3, <2>4
  <2>5. CASE r \notin R
    <3>1. \A k \in ConnectList(left, r) : k \notin forced
      <4> SUFFICES ASSUME NEW k \in ConnectList(left, r), k \in forced PROVE FALSE
        OBVIOUS
      <4>1. left.conn[k].target = r /\ k \in Conns
        BY <1>5 DEF ConnectList
      <4>2. s.conn[k].target = r
        BY <1>20, <4>1 DEF Keeps
      <4> QED BY <1>7, <2>5, <4>2
    <3> QED BY <2>1, <2>2, <3>1
  <2> QED BY <2>4, <2>5
<1>23. Uses(p)
  BY <1>20, <1>21, <1>22, UsesKept
<1> QED BY <1>1, <1>23

LEMMA HandleStartTimeoutUses ==
    ASSUME NEW s, NEW E, Fits(s, E), running.task \in E, Uses(s), NEW r \in Records,
           NEW restartNow \in BOOLEAN,
           ServiceOf[r] \in KeepAlive
              => Free(s, ServiceOf[r]) # {} /\ s.reqs[ServiceOf[r]] < MaxReqs
    PROVE  Uses(HandleStartTimeoutTask(s, r, restartNow))
<1> DEFINE v == ServiceOf[r]
           K == InState(s, ConnectList(s, r), "CONNECTING")
           dropped == CompleteDisconnect(s, K)
           moved == MoveToTerminatingMap(dropped, {r})
           ended == EndProcess(moved, r)
           removed == RemoveServiceAbility(ended, r)
<1>1. /\ Fits(dropped, E) /\ dropped.serviceMap = s.serviceMap /\ dropped.reqs = s.reqs
      /\ dropped.cache = s.cache
      /\ \A q \in Records : dropped.ability[q].st = s.ability[q].st
  BY CompleteDisconnectFits
<1>2. Keeps(s, dropped) /\ \A q : ConnectList(dropped, q) = ConnectList(s, q) \ K
  BY CompleteDisconnectKeeps
<1>3. \A q : q # r => ConnectList(dropped, q) = ConnectList(s, q)
  <2>1. K \subseteq ConnectList(s, r)
    BY DEF InState
  <2>2. \A q : q # r => ConnectList(s, q) \cap ConnectList(s, r) = {}
    BY DEF ConnectList
  <2> HIDE DEF K, dropped
  <2> QED BY <1>2, <2>1, <2>2
<1> HIDE DEF K
<1>4. CASE r \notin s.serviceMap
  <2>1. HandleStartTimeoutTask(s, r, restartNow) = dropped
    BY <1>4 DEF HandleStartTimeoutTask, K
  <2> HIDE DEF dropped
  <2> QED BY <1>1, <1>2, <1>3, <1>4, <2>1, UsesKept
<1>5. CASE r \in s.serviceMap
  <2>1. /\ Fits(moved, E) /\ OnlyHomes(dropped, moved) /\ moved.serviceMap = s.serviceMap \ {r}
        /\ InCache(moved.cache) = InCache(s.cache) \ {r}
    <3>1. {r} \subseteq dropped.serviceMap \cup InCache(dropped.cache)
      BY <1>1, <1>5
    <3> HIDE DEF dropped
    <3> QED BY <1>1, <3>1, MoveFits
  <2>2. /\ EndProcess(RemoveServiceAbility(moved, r), r) = removed
    <3>1. Typed(moved)
      BY <2>1 DEF Fits
    <3> HIDE DEF moved
    <3> QED BY <3>1 DEF EndProcess, RemoveServiceAbility, Typed
  <2>3. HandleStartTimeoutTask(s, r, restartNow) =
          IF v \in KeepAlive THEN RestartAbility(removed, v, restartNow) ELSE removed
    BY <1>5, <2>2 DEF HandleStartTimeoutTask, K
  <2> HIDE DEF dropped, moved
  <2>4. /\ Fits(ended, E) /\ OnlyAbilities(moved, ended) /\ ended.ability[r].process = "none"
        /\ \A q \in Records : ended.ability[q].st = moved.ability[q].st
    BY <2>1, EndProcessFits
  <2>5. Keeps(moved, ended) /\ SameConns(moved, ended)
    BY <2>1, EndProcessKeeps DEF Fits
  <2> HIDE DEF ended
  <2>6. /\ Fits(removed, E) /\ OnlyHomes(ended, removed)
        /\ removed.serviceMap = ended.serviceMap /\ removed.cache = ended.cache
    BY <2>4, RemoveFits
  <2> HIDE DEF removed
  <2>7. /\ removed.serviceMap = s.serviceMap \ {r}
        /\ removed.reqs = s.reqs /\ \A q \in Records : removed.ability[q].st = s.ability[q].st
    BY <1>1, <2>1, <2>4, <2>6 DEF OnlyAbilities, OnlyHomes
  <2>8. Keeps(dropped, moved) /\ SameConns(dropped, moved)
    <3>1. Held(moved) \subseteq Held(dropped)
      BY <1>1, <2>1 DEF Held
    <3> QED BY <2>1, <3>1, HomesKeep
  <2>9. Keeps(ended, removed) /\ SameConns(ended, removed)
    BY <2>6, HomesKeep DEF Held
  <2>10. Keeps(s, removed)
    BY <1>2, <2>5, <2>8, <2>9, KeepsTrans
  <2>11. \A q : ConnectList(removed, q) = ConnectList(dropped, q)
    BY <2>5, <2>8, <2>9, SameLists
  <2>12. Uses(removed)
    BY <1>3, <2>7, <2>10, <2>11, UsesKept
  <2>13. CASE v \in KeepAlive
    <3>1. v \in Services /\ Free(removed, v) # {} /\ removed.reqs[v] < MaxReqs
      BY <2>7, <2>13, ConnectConstants DEF Free
    <3>2. RoomIn(removed, v)
      BY <3>1 DEF RoomIn
    <3> HIDE DEF v
    <3>3. Uses(RestartAbility(removed, v, restartNow))
      BY <2>6, <2>12, <3>1, <3>2, RestartUses
    <3> QED BY <2>3, <2>13, <3>3
  <2>14. CASE v \notin KeepAlive
    BY <2>3, <2>12, <2>14
  <2> QED BY <2>13, <2>14
<1> QED BY <1>4, <1>5

\* The list was read when the timeout began; its connections are all of the record.
LEMMA HandleConnectTimeoutUses ==
    ASSUME NEW s, NEW E, Fits(s, E), running.task \in E, Uses(s), NEW r, NEW list \in SUBSET Conns,
           \A k \in list : s.conn[k].target = r /\ r \in Records
    PROVE  Uses(HandleConnectTimeoutTask(s, r, list))
<1> DEFINE T == {<<kind, k>> : kind \in {"delayDisconnect", "connectTimeout"}, k \in list}
           x == CancelTask(s, T)
           dropped == CompleteDisconnect(x, list)
           p == TerminateRecord(dropped, {r})
<1>1. HandleConnectTimeoutTask(s, r, list) = IF s.ability[r].started THEN dropped ELSE p
  BY DEF HandleConnectTimeoutTask
<1>2. Fits(x, E) /\ OnlyTimers(s, x)
  <2>1. \A task \in T : task[1] \in {"connectTimeout", "disconnectTimeout", "delayDisconnect"}
    OBVIOUS
  <2> HIDE DEF T
  <2> QED BY <2>1, CancelConnectionTimers
<1> HIDE DEF x
<1>3. Keeps(s, x) /\ SameConns(s, x) /\ x.serviceMap = s.serviceMap /\ x.ability = s.ability
  BY <1>2, TimersKeep
<1>4. Fits(dropped, E)
  BY <1>2, CompleteDisconnectFits
<1>5. /\ Keeps(x, dropped) /\ dropped.serviceMap = x.serviceMap
      /\ \A q : ConnectList(dropped, q) = ConnectList(x, q) \ list
      /\ \A q \in Records : dropped.ability[q].started = x.ability[q].started
  BY <1>2, CompleteDisconnectKeeps
<1> HIDE DEF dropped
<1>6. Keeps(dropped, p) /\ SameConns(dropped, p) /\ p.serviceMap = dropped.serviceMap \ {r}
  BY <1>4, TerminateRecordKeeps
<1> HIDE DEF p
<1>7. \A q : q # r => ConnectList(dropped, q) = ConnectList(s, q)
  <2>1. \A q : q # r => ConnectList(s, q) \ list = ConnectList(s, q)
    BY DEF ConnectList
  <2> QED BY <1>3, <1>5, <2>1, SameLists
<1>8. Keeps(s, dropped)
  BY <1>3, <1>5, KeepsTrans
<1>9. CASE s.ability[r].started
  <2>1. r \in Records => dropped.ability[r].started
    BY <1>3, <1>5, <1>9
  <2>2. dropped.serviceMap = s.serviceMap /\ s.serviceMap \subseteq Records
    BY <1>3, <1>5, FitsTypes
  <2>3. Uses(dropped)
    BY <1>7, <1>8, <2>1, <2>2, UsesKept
  <2> QED BY <1>1, <1>9, <2>3
<1>10. CASE ~s.ability[r].started
  <2>1. Keeps(s, p) /\ p.serviceMap = s.serviceMap \ {r}
    BY <1>3, <1>5, <1>6, <1>8, KeepsTrans
  <2>2. \A q : q # r => ConnectList(p, q) = ConnectList(s, q)
    BY <1>6, <1>7, SameLists
  <2>3. Uses(p)
    BY <2>1, <2>2, UsesKept
  <2> QED BY <1>1, <1>10, <2>3
<1> QED BY <1>9, <1>10

LEMMA HandleExtensionDisconnectUses ==
    ASSUME NEW s, NEW E, Fits(s, E), running.task \in E, Uses(s), NEW k \in Conns
    PROVE  Uses(HandleExtensionDisconnectTask(s, k))
<1> DEFINE x == DisconnectAbility(s, {k})
           y == CompleteDisconnect(s, {k})
<1>1. CASE s.conn[k].st = "CONNECTED"
  <2>1. {k} \in SUBSET Conns /\ \A i, j \in {k} : s.conn[i].target = s.conn[j].target => i = j
    OBVIOUS
  <2>2. /\ Keeps(s, x) /\ x.serviceMap = s.serviceMap
        /\ \A r : ConnectList(s, r) # {} => ConnectList(x, r) # {}
    BY <2>1, DisconnectKeeps
  <2>3. HandleExtensionDisconnectTask(s, k) = x
    BY <1>1 DEF HandleExtensionDisconnectTask
  <2> HIDE DEF x
  <2> QED BY <2>2, <2>3, UsesKept
<1>2. CASE s.conn[k].st = "DISCONNECTED"
  <2>1. k \notin s.connList
    BY <1>2, ConnTypes DEF Uses, Sound
  <2>2. Keeps(s, y) /\ y.serviceMap = s.serviceMap /\ \A r : ConnectList(y, r) = ConnectList(s, r) \ {k}
    BY CompleteDisconnectKeeps
  <2>3. HandleExtensionDisconnectTask(s, k) = y
    BY <1>2 DEF HandleExtensionDisconnectTask
  <2> HIDE DEF y
  <2>4. \A r : ConnectList(y, r) = ConnectList(s, r)
    BY <2>1, <2>2 DEF ConnectList
  <2> QED BY <2>2, <2>3, <2>4, UsesKept
<1>3. CASE s.conn[k].st # "CONNECTED" /\ s.conn[k].st # "DISCONNECTED"
  BY <1>3 DEF HandleExtensionDisconnectTask
<1> QED BY <1>1, <1>2, <1>3

-----------------------------------------------------------------------------
(* The end of a handler. *)

\* The connections and the records of the invariant are not destroyed.
LEMMA BecomeUses ==
    ASSUME NEW s, NEW E, NEW run, Fits(s, E), RunFits(run), Uses(s), ListFits(s, run), Become(s, run)
    PROVE  (Uses(Now) /\ ListFits(Now, running))'
<1> DEFINE L == LiveRecords(s, run)
           C == LiveConns(s, run) \cup Tasks(s, run, {"connectTimeout"})
           p == [ability |-> ability', conn |-> conn', serviceMap |-> serviceMap',
                 terminating |-> terminating', cache |-> cache', connList |-> connList',
                 connMap |-> connMap', reqs |-> reqs', restartList |-> restartList',
                 timers |-> timers', queue |-> queue']
<1>1. Typed(s) /\ Told(s) /\ Sound(s)
  BY DEF Fits, Uses
<1>2. Held(s) \subseteq L /\ s.connList \subseteq C /\ s.connMap \subseteq C /\ run.list \subseteq C
  BY DEF Held, LiveRecords, LiveConns
<1>3. \A k \in s.connMap : s.conn[k].target \in L
  BY DEF LiveRecords, LiveConns
<1>4. ASSUME NEW k, <<"completeConnect", k>> \in InCache(s.queue)
      PROVE  k \in C /\ s.conn[k].target \in L
  <2>1. k \in Tasks(s, run, {"disconnectTimeout", "delayDisconnect", "completeConnect"})
    <3> DEFINE t == <<"completeConnect", k>>
    <3>1. t[1] \in {"disconnectTimeout", "delayDisconnect", "completeConnect"} /\ t[2] = k
      OBVIOUS
    <3>2. t \in s.timers \cup InCache(s.queue) \cup {run.task}
      BY <1>4
    <3> HIDE DEF t
    <3> QED BY <3>1, <3>2 DEF Tasks
  <2>2. k \in LiveConns(s, run)
    BY <2>1 DEF LiveConns
  <2> QED BY <2>2 DEF LiveRecords
<1>5. run.list # {} => run.task[2] \in C
  <2>1. run.task[1] = "connectTimeout" => run.task[2] \in Tasks(s, run, {"connectTimeout"})
    BY DEF Tasks
  <2> QED BY <2>1 DEF ListFits
<1> HIDE DEF L, C
<1>6. /\ p.ability = [r \in Records |-> IF r \in L THEN s.ability[r] ELSE Blank]
      /\ p.conn = [k \in Conns |-> IF k \in C THEN s.conn[k] ELSE [s.conn[k] EXCEPT !.target = NoRecord]]
      /\ p.serviceMap = s.serviceMap /\ p.cache = s.cache /\ p.connList = s.connList
      /\ p.connMap = s.connMap /\ p.queue = s.queue
  BY DEF Become, L, C
<1> HIDE DEF p
<1>7. \A r \in Records : r \in L => p.ability[r] = s.ability[r]
  BY <1>6
<1>8. ASSUME NEW k \in Conns
      PROVE  /\ k \in C => p.conn[k] = s.conn[k]
             /\ p.conn[k].st = s.conn[k].st
             /\ k \notin C => p.conn[k].target = NoRecord
  <2>1. ASSUME NEW c \in ConnRecord
        PROVE  [c EXCEPT !.target = NoRecord].st = c.st /\ [c EXCEPT !.target = NoRecord].target = NoRecord
    BY DEF ConnRecord
  <2>2. s.conn[k] \in ConnRecord
    BY ConnTypes
  <2>3. p.conn[k] = IF k \in C THEN s.conn[k] ELSE [s.conn[k] EXCEPT !.target = NoRecord]
    BY <1>6
  <2>4. CASE k \in C
    BY <2>3, <2>4
  <2>5. CASE k \notin C
    BY <2>1, <2>2, <2>3, <2>5
  <2> QED BY <2>4, <2>5
<1>9. /\ Held(p) = Held(s) /\ Held(s) \subseteq Records /\ s.serviceMap \subseteq Held(s)
      /\ s.connMap \subseteq Conns /\ s.connList = s.connMap
      /\ \A k \in s.connMap : s.conn[k].target \in Records
  BY <1>1, <1>6, FitsTypes, ConnTypes DEF Held, Told
<1>10. \A k \in Conns : <<"completeConnect", k>> \in InCache(p.queue)
          => /\ p.conn[k].target \in Records
             /\ p.ability[p.conn[k].target].st \in {"ACTIVE", "TERMINATING"}
  BY <1>1, <1>4, <1>6, <1>7, <1>8 DEF Sound
<1>11. \A k \in p.connMap : p.conn[k] = s.conn[k] /\ k \in s.connMap
  BY <1>2, <1>6, <1>8, <1>9
<1>12. \A j, k \in p.connMap :
          p.conn[j].owner = p.conn[k].owner /\ p.conn[j].target = p.conn[k].target => j = k
  BY <1>1, <1>11 DEF Sound
<1>13. \A k \in p.connMap : p.ability[p.conn[k].target].st # "none" /\ p.conn[k].st # "DISCONNECTED"
  BY <1>1, <1>3, <1>7, <1>9, <1>11 DEF Sound
<1>14. \A k \in Conns : p.conn[k].st = "INIT" => p.conn[k].target = NoRecord
  BY <1>1, <1>8 DEF Sound
<1>15. \A r \in Held(p) : p.ability[r] = s.ability[r] /\ r \in Held(s)
  BY <1>2, <1>7, <1>9
<1>16. Sound(p)
  BY <1>1, <1>10, <1>12, <1>13, <1>14, <1>15 DEF Sound
<1>17. \A r : ConnectList(p, r) = ConnectList(s, r)
  <2>1. \A k \in s.connList : p.conn[k] = s.conn[k]
    BY <1>6, <1>9, <1>11
  <2> QED BY <1>6, <2>1 DEF ConnectList
<1>18. \A r \in p.serviceMap : Needed(p, r)
  <2> SUFFICES ASSUME NEW r \in p.serviceMap PROVE Needed(p, r)
    OBVIOUS
  <2>1. Needed(s, r) /\ p.ability[r] = s.ability[r]
    BY <1>6, <1>9, <1>15 DEF Uses
  <2> QED BY <1>17, <2>1 DEF Needed
<1>19. ListFits(p, run)
  <2> SUFFICES ASSUME NEW k \in run.list
               PROVE  /\ run.task[1] = "connectTimeout" /\ p.conn[k].target \in Records
                      /\ p.conn[k].target = p.conn[run.task[2]].target
    BY DEF ListFits
  <2>1. /\ run.task[1] = "connectTimeout" /\ s.conn[k].target \in Records
        /\ s.conn[k].target = s.conn[run.task[2]].target
    BY DEF ListFits
  <2>2. k \in Conns /\ k \in C /\ run.task[2] \in C
    BY <1>2, <1>5 DEF RunFits
  <2>3. run.task \in Delayed \cup Again
    BY <2>1 DEF RunFits
  <2>4. run.task[2] \in Conns
    BY <2>1, <2>3 DEF Delayed, Again
  <2> QED BY <1>8, <2>1, <2>2, <2>4
<1>20. running' = run
  BY DEF Become
<1> QED BY <1>16, <1>18, <1>19, <1>20 DEF Uses, Now, p

-----------------------------------------------------------------------------
(* The invariant and the actions. *)

\* The second inductive invariant.
UsedInv == Uses(Now) /\ ListFits(Now, running)

LEMMA StepUses ==
    ASSUME ConnectInv, UsedInv, NEW p, Fits(p, {running.task}), Uses(p), Targets(Now, p),
           Become(p, running)
    PROVE  UsedInv'
<1>1. RunFits(running) /\ ListFits(Now, running)
  BY InvFacts DEF UsedInv
<1>2. ListFits(p, running)
  <2> SUFFICES ASSUME NEW k \in running.list
               PROVE  /\ running.task[1] = "connectTimeout" /\ p.conn[k].target \in Records
                      /\ p.conn[k].target = p.conn[running.task[2]].target
    BY DEF ListFits
  <2>1. /\ running.task[1] = "connectTimeout" /\ Now.conn[k].target \in Records
        /\ Now.conn[k].target = Now.conn[running.task[2]].target
    BY <1>1 DEF ListFits
  <2>2. k \in Conns /\ running.task \in Delayed \cup Again
    BY <1>1, <2>1 DEF RunFits
  <2>3. running.task[2] \in Conns
    BY <2>1, <2>2, TimerIds
  <2> QED BY <2>1, <2>2, <2>3 DEF Targets
<1> QED BY <1>1, <1>2, BecomeUses DEF UsedInv

LEMMA IdleUses ==
    ASSUME NEW p, NEW E, Fits(p, E), Uses(p), Become(p, Idle)
    PROVE  UsedInv'
<1>1. RunFits(Idle) /\ ListFits(p, Idle)
  BY DEF RunFits, ListFits, Idle
<1> QED BY <1>1, BecomeUses DEF UsedInv

\* A process takes a message: it was not the load message, or no other one is.
LEMMA TakenUses ==
    ASSUME ConnectInv, UsedInv, NEW r \in Records, NEW message, Answers(r, message)
    PROVE  LET t == Taken(r)
           IN  /\ Uses(t) /\ SameConns(Now, t)
               /\ r \in Held(Now) => \A i \in 1..Len(t.ability[r].inbox) : t.ability[r].inbox[i] # "load"
<1> DEFINE t == Taken(r)
           u == ability[r].inbox
           w == Tail(u)
           a == [ability[r] EXCEPT !.inbox = w]
<1>1. Fits(Now, {running.task}) /\ Now.ability = ability /\ Uses(Now)
  BY InvFacts DEF Now, UsedInv
<1>2. ability \in [Records -> AbilityRecord] /\ ability[r] \in AbilityRecord
  BY <1>1, FitsTypes
<1>3. u \in Seq(Messages) /\ u # <<>>
  BY <1>2 DEF AbilityRecord, Answers
<1>4. /\ a.st = ability[r].st /\ a.started = ability[r].started /\ a.byConnect = ability[r].byConnect
      /\ a.inbox = w
  BY <1>2 DEF AbilityRecord
<1>5. OnlyAbilities(Now, t) /\ t.ability = [ability EXCEPT ![r] = a]
  BY <1>2 DEF Taken, Now, OnlyAbilities
<1> HIDE DEF t, a
<1>6. t.ability[r] = a /\ \A q \in Records \ {r} : t.ability[q] = ability[q]
  BY <1>2, <1>5
<1>7. SameConns(Now, t) /\ Held(t) = Held(Now)
  BY <1>5 DEF OnlyAbilities, SameConns, Held
<1>8. r \in Held(Now) => \A i \in 1..Len(w) : w[i] # "load"
  <2> SUFFICES ASSUME r \in Held(Now), NEW i \in 1..Len(w) PROVE w[i] # "load"
    OBVIOUS
  <2>1. i + 1 \in 1..Len(u) /\ w[i] = u[i + 1] /\ i + 1 # 1
    BY <1>3
  <2>2. Loads(ability[r])
    BY <1>1 DEF Uses, Sound
  <2> QED BY <2>1, <2>2 DEF Loads
<1> HIDE DEF u, w
<1>9. \A q \in Records : /\ t.ability[q].st = ability[q].st
                         /\ t.ability[q].started = ability[q].started
                         /\ t.ability[q].byConnect = ability[q].byConnect
  BY <1>4, <1>6
<1>10. \A q \in Held(t) : Loads(t.ability[q])
  <2> SUFFICES ASSUME NEW q \in Held(t) PROVE Loads(t.ability[q])
    OBVIOUS
  <2>1. q \in Records /\ Loads(Now.ability[q])
    BY <1>1, <1>7, FitsTypes DEF Held, Uses, Sound
  <2>2. CASE q = r
    BY <1>4, <1>6, <1>7, <1>8, <2>2 DEF Loads
  <2>3. CASE q # r
    BY <1>1, <1>6, <2>1, <2>3
  <2> QED BY <2>2, <2>3
<1>11. t.queue = Now.queue /\ t.conn = Now.conn /\ t.connMap = Now.connMap
       /\ t.serviceMap = Now.serviceMap
  BY <1>5 DEF OnlyAbilities
<1>12. Now.serviceMap \subseteq Records /\ \A k \in Now.connMap : Now.conn[k].target \in Records
  BY <1>1, FitsTypes, ConnTypes DEF Fits, Told
<1>13. Sound(t)
  <2>1. Sound(Now)
    BY <1>1 DEF Uses
  <2>2. \A k \in Conns : <<"completeConnect", k>> \in InCache(t.queue)
           => /\ t.conn[k].target \in Records
              /\ t.ability[t.conn[k].target].st \in {"ACTIVE", "TERMINATING"}
    BY <1>1, <1>9, <1>11, <2>1 DEF Sound
  <2>3. \A k \in t.connMap : t.ability[t.conn[k].target].st # "none" /\ t.conn[k].st # "DISCONNECTED"
    BY <1>1, <1>9, <1>11, <1>12, <2>1 DEF Sound
  <2> QED BY <1>10, <1>11, <2>1, <2>2, <2>3 DEF Sound
<1>14. \A q \in t.serviceMap : Needed(t, q)
  <2> SUFFICES ASSUME NEW q \in t.serviceMap PROVE Needed(t, q)
    OBVIOUS
  <2>1. q \in Records /\ Needed(Now, q) /\ ConnectList(t, q) = ConnectList(Now, q)
    BY <1>1, <1>7, <1>11, <1>12, SameLists DEF Uses
  <2> QED BY <1>1, <1>9, <2>1 DEF Needed
<1> QED BY <1>6, <1>7, <1>8, <1>4, <1>13, <1>14 DEF Uses, t

LEMMA StartUsed ==
    ASSUME ConnectInv, UsedInv, NEW v \in Services, StartAbility(v)
    PROVE  UsedInv'
<1> DEFINE p == StartAbilityLocked(Now, v)
<1>1. Fits(Now, {running.task}) /\ Uses(Now)
  BY InvFacts DEF UsedInv
<1>2. RoomIn(Now, v) /\ Now.reqs[v] < MaxReqs
  BY DEF StartAbility, RoomFor, RoomIn, Now
<1>3. Fits(p, {running.task})
  BY <1>1, <1>2, StartFits, InvFacts
<1>4. Uses(p) /\ p.conn = Now.conn
  BY <1>1, <1>2, StartUses
<1>5. Become(p, running)
  BY DEF StartAbility
<1> HIDE DEF p
<1>6. Targets(Now, p)
  BY <1>4, TargetsKept
<1> QED BY <1>3, <1>4, <1>5, <1>6, StepUses

LEMMA ConnectActionUsed ==
    ASSUME ConnectInv, UsedInv, NEW c \in Callbacks, NEW v \in Services, ConnectAbilityLocked(c, v)
    PROVE  UsedInv'
<1> DEFINE E == {running.task}
           unused == {k \in Conns : conn[k].st = "INIT"}
           g == GetOrCreateServiceRecord(Now, v, TRUE)
           r == g.r
           k == First(unused)
           s == Connected(g.s, k, r, c)
           p == IF ~g.loaded THEN LoadAbility(s, r)
                ELSE IF s.ability[r].st = "ACTIVE" THEN HandleActiveAbility(s, r, k)
                ELSE s
           has == \E j \in connMap : conn[j].owner = c /\ conn[j].target = r
<1>1. Fits(Now, E) /\ running.task \in E /\ Uses(Now)
      /\ Now.conn = conn /\ Now.connMap = connMap /\ Now.ability = ability
  BY InvFacts DEF UsedInv, Now
<1>2. RoomIn(Now, v) /\ TRUE \in BOOLEAN
  BY DEF ConnectAbilityLocked, RoomFor, RoomIn
<1>3. /\ r \in Records /\ g.loaded \in BOOLEAN
      /\ g.loaded => Fits(g.s, E)
      /\ ~g.loaded => Fits(g.s, E \cup {<<"loadTimeout", r>>}) /\ Ready(g.s, r)
  BY <1>1, <1>2, GetFits
<1>4. k \in Conns /\ conn[k].st = "INIT"
  <2>1. unused # {}
    BY DEF ConnectAbilityLocked
  <2>2. unused \in SUBSET Conns
    OBVIOUS
  <2>3. k \in unused
    <3> HIDE DEF unused
    <3> QED BY <2>1, <2>2, FirstIsMember
  <2> QED BY <2>3
<1>5. \/ Become(g.s, running) /\ g.loaded /\ has
      \/ Become(p, running) /\ ~(g.loaded /\ has)
  BY DEF ConnectAbilityLocked
<1>6. Found(Now, g, v, TRUE)
  BY <1>1, <1>2, GetFinds
<1> HIDE DEF g
<1>7. /\ Sound(g.s) /\ \A q \in g.s.serviceMap \ {r} : Needed(g.s, q)
      /\ g.s.ability[r].st # "none"
      /\ \/ g.loaded = TRUE /\ Uses(g.s)
         \/ g.loaded = TRUE /\ g.s.ability[r].st = "ACTIVE"
         \/ g.loaded = FALSE /\ g.s.ability[r] = Fresh(TRUE)
  BY <1>1, <1>2, <1>6, FoundSound
<1>8. g.s.conn = conn /\ g.s.connMap = connMap /\ g.s.connList = Now.connList
      /\ Now.connList = connMap
  BY <1>1, <1>6, ConnTypes DEF Found
<1>9. ~g.loaded => ~has
  <2> SUFFICES ASSUME ~g.loaded, NEW j \in connMap, conn[j].target = r PROVE FALSE
    OBVIOUS
  <2>1. ability[r].st = "none"
    BY <1>1, <1>6 DEF Found, Free
  <2>2. ability[conn[j].target].st # "none"
    BY <1>1 DEF Uses, Sound
  <2> QED BY <2>1, <2>2
<1> HIDE DEF k, r
<1>10. CASE Become(g.s, running) /\ g.loaded /\ has
  <2>1. ConnectList(g.s, r) # {}
    BY <1>8, <1>10 DEF ConnectList
  <2>2. Needed(g.s, r)
    BY <2>1 DEF Needed
  <2>3. Uses(g.s)
    BY <1>7, <2>2 DEF Uses
  <2>4. Targets(Now, g.s)
    BY <1>1, <1>8, TargetsKept
  <2> QED BY <1>3, <1>10, <2>3, <2>4, StepUses
<1>11. CASE Become(p, running) /\ ~(g.loaded /\ has)
  <2>1. ~has
    BY <1>3, <1>9, <1>11
  <2>2. \A j \in g.s.connMap : ~(g.s.conn[j].owner = c /\ g.s.conn[j].target = r)
    BY <1>8, <2>1
  <2>3. g.s.conn[k].st = "INIT"
    BY <1>4, <1>8
  <2>4. PICK F : Fits(g.s, F)
    BY <1>3
  <2>5. Uses(s) /\ s.conn[k].target = r /\ Targets(g.s, s)
    BY <1>3, <1>4, <1>7, <2>2, <2>3, <2>4, ConnectedUses DEF Targets
  <2>6. Targets(Now, s)
    BY <1>1, <1>8, <2>5 DEF Targets
  <2>7. Fits(p, E) /\ Uses(p) /\ p.conn = s.conn
    <3>1. CASE ~g.loaded
      <4>1. /\ Fits(s, E \cup {<<"loadTimeout", r>>}) /\ s.ability = g.s.ability
            /\ s.serviceMap = g.s.serviceMap /\ s.queue = g.s.queue
        BY <1>3, <1>4, <3>1, ConnectedFits
      <4> HIDE DEF s
      <4>2. Ready(s, r)
        BY <1>3, <3>1, <4>1 DEF Ready, Mourned
      <4>3. s.ability[r].st = "INITIAL" /\ Sound(s) /\ Typed(s) /\ s.serviceMap \subseteq Records
        BY <1>7, <2>5, <3>1, <4>1, FreshFacts, FitsTypes DEF Uses, Fits
      <4> DEFINE z == LoadAbility(s, r)
      <4>4. /\ Sound(z) /\ z.serviceMap = s.serviceMap /\ z.conn = s.conn
            /\ \A q \in Records : Needed(s, q) => Needed(z, q)
        BY <1>3, <4>3, LoadSound
      <4> HIDE DEF z
      <4>5. Uses(z)
        BY <2>5, <4>3, <4>4 DEF Uses
      <4> HIDE DEF E
      <4>6. Fits(z, E)
        BY <1>1, <1>3, <4>1, <4>2, LoadFits DEF z
      <4>7. p = z
        BY <3>1 DEF z
      <4> QED BY <4>4, <4>5, <4>6, <4>7
    <3>2. CASE g.loaded
      <4>1. Fits(s, E)
        BY <1>3, <1>4, <3>2, ConnectedFits
      <4> HIDE DEF s
      <4>2. Fits(HandleActiveAbility(s, r, k), E)
        BY <1>1, <1>3, <1>4, <4>1, HandleActiveFits
      <4>3. CASE s.ability[r].st = "ACTIVE"
        <5>1. Uses(HandleActiveAbility(s, r, k)) /\ HandleActiveAbility(s, r, k).conn = s.conn
          BY <1>3, <1>4, <2>5, <4>1, <4>3, HandleActiveUses
        <5> QED BY <3>2, <4>2, <4>3, <5>1
      <4>4. CASE s.ability[r].st # "ACTIVE"
        BY <2>5, <3>2, <4>1, <4>4
      <4> QED BY <4>3, <4>4
    <3> QED BY <1>3, <3>1, <3>2
  <2> HIDE DEF p, s
  <2>8. Targets(Now, p)
    BY <2>6, <2>7 DEF Targets
  <2> QED BY <1>11, <2>7, <2>8, StepUses
<1> QED BY <1>5, <1>10, <1>11

\* The connections of one client belong to different records, so that a record that loses one
\* without being asked to disconnect has another.
LEMMA DisconnectActionUsed ==
    ASSUME ConnectInv, UsedInv, NEW c \in Callbacks, DisconnectAbilityLocked(c)
    PROVE  UsedInv'
<1> DEFINE E == {running.task}
           own == {k \in connMap : conn[k].owner = c}
           visited == {k \in own : \A j \in own : j < k => conn[j].st = "CONNECTED"}
           T == {<<"delayDisconnect", k>> : k \in visited}
           x == CancelTask(Now, T)
           K == InState(Now, visited, "CONNECTED")
           p == DisconnectAbility(x, K)
<1>1. Fits(Now, E) /\ running.task \in E /\ Uses(Now) /\ Now.connMap = connMap /\ Now.conn = conn
  BY InvFacts DEF UsedInv, Now
<1>2. K \in SUBSET Conns /\ \A k \in K : k \in connMap /\ conn[k].owner = c
  <2>1. Now.connMap \subseteq Conns
    BY <1>1, ConnTypes
  <2> QED BY <2>1 DEF InState, Now
<1>3. Become(p, running)
  BY DEF DisconnectAbilityLocked
<1>4. Fits(x, E)
  <2>1. \A task \in T : task[1] \in {"connectTimeout", "disconnectTimeout", "delayDisconnect"}
    OBVIOUS
  <2> HIDE DEF T
  <2> QED BY <1>1, <2>1, CancelConnectionTimers
<1>5. Uses(x) /\ Keeps(Now, x) /\ SameConns(Now, x)
  <2> HIDE DEF T
  <2> QED BY <1>1, CancelUses
<1> HIDE DEF x, K
<1>6. Fits(p, E)
  BY <1>1, <1>2, <1>4, DisconnectFits
<1>7. \A j, k \in K : x.conn[j].target = x.conn[k].target => j = k
  BY <1>1, <1>2, <1>5 DEF SameConns, Uses, Sound
<1>8. /\ Keeps(x, p) /\ p.serviceMap = x.serviceMap
      /\ \A r : ConnectList(x, r) # {} => ConnectList(p, r) # {}
  BY <1>2, <1>4, <1>7, DisconnectKeeps
<1> HIDE DEF p
<1>9. Uses(p)
  BY <1>4, <1>5, <1>8, UsesKept
<1>10. Targets(Now, p)
  BY <1>5, <1>8, KeepsTrans, TargetsKept
<1> QED BY <1>3, <1>6, <1>9, <1>10, StepUses

\* A service that is stopped leaves the service map with all its connections.
LEMMA StopUsed ==
    ASSUME ConnectInv, UsedInv, NEW v \in Services, StopServiceAbilityLocked(v)
    PROVE  UsedInv'
<1> DEFINE E == {running.task}
           R == {cache[OldestIndex(I)] : I \in {Cached(Now, v)} \ {{}}}
           x == [Now EXCEPT !.cache = Without(@, R), !.serviceMap = @ \cup R]
           found == IF Mapped(Now, v) # {} THEN [s |-> Now, R |-> Mapped(Now, v)]
                    ELSE [s |-> x, R |-> R]
           K == {k \in connList : conn[k].target \in found.R}
           d == CompleteDisconnect(found.s, K)
           p == TerminateRecord(d, found.R)
<1>1. Fits(Now, E) /\ running.task \in E /\ Uses(Now) /\ Now.connList = connList /\ Now.conn = conn
  BY InvFacts DEF UsedInv, Now
<1>2. Become(p, running)
  BY DEF StopServiceAbilityLocked
<1>3. /\ Fits(found.s, E) /\ Keeps(Now, found.s) /\ SameConns(Now, found.s)
      /\ found.s.serviceMap \subseteq Now.serviceMap \cup found.R
  <2>1. CASE Mapped(Now, v) # {}
    <3>1. found.s = Now
      BY <2>1
    <3> QED BY <1>1, <3>1, KeepsSelf DEF SameConns
  <2>2. CASE Mapped(Now, v) = {}
    <3>1. \A r \in R : r \in InCache(Now.cache) /\ ServiceOf[r] = v
      <4> SUFFICES ASSUME NEW r \in R PROVE r \in InCache(Now.cache) /\ ServiceOf[r] = v
        OBVIOUS
      <4>1. Cached(Now, v) # {} /\ r = cache[OldestIndex(Cached(Now, v))] /\ Now.cache = cache
        BY DEF Now
      <4>2. Cached(Now, v) \in SUBSET Nat
        BY <1>1, FitsTypes DEF Cached
      <4>3. \E m \in Cached(Now, v) : \A j \in Cached(Now, v) : m <= j
        BY <4>1, <4>2, LeastElement
      <4>4. OldestIndex(Cached(Now, v)) \in Cached(Now, v)
        BY <4>3 DEF OldestIndex
      <4> QED BY <4>1, <4>4 DEF Cached, InCache
    <3>2. R \subseteq InCache(Now.cache) /\ \A r \in R : Mapped(Now, ServiceOf[r]) = {}
      BY <2>2, <3>1
    <3> HIDE DEF R
    <3>3. Fits(x, E)
      BY <1>1, <3>2, RestoreFits
    <3>4. OnlyHomes(Now, x) /\ x.serviceMap = Now.serviceMap \cup R /\ x.cache = Without(Now.cache, R)
      BY DEF OnlyHomes, Now
    <3>5. InCache(x.cache) \subseteq InCache(Now.cache)
      <4>1. Now.cache \in Seq(Records) /\ NoDuplicates(Now.cache)
        BY <1>1, FitsTypes
      <4> HIDE DEF x
      <4> QED BY <3>4, <4>1, WithoutFacts
    <3>6. found.s = x /\ found.R = R
      BY <2>2
    <3> HIDE DEF x, found
    <3>7. Held(x) \subseteq Held(Now)
      BY <3>2, <3>4, <3>5 DEF Held
    <3>8. Keeps(Now, x) /\ SameConns(Now, x)
      BY <3>4, <3>7, HomesKeep
    <3> QED BY <3>3, <3>4, <3>6, <3>8
  <2> QED BY <2>1, <2>2
<1>4. \A r : r \notin found.R => ConnectList(Now, r) \cap K = {}
  BY <1>1 DEF ConnectList
<1> HIDE DEF found, K
<1>5. /\ Fits(d, E) /\ Keeps(found.s, d) /\ d.serviceMap = found.s.serviceMap
      /\ \A r : ConnectList(d, r) = ConnectList(found.s, r) \ K
  BY <1>3, CompleteDisconnectFits, CompleteDisconnectKeeps
<1> HIDE DEF d
<1>6. /\ Fits(p, E) /\ Keeps(d, p) /\ SameConns(d, p) /\ p.serviceMap = d.serviceMap \ found.R
  BY <1>1, <1>5, TerminateRecordFits, TerminateRecordKeeps
<1> HIDE DEF p
<1>7. Keeps(Now, p)
  BY <1>3, <1>5, <1>6, KeepsTrans
<1>8. \A r \in p.serviceMap : ConnectList(Now, r) # {} => ConnectList(p, r) # {}
  <2> SUFFICES ASSUME NEW r \in p.serviceMap, ConnectList(Now, r) # {} PROVE ConnectList(p, r) # {}
    OBVIOUS
  <2>1. ConnectList(Now, r) \cap K = {}
    BY <1>4, <1>6
  <2>2. ConnectList(p, r) = ConnectList(Now, r) \ K
    BY <1>3, <1>5, <1>6, SameLists
  <2> QED BY <2>1, <2>2
<1>9. Uses(p)
  <2>1. p.serviceMap \subseteq Now.serviceMap
    BY <1>3, <1>5, <1>6
  <2> QED BY <1>1, <1>7, <1>8, <2>1, UsesKept
<1>10. Targets(Now, p)
  BY <1>7, TargetsKept
<1> QED BY <1>2, <1>6, <1>9, <1>10, StepUses

LEMMA TerminateUsed ==
    ASSUME ConnectInv, UsedInv, NEW r \in Records, TerminateAbility(r)
    PROVE  UsedInv'
<1> DEFINE E == {running.task}
           m == MoveToTerminatingMap(Now, {r})
           K == ConnectList(Now, r)
           d == CompleteDisconnect(m, K)
           p == Terminate(d, {r})
<1>1. Fits(Now, E) /\ running.task \in E /\ Uses(Now)
  BY InvFacts DEF UsedInv
<1>2. Become(p, running)
  BY DEF TerminateAbility
<1>3. {r} \subseteq Now.serviceMap \cup InCache(Now.cache)
  BY DEF TerminateAbility, Now
<1>4. /\ Fits(m, E) /\ m.terminating = Now.terminating \cup {r} /\ OnlyHomes(Now, m)
      /\ m.serviceMap = Now.serviceMap \ {r} /\ InCache(m.cache) = InCache(Now.cache) \ {r}
  BY <1>1, <1>3, MoveFits
<1>5. \A q : q # r => ConnectList(Now, q) \cap K = {}
  BY DEF ConnectList
<1> HIDE DEF m, K
<1>6. Keeps(Now, m) /\ SameConns(Now, m)
  <2>1. Held(m) \subseteq Held(Now)
    BY <1>4 DEF Held
  <2> QED BY <1>4, <2>1, HomesKeep
<1>7. /\ Fits(d, E) /\ d.terminating = m.terminating /\ Keeps(m, d) /\ d.serviceMap = m.serviceMap
      /\ d.cache = m.cache
      /\ \A q : ConnectList(d, q) = ConnectList(m, q) \ K
  BY <1>4, CompleteDisconnectFits, CompleteDisconnectKeeps
<1> HIDE DEF d
<1>8. {r} \subseteq d.terminating /\ {r} \cap Held(d) = {} /\ Typed(d) /\ {r} \subseteq Records
  BY <1>4, <1>7 DEF Held, Fits
<1>9. Fits(p, E) /\ Keeps(d, p) /\ SameConns(d, p) /\ p.serviceMap = d.serviceMap
  BY <1>1, <1>7, <1>8, TerminateFits, TerminateKeeps
<1> HIDE DEF p
<1>10. Keeps(Now, p)
  BY <1>6, <1>7, <1>9, KeepsTrans
<1>11. \A q \in p.serviceMap : ConnectList(Now, q) # {} => ConnectList(p, q) # {}
  <2> SUFFICES ASSUME NEW q \in p.serviceMap, ConnectList(Now, q) # {} PROVE ConnectList(p, q) # {}
    OBVIOUS
  <2>1. ConnectList(Now, q) \cap K = {}
    BY <1>4, <1>5, <1>7, <1>9
  <2>2. ConnectList(p, q) = ConnectList(Now, q) \ K
    BY <1>6, <1>7, <1>9, SameLists
  <2> QED BY <2>1, <2>2
<1>12. Uses(p)
  <2>1. p.serviceMap \subseteq Now.serviceMap
    BY <1>4, <1>7, <1>9
  <2> QED BY <1>1, <1>10, <1>11, <2>1, UsesKept
<1>13. Targets(Now, p)
  BY <1>10, TargetsKept
<1> QED BY <1>2, <1>9, <1>12, <1>13, StepUses

\* A record that attaches has not been attached before: it still is what it was made for.
LEMMA AttachUsed ==
    ASSUME ConnectInv, UsedInv, NEW r \in Records, AttachAbilityThread(r)
    PROVE  UsedInv'
<1> DEFINE E == {running.task}
           T == {<<"loadTimeout", r>>}
           t == Taken(r)
           x == CancelTask(t, T)
           y == [x EXCEPT !.ability[r].sched = TRUE, !.ability[r].st = "INACTIVATING"]
           p == Schedule(y, {r}, "inactive")
<1>1. /\ Fits(t, E) /\ OnlyAbilities(Now, t) /\ t.ability[r].st = ability[r].st
  BY TakenFits DEF AttachAbilityThread
<1>2. /\ Uses(t) /\ SameConns(Now, t)
      /\ r \in Held(Now) => \A i \in 1..Len(t.ability[r].inbox) : t.ability[r].inbox[i] # "load"
  BY TakenUses DEF AttachAbilityThread
<1>3. Targets(Now, t)
  BY <1>2, TargetsKept DEF SameConns
<1>4. CASE r \notin serviceMap
  <2>1. Become(t, running)
    BY <1>4 DEF AttachAbilityThread
  <2> HIDE DEF t
  <2> QED BY <1>1, <1>2, <1>3, <2>1, StepUses
<1>5. CASE r \in serviceMap
  <2>1. Become(p, running)
    BY <1>5 DEF AttachAbilityThread
  <2>2. ability[r].st = "INITIAL" /\ r \in Held(Now)
    <3>1. Fits(Now, E) /\ Now.ability = ability
      BY InvFacts DEF Now
    <3>2. ability[r].inbox \in Seq(Messages) /\ ability[r].inbox # <<>>
          /\ Head(ability[r].inbox) = "load"
      <4>1. ability[r] \in AbilityRecord
        BY <3>1, FitsTypes
      <4> QED BY <4>1 DEF AbilityRecord, AttachAbilityThread, Answers
    <3>3. 1 \in 1..Len(ability[r].inbox) /\ ability[r].inbox[1] = "load"
      BY <3>2
    <3>4. r \in Held(Now)
      BY <1>5 DEF Held, Now
    <3>5. Loads(ability[r])
      BY <3>1, <3>4 DEF UsedInv, Uses, Sound
    <3> QED BY <3>3, <3>4, <3>5 DEF Loads
  <2> HIDE DEF t
  <2>3. Fits(x, E \cup T) /\ OnlyTimers(t, x)
    BY <1>1, CancelFits
  <2>4. Uses(x) /\ SameConns(t, x) /\ x.ability = t.ability
    BY <1>1, <1>2, CancelUses
  <2>5. r \in x.serviceMap
    BY <1>1, <1>5, <2>3 DEF OnlyAbilities, OnlyTimers, Now
  <2> HIDE DEF x, T
  <2> DEFINE z == [x EXCEPT !.ability[r].sched = TRUE]
             a == x.ability[r]
             b == [a EXCEPT !.sched = TRUE, !.st = "INACTIVATING"]
  <2>6. Fits(z, E \cup T) /\ OnlyAbilities(x, z)
    BY <2>3, FlagFits
  <2>7. y = [z EXCEPT !.ability[r].st = "INACTIVATING"]
    OBVIOUS
  <2>8. Typed(x) /\ x.ability \in [Records -> AbilityRecord] /\ a \in AbilityRecord
    BY <2>3, FitsTypes DEF Fits
  <2>9. OnlyAbilities(x, y) /\ y.ability = [x.ability EXCEPT ![r] = b]
    BY <2>8 DEF Typed, OnlyAbilities
  <2> HIDE DEF z, y
  <2>10. /\ b.st = "INACTIVATING" /\ b.started = a.started /\ b.byConnect = a.byConnect
         /\ b.inbox = a.inbox
    BY <2>8 DEF AbilityRecord
  <2> HIDE DEF b
  <2>11. y.ability[r] = b /\ \A q \in Records \ {r} : y.ability[q] = x.ability[q]
    BY <2>8, <2>9
  <2>12. r \in z.serviceMap /\ "INACTIVATING" \in AbilityStates
    BY <2>5, <2>6 DEF OnlyAbilities, AbilityStates
  <2>13. Fits(y, E \cup T)
    BY <2>6, <2>7, <2>12, StateFits
  <2>14. Fits(y, E)
    <3>1. \A w : /\ <<"terminate", w>> \notin T /\ <<"startServiceTimeout", w>> \notin T
                 /\ <<"restartResident", w>> \notin T
                 /\ <<"loadTimeout", w>> \in T => w = r
      BY DEF T
    <3>2. y.ability[r].st # "INITIAL"
      BY <2>10, <2>11
    <3> HIDE DEF E
    <3> QED BY <2>13, <3>1, <3>2, ExcuseFits
  <2>15. /\ Sound(y) /\ SameConns(x, y)
         /\ \A q \in x.serviceMap \ {r} : Needed(x, q) => Needed(y, q)
    <3>1. x.ability[r].st = "INITIAL"
      BY <1>1, <2>2, <2>4
    <3>2. \A i \in 1..Len(b.inbox) : b.inbox[i] # "load"
      BY <1>2, <2>2, <2>4, <2>10
    <3>3. b.st # "none"
      BY <2>10
    <3> QED BY <2>3, <2>4, <2>9, <2>11, <3>1, <3>2, <3>3, StateSound DEF Uses
  <2>16. Needed(y, r)
    <3>1. Needed(x, r) /\ ConnectList(y, r) = ConnectList(x, r)
      BY <2>4, <2>5, <2>15, SameLists DEF Uses
    <3> QED BY <2>10, <2>11, <3>1 DEF Needed
  <2>17. Uses(y)
    <3>1. y.serviceMap = x.serviceMap
      BY <2>9 DEF OnlyAbilities
    <3> QED BY <2>4, <2>15, <2>16, <3>1 DEF Uses
  <2>18. "inactive" \in Messages \ {"load"} /\ "inactive" \in Messages /\ Typed(y)
    BY <2>14 DEF Messages, Fits
  <2>19. Fits(p, E) /\ Keeps(y, p) /\ SameConns(y, p) /\ p.serviceMap = y.serviceMap
    BY <2>14, <2>18, ScheduleFits, ScheduleKeeps
  <2> HIDE DEF p
  <2>20. Uses(p)
    BY <2>14, <2>17, <2>19, SameUses
  <2>21. p.conn = Now.conn
    BY <1>2, <2>4, <2>15, <2>19 DEF SameConns
  <2>22. Targets(Now, p)
    BY <2>21, TargetsKept
  <2> QED BY <2>1, <2>19, <2>20, <2>22, StepUses
<1> QED BY <1>4, <1>5

LEMMA InactiveUsed ==
    ASSUME ConnectInv, UsedInv, NEW r \in Records, InactiveDone(r)
    PROVE  UsedInv'
<1> DEFINE E == {running.task}
           t == Taken(r)
           p == IF r \in serviceMap /\ ability[r].st = "INACTIVATING" THEN DispatchInactive(t, r) ELSE t
<1>1. Fits(t, E) /\ OnlyAbilities(Now, t) /\ t.ability[r].st = ability[r].st
  BY TakenFits DEF InactiveDone
<1>2. running.task \in E
  BY InvFacts
<1>3. Become(p, running)
  BY DEF InactiveDone
<1>4. /\ Uses(t) /\ SameConns(Now, t)
      /\ r \in Held(Now) => \A i \in 1..Len(t.ability[r].inbox) : t.ability[r].inbox[i] # "load"
  BY TakenUses DEF InactiveDone
<1> HIDE DEF t
<1>5. Fits(p, E) /\ Uses(p) /\ p.conn = t.conn
  <2>1. CASE r \in serviceMap /\ ability[r].st = "INACTIVATING"
    <3>1. r \in t.serviceMap /\ r \in Held(Now)
      BY <1>1, <2>1 DEF OnlyAbilities, Now, Held
    <3>2. Fits(DispatchInactive(t, r), E)
      BY <1>1, <1>2, <3>1, DispatchFits
    <3>3. Uses(DispatchInactive(t, r)) /\ DispatchInactive(t, r).conn = t.conn
      BY <1>1, <1>2, <1>4, <2>1, <3>1, DispatchUses
    <3> QED BY <2>1, <3>2, <3>3
  <2>2. CASE ~(r \in serviceMap /\ ability[r].st = "INACTIVATING")
    BY <1>1, <1>4, <2>2
  <2> QED BY <2>1, <2>2
<1> HIDE DEF p
<1>6. Targets(Now, p)
  BY <1>4, <1>5, TargetsKept DEF SameConns
<1> QED BY <1>3, <1>5, <1>6, StepUses

LEMMA ConnectDoneUsed ==
    ASSUME ConnectInv, UsedInv, NEW r \in Records, NEW remote \in BOOLEAN,
           ScheduleConnectAbilityDone(r, remote)
    PROVE  UsedInv'
<1> DEFINE E == {running.task}
           v == ServiceOf[r]
           list == ConnectList(Now, r)
           K == InState(Now, list, "CONNECTING")
           t == Taken(r)
           set == [t EXCEPT !.ability[r].remote = remote]
           T == {<<"connectTimeout", k>> : k \in K}
           x == CancelTask(set, T)
           done == CompleteConnect(x, r, K)
           auto == IF v \in AutoDisconnect THEN {<<"delayDisconnect", k>> : k \in list} ELSE {}
           y == PostDelayed(done, auto)
           z == CompleteStartServiceReq(y, v)
<1>1. /\ Fits(t, E) /\ OnlyAbilities(Now, t)
      /\ \A q \in Records : t.ability[q].st = ability[q].st
  BY TakenFits DEF ScheduleConnectAbilityDone
<1>2. running.task \in E /\ v \in Services
  BY InvFacts, ConnectConstants
<1>3. Become(IF ability[r].st \in {"INACTIVE", "ACTIVE"} THEN z ELSE t, running)
      /\ (reqs[v] = 0 \/ RoomFor(v))
  BY DEF ScheduleConnectAbilityDone
<1>4. list \in SUBSET Conns /\ K \in SUBSET Conns
  <2>1. Now.connList \subseteq Conns
    BY InvFacts DEF Fits, Typed
  <2> QED BY <2>1 DEF ConnectList, InState
<1>5. auto \subseteq Delayed
      /\ \A w : <<"startServiceTimeout", w>> \notin auto /\ <<"restartResident", w>> \notin auto
  BY <1>4 DEF Delayed
<1>6. \A task \in T : task[1] \in {"connectTimeout", "disconnectTimeout", "delayDisconnect"}
  OBVIOUS
<1>7. Uses(t) /\ SameConns(Now, t)
  BY TakenUses DEF ScheduleConnectAbilityDone
<1>8. Targets(Now, t)
  BY <1>7, TargetsKept DEF SameConns
<1> HIDE DEF t, T, auto, list, K, v
<1>9. CASE ability[r].st \notin {"INACTIVE", "ACTIVE"}
  <2>1. Become(t, running)
    BY <1>3, <1>9
  <2> QED BY <1>1, <1>7, <1>8, <2>1, StepUses
<1>10. CASE ability[r].st \in {"INACTIVE", "ACTIVE"}
  <2>1. Fits(set, E) /\ OnlyAbilities(t, set) /\ Typed(t)
    BY <1>1, FlagFits DEF Fits
  <2>2. /\ Keeps(t, set) /\ SameConns(t, set) /\ set.serviceMap = t.serviceMap
        /\ \A q \in Records : set.ability[q].st = t.ability[q].st
    BY <2>1, FlagKeeps
  <2> HIDE DEF set
  <2>3. Uses(set)
    BY <1>1, <1>7, <2>2, SameUses
  <2>4. Fits(x, E) /\ OnlyTimers(set, x)
    BY <1>6, <2>1, CancelConnectionTimers
  <2>5. Uses(x) /\ Keeps(set, x) /\ x.ability = set.ability
    BY <2>1, <2>3, CancelUses
  <2> HIDE DEF x
  <2>6. x.ability[r].st \notin {"INITIAL", "INACTIVATING"}
    BY <1>1, <1>10, <2>2, <2>5
  <2>7. /\ Fits(done, E) /\ done.serviceMap = x.serviceMap /\ done.reqs = x.reqs
        /\ \A q \in Records : q # r => done.ability[q] = x.ability[q]
        /\ Completes(x, r, K, done)
    BY <1>4, <2>4, CompleteConnectFits
  <2>8. done = CompleteConnect(x, r, K)
    OBVIOUS
  <2> HIDE DEF done
  <2>9. /\ Keeps(x, done)
        /\ \A q : ConnectList(done, q) = ConnectList(x, q)
    BY <1>4, <2>4, <2>6, <2>7, <2>8, CompleteConnectKeeps
  <2>10. Uses(done)
    BY <2>4, <2>5, <2>7, <2>9, UsesKept
  <2>11. Fits(y, E) /\ OnlyTimers(done, y)
    <3>1. Fits(done, E \cup auto)
      BY <2>7 DEF Fits, Armed
    <3> HIDE DEF E
    <3> QED BY <1>2, <1>5, <3>1, PostFits
  <2> HIDE DEF y
  <2>12. Keeps(done, y) /\ SameConns(done, y) /\ y.serviceMap = done.serviceMap
    BY <2>11, TimersKeep
  <2>13. Uses(y)
    BY <2>7, <2>10, <2>12, SameUses
  <2>14. /\ y.serviceMap = serviceMap /\ y.reqs = reqs
         /\ \A q \in Records : q # r => y.ability[q].st = ability[q].st
    BY <1>1, <2>1, <2>2, <2>4, <2>7, <2>11 DEF OnlyAbilities, OnlyTimers, Now
  <2>15. RoomFor(v) => RoomIn(y, v)
    BY <1>10, <2>14 DEF RoomFor, RoomIn, Mapped, Free, Now
  <2>16. y.reqs[v] = 0 \/ RoomIn(y, v)
    BY <1>3, <2>14, <2>15
  <2>17. Fits(z, E) /\ Uses(z) /\ z.conn = y.conn
    BY <1>2, <2>11, <2>13, <2>16, CompleteStartFits, CompleteStartUses
  <2>18. Become(z, running)
    BY <1>3, <1>10
  <2> HIDE DEF z
  <2>19. Keeps(t, y)
    BY <2>2, <2>5, <2>9, <2>12, KeepsTrans
  <2>20. Targets(t, y) /\ Targets(y, z)
    BY <2>17, <2>19, TargetsKept
  <2>21. Targets(Now, z)
    BY <1>8, <2>20, TargetsTrans
  <2> QED BY <2>17, <2>18, <2>21, StepUses
<1> QED BY <1>9, <1>10

LEMMA DisconnectDoneUsed ==
    ASSUME ConnectInv, UsedInv, NEW r \in Records, ScheduleDisconnectAbilityDone(r)
    PROVE  UsedInv'
<1> DEFINE E == {running.task}
           t == Taken(r)
           p == DisconnectDone(t, r)
<1>1. Fits(t, E) /\ running.task \in E
  BY TakenFits DEF ScheduleDisconnectAbilityDone
<1>2. Uses(t) /\ SameConns(Now, t)
  BY TakenUses DEF ScheduleDisconnectAbilityDone
<1>3. Become(p, running)
  BY DEF ScheduleDisconnectAbilityDone
<1> HIDE DEF t
<1>4. Fits(p, E) /\ Uses(p) /\ Targets(t, p)
  BY <1>1, <1>2, DisconnectDoneFits, DisconnectDoneUses
<1> HIDE DEF p
<1>5. Targets(Now, p)
  <2>1. Targets(Now, t)
    BY <1>2, TargetsKept DEF SameConns
  <2> QED BY <1>4, <2>1, TargetsTrans
<1> QED BY <1>3, <1>4, <1>5, StepUses

LEMMA CommandDoneUsed ==
    ASSUME ConnectInv, UsedInv, NEW r \in Records, ScheduleCommandAbilityDone(r)
    PROVE  UsedInv'
<1> DEFINE E == {running.task}
           v == ServiceOf[r]
           t == Taken(r)
           z == CompleteCommandAbility(t, r)
<1>1. /\ Fits(t, E) /\ OnlyAbilities(Now, t) /\ running.task \in E
      /\ \A q \in Records : t.ability[q].st = ability[q].st
  BY TakenFits DEF ScheduleCommandAbilityDone
<1>2. Uses(t) /\ SameConns(Now, t)
  BY TakenUses DEF ScheduleCommandAbilityDone
<1>3. Become(IF ability[r].st \in {"INACTIVE", "ACTIVE"} THEN z ELSE t, running)
      /\ (reqs[v] = 0 \/ RoomFor(v))
  BY DEF ScheduleCommandAbilityDone
<1>4. Targets(Now, t)
  BY <1>2, TargetsKept DEF SameConns
<1> HIDE DEF t
<1>5. t.reqs[v] = 0 \/ RoomIn(t, v)
  BY <1>1, <1>3 DEF RoomFor, RoomIn, Mapped, Free, Now, OnlyAbilities
<1>6. CASE ability[r].st \in {"INACTIVE", "ACTIVE"}
  <2>1. t.ability[r].st \in {"INACTIVE", "ACTIVE"} /\ t.ability[r].st # "none"
    BY <1>1, <1>6
  <2>2. Fits(z, E) /\ Uses(z) /\ Targets(t, z)
    BY <1>1, <1>2, <1>5, <2>1, CompleteCommandFits, CompleteCommandUses
  <2>3. Become(z, running)
    BY <1>3, <1>6
  <2> HIDE DEF z
  <2> QED BY <1>4, <2>2, <2>3, TargetsTrans, StepUses
<1>7. CASE ability[r].st \notin {"INACTIVE", "ACTIVE"}
  <2>1. Become(t, running)
    BY <1>3, <1>7
  <2> QED BY <1>1, <1>2, <1>4, <2>1, StepUses
<1> QED BY <1>6, <1>7

LEMMA TerminateAnswerUsed ==
    ASSUME ConnectInv, UsedInv, NEW r \in Records, TerminateAnswer(r)
    PROVE  UsedInv'
<1> DEFINE E == {running.task}
           T == {<<"terminate", r>>}
           t == Taken(r)
           x == CancelTask(t, T)
           z == TerminateDone(x, r)
<1>1. Fits(t, E)
  BY TakenFits DEF TerminateAnswer
<1>2. Uses(t) /\ SameConns(Now, t)
  BY TakenUses DEF TerminateAnswer
<1>3. Become(z, running) \/ Become(t, running)
  BY DEF TerminateAnswer
<1>4. Targets(Now, t)
  BY <1>2, TargetsKept DEF SameConns
<1> HIDE DEF t
<1>5. Fits(x, E \cup T)
  BY <1>1, CancelFits
<1>6. Uses(x) /\ SameConns(t, x)
  BY <1>1, <1>2, CancelUses
<1> HIDE DEF x
<1>7. Fits(z, E)
  BY <1>5, TerminateDoneFits
<1>8. Keeps(x, z) /\ SameConns(x, z) /\ z.serviceMap = x.serviceMap
  <2>1. Typed(x)
    BY <1>5 DEF Fits
  <2> QED BY <2>1, TerminateDoneKeeps
<1> HIDE DEF z
<1>9. Uses(z)
  BY <1>5, <1>6, <1>8, SameUses
<1>10. Targets(Now, z)
  BY <1>2, <1>6, <1>8, TargetsKept DEF SameConns
<1>11. CASE Become(z, running)
  BY <1>7, <1>9, <1>10, <1>11, StepUses
<1>12. CASE Become(t, running)
  BY <1>1, <1>2, <1>4, <1>12, StepUses
<1> QED BY <1>3, <1>11, <1>12

\* A handler that leaves the connections and the service map alone.
LEMMA KeptStep ==
    ASSUME ConnectInv, UsedInv, NEW p, Fits(p, {running.task}), Keeps(Now, p), SameConns(Now, p),
           p.serviceMap = Now.serviceMap, Become(p, running)
    PROVE  UsedInv'
<1>1. Fits(Now, {running.task}) /\ Uses(Now)
  BY InvFacts DEF UsedInv
<1>2. Uses(p)
  BY <1>1, SameUses
<1>3. Targets(Now, p)
  BY TargetsKept
<1> QED BY <1>2, <1>3, StepUses

LEMMA ProcessDiesUsed ==
    ASSUME ConnectInv, UsedInv, NEW r \in Records, ProcessDies(r)
    PROVE  UsedInv'
<1> DEFINE E == {running.task}
           a == [ability[r] EXCEPT !.process = "dying", !.inbox = <<>>]
           p == [Now EXCEPT !.ability[r].process = "dying", !.ability[r].inbox = <<>>]
           x == EndProcess(Now, r)
<1>1. Fits(Now, E) /\ Now.ability = ability /\ Typed(Now)
  BY InvFacts DEF Now, Fits
<1>2. ability \in [Records -> AbilityRecord] /\ ability[r] \in AbilityRecord
  BY <1>1, FitsTypes
<1>3. Fits(p, E) /\ Keeps(Now, p) /\ SameConns(Now, p) /\ p.serviceMap = Now.serviceMap
  <2>1. <<>> \in Seq(Messages)
    OBVIOUS
  <2>2. a \in AbilityRecord
    BY <1>2, <2>1, AbilityUpdates
  <2>3. a.st = ability[r].st /\ a.process = "dying" /\ ability[r].process = "running"
    BY <1>2 DEF AbilityRecord, ProcessDies
  <2>4. p = [Now EXCEPT !.ability[r] = a]
    BY <1>2, ZenonT(60) DEF Now
  <2>5. Follows(ability[r], a)
    BY <1>2, FollowsUpdates
  <2> HIDE DEF a, p
  <2>6. Fits(p, E)
    BY <1>1, <2>2, <2>3, <2>4, SetAbilityFits
  <2>7. Keeps(Now, p) /\ SameConns(Now, p) /\ p.serviceMap = Now.serviceMap
    BY <1>1, <2>3, <2>4, <2>5, SetKeeps
  <2> QED BY <2>6, <2>7
<1>4. Fits(x, E) /\ Keeps(Now, x) /\ SameConns(Now, x) /\ x.serviceMap = Now.serviceMap
  BY <1>1, EndProcessFits, EndProcessKeeps
<1>5. Become(p, running) \/ Become(x, running)
  BY DEF ProcessDies
<1> HIDE DEF p, x
<1>6. CASE Become(p, running)
  BY <1>3, <1>6, KeptStep
<1>7. CASE Become(x, running)
  BY <1>4, <1>7, KeptStep
<1> QED BY <1>5, <1>6, <1>7

LEMMA SchedulerDiedUsed ==
    ASSUME ConnectInv, UsedInv, NEW r \in Records, OnSchedulerDied(r)
    PROVE  UsedInv'
<1> DEFINE E == {running.task}
           x == EndProcess(Now, r)
           y == [x EXCEPT !.ability[r].sched = FALSE]
           p == Submit(y, <<"died", r>>)
<1>1. Fits(Now, E) /\ Now.ability = ability /\ Typed(Now)
  BY InvFacts DEF Now, Fits
<1>2. ability[r].st # "none" /\ Become(p, running)
  BY <1>1 DEF OnSchedulerDied, Fits, Housed
<1>3. /\ Fits(x, E) /\ x.ability[r].process = "none"
      /\ \A q \in Records : x.ability[q].st = ability[q].st
  BY <1>1, EndProcessFits
<1>4. Keeps(Now, x) /\ SameConns(Now, x) /\ x.serviceMap = Now.serviceMap
  BY <1>1, EndProcessKeeps
<1> HIDE DEF x
<1> DEFINE b == [x.ability[r] EXCEPT !.sched = FALSE]
<1>5. Typed(x) /\ x.ability \in [Records -> AbilityRecord] /\ x.ability[r] \in AbilityRecord
  BY <1>3, FitsTypes DEF Fits
<1>6. Fits(y, E)
  BY <1>3, FlagFits
<1>7. y = [x EXCEPT !.ability[r] = b]
  BY <1>5 DEF Typed
<1>8. Follows(x.ability[r], b) /\ b.st = x.ability[r].st /\ b.process = x.ability[r].process
  <2>1. Follows(x.ability[r], b)
    BY <1>5, FollowsUpdates
  <2>2. b.st = x.ability[r].st /\ b.process = x.ability[r].process
    BY <1>5 DEF AbilityRecord
  <2> QED BY <2>1, <2>2
<1> HIDE DEF b, y
<1>9. Keeps(x, y) /\ SameConns(x, y) /\ y.serviceMap = x.serviceMap /\ y.ability[r] = b
  BY <1>5, <1>7, <1>8, SetKeeps
<1>10. <<"died", r>> \in QueueTasks /\ \A k \in Conns : <<"died", r>> # <<"completeConnect", k>>
  BY DEF QueueTasks
<1>11. Fits(p, E)
  BY <1>2, <1>3, <1>6, <1>8, <1>9, <1>10, SubmitFits
<1>12. Keeps(y, p) /\ SameConns(y, p) /\ p.serviceMap = y.serviceMap
  <2>1. Typed(y)
    BY <1>6 DEF Fits
  <2> QED BY <1>10, <2>1, SubmitKeeps
<1> HIDE DEF p
<1>13. Keeps(Now, p) /\ SameConns(Now, p) /\ p.serviceMap = Now.serviceMap
  BY <1>4, <1>9, <1>12, KeepsTrans, SameTrans
<1> QED BY <1>2, <1>11, <1>13, KeptStep

LEMMA CallBackDiedUsed ==
    ASSUME ConnectInv, UsedInv, NEW c \in Callbacks, OnCallBackDied(c)
    PROVE  UsedInv'
<1> DEFINE E == {running.task}
           p == Submit(Now, <<"callbackDied", c>>)
<1>1. Fits(Now, E) /\ Typed(Now)
  BY InvFacts DEF Fits
<1>2. Become(p, running) \/ Become(Now, running)
  BY DEF OnCallBackDied
<1>3. <<"callbackDied", c>> \in QueueTasks
      /\ \A k \in Conns : <<"callbackDied", c>> # <<"completeConnect", k>>
  BY DEF QueueTasks
<1>4. Fits(p, E) /\ Keeps(Now, p) /\ SameConns(Now, p) /\ p.serviceMap = Now.serviceMap
  BY <1>1, <1>3, SubmitFits, SubmitKeeps
<1> HIDE DEF p
<1>5. CASE Become(p, running)
  BY <1>4, <1>5, KeptStep
<1>6. CASE Become(Now, running)
  BY <1>1, <1>6, KeepsSelf, KeptStep DEF SameConns
<1> QED BY <1>2, <1>5, <1>6

LEMMA FrozenUsed ==
    ASSUME ConnectInv, UsedInv, NEW r \in Records, HandleProcessFrozen(r)
    PROVE  UsedInv'
<1> DEFINE E == {running.task}
           p == Submit(Now, <<"frozen", r>>)
<1>1. Fits(Now, E) /\ Typed(Now)
  BY InvFacts DEF Fits
<1>2. <<"frozen", r>> \in QueueTasks /\ \A k \in Conns : <<"frozen", r>> # <<"completeConnect", k>>
  BY DEF QueueTasks
<1>3. Fits(p, E) /\ Keeps(Now, p) /\ SameConns(Now, p) /\ p.serviceMap = Now.serviceMap
  BY <1>1, <1>2, SubmitFits, SubmitKeeps
<1>4. Become(p, running)
  BY DEF HandleProcessFrozen
<1> HIDE DEF p
<1> QED BY <1>3, <1>4, KeptStep

\* Killing forgets records; those that are kept keep their connections.
LEMMA KillUsed ==
    ASSUME ConnectInv, UsedInv, NEW b \in Bundles, KillProcess(b)
    PROVE  UsedInv'
<1> DEFINE E == {running.task}
           killed == {r \in Records : BundleOf[TokenOf[r]] = b /\ ability[r].process = "running"}
           D(r) == [ability[r] EXCEPT !.process = "dying", !.inbox = <<>>]
           A == [r \in Records |-> IF r \in killed THEN D(r) ELSE ability[r]]
           M == {r \in serviceMap : BundleOf[TokenOf[r]] = b => ServiceOf[r] \in KeepAlive}
           B == {x \in Records : BundleOf[TokenOf[x]] = b}
           x == [Now EXCEPT !.ability = A]
           p == [x EXCEPT !.serviceMap = M, !.cache = Without(cache, B)]
<1>1. Fits(Now, E) /\ Now.ability = ability /\ Typed(Now) /\ Uses(Now)
      /\ Now.serviceMap = serviceMap /\ Now.cache = cache
  BY InvFacts DEF Now, Fits, UsedInv
<1>2. ability \in [Records -> AbilityRecord] /\ \A r \in Records : ability[r] \in AbilityRecord
  BY <1>1, FitsTypes
<1>3. Become(p, running) /\ p = Killed(b)
  BY DEF KillProcess, Killed, Now
<1>4. \A r \in Records : Follows(ability[r], D(r)) /\ D(r).st = ability[r].st
  <2> SUFFICES ASSUME NEW r \in Records PROVE Follows(ability[r], D(r)) /\ D(r).st = ability[r].st
    OBVIOUS
  <2>1. Follows(ability[r], D(r))
    BY <1>2, FollowsUpdates
  <2>2. D(r).st = ability[r].st
    <3>1. ability[r] \in AbilityRecord
      BY <1>2
    <3> QED BY <3>1 DEF AbilityRecord
  <2> QED BY <2>1, <2>2
<1> HIDE DEF D
<1>5. \A r \in Records : Follows(ability[r], A[r]) /\ A[r].st = ability[r].st
  BY <1>4, FollowsSelf
<1>6. OnlyAbilities(Now, x) /\ x.ability = A
  <2> HIDE DEF A
  <2> QED BY <1>1 DEF Typed, OnlyAbilities
<1>7. /\ OnlyHomes(x, p) /\ p.serviceMap = M /\ p.cache = Without(cache, B)
  <2> HIDE DEF A, M, B
  <2> QED BY DEF OnlyHomes, Now
<1> HIDE DEF A, x
<1>8. Keeps(Now, x) /\ SameConns(Now, x) /\ x.serviceMap = serviceMap /\ x.cache = cache
  BY <1>1, <1>5, <1>6, AbilitiesKeep
<1>9. InCache(p.cache) \subseteq InCache(cache) /\ p.serviceMap \subseteq serviceMap
  <2>1. cache \in Seq(Records) /\ NoDuplicates(cache)
    BY <1>1, FitsTypes
  <2>2. p.serviceMap \subseteq serviceMap
    BY <1>7
  <2> HIDE DEF p, B
  <2> QED BY <1>7, <2>1, <2>2, WithoutFacts
<1> HIDE DEF p
<1>10. Held(p) \subseteq Held(x)
  BY <1>8, <1>9 DEF Held
<1>11. Keeps(x, p) /\ SameConns(x, p)
  BY <1>7, <1>10, HomesKeep
<1>12. Keeps(Now, p) /\ SameConns(Now, p)
  BY <1>8, <1>11, KeepsTrans, SameTrans
<1>13. Uses(p)
  <2>1. \A r : ConnectList(p, r) = ConnectList(Now, r)
    BY <1>12, SameLists
  <2> QED BY <1>1, <1>9, <1>12, <2>1, UsesKept
<1>14. Targets(Now, p)
  BY <1>12, TargetsKept
<1>15. Fits(p, E)
  BY <1>3, KillFits
<1> QED BY <1>3, <1>13, <1>14, <1>15, StepUses

LEMMA RunTaskUsed ==
    ASSUME ConnectInv, UsedInv, RunTask
    PROVE  UsedInv'
<1> DEFINE E == {running.task}
           s == [Now EXCEPT !.queue = Tail(@)]
           task == Head(queue)
           id == task[2]
<1>1. Fits(Now, E) /\ running = Idle /\ queue # <<>> /\ running.task \in E /\ Uses(Now)
      /\ Now.queue = queue /\ Now.ability = ability /\ Now.conn = conn
  BY InvFacts DEF RunTask, UsedInv, Now
<1>2. Fits(s, E) /\ task \in QueueTasks /\ task \in InCache(queue)
  BY <1>1, TailFits
<1>3. /\ s.ability = ability /\ s.conn = conn /\ s.reqs = reqs /\ SameConns(Now, s)
      /\ s.serviceMap = Now.serviceMap /\ s.cache = Now.cache /\ s.queue = Tail(queue)
  BY DEF Now, SameConns
<1>4. \/ task[1] = "completeConnect" /\ Become(CompleteConnect(s, conn[id].target, {id}), Idle)
      \/ task[1] = "disconnectDone" /\ Become(DisconnectDone(s, id), Idle)
      \/ task[1] = "died" /\ Become(OnAbilityDied(s, id), Idle)
      \/ /\ task[1] = "handleDied" /\ RoomToRestart(ServiceOf[id])
         /\ \E enough, restartNow \in BOOLEAN :
               Become(HandleAbilityDiedTask(s, id, enough, restartNow), Idle)
      \/ task[1] = "callbackDied" /\ Become(HandleCallBackDiedTask(s, id), Idle)
      \/ task[1] = "frozen" /\ Become(TerminateRecord(s, {id}), Idle)
  BY DEF RunTask
<1> HIDE DEF s, task
<1>5. InCache(s.queue) \subseteq InCache(queue)
  <2> DEFINE Q == Tail(queue)
  <2>1. queue \in Seq(QueueTasks)
    BY <1>1 DEF Fits, Typed
  <2>2. /\ DOMAIN queue = 1..Len(queue) /\ DOMAIN Q = 1..(Len(queue) - 1) /\ Len(queue) \in Nat
        /\ \A i \in 1..(Len(queue) - 1) : Q[i] = queue[i + 1]
    BY <1>1, <2>1
  <2> HIDE DEF Q
  <2>3. \A i \in 1..(Len(queue) - 1) : i + 1 \in DOMAIN queue
    BY <2>2
  <2>4. InCache(Q) \subseteq InCache(queue)
    BY <2>2, <2>3 DEF InCache
  <2> QED BY <1>3, <2>4 DEF Q
<1>6. Uses(s)
  <2>1. Keeps(Now, s)
    BY <1>1, <1>3, <1>5, FollowsSelf DEF Keeps, SameConns, Held
  <2> QED BY <1>1, <1>3, <2>1, SameUses
<1>7. /\ task = <<task[1], id>>
      /\ task[1] = "completeConnect" => id \in Conns
      /\ task[1] \in {"died", "handleDied", "frozen"} => id \in Records
  BY <1>2, QueueTaskIds
<1>8. task[1] \in {"died", "handleDied"} => ability[id].process # "running" /\ ability[id].st # "none"
  <2>1. task[1] \in {"died", "handleDied"} => Mourned(Now, id)
    BY <1>1, <1>2, <1>7 DEF Mourned
  <2> QED BY <1>1, <1>7, <2>1 DEF Fits, Housed
<1> HIDE DEF id
<1>9. CASE task[1] = "completeConnect" /\ Become(CompleteConnect(s, conn[id].target, {id}), Idle)
  <2> DEFINE r == conn[id].target
             K == {id}
             p == CompleteConnect(s, r, K)
  <2>1. id \in Conns /\ <<"completeConnect", id>> \in InCache(Now.queue)
    BY <1>1, <1>2, <1>7, <1>9
  <2>2. r \in Records /\ s.ability[r].st \in {"ACTIVE", "TERMINATING"}
    BY <1>1, <1>3, <2>1 DEF Uses, Sound
  <2> HIDE DEF r
  <2>3. K \in SUBSET Conns /\ r \in Records \cup {NoRecord}
    BY <2>1, <2>2
  <2> HIDE DEF K
  <2>4. Fits(p, E) /\ Completes(s, r, K, p) /\ p.serviceMap = s.serviceMap
    BY <1>2, <2>3, CompleteConnectFits
  <2>5. p = CompleteConnect(s, r, K)
    OBVIOUS
  <2> HIDE DEF p
  <2>6. s.ability[r].st \notin {"INITIAL", "INACTIVATING"}
    BY <2>2
  <2>7. Keeps(s, p) /\ \A q : ConnectList(p, q) = ConnectList(s, q)
    BY <1>2, <2>2, <2>3, <2>4, <2>5, <2>6, CompleteConnectKeeps
  <2>8. Uses(p)
    BY <1>2, <1>6, <2>4, <2>7, UsesKept
  <2>9. Become(p, Idle)
    BY <1>9, <2>5 DEF r, K
  <2> QED BY <2>4, <2>8, <2>9, IdleUses
<1>10. CASE task[1] = "disconnectDone" /\ Become(DisconnectDone(s, id), Idle)
  <2>1. Fits(DisconnectDone(s, id), E) /\ Uses(DisconnectDone(s, id))
    BY <1>1, <1>2, <1>6, DisconnectDoneFits, DisconnectDoneUses
  <2> QED BY <1>10, <2>1, IdleUses
<1>11. CASE task[1] = "died" /\ Become(OnAbilityDied(s, id), Idle)
  <2> DEFINE p == Submit(s, <<"handleDied", id>>)
  <2>1. id \in Records /\ Typed(s)
    BY <1>2, <1>7, <1>11 DEF Fits
  <2>2. <<"handleDied", id>> \in QueueTasks /\ \A k \in Conns : <<"handleDied", id>> # <<"completeConnect", k>>
    BY <2>1 DEF QueueTasks
  <2>3. Keeps(s, p) /\ SameConns(s, p) /\ p.serviceMap = s.serviceMap
    BY <2>1, <2>2, SubmitKeeps
  <2> HIDE DEF p
  <2>4. Uses(p)
    BY <1>2, <1>6, <2>3, SameUses
  <2>5. OnAbilityDied(s, id) = p \/ OnAbilityDied(s, id) = s
    BY DEF OnAbilityDied, p
  <2>6. Fits(OnAbilityDied(s, id), E)
    BY <1>2, <1>3, <1>7, <1>8, <1>11, OnAbilityDiedFits
  <2>7. Uses(OnAbilityDied(s, id))
    BY <1>6, <2>4, <2>5
  <2> QED BY <1>11, <2>6, <2>7, IdleUses
<1>12. CASE /\ task[1] = "handleDied" /\ RoomToRestart(ServiceOf[id])
            /\ \E enough, restartNow \in BOOLEAN :
                  Become(HandleAbilityDiedTask(s, id, enough, restartNow), Idle)
  <2>1. PICK enough \in BOOLEAN, restartNow \in BOOLEAN :
           Become(HandleAbilityDiedTask(s, id, enough, restartNow), Idle)
    BY <1>12
  <2>2. ServiceOf[id] \in KeepAlive
           => Free(s, ServiceOf[id]) # {} /\ s.reqs[ServiceOf[id]] < MaxReqs
    BY <1>3, <1>12 DEF RoomToRestart, Free, Now
  <2>3. id \in Records /\ s.ability[id].process # "running" /\ s.ability[id].st # "none"
    BY <1>3, <1>7, <1>8, <1>12
  <2>4. Fits(HandleAbilityDiedTask(s, id, enough, restartNow), E)
    BY <1>1, <1>2, <2>2, <2>3, HandleAbilityDiedFits
  <2>5. Uses(HandleAbilityDiedTask(s, id, enough, restartNow))
    BY <1>1, <1>2, <1>6, <2>2, <2>3, HandleAbilityDiedUses
  <2> QED BY <2>1, <2>4, <2>5, IdleUses
<1>13. CASE task[1] = "callbackDied" /\ Become(HandleCallBackDiedTask(s, id), Idle)
  <2>1. Fits(HandleCallBackDiedTask(s, id), E) /\ Uses(HandleCallBackDiedTask(s, id))
    BY <1>1, <1>2, <1>6, HandleCallBackDiedFits, HandleCallBackDiedUses
  <2> QED BY <1>13, <2>1, IdleUses
<1>14. CASE task[1] = "frozen" /\ Become(TerminateRecord(s, {id}), Idle)
  <2> DEFINE p == TerminateRecord(s, {id})
  <2>1. /\ Fits(p, E) /\ Keeps(s, p) /\ SameConns(s, p) /\ p.serviceMap = s.serviceMap \ {id}
    BY <1>1, <1>2, TerminateRecordFits, TerminateRecordKeeps
  <2>2. Become(p, Idle)
    BY <1>14
  <2> HIDE DEF p
  <2>3. \A r : ConnectList(p, r) = ConnectList(s, r)
    BY <2>1, SameLists
  <2>4. p.serviceMap \subseteq s.serviceMap
    BY <2>1
  <2>5. Uses(p)
    BY <1>2, <1>6, <2>1, <2>3, <2>4, UsesKept
  <2> QED BY <2>1, <2>2, <2>5, IdleUses
<1> QED BY <1>4, <1>9, <1>10, <1>11, <1>12, <1>13, <1>14

\* The connections that a timeout will drop are those of one record.
LEMMA TimeoutBeginsUsed ==
    ASSUME ConnectInv, UsedInv, NEW task \in timers, TimeoutBegins(task)
    PROVE  UsedInv'
<1> DEFINE list == IF task[1] = "connectTimeout" THEN ConnectList(Now, conn[task[2]].target) ELSE {}
           run == [task |-> task, list |-> list]
           x == CancelTask(Now, {task})
<1>1. Fits(Now, {running.task}) /\ Uses(Now) /\ Now.conn = conn
      /\ Become(x, run) /\ task[1] \in TwoSteps
  BY InvFacts DEF TimeoutBegins, TwoSteps, UsedInv, Now
<1>2. task \in Delayed \cup Again /\ connList \subseteq Conns
  <2>1. Now.timers \subseteq Delayed \cup Again /\ Now.connList \subseteq Conns
    BY <1>1 DEF Fits, Typed
  <2> QED BY <2>1 DEF Now
<1>3. list \in SUBSET Conns
  BY <1>2 DEF ConnectList, Now
<1>4. RunFits(run)
  <2> HIDE DEF list
  <2> QED BY <1>1, <1>2, <1>3 DEF RunFits
<1>5. Fits(x, {running.task} \cup {task})
  BY <1>1, CancelFits
<1>6. Uses(x) /\ SameConns(Now, x)
  BY <1>1, CancelUses
<1> HIDE DEF x
<1>7. ListFits(x, run)
  <2> SUFFICES ASSUME NEW k \in list
               PROVE  /\ task[1] = "connectTimeout" /\ x.conn[k].target \in Records
                      /\ x.conn[k].target = x.conn[task[2]].target
    BY DEF ListFits
  <2>1. /\ task[1] = "connectTimeout" /\ k \in Now.connList
        /\ Now.conn[k].target = Now.conn[task[2]].target
    BY <1>1 DEF ConnectList
  <2>2. Now.conn[k].target \in Records
    <3>1. k \in Now.connMap /\ k \in Conns
      BY <1>1, <2>1, ConnTypes
    <3> QED BY <1>1, <3>1 DEF Fits, Told
  <2> QED BY <1>6, <2>1, <2>2 DEF SameConns
<1> HIDE DEF run
<1> QED BY <1>1, <1>4, <1>5, <1>6, <1>7, BecomeUses DEF UsedInv

LEMMA TimeoutFinishesUsed ==
    ASSUME ConnectInv, UsedInv, TimeoutFinishes
    PROVE  UsedInv'
<1> DEFINE E == {running.task}
           t == running.task
           kind == t[1]
           id == t[2]
           list == running.list
<1>1. Fits(Now, E) /\ RunFits(running) /\ running.task \in E /\ Uses(Now) /\ Now.conn = conn
  BY InvFacts DEF UsedInv, Now
<1>2. \/ /\ kind = "loadTimeout" /\ RoomToRestart(ServiceOf[id])
         /\ \E restartNow \in BOOLEAN : Become(HandleStartTimeoutTask(Now, id, restartNow), Idle)
      \/ /\ kind = "connectTimeout"
         /\ Become(HandleConnectTimeoutTask(Now, conn[id].target, list), Idle)
      \/ kind = "disconnectTimeout" /\ Become(DisconnectDone(Now, conn[id].target), Idle)
      \/ kind = "terminate" /\ Become(TerminateDone(Now, id), Idle)
      \/ kind = "delayDisconnect" /\ Become(HandleExtensionDisconnectTask(Now, id), Idle)
  BY DEF TimeoutFinishes
<1>3. kind \in TwoSteps
  BY <1>2 DEF TwoSteps
<1>4. t \in Delayed \cup Again /\ list \in SUBSET Conns
  <2>1. t \in {<<"idle", 0>>} \cup {task \in Delayed \cup Again : task[1] \in TwoSteps}
        /\ list \in SUBSET Conns
    BY <1>1 DEF RunFits
  <2>2. t # <<"idle", 0>>
    BY <1>3 DEF TwoSteps
  <2> QED BY <2>1, <2>2
<1>5. /\ kind \in {"loadTimeout", "terminate"} => id \in Records
      /\ kind \in {"connectTimeout", "disconnectTimeout", "delayDisconnect"} => id \in Conns
  BY <1>4, TimerIds
<1>6. \A k \in list : Now.conn[k].target = conn[id].target /\ conn[id].target \in Records
  BY <1>1 DEF UsedInv, ListFits
<1>7. ASSUME NEW e PROVE Fits(Now, E \cup {e})
  <2>1. E \subseteq E \cup {e}
    OBVIOUS
  <2> QED BY <1>1, <2>1, MoreExcused
<1> HIDE DEF t, kind, id, list
<1>8. CASE /\ kind = "loadTimeout" /\ RoomToRestart(ServiceOf[id])
           /\ \E restartNow \in BOOLEAN : Become(HandleStartTimeoutTask(Now, id, restartNow), Idle)
  <2>1. PICK restartNow \in BOOLEAN : Become(HandleStartTimeoutTask(Now, id, restartNow), Idle)
    BY <1>8
  <2> DEFINE p == HandleStartTimeoutTask(Now, id, restartNow)
             F == E \cup {<<"loadTimeout", id>>}
  <2>2. id \in Records /\ (ServiceOf[id] \in KeepAlive
           => Free(Now, ServiceOf[id]) # {} /\ Now.reqs[ServiceOf[id]] < MaxReqs)
    BY <1>5, <1>8 DEF RoomToRestart, Now
  <2>3. Fits(Now, F) /\ running.task \in F
    BY <1>7
  <2>4. Fits(p, E)
    <3> HIDE DEF E
    <3> QED BY <2>2, <2>3, HandleStartTimeoutFits
  <2>5. Uses(p)
    <3> HIDE DEF F
    <3> QED BY <1>1, <2>2, <2>3, HandleStartTimeoutUses
  <2> QED BY <2>1, <2>4, <2>5, IdleUses
<1>9. CASE /\ kind = "connectTimeout"
           /\ Become(HandleConnectTimeoutTask(Now, conn[id].target, list), Idle)
  <2> DEFINE r == conn[id].target
             p == HandleConnectTimeoutTask(Now, r, list)
  <2>1. \A k \in list : Now.conn[k].target = r /\ r \in Records
    BY <1>6
  <2>2. Become(p, Idle)
    BY <1>9
  <2> HIDE DEF r
  <2>3. Fits(p, E) /\ Uses(p)
    BY <1>1, <1>4, <2>1, HandleConnectTimeoutFits, HandleConnectTimeoutUses
  <2> HIDE DEF p
  <2> QED BY <2>2, <2>3, IdleUses
<1>10. CASE kind = "disconnectTimeout" /\ Become(DisconnectDone(Now, conn[id].target), Idle)
  <2>1. Fits(DisconnectDone(Now, conn[id].target), E) /\ Uses(DisconnectDone(Now, conn[id].target))
    BY <1>1, DisconnectDoneFits, DisconnectDoneUses
  <2> QED BY <1>10, <2>1, IdleUses
<1>11. CASE kind = "terminate" /\ Become(TerminateDone(Now, id), Idle)
  <2> DEFINE p == TerminateDone(Now, id)
  <2>1. Fits(Now, E \cup {<<"terminate", id>>}) /\ id \in Records /\ Typed(Now)
    BY <1>1, <1>5, <1>7, <1>11 DEF Fits
  <2>2. Fits(p, E)
    <3> HIDE DEF E
    <3> QED BY <2>1, TerminateDoneFits
  <2>3. Keeps(Now, p) /\ SameConns(Now, p) /\ p.serviceMap = Now.serviceMap
    BY <2>1, TerminateDoneKeeps
  <2>4. Become(p, Idle)
    BY <1>11
  <2> HIDE DEF p
  <2>5. Uses(p)
    BY <1>1, <2>3, SameUses
  <2> QED BY <2>2, <2>4, <2>5, IdleUses
<1>12. CASE kind = "delayDisconnect" /\ Become(HandleExtensionDisconnectTask(Now, id), Idle)
  <2>1. Fits(HandleExtensionDisconnectTask(Now, id), E) /\ Uses(HandleExtensionDisconnectTask(Now, id))
    BY <1>1, <1>5, <1>12, HandleExtensionDisconnectFits, HandleExtensionDisconnectUses
  <2> QED BY <1>12, <2>1, IdleUses
<1> QED BY <1>2, <1>8, <1>9, <1>10, <1>11, <1>12

LEMMA StartServiceTimeoutUsed ==
    ASSUME ConnectInv, UsedInv, NEW v \in Services, StartServiceTimeout(v)
    PROVE  UsedInv'
<1> DEFINE T == {<<"startServiceTimeout", v>>}
           p == CancelTask([Now EXCEPT !.reqs[v] = 0], T)
<1>1. Fits(Now, {running.task}) /\ Uses(Now) /\ Typed(Now)
  BY InvFacts DEF UsedInv, Fits
<1>2. [CancelTask(Now, T) EXCEPT !.reqs[v] = 0] = p
  <2> HIDE DEF T
  <2> QED BY <1>1 DEF Typed, CancelTask
<1>3. Become(p, Idle)
  BY <1>2 DEF StartServiceTimeout
<1>4. Fits(p, {running.task})
  BY <1>1, TakeFits
<1>5. /\ p.ability = Now.ability /\ p.conn = Now.conn /\ p.serviceMap = Now.serviceMap
      /\ p.cache = Now.cache /\ p.connList = Now.connList /\ p.connMap = Now.connMap
      /\ p.queue = Now.queue
  BY DEF CancelTask, Now
<1> HIDE DEF p
<1>6. Uses(p)
  BY <1>1, <1>5, RestKeeps
<1> QED BY <1>3, <1>4, <1>6, IdleUses

LEMMA RestartResidentUsed ==
    ASSUME ConnectInv, UsedInv, NEW v \in Services, HandleRestartResidentTask(v)
    PROVE  UsedInv'
<1> DEFINE E == {running.task}
           p == [CancelTask(Now, {<<"restartResident", v>>}) EXCEPT !.restartList = @ \ {v}]
           q == StartAbilityLocked(p, v)
<1>1. running.task \in E /\ Uses(Now)
  BY InvFacts DEF UsedInv
<1>2. Become(q, Idle) /\ RoomFor(v) /\ reqs[v] < MaxReqs
  BY DEF HandleRestartResidentTask
<1>3. /\ Fits(p, E) /\ p.reqs = reqs /\ RoomIn(p, v)
      /\ p.ability = Now.ability /\ p.conn = Now.conn /\ p.serviceMap = Now.serviceMap
      /\ p.cache = Now.cache /\ p.connList = Now.connList /\ p.connMap = Now.connMap
      /\ p.queue = Now.queue
  BY <1>2, RestartTakenFits
<1> HIDE DEF p
<1>4. Uses(p)
  BY <1>1, <1>3, RestKeeps
<1>5. Fits(q, E) /\ Uses(q)
  BY <1>1, <1>2, <1>3, <1>4, StartFits, StartUses
<1> HIDE DEF q
<1> QED BY <1>2, <1>5, IdleUses

LEMMA InitUsed == Init => UsedInv
<1> SUFFICES ASSUME Init PROVE UsedInv
  OBVIOUS
<1>1. /\ Now.conn = [k \in Conns |-> Unused] /\ Now.serviceMap = {} /\ Now.cache = <<>>
      /\ Now.connMap = {} /\ Now.queue = <<>> /\ running.list = {}
  BY DEF Init, Now, Idle
<1>2. InCache(Now.cache) = {} /\ InCache(Now.queue) = {}
  BY <1>1 DEF InCache
<1>3. \A k \in Conns : Now.conn[k].target = NoRecord
  BY <1>1 DEF Unused
<1>4. Sound(Now)
  BY <1>1, <1>2, <1>3 DEF Sound, Held
<1> QED BY <1>1, <1>4 DEF UsedInv, Uses, ListFits

LEMMA StepUsed == ConnectInv /\ UsedInv /\ [Next]_acmVars => UsedInv'
<1> SUFFICES ASSUME ConnectInv, UsedInv, [Next]_acmVars PROVE UsedInv'
  OBVIOUS
<1>1. ASSUME NEW v \in Services,
             StartAbility(v) \/ StopServiceAbilityLocked(v) \/ StartServiceTimeout(v)
             \/ HandleRestartResidentTask(v)
      PROVE  UsedInv'
  BY <1>1, StartUsed, StopUsed, StartServiceTimeoutUsed, RestartResidentUsed
<1>2. ASSUME NEW c \in Callbacks, NEW v \in Services, ConnectAbilityLocked(c, v) PROVE UsedInv'
  BY <1>2, ConnectActionUsed
<1>3. ASSUME NEW c \in Callbacks, DisconnectAbilityLocked(c) \/ OnCallBackDied(c) PROVE UsedInv'
  BY <1>3, DisconnectActionUsed, CallBackDiedUsed
<1>4. ASSUME NEW r \in Records,
             \/ TerminateAbility(r) \/ AttachAbilityThread(r) \/ InactiveDone(r)
             \/ \E remote \in IF NullRemote THEN BOOLEAN ELSE {TRUE} :
                   ScheduleConnectAbilityDone(r, remote)
             \/ ScheduleDisconnectAbilityDone(r) \/ ScheduleCommandAbilityDone(r)
             \/ TerminateAnswer(r) \/ ProcessDies(r) \/ OnSchedulerDied(r)
             \/ HandleProcessFrozen(r)
      PROVE  UsedInv'
  <2>1. ASSUME \E remote \in IF NullRemote THEN BOOLEAN ELSE {TRUE} :
                  ScheduleConnectAbilityDone(r, remote)
        PROVE  UsedInv'
    <3>1. PICK remote \in IF NullRemote THEN BOOLEAN ELSE {TRUE} :
             ScheduleConnectAbilityDone(r, remote)
      BY <2>1
    <3>2. remote \in BOOLEAN
      OBVIOUS
    <3> QED BY <3>1, <3>2, ConnectDoneUsed
  <2> QED BY <1>4, <2>1, TerminateUsed, AttachUsed, InactiveUsed, DisconnectDoneUsed, CommandDoneUsed,
             TerminateAnswerUsed, ProcessDiesUsed, SchedulerDiedUsed, FrozenUsed
<1>5. ASSUME NEW b \in Bundles, KillProcess(b) PROVE UsedInv'
  BY <1>5, KillUsed
<1>6. CASE RunTask
  BY <1>6, RunTaskUsed
<1>7. ASSUME NEW task \in timers, TimeoutBegins(task) PROVE UsedInv'
  BY <1>7, TimeoutBeginsUsed
<1>8. CASE TimeoutFinishes
  BY <1>8, TimeoutFinishesUsed
<1>9. CASE UNCHANGED acmVars
  <2>1. Now' = Now /\ running' = running
    BY <1>9 DEF acmVars, Now
  <2> QED BY <2>1 DEF UsedInv
<1> QED BY <1>1, <1>2, <1>3, <1>4, <1>5, <1>6, <1>7, <1>8, <1>9 DEF Next

LEMMA UsedInvariant == Spec => []UsedInv
BY ConnectInvariant, InitUsed, StepUsed, PTL DEF Spec

LEMMA UsedImplies == UsedInv => UnusedIsTerminated
<1> SUFFICES ASSUME UsedInv, NEW r \in serviceMap,
                    ConnectList(Now, r) = {}, ~ability[r].started
             PROVE  ~ability[r].byConnect /\ ability[r].st \in {"INITIAL", "INACTIVATING"}
  BY DEF UnusedIsTerminated
<1>1. Now.serviceMap = serviceMap /\ Now.ability = ability
  BY DEF Now
<1>2. Needed(Now, r)
  BY <1>1 DEF UsedInv, Uses
<1> QED BY <1>1, <1>2 DEF Needed

\* A record stays in the service map only while it has a connection, was started, or is on its
\* way to the first command it was loaded for: every path that takes the last connection of a
\* record (DisconnectRecordForce, ScheduleDisconnectAbilityDoneLocked, HandleConnectTimeoutTask,
\* HandleStartTimeoutTask, HandleAbilityDiedTask) also terminates, caches or removes it, whatever
\* answers, deaths and timeouts come between.
THEOREM UnusedAreTerminated == Spec => []UnusedIsTerminated
BY UsedInvariant, UsedImplies, PTL
=============================================================================
