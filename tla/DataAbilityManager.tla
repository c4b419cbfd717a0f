------------------------- MODULE DataAbilityManager -------------------------
(***************************************************************************)
(* services/abilitymgr/src/data_ability_manager.cpp together with          *)
(* data_ability_record.cpp: clients acquire data abilities, which are      *)
(* loaded on demand, and release them.                                     *)
(*                                                                         *)
(* A thread in Acquire holds mutex_ while it asks for the process, waits   *)
(* on a condition variable with a timeout, and is done.  It waits through  *)
(* a unique_lock that has adopted mutex_ and releases it when WaitForLoaded*)
(* returns; LoadLocked and Acquire go on without the lock, and in the end  *)
(* the lock_guard of Acquire unlocks mutex_ once more, whoever holds it    *)
(* then.  The other handlers hold mutex_ from beginning to end and do not  *)
(* wait, so each is one step; accesses of two threads to one std::map or   *)
(* std::list at the same instant are not modelled.                         *)
(*                                                                         *)
(* A caller is one client token: a page or an extension, another data      *)
(* ability, or a native system process (isNotHap).                         *)
(***************************************************************************)
EXTENDS Integers

CONSTANTS
    Names,          \* data abilities: the keys of the two maps
    Records,        \* data ability records, each made at most once: a bound on loads
    NameOf,         \* the data ability a record is for
    NoRecord,       \* nullptr
    Callers,        \* client tokens
    KindOf,         \* "page", "data" or "system"
    Binding,        \* callers that acquire with tryBind
    Worker,         \* the thread that handles deaths and restarts resident abilities
    Resident,       \* names of resident data abilities
    Crashes,        \* may the processes of data abilities die by themselves
    MaxHolds        \* bound: acquisitions of one record a caller has not released

ASSUME DataConstants ==
    /\ Names # {}
    /\ NameOf \in [Records -> Names]
    /\ NoRecord \notin Records
    /\ KindOf \in [Callers -> {"page", "data", "system"}]
    /\ Binding \subseteq Callers /\ Resident \subseteq Names
    /\ Worker \notin Callers
    /\ Crashes \in BOOLEAN
    /\ MaxHolds \in Nat

Threads == Callers \cup {Worker}

VARIABLES
    loaded,         \* dataAbilityRecordsLoaded_: name -> record, or NoRecord
    loading,        \* dataAbilityRecordsLoading_
    state,          \* the state of a record's ability
    attached,       \* records whose scheduler_ is set
    clients,        \* clients_: how many entries a record has for a caller
    process,        \* what the process of a record is about to do
    doomed,         \* records whose process AppMgr is going to end (AttachTimeOut)
    thread,         \* where a thread is in Acquire
    mutex,          \* is mutex_ locked
    holds,          \* acquisitions a caller got and has not given back
    gone,           \* callers that have died
    notices         \* their deaths that are still to be handled

dataVars == <<loaded, loading, state, attached, clients, process, doomed, thread, mutex,
              holds, gone, notices>>

States == {"none", "INITIAL", "ACTIVATING", "ACTIVE"}
Places == {"idle", "restart", "load", "waiting", "loaded", "timedOut"}

AtRest == [pc |-> "idle", name |-> CHOOSE n \in Names : TRUE, rec |-> NoRecord]

-----------------------------------------------------------------------------
(* Acquire.                                                                *)

\* AddClient: one entry more.  A dead native caller is not reported again.
AddClient(t, d) ==
    IF t \in Callers
    THEN /\ clients' = [clients EXCEPT ![d][t] = @ + 1]
         /\ holds' = [holds EXCEPT ![d][t] = @ + 1]
    ELSE UNCHANGED <<clients, holds>>

Return(t) == thread' = [thread EXCEPT ![t] = AtRest]

Wait(t, n, d) == thread' = [thread EXCEPT ![t] = [pc |-> "waiting", name |-> n, rec |-> d]]

\* The record whose scheduler Acquire returns has to be attached and ACTIVE.
HasScheduler(d) == d \in attached /\ state[d] = "ACTIVE"

\* Acquire up to the point where it waits, returns or asks for the process.
Find(t, n) ==
    /\ ~mutex
    /\ IF loaded[n] # NoRecord
       THEN /\ Return(t)
            /\ IF HasScheduler(loaded[n])
               THEN AddClient(t, loaded[n]) /\ UNCHANGED loaded
               ELSE loaded' = [loaded EXCEPT ![n] = NoRecord] /\ UNCHANGED <<clients, holds>>
            /\ UNCHANGED mutex
       ELSE /\ IF loading[n] # NoRecord
               THEN Wait(t, n, loading[n]) /\ UNCHANGED mutex
               ELSE /\ thread' = [thread EXCEPT ![t] = [pc |-> "load", name |-> n, rec |-> NoRecord]]
                    /\ mutex' = TRUE
            /\ UNCHANGED <<loaded, clients, holds>>
    /\ UNCHANGED <<loading, state, attached, process, doomed, gone, notices>>

Acquire(c, n) ==
    /\ c \notin gone
    /\ thread[c].pc = "idle"
    /\ \A d \in Records : holds[d][c] < MaxHolds
    /\ Find(c, n)

\* RestartDataAbility acquires without a client.
Restart ==
    /\ thread[Worker].pc = "restart"
    /\ Find(Worker, thread[Worker].name)

\* A new record for n, whose process is asked for.
StartLoading(n, d) ==
    /\ NameOf[d] = n /\ state[d] = "none"
    /\ state' = [state EXCEPT ![d] = "INITIAL"]
    /\ process' = [process EXCEPT ![d] = "attach"]

\* LoadLocked: StartLoading may fail, and the record is put into the map unless
\* there is one already.
LoadLocked(t) ==
    LET n == thread[t].name
    IN  /\ thread[t].pc = "load"
        /\ mutex' = FALSE
        /\ \/ /\ Return(t)
              /\ UNCHANGED <<state, process, loading>>
           \/ \E d \in Records :
                 /\ StartLoading(n, d)
                 /\ IF loading[n] # NoRecord
                    THEN Return(t) /\ UNCHANGED loading
                    ELSE /\ loading' = [loading EXCEPT ![n] = d]
                         /\ Wait(t, n, d)
        /\ UNCHANGED <<loaded, attached, clients, doomed, holds, gone, notices>>

\* WaitForLoaded returns, because the ability is loaded or after
\* DATA_ABILITY_LOAD_TIMEOUT, with mutex_ taken and released again.
WaitForLoaded(t) ==
    /\ thread[t].pc = "waiting"
    /\ ~mutex
    /\ thread' = [thread EXCEPT ![t].pc =
                     IF state[thread[t].rec] = "ACTIVE" THEN "loaded" ELSE "timedOut"]
    /\ UNCHANGED <<loaded, loading, state, attached, clients, process, doomed, mutex, holds,
                   gone, notices>>

\* The rest of Acquire after a wait, without the lock; mutex_ is unlocked.
AcquireLoaded(t) ==
    /\ thread[t].pc = "loaded"
    /\ IF HasScheduler(thread[t].rec)
       THEN AddClient(t, thread[t].rec) /\ UNCHANGED loaded
       ELSE /\ loaded' = [loaded EXCEPT ![thread[t].name] = NoRecord]
            /\ UNCHANGED <<clients, holds>>
    /\ Return(t)
    /\ mutex' = FALSE
    /\ UNCHANGED <<loading, state, attached, process, doomed, gone, notices>>

\* AppScheduler::AttachTimeOut: the application manager ends the process, if there is one,
\* after a delay (HandleAbilityAttachTimeOut).
AttachTimeOut(d) == doomed' = IF process[d] \in {"none", "died"} THEN doomed ELSE doomed \cup {d}

\* Mutant: the entry of the map is kept.
MutantTimeoutKeepsEntry(t) ==
    /\ thread[t].pc = "timedOut"
    /\ AttachTimeOut(thread[t].rec)
    /\ Return(t)
    /\ mutex' = FALSE
    /\ UNCHANGED <<loaded, loading, state, attached, clients, process, holds, gone, notices>>

\* The rest of LoadLocked and Acquire after a timeout, without the lock: the
\* entry of the name is erased, whichever record it holds.
AcquireTimedOut(t) ==
    /\ thread[t].pc = "timedOut"
    /\ loading' = [loading EXCEPT ![thread[t].name] = NoRecord]
    /\ AttachTimeOut(thread[t].rec)
    /\ Return(t)
    /\ mutex' = FALSE
    /\ UNCHANGED <<loaded, state, attached, clients, process, holds, gone, notices>>

-----------------------------------------------------------------------------
(* The other handlers.                                                     *)

\* Mutant: all entries of the client are removed.
MutantReleaseRemovesAll(c, d) ==
    /\ c \notin gone /\ holds[d][c] > 0 /\ ~mutex
    /\ holds' = [holds EXCEPT ![d][c] = @ - 1]
    /\ clients' = [clients EXCEPT ![d][c] = IF loaded[NameOf[d]] = d THEN 0 ELSE @]
    /\ UNCHANGED <<loaded, loading, state, attached, process, doomed, thread, mutex, gone, notices>>

\* RemoveClient: one entry less; GetClientCount has to find one.
RemoveClient(c, d) ==
    clients' = [clients EXCEPT ![d][c] = IF HasScheduler(d) /\ @ > 0 THEN @ - 1 ELSE @]

\* Release by a caller that has the scheduler of d: the manager refuses unless d is
\* loaded.
Release(c, d) ==
    /\ c \notin gone /\ holds[d][c] > 0
    /\ ~mutex
    /\ holds' = [holds EXCEPT ![d][c] = @ - 1]
    /\ IF loaded[NameOf[d]] = d THEN RemoveClient(c, d) ELSE UNCHANGED clients
    /\ UNCHANGED <<loaded, loading, state, attached, process, doomed, thread, mutex, gone, notices>>

\* Attach: a record in its initial state gets its scheduler, once, and the process
\* is told to become active.
Attach(d) ==
    IF d \notin attached /\ state[d] = "INITIAL"
    THEN /\ process' = [process EXCEPT ![d] = "activate"]
         /\ attached' = attached \cup {d}
         /\ state' = [state EXCEPT ![d] = "ACTIVATING"]
    ELSE process' = [process EXCEPT ![d] = "rest"] /\ UNCHANGED <<attached, state>>

\* A process reports; its record has to be the one that is being loaded.
AttachAbilityThread(d) ==
    /\ process[d] = "attach"
    /\ ~mutex
    /\ IF loading[NameOf[d]] = d THEN Attach(d)
       ELSE process' = [process EXCEPT ![d] = "rest"] /\ UNCHANGED <<attached, state>>
    /\ UNCHANGED <<loaded, loading, clients, doomed, thread, mutex, holds, gone, notices>>

\* The result of a transition, ok if it ended in the active state.
OnTransitionDone(d, ok) == state' = [state EXCEPT ![d] = IF ok THEN "ACTIVE" ELSE "INITIAL"]

\* The process reports what became of it; only success moves the record.
AbilityTransitionDone(d, ok) ==
    LET known == loading[NameOf[d]] = d /\ d \in attached /\ state[d] = "ACTIVATING"
    IN  /\ process[d] = "activate"
        /\ ~mutex
        /\ process' = [process EXCEPT ![d] = "rest"]
        /\ IF known THEN OnTransitionDone(d, ok) ELSE UNCHANGED state
        /\ IF known /\ ok
           THEN /\ loaded' = [loaded EXCEPT ![NameOf[d]] = d]
                /\ loading' = [loading EXCEPT ![NameOf[d]] = NoRecord]
           ELSE UNCHANGED <<loaded, loading>>
        /\ UNCHANGED <<attached, clients, doomed, thread, mutex, holds, gone, notices>>

-----------------------------------------------------------------------------
(* Deaths.                                                                 *)

\* The process of a data ability ends; the death of an attached one is reported.
ProcessDies(d) ==
    /\ process[d] \in {"attach", "activate", "rest"}
    /\ Crashes \/ d \in doomed
    /\ process' = [process EXCEPT ![d] = IF d \in attached THEN "died" ELSE "none"]
    /\ doomed' = doomed \ {d}
    /\ UNCHANGED <<loaded, loading, state, attached, clients, thread, mutex, holds, gone, notices>>

\* What the deaths of callers leave to be handled.  AbilityManagerService::OnAbilityDied
\* passes on those of data abilities; of native callers the recipient is told.
NoticesOf(dying) ==
    {<<c, NoRecord>> : c \in {x \in dying : KindOf[x] = "data"}}
    \cup {e \in dying \X Records : KindOf[e[1]] = "system" /\ clients[e[2]][e[1]] > 0}

CallerDies(c) ==
    /\ c \notin gone
    /\ gone' = gone \cup {c}
    /\ notices' = notices \cup NoticesOf({c})
    /\ UNCHANGED <<loaded, loading, state, attached, clients, process, doomed, thread, mutex, holds>>

\* The clients KillBoundClientProcesses kills.
KillBoundClientProcesses(d) ==
    {c \in Binding \ gone : KindOf[c] # "system" /\ HasScheduler(d) /\ clients[d][c] > 0}

\* OnAbilityDied of a data ability, which has to be in one of the maps: if it was
\* loaded, the clients bound to it are killed.  Then it may have to be restarted, by
\* the same thread.
OnAbilityDied(d) ==
    LET n     == NameOf[d]
        bound == KillBoundClientProcesses(d)
    IN  /\ process[d] = "died"
        /\ thread[Worker].pc = "idle"
        /\ ~mutex
        /\ process' = [process EXCEPT ![d] = "none"]
        /\ IF loaded[n] = d
           THEN /\ loaded' = [loaded EXCEPT ![n] = NoRecord]
                /\ gone' = gone \cup bound
                /\ notices' = notices \cup NoticesOf(bound)
           ELSE UNCHANGED <<loaded, gone, notices>>
        /\ thread' = IF n \in Resident /\ d \in {loaded[n], loading[n]}
                     THEN [thread EXCEPT ![Worker] = [pc |-> "restart", name |-> n, rec |-> NoRecord]]
                     ELSE thread
        /\ UNCHANGED <<loading, state, attached, clients, doomed, mutex, holds>>

\* OnAbilityDied of a data ability that is a client of loaded ones (RemoveClients).
ClientDied(c) ==
    /\ <<c, NoRecord>> \in notices
    /\ thread[Worker].pc = "idle"
    /\ ~mutex
    /\ notices' = notices \ {<<c, NoRecord>>}
    /\ clients' = [d \in Records |->
                      IF loaded[NameOf[d]] = d /\ HasScheduler(d)
                      THEN [clients[d] EXCEPT ![c] = 0] ELSE clients[d]]
    /\ UNCHANGED <<loaded, loading, state, attached, process, doomed, thread, mutex, holds, gone>>

\* The recipient of a native caller's death, which does not lock mutex_.  The proxy that
\* died exists while its recipients are called, so that the branch for one that does not
\* (data_ability_record.cpp:501, every native client is erased) is not taken.
OnSchedulerDied(c, d) ==
    /\ <<c, d>> \in notices
    /\ notices' = notices \ {<<c, d>>}
    /\ clients' = [clients EXCEPT ![d][c] = 0]
    /\ UNCHANGED <<loaded, loading, state, attached, process, doomed, thread, mutex, holds, gone>>

-----------------------------------------------------------------------------
Init ==
    /\ loaded = [n \in Names |-> NoRecord]
    /\ loading = [n \in Names |-> NoRecord]
    /\ state = [d \in Records |-> "none"]
    /\ attached = {}
    /\ clients = [d \in Records |-> [c \in Callers |-> 0]]
    /\ process = [d \in Records |-> "none"]
    /\ doomed = {}
    /\ thread = [t \in Threads |-> AtRest]
    /\ mutex = FALSE
    /\ holds = [d \in Records |-> [c \in Callers |-> 0]]
    /\ gone = {}
    /\ notices = {}

Next ==
    \/ \E c \in Callers, n \in Names : Acquire(c, n)
    \/ Restart
    \/ \E t \in Threads :
          LoadLocked(t) \/ WaitForLoaded(t) \/ AcquireLoaded(t) \/ AcquireTimedOut(t)
    \/ \E c \in Callers, d \in Records : Release(c, d) \/ OnSchedulerDied(c, d)
    \/ \E d \in Records : AttachAbilityThread(d) \/ ProcessDies(d) \/ OnAbilityDied(d)
    \/ \E d \in Records, ok \in BOOLEAN : AbilityTransitionDone(d, ok)
    \/ \E c \in Callers : CallerDies(c) \/ ClientDied(c)

Spec == Init /\ [][Next]_dataVars

-----------------------------------------------------------------------------
TypeOK ==
    /\ loaded \in [Names -> Records \cup {NoRecord}]
    /\ loading \in [Names -> Records \cup {NoRecord}]
    /\ state \in [Records -> States]
    /\ attached \subseteq Records
    /\ clients \in [Records -> [Callers -> Nat]]
    /\ process \in [Records -> {"none", "attach", "activate", "rest", "died"}]
    /\ doomed \subseteq Records
    /\ thread \in [Threads -> [pc : Places, name : Names, rec : Records \cup {NoRecord}]]
    /\ mutex \in BOOLEAN
    /\ holds \in [Records -> [Callers -> Nat]]
    /\ gone \subseteq Callers
    /\ notices \subseteq Callers \X (Records \cup {NoRecord})

\* Every record in the map of loading ones has a thread that waits for it, or is
\* about to erase it: a data ability that never gets loaded does not keep its name
\* taken for ever (LoadLocked).
LoadingIsAwaited ==
    \A n \in Names : loading[n] # NoRecord =>
        \E t \in Threads : thread[t].pc \in {"waiting", "timedOut"}
                           /\ thread[t].rec = loading[n] /\ thread[t].name = n

\* A loaded data ability lists each living client as often as the client has
\* acquired and not released it ("One client can be added multi-times"): no
\* acquisition is lost or counted twice, by whichever path Acquire returned.
ClientsCounted ==
    \A d \in Records, c \in Callers \ gone :
        loaded[NameOf[d]] = d => clients[d][c] = holds[d][c]

\* "BUG: The attaching data ability has already existed" (AttachAbilityThread): no
\* name is in the map of loaded and in the map of loading abilities, since Acquire
\* looks at both under mutex_ before it loads.
NamesOnce == \A n \in Names : loaded[n] = NoRecord \/ loading[n] = NoRecord

=============================================================================
