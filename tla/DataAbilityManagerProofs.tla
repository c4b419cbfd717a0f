---------------------- MODULE DataAbilityManagerProofs ----------------------
(***************************************************************************)
(* Proofs about the data ability manager, for any number of threads,       *)
(* clients, data abilities and records.  The invariants that TLC checks    *)
(* need to know in addition which states the records in the two maps and   *)
(* the records threads refer to can be in (RecordsOK, ThreadsOK), and that *)
(* deaths are handled only of callers that are gone (NoticesOK).           *)
(***************************************************************************)
EXTENDS DataAbilityManager, TLAPS

\* Records in the maps are there under their own name, loaded ones are active and
\* loading ones are not; an active record is attached; others have no clients.
RecordsOK ==
    /\ \A n \in Names : loaded[n] # NoRecord => NameOf[loaded[n]] = n /\ HasScheduler(loaded[n])
    /\ \A n \in Names : loading[n] # NoRecord => NameOf[loading[n]] = n /\ state[loading[n]] # "ACTIVE"
    /\ \A d \in Records : state[d] = "ACTIVE" => d \in attached
    /\ \A d \in Records, c \in Callers :
          state[d] # "ACTIVE" => clients[d][c] = 0 /\ holds[d][c] = 0

\* A thread that waits, or has waited, does so for a record.
ThreadsOK ==
    \A t \in Threads :
        /\ thread[t].pc \in {"waiting", "timedOut", "loaded"} => thread[t].rec \in Records
        /\ thread[t].pc = "loaded" => state[thread[t].rec] = "ACTIVE"

NoticesOK == \A e \in notices : e[1] \in gone

\* The inductive invariant.
DataInv ==
    /\ TypeOK
    /\ RecordsOK
    /\ ThreadsOK
    /\ NoticesOK
    /\ LoadingIsAwaited
    /\ ClientsCounted

-----------------------------------------------------------------------------
\* A thread that has returned is idle, waits for nothing and has a value of the type
\* of threads.
LEMMA AtRestFacts ==
    /\ AtRest \in [pc : Places, name : Names, rec : Records \cup {NoRecord}]
    /\ AtRest.pc = "idle"
BY DataConstants DEF AtRest, Places

LEMMA DataInit == Init => DataInv
<1> SUFFICES ASSUME Init PROVE DataInv
  OBVIOUS
<1>1. TypeOK
  BY DataConstants, AtRestFacts DEF Init, TypeOK, States
<1>2. RecordsOK
  BY DataConstants DEF Init, RecordsOK
<1>3. ThreadsOK
  BY AtRestFacts DEF Init, ThreadsOK
<1>4. NoticesOK /\ LoadingIsAwaited
  BY DEF Init, NoticesOK, LoadingIsAwaited
<1>5. ClientsCounted
  BY DataConstants DEF Init, ClientsCounted
<1> QED
  BY <1>1, <1>2, <1>3, <1>4, <1>5 DEF DataInv

\* What is left after a thread has moved: it is where it was sent, the others are
\* where they were.
LEMMA ThreadMoves ==
    ASSUME TypeOK, NEW t \in Threads,
           NEW x \in [pc : Places, name : Names, rec : Records \cup {NoRecord}],
           thread' = [thread EXCEPT ![t] = x]
    PROVE  /\ thread' \in [Threads -> [pc : Places, name : Names, rec : Records \cup {NoRecord}]]
           /\ thread'[t] = x
           /\ \A u \in Threads \ {t} : thread'[u] = thread[u]
BY DEF TypeOK

\* AddClient counts one acquisition more in the record and with the client, and
\* leaves the other records alone.
LEMMA AddClientFacts ==
    ASSUME TypeOK, NEW t \in Threads, NEW d \in Records, AddClient(t, d)
    PROVE  /\ clients' \in [Records -> [Callers -> Nat]]
           /\ holds' \in [Records -> [Callers -> Nat]]
           /\ \A e \in Records \ {d} : clients'[e] = clients[e] /\ holds'[e] = holds[e]
           /\ \A e \in Records, c \in Callers :
                 clients[e][c] = holds[e][c] => clients'[e][c] = holds'[e][c]
<1>1. CASE t \in Callers
  <2>1. /\ clients' = [clients EXCEPT ![d][t] = @ + 1]
        /\ holds' = [holds EXCEPT ![d][t] = @ + 1]
    BY <1>1 DEF AddClient
  <2>2. clients[d][t] + 1 \in Nat /\ holds[d][t] + 1 \in Nat
    BY <1>1 DEF TypeOK
  <2> QED
    BY <1>1, <2>1, <2>2 DEF TypeOK
<1>2. CASE t \notin Callers
  BY <1>2 DEF AddClient, TypeOK
<1> QED
  BY <1>1, <1>2

-----------------------------------------------------------------------------
(* One lemma per action.                                                   *)

LEMMA FindKeeps ==
    ASSUME NEW t \in Threads, NEW n \in Names, DataInv, Find(t, n),
           thread[t].pc \in {"idle", "restart"}
    PROVE  DataInv'
<1>1. TypeOK /\ RecordsOK /\ ThreadsOK /\ NoticesOK /\ LoadingIsAwaited /\ ClientsCounted
  BY DEF DataInv
<1>2. UNCHANGED <<loading, state, attached, process, doomed, gone, notices>>
  BY DEF Find
<1>3. PICK x \in [pc : Places, name : Names, rec : Records \cup {NoRecord}] :
         /\ thread' = [thread EXCEPT ![t] = x]
         /\ x.pc \in {"idle", "load", "waiting"}
         /\ x.pc = "waiting" => x.rec \in Records
         /\ mutex' # mutex => mutex' = TRUE /\ x.pc = "load"
  <2>1. CASE loaded[n] # NoRecord
    BY <2>1, AtRestFacts DEF Find, Return
  <2>2. CASE loaded[n] = NoRecord /\ loading[n] # NoRecord
    <3>1. loading[n] \in Records
      BY <1>1, <2>2 DEF TypeOK
    <3>2. thread' = [thread EXCEPT ![t] = [pc |-> "waiting", name |-> n, rec |-> loading[n]]]
          /\ mutex' = mutex
      BY <2>2 DEF Find, Wait
    <3> QED
      BY <3>1, <3>2 DEF Places
  <2>3. CASE loaded[n] = NoRecord /\ loading[n] = NoRecord
    <3> DEFINE y == [pc |-> "load", name |-> n, rec |-> NoRecord]
    <3>1. thread' = [thread EXCEPT ![t] = y] /\ mutex' = TRUE
      BY <2>3 DEF Find
    <3>2. y \in [pc : Places, name : Names, rec : Records \cup {NoRecord}] /\ y.pc = "load"
      BY DEF Places
    <3> HIDE DEF y
    <3> QED
      BY <3>1, <3>2
  <2> QED
    BY <2>1, <2>2, <2>3
<1>4. /\ thread' \in [Threads -> [pc : Places, name : Names, rec : Records \cup {NoRecord}]]
      /\ thread'[t] = x
      /\ \A u \in Threads \ {t} : thread'[u] = thread[u]
  BY <1>1, <1>3, ThreadMoves
<1>5. /\ loaded' = loaded
      /\ \/ clients' = clients /\ holds' = holds
         \/ \E d \in Records : HasScheduler(d) /\ AddClient(t, d)
  <2>1. CASE loaded[n] # NoRecord
    <3>1. loaded[n] \in Records /\ HasScheduler(loaded[n])
      BY <1>1, <2>1 DEF TypeOK, RecordsOK
    <3> QED
      BY <2>1, <3>1 DEF Find
  <2>2. CASE loaded[n] = NoRecord
    BY <2>2 DEF Find
  <2> QED
    BY <2>1, <2>2
<1>6. /\ clients' \in [Records -> [Callers -> Nat]]
      /\ holds' \in [Records -> [Callers -> Nat]]
      /\ \A e \in Records, c \in Callers :
            /\ clients[e][c] = holds[e][c] => clients'[e][c] = holds'[e][c]
            /\ ~HasScheduler(e) => clients'[e] = clients[e] /\ holds'[e] = holds[e]
  <2>1. CASE clients' = clients /\ holds' = holds
    BY <1>1, <2>1 DEF TypeOK
  <2>2. ASSUME NEW d \in Records, HasScheduler(d), AddClient(t, d)
        PROVE  <1>6!:
    BY <1>1, <2>2, AddClientFacts
  <2> QED
    BY <1>5, <2>1, <2>2
<1>7. TypeOK'
  <2>1. mutex' \in BOOLEAN
    BY <1>1, <1>3 DEF TypeOK
  <2> QED
    BY <1>1, <1>2, <1>4, <1>5, <1>6, <2>1 DEF TypeOK
<1>8. RecordsOK'
  BY <1>1, <1>2, <1>5, <1>6 DEF RecordsOK, HasScheduler
<1>9. ThreadsOK'
  BY <1>1, <1>2, <1>3, <1>4 DEF ThreadsOK
<1>10. NoticesOK'
  BY <1>1, <1>2 DEF NoticesOK
<1>11. LoadingIsAwaited'
  BY <1>1, <1>2, <1>4 DEF LoadingIsAwaited
<1>12. ClientsCounted'
  BY <1>1, <1>2, <1>5, <1>6 DEF ClientsCounted
<1> QED
  BY <1>7, <1>8, <1>9, <1>10, <1>11, <1>12 DEF DataInv

LEMMA LoadLockedKeeps ==
    ASSUME NEW t \in Threads, DataInv, LoadLocked(t)
    PROVE  DataInv'
<1>1. TypeOK /\ RecordsOK /\ ThreadsOK /\ NoticesOK /\ LoadingIsAwaited /\ ClientsCounted
  BY DEF DataInv
<1>2. /\ thread[t].pc = "load" /\ mutex' = FALSE
      /\ UNCHANGED <<loaded, attached, clients, doomed, holds, gone, notices>>
  BY DEF LoadLocked
<1>4. NoticesOK' /\ ClientsCounted'
  BY <1>1, <1>2 DEF NoticesOK, ClientsCounted
<1>5. CASE Return(t) /\ UNCHANGED <<state, process, loading>>
  <2>1. /\ thread' \in [Threads -> [pc : Places, name : Names, rec : Records \cup {NoRecord}]]
        /\ thread'[t] = AtRest
        /\ \A u \in Threads \ {t} : thread'[u] = thread[u]
    BY <1>1, <1>5, AtRestFacts, ThreadMoves DEF Return
  <2>2. TypeOK'
    BY <1>1, <1>2, <1>5, <2>1 DEF TypeOK
  <2>3. RecordsOK'
    BY <1>1, <1>2, <1>5 DEF RecordsOK, HasScheduler
  <2>4. ThreadsOK' /\ LoadingIsAwaited'
    BY <1>1, <1>2, <1>5, <2>1, AtRestFacts DEF ThreadsOK, LoadingIsAwaited
  <2> QED
    BY <1>4, <2>2, <2>3, <2>4 DEF DataInv
<1>6. ASSUME NEW d \in Records, StartLoading(thread[t].name, d),
             IF loading[thread[t].name] # NoRecord
             THEN Return(t) /\ UNCHANGED loading
             ELSE /\ loading' = [loading EXCEPT ![thread[t].name] = d]
                  /\ Wait(t, thread[t].name, d)
      PROVE  DataInv'
  <2>1. /\ NameOf[d] = thread[t].name /\ state[d] = "none"
        /\ state' = [state EXCEPT ![d] = "INITIAL"]
        /\ process' = [process EXCEPT ![d] = "attach"]
        /\ thread[t].name \in Names
    BY <1>1, <1>6 DEF StartLoading, TypeOK
  <2>2. /\ state' \in [Records -> States]
        /\ process' \in [Records -> {"none", "attach", "activate", "rest", "died"}]
        /\ \A e \in Records : state[e] = "ACTIVE" <=> state'[e] = "ACTIVE"
    BY <1>1, <2>1 DEF TypeOK, States
  <2>3. PICK x \in [pc : Places, name : Names, rec : Records \cup {NoRecord}] :
           /\ thread' = [thread EXCEPT ![t] = x]
           /\ \/ x.pc = "idle" /\ loading' = loading
              \/ /\ x.pc = "waiting" /\ x.name = thread[t].name /\ x.rec = d
                 /\ loading' = [loading EXCEPT ![thread[t].name] = d]
    <3>1. CASE loading[thread[t].name] # NoRecord
      BY <1>6, <3>1, AtRestFacts DEF Return
    <3>2. CASE loading[thread[t].name] = NoRecord
      <4> DEFINE y == [pc |-> "waiting", name |-> thread[t].name, rec |-> d]
      <4>1. /\ loading' = [loading EXCEPT ![thread[t].name] = d]
            /\ thread' = [thread EXCEPT ![t] = y]
        BY <1>6, <3>2 DEF Wait
      <4>2. /\ y \in [pc : Places, name : Names, rec : Records \cup {NoRecord}]
            /\ y.pc = "waiting" /\ y.name = thread[t].name /\ y.rec = d
        BY <2>1 DEF Places
      <4> HIDE DEF y
      <4> QED
        BY <4>1, <4>2
    <3> QED
      BY <3>1, <3>2
  <2>4. /\ thread' \in [Threads -> [pc : Places, name : Names, rec : Records \cup {NoRecord}]]
        /\ thread'[t] = x
        /\ \A u \in Threads \ {t} : thread'[u] = thread[u]
    BY <1>1, <2>3, ThreadMoves
  <2>5. loading' \in [Names -> Records \cup {NoRecord}]
    BY <1>1, <2>3 DEF TypeOK
  <2>6. TypeOK'
    BY <1>1, <1>2, <2>2, <2>4, <2>5 DEF TypeOK
  <2>7. RecordsOK'
    BY <1>1, <1>2, <2>1, <2>2, <2>3, DataConstants DEF RecordsOK, HasScheduler, TypeOK
  <2>8. ThreadsOK'
    BY <1>1, <2>2, <2>3, <2>4 DEF ThreadsOK
  <2>9. LoadingIsAwaited'
    <3> SUFFICES ASSUME NEW n \in Names, loading'[n] # NoRecord
                 PROVE  \E u \in Threads : thread'[u].pc \in {"waiting", "timedOut"}
                                           /\ thread'[u].rec = loading'[n] /\ thread'[u].name = n
      BY DEF LoadingIsAwaited
    <3>1. CASE loading'[n] = loading[n]
      <4>1. PICK u \in Threads : thread[u].pc \in {"waiting", "timedOut"}
                                 /\ thread[u].rec = loading[n] /\ thread[u].name = n
        BY <1>1, <3>1 DEF LoadingIsAwaited
      <4> QED
        BY <1>2, <2>4, <3>1, <4>1
    <3>2. CASE loading'[n] # loading[n]
      <4>1. n = thread[t].name /\ loading'[n] = d /\ x.pc = "waiting" /\ x.name = n /\ x.rec = d
        BY <1>1, <2>3, <3>2 DEF TypeOK
      <4> QED
        BY <2>4, <4>1
    <3> QED
      BY <3>1, <3>2
  <2> QED
    BY <1>4, <2>6, <2>7, <2>8, <2>9 DEF DataInv
<1> QED
  BY <1>5, <1>6 DEF LoadLocked

LEMMA WaitForLoadedKeeps ==
    ASSUME NEW t \in Threads, DataInv, WaitForLoaded(t)
    PROVE  DataInv'
<1> USE DataConstants, AtRestFacts DEF WaitForLoaded
<1>1. TypeOK'
  BY SMTT(60) DEF DataInv, TypeOK, States, Places, HasScheduler, Threads
<1>2. RecordsOK'
  BY DEF DataInv, TypeOK, RecordsOK, HasScheduler
<1>3. ThreadsOK'
  BY DEF DataInv, TypeOK, RecordsOK, ThreadsOK, Threads
<1>4. NoticesOK'
  BY DEF DataInv, TypeOK, NoticesOK
<1>5. LoadingIsAwaited'
  BY DEF DataInv, TypeOK, RecordsOK, ThreadsOK, LoadingIsAwaited, Threads
<1>6. ClientsCounted'
  BY DEF DataInv, TypeOK, RecordsOK, ThreadsOK, NoticesOK, ClientsCounted, HasScheduler
<1> QED
  BY <1>1, <1>2, <1>3, <1>4, <1>5, <1>6 DEF DataInv

LEMMA AcquireLoadedKeeps ==
    ASSUME NEW t \in Threads, DataInv, AcquireLoaded(t)
    PROVE  DataInv'
<1>1. TypeOK /\ RecordsOK /\ ThreadsOK /\ NoticesOK /\ LoadingIsAwaited /\ ClientsCounted
  BY DEF DataInv
<1>2. /\ thread[t].pc = "loaded" /\ Return(t) /\ mutex' = FALSE
      /\ UNCHANGED <<loading, state, attached, process, doomed, gone, notices>>
  BY DEF AcquireLoaded
<1>3. thread[t].rec \in Records /\ HasScheduler(thread[t].rec)
  BY <1>1, <1>2 DEF ThreadsOK, RecordsOK, HasScheduler
<1>4. AddClient(t, thread[t].rec) /\ loaded' = loaded
  BY <1>3 DEF AcquireLoaded
<1>5. /\ clients' \in [Records -> [Callers -> Nat]]
      /\ holds' \in [Records -> [Callers -> Nat]]
      /\ \A e \in Records \ {thread[t].rec} : clients'[e] = clients[e] /\ holds'[e] = holds[e]
      /\ \A e \in Records, c \in Callers :
            clients[e][c] = holds[e][c] => clients'[e][c] = holds'[e][c]
  BY <1>1, <1>3, <1>4, AddClientFacts
<1>6. /\ thread' \in [Threads -> [pc : Places, name : Names, rec : Records \cup {NoRecord}]]
      /\ thread'[t] = AtRest
      /\ \A u \in Threads \ {t} : thread'[u] = thread[u]
  BY <1>1, <1>2, AtRestFacts, ThreadMoves DEF Return
<1>7. TypeOK'
  BY <1>1, <1>2, <1>4, <1>5, <1>6 DEF TypeOK
<1>8. RecordsOK'
  BY <1>1, <1>2, <1>3, <1>4, <1>5 DEF RecordsOK, HasScheduler
<1>9. ThreadsOK' /\ LoadingIsAwaited'
  BY <1>1, <1>2, <1>6, AtRestFacts DEF ThreadsOK, LoadingIsAwaited
<1>10. ClientsCounted' /\ NoticesOK'
  BY <1>1, <1>2, <1>4, <1>5 DEF ClientsCounted, NoticesOK
<1> QED
  BY <1>7, <1>8, <1>9, <1>10 DEF DataInv

LEMMA AcquireTimedOutKeeps ==
    ASSUME NEW t \in Threads, DataInv, AcquireTimedOut(t)
    PROVE  DataInv'
<1>1. TypeOK /\ RecordsOK /\ ThreadsOK /\ NoticesOK /\ LoadingIsAwaited /\ ClientsCounted
  BY DEF DataInv
<1>2. /\ thread[t].pc = "timedOut" /\ Return(t) /\ mutex' = FALSE
      /\ loading' = [loading EXCEPT ![thread[t].name] = NoRecord]
      /\ AttachTimeOut(thread[t].rec)
      /\ UNCHANGED <<loaded, state, attached, clients, process, holds, gone, notices>>
  BY DEF AcquireTimedOut
<1>3. /\ thread' \in [Threads -> [pc : Places, name : Names, rec : Records \cup {NoRecord}]]
      /\ thread'[t] = AtRest
      /\ \A u \in Threads \ {t} : thread'[u] = thread[u]
  BY <1>1, <1>2, AtRestFacts, ThreadMoves DEF Return
<1>4. doomed' \subseteq Records
  <2>1. thread[t].rec \in Records
    BY <1>1, <1>2 DEF ThreadsOK
  <2> QED
    BY <1>1, <1>2, <2>1 DEF AttachTimeOut, TypeOK
<1>5. /\ loading' \in [Names -> Records \cup {NoRecord}]
      /\ thread[t].name \in Names
      /\ \A n \in Names : loading'[n] # NoRecord => n # thread[t].name /\ loading'[n] = loading[n]
  BY <1>1, <1>2 DEF TypeOK
<1>6. TypeOK'
  BY <1>1, <1>2, <1>3, <1>4, <1>5 DEF TypeOK
<1>7. RecordsOK'
  BY <1>1, <1>2, <1>5 DEF RecordsOK, HasScheduler
<1>8. ThreadsOK'
  BY <1>1, <1>2, <1>3, AtRestFacts DEF ThreadsOK
<1>9. LoadingIsAwaited'
  BY <1>1, <1>3, <1>5 DEF LoadingIsAwaited
<1>10. ClientsCounted' /\ NoticesOK'
  BY <1>1, <1>2 DEF ClientsCounted, NoticesOK
<1> QED
  BY <1>6, <1>7, <1>8, <1>9, <1>10 DEF DataInv

LEMMA ReleaseKeeps ==
    ASSUME NEW x \in Callers, NEW r \in Records, DataInv, Release(x, r)
    PROVE  DataInv'
<1> USE DataConstants, AtRestFacts DEF Release, RemoveClient
<1>1. TypeOK'
  <2>1. holds[r][x] - 1 \in Nat /\ clients[r][x] \in Nat
    BY DEF DataInv, TypeOK
  <2>2. holds' \in [Records -> [Callers -> Nat]]
    BY <2>1 DEF DataInv, TypeOK
  <2>3. clients' \in [Records -> [Callers -> Nat]]
    <3>1. clients[r] \in [Callers -> Nat] /\ clients \in [Records -> [Callers -> Nat]]
      BY DEF DataInv, TypeOK
    <3>2. PICK k \in Nat : clients' = [clients EXCEPT ![r][x] = k] \/ clients' = clients
      BY <2>1
    <3> HIDE DEF Release, RemoveClient
    <3> QED
      BY <3>1, <3>2
  <2> QED
    BY <2>2, <2>3 DEF DataInv, TypeOK
<1>2. RecordsOK'
  BY DEF DataInv, TypeOK, RecordsOK, HasScheduler
<1>3. ThreadsOK'
  BY DEF DataInv, TypeOK, RecordsOK, ThreadsOK, Threads
<1>4. NoticesOK'
  BY DEF DataInv, TypeOK, NoticesOK
<1>5. LoadingIsAwaited'
  BY DEF DataInv, TypeOK, RecordsOK, ThreadsOK, LoadingIsAwaited, Threads
<1>6. ClientsCounted'
  BY DEF DataInv, TypeOK, RecordsOK, ThreadsOK, NoticesOK, ClientsCounted, HasScheduler
<1> QED
  BY <1>1, <1>2, <1>3, <1>4, <1>5, <1>6 DEF DataInv

LEMMA AttachKeeps ==
    ASSUME NEW r \in Records, DataInv, AttachAbilityThread(r)
    PROVE  DataInv'
<1>1. TypeOK /\ RecordsOK /\ ThreadsOK /\ NoticesOK /\ LoadingIsAwaited /\ ClientsCounted
  BY DEF DataInv
<1>2. UNCHANGED <<loaded, loading, clients, doomed, thread, mutex, holds, gone, notices>>
  BY DEF AttachAbilityThread
<1>3. /\ process' \in [Records -> {"none", "attach", "activate", "rest", "died"}]
      /\ attached' \subseteq Records /\ attached \subseteq attached'
      /\ state' \in [Records -> States]
      /\ \A d \in Records : state[d] = "ACTIVE" <=> state'[d] = "ACTIVE"
  <2>1. CASE loading[NameOf[r]] = r /\ r \notin attached /\ state[r] = "INITIAL"
    <3>1. /\ process' = [process EXCEPT ![r] = "activate"]
          /\ attached' = attached \cup {r}
          /\ state' = [state EXCEPT ![r] = "ACTIVATING"]
      BY <2>1 DEF AttachAbilityThread, Attach
    <3> QED
      BY <1>1, <2>1, <3>1 DEF TypeOK, States
  <2>2. CASE ~(loading[NameOf[r]] = r /\ r \notin attached /\ state[r] = "INITIAL")
    <3>1. process' = [process EXCEPT ![r] = "rest"] /\ attached' = attached /\ state' = state
      BY <2>2 DEF AttachAbilityThread, Attach
    <3> QED
      BY <1>1, <3>1 DEF TypeOK
  <2> QED
    BY <2>1, <2>2
<1>4. TypeOK'
  BY <1>1, <1>2, <1>3 DEF TypeOK
<1>5. RecordsOK'
  BY <1>1, <1>2, <1>3 DEF RecordsOK, HasScheduler, TypeOK
<1>6. ThreadsOK'
  BY <1>1, <1>2, <1>3 DEF ThreadsOK
<1>7. LoadingIsAwaited' /\ ClientsCounted' /\ NoticesOK'
  BY <1>1, <1>2 DEF LoadingIsAwaited, ClientsCounted, NoticesOK
<1> QED
  BY <1>4, <1>5, <1>6, <1>7 DEF DataInv

LEMMA TransitionKeeps ==
    ASSUME NEW r \in Records, NEW ok \in BOOLEAN, DataInv, AbilityTransitionDone(r, ok)
    PROVE  DataInv'
<1> DEFINE known == loading[NameOf[r]] = r /\ r \in attached /\ state[r] = "ACTIVATING"
<1>1. TypeOK /\ RecordsOK /\ ThreadsOK /\ NoticesOK /\ LoadingIsAwaited /\ ClientsCounted
  BY DEF DataInv
<1>2. UNCHANGED <<attached, clients, doomed, thread, mutex, holds, gone, notices>>
  BY DEF AbilityTransitionDone
<1>3. process' \in [Records -> {"none", "attach", "activate", "rest", "died"}]
  BY <1>1 DEF AbilityTransitionDone, TypeOK
<1>4. NoticesOK'
  BY <1>1, <1>2 DEF NoticesOK
<1>5. NameOf[r] \in Names
  BY DataConstants
<1>6. CASE known /\ ok
  <2>1. /\ state' = [state EXCEPT ![r] = "ACTIVE"]
        /\ loaded' = [loaded EXCEPT ![NameOf[r]] = r]
        /\ loading' = [loading EXCEPT ![NameOf[r]] = NoRecord]
    BY <1>6 DEF AbilityTransitionDone, OnTransitionDone
  <2>2. state' \in [Records -> States] /\ state'[r] = "ACTIVE"
        /\ \A d \in Records \ {r} : state'[d] = state[d]
    BY <1>1, <2>1 DEF TypeOK, States
  <2>3. /\ loaded' \in [Names -> Records \cup {NoRecord}]
        /\ loaded'[NameOf[r]] = r
        /\ \A n \in Names \ {NameOf[r]} : loaded'[n] = loaded[n]
    BY <1>1, <1>5, <2>1 DEF TypeOK
  <2>4. /\ loading' \in [Names -> Records \cup {NoRecord}]
        /\ loading'[NameOf[r]] = NoRecord
        /\ \A n \in Names \ {NameOf[r]} : loading'[n] = loading[n]
    BY <1>1, <1>5, <2>1 DEF TypeOK
  <2>5. \A c \in Callers : clients[r][c] = 0 /\ holds[r][c] = 0
    BY <1>1, <1>6 DEF RecordsOK
  <2>6. TypeOK'
    BY <1>1, <1>2, <1>3, <2>2, <2>3, <2>4 DEF TypeOK
  <2>7. RecordsOK'
    <3>1. \A n \in Names : loaded'[n] # NoRecord =>
             NameOf[loaded'[n]] = n /\ loaded'[n] \in attached /\ state'[loaded'[n]] = "ACTIVE"
      BY <1>1, <1>6, <2>2, <2>3, SMTT(60) DEF RecordsOK, HasScheduler, TypeOK
    <3>2. \A n \in Names : loading'[n] # NoRecord =>
             NameOf[loading'[n]] = n /\ state'[loading'[n]] # "ACTIVE"
      <4> SUFFICES ASSUME NEW n \in Names, loading'[n] # NoRecord
                   PROVE  NameOf[loading'[n]] = n /\ state'[loading'[n]] # "ACTIVE"
        OBVIOUS
      <4>1. /\ n # NameOf[r] /\ loading'[n] = loading[n] /\ loading[n] \in Records
            /\ NameOf[loading[n]] = n /\ state[loading[n]] # "ACTIVE"
        BY <1>1, <2>4 DEF RecordsOK, TypeOK
      <4> QED
        BY <2>2, <4>1
    <3>3. \A d \in Records : state'[d] = "ACTIVE" => d \in attached
      BY <1>1, <1>6, <2>2 DEF RecordsOK
    <3>4. \A d \in Records, c \in Callers :
             state'[d] # "ACTIVE" => clients[d][c] = 0 /\ holds[d][c] = 0
      BY <1>1, <2>2 DEF RecordsOK
    <3> QED
      BY <1>2, <3>1, <3>2, <3>3, <3>4 DEF RecordsOK, HasScheduler
  <2>8. ThreadsOK'
    BY <1>1, <1>2, <2>2 DEF ThreadsOK
  <2>9. LoadingIsAwaited'
    BY <1>1, <1>2, <2>4 DEF LoadingIsAwaited
  <2>10. ClientsCounted'
    <3> SUFFICES ASSUME NEW d \in Records, NEW c \in Callers \ gone, loaded'[NameOf[d]] = d
                 PROVE  clients[d][c] = holds[d][c]
      BY <1>2 DEF ClientsCounted
    <3>1. CASE d = r
      BY <2>5, <3>1
    <3>2. CASE d # r
      BY <1>1, <2>3, <3>2, DataConstants DEF ClientsCounted
    <3> QED
      BY <3>1, <3>2
  <2> QED
    BY <1>4, <2>6, <2>7, <2>8, <2>9, <2>10 DEF DataInv
<1>7. CASE ~(known /\ ok)
  <2>1. loaded' = loaded /\ loading' = loading
    BY <1>7 DEF AbilityTransitionDone
  <2>2. /\ state' \in [Records -> States]
        /\ \A d \in Records : state[d] = "ACTIVE" <=> state'[d] = "ACTIVE"
    <3>1. CASE known
      <4>1. state' = [state EXCEPT ![r] = "INITIAL"]
        BY <1>7, <3>1 DEF AbilityTransitionDone, OnTransitionDone
      <4> QED
        BY <1>1, <3>1, <4>1 DEF TypeOK, States
    <3>2. CASE ~known
      BY <1>1, <3>2 DEF AbilityTransitionDone, TypeOK
    <3> QED
      BY <3>1, <3>2
  <2>3. TypeOK'
    BY <1>1, <1>2, <1>3, <2>1, <2>2 DEF TypeOK
  <2>4. RecordsOK'
    BY <1>1, <1>2, <2>1, <2>2 DEF RecordsOK, HasScheduler, TypeOK
  <2>5. ThreadsOK'
    BY <1>1, <1>2, <2>2 DEF ThreadsOK
  <2>6. LoadingIsAwaited' /\ ClientsCounted'
    BY <1>1, <1>2, <2>1 DEF LoadingIsAwaited, ClientsCounted
  <2> QED
    BY <1>4, <2>3, <2>4, <2>5, <2>6 DEF DataInv
<1> QED
  BY <1>6, <1>7

LEMMA ProcessDiesKeeps ==
    ASSUME NEW r \in Records, DataInv, ProcessDies(r)
    PROVE  DataInv'
<1> USE DataConstants, AtRestFacts DEF ProcessDies
<1>1. TypeOK'
  BY DEF DataInv, TypeOK, States, Places, HasScheduler, Threads
<1>2. RecordsOK'
  BY DEF DataInv, TypeOK, RecordsOK, HasScheduler
<1>3. ThreadsOK'
  BY DEF DataInv, TypeOK, RecordsOK, ThreadsOK, Threads
<1>4. NoticesOK'
  BY DEF DataInv, TypeOK, NoticesOK
<1>5. LoadingIsAwaited'
  BY DEF DataInv, TypeOK, RecordsOK, ThreadsOK, LoadingIsAwaited, Threads
<1>6. ClientsCounted'
  BY DEF DataInv, TypeOK, RecordsOK, ThreadsOK, NoticesOK, ClientsCounted, HasScheduler
<1> QED
  BY <1>1, <1>2, <1>3, <1>4, <1>5, <1>6 DEF DataInv

LEMMA CallerDiesKeeps ==
    ASSUME NEW x \in Callers, DataInv, CallerDies(x)
    PROVE  DataInv'
<1> USE DataConstants, AtRestFacts DEF CallerDies, NoticesOf
<1>1. TypeOK'
  BY DEF DataInv, TypeOK, States, Places, HasScheduler, Threads
<1>2. RecordsOK'
  BY DEF DataInv, TypeOK, RecordsOK, HasScheduler
<1>3. ThreadsOK'
  BY DEF DataInv, TypeOK, RecordsOK, ThreadsOK, Threads
<1>4. NoticesOK'
  BY DEF DataInv, TypeOK, NoticesOK
<1>5. LoadingIsAwaited'
  BY DEF DataInv, TypeOK, RecordsOK, ThreadsOK, LoadingIsAwaited, Threads
<1>6. ClientsCounted'
  BY DEF DataInv, TypeOK, RecordsOK, ThreadsOK, NoticesOK, ClientsCounted, HasScheduler
<1> QED
  BY <1>1, <1>2, <1>3, <1>4, <1>5, <1>6 DEF DataInv

LEMMA OnAbilityDiedKeeps ==
    ASSUME NEW r \in Records, DataInv, OnAbilityDied(r)
    PROVE  DataInv'
<1>1. TypeOK /\ RecordsOK /\ ThreadsOK /\ NoticesOK /\ LoadingIsAwaited /\ ClientsCounted
  BY DEF DataInv
<1>2. /\ thread[Worker].pc = "idle"
      /\ UNCHANGED <<loading, state, attached, clients, doomed, mutex, holds>>
      /\ process' = [process EXCEPT ![r] = "none"]
  BY DEF OnAbilityDied
<1>3. NameOf[r] \in Names
  BY DataConstants
<1>4. /\ loaded' \in [Names -> Records \cup {NoRecord}]
      /\ \A n \in Names : loaded'[n] # NoRecord => loaded'[n] = loaded[n]
  <2>1. loaded' \in {loaded, [loaded EXCEPT ![NameOf[r]] = NoRecord]}
    BY DEF OnAbilityDied
  <2> QED
    BY <1>1, <1>3, <2>1 DEF TypeOK
<1>5. /\ gone' \subseteq Callers /\ gone \subseteq gone'
      /\ notices' \subseteq Callers \X (Records \cup {NoRecord})
      /\ \A e \in notices' : e[1] \in gone'
  <2>1. CASE loaded[NameOf[r]] = r
    <3> DEFINE bound == KillBoundClientProcesses(r)
    <3>1. gone' = gone \cup bound /\ notices' = notices \cup NoticesOf(bound)
      BY <2>1 DEF OnAbilityDied
    <3>2. bound \subseteq Callers
      BY DataConstants DEF KillBoundClientProcesses
    <3>3. NoticesOf(bound) \subseteq bound \X (Records \cup {NoRecord})
      BY DEF NoticesOf
    <3> HIDE DEF bound
    <3> QED
      BY <1>1, <3>1, <3>2, <3>3 DEF TypeOK, NoticesOK
  <2>2. CASE loaded[NameOf[r]] # r
    BY <1>1, <2>2 DEF OnAbilityDied, TypeOK, NoticesOK
  <2> QED
    BY <2>1, <2>2
<1>6. /\ thread' \in [Threads -> [pc : Places, name : Names, rec : Records \cup {NoRecord}]]
      /\ \A u \in Threads \ {Worker} : thread'[u] = thread[u]
      /\ thread'[Worker].pc \in {"idle", "restart"}
  <2> DEFINE x == [pc |-> "restart", name |-> NameOf[r], rec |-> NoRecord]
  <2>1. CASE thread' = thread
    BY <1>1, <1>2, <2>1 DEF TypeOK
  <2>2. CASE thread' = [thread EXCEPT ![Worker] = x]
    <3>1. x \in [pc : Places, name : Names, rec : Records \cup {NoRecord}] /\ x.pc = "restart"
      BY <1>3 DEF Places
    <3>2. Worker \in Threads
      BY DEF Threads
    <3> HIDE DEF x
    <3> QED
      BY <1>1, <2>2, <3>1, <3>2, ThreadMoves
  <2> QED
    BY <2>1, <2>2 DEF OnAbilityDied
<1>7. TypeOK'
  <2>1. process' \in [Records -> {"none", "attach", "activate", "rest", "died"}]
    BY <1>1, <1>2 DEF TypeOK
  <2> QED
    BY <1>1, <1>2, <1>4, <1>5, <1>6, <2>1 DEF TypeOK
<1>8. RecordsOK'
  BY <1>1, <1>2, <1>4 DEF RecordsOK, HasScheduler
<1>9. ThreadsOK'
  BY <1>1, <1>2, <1>6 DEF ThreadsOK
<1>10. NoticesOK'
  BY <1>5 DEF NoticesOK
<1>11. LoadingIsAwaited'
  BY <1>1, <1>2, <1>6 DEF LoadingIsAwaited
<1>12. ClientsCounted'
  BY <1>1, <1>2, <1>3, <1>4, <1>5, DataConstants DEF ClientsCounted
<1> QED
  BY <1>7, <1>8, <1>9, <1>10, <1>11, <1>12 DEF DataInv

LEMMA ClientDiedKeeps ==
    ASSUME NEW x \in Callers, DataInv, ClientDied(x)
    PROVE  DataInv'
<1> USE DataConstants, AtRestFacts DEF ClientDied
<1>1. TypeOK'
  BY DEF DataInv, TypeOK, States, Places, HasScheduler, Threads
<1>2. RecordsOK'
  BY DEF DataInv, TypeOK, RecordsOK, HasScheduler
<1>3. ThreadsOK'
  BY DEF DataInv, TypeOK, RecordsOK, ThreadsOK, Threads
<1>4. NoticesOK'
  BY DEF DataInv, TypeOK, NoticesOK
<1>5. LoadingIsAwaited'
  BY DEF DataInv, TypeOK, RecordsOK, ThreadsOK, LoadingIsAwaited, Threads
<1>6. ClientsCounted'
  BY DEF DataInv, TypeOK, RecordsOK, ThreadsOK, NoticesOK, ClientsCounted, HasScheduler
<1> QED
  BY <1>1, <1>2, <1>3, <1>4, <1>5, <1>6 DEF DataInv

LEMMA OnSchedulerDiedKeeps ==
    ASSUME NEW x \in Callers, NEW r \in Records, DataInv, OnSchedulerDied(x, r)
    PROVE  DataInv'
<1> USE DataConstants, AtRestFacts DEF OnSchedulerDied
<1>1. TypeOK'
  BY DEF DataInv, TypeOK, States, Places, HasScheduler, Threads
<1>2. RecordsOK'
  BY DEF DataInv, TypeOK, RecordsOK, HasScheduler
<1>3. ThreadsOK'
  BY DEF DataInv, TypeOK, RecordsOK, ThreadsOK, Threads
<1>4. NoticesOK'
  BY DEF DataInv, TypeOK, NoticesOK
<1>5. LoadingIsAwaited'
  BY DEF DataInv, TypeOK, RecordsOK, ThreadsOK, LoadingIsAwaited, Threads
<1>6. ClientsCounted'
  BY DEF DataInv, TypeOK, RecordsOK, ThreadsOK, NoticesOK, ClientsCounted, HasScheduler
<1> QED
  BY <1>1, <1>2, <1>3, <1>4, <1>5, <1>6 DEF DataInv

-----------------------------------------------------------------------------
LEMMA DataStep == DataInv /\ [Next]_dataVars => DataInv'
<1> SUFFICES ASSUME DataInv, [Next]_dataVars PROVE DataInv'
  OBVIOUS
<1>1. CASE UNCHANGED dataVars
  BY <1>1 DEF DataInv, TypeOK, RecordsOK, ThreadsOK, NoticesOK, LoadingIsAwaited,
              ClientsCounted, HasScheduler, dataVars
<1>2. ASSUME NEW c \in Callers, NEW n \in Names, Acquire(c, n) PROVE DataInv'
  BY <1>2, FindKeeps DEF Acquire, Threads
<1>3. CASE Restart
  <2>1. Worker \in Threads /\ thread[Worker].name \in Names
    BY DEF Threads, DataInv, TypeOK
  <2> QED
    BY <1>3, <2>1, FindKeeps DEF Restart
<1>4. ASSUME NEW t \in Threads,
             LoadLocked(t) \/ WaitForLoaded(t) \/ AcquireLoaded(t) \/ AcquireTimedOut(t)
      PROVE DataInv'
  BY <1>4, LoadLockedKeeps, WaitForLoadedKeeps, AcquireLoadedKeeps, AcquireTimedOutKeeps
<1>5. ASSUME NEW c \in Callers, NEW d \in Records, Release(c, d) \/ OnSchedulerDied(c, d)
      PROVE DataInv'
  BY <1>5, ReleaseKeeps, OnSchedulerDiedKeeps
<1>6. ASSUME NEW d \in Records, AttachAbilityThread(d) \/ ProcessDies(d) \/ OnAbilityDied(d)
      PROVE DataInv'
  BY <1>6, AttachKeeps, ProcessDiesKeeps, OnAbilityDiedKeeps
<1>7. ASSUME NEW d \in Records, NEW ok \in BOOLEAN, AbilityTransitionDone(d, ok) PROVE DataInv'
  BY <1>7, TransitionKeeps
<1>8. ASSUME NEW c \in Callers, CallerDies(c) \/ ClientDied(c) PROVE DataInv'
  BY <1>8, CallerDiesKeeps, ClientDiedKeeps
<1> QED
  BY <1>1, <1>2, <1>3, <1>4, <1>5, <1>6, <1>7, <1>8 DEF Next

LEMMA DataInvariant == Spec => []DataInv
BY DataInit, DataStep, PTL DEF Spec

\* The variables of the manager always have their types.
THEOREM DataTypes == Spec => []TypeOK
<1>1. DataInv => TypeOK
  BY DEF DataInv
<1> QED
  BY DataInvariant, <1>1, PTL

\* A record that is being loaded always has a thread that waits for it or is about
\* to erase it (LoadLocked), however many threads time out in whichever order.
THEOREM DataLoadingIsAwaited == Spec => []LoadingIsAwaited
<1>1. DataInv => LoadingIsAwaited
  BY DEF DataInv
<1> QED
  BY DataInvariant, <1>1, PTL

\* A loaded data ability lists a living client exactly as often as the client has
\* acquired and not released it (AddClient, RemoveClient).
THEOREM DataClientsCounted == Spec => []ClientsCounted
<1>1. DataInv => ClientsCounted
  BY DEF DataInv
<1> QED
  BY DataInvariant, <1>1, PTL

=============================================================================
