-------------------------- MODULE AppRunningProofs ---------------------------
(***************************************************************************)
(* Proofs about the running records of an application, for any number of   *)
(* page abilities, records and slow answers.  Every step changes one       *)
(* record, so the inductive invariant says of each record how its state    *)
(* and its pending state fit the commands and answers under way (AppFits), *)
(* and of each ability how it fits its record (PageFits).                  *)
(***************************************************************************)
EXTENDS AppRunning, FiniteSetTheorems, TLAPS
LOCAL INSTANCE SequencesExt

Commands == {<<c>> : c \in {"application", "foreground", "background", "terminate"}}
            \cup {"launch", "clean"} \X Pages
Answers == {<<c>> : c \in {"foregrounded", "backgrounded", "terminated"}}
           \cup {"cleaned"} \X Pages
States == {"CREATE", "READY", "FOREGROUND", "BACKGROUND"}
Processes == {"dead", "TERMINATED"} \cup States
AppType ==
  [listed : BOOLEAN, client : BOOLEAN, state : States,
   pending : {"READY", "FOREGROUNDING", "BACKGROUNDING"},
   terminating : BOOLEAN, module : BOOLEAN, tokens : SUBSET Pages,
   backgroundTimer : BOOLEAN, exitTimer : BOOLEAN, inbox : Seq(Commands), outbox : Seq(Answers),
   process : Processes, notice : BOOLEAN, slow : 0..MaxSlow, overridden : BOOLEAN]
PageType ==
  [list : {"none", "abilities", "terminateAbilities", "removed", "gone"}, record : 0..MaxAppRecords,
   state : States, cleanTimer : BOOLEAN, attachTimer : BOOLEAN]

\* A message with this name is in the queue s.
Has(s, name) == \E i \in DOMAIN s : s[i][1] = name
Turning(s) == Has(s, "foreground") \/ Has(s, "background")
Turned(s) == Has(s, "foregrounded") \/ Has(s, "backgrounded")

\* The last answer about the foreground or the background is this one.
LastTurned(s, name) ==
  \E i \in DOMAIN s : s[i][1] = name
     /\ \A j \in DOMAIN s : j > i => s[j][1] \notin {"foregrounded", "backgrounded"}

AtMostOne(s, names) == \A i, j \in DOMAIN s : s[i][1] \in names /\ s[j][1] \in names => i = j

LaunchesFirst(s) == \A i, j \in DOMAIN s : s[i][1] = "terminate" /\ s[j][1] = "launch" => j < i

Alive(app) == app.client /\ app.process \notin {"dead", "TERMINATED"}

\* A process is told to end when its module is gone, and nothing is launched after that,
\* unless the bundle has a jointUserId.
EndFits(app) ==
  ~JointUser => /\ Has(app.inbox, "terminate") => ~app.module
                /\ LaunchesFirst(app.inbox)

\* Nothing is known of a process that has not attached, and the first command of one that
\* has is to create its application.
ClientFits(app) ==
  /\ ~app.client => /\ app.state = "CREATE" /\ app.pending = "READY" /\ ~app.backgroundTimer
                    /\ app.inbox = <<>> /\ app.outbox = <<>>
                    /\ app.process \in {"dead", "CREATE"}
  /\ app.client => app.state # "CREATE"
  /\ app.client /\ app.process = "CREATE" =>
       /\ app.inbox # <<>> /\ Head(app.inbox)[1] = "application"
       /\ ~Has(Tail(app.inbox), "application")
       /\ app.outbox = <<>> /\ app.state = "READY"
  /\ app.process # "CREATE" => ~Has(app.inbox, "application")

\* What the service awaits of a process that is alive is under way, and when no command is
\* left to it the process is where its last answer, or else the service, says.
SettlesFits(app) ==
  /\ app.pending # "READY" /\ Alive(app) => Turning(app.inbox) \/ Turned(app.outbox)
  /\ app.backgroundTimer /\ Alive(app) => Has(app.inbox, "background")
  /\ Has(app.inbox, "background") \/ Has(app.outbox, "backgrounded") =>
       app.state \in {"FOREGROUND", "BACKGROUND"}
  /\ app.state \in {"FOREGROUND", "BACKGROUND"} \/ Has(app.outbox, "foregrounded") =>
       app.process \in {"FOREGROUND", "BACKGROUND", "TERMINATED", "dead"}
  /\ Alive(app) /\ ~Turning(app.inbox) =>
       /\ LastTurned(app.outbox, "foregrounded") => app.process = "FOREGROUND"
       /\ LastTurned(app.outbox, "backgrounded") => app.process = "BACKGROUND"
       /\ ~Turned(app.outbox) /\ app.process # "CREATE" => app.process = app.state

\* While no answer was late, one command or answer at most is under way, and it is the one
\* the state and the pending state of the record call for.
PromptFits(app) ==
  app.slow = 0 =>
    /\ AtMostOne(app.inbox, {"foreground", "background"})
    /\ AtMostOne(app.outbox, {"foregrounded", "backgrounded"})
    /\ ~(Turning(app.inbox) /\ Turned(app.outbox))
    /\ Has(app.inbox, "foreground") \/ Has(app.outbox, "foregrounded") =>
         app.state # "FOREGROUND" /\ app.pending = "FOREGROUNDING"
    /\ Has(app.inbox, "background") \/ Has(app.outbox, "backgrounded") =>
         app.state = "FOREGROUND" /\ app.pending # "READY"
    /\ app.pending = "BACKGROUNDING" => app.state = "FOREGROUND"

AppFits(app) == EndFits(app) /\ ClientFits(app) /\ SettlesFits(app) /\ PromptFits(app)

\* An ability in the foreground has an application that is on its way there, or is there to
\* stay, while no answer of the process was late.
Backed(page, app) ==
  page.list = "abilities" /\ page.state = "FOREGROUND" /\ app.slow = 0 =>
    app.pending = "FOREGROUNDING" \/ (app.pending = "READY" /\ app.state = "FOREGROUND")

\* An ability on a list of a module belongs to a record in the map.
PageFits(a) ==
  /\ pages[a].list \in {"abilities", "terminateAbilities", "removed"} =>
       pages[a].record \in AppRecords /\ RecordOf(a).listed
  /\ pages[a].list \in {"none", "gone"} => pages[a].record = 0
  /\ pages[a].list = "none" => pages[a].state = "CREATE"
  /\ Backed(pages[a], RecordOf(a))

\* A process that runs has its record in the map.
ListedFits(app) == ~app.listed => ~app.client /\ app.process = "dead"

AppInv ==
  /\ apps \in [AppRecords -> AppType]
  /\ pages \in [Pages -> PageType]
  /\ \A r \in AppRecords : AppFits(apps[r]) /\ ListedFits(apps[r])
  /\ \A a \in Pages : PageFits(a)

-----------------------------------------------------------------------------
(* What the predicates say of a queue with one message more or less. *)

\* A message is sent.
LEMMA SentHas ==
  ASSUME NEW S, NEW s \in Seq(S), NEW e \in S, NEW name
  PROVE Has(s \o <<e>>, name) <=> Has(s, name) \/ e[1] = name
<1>1. /\ Len(s \o <<e>>) = Len(s) + 1
      /\ \A i \in 1..Len(s) : (s \o <<e>>)[i] = s[i]
      /\ (s \o <<e>>)[Len(s) + 1] = e
      /\ s \o <<e>> \in Seq(S)
  OBVIOUS
<1>2. DOMAIN s = 1..Len(s) /\ DOMAIN (s \o <<e>>) = 1..(Len(s) + 1) /\ Len(s) \in Nat
  BY <1>1
<1>3. 1..(Len(s) + 1) = 1..Len(s) \cup {Len(s) + 1}
  BY <1>2
<1> QED BY <1>1, <1>2, <1>3 DEF Has

\* The oldest message is taken.
LEMMA TakenHas ==
  ASSUME NEW S, NEW s \in Seq(S), s # <<>>, NEW name
  PROVE Has(s, name) <=> Head(s)[1] = name \/ Has(Tail(s), name)
<1>1. /\ Len(s) \in Nat /\ Len(s) > 0 /\ Tail(s) \in Seq(S)
      /\ Len(Tail(s)) = Len(s) - 1
      /\ \A i \in 1..(Len(s) - 1) : Tail(s)[i] = s[i + 1]
      /\ Head(s) = s[1]
  OBVIOUS
<1>2. DOMAIN s = 1..Len(s) /\ DOMAIN Tail(s) = 1..(Len(s) - 1)
  BY <1>1
<1>3. \A i \in 1..Len(s) : i = 1 \/ (i - 1 \in 1..(Len(s) - 1) /\ (i - 1) + 1 = i)
  BY <1>1
<1>4. \A i \in 1..(Len(s) - 1) : i + 1 \in 1..Len(s)
  BY <1>1
<1>5. 1 \in 1..Len(s)
  BY <1>1
<1>6. ASSUME Has(s, name) PROVE Head(s)[1] = name \/ Has(Tail(s), name)
  <2>1. PICK i \in 1..Len(s) : s[i][1] = name
    BY <1>6, <1>2 DEF Has
  <2>2. CASE i = 1
    BY <2>1, <2>2, <1>1
  <2>3. CASE i # 1
    BY <2>1, <2>3, <1>1, <1>2, <1>3 DEF Has
  <2> QED BY <2>2, <2>3
<1>7. ASSUME Has(Tail(s), name) PROVE Has(s, name)
  BY <1>7, <1>1, <1>2, <1>4 DEF Has
<1>8. ASSUME Head(s)[1] = name PROVE Has(s, name)
  BY <1>8, <1>1, <1>2, <1>5 DEF Has
<1> QED BY <1>6, <1>7, <1>8

LEMMA EmptyHas ==
  ASSUME NEW name
  PROVE ~Has(<<>>, name)
BY DEF Has

\* The last answer about a turn, when one is added and when the oldest is taken.
LEMMA SentLast ==
  ASSUME NEW S, NEW s \in Seq(S), NEW e \in S, NEW name \in {"foregrounded", "backgrounded"}
  PROVE LastTurned(s \o <<e>>, name) <=>
          e[1] = name \/ (e[1] \notin {"foregrounded", "backgrounded"} /\ LastTurned(s, name))
<1> DEFINE n == Len(s)
           t == s \o <<e>>
           turns(m) == m[1] \in {"foregrounded", "backgrounded"}
<1>1. /\ Len(t) = n + 1
      /\ \A i \in 1..n : t[i] = s[i]
      /\ t[n + 1] = e
      /\ t \in Seq(S)
  OBVIOUS
<1>2. DOMAIN s = 1..n /\ DOMAIN t = 1..(n + 1) /\ n \in Nat
  BY <1>1
<1>3. \A i \in 1..(n + 1) : i \in 1..n \/ i = n + 1
  BY <1>2
<1>4. \A i \in 1..n : i \in 1..(n + 1) /\ n + 1 > i
  BY <1>2
<1>5. n + 1 \in 1..(n + 1) /\ \A j \in 1..(n + 1) : ~(j > n + 1)
  BY <1>2
<1> HIDE DEF t, n
<1>6. ASSUME e[1] = name PROVE LastTurned(t, name)
  BY <1>6, <1>1, <1>2, <1>5 DEF LastTurned
<1>7. ASSUME ~turns(e), LastTurned(s, name) PROVE LastTurned(t, name)
  <2>1. PICK i \in 1..n : s[i][1] = name /\ \A j \in 1..n : j > i => ~turns(s[j])
    BY <1>7, <1>2 DEF LastTurned
  <2>2. \A j \in 1..(n + 1) : j > i => ~turns(t[j])
    BY <2>1, <1>1, <1>3, <1>7
  <2> QED BY <2>1, <2>2, <1>1, <1>2, <1>4 DEF LastTurned
<1>8. ASSUME LastTurned(t, name), e[1] # name PROVE ~turns(e) /\ LastTurned(s, name)
  <2>1. PICK i \in 1..(n + 1) : t[i][1] = name /\ \A j \in 1..(n + 1) : j > i => ~turns(t[j])
    BY <1>8, <1>2 DEF LastTurned
  <2>2. i \in 1..n
    BY <2>1, <1>8, <1>1, <1>3
  <2>3. ~turns(e)
    BY <2>1, <2>2, <1>1, <1>4, <1>5
  <2>4. s[i][1] = name /\ \A j \in 1..n : j > i => ~turns(s[j])
    BY <2>1, <2>2, <1>1, <1>4
  <2> QED BY <2>2, <2>3, <2>4, <1>2 DEF LastTurned
<1> QED BY <1>6, <1>7, <1>8 DEF t

LEMMA TakenLast ==
  ASSUME NEW S, NEW s \in Seq(S), s # <<>>, NEW name \in {"foregrounded", "backgrounded"}
  PROVE LastTurned(s, name) <=>
          LastTurned(Tail(s), name) \/ (Head(s)[1] = name /\ ~Turned(Tail(s)))
<1> DEFINE n == Len(s)
           t == Tail(s)
           turns(m) == m[1] \in {"foregrounded", "backgrounded"}
<1>1. /\ n \in Nat /\ n > 0 /\ t \in Seq(S)
      /\ Len(t) = n - 1
      /\ \A i \in 1..(n - 1) : t[i] = s[i + 1]
      /\ Head(s) = s[1]
  OBVIOUS
<1>2. DOMAIN s = 1..n /\ DOMAIN t = 1..(n - 1)
  BY <1>1
<1> HIDE DEF t, n
<1>3. \A i \in 1..n : i = 1 \/ i - 1 \in 1..(n - 1)
  BY <1>1
<1>4. \A i \in 2..n : t[i - 1] = s[i]
  BY <1>1
<1>5. ASSUME LastTurned(t, name) PROVE LastTurned(s, name)
  <2>1. PICK i \in 1..(n - 1) : t[i][1] = name /\ \A j \in 1..(n - 1) : j > i => ~turns(t[j])
    BY <1>5, <1>2 DEF LastTurned
  <2>2. i + 1 \in 1..n /\ s[i + 1][1] = name
    BY <2>1, <1>1
  <2>3. ASSUME NEW j \in 1..n, j > i + 1 PROVE ~turns(s[j])
    <3>1. j \in 2..n /\ j - 1 \in 1..(n - 1) /\ j - 1 > i
      BY <2>3, <1>1
    <3> QED BY <3>1, <2>1, <1>4
  <2> QED BY <2>2, <2>3, <1>2 DEF LastTurned
<1>6. ASSUME Head(s)[1] = name, ~Turned(t) PROVE LastTurned(s, name)
  <2>1. \A j \in 1..(n - 1) : ~turns(t[j])
    BY <1>6, <1>2 DEF Turned, Has
  <2>2. ASSUME NEW j \in 1..n, j > 1 PROVE ~turns(s[j])
    <3>1. j \in 2..n /\ j - 1 \in 1..(n - 1)
      BY <2>2, <1>1
    <3> QED BY <3>1, <2>1, <1>4
  <2>3. 1 \in 1..n /\ s[1][1] = name
    BY <1>1, <1>6
  <2> QED BY <2>2, <2>3, <1>2 DEF LastTurned
<1>7. ASSUME LastTurned(s, name), ~LastTurned(t, name) PROVE Head(s)[1] = name /\ ~Turned(t)
  <2>1. PICK i \in 1..n : s[i][1] = name /\ \A j \in 1..n : j > i => ~turns(s[j])
    BY <1>7, <1>2 DEF LastTurned
  <2>2. \A j \in 1..(n - 1) : j + 1 \in 1..n /\ t[j] = s[j + 1]
    BY <1>1
  <2>3. CASE i # 1
    <3>1. i \in 2..n /\ i - 1 \in 1..(n - 1) /\ t[i - 1][1] = name
      BY <2>1, <2>3, <1>1, <1>4
    <3>2. \A j \in 1..(n - 1) : j > i - 1 => ~turns(t[j])
      <4> SUFFICES ASSUME NEW j \in 1..(n - 1), j > i - 1 PROVE ~turns(t[j])
        OBVIOUS
      <4>1. j + 1 > i
        BY <3>1, <1>1
      <4> QED BY <4>1, <2>1, <2>2
    <3> QED BY <3>1, <3>2, <1>2, <1>7 DEF LastTurned
  <2>4. CASE i = 1
    <3>1. ASSUME NEW j \in 1..(n - 1) PROVE ~turns(t[j])
      <4>1. j + 1 > i
        BY <2>4, <1>1
      <4> QED BY <4>1, <2>1, <2>2
    <3>2. ~Turned(t)
      BY <3>1, <1>2 DEF Turned, Has
    <3> QED BY <3>2, <2>1, <2>4, <1>1
  <2> QED BY <2>3, <2>4
<1> QED BY <1>5, <1>6, <1>7 DEF t

\* No turn was answered, and none is the last.
LEMMA NoTurned ==
  ASSUME NEW s, ~Turned(s), NEW name \in {"foregrounded", "backgrounded"}
  PROVE ~LastTurned(s, name)
BY DEF Turned, Has, LastTurned

\* One message at most of some names.
LEMMA SentOne ==
  ASSUME NEW S, NEW s \in Seq(S), NEW e \in S, NEW names,
         AtMostOne(s, names), e[1] \in names => \A name \in names : ~Has(s, name)
  PROVE AtMostOne(s \o <<e>>, names)
<1> DEFINE n == Len(s)
           t == s \o <<e>>
<1>1. /\ Len(t) = n + 1
      /\ \A i \in 1..n : t[i] = s[i]
      /\ t[n + 1] = e
      /\ t \in Seq(S)
  OBVIOUS
<1>2. DOMAIN s = 1..n /\ DOMAIN t = 1..(n + 1) /\ n \in Nat
  BY <1>1
<1>3. \A i \in 1..(n + 1) : i \in 1..n \/ i = n + 1
  BY <1>2
<1> HIDE DEF t, n
<1>4. e[1] \in names => \A i \in 1..n : s[i][1] \notin names
  BY <1>2 DEF Has
<1>5. \A i, j \in 1..n : s[i][1] \in names /\ s[j][1] \in names => i = j
  BY <1>2 DEF AtMostOne
<1>6. \A i, j \in 1..(n + 1) : t[i][1] \in names /\ t[j][1] \in names => i = j
  BY <1>1, <1>3, <1>4, <1>5
<1>7. AtMostOne(t, names)
  BY <1>2, <1>6 DEF AtMostOne
<1> QED BY <1>7 DEF t

LEMMA TakenOne ==
  ASSUME NEW S, NEW s \in Seq(S), s # <<>>, NEW names, AtMostOne(s, names)
  PROVE /\ AtMostOne(Tail(s), names)
        /\ Head(s)[1] \in names => \A name \in names : ~Has(Tail(s), name)
<1> DEFINE n == Len(s)
           t == Tail(s)
<1>1. /\ n \in Nat /\ n > 0 /\ t \in Seq(S)
      /\ Len(t) = n - 1
      /\ \A i \in 1..(n - 1) : t[i] = s[i + 1]
      /\ Head(s) = s[1]
  OBVIOUS
<1>2. DOMAIN s = 1..n /\ DOMAIN t = 1..(n - 1)
  BY <1>1
<1> HIDE DEF t, n
<1>3. \A i, j \in 1..n : s[i][1] \in names /\ s[j][1] \in names => i = j
  BY <1>2 DEF AtMostOne
<1>4. \A i \in 1..(n - 1) : i + 1 \in 1..n /\ t[i] = s[i + 1] /\ i + 1 # 1
  BY <1>1
<1>5. \A i, j \in 1..(n - 1) : i + 1 = j + 1 => i = j
  BY <1>1
<1>6. \A i, j \in 1..(n - 1) : t[i][1] \in names /\ t[j][1] \in names => i = j
  BY <1>3, <1>4, <1>5
<1>7. AtMostOne(t, names)
  BY <1>2, <1>6 DEF AtMostOne
<1>8. 1 \in 1..n
  BY <1>1
<1>9. Head(s)[1] \in names => \A i \in 1..(n - 1) : t[i][1] \notin names
  BY <1>1, <1>3, <1>4, <1>8
<1>10. Head(s)[1] \in names => \A name \in names : ~Has(t, name)
  BY <1>9, <1>2 DEF Has
<1> QED BY <1>7, <1>10 DEF t

\* Launches come before the command to end.
LEMMA SentLaunches ==
  ASSUME NEW S, NEW s \in Seq(S), NEW e \in S,
         LaunchesFirst(s), e[1] = "launch" => ~Has(s, "terminate")
  PROVE LaunchesFirst(s \o <<e>>)
<1> DEFINE n == Len(s)
           t == s \o <<e>>
<1>1. /\ Len(t) = n + 1
      /\ \A i \in 1..n : t[i] = s[i]
      /\ t[n + 1] = e
      /\ t \in Seq(S)
  OBVIOUS
<1>2. DOMAIN s = 1..n /\ DOMAIN t = 1..(n + 1) /\ n \in Nat
  BY <1>1
<1>3. \A i \in 1..(n + 1) : i \in 1..n \/ i = n + 1
  BY <1>2
<1>4. \A i \in 1..n : i < n + 1
  BY <1>2
<1> HIDE DEF t, n
<1>5. e[1] = "launch" => \A i \in 1..n : s[i][1] # "terminate"
  BY <1>2 DEF Has
<1>6. \A i, j \in 1..n : s[i][1] = "terminate" /\ s[j][1] = "launch" => j < i
  BY <1>2 DEF LaunchesFirst
<1>7. \A i, j \in 1..(n + 1) : t[i][1] = "terminate" /\ t[j][1] = "launch" => j < i
  BY <1>1, <1>3, <1>4, <1>5, <1>6
<1>8. LaunchesFirst(t)
  BY <1>2, <1>7 DEF LaunchesFirst
<1> QED BY <1>8 DEF t

LEMMA TakenLaunches ==
  ASSUME NEW S, NEW s \in Seq(S), s # <<>>, LaunchesFirst(s)
  PROVE LaunchesFirst(Tail(s))
<1> DEFINE n == Len(s)
           t == Tail(s)
<1>1. /\ n \in Nat /\ n > 0 /\ t \in Seq(S)
      /\ Len(t) = n - 1
      /\ \A i \in 1..(n - 1) : t[i] = s[i + 1]
  OBVIOUS
<1>2. DOMAIN s = 1..n /\ DOMAIN t = 1..(n - 1)
  BY <1>1
<1> HIDE DEF t, n
<1>3. \A i, j \in 1..n : s[i][1] = "terminate" /\ s[j][1] = "launch" => j < i
  BY <1>2 DEF LaunchesFirst
<1>4. \A i \in 1..(n - 1) : i + 1 \in 1..n /\ t[i] = s[i + 1]
  BY <1>1
<1>5. \A i, j \in 1..(n - 1) : j + 1 < i + 1 => j < i
  BY <1>1
<1>6. \A i, j \in 1..(n - 1) : t[i][1] = "terminate" /\ t[j][1] = "launch" => j < i
  BY <1>3, <1>4, <1>5
<1>7. LaunchesFirst(t)
  BY <1>2, <1>6 DEF LaunchesFirst
<1> QED BY <1>7 DEF t

-----------------------------------------------------------------------------
(* The operations on one record.  Each lemma names the record n that an operation makes of *)
(* the record app by the fields the predicates look at. *)

LEMMA MessageNames ==
  ASSUME NEW a \in Pages
  PROVE /\ <<"launch", a>> \in Commands /\ <<"launch", a>>[1] = "launch"
        /\ <<"clean", a>> \in Commands /\ <<"clean", a>>[1] = "clean"
        /\ <<"cleaned", a>> \in Answers /\ <<"cleaned", a>>[1] = "cleaned"
BY DEF Commands, Answers

LEMMA PlainNames ==
  /\ <<"application">> \in Commands /\ <<"application">>[1] = "application"
  /\ <<"foreground">> \in Commands /\ <<"foreground">>[1] = "foreground"
  /\ <<"background">> \in Commands /\ <<"background">>[1] = "background"
  /\ <<"terminate">> \in Commands /\ <<"terminate">>[1] = "terminate"
  /\ <<"foregrounded">> \in Answers /\ <<"foregrounded">>[1] = "foregrounded"
  /\ <<"backgrounded">> \in Answers /\ <<"backgrounded">>[1] = "backgrounded"
  /\ <<"terminated">> \in Answers /\ <<"terminated">>[1] = "terminated"
BY DEF Commands, Answers

LEMMA AppFields ==
  ASSUME NEW app \in AppType
  PROVE /\ app.listed \in BOOLEAN /\ app.client \in BOOLEAN /\ app.state \in States
        /\ app.pending \in {"READY", "FOREGROUNDING", "BACKGROUNDING"}
        /\ app.terminating \in BOOLEAN /\ app.module \in BOOLEAN /\ app.tokens \in SUBSET Pages
        /\ app.backgroundTimer \in BOOLEAN /\ app.exitTimer \in BOOLEAN
        /\ app.inbox \in Seq(Commands) /\ app.outbox \in Seq(Answers)
        /\ app.process \in Processes /\ app.notice \in BOOLEAN
        /\ app.slow \in 0..MaxSlow /\ app.overridden \in BOOLEAN
BY DEF AppType

\* A command is sent to a process that has attached: what every queue predicate says.
LEMMA SentQueue ==
  ASSUME NEW s \in Seq(Commands), NEW e \in Commands
  PROVE /\ s \o <<e>> \in Seq(Commands) /\ s \o <<e>> # <<>>
        /\ Has(s \o <<e>>, "foreground") <=> Has(s, "foreground") \/ e[1] = "foreground"
        /\ Has(s \o <<e>>, "background") <=> Has(s, "background") \/ e[1] = "background"
        /\ Has(s \o <<e>>, "terminate") <=> Has(s, "terminate") \/ e[1] = "terminate"
        /\ Has(s \o <<e>>, "application") <=> Has(s, "application") \/ e[1] = "application"
        /\ LaunchesFirst(s) /\ (e[1] = "launch" => ~Has(s, "terminate")) => LaunchesFirst(s \o <<e>>)
        /\ s # <<>> => Head(s \o <<e>>) = Head(s) /\ Tail(s \o <<e>>) = Tail(s) \o <<e>>
        /\ s # <<>> => (Has(Tail(s \o <<e>>), "application")
                          <=> Has(Tail(s), "application") \/ e[1] = "application")
<1>1. s \o <<e>> \in Seq(Commands) /\ s \o <<e>> # <<>>
  OBVIOUS
<1>2. \A name : Has(s \o <<e>>, name) <=> Has(s, name) \/ e[1] = name
  BY SentHas
<1>3. LaunchesFirst(s) /\ (e[1] = "launch" => ~Has(s, "terminate")) => LaunchesFirst(s \o <<e>>)
  BY SentLaunches
<1>4. s # <<>> => Head(s \o <<e>>) = Head(s) /\ Tail(s \o <<e>>) = Tail(s) \o <<e>> /\ Tail(s) \in Seq(Commands)
  OBVIOUS
<1>5. s # <<>> => (Has(Tail(s) \o <<e>>, "application") <=> Has(Tail(s), "application") \/ e[1] = "application")
  BY <1>4, SentHas
<1> HIDE DEF Has, LaunchesFirst
<1> QED BY <1>1, <1>2, <1>3, <1>4, <1>5

\* Nothing of what the predicates look at changes, except that the module may go, or come
\* back when the bundle has a jointUserId.
LEMMA UnmovedFits ==
  ASSUME NEW app \in AppType, NEW n \in AppType, AppFits(app),
         n.client = app.client, n.state = app.state, n.pending = app.pending,
         n.backgroundTimer = app.backgroundTimer, n.inbox = app.inbox, n.outbox = app.outbox,
         n.process = app.process, n.slow = app.slow, n.module => app.module \/ JointUser
  PROVE AppFits(n)
<1>1. EndFits(n)
  BY DEF AppFits, EndFits
<1>2. ClientFits(n)
  BY DEF AppFits, ClientFits
<1>3. SettlesFits(n)
  BY DEF AppFits, SettlesFits, Alive
<1>4. PromptFits(n)
  BY DEF AppFits, PromptFits
<1> QED BY <1>1, <1>2, <1>3, <1>4 DEF AppFits

\* A command to launch or clean an ability or to end is sent.
LEMMA ToldFits ==
  ASSUME NEW app \in AppType, NEW n \in AppType, AppFits(app), NEW e \in Commands,
         app.client, e[1] \in {"launch", "clean", "terminate"},
         e[1] = "launch" => app.module, e[1] = "terminate" => ~n.module,
         n.client = app.client, n.state = app.state, n.pending = app.pending,
         n.backgroundTimer = app.backgroundTimer, n.inbox = app.inbox \o <<e>>, n.outbox = app.outbox,
         n.process = app.process, n.slow = app.slow, n.module => app.module
  PROVE AppFits(n)
<1>0. app.inbox \in Seq(Commands)
  BY AppFields
<1> DEFINE s == app.inbox
           t == app.inbox \o <<e>>
<1>1. /\ t # <<>>
      /\ Has(t, "foreground") <=> Has(s, "foreground")
      /\ Has(t, "background") <=> Has(s, "background")
      /\ Has(t, "terminate") <=> Has(s, "terminate") \/ e[1] = "terminate"
      /\ Has(t, "application") <=> Has(s, "application")
      /\ LaunchesFirst(s) /\ (e[1] = "launch" => ~Has(s, "terminate")) => LaunchesFirst(t)
      /\ s # <<>> => Head(t) = Head(s)
      /\ s # <<>> => (Has(Tail(t), "application") <=> Has(Tail(s), "application"))
  BY <1>0, SentQueue
<1>2. AtMostOne(s, {"foreground", "background"}) => AtMostOne(t, {"foreground", "background"})
  BY <1>0, SentOne
<1> HIDE DEF t
<1>3. n.inbox = t
  BY DEF t
<1>4. EndFits(n)
  BY <1>1, <1>3 DEF AppFits, EndFits
<1>5. ClientFits(n)
  BY <1>1, <1>3 DEF AppFits, ClientFits
<1>6. Turning(t) <=> Turning(s)
  BY <1>1 DEF Turning
<1>7. SettlesFits(n)
  BY <1>1, <1>3, <1>6 DEF AppFits, SettlesFits, Alive
<1>8. PromptFits(n)
  BY <1>1, <1>2, <1>3, <1>6 DEF AppFits, PromptFits
<1> QED BY <1>4, <1>5, <1>7, <1>8 DEF AppFits

\* The foreground or the background is asked for and no command is needed, since one is
\* under way.
LEMMA AwaitedFits ==
  ASSUME NEW app \in AppType, NEW n \in AppType, AppFits(app),
         app.client, app.pending # "READY",
         \/ n.pending = "FOREGROUNDING"
            /\ (app.state \in {"READY", "BACKGROUND"} \/ app.pending = "BACKGROUNDING")
         \/ n.pending = "BACKGROUNDING" /\ app.state = "FOREGROUND",
         n.client = app.client, n.state = app.state,
         n.backgroundTimer = app.backgroundTimer, n.inbox = app.inbox, n.outbox = app.outbox,
         n.process = app.process, n.slow = app.slow, n.module = app.module
  PROVE AppFits(n)
<1>1. EndFits(n)
  BY DEF AppFits, EndFits
<1>2. ClientFits(n)
  BY DEF AppFits, ClientFits
<1>3. SettlesFits(n)
  BY DEF AppFits, SettlesFits, Alive
<1>4. PromptFits(n)
  BY DEF AppFits, PromptFits
<1> QED BY <1>1, <1>2, <1>3, <1>4 DEF AppFits

\* A command to turn is sent to a process of which nothing is awaited.
LEMMA TurnFits ==
  ASSUME NEW app \in AppType, NEW n \in AppType, AppFits(app), NEW e \in Commands,
         app.client, app.pending = "READY",
         \/ e[1] = "foreground" /\ n.pending = "FOREGROUNDING"
            /\ n.backgroundTimer = app.backgroundTimer /\ app.state # "FOREGROUND"
         \/ e[1] = "background" /\ n.pending = "BACKGROUNDING" /\ app.state = "FOREGROUND",
         n.client = app.client, n.state = app.state, n.inbox = app.inbox \o <<e>>,
         n.outbox = app.outbox, n.process = app.process, n.slow = app.slow, n.module = app.module
  PROVE AppFits(n)
<1>0. app.inbox \in Seq(Commands)
  BY AppFields
<1> DEFINE s == app.inbox
           t == app.inbox \o <<e>>
<1>1. /\ t # <<>>
      /\ Has(t, "foreground") <=> Has(s, "foreground") \/ e[1] = "foreground"
      /\ Has(t, "background") <=> Has(s, "background") \/ e[1] = "background"
      /\ Has(t, "terminate") <=> Has(s, "terminate")
      /\ Has(t, "application") <=> Has(s, "application")
      /\ LaunchesFirst(s) => LaunchesFirst(t)
      /\ s # <<>> => Head(t) = Head(s)
      /\ s # <<>> => (Has(Tail(t), "application") <=> Has(Tail(s), "application"))
  BY <1>0, SentQueue
<1>2. AtMostOne(s, {"foreground", "background"}) /\ ~Turning(s) => AtMostOne(t, {"foreground", "background"})
  <2> SUFFICES ASSUME AtMostOne(s, {"foreground", "background"}), ~Turning(s)
               PROVE AtMostOne(t, {"foreground", "background"})
    OBVIOUS
  <2>1. \A name \in {"foreground", "background"} : ~Has(s, name)
    BY DEF Turning
  <2> QED BY <2>1, <1>0, SentOne
<1> HIDE DEF t
<1>3. n.inbox = t
  BY DEF t
<1>4. EndFits(n)
  BY <1>1, <1>3 DEF AppFits, EndFits
<1>5. ClientFits(n)
  BY <1>1, <1>3 DEF AppFits, ClientFits
<1>6. Turning(t)
  BY <1>1 DEF Turning
<1>7. SettlesFits(n)
  BY <1>1, <1>3, <1>6 DEF AppFits, SettlesFits, Alive
<1>8. app.slow = 0 => ~Turning(s) /\ ~Turned(app.outbox)
  BY DEF AppFits, PromptFits, Turning, Turned
<1>9. PromptFits(n)
  BY <1>1, <1>2, <1>3, <1>6, <1>8 DEF AppFits, PromptFits, Turning
<1> QED BY <1>4, <1>5, <1>7, <1>9 DEF AppFits

\* The oldest answer is taken from the queue.
LEMMA TakenAnswer ==
  ASSUME NEW s \in Seq(Answers), s # <<>>
  PROVE /\ Tail(s) \in Seq(Answers)
        /\ Has(s, "foregrounded") <=> Head(s)[1] = "foregrounded" \/ Has(Tail(s), "foregrounded")
        /\ Has(s, "backgrounded") <=> Head(s)[1] = "backgrounded" \/ Has(Tail(s), "backgrounded")
        /\ LastTurned(s, "foregrounded") <=>
             LastTurned(Tail(s), "foregrounded") \/ (Head(s)[1] = "foregrounded" /\ ~Turned(Tail(s)))
        /\ LastTurned(s, "backgrounded") <=>
             LastTurned(Tail(s), "backgrounded") \/ (Head(s)[1] = "backgrounded" /\ ~Turned(Tail(s)))
        /\ AtMostOne(s, {"foregrounded", "backgrounded"}) =>
             /\ AtMostOne(Tail(s), {"foregrounded", "backgrounded"})
             /\ Head(s)[1] \in {"foregrounded", "backgrounded"} => ~Turned(Tail(s))
<1>1. Tail(s) \in Seq(Answers)
  OBVIOUS
<1>2. \A name : Has(s, name) <=> Head(s)[1] = name \/ Has(Tail(s), name)
  BY TakenHas
<1>3. \A name \in {"foregrounded", "backgrounded"} :
        LastTurned(s, name) <=> LastTurned(Tail(s), name) \/ (Head(s)[1] = name /\ ~Turned(Tail(s)))
  BY TakenLast
<1>4. ASSUME AtMostOne(s, {"foregrounded", "backgrounded"})
      PROVE /\ AtMostOne(Tail(s), {"foregrounded", "backgrounded"})
            /\ Head(s)[1] \in {"foregrounded", "backgrounded"} =>
                 \A name \in {"foregrounded", "backgrounded"} : ~Has(Tail(s), name)
  BY <1>4, TakenOne
<1> QED BY <1>1, <1>2, <1>3, <1>4 DEF Turned

\* An answer that is not about a turn is taken.
LEMMA OtherAnswerFits ==
  ASSUME NEW app \in AppType, NEW n \in AppType, AppFits(app), app.outbox # <<>>,
         Head(app.outbox)[1] \in {"cleaned", "terminated"},
         n.client = app.client, n.state = app.state, n.pending = app.pending,
         n.backgroundTimer = app.backgroundTimer, n.inbox = app.inbox, n.outbox = Tail(app.outbox),
         n.process = app.process, n.slow = app.slow, n.module = app.module
  PROVE AppFits(n)
<1>0. app.outbox \in Seq(Answers)
  BY AppFields
<1> DEFINE s == app.outbox
           t == Tail(app.outbox)
<1>1. /\ Has(s, "foregrounded") <=> Has(t, "foregrounded")
      /\ Has(s, "backgrounded") <=> Has(t, "backgrounded")
      /\ LastTurned(s, "foregrounded") <=> LastTurned(t, "foregrounded")
      /\ LastTurned(s, "backgrounded") <=> LastTurned(t, "backgrounded")
      /\ AtMostOne(s, {"foregrounded", "backgrounded"}) => AtMostOne(t, {"foregrounded", "backgrounded"})
  BY <1>0, TakenAnswer
<1>2. Turned(t) <=> Turned(s)
  BY <1>1 DEF Turned
<1> HIDE DEF t
<1>3. n.outbox = t
  BY DEF t
<1>4. EndFits(n)
  BY DEF AppFits, EndFits
<1>5. ClientFits(n)
  BY DEF AppFits, ClientFits
<1>6. SettlesFits(n)
  BY <1>1, <1>2, <1>3 DEF AppFits, SettlesFits, Alive
<1>7. PromptFits(n)
  BY <1>1, <1>2, <1>3 DEF AppFits, PromptFits
<1> QED BY <1>4, <1>5, <1>6, <1>7 DEF AppFits

\* The answer to a command for the foreground is taken.
LEMMA ForegroundedFits ==
  ASSUME NEW app \in AppType, NEW n \in AppType, AppFits(app), app.outbox # <<>>,
         Head(app.outbox)[1] = "foregrounded",
         n.client = app.client, n.state = "FOREGROUND", n.outbox = Tail(app.outbox),
         n.process = app.process, n.slow = app.slow, n.module = app.module,
         \/ /\ app.pending # "BACKGROUNDING" /\ n.pending = "READY"
            /\ n.inbox = app.inbox /\ n.backgroundTimer = app.backgroundTimer
         \/ /\ app.pending = "BACKGROUNDING" /\ n.pending = "BACKGROUNDING"
            /\ n.inbox = app.inbox \o <<<<"background">>>>
  PROVE AppFits(n)
<1> DEFINE s == app.outbox
           t == Tail(app.outbox)
           e == <<"background">>
           i == app.inbox
           j == app.inbox \o <<e>>
<1>0. app.outbox \in Seq(Answers) /\ i \in Seq(Commands) /\ app.client
  BY AppFields DEF AppFits, ClientFits
<1>1. /\ Has(s, "foregrounded")
      /\ Has(s, "backgrounded") <=> Has(t, "backgrounded")
      /\ Has(t, "foregrounded") => Has(s, "foregrounded")
      /\ LastTurned(s, "foregrounded") <=> LastTurned(t, "foregrounded") \/ ~Turned(t)
      /\ LastTurned(s, "backgrounded") <=> LastTurned(t, "backgrounded")
      /\ AtMostOne(s, {"foregrounded", "backgrounded"}) =>
           AtMostOne(t, {"foregrounded", "backgrounded"}) /\ ~Turned(t)
  BY <1>0, TakenAnswer
<1>2. e \in Commands /\ e[1] = "background"
  BY PlainNames
<1> HIDE DEF e
<1>3. /\ j # <<>>
      /\ Has(j, "foreground") <=> Has(i, "foreground")
      /\ Has(j, "background")
      /\ Has(j, "terminate") <=> Has(i, "terminate")
      /\ Has(j, "application") <=> Has(i, "application")
      /\ LaunchesFirst(i) => LaunchesFirst(j)
  BY <1>0, <1>2, SentQueue
<1>4. Turned(s) /\ Turning(j)
  BY <1>1, <1>3 DEF Turned, Turning
<1>5. app.process \in {"FOREGROUND", "BACKGROUND", "TERMINATED", "dead"}
  BY <1>1 DEF AppFits, SettlesFits
<1> HIDE DEF t, j
<1>6. n.outbox = t /\ (n.inbox = i \/ (n.inbox = j /\ app.pending = "BACKGROUNDING"))
  BY DEF t, j, e
<1>7. app.pending # "BACKGROUNDING" => n.inbox = i
  OBVIOUS
<1>8. EndFits(n)
  BY <1>3, <1>6 DEF AppFits, EndFits
<1>9. ClientFits(n)
  BY <1>0, <1>3, <1>5, <1>6 DEF AppFits, ClientFits
<1>10. SettlesFits(n)
  <2>1. CASE app.pending = "BACKGROUNDING"
    <3>1. n.inbox = j
      BY <2>1 DEF j, e
    <3> QED BY <2>1, <3>1, <1>1, <1>3, <1>4, <1>5, <1>6 DEF AppFits, SettlesFits, Alive
  <2>2. CASE app.pending # "BACKGROUNDING"
    BY <2>2, <1>1, <1>4, <1>5, <1>6, <1>7 DEF AppFits, SettlesFits, Alive
  <2> QED BY <2>1, <2>2
<1>11. PromptFits(n)
  <2> SUFFICES ASSUME app.slow = 0 PROVE PromptFits(n)
    BY DEF PromptFits
  <2>1. /\ app.pending = "FOREGROUNDING" /\ ~Turning(i) /\ ~Turned(t)
        /\ AtMostOne(i, {"foreground", "background"}) /\ AtMostOne(t, {"foregrounded", "backgrounded"})
    BY <1>1, <1>4 DEF AppFits, PromptFits
  <2> QED BY <2>1, <1>6, <1>7 DEF PromptFits, Turning, Turned
<1> QED BY <1>8, <1>9, <1>10, <1>11 DEF AppFits

\* The answer to a command for the background is taken.
LEMMA BackgroundedFits ==
  ASSUME NEW app \in AppType, NEW n \in AppType, AppFits(app), app.outbox # <<>>,
         Head(app.outbox)[1] = "backgrounded",
         n.client = app.client, n.outbox = Tail(app.outbox),
         n.state = (IF app.state = "FOREGROUND" THEN "BACKGROUND" ELSE app.state),
         n.process = app.process, n.slow = app.slow, n.module = app.module,
         n.backgroundTimer = app.backgroundTimer,
         \/ app.pending # "FOREGROUNDING" /\ n.pending = "READY" /\ n.inbox = app.inbox
         \/ /\ app.pending = "FOREGROUNDING" /\ n.pending = "FOREGROUNDING"
            /\ n.inbox = app.inbox \o <<<<"foreground">>>>
  PROVE AppFits(n)
<1> DEFINE s == app.outbox
           t == Tail(app.outbox)
           e == <<"foreground">>
           i == app.inbox
           j == app.inbox \o <<e>>
<1>0. app.outbox \in Seq(Answers) /\ i \in Seq(Commands) /\ app.client
  BY AppFields DEF AppFits, ClientFits
<1>1. /\ Has(s, "backgrounded")
      /\ Has(s, "foregrounded") <=> Has(t, "foregrounded")
      /\ Has(t, "backgrounded") => Has(s, "backgrounded")
      /\ LastTurned(s, "backgrounded") <=> LastTurned(t, "backgrounded") \/ ~Turned(t)
      /\ LastTurned(s, "foregrounded") <=> LastTurned(t, "foregrounded")
      /\ AtMostOne(s, {"foregrounded", "backgrounded"}) =>
           AtMostOne(t, {"foregrounded", "backgrounded"}) /\ ~Turned(t)
  BY <1>0, TakenAnswer
<1>2. e \in Commands /\ e[1] = "foreground"
  BY PlainNames
<1> HIDE DEF e
<1>3. /\ j # <<>>
      /\ Has(j, "foreground")
      /\ Has(j, "background") <=> Has(i, "background")
      /\ Has(j, "terminate") <=> Has(i, "terminate")
      /\ Has(j, "application") <=> Has(i, "application")
      /\ LaunchesFirst(i) => LaunchesFirst(j)
  BY <1>0, <1>2, SentQueue
<1>4. Turned(s) /\ Turning(j)
  BY <1>1, <1>3 DEF Turned, Turning
<1>5. /\ app.state \in {"FOREGROUND", "BACKGROUND"} /\ n.state = "BACKGROUND"
      /\ app.process \in {"FOREGROUND", "BACKGROUND", "TERMINATED", "dead"}
  BY <1>1 DEF AppFits, SettlesFits
<1>6. AtMostOne(i, {"foreground", "background"}) /\ ~Turning(i) => AtMostOne(j, {"foreground", "background"})
  <2> SUFFICES ASSUME AtMostOne(i, {"foreground", "background"}), ~Turning(i)
               PROVE AtMostOne(j, {"foreground", "background"})
    OBVIOUS
  <2>1. \A name \in {"foreground", "background"} : ~Has(i, name)
    BY DEF Turning
  <2> QED BY <2>1, <1>0, <1>2, SentOne
<1> HIDE DEF t, j
<1>7. n.outbox = t /\ (n.inbox = i \/ (n.inbox = j /\ app.pending = "FOREGROUNDING"))
  BY DEF t, j, e
<1>8. EndFits(n)
  BY <1>3, <1>7 DEF AppFits, EndFits
<1>9. ClientFits(n)
  BY <1>0, <1>3, <1>5, <1>7 DEF AppFits, ClientFits
<1>10. CASE app.pending = "FOREGROUNDING"
  <2>1. n.inbox = j
    BY <1>10 DEF j, e
  <2>2. SettlesFits(n)
    BY <1>10, <2>1, <1>1, <1>3, <1>4, <1>5, <1>7 DEF AppFits, SettlesFits, Alive
  <2>3. PromptFits(n)
    <3> SUFFICES ASSUME app.slow = 0 PROVE PromptFits(n)
      BY DEF PromptFits
    <3>1. /\ ~Turning(i) /\ ~Turned(t)
          /\ AtMostOne(i, {"foreground", "background"}) /\ AtMostOne(t, {"foregrounded", "backgrounded"})
      BY <1>1, <1>4 DEF AppFits, PromptFits
    <3> QED BY <3>1, <2>1, <1>10, <1>3, <1>5, <1>6, <1>7 DEF PromptFits, Turning, Turned
  <2> QED BY <2>2, <2>3, <1>8, <1>9 DEF AppFits
<1>11. CASE app.pending # "FOREGROUNDING"
  <2>1. n.inbox = i
    BY <1>11
  <2>2. SettlesFits(n)
    BY <1>11, <2>1, <1>1, <1>4, <1>5, <1>7 DEF AppFits, SettlesFits, Alive
  <2>3. PromptFits(n)
    <3> SUFFICES ASSUME app.slow = 0 PROVE PromptFits(n)
      BY DEF PromptFits
    <3>1. /\ ~Turning(i) /\ ~Turned(t)
          /\ AtMostOne(i, {"foreground", "background"}) /\ AtMostOne(t, {"foregrounded", "backgrounded"})
      BY <1>1, <1>4 DEF AppFits, PromptFits
    <3> QED BY <3>1, <2>1, <1>11, <1>5, <1>7 DEF PromptFits, Turning, Turned
  <2> QED BY <2>2, <2>3, <1>8, <1>9 DEF AppFits
<1> QED BY <1>10, <1>11

\* The timer of the background runs the same handler while the answer is under way.
LEMMA TimeoutFits ==
  ASSUME NEW app \in AppType, NEW n \in AppType, AppFits(app), app.backgroundTimer,
         n.client = app.client, n.outbox = app.outbox,
         n.state = (IF app.state = "FOREGROUND" THEN "BACKGROUND" ELSE app.state),
         n.process = app.process, n.slow # 0, n.module = app.module, ~n.backgroundTimer,
         \/ app.pending # "FOREGROUNDING" /\ n.pending = "READY" /\ n.inbox = app.inbox
         \/ /\ app.pending = "FOREGROUNDING" /\ n.pending = "FOREGROUNDING"
            /\ n.inbox = app.inbox \o <<<<"foreground">>>>
  PROVE AppFits(n)
<1> DEFINE e == <<"foreground">>
           i == app.inbox
           j == app.inbox \o <<e>>
<1>0. i \in Seq(Commands) /\ app.client
  BY AppFields DEF AppFits, ClientFits
<1>1. e \in Commands /\ e[1] = "foreground"
  BY PlainNames
<1> HIDE DEF e
<1>2. /\ j # <<>>
      /\ Has(j, "foreground")
      /\ Has(j, "background") <=> Has(i, "background")
      /\ Has(j, "terminate") <=> Has(i, "terminate")
      /\ Has(j, "application") <=> Has(i, "application")
      /\ LaunchesFirst(i) => LaunchesFirst(j)
      /\ i # <<>> => Head(j) = Head(i)
      /\ i # <<>> => (Has(Tail(j), "application") <=> Has(Tail(i), "application"))
  BY <1>0, <1>1, SentQueue
<1>3. Turning(j)
  BY <1>2 DEF Turning
<1> HIDE DEF j
<1>4. n.inbox = i \/ (n.inbox = j /\ app.pending = "FOREGROUNDING")
  BY DEF j, e
<1>5. EndFits(n)
  BY <1>2, <1>4 DEF AppFits, EndFits
<1>6. app.process = "CREATE" => app.state = "READY"
  BY <1>0 DEF AppFits, ClientFits
<1>7. ClientFits(n)
  BY <1>0, <1>2, <1>4, <1>6 DEF AppFits, ClientFits
<1>8. Alive(app) => Has(i, "background") /\ Turning(i)
  BY DEF AppFits, SettlesFits, Turning
<1>9. n.state \in {"FOREGROUND", "BACKGROUND"} <=> app.state \in {"FOREGROUND", "BACKGROUND"}
  OBVIOUS
<1>10. SettlesFits(n)
  <2>1. CASE app.pending = "FOREGROUNDING"
    <3>1. n.inbox = j
      BY <2>1 DEF j, e
    <3> QED BY <2>1, <3>1, <1>2, <1>3, <1>9 DEF AppFits, SettlesFits, Alive
  <2>2. CASE app.pending # "FOREGROUNDING"
    BY <2>2, <1>8, <1>9 DEF AppFits, SettlesFits, Alive
  <2> QED BY <2>1, <2>2
<1>11. PromptFits(n)
  BY DEF PromptFits
<1> QED BY <1>5, <1>7, <1>10, <1>11 DEF AppFits

\* The oldest command is taken from the queue.
LEMMA TakenCommand ==
  ASSUME NEW s \in Seq(Commands), s # <<>>
  PROVE /\ Tail(s) \in Seq(Commands) /\ Head(s) \in Commands
        /\ Has(s, "foreground") <=> Head(s)[1] = "foreground" \/ Has(Tail(s), "foreground")
        /\ Has(s, "background") <=> Head(s)[1] = "background" \/ Has(Tail(s), "background")
        /\ Has(s, "terminate") <=> Head(s)[1] = "terminate" \/ Has(Tail(s), "terminate")
        /\ Has(s, "application") <=> Head(s)[1] = "application" \/ Has(Tail(s), "application")
        /\ LaunchesFirst(s) => LaunchesFirst(Tail(s))
        /\ AtMostOne(s, {"foreground", "background"}) =>
             /\ AtMostOne(Tail(s), {"foreground", "background"})
             /\ Head(s)[1] \in {"foreground", "background"} => ~Turning(Tail(s))
<1>1. Tail(s) \in Seq(Commands) /\ Head(s) \in Commands
  OBVIOUS
<1>2. \A name : Has(s, name) <=> Head(s)[1] = name \/ Has(Tail(s), name)
  BY TakenHas
<1>3. LaunchesFirst(s) => LaunchesFirst(Tail(s))
  BY TakenLaunches
<1>4. ASSUME AtMostOne(s, {"foreground", "background"})
      PROVE /\ AtMostOne(Tail(s), {"foreground", "background"})
            /\ Head(s)[1] \in {"foreground", "background"} =>
                 \A name \in {"foreground", "background"} : ~Has(Tail(s), name)
  BY <1>4, TakenOne
<1> QED BY <1>1, <1>2, <1>3, <1>4 DEF Turning

\* An answer is queued.
LEMMA SentAnswer ==
  ASSUME NEW s \in Seq(Answers), NEW e \in Answers
  PROVE /\ s \o <<e>> \in Seq(Answers)
        /\ Has(s \o <<e>>, "foregrounded") <=> Has(s, "foregrounded") \/ e[1] = "foregrounded"
        /\ Has(s \o <<e>>, "backgrounded") <=> Has(s, "backgrounded") \/ e[1] = "backgrounded"
        /\ LastTurned(s \o <<e>>, "foregrounded") <=>
             e[1] = "foregrounded"
             \/ (e[1] \notin {"foregrounded", "backgrounded"} /\ LastTurned(s, "foregrounded"))
        /\ LastTurned(s \o <<e>>, "backgrounded") <=>
             e[1] = "backgrounded"
             \/ (e[1] \notin {"foregrounded", "backgrounded"} /\ LastTurned(s, "backgrounded"))
        /\ AtMostOne(s, {"foregrounded", "backgrounded"})
             /\ (e[1] \in {"foregrounded", "backgrounded"} => ~Turned(s)) =>
           AtMostOne(s \o <<e>>, {"foregrounded", "backgrounded"})
<1>1. s \o <<e>> \in Seq(Answers)
  OBVIOUS
<1>2. \A name : Has(s \o <<e>>, name) <=> Has(s, name) \/ e[1] = name
  BY SentHas
<1>3. \A name \in {"foregrounded", "backgrounded"} :
        LastTurned(s \o <<e>>, name) <=>
          e[1] = name \/ (e[1] \notin {"foregrounded", "backgrounded"} /\ LastTurned(s, name))
  BY SentLast
<1>4. ASSUME AtMostOne(s, {"foregrounded", "backgrounded"}),
             e[1] \in {"foregrounded", "backgrounded"} => ~Turned(s)
      PROVE AtMostOne(s \o <<e>>, {"foregrounded", "backgrounded"})
  <2>1. e[1] \in {"foregrounded", "backgrounded"} =>
          \A name \in {"foregrounded", "backgrounded"} : ~Has(s, name)
    BY <1>4 DEF Turned
  <2> QED BY <2>1, <1>4, SentOne
<1> QED BY <1>1, <1>2, <1>3, <1>4

\* The kinds of commands, with what they do to the process and what is answered.
LEMMA CommandKinds ==
  ASSUME NEW c \in Commands, NEW p \in Processes
  PROVE \/ c[1] = "application" /\ AnswerTo(c) = <<>>
           /\ Perform(p, c[1]) = IF p = "CREATE" THEN "READY" ELSE p
        \/ c[1] = "foreground" /\ AnswerTo(c) = <<<<"foregrounded">>>>
           /\ Perform(p, c[1]) = IF p \in {"READY", "BACKGROUND"} THEN "FOREGROUND" ELSE p
        \/ c[1] = "background" /\ AnswerTo(c) = <<<<"backgrounded">>>>
           /\ Perform(p, c[1]) = IF p = "FOREGROUND" THEN "BACKGROUND" ELSE p
        \/ c[1] = "terminate" /\ AnswerTo(c) = <<<<"terminated">>>> /\ Perform(p, c[1]) = "TERMINATED"
        \/ c[1] = "launch" /\ AnswerTo(c) = <<>> /\ Perform(p, c[1]) = p
        \/ c[1] = "clean" /\ Perform(p, c[1]) = p
           /\ \E a \in Pages : AnswerTo(c) = <<<<"cleaned", a>>>>
<1>1. \/ c[1] = "application" \/ c[1] = "foreground" \/ c[1] = "background" \/ c[1] = "terminate"
      \/ c[1] = "launch"
      \/ c[1] = "clean" /\ c[2] \in Pages
  BY DEF Commands
<1>2. CASE c[1] = "application"
  BY <1>2 DEF AnswerTo, Perform
<1>3. CASE c[1] = "foreground"
  BY <1>3 DEF AnswerTo, Perform
<1>4. CASE c[1] = "background"
  BY <1>4 DEF AnswerTo, Perform
<1>5. CASE c[1] = "terminate"
  BY <1>5 DEF AnswerTo, Perform
<1>6. CASE c[1] = "launch"
  BY <1>6 DEF AnswerTo, Perform
<1>7. CASE c[1] = "clean" /\ c[2] \in Pages
  BY <1>7 DEF AnswerTo, Perform
<1> QED BY <1>1, <1>2, <1>3, <1>4, <1>5, <1>6, <1>7

\* The process handles a command.
LEMMA CommandFits ==
  ASSUME NEW app \in AppType, NEW n \in AppType, AppFits(app), app.inbox # <<>>,
         app.process \notin {"dead", "TERMINATED"},
         n.client = app.client, n.state = app.state, n.pending = app.pending,
         n.slow = app.slow, n.module = app.module,
         n.inbox = Tail(app.inbox), n.outbox = app.outbox \o AnswerTo(Head(app.inbox)),
         n.process = Perform(app.process, Head(app.inbox)[1]),
         n.backgroundTimer => app.backgroundTimer /\ Head(app.inbox)[1] # "background"
  PROVE AppFits(n)
<1> DEFINE c == Head(app.inbox)
           i == app.inbox
           j == Tail(app.inbox)
           s == app.outbox
<1>0. i \in Seq(Commands) /\ s \in Seq(Answers) /\ app.process \in Processes /\ Alive(app)
  BY AppFields DEF AppFits, ClientFits, Alive
<1>1. /\ c \in Commands
      /\ Has(i, "foreground") <=> c[1] = "foreground" \/ Has(j, "foreground")
      /\ Has(i, "background") <=> c[1] = "background" \/ Has(j, "background")
      /\ Has(i, "terminate") <=> c[1] = "terminate" \/ Has(j, "terminate")
      /\ Has(i, "application") <=> c[1] = "application" \/ Has(j, "application")
      /\ LaunchesFirst(i) => LaunchesFirst(j)
      /\ AtMostOne(i, {"foreground", "background"}) =>
           /\ AtMostOne(j, {"foreground", "background"})
           /\ c[1] \in {"foreground", "background"} => ~Turning(j)
  BY <1>0, TakenCommand
<1>2. Turning(i) <=> c[1] \in {"foreground", "background"} \/ Turning(j)
  BY <1>1 DEF Turning
<1>3. /\ app.client /\ app.state # "CREATE"
      /\ app.process = "CREATE" <=> c[1] = "application"
      /\ ~Has(j, "application")
      /\ app.process = "CREATE" => s = <<>> /\ app.state = "READY"
  BY <1>0, <1>1 DEF AppFits, ClientFits, Alive
<1>4. n.process # "CREATE"
  BY <1>0, <1>1, <1>3, CommandKinds
<1> HIDE DEF c, j
<1>5. n.inbox = j
  BY DEF j
<1>6. EndFits(n)
  BY <1>1, <1>5 DEF AppFits, EndFits
<1>7. ClientFits(n)
  BY <1>3, <1>4, <1>5 DEF ClientFits
<1>8. n.outbox = s \o AnswerTo(c) /\ n.process = Perform(app.process, c[1])
      /\ (n.backgroundTimer => app.backgroundTimer /\ c[1] # "background")
  BY DEF c
<1>9. CASE AnswerTo(c) = <<>> /\ n.process \in {app.process, "READY"} /\ c[1] \notin {"foreground", "background"}
           /\ (n.process # app.process => app.process = "CREATE")
  <2>1. n.outbox = s
    <3>1. s \o <<>> = s
      BY <1>0
    <3> QED BY <3>1, <1>8, <1>9
  <2>2. Turning(i) <=> Turning(j)
    BY <1>2, <1>9
  <2>3. ~Turned(<<>>) /\ ~Has(<<>>, "foregrounded") /\ ~Has(<<>>, "backgrounded")
    BY DEF Turned, Has
  <2>4. ~LastTurned(<<>>, "foregrounded") /\ ~LastTurned(<<>>, "backgrounded")
    BY DEF LastTurned
  <2>5. SettlesFits(n)
    <3>1. CASE n.process = app.process
      BY <3>1, <2>1, <2>2, <1>1, <1>3, <1>4, <1>5, <1>8, <1>9, <1>0 DEF AppFits, SettlesFits, Alive
    <3>2. CASE n.process # app.process
      BY <3>2, <2>1, <2>2, <2>3, <2>4, <1>1, <1>3, <1>5, <1>8, <1>9, <1>0 DEF AppFits, SettlesFits, Alive
    <3> QED BY <3>1, <3>2
  <2>6. PromptFits(n)
    BY <2>1, <2>2, <1>1, <1>5 DEF AppFits, PromptFits
  <2> QED BY <2>5, <2>6, <1>6, <1>7 DEF AppFits
<1>10. ASSUME NEW e \in Answers, AnswerTo(c) = <<e>>
       PROVE /\ Has(n.outbox, "foregrounded") <=> Has(s, "foregrounded") \/ e[1] = "foregrounded"
             /\ Has(n.outbox, "backgrounded") <=> Has(s, "backgrounded") \/ e[1] = "backgrounded"
             /\ LastTurned(n.outbox, "foregrounded") <=>
                  e[1] = "foregrounded"
                  \/ (e[1] \notin {"foregrounded", "backgrounded"} /\ LastTurned(s, "foregrounded"))
             /\ LastTurned(n.outbox, "backgrounded") <=>
                  e[1] = "backgrounded"
                  \/ (e[1] \notin {"foregrounded", "backgrounded"} /\ LastTurned(s, "backgrounded"))
             /\ AtMostOne(s, {"foregrounded", "backgrounded"})
                  /\ (e[1] \in {"foregrounded", "backgrounded"} => ~Turned(s)) =>
                AtMostOne(n.outbox, {"foregrounded", "backgrounded"})
             /\ Turned(n.outbox) <=> Turned(s) \/ e[1] \in {"foregrounded", "backgrounded"}
  <2> DEFINE t == s \o <<e>>
  <2>1. /\ Has(t, "foregrounded") <=> Has(s, "foregrounded") \/ e[1] = "foregrounded"
        /\ Has(t, "backgrounded") <=> Has(s, "backgrounded") \/ e[1] = "backgrounded"
        /\ LastTurned(t, "foregrounded") <=>
             e[1] = "foregrounded"
             \/ (e[1] \notin {"foregrounded", "backgrounded"} /\ LastTurned(s, "foregrounded"))
        /\ LastTurned(t, "backgrounded") <=>
             e[1] = "backgrounded"
             \/ (e[1] \notin {"foregrounded", "backgrounded"} /\ LastTurned(s, "backgrounded"))
        /\ AtMostOne(s, {"foregrounded", "backgrounded"})
             /\ (e[1] \in {"foregrounded", "backgrounded"} => ~Turned(s)) =>
           AtMostOne(t, {"foregrounded", "backgrounded"})
    BY <1>0, SentAnswer
  <2>2. n.outbox = t
    BY <1>8, <1>10
  <2> HIDE DEF t
  <2>3. Turned(t) <=> Turned(s) \/ e[1] \in {"foregrounded", "backgrounded"}
    BY <2>1 DEF Turned
  <2> QED BY <2>1, <2>2, <2>3
<1>11. CASE c[1] = "foreground" /\ AnswerTo(c) = <<<<"foregrounded">>>>
  <2> DEFINE e == <<"foregrounded">>
  <2>1. e \in Answers /\ e[1] = "foregrounded"
    BY PlainNames
  <2> HIDE DEF e
  <2>2. AnswerTo(c) = <<e>>
    BY <1>11 DEF e
  <2>3. n.process = "FOREGROUND"
    BY <1>0, <1>1, <1>3, <1>8, <1>11, CommandKinds DEF Processes, States, Alive
  <2>4. /\ Has(n.outbox, "foregrounded") /\ Turned(n.outbox)
        /\ Has(n.outbox, "backgrounded") <=> Has(s, "backgrounded")
        /\ LastTurned(n.outbox, "foregrounded") /\ ~LastTurned(n.outbox, "backgrounded")
        /\ AtMostOne(s, {"foregrounded", "backgrounded"}) /\ ~Turned(s)
             => AtMostOne(n.outbox, {"foregrounded", "backgrounded"})
    BY <2>1, <2>2, <1>10
  <2>5. SettlesFits(n)
    BY <2>3, <2>4, <1>1, <1>0, <1>5, <1>8 DEF AppFits, SettlesFits, Alive
  <2>6. PromptFits(n)
    BY <2>4, <1>1, <1>2, <1>5, <1>11 DEF AppFits, PromptFits, Turned, Turning
  <2> QED BY <2>5, <2>6, <1>6, <1>7 DEF AppFits
<1>12. CASE c[1] = "background" /\ AnswerTo(c) = <<<<"backgrounded">>>>
  <2> DEFINE e == <<"backgrounded">>
  <2>1. e \in Answers /\ e[1] = "backgrounded"
    BY PlainNames
  <2> HIDE DEF e
  <2>2. AnswerTo(c) = <<e>>
    BY <1>12 DEF e
  <2>3. app.state \in {"FOREGROUND", "BACKGROUND"} /\ app.process \in {"FOREGROUND", "BACKGROUND"}
    BY <1>1, <1>12, <1>0 DEF AppFits, SettlesFits, Alive
  <2>4. n.process = "BACKGROUND"
    BY <2>3, <1>0, <1>1, <1>8, <1>12, CommandKinds
  <2>5. /\ Has(n.outbox, "backgrounded") /\ Turned(n.outbox)
        /\ Has(n.outbox, "foregrounded") <=> Has(s, "foregrounded")
        /\ LastTurned(n.outbox, "backgrounded") /\ ~LastTurned(n.outbox, "foregrounded")
        /\ AtMostOne(s, {"foregrounded", "backgrounded"}) /\ ~Turned(s)
             => AtMostOne(n.outbox, {"foregrounded", "backgrounded"})
    BY <2>1, <2>2, <1>10
  <2>6. SettlesFits(n)
    BY <2>3, <2>4, <2>5, <1>1, <1>0, <1>5, <1>8, <1>12 DEF AppFits, SettlesFits, Alive
  <2>7. PromptFits(n)
    BY <2>5, <1>1, <1>2, <1>5, <1>12 DEF AppFits, PromptFits, Turned, Turning
  <2> QED BY <2>6, <2>7, <1>6, <1>7 DEF AppFits
<1>13. CASE /\ c[1] \notin {"foreground", "background"}
            /\ n.process \in {app.process, "TERMINATED"} /\ app.process # "CREATE"
            /\ \E e \in Answers : AnswerTo(c) = <<e>> /\ e[1] \in {"terminated", "cleaned"}
  <2>1. PICK e \in Answers : AnswerTo(c) = <<e>> /\ e[1] \in {"terminated", "cleaned"}
    BY <1>13
  <2>2. /\ Has(n.outbox, "foregrounded") <=> Has(s, "foregrounded")
        /\ Has(n.outbox, "backgrounded") <=> Has(s, "backgrounded")
        /\ Turned(n.outbox) <=> Turned(s)
        /\ LastTurned(n.outbox, "foregrounded") <=> LastTurned(s, "foregrounded")
        /\ LastTurned(n.outbox, "backgrounded") <=> LastTurned(s, "backgrounded")
        /\ AtMostOne(s, {"foregrounded", "backgrounded"})
             => AtMostOne(n.outbox, {"foregrounded", "backgrounded"})
    BY <2>1, <1>10
  <2>3. Turning(i) <=> Turning(j)
    BY <1>2, <1>13
  <2>4. SettlesFits(n)
    BY <2>2, <2>3, <1>0, <1>1, <1>5, <1>8, <1>13 DEF AppFits, SettlesFits, Alive
  <2>5. PromptFits(n)
    BY <2>2, <2>3, <1>1, <1>5 DEF AppFits, PromptFits
  <2> QED BY <2>4, <2>5, <1>6, <1>7 DEF AppFits
<1>14. CASE c[1] = "application"
  <2>1. AnswerTo(c) = <<>> /\ n.process = "READY" /\ app.process = "CREATE"
    BY <1>14, <1>0, <1>1, <1>3, <1>8, CommandKinds
  <2> QED BY <2>1, <1>9, <1>14
<1>15. CASE c[1] = "launch"
  BY <1>15, <1>0, <1>1, <1>8, <1>9, CommandKinds
<1>16. CASE c[1] \in {"terminate", "clean"}
  <2>1. n.process \in {app.process, "TERMINATED"} /\ app.process # "CREATE"
    BY <1>16, <1>0, <1>1, <1>3, <1>8, CommandKinds
  <2>2. \E e \in Answers : AnswerTo(c) = <<e>> /\ e[1] \in {"terminated", "cleaned"}
    <3>1. CASE c[1] = "terminate"
      BY <3>1, <1>0, <1>1, CommandKinds, PlainNames
    <3>2. CASE c[1] = "clean"
      <4>1. PICK a \in Pages : AnswerTo(c) = <<<<"cleaned", a>>>>
        BY <3>2, <1>0, <1>1, CommandKinds
      <4>2. <<"cleaned", a>> \in Answers /\ <<"cleaned", a>>[1] = "cleaned"
        BY MessageNames
      <4> QED BY <4>1, <4>2
    <3> QED BY <3>1, <3>2, <1>16
  <2> QED BY <2>1, <2>2, <1>13, <1>16
<1> QED BY <1>0, <1>1, <1>11, <1>12, <1>14, <1>15, <1>16, CommandKinds

\* The process ends.
LEMMA DiesFits ==
  ASSUME NEW app \in AppType, NEW n \in AppType, AppFits(app),
         n.client = app.client, n.state = app.state, n.pending = app.pending,
         n.backgroundTimer = app.backgroundTimer, n.inbox = <<>>, n.outbox = app.outbox,
         n.process = "dead", n.slow = app.slow, n.module = app.module
  PROVE AppFits(n)
<1>1. ~Turning(<<>>) /\ \A name : ~Has(<<>>, name)
  BY DEF Turning, Has
<1>2. LaunchesFirst(<<>>) /\ AtMostOne(<<>>, {"foreground", "background"})
  BY DEF LaunchesFirst, AtMostOne
<1>3. EndFits(n)
  BY <1>1, <1>2 DEF EndFits
<1>4. ClientFits(n)
  BY <1>1 DEF AppFits, ClientFits
<1>5. SettlesFits(n)
  BY <1>1 DEF AppFits, SettlesFits, Alive
<1>6. PromptFits(n)
  BY <1>1, <1>2 DEF AppFits, PromptFits
<1> QED BY <1>3, <1>4, <1>5, <1>6 DEF AppFits

\* A record of which no process has attached, or none is known.
LEMMA NewFits ==
  ASSUME NEW n \in AppType,
         ~n.client, n.state = "CREATE", n.pending = "READY", ~n.backgroundTimer,
         n.inbox = <<>>, n.outbox = <<>>, n.process \in {"dead", "CREATE"}
  PROVE AppFits(n)
<1>1. ~Turning(<<>>) /\ ~Turned(<<>>) /\ \A name : ~Has(<<>>, name)
  BY DEF Turning, Turned, Has
<1>2. LaunchesFirst(<<>>) /\ \A names : AtMostOne(<<>>, names)
  BY DEF LaunchesFirst, AtMostOne
<1>3. EndFits(n)
  BY <1>1, <1>2 DEF EndFits
<1>4. ClientFits(n)
  BY <1>1 DEF ClientFits
<1>5. SettlesFits(n)
  BY <1>1 DEF SettlesFits, Alive
<1>6. PromptFits(n)
  BY <1>1, <1>2 DEF PromptFits
<1> QED BY <1>3, <1>4, <1>5, <1>6 DEF AppFits

\* A process attaches: its first command creates the application, and launches follow.
LEMMA AttachFits ==
  ASSUME NEW app \in AppType, NEW n \in AppType, NEW l \in Seq(Commands), AppFits(app),
         ~app.client, app.process # "dead", \A i \in DOMAIN l : l[i][1] = "launch",
         n.client, n.state = "READY", n.pending = app.pending,
         n.backgroundTimer = app.backgroundTimer, n.inbox = <<<<"application">>>> \o l,
         n.outbox = app.outbox, n.process = app.process
  PROVE AppFits(n)
<1> DEFINE e == <<"application">>
           s == <<e>> \o l
<1>1. e \in Commands /\ e[1] = "application"
  BY PlainNames
<1>2. n.inbox = s
  OBVIOUS
<1> HIDE DEF e
<1>3. /\ s \in Seq(Commands) /\ Len(s) = Len(l) + 1 /\ s[1] = e
      /\ \A i \in 1..Len(l) : s[i + 1] = l[i]
      /\ s # <<>> /\ Head(s) = e /\ Tail(s) = l /\ Len(l) \in Nat
      /\ DOMAIN l = 1..Len(l)
  BY <1>1
<1> HIDE DEF s
<1>4. \A name : Has(s, name) <=> e[1] = name \/ Has(l, name)
  BY <1>3, TakenHas
<1>5. \A name : Has(l, name) => name = "launch"
  BY DEF Has
<1>6. \A i \in DOMAIN s : s[i][1] \in {"launch", "application"}
  <2> SUFFICES ASSUME NEW i \in DOMAIN s PROVE s[i][1] \in {"launch", "application"}
    OBVIOUS
  <2>1. i = 1 \/ (i - 1 \in 1..Len(l) /\ s[(i - 1) + 1] = l[i - 1] /\ (i - 1) + 1 = i)
    BY <1>3
  <2> QED BY <2>1, <1>1, <1>3
<1>7. LaunchesFirst(s) /\ AtMostOne(s, {"foreground", "background"})
  BY <1>6 DEF LaunchesFirst, AtMostOne
<1>8. /\ ~Has(s, "foreground") /\ ~Has(s, "background") /\ ~Has(s, "terminate") /\ ~Turning(s)
      /\ ~Has(Tail(s), "application")
  BY <1>1, <1>3, <1>4, <1>5 DEF Turning
<1>9. app.outbox = <<>> /\ app.pending = "READY" /\ ~app.backgroundTimer /\ app.process = "CREATE"
  BY DEF AppFits, ClientFits
<1>10. ~Turned(<<>>) /\ (\A name : ~Has(<<>>, name)) /\ AtMostOne(<<>>, {"foregrounded", "backgrounded"})
  BY DEF Turned, Has, AtMostOne
<1>11. ~LastTurned(<<>>, "foregrounded") /\ ~LastTurned(<<>>, "backgrounded")
  BY DEF LastTurned
<1>12. EndFits(n)
  BY <1>2, <1>7, <1>8 DEF EndFits
<1>13. ClientFits(n)
  BY <1>1, <1>2, <1>3, <1>8, <1>9 DEF ClientFits
<1>14. SettlesFits(n)
  BY <1>2, <1>8, <1>9, <1>10, <1>11 DEF SettlesFits, Alive
<1>15. PromptFits(n)
  BY <1>2, <1>7, <1>8, <1>9, <1>10 DEF PromptFits
<1> QED BY <1>12, <1>13, <1>14, <1>15 DEF AppFits

-----------------------------------------------------------------------------
(* The methods of a record that send a command or take an answer. *)

LEMMA SentApp ==
  ASSUME NEW app \in AppType, NEW e \in Commands
  PROVE /\ Sent(app, <<e>>) \in AppType
        /\ Sent(app, <<e>>).inbox = IF app.client THEN app.inbox \o <<e>> ELSE app.inbox
        /\ Sent(app, <<e>>).listed = app.listed
        /\ Sent(app, <<e>>).client = app.client
        /\ Sent(app, <<e>>).state = app.state
        /\ Sent(app, <<e>>).pending = app.pending
        /\ Sent(app, <<e>>).module = app.module
        /\ Sent(app, <<e>>).backgroundTimer = app.backgroundTimer
        /\ Sent(app, <<e>>).outbox = app.outbox
        /\ Sent(app, <<e>>).process = app.process
        /\ Sent(app, <<e>>).slow = app.slow
<1>1. app.inbox \in Seq(Commands) /\ app.inbox \o <<e>> \in Seq(Commands)
  BY AppFields
<1> DEFINE t == app.inbox \o <<e>>
<1>2. Sent(app, <<e>>) = IF app.client THEN [app EXCEPT !.inbox = t] ELSE app
  BY DEF Sent
<1> HIDE DEF t
<1>3. t \in Seq(Commands)
  BY <1>1 DEF t
<1> QED BY <1>2, <1>3, AppFields, ZenonT(60) DEF AppType, t

\* An ability is launched in, or cleaned from, a process that has attached, or the process is
\* told to end; one that has not attached is told nothing.
LEMMA ToldApp ==
  ASSUME NEW app \in AppType, AppFits(app), NEW e \in Commands,
         e[1] \in {"launch", "clean", "terminate"},
         e[1] = "launch" => app.module, e[1] = "terminate" => ~app.module
  PROVE AppFits(Sent(app, <<e>>))
<1> DEFINE n == Sent(app, <<e>>)
<1>1. /\ n \in AppType
      /\ n.inbox = IF app.client THEN app.inbox \o <<e>> ELSE app.inbox
      /\ n.client = app.client /\ n.state = app.state /\ n.pending = app.pending
      /\ n.module = app.module /\ n.backgroundTimer = app.backgroundTimer
      /\ n.outbox = app.outbox /\ n.process = app.process /\ n.slow = app.slow
  BY SentApp
<1> HIDE DEF n
<1>2. CASE app.client
  <2>1. n.inbox = app.inbox \o <<e>>
    BY <1>1, <1>2
  <2>2. e[1] = "terminate" => ~n.module
    BY <1>1
  <2>3. n.module => app.module
    BY <1>1
  <2>4. AppFits(n)
    BY <1>1, <1>2, <2>1, <2>2, <2>3, ToldFits
  <2> QED BY <2>4 DEF n
<1>3. CASE ~app.client
  <2>1. n.inbox = app.inbox
    BY <1>1, <1>3
  <2>2. n.module => app.module
    BY <1>1
  <2>3. AppFits(n)
    BY <1>1, <2>1, <2>2, UnmovedFits
  <2> QED BY <2>3 DEF n
<1> QED BY <1>2, <1>3

LEMMA AwaitForegroundApp ==
  ASSUME NEW app \in AppType, AppFits(app), NEW a \in Pages,
         app.state \in {"READY", "BACKGROUND"} \/ (app.state = "FOREGROUND" /\ app.pending = "BACKGROUNDING")
  PROVE /\ AwaitForeground(app, a) \in AppType
        /\ AppFits(AwaitForeground(app, a))
        /\ AwaitForeground(app, a).listed = app.listed
        /\ AwaitForeground(app, a).pending = "FOREGROUNDING"
<1> DEFINE m == [app EXCEPT !.pending = "FOREGROUNDING", !.tokens = @ \cup {a}, !.overridden = FALSE]
           n == AwaitForeground(app, a)
           e == <<"foreground">>
<1>1. app.client
  BY DEF AppFits, ClientFits
<1>2. /\ m \in AppType /\ m.pending = "FOREGROUNDING"
      /\ m.listed = app.listed /\ m.inbox = app.inbox
      /\ m.client = app.client /\ m.state = app.state
      /\ m.module = app.module /\ m.backgroundTimer = app.backgroundTimer
      /\ m.outbox = app.outbox /\ m.process = app.process /\ m.slow = app.slow
  BY DEF AppType
<1>3. n = IF app.pending = "READY" THEN Sent(m, <<e>>) ELSE m
  BY DEF AwaitForeground, ScheduleForegroundRunning
<1>4. e \in Commands /\ e[1] = "foreground"
  BY PlainNames
<1> HIDE DEF m, e
<1> DEFINE k == Sent(m, <<e>>)
<1>8. /\ k \in AppType /\ k.pending = m.pending /\ k.listed = m.listed
      /\ k.inbox = IF m.client THEN m.inbox \o <<e>> ELSE m.inbox
      /\ k.client = m.client /\ k.state = m.state
      /\ k.module = m.module /\ k.backgroundTimer = m.backgroundTimer
      /\ k.outbox = m.outbox /\ k.process = m.process /\ k.slow = m.slow
  <2>1. m \in AppType /\ e \in Commands
    BY <1>2, <1>4
  <2> QED BY <2>1, SentApp
<1> HIDE DEF k, n
<1>5. /\ k \in AppType /\ k.pending = m.pending /\ k.listed = m.listed
      /\ k.inbox = app.inbox \o <<e>>
      /\ k.client = app.client /\ k.state = app.state
      /\ k.module = app.module /\ k.backgroundTimer = app.backgroundTimer
      /\ k.outbox = app.outbox /\ k.process = app.process /\ k.slow = app.slow
  BY <1>1, <1>2, <1>8
<1>6. CASE app.pending = "READY"
  <2>1. AppFits(k)
    BY <1>1, <1>2, <1>4, <1>5, <1>6, TurnFits
  <2> QED BY <2>1, <1>2, <1>3, <1>5, <1>6 DEF n, k
<1>7. CASE app.pending # "READY"
  <2>1. AppFits(m)
    BY <1>1, <1>2, <1>7, AwaitedFits
  <2> QED BY <2>1, <1>2, <1>3, <1>7 DEF n
<1> QED BY <1>6, <1>7

LEMMA AwaitBackgroundApp ==
  ASSUME NEW app \in AppType, AppFits(app), app.state = "FOREGROUND"
  PROVE /\ AwaitBackground(app) \in AppType
        /\ AppFits(AwaitBackground(app))
        /\ AwaitBackground(app).listed = app.listed
<1>0. PICK o \in BOOLEAN : o = (app.tokens # {})
  OBVIOUS
<1> DEFINE l == [app EXCEPT !.pending = "BACKGROUNDING", !.overridden = o]
           m == [l EXCEPT !.backgroundTimer = TRUE]
           n == AwaitBackground(app)
           e == <<"background">>
<1>1. app.client
  BY DEF AppFits, ClientFits
<1>2. /\ l \in AppType /\ l.pending = "BACKGROUNDING"
      /\ l.listed = app.listed /\ l.inbox = app.inbox
      /\ l.client = app.client /\ l.state = app.state
      /\ l.module = app.module /\ l.backgroundTimer = app.backgroundTimer
      /\ l.outbox = app.outbox /\ l.process = app.process /\ l.slow = app.slow
  BY <1>0 DEF AppType
<1>3. n = IF app.pending = "READY" THEN Sent(m, <<e>>) ELSE l
  BY <1>0 DEF AwaitBackground, ScheduleBackgroundRunning
<1>4. e \in Commands /\ e[1] = "background"
  BY PlainNames
<1> HIDE DEF l, e
<1>5. /\ m \in AppType /\ m.pending = l.pending /\ m.listed = app.listed /\ m.inbox = app.inbox
      /\ m.client = app.client /\ m.state = app.state /\ m.module = app.module
      /\ m.outbox = app.outbox /\ m.process = app.process /\ m.slow = app.slow
  BY <1>2 DEF AppType
<1> HIDE DEF m
<1> DEFINE k == Sent(m, <<e>>)
<1>9. /\ k \in AppType /\ k.pending = m.pending /\ k.listed = m.listed
      /\ k.inbox = IF m.client THEN m.inbox \o <<e>> ELSE m.inbox
      /\ k.client = m.client /\ k.state = m.state /\ k.module = m.module
      /\ k.outbox = m.outbox /\ k.process = m.process /\ k.slow = m.slow
  <2>1. m \in AppType /\ e \in Commands
    BY <1>5, <1>4
  <2> QED BY <2>1, SentApp
<1> HIDE DEF k, n
<1>6. /\ k \in AppType /\ k.pending = m.pending /\ k.listed = m.listed
      /\ k.inbox = app.inbox \o <<e>>
      /\ k.client = app.client /\ k.state = app.state /\ k.module = app.module
      /\ k.outbox = app.outbox /\ k.process = app.process /\ k.slow = app.slow
  BY <1>1, <1>5, <1>9
<1>7. CASE app.pending = "READY"
  <2>1. k.pending = "BACKGROUNDING"
    BY <1>2, <1>5, <1>6
  <2>2. AppFits(k)
    BY <1>1, <1>4, <1>6, <1>7, <2>1, TurnFits
  <2> QED BY <2>2, <1>3, <1>5, <1>6, <1>7 DEF n, k
<1>8. CASE app.pending # "READY"
  <2>1. AppFits(l)
    BY <1>1, <1>2, <1>8, AwaitedFits
  <2> QED BY <2>1, <1>2, <1>3, <1>8 DEF n
<1> QED BY <1>7, <1>8

\* What the handlers of the two answers make of a record.
ForegroundedNext(app) ==
  [app EXCEPT !.state = IF @ \in {"READY", "BACKGROUND"} THEN "FOREGROUND" ELSE @,
              !.pending = IF @ = "FOREGROUNDING" THEN "READY" ELSE @,
              !.tokens = {}, !.overridden = FALSE]
Foregrounded(app) ==
  IF app.pending = "BACKGROUNDING"
  THEN Sent([ForegroundedNext(app) EXCEPT !.backgroundTimer = TRUE], <<<<"background">>>>)
  ELSE ForegroundedNext(app)
BackgroundedNext(app) ==
  [app EXCEPT !.state = IF @ = "FOREGROUND" THEN "BACKGROUND" ELSE @,
              !.pending = IF @ = "BACKGROUNDING" THEN "READY" ELSE @]
Backgrounded(app) ==
  IF app.pending = "FOREGROUNDING"
  THEN Sent(BackgroundedNext(app), <<<<"foreground">>>>)
  ELSE BackgroundedNext(app)

LEMMA ForegroundedRecord ==
  ASSUME NEW app \in AppType, app.client, app.state # "CREATE"
  PROVE /\ Foregrounded(app) \in AppType
        /\ Foregrounded(app).listed = app.listed
        /\ Foregrounded(app).client = app.client
        /\ Foregrounded(app).state = "FOREGROUND"
        /\ Foregrounded(app).module = app.module
        /\ Foregrounded(app).outbox = app.outbox
        /\ Foregrounded(app).process = app.process
        /\ Foregrounded(app).slow = app.slow
        /\ \/ /\ app.pending # "BACKGROUNDING" /\ Foregrounded(app).pending = "READY"
              /\ Foregrounded(app).inbox = app.inbox
              /\ Foregrounded(app).backgroundTimer = app.backgroundTimer
           \/ /\ app.pending = "BACKGROUNDING" /\ Foregrounded(app).pending = "BACKGROUNDING"
              /\ Foregrounded(app).inbox = app.inbox \o <<<<"background">>>>
<1> DEFINE l == ForegroundedNext(app)
           m == [l EXCEPT !.backgroundTimer = TRUE]
           e == <<"background">>
           n == Sent(m, <<e>>)
<1>1. /\ app.state \in States /\ app.pending \in {"READY", "FOREGROUNDING", "BACKGROUNDING"}
  BY AppFields
<1>2. /\ l \in AppType /\ l.state = "FOREGROUND"
      /\ l.pending = IF app.pending = "FOREGROUNDING" THEN "READY" ELSE app.pending
      /\ l.listed = app.listed /\ l.inbox = app.inbox /\ l.client = app.client
      /\ l.module = app.module /\ l.backgroundTimer = app.backgroundTimer
      /\ l.outbox = app.outbox /\ l.process = app.process /\ l.slow = app.slow
  BY <1>1, ZenonT(60) DEF AppType, States, ForegroundedNext
<1> HIDE DEF l
<1>3. /\ m \in AppType /\ m.state = l.state /\ m.pending = l.pending /\ m.listed = l.listed
      /\ m.inbox = l.inbox /\ m.client = l.client /\ m.module = l.module
      /\ m.outbox = l.outbox /\ m.process = l.process /\ m.slow = l.slow
  BY <1>2 DEF AppType
<1>4. e \in Commands
  BY PlainNames
<1>5. Foregrounded(app) = IF app.pending = "BACKGROUNDING" THEN n ELSE l
  BY DEF Foregrounded, l
<1> HIDE DEF m, e
<1>6. /\ n \in AppType /\ n.state = m.state /\ n.pending = m.pending /\ n.listed = m.listed
      /\ n.inbox = IF m.client THEN m.inbox \o <<e>> ELSE m.inbox
      /\ n.client = m.client /\ n.module = m.module
      /\ n.outbox = m.outbox /\ n.process = m.process /\ n.slow = m.slow
  BY <1>3, <1>4, SentApp
<1> HIDE DEF n
<1>7. CASE app.pending = "BACKGROUNDING"
  <2>1. n.inbox = app.inbox \o <<<<"background">>>>
    BY <1>2, <1>3, <1>6 DEF e
  <2> QED BY <2>1, <1>2, <1>3, <1>5, <1>6, <1>7
<1>8. CASE app.pending # "BACKGROUNDING"
  BY <1>1, <1>2, <1>5, <1>8
<1> QED BY <1>7, <1>8

LEMMA BackgroundedRecord ==
  ASSUME NEW app \in AppType, app.client
  PROVE /\ Backgrounded(app) \in AppType
        /\ Backgrounded(app).listed = app.listed
        /\ Backgrounded(app).client = app.client
        /\ Backgrounded(app).state = (IF app.state = "FOREGROUND" THEN "BACKGROUND" ELSE app.state)
        /\ Backgrounded(app).module = app.module
        /\ Backgrounded(app).outbox = app.outbox
        /\ Backgrounded(app).process = app.process
        /\ Backgrounded(app).slow = app.slow
        /\ Backgrounded(app).backgroundTimer = app.backgroundTimer
        /\ \/ /\ app.pending # "FOREGROUNDING" /\ Backgrounded(app).pending = "READY"
              /\ Backgrounded(app).inbox = app.inbox
           \/ /\ app.pending = "FOREGROUNDING" /\ Backgrounded(app).pending = "FOREGROUNDING"
              /\ Backgrounded(app).inbox = app.inbox \o <<<<"foreground">>>>
<1> DEFINE l == BackgroundedNext(app)
           e == <<"foreground">>
           n == Sent(l, <<e>>)
<1>1. /\ app.state \in States /\ app.pending \in {"READY", "FOREGROUNDING", "BACKGROUNDING"}
  BY AppFields
<1>2. /\ l \in AppType
      /\ l.state = IF app.state = "FOREGROUND" THEN "BACKGROUND" ELSE app.state
      /\ l.pending = IF app.pending = "BACKGROUNDING" THEN "READY" ELSE app.pending
      /\ l.listed = app.listed /\ l.inbox = app.inbox /\ l.client = app.client
      /\ l.module = app.module /\ l.backgroundTimer = app.backgroundTimer
      /\ l.outbox = app.outbox /\ l.process = app.process /\ l.slow = app.slow
  BY <1>1 DEF AppType, States, BackgroundedNext
<1>4. e \in Commands
  BY PlainNames
<1>5. Backgrounded(app) = IF app.pending = "FOREGROUNDING" THEN n ELSE l
  BY DEF Backgrounded
<1> HIDE DEF l, e
<1>6. /\ n \in AppType /\ n.state = l.state /\ n.pending = l.pending /\ n.listed = l.listed
      /\ n.inbox = IF l.client THEN l.inbox \o <<e>> ELSE l.inbox
      /\ n.client = l.client /\ n.module = l.module /\ n.backgroundTimer = l.backgroundTimer
      /\ n.outbox = l.outbox /\ n.process = l.process /\ n.slow = l.slow
  BY <1>2, <1>4, SentApp, ZenonT(60)
<1> HIDE DEF n
<1>7. CASE app.pending = "FOREGROUNDING"
  <2>1. n.inbox = app.inbox \o <<<<"foreground">>>>
    BY <1>2, <1>6 DEF e
  <2> QED BY <2>1, <1>2, <1>5, <1>6, <1>7
<1>8. CASE app.pending # "FOREGROUNDING"
  BY <1>1, <1>2, <1>5, <1>8
<1> QED BY <1>7, <1>8

\* A record whose oldest answer is taken.
Taken(app) == [app EXCEPT !.outbox = Tail(@)]

LEMMA TakenRecord ==
  ASSUME NEW app \in AppType, app.outbox # <<>>
  PROVE /\ Taken(app) \in AppType
        /\ Taken(app).outbox = Tail(app.outbox)
        /\ Taken(app).listed = app.listed
        /\ Taken(app).client = app.client
        /\ Taken(app).state = app.state
        /\ Taken(app).pending = app.pending
        /\ Taken(app).module = app.module
        /\ Taken(app).inbox = app.inbox
        /\ Taken(app).backgroundTimer = app.backgroundTimer
        /\ Taken(app).process = app.process
        /\ Taken(app).slow = app.slow
<1>1. app.outbox \in Seq(Answers) /\ Tail(app.outbox) \in Seq(Answers)
  BY AppFields
<1> DEFINE t == Tail(app.outbox)
<1>2. Taken(app) = [app EXCEPT !.outbox = t] /\ t \in Seq(Answers)
  BY <1>1 DEF Taken
<1> HIDE DEF t
<1> QED BY <1>2 DEF AppType, t

LEMMA ForegroundedApp ==
  ASSUME NEW app \in AppType, AppFits(app), app.outbox # <<>>, Head(app.outbox)[1] = "foregrounded"
  PROVE /\ Foregrounded(Taken(app)) \in AppType
        /\ AppFits(Foregrounded(Taken(app)))
        /\ Foregrounded(Taken(app)).listed = app.listed
        /\ Foregrounded(Taken(app)).slow = app.slow
        /\ app.slow = 0 => /\ Foregrounded(Taken(app)).state = "FOREGROUND"
                           /\ Foregrounded(Taken(app)).pending = "READY"
<1> DEFINE m == Taken(app)
           n == Foregrounded(m)
<1>1. app.client /\ app.state # "CREATE"
  BY DEF AppFits, ClientFits
<1>2. /\ m \in AppType /\ m.outbox = Tail(app.outbox) /\ m.listed = app.listed
      /\ m.client = app.client /\ m.state = app.state /\ m.pending = app.pending
      /\ m.module = app.module /\ m.inbox = app.inbox
      /\ m.backgroundTimer = app.backgroundTimer /\ m.process = app.process /\ m.slow = app.slow
  BY TakenRecord
<1> HIDE DEF m
<1>3. /\ n \in AppType /\ n.listed = m.listed /\ n.client = m.client /\ n.state = "FOREGROUND"
      /\ n.module = m.module /\ n.outbox = m.outbox /\ n.process = m.process /\ n.slow = m.slow
      /\ \/ /\ m.pending # "BACKGROUNDING" /\ n.pending = "READY"
            /\ n.inbox = m.inbox /\ n.backgroundTimer = m.backgroundTimer
         \/ /\ m.pending = "BACKGROUNDING" /\ n.pending = "BACKGROUNDING"
            /\ n.inbox = m.inbox \o <<<<"background">>>>
  BY <1>1, <1>2, ForegroundedRecord
<1> HIDE DEF n
<1>4. AppFits(n)
  BY <1>2, <1>3, ForegroundedFits
<1>5. app.slow = 0 => app.pending = "FOREGROUNDING"
  <2>1. Has(app.outbox, "foregrounded")
    BY AppFields, TakenAnswer
  <2> QED BY <2>1 DEF AppFits, PromptFits
<1> QED BY <1>2, <1>3, <1>4, <1>5 DEF n, m

LEMMA BackgroundedApp ==
  ASSUME NEW app \in AppType, AppFits(app), app.outbox # <<>>, Head(app.outbox)[1] = "backgrounded"
  PROVE /\ Backgrounded(Taken(app)) \in AppType
        /\ AppFits(Backgrounded(Taken(app)))
        /\ Backgrounded(Taken(app)).listed = app.listed
        /\ Backgrounded(Taken(app)).slow = app.slow
        /\ app.slow = 0 => app.pending # "READY" /\
             (app.pending = "FOREGROUNDING" => Backgrounded(Taken(app)).pending = "FOREGROUNDING")
<1> DEFINE m == Taken(app)
           n == Backgrounded(m)
<1>1. app.client
  BY DEF AppFits, ClientFits
<1>2. /\ m \in AppType /\ m.outbox = Tail(app.outbox) /\ m.listed = app.listed
      /\ m.client = app.client /\ m.state = app.state /\ m.pending = app.pending
      /\ m.module = app.module /\ m.inbox = app.inbox
      /\ m.backgroundTimer = app.backgroundTimer /\ m.process = app.process /\ m.slow = app.slow
  BY TakenRecord
<1> HIDE DEF m
<1>3. /\ n \in AppType /\ n.listed = m.listed /\ n.client = m.client
      /\ n.state = (IF m.state = "FOREGROUND" THEN "BACKGROUND" ELSE m.state)
      /\ n.module = m.module /\ n.outbox = m.outbox /\ n.process = m.process /\ n.slow = m.slow
      /\ n.backgroundTimer = m.backgroundTimer
      /\ \/ m.pending # "FOREGROUNDING" /\ n.pending = "READY" /\ n.inbox = m.inbox
         \/ /\ m.pending = "FOREGROUNDING" /\ n.pending = "FOREGROUNDING"
            /\ n.inbox = m.inbox \o <<<<"foreground">>>>
  BY <1>1, <1>2, BackgroundedRecord
<1> HIDE DEF n
<1>4. AppFits(n)
  BY <1>2, <1>3, BackgroundedFits
<1>5. app.slow = 0 => app.pending # "READY"
  <2>1. Has(app.outbox, "backgrounded")
    BY AppFields, TakenAnswer
  <2> QED BY <2>1 DEF AppFits, PromptFits
<1> QED BY <1>2, <1>3, <1>4, <1>5 DEF n, m

-----------------------------------------------------------------------------
(* Steps. *)

\* A step changes the record r to n, and each ability stays as it is, is on a list of r, or
\* is gone.
LEMMA RecordStep ==
  ASSUME AppInv, NEW r \in AppRecords, NEW n \in AppType, AppFits(n), n.listed,
         apps' = [apps EXCEPT ![r] = n], pages' \in [Pages -> PageType],
         \A a \in Pages :
           \/ pages'[a] = pages[a] /\ (pages[a].record = r => Backed(pages[a], n))
           \/ /\ pages'[a].record = r /\ pages'[a].list \in {"abilities", "terminateAbilities", "removed"}
              /\ Backed(pages'[a], n)
           \/ pages'[a].record = 0 /\ pages'[a].list = "gone"
  PROVE AppInv'
<1>1. apps' \in [AppRecords -> AppType] /\ \A q \in AppRecords : apps'[q] = IF q = r THEN n ELSE apps[q]
  BY DEF AppInv
<1>2. \A q \in AppRecords : AppFits(apps'[q]) /\ ListedFits(apps'[q])
  BY <1>1 DEF AppInv, ListedFits
<1>3. ASSUME NEW a \in Pages PROVE PageFits(a)'
  <2>1. PageFits(a)
    BY DEF AppInv
  <2>2. CASE pages'[a] = pages[a] /\ (pages[a].record = r => Backed(pages[a], n))
    <3>1. CASE pages[a].record \in AppRecords
      <4>1. RecordOf(a)' = IF pages[a].record = r THEN n ELSE RecordOf(a)
        BY <1>1, <2>2, <3>1 DEF RecordOf
      <4> QED BY <2>1, <2>2, <3>1, <4>1 DEF PageFits
    <3>2. CASE pages[a].record \notin AppRecords
      <4>1. pages[a].list \notin {"abilities", "terminateAbilities", "removed"}
        BY <2>1, <3>2 DEF PageFits
      <4> QED BY <2>1, <2>2, <4>1 DEF PageFits, Backed
    <3> QED BY <3>1, <3>2
  <2>3. CASE /\ pages'[a].record = r /\ pages'[a].list \in {"abilities", "terminateAbilities", "removed"}
             /\ Backed(pages'[a], n)
    <3>1. RecordOf(a)' = n
      BY <2>3, <1>1 DEF RecordOf
    <3> QED BY <2>3, <3>1 DEF PageFits
  <2>4. CASE pages'[a].record = 0 /\ pages'[a].list = "gone"
    BY <2>4 DEF PageFits, Backed
  <2> QED BY <2>2, <2>3, <2>4
<1> QED BY <1>1, <1>2, <1>3 DEF AppInv

\* What the invariant says of an ability on a list of its module.
LEMMA Listed ==
  ASSUME AppInv, NEW a \in Pages, pages[a].list \in {"abilities", "terminateAbilities", "removed"}
  PROVE /\ pages[a].record \in AppRecords /\ pages[a] \in PageType
        /\ RecordOf(a) \in AppType /\ AppFits(RecordOf(a)) /\ RecordOf(a).listed
        /\ Backed(pages[a], RecordOf(a))
        /\ RecordOf(a) = apps[pages[a].record]
BY DEF AppInv, PageFits, RecordOf

\* The abilities of a record are backed by it, and by one with the same turns.
LEMMA StillBacked ==
  ASSUME AppInv, NEW r \in AppRecords, NEW n \in AppType,
         n.slow = apps[r].slow, n.pending = apps[r].pending, n.state = apps[r].state
  PROVE \A a \in Pages : pages[a].record = r => Backed(pages[a], n)
<1> SUFFICES ASSUME NEW a \in Pages, pages[a].record = r PROVE Backed(pages[a], n)
  OBVIOUS
<1>1. Backed(pages[a], apps[r])
  BY DEF AppInv, PageFits, RecordOf
<1> QED BY <1>1 DEF Backed

LEMMA NoAppFits == NoApp \in AppType /\ AppFits(NoApp) /\ ListedFits(NoApp)
<1>1. <<>> \in Seq(Commands) /\ <<>> \in Seq(Answers) /\ 0 \in 0..MaxSlow
  BY AppConstants
<1>2. NoApp \in AppType
  BY <1>1 DEF NoApp, AppType, Processes, States
<1>3. /\ ~NoApp.client /\ NoApp.state = "CREATE" /\ NoApp.pending = "READY" /\ ~NoApp.backgroundTimer
      /\ NoApp.inbox = <<>> /\ NoApp.outbox = <<>> /\ NoApp.process = "dead" /\ ~NoApp.listed
  BY DEF NoApp
<1>4. AppFits(NoApp)
  BY <1>2, <1>3, NewFits
<1> QED BY <1>2, <1>3, <1>4 DEF ListedFits

LEMMA PageRecords ==
  /\ NoPage \in PageType /\ NoPage.list = "none" /\ NoPage.record = 0 /\ NoPage.state = "CREATE"
  /\ GonePage \in PageType /\ GonePage.list = "gone" /\ GonePage.record = 0
<1>1. 0 \in 0..MaxAppRecords
  BY AppConstants
<1> QED BY <1>1 DEF NoPage, GonePage, PageType, States

LEMMA RemoveStep ==
  ASSUME AppInv, NEW r \in AppRecords, RemoveAppRunningRecord(r)
  PROVE AppInv'
<1>1. apps' \in [AppRecords -> AppType] /\ \A q \in AppRecords : apps'[q] = IF q = r THEN NoApp ELSE apps[q]
  BY NoAppFits DEF AppInv, RemoveAppRunningRecord, SetApp
<1>2. \A q \in AppRecords : AppFits(apps'[q]) /\ ListedFits(apps'[q])
  BY <1>1, NoAppFits DEF AppInv
<1>3. /\ pages' \in [Pages -> PageType]
      /\ \A a \in Pages : pages'[a] = IF pages[a].record = r THEN GonePage ELSE pages[a]
  BY PageRecords DEF AppInv, RemoveAppRunningRecord, PagesOf
<1>4. ASSUME NEW a \in Pages PROVE PageFits(a)'
  <2>1. PageFits(a)
    BY DEF AppInv
  <2>2. CASE pages[a].record = r
    BY <2>2, <1>3, PageRecords DEF PageFits, Backed
  <2>3. CASE pages[a].record # r
    <3>1. pages'[a] = pages[a]
      BY <2>3, <1>3
    <3>2. CASE pages[a].record \in AppRecords
      <4>1. RecordOf(a)' = RecordOf(a)
        BY <1>1, <2>3, <3>1, <3>2 DEF RecordOf
      <4> QED BY <2>1, <3>1, <4>1 DEF PageFits
    <3>3. CASE pages[a].record \notin AppRecords
      <4>1. pages[a].list \notin {"abilities", "terminateAbilities", "removed"}
        BY <2>1, <3>3 DEF PageFits
      <4> QED BY <2>1, <3>1, <4>1 DEF PageFits, Backed
    <3> QED BY <3>2, <3>3
  <2> QED BY <2>2, <2>3
<1> QED BY <1>1, <1>2, <1>3, <1>4 DEF AppInv

\* An ability moves to a list of the record r, or on it.
LEMMA PageMoves ==
  ASSUME AppInv, NEW a \in Pages, NEW page \in PageType, pages' = [pages EXCEPT ![a] = page]
  PROVE /\ pages' \in [Pages -> PageType]
        /\ pages'[a] = page
        /\ \A b \in Pages \ {a} : pages'[b] = pages[b]
BY DEF AppInv

LEMMA CreateAppRunningRecordStep ==
  ASSUME AppInv, NEW a \in Pages, NEW r \in AppRecords, pages[a].list = "none",
         CreateAppRunningRecord(a, r)
  PROVE AppInv'
<1> DEFINE n == StartProcess([NoApp EXCEPT !.listed = TRUE, !.module = TRUE])
           page == [pages[a] EXCEPT !.list = "abilities", !.record = r]
<1>1. /\ n \in AppType /\ n.listed /\ ~n.client /\ n.state = "CREATE" /\ n.pending = "READY"
      /\ ~n.backgroundTimer /\ n.inbox = <<>> /\ n.outbox = <<>> /\ n.process = "CREATE"
  BY NoAppFits DEF NoApp, StartProcess, AppType, Processes, States
<1>2. apps' = [apps EXCEPT ![r] = n] /\ ~apps[r].listed
  BY DEF CreateAppRunningRecord, SetApp
<1> HIDE DEF n
<1>3. AppFits(n)
  BY <1>1, NewFits
<1>4. pages[a] \in PageType /\ pages[a].state = "CREATE"
  BY DEF AppInv, PageFits
<1>5. r \in 0..MaxAppRecords
  BY AppConstants DEF AppRecords
<1>6. page \in PageType /\ page.list = "abilities" /\ page.record = r /\ page.state = "CREATE"
  BY <1>4, <1>5 DEF PageType
<1>7. pages' = [pages EXCEPT ![a] = page]
  BY <1>4 DEF CreateAppRunningRecord, PageType, AppInv
<1> HIDE DEF page
<1>8. /\ pages' \in [Pages -> PageType] /\ pages'[a] = page
      /\ \A b \in Pages \ {a} : pages'[b] = pages[b]
  BY <1>6, <1>7, PageMoves
<1>9. Backed(page, n)
  BY <1>6 DEF Backed
<1>10. ASSUME NEW b \in Pages, pages[b].record = r PROVE FALSE
  <2>1. pages[b].list \in {"none", "abilities", "terminateAbilities", "removed", "gone"} /\ PageFits(b)
    BY DEF AppInv, PageType
  <2>2. pages[b].list \in {"abilities", "terminateAbilities", "removed"}
    BY <2>1, <1>10 DEF PageFits, AppRecords
  <2> QED BY <2>1, <2>2, <1>10, <1>2 DEF PageFits, RecordOf
<1>11. \A b \in Pages : \/ pages'[b] = pages[b] /\ (pages[b].record = r => Backed(pages[b], n))
                        \/ /\ pages'[b].record = r /\ pages'[b].list \in {"abilities", "terminateAbilities", "removed"}
                           /\ Backed(pages'[b], n)
  BY <1>6, <1>8, <1>9, <1>10
<1> QED BY <1>1, <1>2, <1>3, <1>8, <1>11, RecordStep

LEMMA StartAbilityStep ==
  ASSUME AppInv, NEW a \in Pages, NEW r \in AppRecords, StartAbility(a, r)
  PROVE AppInv'
<1> DEFINE old == apps[r]
           app == [old EXCEPT !.module = TRUE]
           e == <<"launch", a>>
           n == IF app.state = "CREATE" THEN app ELSE Sent(app, <<e>>)
           s == IF app.state = "CREATE" THEN "CREATE" ELSE "READY"
           page == [pages[a] EXCEPT !.list = "abilities", !.record = r, !.state = s]
<1>0. /\ old \in AppType /\ AppFits(old) /\ old.listed /\ pages[a] \in PageType
      /\ JointUser \/ old.module
  BY DEF AppInv, StartAbility, CheckAppRunningRecordIsExist
<1>2. apps' = [apps EXCEPT ![r] = n] /\ pages' = [pages EXCEPT ![a] = page]
  BY <1>0 DEF StartAbility, SetApp, LaunchAbility, PageType, AppInv
<1>20. /\ app \in AppType /\ app.listed /\ app.module
       /\ app.client = old.client /\ app.state = old.state /\ app.pending = old.pending
       /\ app.backgroundTimer = old.backgroundTimer /\ app.inbox = old.inbox
       /\ app.outbox = old.outbox /\ app.process = old.process /\ app.slow = old.slow
  BY <1>0 DEF AppType
<1>1. app \in AppType /\ AppFits(app) /\ app.listed /\ app.module /\ pages[a] \in PageType
  <2> HIDE DEF app
  <2>1. app.module => old.module \/ JointUser
    BY <1>0
  <2>2. AppFits(app)
    BY <1>0, <1>20, <2>1, UnmovedFits
  <2> QED BY <1>0, <1>20, <2>2
<1>3. e \in Commands /\ e[1] = "launch"
  BY MessageNames
<1> HIDE DEF app, e
<1>4. AppFits(Sent(app, <<e>>))
  BY <1>1, <1>3, ToldApp
<1>5. LET k == Sent(app, <<e>>) IN
      k \in AppType /\ k.listed = app.listed /\ k.slow = app.slow /\ k.pending = app.pending /\ k.state = app.state
  BY <1>1, <1>3, SentApp
<1>6. /\ n \in AppType /\ AppFits(n) /\ n.listed
      /\ n.slow = app.slow /\ n.pending = app.pending /\ n.state = app.state
  BY <1>1, <1>4, <1>5
<1>7. r \in 0..MaxAppRecords /\ s \in States /\ s # "FOREGROUND"
  BY AppConstants DEF AppRecords, States
<1> HIDE DEF n, s
<1>8. page \in PageType /\ page.list = "abilities" /\ page.record = r /\ page.state # "FOREGROUND"
  BY <1>1, <1>7 DEF PageType
<1> HIDE DEF page
<1>9. /\ pages' \in [Pages -> PageType] /\ pages'[a] = page
      /\ \A b \in Pages \ {a} : pages'[b] = pages[b]
  BY <1>2, <1>8, PageMoves
<1>10. Backed(page, n)
  BY <1>8 DEF Backed
<1>11. \A b \in Pages : pages[b].record = r => Backed(pages[b], n)
  BY <1>6, <1>20, StillBacked
<1>12. \A b \in Pages : \/ pages'[b] = pages[b] /\ (pages[b].record = r => Backed(pages[b], n))
                        \/ /\ pages'[b].record = r /\ pages'[b].list \in {"abilities", "terminateAbilities", "removed"}
                           /\ Backed(pages'[b], n)
  BY <1>8, <1>9, <1>10, <1>11
<1> QED BY <1>2, <1>6, <1>9, <1>12, RecordStep

LEMMA LoadAbilityStep ==
  ASSUME AppInv, NEW a \in Pages, LoadAbility(a)
  PROVE AppInv'
<1>1. pages[a].list = "none" /\ \E r \in AppRecords : CreateAppRunningRecord(a, r) \/ StartAbility(a, r)
  BY DEF LoadAbility
<1> QED BY <1>1, CreateAppRunningRecordStep, StartAbilityStep

\* A step that changes one ability on a list and its record.
LEMMA AbilityStep ==
  ASSUME AppInv, NEW a \in Pages, pages[a].list \in {"abilities", "terminateAbilities", "removed"},
         NEW n \in AppType, AppFits(n), n.listed, NEW page \in PageType,
         apps' = [apps EXCEPT ![pages[a].record] = n], pages' = [pages EXCEPT ![a] = page],
         \/ /\ page.record = pages[a].record /\ page.list \in {"abilities", "terminateAbilities", "removed"}
            /\ Backed(page, n)
         \/ page.record = 0 /\ page.list = "gone",
         \A b \in Pages \ {a} : pages[b].record = pages[a].record => Backed(pages[b], n)
  PROVE AppInv'
<1> DEFINE r == pages[a].record
<1>1. r \in AppRecords
  BY Listed
<1>2. /\ pages' \in [Pages -> PageType] /\ pages'[a] = page
      /\ \A b \in Pages \ {a} : pages'[b] = pages[b]
  BY PageMoves
<1>3. \A b \in Pages : \/ pages'[b] = pages[b] /\ (pages[b].record = r => Backed(pages[b], n))
                       \/ /\ pages'[b].record = r /\ pages'[b].list \in {"abilities", "terminateAbilities", "removed"}
                          /\ Backed(pages'[b], n)
                       \/ pages'[b].record = 0 /\ pages'[b].list = "gone"
  BY <1>2
<1>4. apps' = [apps EXCEPT ![r] = n]
  OBVIOUS
<1> HIDE DEF r
<1> QED BY <1>1, <1>2, <1>3, <1>4, RecordStep

\* The same step when nothing of the ability changes.
LEMMA OnlyRecordStep ==
  ASSUME AppInv, NEW r \in AppRecords, NEW n \in AppType, AppFits(n), n.listed,
         apps' = [apps EXCEPT ![r] = n], pages' = pages,
         \A b \in Pages : pages[b].record = r => Backed(pages[b], n)
  PROVE AppInv'
<1>1. pages' \in [Pages -> PageType]
  BY DEF AppInv
<1> QED BY <1>1, RecordStep

LEMMA AbilityForegroundStep ==
  ASSUME AppInv, NEW a \in Pages, Running(a), AbilityForeground(a)
  PROVE AppInv'
<1> DEFINE app == RecordOf(a)
           r == pages[a].record
<1>1. /\ r \in AppRecords /\ pages[a] \in PageType /\ app \in AppType /\ AppFits(app) /\ app.listed
      /\ app = apps[r] /\ pages[a].list = "abilities"
  BY Listed DEF Running
<1>2. CASE /\ app.state = "FOREGROUND" /\ app.pending # "BACKGROUNDING"
           /\ pages' = [pages EXCEPT ![a].state = "FOREGROUND"]
           /\ UNCHANGED apps
  <2> DEFINE page == [pages[a] EXCEPT !.state = "FOREGROUND"]
  <2>1. page \in PageType /\ page.list = "abilities" /\ page.record = r
    BY <1>1 DEF PageType, States
  <2>2. pages' = [pages EXCEPT ![a] = page]
    BY <1>2
  <2> HIDE DEF page
  <2>3. app.pending \in {"READY", "FOREGROUNDING"}
    BY <1>1, <1>2, AppFields
  <2>4. Backed(page, app)
    BY <2>3, <1>2 DEF Backed
  <2>5. \A b \in Pages : pages[b].record = r => Backed(pages[b], app)
    BY <1>1, StillBacked
  <2>6. apps' = [apps EXCEPT ![r] = app]
    BY <1>1, <1>2 DEF AppInv
  <2> HIDE DEF app
  <2> QED BY <1>1, <2>1, <2>2, <2>4, <2>5, <2>6, AbilityStep
<1>3. CASE /\ app.state \in {"READY", "BACKGROUND"} \/ (app.state = "FOREGROUND" /\ app.pending = "BACKGROUNDING")
           /\ SetApp(r, AwaitForeground(app, a))
           /\ UNCHANGED pages
  <2> HIDE DEF app, r
  <2> DEFINE n == AwaitForeground(app, a)
  <2>1. n \in AppType /\ AppFits(n) /\ n.listed /\ n.pending = "FOREGROUNDING"
    BY <1>1, <1>3, AwaitForegroundApp
  <2>2. apps' = [apps EXCEPT ![r] = n] /\ pages' = pages
    BY <1>3 DEF SetApp
  <2> HIDE DEF n
  <2>3. \A b \in Pages : pages[b].record = r => Backed(pages[b], n)
    BY <2>1 DEF Backed
  <2> QED BY <1>1, <2>1, <2>2, <2>3, OnlyRecordStep
<1> QED BY <1>2, <1>3 DEF AbilityForeground

LEMMA AbilityBackgroundStep ==
  ASSUME AppInv, NEW a \in Pages, Running(a), AbilityBackground(a)
  PROVE AppInv'
<1> DEFINE app == RecordOf(a)
           r == pages[a].record
           others == AbilitiesOf(r) \ {a}
           page == [pages[a] EXCEPT !.state = "BACKGROUND"]
<1>1. /\ r \in AppRecords /\ pages[a] \in PageType /\ app \in AppType /\ AppFits(app) /\ app.listed
      /\ app = apps[r] /\ pages[a].list = "abilities"
  BY Listed DEF Running
<1>2. page \in PageType /\ page.list = "abilities" /\ page.record = r /\ page.state # "FOREGROUND"
  BY <1>1 DEF PageType, States
<1>3. pages' = [pages EXCEPT ![a] = page]
  BY DEF AbilityBackground
<1>4. /\ app.state = "FOREGROUND" /\ (\A b \in others : pages[b].state # "FOREGROUND") =>
           apps' = [apps EXCEPT ![r] = AwaitBackground(app)]
      /\ ~(app.state = "FOREGROUND" /\ (\A b \in others : pages[b].state # "FOREGROUND")) => apps' = apps
  BY DEF AbilityBackground, SetApp
<1> HIDE DEF page
<1>5. CASE app.state = "FOREGROUND" /\ \A b \in others : pages[b].state # "FOREGROUND"
  <2> DEFINE n == AwaitBackground(app)
  <2>1. \A b \in Pages \ {a} : pages[b].record = r => pages[b].list # "abilities" \/ pages[b].state # "FOREGROUND"
    BY <1>5 DEF AbilitiesOf, PagesOf
  <2> HIDE DEF app, r, others
  <2>2. n \in AppType /\ AppFits(n) /\ n.listed
    BY <1>1, <1>5, AwaitBackgroundApp
  <2>3. apps' = [apps EXCEPT ![r] = n]
    BY <1>4, <1>5
  <2> HIDE DEF n
  <2>4. \A b \in Pages \ {a} : pages[b].record = r => Backed(pages[b], n)
    BY <2>1 DEF Backed
  <2>5. Backed(page, n)
    BY <1>2 DEF Backed
  <2> QED BY <1>1, <1>2, <1>3, <2>2, <2>3, <2>4, <2>5, AbilityStep DEF r
<1>6. CASE ~(app.state = "FOREGROUND" /\ \A b \in others : pages[b].state # "FOREGROUND")
  <2> HIDE DEF others
  <2>1. apps' = [apps EXCEPT ![r] = app]
    BY <1>1, <1>4, <1>6 DEF AppInv
  <2>2. \A b \in Pages : pages[b].record = r => Backed(pages[b], app)
    BY <1>1, StillBacked
  <2>3. Backed(page, app)
    BY <1>2 DEF Backed
  <2> HIDE DEF app
  <2> QED BY <1>1, <1>2, <1>3, <2>1, <2>2, <2>3, AbilityStep
<1> QED BY <1>5, <1>6

\* A record that is terminating, or is so marked, fits as before.
Marked(app, mark) == [app EXCEPT !.terminating = mark]

LEMMA MarkedApp ==
  ASSUME NEW app \in AppType, AppFits(app), NEW mark \in BOOLEAN
  PROVE /\ Marked(app, mark) \in AppType /\ AppFits(Marked(app, mark))
        /\ Marked(app, mark).listed = app.listed
        /\ Marked(app, mark).module = app.module
        /\ Marked(app, mark).slow = app.slow
        /\ Marked(app, mark).pending = app.pending
        /\ Marked(app, mark).state = app.state
<1> DEFINE n == Marked(app, mark)
<1>1. /\ n \in AppType /\ n.listed = app.listed /\ n.client = app.client /\ n.state = app.state
      /\ n.pending = app.pending /\ n.module = app.module /\ n.inbox = app.inbox
      /\ n.backgroundTimer = app.backgroundTimer /\ n.outbox = app.outbox
      /\ n.process = app.process /\ n.slow = app.slow
  BY DEF Marked, AppType
<1> HIDE DEF n
<1>2. n.module => app.module
  BY <1>1
<1>3. AppFits(n)
  BY <1>1, <1>2, UnmovedFits
<1> QED BY <1>1, <1>3 DEF n

LEMMA PrepareTerminateStep ==
  ASSUME AppInv, NEW a \in Pages, PrepareTerminate(a)
  PROVE AppInv'
<1> DEFINE app == RecordOf(a)
           r == pages[a].record
           n == Marked(app, TRUE)
<1>1. /\ r \in AppRecords /\ app \in AppType /\ AppFits(app) /\ app.listed /\ app = apps[r]
  BY Listed DEF PrepareTerminate, Running
<1>2. apps' = [apps EXCEPT ![r] = n] /\ pages' = pages
  BY DEF PrepareTerminate, SetApp, Marked
<1> HIDE DEF app
<1>3. /\ n \in AppType /\ AppFits(n) /\ n.listed
      /\ n.slow = app.slow /\ n.pending = app.pending /\ n.state = app.state
  BY <1>1, MarkedApp
<1> HIDE DEF n
<1>4. \A b \in Pages : pages[b].record = r => Backed(pages[b], n)
  BY <1>1, <1>3, StillBacked
<1> QED BY <1>1, <1>2, <1>3, <1>4, OnlyRecordStep

LEMMA ModuleTerminateAbilityStep ==
  ASSUME AppInv, NEW a \in Pages, Running(a), NEW app \in AppType, AppFits(app), app.listed,
         app.slow = RecordOf(a).slow, app.pending = RecordOf(a).pending, app.state = RecordOf(a).state,
         NEW force, ModuleTerminateAbility(a, app, force)
  PROVE AppInv'
<1> DEFINE r == pages[a].record
           e == <<"clean", a>>
<1>0. PICK clean \in BOOLEAN : clean = (force \/ pages[a].state = "BACKGROUND")
  OBVIOUS
<1> DEFINE page == [pages[a] EXCEPT !.list = "terminateAbilities", !.cleanTimer = clean, !.attachTimer = FALSE]
           n == IF clean THEN Sent(app, <<e>>) ELSE app
<1>1. r \in AppRecords /\ pages[a] \in PageType /\ RecordOf(a) = apps[r] /\ pages[a].list = "abilities"
  BY Listed DEF Running
<1>2. page \in PageType /\ page.list = "terminateAbilities" /\ page.record = r
  BY <1>0, <1>1 DEF PageType
<1>10. CASE RemoveAppRunningRecord(r)
  BY <1>1, <1>10, RemoveStep
<1>3. SUFFICES ASSUME pages' = [pages EXCEPT ![a] = page], apps' = [apps EXCEPT ![r] = n] PROVE AppInv'
  BY <1>0, <1>1, <1>10 DEF ModuleTerminateAbility, SetApp, AppInv, PageType
<1> HIDE DEF page
<1>4. e \in Commands /\ e[1] = "clean"
  BY MessageNames
<1> HIDE DEF e
<1>5. AppFits(Sent(app, <<e>>))
  BY <1>4, ToldApp
<1>6. LET k == Sent(app, <<e>>) IN
      k \in AppType /\ k.listed = app.listed /\ k.slow = app.slow /\ k.pending = app.pending /\ k.state = app.state
  BY <1>4, SentApp
<1>7. /\ n \in AppType /\ AppFits(n) /\ n.listed
      /\ n.slow = app.slow /\ n.pending = app.pending /\ n.state = app.state
  BY <1>5, <1>6
<1> HIDE DEF n
<1>8. \A b \in Pages : pages[b].record = r => Backed(pages[b], n)
  BY <1>1, <1>7, StillBacked
<1>9. Backed(page, n)
  BY <1>2 DEF Backed
<1> QED BY <1>1, <1>2, <1>3, <1>7, <1>8, <1>9, AbilityStep

LEMMA TerminateAbilityStep ==
  ASSUME AppInv, NEW a \in Pages, TerminateAbility(a)
  PROVE AppInv'
<1>1. Running(a)
  BY DEF TerminateAbility
<1>2. RecordOf(a) \in AppType /\ AppFits(RecordOf(a)) /\ RecordOf(a).listed
  BY <1>1, Listed DEF Running
<1>3. PICK mark \in BOOLEAN : mark = (RecordOf(a).terminating \/ IsLastAbility(a))
  OBVIOUS
<1> DEFINE app == Marked(RecordOf(a), mark)
<1>4. ModuleTerminateAbility(a, app, sceneBoard)
  BY <1>3 DEF TerminateAbility, Marked
<1>5. /\ app \in AppType /\ AppFits(app) /\ app.listed
      /\ app.slow = RecordOf(a).slow /\ app.pending = RecordOf(a).pending /\ app.state = RecordOf(a).state
  BY <1>2, MarkedApp
<1> HIDE DEF app
<1> QED BY <1>1, <1>4, <1>5, ModuleTerminateAbilityStep

LEMMA DelayKillAbilityStep ==
  ASSUME AppInv, NEW a \in Pages, DelayKillAbility(a)
  PROVE AppInv'
<1>1. Running(a) /\ ModuleTerminateAbility(a, RecordOf(a), TRUE)
  BY DEF DelayKillAbility
<1>2. RecordOf(a) \in AppType /\ AppFits(RecordOf(a)) /\ RecordOf(a).listed
  BY <1>1, Listed DEF Running
<1> QED BY <1>1, <1>2, ModuleTerminateAbilityStep

LEMMA HandleAbilityAttachTimeOutStep ==
  ASSUME AppInv, NEW a \in Pages, HandleAbilityAttachTimeOut(a)
  PROVE AppInv'
<1>3. PICK mark \in BOOLEAN : mark = (RecordOf(a).terminating \/ IsLastAbility(a))
  OBVIOUS
<1> DEFINE app == RecordOf(a)
           r == pages[a].record
           n == Marked(app, mark)
           page == [pages[a] EXCEPT !.attachTimer = TRUE]
<1>1. /\ r \in AppRecords /\ pages[a] \in PageType /\ app \in AppType /\ AppFits(app) /\ app.listed
      /\ app = apps[r] /\ pages[a].list = "abilities" /\ Backed(pages[a], app)
  BY Listed DEF HandleAbilityAttachTimeOut, Running
<1>2. apps' = [apps EXCEPT ![r] = n] /\ pages' = [pages EXCEPT ![a] = page]
  BY <1>3 DEF HandleAbilityAttachTimeOut, SetApp, Marked
<1>4. /\ page \in PageType /\ page.list = "abilities" /\ page.record = r /\ page.state = pages[a].state
  BY <1>1 DEF PageType
<1> HIDE DEF app, page
<1>5. /\ n \in AppType /\ AppFits(n) /\ n.listed
      /\ n.slow = app.slow /\ n.pending = app.pending /\ n.state = app.state
  BY <1>1, MarkedApp
<1> HIDE DEF n
<1>6. \A b \in Pages : pages[b].record = r => Backed(pages[b], n)
  BY <1>1, <1>5, StillBacked
<1>7. Backed(page, n)
  BY <1>1, <1>4, <1>5 DEF Backed
<1> QED BY <1>1, <1>2, <1>4, <1>5, <1>6, <1>7, AbilityStep

LEMMA AbilityTerminatedStep ==
  ASSUME AppInv, NEW a \in Pages, pages[a].list = "terminateAbilities",
         NEW app \in AppType, AppFits(app), app.listed,
         app.slow = RecordOf(a).slow, app.pending = RecordOf(a).pending, app.state = RecordOf(a).state,
         AbilityTerminated(a, app)
  PROVE AppInv'
<1> DEFINE r == pages[a].record
           last == AbilitiesOf(r) = {}
           l == [[app EXCEPT !.module = FALSE] EXCEPT !.exitTimer = TRUE]
           e == <<"terminate">>
           n == IF last THEN Sent(l, <<e>>) ELSE app
<1>1. r \in AppRecords /\ RecordOf(a) = apps[r]
  BY Listed
<1>2. /\ apps' = [apps EXCEPT ![r] = n]
      /\ pages' = [b \in Pages |-> IF b = a THEN GonePage
                                   ELSE IF last /\ pages[b].record = r THEN [pages[b] EXCEPT !.list = "removed"]
                                   ELSE pages[b]]
  BY DEF AbilityTerminated, ScheduleTerminate, RemoveModuleRecord, SetApp, Forgotten
<1>3. /\ l \in AppType /\ l.listed = app.listed /\ l.client = app.client /\ l.state = app.state
      /\ l.pending = app.pending /\ ~l.module /\ l.inbox = app.inbox
      /\ l.backgroundTimer = app.backgroundTimer /\ l.outbox = app.outbox
      /\ l.process = app.process /\ l.slow = app.slow
  BY DEF AppType
<1> HIDE DEF l, last
<1>4. AppFits(l)
  BY <1>3, UnmovedFits
<1>5. e \in Commands /\ e[1] = "terminate"
  BY PlainNames
<1> HIDE DEF e
<1>6. AppFits(Sent(l, <<e>>))
  BY <1>3, <1>4, <1>5, ToldApp
<1>7. LET k == Sent(l, <<e>>) IN
      k \in AppType /\ k.listed = l.listed /\ k.slow = l.slow /\ k.pending = l.pending /\ k.state = l.state
  BY <1>3, <1>5, SentApp, ZenonT(60)
<1>8. /\ n \in AppType /\ AppFits(n) /\ n.listed
      /\ n.slow = app.slow /\ n.pending = app.pending /\ n.state = app.state
  BY <1>3, <1>6, <1>7
<1> HIDE DEF n
<1>9. \A b \in Pages : pages[b].record = r => Backed(pages[b], n)
  BY <1>1, <1>8, StillBacked
<1>10. GonePage \in PageType /\ GonePage.record = 0 /\ GonePage.list = "gone"
  BY PageRecords
<1>11. \A b \in Pages : LET page == [pages[b] EXCEPT !.list = "removed"] IN
         page \in PageType /\ page.list = "removed" /\ page.record = pages[b].record /\ Backed(page, n)
  BY DEF AppInv, PageType, Backed
<1>12. pages' \in [Pages -> PageType]
  BY <1>2, <1>10, <1>11 DEF AppInv
<1>13. ASSUME NEW b \in Pages
       PROVE \/ pages'[b] = pages[b] /\ (pages[b].record = r => Backed(pages[b], n))
             \/ /\ pages'[b].record = r /\ pages'[b].list \in {"abilities", "terminateAbilities", "removed"}
                /\ Backed(pages'[b], n)
             \/ pages'[b].record = 0 /\ pages'[b].list = "gone"
  BY <1>2, <1>9, <1>10, <1>11
<1>14. apps' = [apps EXCEPT ![r] = n]
  BY <1>2
<1> HIDE DEF r
<1> QED BY <1>1, <1>8, <1>12, <1>13, <1>14, RecordStep

LEMMA HandleTerminateTimeOutStep ==
  ASSUME AppInv, NEW a \in Pages, HandleTerminateTimeOut(a)
  PROVE AppInv'
<1>1. pages[a].list = "terminateAbilities" /\ AbilityTerminated(a, RecordOf(a))
  BY DEF HandleTerminateTimeOut, Terminating
<1>2. RecordOf(a) \in AppType /\ AppFits(RecordOf(a)) /\ RecordOf(a).listed
  BY <1>1, Listed
<1> QED BY <1>1, <1>2, AbilityTerminatedStep

\* A record that has a process, a timer of the background or messages under way is in the map.
LEMMA IsListed ==
  ASSUME AppInv, NEW r \in AppRecords,
         \/ apps[r].process # "dead" \/ apps[r].backgroundTimer
         \/ apps[r].inbox # <<>> \/ apps[r].outbox # <<>>
  PROVE apps[r] \in AppType /\ AppFits(apps[r]) /\ apps[r].listed
<1>1. apps[r] \in AppType /\ AppFits(apps[r]) /\ ListedFits(apps[r])
  BY DEF AppInv
<1> QED BY <1>1 DEF AppFits, ClientFits, ListedFits

LEMMA BackgroundTimeoutStep ==
  ASSUME AppInv, NEW r \in AppRecords, BackgroundTimeout(r)
  PROVE AppInv'
<1> DEFINE app == apps[r]
           m == [app EXCEPT !.backgroundTimer = FALSE, !.slow = @ + 1]
           n == Backgrounded(m)
<1>1. app \in AppType /\ AppFits(app) /\ app.listed /\ app.backgroundTimer /\ app.slow < MaxSlow
  BY IsListed DEF BackgroundTimeout
<1>2. app.slow + 1 \in 0..MaxSlow /\ app.slow + 1 # 0
  BY <1>1, AppFields, AppConstants
<1>3. /\ m \in AppType /\ m.listed = app.listed /\ m.client = app.client /\ m.state = app.state
      /\ m.pending = app.pending /\ m.module = app.module /\ m.inbox = app.inbox
      /\ ~m.backgroundTimer /\ m.outbox = app.outbox
      /\ m.process = app.process /\ m.slow = app.slow + 1
  BY <1>1, <1>2 DEF AppType
<1>4. app.client
  BY <1>1 DEF AppFits, ClientFits
<1>5. apps' = [apps EXCEPT ![r] = n] /\ pages' = pages
  BY DEF BackgroundTimeout, ApplicationBackgrounded, SetApp, Backgrounded, BackgroundedNext,
         ScheduleForegroundRunning
<1> HIDE DEF app, m
<1>6. /\ n \in AppType /\ n.listed = m.listed /\ n.client = m.client
      /\ n.state = (IF m.state = "FOREGROUND" THEN "BACKGROUND" ELSE m.state)
      /\ n.module = m.module /\ n.outbox = m.outbox /\ n.process = m.process /\ n.slow = m.slow
      /\ n.backgroundTimer = m.backgroundTimer
      /\ \/ m.pending # "FOREGROUNDING" /\ n.pending = "READY" /\ n.inbox = m.inbox
         \/ /\ m.pending = "FOREGROUNDING" /\ n.pending = "FOREGROUNDING"
            /\ n.inbox = m.inbox \o <<<<"foreground">>>>
  BY <1>3, <1>4, BackgroundedRecord
<1> HIDE DEF n
<1>7. ~n.backgroundTimer /\ n.slow # 0
  BY <1>2, <1>3, <1>6
<1>8. AppFits(n)
  BY <1>1, <1>3, <1>6, <1>7, TimeoutFits
<1>9. \A b \in Pages : pages[b].record = r => Backed(pages[b], n)
  BY <1>7 DEF Backed
<1>10. n.listed
  BY <1>1, <1>3, <1>6
<1> QED BY <1>5, <1>6, <1>8, <1>9, <1>10, OnlyRecordStep

LEMMA HandleCommandStep ==
  ASSUME AppInv, NEW r \in AppRecords, HandleCommand(r)
  PROVE AppInv'
<1> DEFINE app == apps[r]
           c == Head(app.inbox)
           i == Tail(app.inbox)
           o == app.outbox \o AnswerTo(c)
           p == Perform(app.process, c[1])
<1>0. PICK t \in BOOLEAN : t = (app.backgroundTimer /\ c[1] # "background")
  OBVIOUS
<1> DEFINE n == [app EXCEPT !.inbox = i, !.outbox = o, !.process = p, !.backgroundTimer = t]
<1>1. /\ app \in AppType /\ AppFits(app) /\ app.listed
      /\ app.inbox # <<>> /\ app.process \notin {"dead", "TERMINATED"}
  BY IsListed DEF HandleCommand
<1>2. apps' = [apps EXCEPT ![r] = n] /\ pages' = pages
  BY <1>0 DEF HandleCommand, SetApp
<1>3. i \in Seq(Commands) /\ c \in Commands /\ app.process \in Processes /\ app.outbox \in Seq(Answers)
  BY <1>1, AppFields, TakenCommand
<1>4. p \in Processes
  BY <1>3, CommandKinds DEF Processes, States
<1>5. AnswerTo(c) \in Seq(Answers)
  <2> HIDE DEF c, i, p, app
  <2>1. \/ AnswerTo(c) = <<>> \/ AnswerTo(c) = <<<<"foregrounded">>>>
        \/ AnswerTo(c) = <<<<"backgrounded">>>> \/ AnswerTo(c) = <<<<"terminated">>>>
        \/ \E a \in Pages : AnswerTo(c) = <<<<"cleaned", a>>>>
    BY <1>3, CommandKinds
  <2>2. ASSUME NEW e \in Answers, AnswerTo(c) = <<e>> PROVE AnswerTo(c) \in Seq(Answers)
    <3>1. <<e>> \in Seq(Answers)
      OBVIOUS
    <3> QED BY <3>1, <2>2
  <2>3. CASE AnswerTo(c) = <<>>
    <3>1. <<>> \in Seq(Answers)
      OBVIOUS
    <3> QED BY <3>1, <2>3
  <2>4. CASE \E a \in Pages : AnswerTo(c) = <<<<"cleaned", a>>>>
    <3>1. PICK a \in Pages : AnswerTo(c) = <<<<"cleaned", a>>>>
      BY <2>4
    <3>2. <<"cleaned", a>> \in Answers
      BY MessageNames
    <3> QED BY <3>1, <3>2, <2>2
  <2>5. /\ <<"foregrounded">> \in Answers /\ <<"backgrounded">> \in Answers
        /\ <<"terminated">> \in Answers
    BY PlainNames
  <2> QED BY <2>1, <2>2, <2>3, <2>4, <2>5
<1>6. o \in Seq(Answers)
  BY <1>3, <1>5
<1> HIDE DEF i, o, p
<1>7. /\ n \in AppType /\ n.listed = app.listed /\ n.client = app.client /\ n.state = app.state
      /\ n.pending = app.pending /\ n.module = app.module /\ n.inbox = i
      /\ n.backgroundTimer = t /\ n.outbox = o /\ n.process = p /\ n.slow = app.slow
  BY <1>1, <1>3, <1>4, <1>6 DEF AppType
<1> HIDE DEF n
<1>8. n.backgroundTimer => app.backgroundTimer /\ c[1] # "background"
  BY <1>0, <1>7
<1>9. AppFits(n)
  BY <1>1, <1>7, <1>8, CommandFits DEF i, o, p
<1>10. \A b \in Pages : pages[b].record = r => Backed(pages[b], n)
  BY <1>7, StillBacked
<1> QED BY <1>1, <1>2, <1>7, <1>9, <1>10, OnlyRecordStep

LEMMA AppProcessDiesStep ==
  ASSUME AppInv, NEW r \in AppRecords, AppProcessDies(r)
  PROVE AppInv'
<1> DEFINE app == apps[r]
           n == [app EXCEPT !.process = "dead", !.inbox = <<>>, !.notice = app.client]
<1>1. app \in AppType /\ AppFits(app) /\ app.listed
  BY IsListed DEF AppProcessDies
<1>2. apps' = [apps EXCEPT ![r] = n] /\ pages' = pages
  BY DEF AppProcessDies, SetApp
<1>3. <<>> \in Seq(Commands) /\ app.client \in BOOLEAN /\ "dead" \in Processes
  BY <1>1, AppFields DEF Processes
<1>4. /\ n \in AppType /\ n.listed = app.listed /\ n.client = app.client /\ n.state = app.state
      /\ n.pending = app.pending /\ n.module = app.module /\ n.inbox = <<>>
      /\ n.backgroundTimer = app.backgroundTimer /\ n.outbox = app.outbox
      /\ n.process = "dead" /\ n.slow = app.slow
  BY <1>1, <1>3 DEF AppType
<1> HIDE DEF n
<1>5. AppFits(n)
  BY <1>1, <1>4, DiesFits
<1>6. \A b \in Pages : pages[b].record = r => Backed(pages[b], n)
  BY <1>4, StillBacked
<1> QED BY <1>1, <1>2, <1>4, <1>5, <1>6, OnlyRecordStep

LEMMA ApplicationForegroundedStep ==
  ASSUME AppInv, NEW r \in AppRecords, apps[r].outbox # <<>>,
         Head(apps[r].outbox)[1] = "foregrounded", ApplicationForegrounded(r, Taken(apps[r]))
  PROVE AppInv'
<1> DEFINE app == apps[r]
           n == Foregrounded(Taken(app))
           shown(a) == a \in app.tokens /\ pages[a].record = r /\ pages[a].list = "abilities"
<1>1. app \in AppType /\ AppFits(app) /\ app.listed
  BY IsListed
<1>2. apps' = [apps EXCEPT ![r] = n]
  BY DEF ApplicationForegrounded, SetApp, Foregrounded, ForegroundedNext, ScheduleBackgroundRunning
<1>3. /\ n \in AppType /\ AppFits(n) /\ n.listed = app.listed /\ n.slow = app.slow
      /\ app.slow = 0 => n.state = "FOREGROUND" /\ n.pending = "READY"
  BY <1>1, ForegroundedApp
<1>4. pages' = [a \in Pages |-> IF shown(a) THEN [pages[a] EXCEPT !.state = "FOREGROUND"] ELSE pages[a]]
  BY DEF ApplicationForegrounded, PopForegroundingAbilityTokens, AbilitiesOf, PagesOf
<1> HIDE DEF n
<1>5. \A a \in Pages : LET page == [pages[a] EXCEPT !.state = "FOREGROUND"] IN
        page \in PageType /\ page.list = pages[a].list /\ page.record = pages[a].record
  BY DEF AppInv, PageType, States
<1>6. pages' \in [Pages -> PageType]
  BY <1>4, <1>5 DEF AppInv
<1>7. \A page : Backed(page, n)
  BY <1>3 DEF Backed
<1>8. \A a \in Pages : \/ pages'[a] = pages[a]
                       \/ pages'[a].record = r /\ pages'[a].list = "abilities"
  BY <1>4, <1>5
<1>9. \A a \in Pages : \/ pages'[a] = pages[a] /\ (pages[a].record = r => Backed(pages[a], n))
                       \/ /\ pages'[a].record = r /\ pages'[a].list \in {"abilities", "terminateAbilities", "removed"}
                          /\ Backed(pages'[a], n)
  BY <1>7, <1>8
<1>10. n.listed
  BY <1>1, <1>3
<1> QED BY <1>2, <1>3, <1>6, <1>9, <1>10, RecordStep

LEMMA ApplicationBackgroundedStep ==
  ASSUME AppInv, NEW r \in AppRecords, apps[r].outbox # <<>>,
         Head(apps[r].outbox)[1] = "backgrounded", ApplicationBackgrounded(r, Taken(apps[r]))
  PROVE AppInv'
<1> DEFINE app == apps[r]
           n == Backgrounded(Taken(app))
<1>1. app \in AppType /\ AppFits(app) /\ app.listed
  BY IsListed
<1>2. apps' = [apps EXCEPT ![r] = n] /\ pages' = pages
  BY DEF ApplicationBackgrounded, SetApp, Backgrounded, BackgroundedNext, ScheduleForegroundRunning
<1>3. /\ n \in AppType /\ AppFits(n) /\ n.listed = app.listed /\ n.slow = app.slow
      /\ app.slow = 0 => app.pending # "READY" /\
           (app.pending = "FOREGROUNDING" => n.pending = "FOREGROUNDING")
  BY <1>1, BackgroundedApp
<1> HIDE DEF n
<1>4. ASSUME NEW b \in Pages, pages[b].record = r PROVE Backed(pages[b], n)
  <2>1. Backed(pages[b], app)
    BY <1>1, <1>4, StillBacked
  <2> QED BY <2>1, <1>3 DEF Backed
<1>5. n.listed
  BY <1>1, <1>3
<1> QED BY <1>2, <1>3, <1>4, <1>5, OnlyRecordStep

LEMMA HandleAnswerStep ==
  ASSUME AppInv, NEW r \in AppRecords, HandleAnswer(r)
  PROVE AppInv'
<1> DEFINE app == apps[r]
           answer == Head(app.outbox)
           m == Taken(app)
<1>1. app \in AppType /\ AppFits(app) /\ app.listed /\ app.outbox # <<>>
  BY IsListed DEF HandleAnswer
<1>2. /\ m \in AppType /\ m.outbox = Tail(app.outbox) /\ m.listed = app.listed
      /\ m.client = app.client /\ m.state = app.state /\ m.pending = app.pending
      /\ m.module = app.module /\ m.inbox = app.inbox
      /\ m.backgroundTimer = app.backgroundTimer /\ m.process = app.process /\ m.slow = app.slow
  BY <1>1, TakenRecord
<1>3. \/ answer[1] = "foregrounded" /\ ApplicationForegrounded(r, m)
      \/ answer[1] = "backgrounded" /\ ApplicationBackgrounded(r, m)
      \/ answer[1] = "terminated" /\ ApplicationTerminated(r, m)
      \/ /\ answer[1] = "cleaned"
         /\ IF Terminating(answer[2]) /\ pages[answer[2]].record = r
            THEN AbilityTerminated(answer[2], m)
            ELSE SetApp(r, m) /\ UNCHANGED pages
  BY DEF HandleAnswer, Taken
<1>4. answer[1] \in {"cleaned", "terminated"} => AppFits(m)
  BY <1>1, <1>2, OtherAnswerFits
<1>5. CASE answer[1] = "foregrounded" /\ ApplicationForegrounded(r, m)
  BY <1>1, <1>5, ApplicationForegroundedStep
<1>6. CASE answer[1] = "backgrounded" /\ ApplicationBackgrounded(r, m)
  BY <1>1, <1>6, ApplicationBackgroundedStep
<1>7. CASE answer[1] = "terminated" /\ ApplicationTerminated(r, m)
  <2> DEFINE n == [m EXCEPT !.exitTimer = FALSE]
  <2>1. CASE m.state = "BACKGROUND"
    BY <1>7, <2>1, RemoveStep DEF ApplicationTerminated
  <2>2. CASE m.state # "BACKGROUND"
    <3>1. apps' = [apps EXCEPT ![r] = n] /\ pages' = pages
      BY <1>7, <2>2 DEF ApplicationTerminated, SetApp
    <3> HIDE DEF m
    <3>2. /\ n \in AppType /\ n.listed = m.listed /\ n.client = m.client /\ n.state = m.state
          /\ n.pending = m.pending /\ n.module = m.module /\ n.inbox = m.inbox
          /\ n.backgroundTimer = m.backgroundTimer /\ n.outbox = m.outbox
          /\ n.process = m.process /\ n.slow = m.slow
      BY <1>2 DEF AppType
    <3> HIDE DEF n
    <3>3. n.module => m.module
      BY <3>2
    <3>4. AppFits(n)
      BY <1>2, <1>4, <1>7, <3>2, <3>3, UnmovedFits
    <3>5. \A b \in Pages : pages[b].record = r => Backed(pages[b], n)
      BY <1>2, <3>2, StillBacked
    <3>6. n.listed
      BY <1>1, <1>2, <3>2
    <3> QED BY <3>1, <3>2, <3>4, <3>5, <3>6, OnlyRecordStep
  <2> QED BY <2>1, <2>2
<1>8. CASE answer[1] = "cleaned" /\ SetApp(r, m) /\ UNCHANGED pages
  <2> HIDE DEF m
  <2>1. \A b \in Pages : pages[b].record = r => Backed(pages[b], m)
    BY <1>2, StillBacked
  <2>2. apps' = [apps EXCEPT ![r] = m] /\ pages' = pages /\ m.listed
    BY <1>1, <1>2, <1>8 DEF SetApp
  <2> QED BY <1>2, <1>4, <1>8, <2>1, <2>2, OnlyRecordStep
<1>9. CASE /\ answer[1] = "cleaned" /\ Terminating(answer[2]) /\ pages[answer[2]].record = r
           /\ AbilityTerminated(answer[2], m)
  <2>1. answer[2] \in Pages
    <3>1. answer \in Answers
      BY <1>1, AppFields
    <3> QED BY <3>1, <1>9 DEF Answers
  <2>2. PICK a \in Pages : a = answer[2]
    BY <2>1
  <2>3. /\ pages[a].list = "terminateAbilities" /\ RecordOf(a) = app /\ AbilityTerminated(a, m)
    BY <1>9, <2>2 DEF Terminating, RecordOf
  <2> HIDE DEF m
  <2> QED BY <1>1, <1>2, <1>4, <1>9, <2>3, AbilityTerminatedStep
<1> QED BY <1>3, <1>5, <1>6, <1>7, <1>8, <1>9

LEMMA AttachApplicationStep ==
  ASSUME AppInv, NEW r \in AppRecords, AttachApplication(r)
  PROVE AppInv'
<1> DEFINE app == apps[r]
           waiting == {a \in AbilitiesOf(r) : pages[a].state = "CREATE"}
<1>1. app \in AppType /\ AppFits(app) /\ app.listed /\ ~app.client /\ app.process # "dead"
  BY IsListed DEF AttachApplication
<1>2. waiting \subseteq Pages /\ \A a \in waiting : pages[a].record = r /\ pages[a].list = "abilities"
  BY DEF AbilitiesOf, PagesOf
<1>3. Cardinality(waiting) \in Nat
  BY <1>2, AppConstants, FS_Subset, FS_CardinalityType
<1>4. PICK order \in [1..Cardinality(waiting) -> waiting] :
        apps' = [apps EXCEPT ![r] = LaunchApplication([app EXCEPT !.client = TRUE], order)]
  BY DEF AttachApplication, SetApp, SetToSeqs
<1> DEFINE k == Cardinality(waiting)
           l == [i \in DOMAIN order |-> <<"launch", order[i]>>]
           first == <<<<"application">>>>
           inbox == first \o l
           n == LaunchApplication([app EXCEPT !.client = TRUE], order)
<1>5. k \in Nat /\ DOMAIN order = 1..k /\ \A i \in 1..k : order[i] \in Pages
  BY <1>2, <1>3, <1>4
<1>6. l \in Seq(Commands) /\ \A i \in DOMAIN l : l[i][1] = "launch"
  <2> HIDE DEF k
  <2>1. l = [i \in 1..k |-> <<"launch", order[i]>>]
    BY <1>5
  <2>2. \A i \in 1..k : <<"launch", order[i]>> \in Commands /\ <<"launch", order[i]>>[1] = "launch"
    BY <1>5, MessageNames
  <2>3. l \in [1..k -> Commands]
    BY <2>1, <2>2
  <2>4. DOMAIN l = 1..k /\ \A i \in 1..k : l[i] = <<"launch", order[i]>>
    BY <2>1
  <2> HIDE DEF l
  <2>5. l \in Seq(Commands)
    BY <2>3, <1>5
  <2> QED BY <2>2, <2>4, <2>5
<1>7. inbox \in Seq(Commands)
  <2> HIDE DEF l
  <2>1. first \in Seq(Commands)
    BY PlainNames
  <2> HIDE DEF first
  <2> QED BY <2>1, <1>6
<1>8. n = [[[app EXCEPT !.client = TRUE] EXCEPT !.state = "READY", !.inbox = first] EXCEPT !.inbox = inbox]
  BY <1>1 DEF LaunchApplication, LaunchPendingAbilities, AppType
<1> HIDE DEF inbox, n
<1>9. /\ n \in AppType /\ n.listed = app.listed /\ n.client /\ n.state = "READY"
      /\ n.pending = app.pending /\ n.module = app.module /\ n.inbox = inbox
      /\ n.backgroundTimer = app.backgroundTimer /\ n.outbox = app.outbox
      /\ n.process = app.process /\ n.slow = app.slow
  BY <1>1, <1>7, <1>8 DEF AppType, States
<1>10. n.inbox = <<<<"application">>>> \o l
  BY <1>9 DEF inbox
<1> HIDE DEF l, first, k
<1>11. AppFits(n)
  BY <1>1, <1>6, <1>9, <1>10, AttachFits
<1>12. pages' = [a \in Pages |-> IF a \in waiting THEN [pages[a] EXCEPT !.state = "READY"] ELSE pages[a]]
  BY DEF AttachApplication
<1>13. \A a \in Pages : LET page == [pages[a] EXCEPT !.state = "READY"] IN
        page \in PageType /\ page.list = pages[a].list /\ page.record = pages[a].record /\ page.state = "READY"
  <2>1. pages \in [Pages -> PageType]
    BY DEF AppInv
  <2> SUFFICES ASSUME NEW a \in Pages
               PROVE LET page == [pages[a] EXCEPT !.state = "READY"] IN
                     page \in PageType /\ page.list = pages[a].list /\ page.record = pages[a].record
                     /\ page.state = "READY"
    OBVIOUS
  <2>2. pages[a] \in PageType
    BY <2>1
  <2> QED BY <2>2 DEF PageType, States
<1>14. pages' \in [Pages -> PageType]
  BY <1>12, <1>13 DEF AppInv
<1>15. ASSUME NEW a \in Pages, pages[a].record = r PROVE Backed(pages[a], n)
  <2>1. Backed(pages[a], app)
    BY <1>1, <1>15, StillBacked
  <2>2. app.state = "CREATE" /\ app.pending = "READY"
    BY <1>1 DEF AppFits, ClientFits
  <2> QED BY <2>1, <2>2, <1>9 DEF Backed
<1>16. ASSUME NEW a \in Pages
       PROVE \/ pages'[a] = pages[a] /\ (pages[a].record = r => Backed(pages[a], n))
             \/ /\ pages'[a].record = r /\ pages'[a].list \in {"abilities", "terminateAbilities", "removed"}
                /\ Backed(pages'[a], n)
  <2>1. CASE a \in waiting
    <3>1. pages'[a].record = r /\ pages'[a].list = "abilities" /\ pages'[a].state = "READY"
      BY <1>2, <1>12, <1>13, <2>1
    <3> QED BY <3>1 DEF Backed
  <2>2. CASE a \notin waiting
    BY <1>12, <1>15, <2>2
  <2> QED BY <2>1, <2>2
<1>17. apps' = [apps EXCEPT ![r] = n] /\ n.listed
  BY <1>1, <1>4, <1>9 DEF n
<1> QED BY <1>9, <1>11, <1>14, <1>16, <1>17, RecordStep

-----------------------------------------------------------------------------
(* The theorems. *)

LEMMA AppInvInit == AppInit => AppInv
<1> SUFFICES ASSUME AppInit PROVE AppInv
  OBVIOUS
<1>1. apps \in [AppRecords -> AppType] /\ \A r \in AppRecords : AppFits(apps[r]) /\ ListedFits(apps[r])
  BY NoAppFits DEF AppInit
<1>2. pages \in [Pages -> PageType] /\ \A a \in Pages : pages[a] = NoPage
  BY PageRecords DEF AppInit
<1>3. \A a \in Pages : PageFits(a)
  BY <1>2, PageRecords DEF PageFits, Backed
<1> QED BY <1>1, <1>2, <1>3 DEF AppInv

LEMMA AppInvNext == AppInv /\ [AppNext]_appVars => AppInv'
<1> SUFFICES ASSUME AppInv, [AppNext]_appVars PROVE AppInv'
  OBVIOUS
<1>1. ASSUME NEW a \in Pages, LoadAbility(a) PROVE AppInv'
  BY <1>1, LoadAbilityStep
<1>2. ASSUME NEW a \in Pages, UpdateAbilityState(a) PROVE AppInv'
  BY <1>2, AbilityForegroundStep, AbilityBackgroundStep DEF UpdateAbilityState
<1>3. ASSUME NEW a \in Pages, PrepareTerminate(a) PROVE AppInv'
  BY <1>3, PrepareTerminateStep
<1>4. ASSUME NEW a \in Pages, TerminateAbility(a) PROVE AppInv'
  BY <1>4, TerminateAbilityStep
<1>5. ASSUME NEW a \in Pages, HandleTerminateTimeOut(a) PROVE AppInv'
  BY <1>5, HandleTerminateTimeOutStep
<1>6. ASSUME NEW a \in Pages, HandleAbilityAttachTimeOut(a) PROVE AppInv'
  BY <1>6, HandleAbilityAttachTimeOutStep
<1>7. ASSUME NEW a \in Pages, DelayKillAbility(a) PROVE AppInv'
  BY <1>7, DelayKillAbilityStep
<1>8. ASSUME NEW r \in AppRecords, AttachApplication(r) PROVE AppInv'
  BY <1>8, AttachApplicationStep
<1>9. ASSUME NEW r \in AppRecords, HandleAnswer(r) PROVE AppInv'
  BY <1>9, HandleAnswerStep
<1>10. ASSUME NEW r \in AppRecords, BackgroundTimeout(r) PROVE AppInv'
  BY <1>10, BackgroundTimeoutStep
<1>11. ASSUME NEW r \in AppRecords, HandleTerminateApplicationTimeOut(r) PROVE AppInv'
  BY <1>11, RemoveStep DEF HandleTerminateApplicationTimeOut
<1>12. ASSUME NEW r \in AppRecords, HandleCommand(r) PROVE AppInv'
  BY <1>12, HandleCommandStep
<1>13. ASSUME NEW r \in AppRecords, AppProcessDies(r) PROVE AppInv'
  BY <1>13, AppProcessDiesStep
<1>14. ASSUME NEW r \in AppRecords, OnAppRemoteDied(r) PROVE AppInv'
  BY <1>14, RemoveStep DEF OnAppRemoteDied
<1>15. CASE UNCHANGED appVars
  BY <1>15 DEF appVars, AppInv, PageFits, RecordOf
<1> QED
  BY <1>1, <1>2, <1>3, <1>4, <1>5, <1>6, <1>7, <1>8, <1>9, <1>10, <1>11, <1>12, <1>13, <1>14, <1>15 DEF AppNext

\* The invariant above holds in every state.
LEMMA AppInvariant == AppSpec => []AppInv
BY AppInvInit, AppInvNext, PTL DEF AppSpec

\* The records of AppRunningManager, their queues and their counters have their types.
THEOREM AppRecordTypes == AppSpec => []AppTypes
<1>1. AppInv => AppTypes
  BY ZenonT(60) DEF AppInv, AppTypes, AppType, PageType, States, Processes, Commands, Answers
<1> QED BY <1>1, AppInvariant, PTL

\* No ability is launched in a process that was told to end by ScheduleTerminate.
THEOREM LaunchesBeforeEnd == AppSpec => []AppLaunchBeforeEnd
<1>1. AppInv => AppLaunchBeforeEnd
  BY DEF AppInv, AppFits, EndFits, LaunchesFirst, AppLaunchBeforeEnd
<1> QED BY <1>1, AppInvariant, PTL

\* When every command was handled and every answer taken, ApplicationForegrounded and
\* ApplicationBackgrounded have left the record with the state of its process and nothing
\* pending, however many timers of the background have fired in between.
THEOREM QuietIsSettled == AppSpec => []AppSettled
<1>1. ASSUME AppInv, NEW r \in AppRecords, Quiet(apps[r])
      PROVE apps[r].pending = "READY" /\ apps[r].state = apps[r].process
  <2>1. ClientFits(apps[r]) /\ SettlesFits(apps[r])
    BY <1>1 DEF AppInv, AppFits
  <2>2. Alive(apps[r]) /\ apps[r].inbox = <<>> /\ apps[r].outbox = <<>>
    BY <1>1 DEF Quiet, Alive
  <2>3. ~Turning(<<>>) /\ ~Turned(<<>>)
    BY DEF Turning, Turned, Has
  <2>4. apps[r].process # "CREATE"
    BY <2>1, <2>2 DEF ClientFits, Alive
  <2> QED BY <2>1, <2>2, <2>3, <2>4 DEF SettlesFits
<1>2. AppInv => AppSettled
  BY <1>1 DEF AppSettled
<1> QED BY <1>2, AppInvariant, PTL

\* While no answer was late, an ability is in the foreground only when its application is,
\* or is on the way: AbilityBackground counts the abilities that are in the foreground.
THEOREM ForegroundIsBacked == AppSpec => []AppForegroundBacked
<1>1. AppInv => AppForegroundBacked
  BY DEF AppInv, PageFits, Backed, Running, AppForegroundBacked
<1> QED BY <1>1, AppInvariant, PTL

=============================================================================
