---------------------- MODULE UIAbilityLifecycleProofs ----------------------
(***************************************************************************)
(* Proofs about the UI ability life cycle manager, for any sessions, any   *)
(* number of ability records and any number of commands and tasks that     *)
(* wait.  Every step of the manager or of an application changes one       *)
(* record (the completion of a background transition also tells closed     *)
(* abilities to terminate), its place in the two containers and the tasks  *)
(* that are queued for it.  The inductive invariant is therefore a         *)
(* statement about one record and these three things, RecordFits.          *)
(***************************************************************************)
EXTENDS UIAbilityLifecycle, SequenceTheorems, TLAPS

Commands == {"foreground", "background", "terminate"}
TaskType == [kind : UITaskKinds, record : UIRecords]

\* The kinds of the tasks that are queued for r.
Kinds(r) == {k \in UITaskKinds : \E i \in DOMAIN uiTasks : uiTasks[i] = [kind |-> k, record |-> r]}

LastIs(u, command) == u.commands # <<>> /\ u.commands[Len(u.commands)] = command

\* An ability that is alive is in a container, or the application manager was told.
Accounted(u, mapped, closed) ==
  u.proc \in {"starting", "running"} => mapped \/ closed \/ u.told # {}

\* Nothing is known of a record that was not created yet.
UnusedFits(u, mapped, closed, kinds) ==
  u.proc = "none" => u = UnusedUI /\ ~mapped /\ ~closed /\ kinds = {}

\* A record in the session map is not being closed, was seen to attach, and its death
\* is on its way to the manager.
MappedFits(u, mapped, closed, kinds) ==
  mapped => /\ ~closed /\ ~u.terminating /\ u.state # "terminating" /\ "terminate" \notin u.told
            /\ u.proc = "running" => u.ready /\ u.watched
            /\ u.proc = "dead" => "died" \in kinds

\* What resolves the pending state of a record, sooner or later.
Resolving(u, kinds) ==
  \/ "load" \in u.timers
  \/ u.asked
  \/ "died" \in kinds
  \/ "foregrounded" \in kinds
  \/ /\ u.state = "foregrounding"
     /\ \/ "failed" \in kinds
        \/ "foreground" \in u.timers
        \/ LastIs(u, "foreground")
        \/ u.commands = <<>> /\ u.window = "showing"
  \/ /\ u.state = "backgrounding"
     /\ "backgrounded" \in kinds \/ "background" \in u.timers

PendingFits(u, mapped, kinds) ==
  mapped => \/ u.pending = "initial" \/ u.refused \/ u.closeAsked
            \/ Resolving(u, kinds)

\* What the application will have done when it has handled its commands is not to show
\* itself in the foreground.
Settling(u) ==
  /\ u.commands = <<>> => ~(u.impl = "foreground" /\ u.window = "shown")
  /\ ~LastIs(u, "foreground")

BackgroundFits(u, kinds) ==
  /\ u.proc \in {"none", "starting"} => ~u.ready
  /\ ~u.ready \/ u.proc = "dead" => u.commands = <<>> /\ u.impl = "initial" /\ u.window = "hidden"
  /\ u.state \in {"backgrounding", "background"} /\ ~u.refused => Settling(u)
  /\ "freezed" \in kinds => u.refused

RecordFits(u, mapped, closed, kinds) ==
  /\ Accounted(u, mapped, closed)
  /\ UnusedFits(u, mapped, closed, kinds)
  /\ MappedFits(u, mapped, closed, kinds)
  /\ PendingFits(u, mapped, kinds)
  /\ BackgroundFits(u, kinds)

\* The inductive invariant.
UIInv ==
  /\ UITypes
  /\ \A r \in UIRecords : RecordFits(uis[r], InMap(r), r \in terminateList, Kinds(r))

-----------------------------------------------------------------------------
\* A command that is sent is the last one.
LEMMA AppendLast ==
  ASSUME NEW S, NEW s \in Seq(S), NEW e \in S
  PROVE  /\ Append(s, e) \in Seq(S)
         /\ Append(s, e) # <<>>
         /\ Append(s, e)[Len(Append(s, e))] = e
OBVIOUS

\* Handling a command leaves the last one last, unless it was the only one.
LEMMA TailLast ==
  ASSUME NEW S, NEW s \in Seq(S), s # <<>>
  PROVE  /\ Tail(s) \in Seq(S)
         /\ Head(s) \in S
         /\ Tail(s) # <<>> => Tail(s)[Len(Tail(s))] = s[Len(s)]
         /\ Tail(s) = <<>> => Head(s) = s[Len(s)]
<1>1. Len(s) \in Nat \ {0} /\ DOMAIN s = 1..Len(s) /\ Head(s) = s[1]
  OBVIOUS
<1>2. /\ Tail(s) \in Seq(S) /\ Len(Tail(s)) = Len(s) - 1
      /\ \A i \in 1..(Len(s) - 1) : Tail(s)[i] = s[i + 1]
  OBVIOUS
<1>3. CASE Len(s) = 1
  <2>1. Tail(s) = <<>>
    <3>1. Len(Tail(s)) = 0
      BY <1>2, <1>3
    <3>2. Tail(s) # <<>> => Len(Tail(s)) \in Nat \ {0}
      BY <1>2, EmptySeq
    <3> QED
      BY <3>1, <3>2
  <2> QED
    BY <1>1, <1>2, <1>3, <2>1
<1>4. CASE Len(s) # 1
  <2>1. Tail(s) # <<>> /\ Tail(s)[Len(s) - 1] = s[Len(s)]
    <3>1. Len(Tail(s)) # 0
      BY <1>1, <1>2, <1>4
    <3> QED
      BY <1>1, <1>2, <1>4, <3>1, EmptySeq
  <2> QED
    BY <1>1, <1>2, <2>1
<1> QED
  BY <1>3, <1>4

\* The queue after a task was posted for r.
LEMMA PostedKinds ==
  ASSUME UITypes, NEW r \in UIRecords, NEW kind \in UITaskKinds, PostUI(kind, r)
  PROVE  /\ uiTasks' \in Seq(TaskType)
         /\ Kinds(r)' = Kinds(r) \cup {kind}
         /\ \A q \in UIRecords \ {r} : Kinds(q)' = Kinds(q)
<1> DEFINE e == [kind |-> kind, record |-> r]
<1>1. uiTasks \in Seq(TaskType) /\ e \in TaskType /\ uiTasks' = Append(uiTasks, e)
  BY DEF UITypes, PostUI, TaskType
<1> HIDE DEF e
<1>2. /\ uiTasks' \in Seq(TaskType)
      /\ DOMAIN uiTasks' = 1..(Len(uiTasks) + 1) /\ DOMAIN uiTasks = 1..Len(uiTasks)
      /\ uiTasks'[Len(uiTasks) + 1] = e
      /\ \A i \in 1..Len(uiTasks) : uiTasks'[i] = uiTasks[i]
      /\ Len(uiTasks) \in Nat
  BY <1>1
<1>3. \A q \in UIRecords, k \in UITaskKinds :
         k \in Kinds(q)' <=> k \in Kinds(q) \/ e = [kind |-> k, record |-> q]
  BY <1>2 DEF Kinds
<1>4. \A q \in UIRecords, k \in UITaskKinds :
         e = [kind |-> k, record |-> q] <=> q = r /\ k = kind
  BY DEF e
<1>5. \A q \in UIRecords : Kinds(q) \subseteq UITaskKinds /\ Kinds(q)' \subseteq UITaskKinds
  BY DEF Kinds
<1>6. Kinds(r)' = Kinds(r) \cup {kind}
  <2>1. \A k \in UITaskKinds : k \in Kinds(r)' <=> k \in Kinds(r) \cup {kind}
    BY <1>3, <1>4
  <2> QED
    BY <1>5, <2>1
<1>7. ASSUME NEW q \in UIRecords \ {r} PROVE Kinds(q)' = Kinds(q)
  <2>1. \A k \in UITaskKinds : k \in Kinds(q)' <=> k \in Kinds(q)
    BY <1>3, <1>4
  <2> QED
    BY <1>5, <2>1
<1> QED
  BY <1>2, <1>6, <1>7

\* The queue after its first task was taken: only the kinds of its record may lose one.
LEMMA TakenKinds ==
  ASSUME UITypes, uiTasks # <<>>
  PROVE  /\ Head(uiTasks) \in TaskType
         /\ Tail(uiTasks) \in Seq(TaskType)
         /\ \A q \in UIRecords, k \in UITaskKinds :
              LET there(s) == \E i \in DOMAIN s : s[i] = [kind |-> k, record |-> q]
              IN  /\ there(Tail(uiTasks)) => there(uiTasks)
                  /\ there(uiTasks) => \/ there(Tail(uiTasks))
                                       \/ q = Head(uiTasks).record /\ k = Head(uiTasks).kind
<1>1. uiTasks \in Seq(TaskType)
  BY DEF UITypes, TaskType
<1>2. /\ Head(uiTasks) \in TaskType
      /\ Tail(uiTasks) \in Seq(TaskType)
      /\ Len(uiTasks) \in Nat \ {0}
      /\ DOMAIN uiTasks = 1..Len(uiTasks) /\ DOMAIN Tail(uiTasks) = 1..(Len(uiTasks) - 1)
      /\ Head(uiTasks) = uiTasks[1]
      /\ \A i \in 1..(Len(uiTasks) - 1) : Tail(uiTasks)[i] = uiTasks[i + 1]
  BY <1>1
<1> SUFFICES ASSUME NEW q \in UIRecords, NEW k \in UITaskKinds
             PROVE  LET there(s) == \E i \in DOMAIN s : s[i] = [kind |-> k, record |-> q]
                    IN  /\ there(Tail(uiTasks)) => there(uiTasks)
                        /\ there(uiTasks) => \/ there(Tail(uiTasks))
                                             \/ q = Head(uiTasks).record /\ k = Head(uiTasks).kind
  BY <1>2
<1> DEFINE e == [kind |-> k, record |-> q]
<1>3. e.kind = k /\ e.record = q
  OBVIOUS
<1> HIDE DEF e
<1>4. ASSUME NEW i \in DOMAIN Tail(uiTasks), Tail(uiTasks)[i] = e
      PROVE  \E j \in DOMAIN uiTasks : uiTasks[j] = e
  BY <1>2, <1>4
<1>5. ASSUME NEW i \in DOMAIN uiTasks, uiTasks[i] = e
      PROVE  \/ \E j \in DOMAIN Tail(uiTasks) : Tail(uiTasks)[j] = e
             \/ q = Head(uiTasks).record /\ k = Head(uiTasks).kind
  <2>1. CASE i = 1
    BY <1>2, <1>3, <1>5, <2>1
  <2>2. CASE i # 1
    <3>1. i - 1 \in DOMAIN Tail(uiTasks) /\ Tail(uiTasks)[i - 1] = e
      BY <1>2, <1>5, <2>2
    <3> QED
      BY <3>1
  <2> QED
    BY <2>1, <2>2
<1> QED
  BY <1>4, <1>5 DEF e

-----------------------------------------------------------------------------
(* What a step has to show: that the record it is about fits its new place. *)

\* RecordFits depends only on the record, its place and its tasks.
LEMMA SameFit ==
  ASSUME NEW u, NEW m, NEW c, NEW k, NEW m1, NEW c1, RecordFits(u, m, c, k),
         m1 <=> m, c1 <=> c
  PROVE  RecordFits(u, m1, c1, k)
BY DEF RecordFits, Accounted, UnusedFits, MappedFits, PendingFits

LEMMA OneMoves ==
  ASSUME UIInv, NEW r \in UIRecords, NEW x \in UIRecordType, SetUI(r, x),
         sessionMap' \in [UISessions -> UIRecords \cup {NoUI}],
         terminateList' \subseteq UIRecords,
         uiTasks' \in Seq(TaskType),
         \A q \in UIRecords \ {r} : /\ InMap(q)' <=> InMap(q)
                                    /\ q \in terminateList' <=> q \in terminateList
                                    /\ Kinds(q)' = Kinds(q),
         RecordFits(x, InMap(r)', r \in terminateList', Kinds(r)')
  PROVE  UIInv'
<1>1. uis \in [UIRecords -> UIRecordType]
  BY DEF UIInv, UITypes
<1>2. uis' \in [UIRecords -> UIRecordType] /\ uis'[r] = x
      /\ \A q \in UIRecords \ {r} : uis'[q] = uis[q]
  BY <1>1 DEF SetUI
<1>3. UITypes'
  BY <1>2 DEF UITypes, TaskType
<1>4. ASSUME NEW q \in UIRecords
      PROVE  RecordFits(uis'[q], InMap(q)', q \in terminateList', Kinds(q)')
  <2>1. CASE q = r
    BY <1>2, <2>1
  <2>2. CASE q # r
    <3>1. RecordFits(uis[q], InMap(q), q \in terminateList, Kinds(q))
      BY DEF UIInv
    <3>2. /\ uis'[q] = uis[q]
          /\ InMap(q)' <=> InMap(q)
          /\ q \in terminateList' <=> q \in terminateList
          /\ Kinds(q)' = Kinds(q)
      BY <1>2, <2>2
    <3> QED
      BY <3>1, <3>2 DEF RecordFits, Accounted, UnusedFits, MappedFits, PendingFits
  <2> QED
    BY <2>1, <2>2
<1> QED
  BY <1>3, <1>4 DEF UIInv

\* A step that leaves the record where it is.
LEMMA StaysPut ==
  ASSUME UIInv, NEW r \in UIRecords, NEW x \in UIRecordType, SetUI(r, x),
         UNCHANGED <<sessionMap, terminateList, uiTasks>>,
         RecordFits(x, InMap(r), r \in terminateList, Kinds(r))
  PROVE  UIInv'
<1>1. /\ sessionMap' \in [UISessions -> UIRecords \cup {NoUI}]
      /\ terminateList' \subseteq UIRecords
      /\ uiTasks' \in Seq(TaskType)
  BY DEF UIInv, UITypes, TaskType
<1>2. \A q \in UIRecords : /\ InMap(q)' <=> InMap(q)
                           /\ q \in terminateList' <=> q \in terminateList
                           /\ Kinds(q)' = Kinds(q)
  BY DEF InMap, Kinds
<1>3. RecordFits(x, InMap(r)', r \in terminateList', Kinds(r)')
  BY <1>2, SameFit
<1> QED
  BY <1>1, <1>2, <1>3, OneMoves

\* A step that posts a task for the record.
LEMMA PostsTask ==
  ASSUME UIInv, NEW r \in UIRecords, NEW x \in UIRecordType, SetUI(r, x),
         NEW kind \in UITaskKinds, PostUI(kind, r), UNCHANGED <<sessionMap, terminateList>>,
         RecordFits(x, InMap(r), r \in terminateList, Kinds(r) \cup {kind})
  PROVE  UIInv'
<1>1. /\ sessionMap' \in [UISessions -> UIRecords \cup {NoUI}]
      /\ terminateList' \subseteq UIRecords
  BY DEF UIInv, UITypes
<1>2. \A q \in UIRecords : /\ InMap(q)' <=> InMap(q)
                           /\ q \in terminateList' <=> q \in terminateList
  BY DEF InMap
<1>3. /\ uiTasks' \in Seq(TaskType)
      /\ Kinds(r)' = Kinds(r) \cup {kind}
      /\ \A q \in UIRecords \ {r} : Kinds(q)' = Kinds(q)
  BY PostedKinds DEF UIInv
<1>4. RecordFits(x, InMap(r)', r \in terminateList', Kinds(r)')
  BY <1>2, <1>3, SameFit
<1> QED
  BY <1>1, <1>2, <1>3, <1>4, OneMoves

\* EraseAbilityRecord takes r, and r only, out of the session map.
LEMMA ErasedFacts ==
  ASSUME UITypes, NEW r \in UIRecords, sessionMap' = Erased(r)
  PROVE  /\ sessionMap' \in [UISessions -> UIRecords \cup {NoUI}]
         /\ ~InMap(r)'
         /\ \A q \in UIRecords \ {r} : InMap(q)' <=> InMap(q)
<1>1. r # NoUI /\ \A q \in UIRecords : q # NoUI
  BY DEF NoUI, UIRecords
<1> QED
  BY <1>1 DEF UITypes, Erased, InMap

-----------------------------------------------------------------------------
(* What the methods of AbilityRecord do to a record that is in the session *)
(* map or elsewhere.                                                       *)

\* What holds of a record apart from its pending state.
PlaceFits(u, mapped, closed, kinds) ==
  /\ Accounted(u, mapped, closed)
  /\ MappedFits(u, mapped, closed, kinds)
  /\ BackgroundFits(u, kinds)
  /\ u.proc # "none"

LEMMA WithPending ==
  ASSUME NEW u \in UIRecordType, NEW m, NEW c, NEW k, PlaceFits(u, m, c, k),
         NEW p \in {"initial", "foreground", "background"}
  PROVE  /\ [u EXCEPT !.pending = p] \in UIRecordType
         /\ PlaceFits([u EXCEPT !.pending = p], m, c, k)
BY DEF UIRecordType, PlaceFits, Accounted, MappedFits, BackgroundFits, Settling, LastIs

\* SendTo changes the commands only, and a command that is sent is the last one.
LEMMA SendToFacts ==
  ASSUME NEW u \in UIRecordType, NEW command \in Commands
  PROVE  \E s \in Seq(Commands) :
           /\ SendTo(u, command) = [u EXCEPT !.commands = s]
           /\ \/ s = u.commands /\ ~(u.proc = "running" /\ u.ready)
              \/ /\ u.proc = "running" /\ u.ready
                 /\ s # <<>> /\ s[Len(s)] = command
<1>1. u.commands \in Seq(Commands) /\ u = [u EXCEPT !.commands = u.commands]
  BY DEF UIRecordType, Commands
<1>2. /\ Append(u.commands, command) \in Seq(Commands)
      /\ Append(u.commands, command) # <<>>
      /\ Append(u.commands, command)[Len(Append(u.commands, command))] = command
  BY <1>1, AppendLast
<1>3. CASE u.proc = "running" /\ u.ready
  BY <1>2, <1>3 DEF SendTo
<1>4. CASE ~(u.proc = "running" /\ u.ready)
  BY <1>1, <1>4 DEF SendTo
<1> QED
  BY <1>3, <1>4

\* MoveToForeground is answered by the application manager while there is a process.
LEMMA MoveToForegroundFacts ==
  ASSUME NEW u \in UIRecordType
  PROVE  \E b \in BOOLEAN : /\ MoveToForeground(u) = [u EXCEPT !.asked = b]
                            /\ b <=> u.proc \in {"starting", "running"}
<1>1. (u.proc \in {"starting", "running"}) \in BOOLEAN
  OBVIOUS
<1> QED
  BY <1>1 DEF MoveToForeground

\* Bringing a record of the session map to the foreground: something resolves whatever
\* is pending.
LEMMA ForegroundFits ==
  ASSUME NEW u \in UIRecordType, NEW c, NEW k, PlaceFits(u, TRUE, c, k)
  PROVE  /\ ProcessForegroundAbility(u) \in UIRecordType
         /\ RecordFits(ProcessForegroundAbility(u), TRUE, c, k)
<1> DEFINE x == ProcessForegroundAbility(u)
<1>1. CASE ~u.ready
  <2>1. x = [u EXCEPT !.timers = @ \cup {"load"}]
    BY <1>1 DEF ProcessForegroundAbility, LoadUIAbility, Arm, PlaceFits, UIRecordType
  <2>2. x \in UIRecordType /\ RecordFits(x, TRUE, c, k)
    BY <2>1 DEF UIRecordType, UITimers, PlaceFits, RecordFits, Accounted, UnusedFits, MappedFits,
                PendingFits, Resolving, BackgroundFits, Settling, LastIs
  <2> QED
    BY <2>2
<1>2. CASE u.ready /\ u.state = "foreground"
  <2> DEFINE y == [u EXCEPT !.timers = @ \cup {"foreground"}, !.state = "foregrounding"]
  <2>1. y \in UIRecordType
    BY DEF UIRecordType, UITimers, UIStates
  <2>2. x = SendTo(y, "foreground")
    BY <1>2 DEF ProcessForegroundAbility, ForegroundAbility, Arm
  <2>3. PICK s \in Seq(Commands) : x = [y EXCEPT !.commands = s]
                                   /\ (s = u.commands \/ u.proc = "running")
    <3>1. "foreground" \in Commands /\ y.commands = u.commands /\ y.proc = u.proc
      BY DEF Commands, UIRecordType
    <3> HIDE DEF x, y
    <3> QED
      BY <2>1, <2>2, <3>1, SendToFacts
  <2>4. x = [u EXCEPT !.timers = @ \cup {"foreground"}, !.state = "foregrounding", !.commands = s]
    BY <2>3
  <2>5. x \in UIRecordType
    BY <2>1, <2>3, ZenonT(60) DEF UIRecordType, Commands
  <2>6. RecordFits(x, TRUE, c, k)
    BY <1>2, <2>3, <2>4 DEF UIRecordType, UITimers, PlaceFits, RecordFits, Accounted, UnusedFits, MappedFits,
                PendingFits, Resolving, BackgroundFits, Settling, LastIs
  <2> QED
    BY <2>5, <2>6
<1>3. CASE u.ready /\ u.state # "foreground"
  <2> DEFINE y == [u EXCEPT !.timers = @ \cup {"foreground"}, !.state = "foregrounding"]
  <2>0. y \in UIRecordType /\ y.proc = u.proc /\ x = MoveToForeground(y)
    BY <1>3 DEF UIRecordType, UITimers, UIStates, ProcessForegroundAbility, Arm
  <2>1. PICK b \in BOOLEAN : /\ x = [y EXCEPT !.asked = b]
                             /\ b <=> u.proc \in {"starting", "running"}
    BY <2>0, MoveToForegroundFacts
  <2>2. x \in UIRecordType
    BY <2>0, <2>1, ZenonT(60) DEF UIRecordType
  <2>3. RecordFits(x, TRUE, c, k)
    BY <1>3, <2>1 DEF UIRecordType, UITimers, PlaceFits, RecordFits, Accounted, UnusedFits, MappedFits,
                PendingFits, Resolving, BackgroundFits, Settling, LastIs
  <2> QED
    BY <2>2, <2>3
<1> QED
  BY <1>1, <1>2, <1>3

\* Moving a record to the background, wherever it is.
LEMMA BackgroundingFits ==
  ASSUME NEW u \in UIRecordType, NEW m, NEW c, NEW k, PlaceFits(u, m, c, k)
  PROVE  /\ MoveToBackground(u) \in UIRecordType
         /\ RecordFits(MoveToBackground(u), m, c, k)
<1> DEFINE y == [u EXCEPT !.timers = @ \cup {"background"}, !.state = "backgrounding"]
           x == MoveToBackground(u)
<1>1. y \in UIRecordType /\ y.commands = u.commands /\ y.proc = u.proc /\ y.ready = u.ready
  BY DEF UIRecordType, UITimers, UIStates
<1>2. x = SendTo(y, "background") /\ "background" \in Commands
  BY DEF MoveToBackground, Arm, Commands
<1>3. PICK s \in Seq(Commands) :
         /\ x = [y EXCEPT !.commands = s]
         /\ \/ s = u.commands /\ ~(u.proc = "running" /\ u.ready)
            \/ /\ u.proc = "running" /\ u.ready
               /\ s # <<>> /\ s[Len(s)] = "background"
  <2> HIDE DEF x, y
  <2>1. PICK s \in Seq(Commands) :
           /\ SendTo(y, "background") = [y EXCEPT !.commands = s]
           /\ \/ s = y.commands /\ ~(y.proc = "running" /\ y.ready)
              \/ /\ y.proc = "running" /\ y.ready
                 /\ s # <<>> /\ s[Len(s)] = "background"
    BY <1>1, <1>2, SendToFacts
  <2> QED
    BY <1>1, <1>2, <2>1
<1>4. x \in UIRecordType
  BY <1>1, <1>3, ZenonT(60) DEF UIRecordType, Commands
<1>5. ~(u.proc = "running" /\ u.ready) => u.commands = <<>> /\ u.impl = "initial"
  BY DEF PlaceFits, BackgroundFits, UIRecordType
<1>6. Settling(x)
  BY <1>3, <1>5 DEF Settling, LastIs, UIRecordType
<1>7. RecordFits(x, m, c, k)
  BY <1>3, <1>6 DEF UIRecordType, PlaceFits, RecordFits, Accounted, UnusedFits, MappedFits,
                    PendingFits, Resolving, BackgroundFits
<1> QED
  BY <1>4, <1>7

\* Terminating a record that has left the session map.
LEMMA TerminatingFits ==
  ASSUME NEW u \in UIRecordType, NEW c, NEW k, PlaceFits(u, FALSE, c, k)
  PROVE  /\ TerminateUI(u) \in UIRecordType
         /\ RecordFits(TerminateUI(u), FALSE, c, k)
<1> DEFINE y == [u EXCEPT !.timers = @ \cup {"terminate"}, !.state = "terminating"]
           x == TerminateUI(u)
<1>1. y \in UIRecordType /\ y.commands = u.commands /\ y.proc = u.proc /\ y.ready = u.ready
  BY DEF UIRecordType, UITimers, UIStates
<1>2. x = SendTo(y, "terminate") /\ "terminate" \in Commands
  BY DEF TerminateUI, Arm, Commands
<1>3. PICK s \in Seq(Commands) :
         /\ x = [y EXCEPT !.commands = s]
         /\ s = u.commands \/ (u.proc = "running" /\ u.ready)
  <2> HIDE DEF x, y
  <2> QED
    BY <1>1, <1>2, SendToFacts
<1>4. x \in UIRecordType
  BY <1>1, <1>3, ZenonT(60) DEF UIRecordType, Commands
<1>5. RecordFits(x, FALSE, c, k)
  BY <1>3 DEF UIRecordType, PlaceFits, RecordFits, Accounted, UnusedFits, MappedFits,
              PendingFits, Resolving, BackgroundFits
<1> QED
  BY <1>4, <1>5

\* Telling the application manager accounts for a record that leaves the containers.
LEMMA ToldFits ==
  ASSUME NEW u \in UIRecordType, NEW c, NEW k, BackgroundFits(u, k), u.proc # "none",
         NEW what \in {"terminate", "kill"}
  PROVE  /\ ToldTo(u, what) \in UIRecordType
         /\ RecordFits(ToldTo(u, what), FALSE, c, k)
<1>1. CASE u.proc = "dead"
  BY <1>1 DEF ToldTo, UIRecordType, RecordFits, Accounted, UnusedFits, MappedFits, PendingFits
<1>2. CASE u.proc # "dead"
  <2>1. ToldTo(u, what) = [u EXCEPT !.told = @ \cup {what}]
    BY <1>2 DEF ToldTo
  <2> QED
    BY <2>1 DEF UIRecordType, RecordFits, Accounted, UnusedFits, MappedFits, PendingFits,
                BackgroundFits, Settling, LastIs
<1> QED
  BY <1>1, <1>2

\* An application that is not heard any more shows nothing.
LEMMA UnheardFits ==
  ASSUME NEW u \in UIRecordType, NEW k, BackgroundFits(u, k)
  PROVE  /\ Unheard(u) \in UIRecordType
         /\ Unheard(u).proc = u.proc
         /\ BackgroundFits(Unheard(u), k)
<1>1. <<>> \in Seq({"foreground", "background", "terminate"})
  OBVIOUS
<1> QED
  BY <1>1 DEF Unheard, UIRecordType, BackgroundFits, Settling, LastIs

\* Removing a timeout changes nothing else.
LEMMA DisarmFits ==
  ASSUME NEW u \in UIRecordType, NEW timer, NEW k, BackgroundFits(u, k)
  PROVE  /\ Disarm(u, timer) \in UIRecordType
         /\ Disarm(u, timer).proc = u.proc
         /\ BackgroundFits(Disarm(u, timer), k)
<1>1. u.timers \ {timer} \in SUBSET UITimers
  BY DEF UIRecordType
<1>2. PICK t \in SUBSET UITimers : Disarm(u, timer) = [u EXCEPT !.timers = t]
  BY <1>1 DEF Disarm
<1> QED
  BY <1>2 DEF UIRecordType, BackgroundFits, Settling, LastIs

-----------------------------------------------------------------------------
(* One lemma per action.                                                   *)

\* What the invariant says of one record.
LEMMA RecordFacts ==
  ASSUME UIInv, NEW r \in UIRecords
  PROVE  /\ uis[r] \in UIRecordType
         /\ RecordFits(uis[r], InMap(r), r \in terminateList, Kinds(r))
         /\ InMap(r) \/ r \in terminateList \/ Kinds(r) # {} => uis[r].proc # "none"
         /\ uis[r].proc # "none" => PlaceFits(uis[r], InMap(r), r \in terminateList, Kinds(r))
<1>1. /\ uis[r] \in UIRecordType
      /\ RecordFits(uis[r], InMap(r), r \in terminateList, Kinds(r))
  BY DEF UIInv, UITypes
<1> QED
  BY <1>1 DEF RecordFits, UnusedFits, PlaceFits

\* The record of a session.
LEMMA SessionFacts ==
  ASSUME UIInv, NEW s \in UISessions, sessionMap[s] # NoUI
  PROVE  /\ sessionMap[s] \in UIRecords
         /\ InMap(sessionMap[s])
         /\ sessionMap[s] \notin terminateList
         /\ uis[sessionMap[s]] \in UIRecordType
         /\ uis[sessionMap[s]].proc # "none"
         /\ PlaceFits(uis[sessionMap[s]], TRUE, FALSE, Kinds(sessionMap[s]))
<1>1. sessionMap[s] \in UIRecords /\ InMap(sessionMap[s])
  BY DEF UIInv, UITypes, InMap
<1>2. /\ uis[sessionMap[s]] \in UIRecordType /\ uis[sessionMap[s]].proc # "none"
      /\ PlaceFits(uis[sessionMap[s]], InMap(sessionMap[s]),
                   sessionMap[s] \in terminateList, Kinds(sessionMap[s]))
  BY <1>1, RecordFacts
<1> QED
  BY <1>1, <1>2 DEF PlaceFits, Accounted, MappedFits

\* A step that keeps a record of the session map there.
LEMMA StaysMapped ==
  ASSUME UIInv, NEW s \in UISessions, sessionMap[s] # NoUI, NEW x \in UIRecordType,
         SetUI(sessionMap[s], x), UNCHANGED <<sessionMap, terminateList, uiTasks>>,
         RecordFits(x, TRUE, FALSE, Kinds(sessionMap[s]))
  PROVE  UIInv'
<1>1. sessionMap[s] \in UIRecords /\ InMap(sessionMap[s]) /\ sessionMap[s] \notin terminateList
  BY SessionFacts
<1>2. RecordFits(x, InMap(sessionMap[s]), sessionMap[s] \in terminateList, Kinds(sessionMap[s]))
  BY <1>1 DEF RecordFits, Accounted, UnusedFits, MappedFits, PendingFits
<1> QED
  BY <1>1, <1>2, StaysPut

LEMMA StartKeeps ==
  ASSUME UIInv, NEW s \in UISessions, StartUIAbility(s)
  PROVE  UIInv'
<1>1. CASE sessionMap[s] = NoUI
  <2>1. PICK r \in UIRecords :
           /\ uis[r].proc = "none"
           /\ SetUI(r, LoadUIAbility([uis[r] EXCEPT !.pending = "foreground"]))
           /\ sessionMap' = [sessionMap EXCEPT ![s] = r]
    BY <1>1 DEF StartUIAbility
  <2> DEFINE x == LoadUIAbility([uis[r] EXCEPT !.pending = "foreground"])
  <2>2. UNCHANGED <<terminateList, uiTasks>>
    BY DEF StartUIAbility
  <2>3. uis[r] = UnusedUI /\ ~InMap(r) /\ r \notin terminateList /\ Kinds(r) = {}
    BY <2>1, RecordFacts DEF RecordFits, UnusedFits
  <2>4. /\ x = [UnusedUI EXCEPT !.pending = "foreground", !.proc = "starting", !.timers = {"load"}]
        /\ UnusedUI \in UIRecordType
    BY <2>1, <2>3 DEF LoadUIAbility, Arm, UnusedUI, UIRecordType, UIStates, UITimers
  <2>5. x \in UIRecordType /\ RecordFits(x, TRUE, FALSE, {})
    <3> HIDE DEF x
    <3>1. x \in UIRecordType
      BY <2>4 DEF UIRecordType, UITimers
    <3>2. /\ x.proc = "starting" /\ "load" \in x.timers /\ x.commands = <<>> /\ x.state = "initial"
          /\ ~x.ready /\ ~x.terminating /\ x.told = {} /\ x.impl = "initial" /\ x.window = "hidden"
      BY <2>4 DEF UnusedUI
    <3> QED
      BY <3>1, <3>2 DEF RecordFits, Accounted, UnusedFits, MappedFits, PendingFits,
                        Resolving, BackgroundFits
  <2>6. /\ sessionMap' \in [UISessions -> UIRecords \cup {NoUI}]
        /\ InMap(r)'
        /\ \A q \in UIRecords \ {r} : InMap(q)' <=> InMap(q)
    <3>1. sessionMap \in [UISessions -> UIRecords \cup {NoUI}] /\ \A q \in UIRecords : q # NoUI
      BY DEF UIInv, UITypes, UIRecords, NoUI
    <3> QED
      BY <1>1, <2>1, <3>1 DEF InMap
  <2>7. \A q \in UIRecords : /\ q \in terminateList' <=> q \in terminateList
                             /\ Kinds(q)' = Kinds(q)
    BY <2>2 DEF Kinds
  <2>8. terminateList' \subseteq UIRecords /\ uiTasks' \in Seq(TaskType)
    BY <2>2 DEF UIInv, UITypes, TaskType
  <2>9. RecordFits(x, InMap(r)', r \in terminateList', Kinds(r)')
    BY <2>3, <2>5, <2>6, <2>7 DEF RecordFits, Accounted, UnusedFits, MappedFits, PendingFits
  <2> HIDE DEF x
  <2> QED
    BY <2>1, <2>5, <2>6, <2>7, <2>8, <2>9, OneMoves DEF x
<1>2. CASE sessionMap[s] # NoUI
  <2> DEFINE u == uis[sessionMap[s]]
             w == [u EXCEPT !.pending = "foreground"]
  <2>1. /\ SetUI(sessionMap[s], IF u.pending # "initial" THEN w ELSE ProcessForegroundAbility(w))
        /\ UNCHANGED <<sessionMap, terminateList, uiTasks>>
    BY <1>2 DEF StartUIAbility
  <2>2. /\ u \in UIRecordType /\ sessionMap[s] \in UIRecords
        /\ PlaceFits(u, TRUE, FALSE, Kinds(sessionMap[s]))
        /\ RecordFits(u, InMap(sessionMap[s]), sessionMap[s] \in terminateList, Kinds(sessionMap[s]))
        /\ InMap(sessionMap[s])
    BY <1>2, SessionFacts, RecordFacts
  <2>3. w \in UIRecordType /\ PlaceFits(w, TRUE, FALSE, Kinds(sessionMap[s]))
    BY <2>2, WithPending
  <2>4. CASE u.pending # "initial"
    <3>1. RecordFits(w, TRUE, FALSE, Kinds(sessionMap[s]))
      <4>1. w.refused \/ w.closeAsked \/ Resolving(w, Kinds(sessionMap[s]))
        BY <2>2, <2>4 DEF RecordFits, PendingFits, Resolving, LastIs, UIRecordType
      <4> HIDE DEF w
      <4> QED
        BY <2>3, <4>1 DEF RecordFits, PendingFits, PlaceFits, UnusedFits
    <3> HIDE DEF w, u
    <3> QED
      BY <1>2, <2>1, <2>3, <2>4, <3>1, StaysMapped
  <2>5. CASE u.pending = "initial"
    <3> HIDE DEF w, u
    <3>1. /\ ProcessForegroundAbility(w) \in UIRecordType
          /\ RecordFits(ProcessForegroundAbility(w), TRUE, FALSE, Kinds(sessionMap[s]))
      BY <2>3, ForegroundFits
    <3> QED
      BY <1>2, <2>1, <2>5, <3>1, StaysMapped
  <2> QED
    BY <2>4, <2>5
<1> QED
  BY <1>1, <1>2

LEMMA VisibilityKeeps ==
  ASSUME UIInv, NEW s \in UISessions, ChangeUIAbilityVisibilityBySCB(s)
  PROVE  UIInv'
<1> DEFINE u == uis[sessionMap[s]]
<1>1. /\ sessionMap[s] # NoUI /\ SetUI(sessionMap[s], ProcessForegroundAbility(u))
      /\ UNCHANGED <<sessionMap, terminateList, uiTasks>>
  BY DEF ChangeUIAbilityVisibilityBySCB
<1>2. u \in UIRecordType /\ PlaceFits(u, TRUE, FALSE, Kinds(sessionMap[s]))
  BY <1>1, SessionFacts
<1> HIDE DEF u
<1>3. /\ ProcessForegroundAbility(u) \in UIRecordType
      /\ RecordFits(ProcessForegroundAbility(u), TRUE, FALSE, Kinds(sessionMap[s]))
  BY <1>2, ForegroundFits
<1> QED
  BY <1>1, <1>3, StaysMapped

LEMMA MinimizeKeeps ==
  ASSUME UIInv, NEW s \in UISessions, MinimizeUIAbility(s)
  PROVE  UIInv'
<1> DEFINE u == uis[sessionMap[s]]
           w == [u EXCEPT !.pending = "background"]
<1>1. /\ sessionMap[s] # NoUI
      /\ UNCHANGED <<sessionMap, terminateList, uiTasks>>
      /\ \/ u.pending # "initial" /\ SetUI(sessionMap[s], w)
         \/ SetUI(sessionMap[s], MoveToBackground(w))
  BY DEF MinimizeUIAbility
<1>2. /\ u \in UIRecordType /\ sessionMap[s] \in UIRecords
      /\ PlaceFits(u, TRUE, FALSE, Kinds(sessionMap[s]))
      /\ RecordFits(u, InMap(sessionMap[s]), sessionMap[s] \in terminateList, Kinds(sessionMap[s]))
      /\ InMap(sessionMap[s])
  BY <1>1, SessionFacts, RecordFacts
<1>3. w \in UIRecordType /\ PlaceFits(w, TRUE, FALSE, Kinds(sessionMap[s]))
  BY <1>2, WithPending
<1>4. u.pending # "initial" => RecordFits(w, TRUE, FALSE, Kinds(sessionMap[s]))
  <2>1. u.pending # "initial" => w.refused \/ w.closeAsked \/ Resolving(w, Kinds(sessionMap[s]))
    BY <1>2 DEF RecordFits, PendingFits, Resolving, LastIs, UIRecordType
  <2> HIDE DEF w
  <2> QED
    BY <1>3, <2>1 DEF RecordFits, PendingFits, PlaceFits, UnusedFits
<1> HIDE DEF w, u
<1>5. /\ MoveToBackground(w) \in UIRecordType
      /\ RecordFits(MoveToBackground(w), TRUE, FALSE, Kinds(sessionMap[s]))
  BY <1>3, BackgroundingFits
<1> QED
  BY <1>1, <1>3, <1>4, <1>5, StaysMapped

\* A step that moves r within the containers, to a place it fits with the tasks k.
MovesTo(r, k) ==
  \E x \in UIRecordType :
    /\ SetUI(r, x)
    /\ sessionMap' \in [UISessions -> UIRecords \cup {NoUI}]
    /\ terminateList' \subseteq UIRecords
    /\ \A q \in UIRecords \ {r} : /\ InMap(q)' <=> InMap(q)
                                  /\ q \in terminateList' <=> q \in terminateList
    /\ RecordFits(x, InMap(r)', r \in terminateList', k)

LEMMA MovesKeeps ==
  ASSUME UIInv, NEW r \in UIRecords, NEW k, MovesTo(r, k), k = Kinds(r)',
         uiTasks' \in Seq(TaskType), \A q \in UIRecords \ {r} : Kinds(q)' = Kinds(q)
  PROVE  UIInv'
BY OneMoves DEF MovesTo

\* A record that only its own fields change of.
LEMMA StaysMoves ==
  ASSUME UIInv, NEW r \in UIRecords, NEW k, NEW x \in UIRecordType, SetUI(r, x),
         UNCHANGED <<sessionMap, terminateList>>,
         RecordFits(x, InMap(r), r \in terminateList, k)
  PROVE  MovesTo(r, k)
<1>1. /\ sessionMap' \in [UISessions -> UIRecords \cup {NoUI}]
      /\ terminateList' \subseteq UIRecords
  BY DEF UIInv, UITypes
<1>2. \A q \in UIRecords : /\ InMap(q)' <=> InMap(q)
                           /\ q \in terminateList' <=> q \in terminateList
  BY DEF InMap
<1>3. RecordFits(x, InMap(r)', r \in terminateList', k)
  BY <1>2 DEF RecordFits, Accounted, UnusedFits, MappedFits, PendingFits
<1> QED
  BY <1>1, <1>2, <1>3 DEF MovesTo

\* A record that leaves the session map, for the terminate list or for good.
LEMMA ErasedMoves ==
  ASSUME UIInv, NEW r \in UIRecords, NEW k, NEW x \in UIRecordType, SetUI(r, x),
         sessionMap' = Erased(r), terminateList' \in {terminateList, terminateList \cup {r}},
         RecordFits(x, FALSE, r \in terminateList', k)
  PROVE  MovesTo(r, k)
<1>1. /\ sessionMap' \in [UISessions -> UIRecords \cup {NoUI}]
      /\ ~InMap(r)'
      /\ \A q \in UIRecords \ {r} : InMap(q)' <=> InMap(q)
  BY ErasedFacts DEF UIInv
<1>2. /\ terminateList' \subseteq UIRecords
      /\ \A q \in UIRecords \ {r} : q \in terminateList' <=> q \in terminateList
  BY DEF UIInv, UITypes
<1>3. RecordFits(x, InMap(r)', r \in terminateList', k)
  BY <1>1 DEF RecordFits, Accounted, UnusedFits, MappedFits, PendingFits
<1> QED
  BY <1>1, <1>2, <1>3 DEF MovesTo

\* Closing an ability takes it out of the session map: it is in the terminate list, or
\* the application manager was told.
LEMMA CloseMoves ==
  ASSUME UIInv, NEW r \in UIRecords, NEW k, CloseUIAbilityInner(r),
         PlaceFits(uis[r], InMap(r), r \in terminateList, k)
  PROVE  MovesTo(r, k)
<1> DEFINE u == [uis[r] EXCEPT !.terminating = TRUE]
<1>1. uis[r] \in UIRecordType /\ uis \in [UIRecords -> UIRecordType]
  BY RecordFacts DEF UIInv, UITypes
<1>2. u \in UIRecordType /\ u.proc # "none" /\ BackgroundFits(u, k) /\ u.state = uis[r].state
  BY <1>1 DEF UIRecordType, PlaceFits, BackgroundFits, Settling, LastIs
<1>3. CASE uis[r].terminating /\ uis[r].state \notin {"foreground", "foregrounding"}
  <2>1. UNCHANGED <<uis, sessionMap, terminateList>>
    BY <1>3 DEF CloseUIAbilityInner
  <2>2. SetUI(r, uis[r])
    BY <1>1, <2>1 DEF SetUI
  <2>3. RecordFits(uis[r], InMap(r), r \in terminateList, k)
    BY <1>3 DEF PlaceFits, RecordFits, UnusedFits, MappedFits, PendingFits
  <2> QED
    BY <1>1, <2>1, <2>2, <2>3, StaysMoves
<1>4. CASE ~(uis[r].terminating /\ uis[r].state \notin {"foreground", "foregrounding"})
  <2>1. sessionMap' = Erased(r)
    BY <1>4 DEF CloseUIAbilityInner
  <2>2. CASE u.state = "initial"
    <3> DEFINE v == IF u.ready THEN u ELSE Disarm(u, "load")
    <3>1. SetUI(r, ToldTo(Unheard(v), "terminate")) /\ terminateList' = terminateList
      BY <1>4, <2>2 DEF CloseUIAbilityInner
    <3>2. v \in UIRecordType /\ v.proc # "none" /\ BackgroundFits(v, k)
      <4> HIDE DEF u
      <4> QED
        BY <1>2, DisarmFits
    <3> HIDE DEF u, v
    <3>3. Unheard(v) \in UIRecordType /\ Unheard(v).proc # "none" /\ BackgroundFits(Unheard(v), k)
      BY <3>2, UnheardFits
    <3>4. /\ ToldTo(Unheard(v), "terminate") \in UIRecordType
          /\ RecordFits(ToldTo(Unheard(v), "terminate"), FALSE, r \in terminateList', k)
      BY <3>3, ToldFits
    <3> QED
      BY <2>1, <3>1, <3>4, ErasedMoves
  <2>3. CASE u.state # "initial"
    <3>1. terminateList' = terminateList \cup {r}
      BY <1>4, <2>3 DEF CloseUIAbilityInner
    <3>2. PlaceFits(u, FALSE, r \in terminateList', k)
      BY <1>2, <3>1 DEF PlaceFits, Accounted, MappedFits
    <3>3. CASE u.state \in {"foreground", "foregrounding"}
      <4> DEFINE w == [u EXCEPT !.pending = "background"]
      <4>1. SetUI(r, MoveToBackground(w))
        BY <1>4, <2>3, <3>3 DEF CloseUIAbilityInner
      <4>2. w \in UIRecordType /\ PlaceFits(w, FALSE, r \in terminateList', k)
        BY <1>2, <3>2, WithPending
      <4> HIDE DEF w
      <4>3. /\ MoveToBackground(w) \in UIRecordType
            /\ RecordFits(MoveToBackground(w), FALSE, r \in terminateList', k)
        BY <4>2, BackgroundingFits
      <4> QED
        BY <2>1, <3>1, <4>1, <4>3, ErasedMoves
    <3>4. CASE u.state = "background"
      <4>1. SetUI(r, TerminateUI(u))
        BY <1>4, <2>3, <3>4 DEF CloseUIAbilityInner
      <4> HIDE DEF u
      <4>2. /\ TerminateUI(u) \in UIRecordType
            /\ RecordFits(TerminateUI(u), FALSE, r \in terminateList', k)
        BY <1>2, <3>2, TerminatingFits
      <4> QED
        BY <2>1, <3>1, <4>1, <4>2, ErasedMoves
    <3>5. CASE u.state \notin {"foreground", "foregrounding", "background"}
      <4>1. SetUI(r, u)
        BY <1>4, <2>3, <3>5 DEF CloseUIAbilityInner
      <4> HIDE DEF u
      <4>2. RecordFits(u, FALSE, r \in terminateList', k)
        BY <3>2 DEF PlaceFits, RecordFits, UnusedFits, PendingFits
      <4> QED
        BY <1>2, <2>1, <3>1, <4>1, <4>2, ErasedMoves
    <3> QED
      BY <3>3, <3>4, <3>5
  <2> QED
    BY <2>2, <2>3
<1> QED
  BY <1>3, <1>4

LEMMA CloseKeeps ==
  ASSUME UIInv, NEW s \in UISessions, CloseUIAbility(s)
  PROVE  UIInv'
<1>1. sessionMap[s] # NoUI /\ CloseUIAbilityInner(sessionMap[s]) /\ uiTasks' = uiTasks
  BY DEF CloseUIAbility
<1>2. PICK r \in UIRecords : /\ r = sessionMap[s]
                             /\ PlaceFits(uis[r], InMap(r), r \in terminateList, Kinds(r))
  BY <1>1, SessionFacts, RecordFacts
<1>3. /\ uiTasks' \in Seq(TaskType)
      /\ \A q \in UIRecords : Kinds(q)' = Kinds(q)
  BY <1>1 DEF UIInv, UITypes, TaskType, Kinds
<1>4. MovesTo(r, Kinds(r))
  BY <1>1, <1>2, CloseMoves
<1> QED
  BY <1>3, <1>4, MovesKeeps

\* The application attaches: the application manager owes an answer, or the manager has
\* given the record up.
LEMMA AttachKeeps ==
  ASSUME UIInv, NEW r \in UIRecords, UIAttachAbilityThread(r)
  PROVE  UIInv'
<1>1. uis[r].proc = "starting" /\ UNCHANGED <<sessionMap, terminateList, uiTasks>>
  BY DEF UIAttachAbilityThread
<1>2. /\ uis[r] \in UIRecordType
      /\ PlaceFits(uis[r], InMap(r), r \in terminateList, Kinds(r))
  BY <1>1, RecordFacts
<1> DEFINE attached == [Disarm(uis[r], "load") EXCEPT !.proc = "running", !.ready = TRUE,
                                                     !.watched = TRUE]
           closing == [attached EXCEPT !.closeAsked = TRUE]
<1>0. \/ InMap(r) /\ SetUI(r, MoveToForeground(Arm(attached, "foreground")))
      \/ InMap(r) /\ SetUI(r, closing)
      \/ ~InMap(r) /\ SetUI(r, [uis[r] EXCEPT !.proc = "running"])
  BY UIConstants DEF UIAttachAbilityThread, InMap
<1>3. CASE InMap(r) /\ SetUI(r, MoveToForeground(Arm(attached, "foreground")))
  <2> DEFINE y == [uis[r] EXCEPT !.proc = "running", !.ready = TRUE, !.watched = TRUE,
                                 !.timers = (@ \ {"load"}) \cup {"foreground"}]
             x == [y EXCEPT !.asked = TRUE]
  <2>1. y \in UIRecordType /\ y.proc = "running"
    BY <1>2 DEF UIRecordType, UITimers
  <2>2. SetUI(r, MoveToForeground(y))
    BY <1>3 DEF Arm, Disarm
  <2>3. MoveToForeground(y) = x
    <3> HIDE DEF y
    <3> QED
      BY <2>1, MoveToForegroundFacts
  <2>4. x \in UIRecordType
    BY <2>1 DEF UIRecordType
  <2>5. RecordFits(x, InMap(r), r \in terminateList, Kinds(r))
    BY <1>1, <1>2, <1>3 DEF UIRecordType, PlaceFits, RecordFits, Accounted, UnusedFits, MappedFits, PendingFits,
                            Resolving, BackgroundFits, Settling, LastIs
  <2> HIDE DEF x
  <2> QED
    BY <1>1, <2>2, <2>3, <2>4, <2>5, StaysPut
<1>5. CASE InMap(r) /\ SetUI(r, closing)
  <2> DEFINE x == [uis[r] EXCEPT !.proc = "running", !.ready = TRUE, !.watched = TRUE,
                                 !.timers = @ \ {"load"}, !.closeAsked = TRUE]
  <2>1. SetUI(r, x)
    BY <1>5 DEF Disarm
  <2>2. x \in UIRecordType
    BY <1>2 DEF UIRecordType, UITimers
  <2>3. RecordFits(x, InMap(r), r \in terminateList, Kinds(r))
    BY <1>1, <1>2, <1>5 DEF UIRecordType, PlaceFits, RecordFits, Accounted, UnusedFits, MappedFits, PendingFits,
                            BackgroundFits, Settling, LastIs
  <2> HIDE DEF x
  <2> QED
    BY <1>1, <2>1, <2>2, <2>3, StaysPut
<1>4. CASE ~InMap(r) /\ SetUI(r, [uis[r] EXCEPT !.proc = "running"])
  <2> DEFINE x == [uis[r] EXCEPT !.proc = "running"]
  <2>1. SetUI(r, x) /\ x \in UIRecordType
    BY <1>2, <1>4 DEF UIRecordType
  <2>2. RecordFits(x, InMap(r), r \in terminateList, Kinds(r))
    BY <1>1, <1>2, <1>4 DEF UIRecordType, PlaceFits, RecordFits, Accounted, UnusedFits, MappedFits, PendingFits,
                            BackgroundFits, Settling, LastIs
  <2> HIDE DEF x
  <2> QED
    BY <1>1, <2>1, <2>2, StaysPut
<1> QED
  BY <1>0, <1>3, <1>4, <1>5

\* The answer of the application manager is followed by the foreground command.
LEMMA RequestDoneKeeps ==
  ASSUME UIInv, NEW r \in UIRecords, OnAbilityRequestDone(r)
  PROVE  UIInv'
<1> DEFINE u == [uis[r] EXCEPT !.asked = FALSE]
<1>1. /\ uis[r].proc = "running" /\ UNCHANGED <<sessionMap, terminateList, uiTasks>>
      /\ SetUI(r, IF u.terminating THEN Disarm(u, "foreground") ELSE ForegroundAbility(u))
  BY DEF OnAbilityRequestDone
<1>2. /\ uis[r] \in UIRecordType
      /\ PlaceFits(uis[r], InMap(r), r \in terminateList, Kinds(r))
  BY <1>1, RecordFacts
<1>3. /\ u \in UIRecordType /\ PlaceFits(u, InMap(r), r \in terminateList, Kinds(r))
      /\ u.proc = "running"
  <2>1. /\ u \in UIRecordType
        /\ u.proc = uis[r].proc /\ u.told = uis[r].told /\ u.terminating = uis[r].terminating
        /\ u.state = uis[r].state /\ u.ready = uis[r].ready /\ u.watched = uis[r].watched
        /\ u.commands = uis[r].commands /\ u.impl = uis[r].impl /\ u.window = uis[r].window
        /\ u.refused = uis[r].refused /\ u.closeAsked = uis[r].closeAsked
    BY <1>2 DEF UIRecordType
  <2> HIDE DEF u
  <2>2. Accounted(u, InMap(r), r \in terminateList)
    BY <1>2, <2>1 DEF PlaceFits, Accounted
  <2>3. MappedFits(u, InMap(r), r \in terminateList, Kinds(r))
    BY <1>2, <2>1 DEF PlaceFits, MappedFits
  <2>4. BackgroundFits(u, Kinds(r))
    BY <1>2, <2>1 DEF PlaceFits, BackgroundFits, Settling, LastIs
  <2> QED
    BY <1>1, <1>2, <2>1, <2>2, <2>3, <2>4 DEF PlaceFits
<1> HIDE DEF u
<1>4. CASE u.terminating
  <2>1. /\ Disarm(u, "foreground") \in UIRecordType
        /\ RecordFits(Disarm(u, "foreground"), InMap(r), r \in terminateList, Kinds(r))
    <3>1. /\ Disarm(u, "foreground") \in UIRecordType /\ ~InMap(r)
          /\ BackgroundFits(Disarm(u, "foreground"), Kinds(r))
      BY <1>3, <1>4, DisarmFits DEF PlaceFits, MappedFits
    <3>2. Disarm(u, "foreground").proc = u.proc /\ Disarm(u, "foreground").told = u.told
      BY <1>3 DEF Disarm, UIRecordType
    <3> QED
      BY <1>3, <3>1, <3>2 DEF PlaceFits, RecordFits, Accounted, UnusedFits, MappedFits, PendingFits
  <2> QED
    BY <1>1, <1>4, <2>1, StaysPut
<1>5. CASE ~u.terminating
  <2> DEFINE y == [u EXCEPT !.state = "foregrounding"]
             x == SendTo(y, "foreground")
  <2>1. y \in UIRecordType /\ y.proc = "running" /\ y.ready = u.ready /\ y.commands = u.commands
    BY <1>3 DEF UIRecordType, UIStates
  <2>2. SetUI(r, x) /\ "foreground" \in Commands
    BY <1>1, <1>5 DEF ForegroundAbility, Commands
  <2>3. PICK s \in Seq(Commands) :
           /\ x = [y EXCEPT !.commands = s]
           /\ \/ s = y.commands /\ ~y.ready
              \/ y.ready /\ s # <<>> /\ s[Len(s)] = "foreground"
    <3> HIDE DEF y
    <3> QED
      BY <2>1, <2>2, SendToFacts
  <2>4. x = [u EXCEPT !.state = "foregrounding", !.commands = s]
    BY <2>3
  <2>5. x \in UIRecordType
    BY <2>1, <2>3, ZenonT(60) DEF UIRecordType, Commands
  <2> HIDE DEF x, y
  <2>6. x.ready => LastIs(x, "foreground")
    BY <1>3, <2>1, <2>3, <2>4 DEF LastIs, UIRecordType
  <2>7. RecordFits(x, InMap(r), r \in terminateList, Kinds(r))
    <3>1. /\ x.proc = "running" /\ x.ready = u.ready /\ x.state = "foregrounding" /\ x.impl = u.impl
          /\ x.window = u.window /\ x.told = u.told /\ x.terminating = u.terminating
          /\ x.watched = u.watched /\ x.refused = u.refused /\ x.closeAsked = u.closeAsked
          /\ ~u.ready => x.commands = u.commands
      BY <1>3, <2>1, <2>3, <2>4 DEF UIRecordType
    <3>2. BackgroundFits(x, Kinds(r))
      BY <1>3, <3>1 DEF PlaceFits, BackgroundFits
    <3> QED
      BY <1>3, <2>6, <3>1, <3>2
         DEF PlaceFits, RecordFits, Accounted, UnusedFits, MappedFits, PendingFits, Resolving
  <2> QED
    BY <1>1, <2>2, <2>5, <2>7, StaysPut
<1> QED
  BY <1>4, <1>5

-----------------------------------------------------------------------------
(* The steps of the application.                                           *)

\* An answer is posted when it fits the state; one that is refused changes nothing, so
\* that the record must do without it.
LEMMA AnswerKeeps ==
  ASSUME UIInv, NEW r \in UIRecords, NEW x \in UIRecordType, NEW answer,
         AbilityTransactionDone(r, x, answer), Known(r),
         PlaceFits(x, InMap(r), r \in terminateList, Kinds(r)),
         answer = "freezed" => x.refused,
         \/ PendingFits(x, InMap(r), Kinds(r))
         \/ answer \in {"foregrounded", "failed", "freezed"} /\ x.state = "foregrounding"
  PROVE  UIInv'
<1>1. UNCHANGED <<sessionMap, terminateList>>
  BY DEF AbilityTransactionDone
<1>2. ASSUME NEW timer, NEW kind \in UITaskKinds, SetUI(r, Disarm(x, timer)), PostUI(kind, r),
             kind = "freezed" => x.refused,
             \/ kind \in {"foregrounded", "freezed"}
             \/ kind = "failed" /\ x.state = "foregrounding"
             \/ kind = "backgrounded" /\ x.state = "backgrounding"
             \/ x.state = "terminating"
      PROVE  UIInv'
  <2> DEFINE y == Disarm(x, timer)
             k == Kinds(r) \cup {kind}
  <2>1. PICK t \in SUBSET UITimers : y = [x EXCEPT !.timers = t]
    BY DEF Disarm, UIRecordType
  <2>2. /\ "died" \in Kinds(r) => "died" \in k
        /\ kind \in k
        /\ "freezed" \in k => "freezed" \in Kinds(r) \/ kind = "freezed"
    OBVIOUS
  <2> HIDE DEF y, k
  <2>3. y \in UIRecordType
    BY <2>1 DEF UIRecordType
  <2>4. RecordFits(y, InMap(r), r \in terminateList, k)
    BY <1>2, <2>1, <2>2 DEF UIRecordType, PlaceFits, RecordFits, Accounted, UnusedFits, MappedFits, PendingFits,
                            Resolving, BackgroundFits, Settling, LastIs
  <2> QED
    BY <1>1, <1>2, <2>3, <2>4, PostsTask DEF y, k
<1>3. CASE answer \in {"foregrounded", "failed", "freezed"} /\ x.state = "foregrounding"
  <2>1. SetUI(r, Disarm(x, "foreground")) /\ PostUI(answer, r)
    BY <1>3 DEF AbilityTransactionDone
  <2>2. answer \in UITaskKinds
    BY <1>3 DEF UITaskKinds
  <2> QED
    BY <1>2, <1>3, <2>1, <2>2
<1>4. CASE answer = "backgrounded" /\ x.state = "backgrounding"
  <2>1. SetUI(r, Disarm(x, "background")) /\ PostUI(answer, r)
    BY <1>4 DEF AbilityTransactionDone
  <2>2. answer \in UITaskKinds
    BY <1>4 DEF UITaskKinds
  <2> QED
    BY <1>2, <1>4, <2>1, <2>2
<1>5. CASE answer = "terminated" /\ x.state = "terminating"
  <2>1. SetUI(r, Disarm(x, "terminate")) /\ PostUI(answer, r)
    BY <1>5 DEF AbilityTransactionDone
  <2>2. answer \in UITaskKinds
    BY <1>5 DEF UITaskKinds
  <2> QED
    BY <1>2, <1>5, <2>1, <2>2
<1>6. CASE /\ ~(answer \in {"foregrounded", "failed", "freezed"} /\ x.state = "foregrounding")
           /\ ~(answer = "backgrounded" /\ x.state = "backgrounding")
           /\ ~(answer = "terminated" /\ x.state = "terminating")
  <2>1. SetUI(r, x) /\ UNCHANGED uiTasks
    BY <1>6 DEF AbilityTransactionDone
  <2>2. RecordFits(x, InMap(r), r \in terminateList, Kinds(r))
    BY <1>6 DEF PlaceFits, RecordFits, UnusedFits
  <2> QED
    BY <1>1, <2>1, <2>2, StaysPut
<1> QED
  BY <1>3, <1>4, <1>5, <1>6

\* What is left of the commands of r when one was taken.
LeftOver(r, command, s) ==
  /\ s \in Seq(Commands)
  /\ s # <<>> => s[Len(s)] = uis[r].commands[Len(uis[r].commands)]
  /\ s = <<>> => command = uis[r].commands[Len(uis[r].commands)]

LEMMA ReceivedFacts ==
  ASSUME UIInv, NEW r \in UIRecords, NEW command, Received(r, command)
  PROVE  /\ uis[r] \in UIRecordType /\ uis[r].proc = "running" /\ uis[r].commands # <<>> /\ Known(r)
         /\ RecordFits(uis[r], InMap(r), r \in terminateList, Kinds(r))
         /\ PlaceFits(uis[r], InMap(r), r \in terminateList, Kinds(r))
         /\ \E s, i : /\ LeftOver(r, command, s)
                      /\ i \in {"started", "foreground", "background", "stopped"}
                      /\ Taken(r) = [uis[r] EXCEPT !.commands = s, !.impl = i]
<1>1. /\ uis[r].proc = "running" /\ uis[r].commands # <<>> /\ Known(r)
      /\ Head(uis[r].commands) = command
  BY DEF Received
<1>2. /\ uis[r] \in UIRecordType
      /\ RecordFits(uis[r], InMap(r), r \in terminateList, Kinds(r))
      /\ PlaceFits(uis[r], InMap(r), r \in terminateList, Kinds(r))
  BY <1>1, RecordFacts
<1> DEFINE s == Tail(uis[r].commands)
           i == IF uis[r].impl = "initial" THEN "started" ELSE uis[r].impl
<1>3. uis[r].commands \in Seq(Commands)
  BY <1>2 DEF UIRecordType, Commands
<1>4. LeftOver(r, command, s)
  BY <1>1, <1>3, TailLast DEF LeftOver
<1>5. i \in {"started", "foreground", "background", "stopped"}
  BY <1>2 DEF UIRecordType
<1>6. Taken(r) = [uis[r] EXCEPT !.commands = s, !.impl = i]
  BY DEF Taken
<1> HIDE DEF s, i
<1> QED
  BY <1>1, <1>2, <1>4, <1>5, <1>6

\* The record after a command was handled, with what became of the ability and its window.
Handled(r, s, i, w, b) ==
  [uis[r] EXCEPT !.commands = s, !.impl = i, !.window = w, !.byAbility = b]

LEMMA HandledFits ==
  ASSUME UIInv, NEW r \in UIRecords, NEW command, Received(r, command),
         NEW s, LeftOver(r, command, s),
         NEW i \in {"started", "foreground", "background", "stopped"},
         NEW w \in {"hidden", "showing", "shown", "hiding"}, NEW b \in BOOLEAN,
         command = "foreground" \/ ~(i = "foreground" /\ w = "shown"),
         NEW x, x = Handled(r, s, i, w, b)
  PROVE  /\ x \in UIRecordType
         /\ PlaceFits(x, InMap(r), r \in terminateList, Kinds(r))
         /\ \/ PendingFits(x, InMap(r), Kinds(r))
            \/ x.state = "foregrounding" /\ command = "foreground" /\ w # "showing"
<1> DEFINE u == uis[r]
<1>0. /\ u \in UIRecordType /\ u.proc = "running" /\ u.commands # <<>>
      /\ PlaceFits(u, InMap(r), r \in terminateList, Kinds(r))
      /\ PendingFits(u, InMap(r), Kinds(r))
      /\ x = [u EXCEPT !.commands = s, !.impl = i, !.window = w, !.byAbility = b]
      /\ s \in Seq(Commands)
      /\ s # <<>> => s[Len(s)] = u.commands[Len(u.commands)]
      /\ s = <<>> => command = u.commands[Len(u.commands)]
  BY ReceivedFacts DEF RecordFits, LeftOver, Handled
<1> HIDE DEF u
<1>1. x \in UIRecordType
  BY <1>0, ZenonT(60) DEF UIRecordType, Commands
<1>2. /\ x.state = u.state /\ x.proc = u.proc /\ x.ready = u.ready /\ x.told = u.told
      /\ x.watched = u.watched /\ x.terminating = u.terminating
      /\ x.refused = u.refused /\ x.closeAsked = u.closeAsked
      /\ x.timers = u.timers /\ x.asked = u.asked /\ x.pending = u.pending
      /\ x.commands = s /\ x.impl = i /\ x.window = w
  BY <1>0 DEF UIRecordType
<1>3. LastIs(x, "foreground") => LastIs(u, "foreground")
  BY <1>0, <1>2 DEF LastIs
<1>4. LastIs(u, "foreground") => LastIs(x, "foreground") \/ (s = <<>> /\ command = "foreground")
  BY <1>0, <1>2 DEF LastIs
<1>5. Settling(u) => Settling(x)
  BY <1>0, <1>2, <1>3, <1>4 DEF Settling, LastIs
<1>6. PlaceFits(x, InMap(r), r \in terminateList, Kinds(r))
  BY <1>0, <1>2, <1>5 DEF PlaceFits, Accounted, MappedFits, BackgroundFits
<1>7. \/ PendingFits(x, InMap(r), Kinds(r))
      \/ x.state = "foregrounding" /\ command = "foreground" /\ w # "showing"
  BY <1>0, <1>2, <1>4 DEF PendingFits, Resolving
<1> QED
  BY <1>1, <1>2, <1>6, <1>7

LEMMA ForegroundCommandKeeps ==
  ASSUME UIInv, NEW r \in UIRecords, HandleForegroundNewState(r)
  PROVE  UIInv'
<1> DEFINE u == uis[r]
           t == Taken(r)
<1>1. Received(r, "foreground")
  BY DEF HandleForegroundNewState
<1>2. /\ u \in UIRecordType /\ u.proc = "running" /\ u.commands # <<>> /\ Known(r)
      /\ RecordFits(u, InMap(r), r \in terminateList, Kinds(r))
      /\ PlaceFits(u, InMap(r), r \in terminateList, Kinds(r))
  BY <1>1, ReceivedFacts
<1>3. PICK s, i : /\ LeftOver(r, "foreground", s)
                  /\ i \in {"started", "foreground", "background", "stopped"}
                  /\ t = [u EXCEPT !.commands = s, !.impl = i]
  BY <1>1, ReceivedFacts
<1>4. /\ t.impl = i /\ t.byAbility = u.byAbility
      /\ u.window \in {"hidden", "showing", "shown", "hiding"} /\ u.byAbility \in BOOLEAN
  BY <1>2, <1>3 DEF UIRecordType
<1>6. ASSUME NEW x, NEW j \in {"started", "foreground", "background", "stopped"},
             NEW w \in {"hidden", "showing", "shown", "hiding"}, NEW b \in BOOLEAN,
             x = Handled(r, s, j, w, b)
      PROVE  /\ x \in UIRecordType
             /\ PlaceFits(x, InMap(r), r \in terminateList, Kinds(r))
             /\ \/ PendingFits(x, InMap(r), Kinds(r))
                \/ x.state = "foregrounding" /\ w # "showing"
  BY <1>1, <1>3, <1>6, HandledFits
<1>7. CASE AbilityTransactionDone(r, t, "foregrounded")
  <2>1. t = Handled(r, s, i, u.window, u.byAbility)
    BY <1>2, <1>3 DEF UIRecordType, Handled
  <2> HIDE DEF t, u
  <2>2. /\ t \in UIRecordType /\ PlaceFits(t, InMap(r), r \in terminateList, Kinds(r))
        /\ PendingFits(t, InMap(r), Kinds(r)) \/ t.state = "foregrounding"
    BY <1>3, <1>4, <1>6, <2>1, ZenonT(60)
  <2> QED
    BY <1>2, <1>7, <2>2, AnswerKeeps
<1>8. CASE t.impl # "foreground"
           /\ AbilityTransactionDone(r,
                IF t.byAbility THEN [t EXCEPT !.impl = "background", !.window = "shown"]
                               ELSE [t EXCEPT !.impl = "foreground", !.window = "shown"],
                "foregrounded")
  <2> DEFINE x == IF t.byAbility THEN [t EXCEPT !.impl = "background", !.window = "shown"]
                                 ELSE [t EXCEPT !.impl = "foreground", !.window = "shown"]
             j == IF t.byAbility THEN "background" ELSE "foreground"
  <2>1. x = Handled(r, s, j, "shown", u.byAbility)
    BY <1>2, <1>3 DEF UIRecordType, Handled
  <2>2. j \in {"started", "foreground", "background", "stopped"}
    OBVIOUS
  <2>3. AbilityTransactionDone(r, x, "foregrounded")
    BY <1>8
  <2> HIDE DEF x, j, t, u
  <2>4. /\ x \in UIRecordType /\ PlaceFits(x, InMap(r), r \in terminateList, Kinds(r))
        /\ PendingFits(x, InMap(r), Kinds(r)) \/ x.state = "foregrounding"
    BY <1>3, <1>4, <1>6, <2>1, <2>2
  <2> QED
    BY <1>2, <2>3, <2>4, AnswerKeeps
<1>9. CASE /\ SetUI(r, [t EXCEPT !.byAbility = TRUE, !.window = "showing"])
           /\ UNCHANGED <<sessionMap, terminateList, uiTasks>>
  <2> DEFINE x == [t EXCEPT !.byAbility = TRUE, !.window = "showing"]
  <2>1. x = Handled(r, s, i, "showing", TRUE)
    BY <1>2, <1>3 DEF UIRecordType, Handled
  <2> HIDE DEF x, t, u
  <2>2. /\ x \in UIRecordType /\ PlaceFits(x, InMap(r), r \in terminateList, Kinds(r))
        /\ PendingFits(x, InMap(r), Kinds(r))
    BY <1>3, <1>6, <2>1
  <2>3. RecordFits(x, InMap(r), r \in terminateList, Kinds(r))
    BY <2>2 DEF PlaceFits, RecordFits, UnusedFits
  <2> QED
    BY <1>9, <2>2, <2>3, StaysPut DEF x
<1> QED
  <2>1. \/ AbilityTransactionDone(r, t, "foregrounded")
        \/ t.impl # "foreground"
           /\ AbilityTransactionDone(r,
                IF t.byAbility THEN [t EXCEPT !.impl = "background", !.window = "shown"]
                               ELSE [t EXCEPT !.impl = "foreground", !.window = "shown"],
                "foregrounded")
        \/ /\ SetUI(r, [t EXCEPT !.byAbility = TRUE, !.window = "showing"])
           /\ UNCHANGED <<sessionMap, terminateList, uiTasks>>
    BY DEF HandleForegroundNewState
  <2> QED
    BY <1>7, <1>8, <1>9, <2>1

LEMMA BackgroundCommandKeeps ==
  ASSUME UIInv, NEW r \in UIRecords, HandleBackground(r)
  PROVE  UIInv'
<1> DEFINE u == uis[r]
           t == Taken(r)
           gone == [t EXCEPT !.impl = "background", !.window = "hiding"]
<1>1. Received(r, "background")
  BY DEF HandleBackground
<1>2. u \in UIRecordType /\ Known(r)
  BY <1>1, ReceivedFacts
<1>3. PICK s, i : /\ LeftOver(r, "background", s)
                  /\ i \in {"started", "foreground", "background", "stopped"}
                  /\ t = [u EXCEPT !.commands = s, !.impl = i]
  BY <1>1, ReceivedFacts
<1>4. u.byAbility \in BOOLEAN /\ u.window \in {"hidden", "showing", "shown", "hiding"} /\ t.impl = i
  BY <1>2, <1>3 DEF UIRecordType
<1>5. /\ t = Handled(r, s, i, u.window, u.byAbility)
      /\ gone = Handled(r, s, "background", "hiding", u.byAbility)
  <2>1. t = Handled(r, s, i, u.window, u.byAbility)
    BY <1>2, <1>3 DEF UIRecordType, Handled
  <2>2. gone = Handled(r, s, "background", "hiding", u.byAbility)
    BY <1>2, <1>3 DEF UIRecordType, Handled
  <2> QED
    BY <2>1, <2>2
<1>6. \/ /\ t.impl = "background" /\ SetUI(r, t)
         /\ UNCHANGED <<sessionMap, terminateList, uiTasks>>
      \/ AbilityTransactionDone(r, gone, "backgrounded")
      \/ SetUI(r, gone) /\ UNCHANGED <<sessionMap, terminateList, uiTasks>>
  BY DEF HandleBackground
<1> HIDE DEF u, t, gone
<1>7. /\ gone \in UIRecordType /\ PlaceFits(gone, InMap(r), r \in terminateList, Kinds(r))
      /\ PendingFits(gone, InMap(r), Kinds(r))
  BY <1>1, <1>3, <1>4, <1>5, HandledFits
<1>8. i = "background" => /\ t \in UIRecordType /\ PlaceFits(t, InMap(r), r \in terminateList, Kinds(r))
                          /\ PendingFits(t, InMap(r), Kinds(r))
  BY <1>1, <1>3, <1>4, <1>5, HandledFits
<1>9. /\ RecordFits(gone, InMap(r), r \in terminateList, Kinds(r))
      /\ i = "background" => RecordFits(t, InMap(r), r \in terminateList, Kinds(r))
  BY <1>7, <1>8 DEF PlaceFits, RecordFits, UnusedFits
<1>10. CASE t.impl = "background" /\ SetUI(r, t) /\ UNCHANGED <<sessionMap, terminateList, uiTasks>>
  BY <1>4, <1>8, <1>9, <1>10, StaysPut
<1>11. CASE AbilityTransactionDone(r, gone, "backgrounded")
  BY <1>2, <1>7, <1>11, AnswerKeeps
<1>12. CASE SetUI(r, gone) /\ UNCHANGED <<sessionMap, terminateList, uiTasks>>
  BY <1>7, <1>9, <1>12, StaysPut
<1> QED
  BY <1>6, <1>10, <1>11, <1>12

LEMMA TerminateCommandKeeps ==
  ASSUME UIInv, NEW r \in UIRecords, HandleInitialState(r)
  PROVE  UIInv'
<1> DEFINE u == uis[r]
           x == [Taken(r) EXCEPT !.impl = "stopped", !.window = "hidden"]
<1>1. Received(r, "terminate") /\ AbilityTransactionDone(r, x, "terminated")
  BY DEF HandleInitialState
<1>2. u \in UIRecordType /\ Known(r)
  BY <1>1, ReceivedFacts
<1>3. PICK s, i : /\ LeftOver(r, "terminate", s)
                  /\ i \in {"started", "foreground", "background", "stopped"}
                  /\ Taken(r) = [u EXCEPT !.commands = s, !.impl = i]
  BY <1>1, ReceivedFacts
<1>4. u.byAbility \in BOOLEAN
  BY <1>2 DEF UIRecordType
<1>5. x = Handled(r, s, "stopped", "hidden", u.byAbility)
  BY <1>2, <1>3 DEF UIRecordType, Handled
<1> HIDE DEF u, x
<1>6. /\ x \in UIRecordType /\ PlaceFits(x, InMap(r), r \in terminateList, Kinds(r))
      /\ PendingFits(x, InMap(r), Kinds(r))
  BY <1>1, <1>3, <1>4, <1>5, HandledFits
<1> QED
  BY <1>1, <1>2, <1>6, AnswerKeeps

\* The record after its window has reported, which the manager may hear of.
Reported(r, i, w, b, f) ==
  [uis[r] EXCEPT !.impl = i, !.window = w, !.byAbility = b, !.refused = f]

\* The window of a running ability reports: what is pending is still served.
LEMMA WindowFits ==
  ASSUME UIInv, NEW r \in UIRecords, uis[r].proc = "running",
         NEW i \in {"initial", "started", "foreground", "background", "stopped"},
         NEW w \in {"hidden", "shown"}, NEW b \in BOOLEAN, NEW f \in BOOLEAN,
         ~(i = "foreground" /\ w = "shown"), uis[r].refused => f,
         uis[r].window \in {"showing", "hiding"},
         NEW x, x = Reported(r, i, w, b, f)
  PROVE  /\ x \in UIRecordType /\ x.refused = f
         /\ PlaceFits(x, InMap(r), r \in terminateList, Kinds(r))
         /\ \/ PendingFits(x, InMap(r), Kinds(r))
            \/ x.state = "foregrounding" /\ uis[r].window = "showing"
<1> DEFINE u == uis[r]
<1>1. /\ u \in UIRecordType
      /\ PlaceFits(u, InMap(r), r \in terminateList, Kinds(r))
      /\ PendingFits(u, InMap(r), Kinds(r))
  BY RecordFacts DEF RecordFits
<1>2. x \in UIRecordType
  BY <1>1, ZenonT(60) DEF UIRecordType, Reported
<1>3. /\ x.state = u.state /\ x.proc = u.proc /\ x.ready = u.ready /\ x.told = u.told
      /\ x.watched = u.watched /\ x.terminating = u.terminating /\ x.refused = f
      /\ x.closeAsked = u.closeAsked
      /\ x.timers = u.timers /\ x.asked = u.asked /\ x.pending = u.pending
      /\ x.commands = u.commands /\ x.impl = i /\ x.window = w
  BY <1>1 DEF UIRecordType, Reported
<1> HIDE DEF u
<1>4. LastIs(x, "foreground") <=> LastIs(u, "foreground")
  BY <1>3 DEF LastIs
<1>5. Settling(u) => Settling(x)
  BY <1>3, <1>4 DEF Settling
<1>6. u.window \in {"showing", "hiding"} /\ u.proc = "running" /\ (u.refused => f)
  BY DEF u
<1>7. PlaceFits(x, InMap(r), r \in terminateList, Kinds(r))
  BY <1>1, <1>3, <1>5, <1>6 DEF PlaceFits, Accounted, MappedFits, BackgroundFits
<1>8. PendingFits(x, InMap(r), Kinds(r)) \/ (x.state = "foregrounding" /\ u.window = "showing")
  BY <1>1, <1>3, <1>4, <1>6 DEF PendingFits, Resolving
<1> QED
  BY <1>2, <1>3, <1>7, <1>8 DEF u

LEMMA AfterForegroundKeeps ==
  ASSUME UIInv, NEW r \in UIRecords, AfterForeground(r)
  PROVE  UIInv'
<1> DEFINE no == FALSE
           x == Reported(r, "background", "shown", no, uis[r].refused)
<1>1. uis[r] \in UIRecordType
  BY RecordFacts
<1>2. /\ uis[r].proc = "running" /\ Known(r) /\ uis[r].window = "showing"
      /\ AbilityTransactionDone(r, x, "foregrounded")
  <2>1. x = [[uis[r] EXCEPT !.window = "shown"] EXCEPT !.byAbility = FALSE, !.impl = "background"]
    BY <1>1 DEF UIRecordType, Reported
  <2> QED
    BY <2>1 DEF AfterForeground
<1>3. uis[r].refused \in BOOLEAN /\ no \in BOOLEAN
  BY <1>1 DEF UIRecordType
<1> HIDE DEF no
<1>4. /\ x \in UIRecordType /\ PlaceFits(x, InMap(r), r \in terminateList, Kinds(r))
      /\ PendingFits(x, InMap(r), Kinds(r)) \/ x.state = "foregrounding"
  BY <1>2, <1>3, WindowFits
<1> HIDE DEF x
<1> QED
  BY <1>2, <1>4, AnswerKeeps

LEMMA ForegroundFailedKeeps ==
  ASSUME UIInv, NEW r \in UIRecords, ForegroundFailed(r)
  PROVE  UIInv'
<1>1. PICK answer \in {"failed", "freezed", "nothing"} :
         AbilityTransactionDone(r, [uis[r] EXCEPT !.window = "hidden",
                                      !.refused = @ \/ answer # "failed"], answer)
  BY DEF ForegroundFailed
<1> DEFINE f == IF answer = "failed" THEN uis[r].refused ELSE TRUE
           x == Reported(r, uis[r].impl, "hidden", uis[r].byAbility, f)
<1>2. uis[r] \in UIRecordType
  BY RecordFacts
<1>3. uis[r].proc = "running" /\ Known(r) /\ uis[r].window = "showing"
  BY DEF ForegroundFailed
<1>4. /\ uis[r].refused \in BOOLEAN /\ uis[r].byAbility \in BOOLEAN
      /\ uis[r].impl \in {"initial", "started", "foreground", "background", "stopped"}
      /\ f \in BOOLEAN /\ (uis[r].refused => f)
  BY <1>2 DEF UIRecordType
<1>5. AbilityTransactionDone(r, x, answer)
  <2>1. f = (uis[r].refused \/ answer # "failed")
    BY <1>4
  <2>2. x = [uis[r] EXCEPT !.window = "hidden", !.refused = uis[r].refused \/ answer # "failed"]
    <3> HIDE DEF f
    <3> QED
      BY <1>2, <2>1 DEF UIRecordType, Reported
  <2> QED
    BY <1>1, <2>2
<1> HIDE DEF f
<1>6. /\ x \in UIRecordType /\ PlaceFits(x, InMap(r), r \in terminateList, Kinds(r))
      /\ x.refused = f
      /\ PendingFits(x, InMap(r), Kinds(r)) \/ x.state = "foregrounding"
  BY <1>3, <1>4, WindowFits
<1> HIDE DEF x
<1>7. answer # "failed" => x.refused
  BY <1>6 DEF f
<1>8. answer = "nothing" => PendingFits(x, InMap(r), Kinds(r))
  BY <1>7 DEF PendingFits
<1> QED
  BY <1>3, <1>5, <1>6, <1>7, <1>8, AnswerKeeps

LEMMA AfterBackgroundKeeps ==
  ASSUME UIInv, NEW r \in UIRecords, AfterBackground(r)
  PROVE  UIInv'
<1> DEFINE x == Reported(r, uis[r].impl, "hidden", uis[r].byAbility, uis[r].refused)
<1>1. uis[r] \in UIRecordType
  BY RecordFacts
<1>2. /\ uis[r].refused \in BOOLEAN /\ uis[r].byAbility \in BOOLEAN
      /\ uis[r].impl \in {"initial", "started", "foreground", "background", "stopped"}
      /\ x = [uis[r] EXCEPT !.window = "hidden"]
  BY <1>1 DEF UIRecordType, Reported
<1>3. /\ uis[r].proc = "running" /\ Known(r) /\ uis[r].window = "hiding"
      /\ \/ AbilityTransactionDone(r, x, "backgrounded")
         \/ SetUI(r, x) /\ UNCHANGED <<sessionMap, terminateList, uiTasks>>
  BY <1>2 DEF AfterBackground
<1>4. /\ x \in UIRecordType /\ PlaceFits(x, InMap(r), r \in terminateList, Kinds(r))
      /\ PendingFits(x, InMap(r), Kinds(r))
  BY <1>2, <1>3, WindowFits
<1> HIDE DEF x
<1>5. RecordFits(x, InMap(r), r \in terminateList, Kinds(r))
  BY <1>4 DEF PlaceFits, RecordFits, UnusedFits
<1> QED
  BY <1>3, <1>4, <1>5, AnswerKeeps, StaysPut

\* With the process go the answers it owed; the manager will hear of a record it still has.
LEMMA GoneFits ==
  ASSUME NEW u \in UIRecordType, NEW m, NEW c, NEW k, BackgroundFits(u, k),
         m => ~c /\ ~u.terminating /\ u.state # "terminating" /\ "died" \in k
  PROVE  ProcessGone(u) \in UIRecordType /\ RecordFits(ProcessGone(u), m, c, k)
<1>1. <<>> \in Seq({"foreground", "background", "terminate"})
  OBVIOUS
<1> DEFINE x == ProcessGone(u)
<1>2. x \in UIRecordType
  BY <1>1 DEF ProcessGone, Unheard, UIRecordType
<1>3. /\ x.proc = "dead" /\ x.commands = <<>> /\ x.impl = "initial" /\ x.window = "hidden"
      /\ x.told = {} /\ x.state = u.state /\ x.terminating = u.terminating
      /\ x.refused = u.refused /\ x.closeAsked = u.closeAsked
  BY DEF ProcessGone, Unheard, UIRecordType
<1> HIDE DEF x
<1>4. RecordFits(x, m, c, k)
  BY <1>3 DEF RecordFits, Accounted, UnusedFits, MappedFits, PendingFits, Resolving,
              BackgroundFits, Settling, LastIs
<1> QED
  BY <1>2, <1>4 DEF x

LEMMA ProcessEndsKeeps ==
  ASSUME UIInv, NEW r \in UIRecords, ProcessEnds(r)
  PROVE  UIInv'
<1> DEFINE u == uis[r]
<1>1. /\ u.proc \in {"starting", "running"} /\ SetUI(r, ProcessGone(u))
      /\ UNCHANGED <<sessionMap, terminateList>>
  BY DEF ProcessEnds
<1>2. u \in UIRecordType /\ PlaceFits(u, InMap(r), r \in terminateList, Kinds(r))
  BY <1>1, RecordFacts
<1>3. \/ PostUI("died", r)
      \/ UNCHANGED uiTasks /\ ~InMap(r)
  <2>1. InMap(r) => u.watched \/ (~u.ready /\ "terminate" \notin u.told)
    BY <1>1, <1>2 DEF PlaceFits, MappedFits, BackgroundFits
  <2> QED
    BY <2>1 DEF ProcessEnds
<1> HIDE DEF u
<1>4. CASE PostUI("died", r)
  <2> DEFINE k == Kinds(r) \cup {"died"}
  <2>1. BackgroundFits(u, k) /\ "died" \in k
    BY <1>2 DEF PlaceFits, BackgroundFits
  <2>2. InMap(r) => r \notin terminateList /\ ~u.terminating /\ u.state # "terminating"
    BY <1>2 DEF PlaceFits, MappedFits
  <2> HIDE DEF k
  <2>3. ProcessGone(u) \in UIRecordType /\ RecordFits(ProcessGone(u), InMap(r), r \in terminateList, k)
    BY <1>2, <2>1, <2>2, GoneFits
  <2>4. "died" \in UITaskKinds
    BY DEF UITaskKinds
  <2> QED
    BY <1>1, <1>4, <2>3, <2>4, PostsTask DEF k
<1>5. CASE UNCHANGED uiTasks /\ ~InMap(r)
  <2>1. /\ ProcessGone(u) \in UIRecordType
        /\ RecordFits(ProcessGone(u), InMap(r), r \in terminateList, Kinds(r))
    BY <1>2, <1>5, GoneFits DEF PlaceFits
  <2> QED
    BY <1>1, <1>5, <2>1, StaysPut
<1> QED
  BY <1>3, <1>4, <1>5

LEMMA CleanedKeeps ==
  ASSUME UIInv, NEW r \in UIRecords, AbilityCleaned(r)
  PROVE  UIInv'
<1> DEFINE u == uis[r]
<1>1. /\ u.proc \in {"starting", "running"} /\ "terminate" \in u.told /\ SetUI(r, ProcessGone(u))
      /\ UNCHANGED <<sessionMap, terminateList, uiTasks>>
  BY DEF AbilityCleaned
<1>2. u \in UIRecordType /\ PlaceFits(u, InMap(r), r \in terminateList, Kinds(r))
  BY <1>1, RecordFacts
<1> HIDE DEF u
<1>3. ~InMap(r)
  BY <1>1, <1>2 DEF PlaceFits, MappedFits
<1>4. /\ ProcessGone(u) \in UIRecordType
      /\ RecordFits(ProcessGone(u), InMap(r), r \in terminateList, Kinds(r))
  BY <1>2, <1>3, GoneFits DEF PlaceFits
<1> QED
  BY <1>1, <1>4, StaysPut

-----------------------------------------------------------------------------
(* Timeouts.                                                               *)

WithTimers(r, t) == [uis[r] EXCEPT !.timers = t]

\* Changing the timeouts of a record without changing what resolves its pending state.
LEMMA TimersFit ==
  ASSUME UIInv, NEW r \in UIRecords, uis[r].timers # {}, NEW t \in SUBSET UITimers,
         NEW x, x = WithTimers(r, t),
         "load" \in uis[r].timers => "load" \in t
  PROVE  /\ x \in UIRecordType /\ x.state = uis[r].state /\ x.pending = uis[r].pending
         /\ PlaceFits(x, InMap(r), r \in terminateList, Kinds(r))
         /\ \/ PendingFits(x, InMap(r), Kinds(r))
            \/ x.state = "foregrounding" /\ "foreground" \in uis[r].timers \ t
            \/ x.state = "backgrounding" /\ "background" \in uis[r].timers \ t
<1> DEFINE u == uis[r]
<1>1. u.proc # "none"
  BY RecordFacts DEF RecordFits, UnusedFits, UnusedUI
<1>2. /\ u \in UIRecordType /\ PlaceFits(u, InMap(r), r \in terminateList, Kinds(r))
      /\ PendingFits(u, InMap(r), Kinds(r))
  BY <1>1, RecordFacts DEF RecordFits
<1>3. x \in UIRecordType
  BY <1>2 DEF UIRecordType, WithTimers
<1>4. /\ x.state = u.state /\ x.proc = u.proc /\ x.ready = u.ready /\ x.told = u.told
      /\ x.watched = u.watched /\ x.terminating = u.terminating
      /\ x.refused = u.refused /\ x.closeAsked = u.closeAsked
      /\ x.timers = t /\ x.asked = u.asked /\ x.pending = u.pending
      /\ x.commands = u.commands /\ x.impl = u.impl /\ x.window = u.window
  BY <1>2 DEF UIRecordType, WithTimers
<1>5. u.timers = uis[r].timers
  OBVIOUS
<1> HIDE DEF u
<1>6. PlaceFits(x, InMap(r), r \in terminateList, Kinds(r))
  BY <1>2, <1>4 DEF PlaceFits, Accounted, MappedFits, BackgroundFits, Settling, LastIs
<1>7. \/ PendingFits(x, InMap(r), Kinds(r))
      \/ x.state = "foregrounding" /\ "foreground" \in u.timers \ t
      \/ x.state = "backgrounding" /\ "background" \in u.timers \ t
  BY <1>2, <1>4, <1>5 DEF PendingFits, Resolving, LastIs
<1> QED
  BY <1>3, <1>4, <1>6, <1>7 DEF u

LEMMA OnTimeOutKeeps ==
  ASSUME UIInv, NEW r \in UIRecords, NEW timer \in {"load", "foreground"}, OnTimeOut(r, timer)
  PROVE  UIInv'
<1> DEFINE u == Disarm(uis[r], timer)
           acts == timer = "load" \/ u.state = "foregrounding"
<1>1. /\ InMap(r) /\ timer \in uis[r].timers /\ UNCHANGED <<terminateList, uiTasks>>
      /\ SetUI(r, IF acts THEN ToldTo(Unheard(u), "kill") ELSE u)
      /\ sessionMap' = IF acts THEN Erased(r) ELSE sessionMap
  BY DEF OnTimeOut
<1>2. /\ uis[r] \in UIRecordType /\ uis[r].proc # "none"
      /\ PlaceFits(uis[r], InMap(r), r \in terminateList, Kinds(r))
  BY <1>1, RecordFacts
<1> DEFINE t == uis[r].timers \ {timer}
<1>3. u = WithTimers(r, t) /\ t \in SUBSET UITimers
  BY <1>2 DEF Disarm, UIRecordType, WithTimers
<1>4. /\ uiTasks' \in Seq(TaskType)
      /\ \A q \in UIRecords : Kinds(q)' = Kinds(q)
  BY <1>1 DEF UIInv, UITypes, TaskType, Kinds
<1>5. u \in UIRecordType /\ u.proc # "none" /\ BackgroundFits(u, Kinds(r))
  BY <1>2, DisarmFits DEF PlaceFits
<1>6. CASE acts
  <2> DEFINE x == ToldTo(Unheard(u), "kill")
  <2>1. SetUI(r, x) /\ sessionMap' = Erased(r) /\ terminateList' = terminateList
    BY <1>1, <1>6
  <2> HIDE DEF u
  <2>2. Unheard(u) \in UIRecordType /\ Unheard(u).proc # "none" /\ BackgroundFits(Unheard(u), Kinds(r))
    BY <1>5, UnheardFits
  <2>3. x \in UIRecordType /\ RecordFits(x, FALSE, r \in terminateList', Kinds(r))
    BY <2>2, ToldFits
  <2>4. MovesTo(r, Kinds(r))
    <3> HIDE DEF x
    <3> QED
      BY <2>1, <2>3, ErasedMoves
  <2> QED
    BY <1>4, <2>4, MovesKeeps
<1>7. CASE ~acts
  <2>1. SetUI(r, u) /\ sessionMap' = sessionMap
    BY <1>1, <1>7
  <2>2. timer = "foreground" /\ u.state # "foregrounding"
    BY <1>7
  <2>3. /\ PlaceFits(u, InMap(r), r \in terminateList, Kinds(r))
        /\ PendingFits(u, InMap(r), Kinds(r))
    <3>1. "background" \notin uis[r].timers \ t /\ ("load" \in uis[r].timers => "load" \in t)
          /\ uis[r].timers # {}
      BY <1>1, <2>2
    <3> HIDE DEF u, t
    <3> QED
      BY <1>3, <2>2, <3>1, TimersFit
  <2> HIDE DEF u
  <2>4. RecordFits(u, InMap(r), r \in terminateList, Kinds(r))
    BY <2>3 DEF PlaceFits, RecordFits, UnusedFits
  <2> QED
    BY <1>1, <1>5, <2>1, <2>4, StaysPut
<1> QED
  BY <1>6, <1>7

LEMMA TerminateTimeoutKeeps ==
  ASSUME UIInv, NEW r \in UIRecords, TerminateTimeout(r)
  PROVE  UIInv'
<1> DEFINE t == (uis[r].timers \ {"terminate"}) \cup {"kill"}
           x == WithTimers(r, t)
<1>1. uis[r] \in UIRecordType
  BY RecordFacts
<1>2. SetUI(r, x) /\ "terminate" \in uis[r].timers /\ UNCHANGED <<sessionMap, terminateList, uiTasks>>
  BY DEF TerminateTimeout, Due, Arm, Disarm, WithTimers
<1>3. /\ t \in SUBSET UITimers /\ uis[r].timers # {}
      /\ "load" \in uis[r].timers => "load" \in t
      /\ "foreground" \notin uis[r].timers \ t /\ "background" \notin uis[r].timers \ t
  BY <1>1, <1>2 DEF UIRecordType, UITimers
<1> HIDE DEF t
<1>4. /\ x \in UIRecordType /\ PlaceFits(x, InMap(r), r \in terminateList, Kinds(r))
      /\ PendingFits(x, InMap(r), Kinds(r))
  BY <1>2, <1>3, TimersFit
<1> HIDE DEF x
<1>5. RecordFits(x, InMap(r), r \in terminateList, Kinds(r))
  BY <1>4 DEF PlaceFits, RecordFits, UnusedFits
<1> QED
  BY <1>2, <1>4, <1>5, StaysPut

-----------------------------------------------------------------------------
(* The completions of transitions, from a task or from a timeout: v is the *)
(* record they find, k the tasks that are left for it.                     *)

LEMMA TerminateMoves ==
  ASSUME UIInv, NEW r \in UIRecords, NEW v \in UIRecordType, NEW k, NEW us,
         us = [uis EXCEPT ![r] = v], CompleteTerminate(r, us),
         RecordFits(v, InMap(r), r \in terminateList, k), v.proc # "none"
  PROVE  MovesTo(r, k)
<1>1. us[r] = v /\ uis \in [UIRecords -> UIRecordType]
  BY DEF UIInv, UITypes
<1>2. CASE v.state # "terminating"
  BY <1>1, <1>2, StaysMoves DEF CompleteTerminate, SetUI
<1>3. CASE v.state = "terminating"
  <2> DEFINE y == [Unheard(v) EXCEPT !.watched = FALSE]
             x == ToldTo(y, "terminate")
  <2>1. ~InMap(r)
    BY <1>3 DEF RecordFits, MappedFits
  <2>2. BackgroundFits(v, k)
    BY DEF RecordFits
  <2>3. Unheard(v) \in UIRecordType /\ Unheard(v).proc = v.proc /\ BackgroundFits(Unheard(v), k)
    BY <2>2, UnheardFits
  <2>4. y \in UIRecordType /\ y.proc # "none" /\ BackgroundFits(y, k)
    <3> DEFINE h == Unheard(v)
    <3> HIDE DEF h
    <3>1. h \in UIRecordType /\ h.proc # "none" /\ BackgroundFits(h, k) /\ y = [h EXCEPT !.watched = FALSE]
      BY <2>3 DEF h
    <3> HIDE DEF y
    <3>2. /\ y \in UIRecordType /\ y.proc = h.proc /\ y.ready = h.ready /\ y.commands = h.commands
          /\ y.impl = h.impl /\ y.window = h.window /\ y.state = h.state
          /\ y.refused = h.refused /\ y.closeAsked = h.closeAsked
      BY <3>1 DEF UIRecordType
    <3> QED
      BY <3>1, <3>2 DEF BackgroundFits, Settling, LastIs
  <2>5. uis' = [us EXCEPT ![r] = x] /\ terminateList' = terminateList \ {r} /\ sessionMap' = sessionMap
    BY <1>1, <1>3 DEF CompleteTerminate
  <2> HIDE DEF y
  <2>6. x \in UIRecordType /\ RecordFits(x, FALSE, r \in terminateList', k)
    BY <2>4, ToldFits
  <2> HIDE DEF x
  <2>7. SetUI(r, x)
    BY <1>1, <2>5 DEF SetUI
  <2>8. /\ sessionMap' \in [UISessions -> UIRecords \cup {NoUI}]
        /\ terminateList' \subseteq UIRecords
        /\ \A q \in UIRecords \ {r} : q \in terminateList' <=> q \in terminateList
    BY <2>5 DEF UIInv, UITypes
  <2>9. \A q \in UIRecords : InMap(q)' <=> InMap(q)
    BY <2>5 DEF InMap
  <2>10. RecordFits(x, InMap(r)', r \in terminateList', k)
    BY <2>1, <2>6, <2>9 DEF RecordFits, Accounted, UnusedFits, MappedFits, PendingFits
  <2> QED
    BY <2>6, <2>7, <2>8, <2>9, <2>10 DEF MovesTo
<1> QED
  BY <1>2, <1>3

\* The ability is in the background: what is pending is asked for or served.
LEMMA BackgroundNext ==
  ASSUME NEW v \in UIRecordType, NEW m, NEW c, NEW k, PlaceFits(v, m, c, k),
         v.state = "backgrounding", NEW u, u = [v EXCEPT !.state = "background"],
         NEW x, x = CASE u.pending = "foreground" -> MoveToForeground(Arm(u, "foreground"))
                      [] u.pending = "background" -> [u EXCEPT !.pending = "initial"]
                      [] OTHER -> u
  PROVE  x \in UIRecordType /\ RecordFits(x, m, c, k)
<1>1. u \in UIRecordType /\ PlaceFits(u, m, c, k)
  BY DEF UIRecordType, UIStates, PlaceFits, Accounted, MappedFits, BackgroundFits, Settling, LastIs
<1>2. CASE u.pending = "foreground"
  <2> DEFINE y == Arm(u, "foreground")
  <2>1. PICK t \in SUBSET UITimers : y = [u EXCEPT !.timers = t]
    BY <1>1 DEF Arm, UIRecordType, UITimers
  <2>2. y \in UIRecordType /\ y.proc = u.proc
    BY <1>1, <2>1, ZenonT(60) DEF UIRecordType
  <2> HIDE DEF y
  <2>3. PICK b \in BOOLEAN : /\ x = [y EXCEPT !.asked = b]
                             /\ b <=> u.proc \in {"starting", "running"}
    BY <1>2, <2>2, MoveToForegroundFacts DEF y
  <2>4. x = [u EXCEPT !.timers = t, !.asked = b]
    BY <2>1, <2>3
  <2>5. x \in UIRecordType
    BY <2>2, <2>3 DEF UIRecordType
  <2>6. /\ x.proc = u.proc /\ x.ready = u.ready /\ x.commands = u.commands /\ x.told = u.told
        /\ x.impl = u.impl /\ x.window = u.window /\ x.state = u.state
        /\ x.refused = u.refused /\ x.closeAsked = u.closeAsked
        /\ x.watched = u.watched /\ x.terminating = u.terminating /\ x.asked = b
    BY <1>1, <2>3, <2>4 DEF UIRecordType
  <2>7. u.proc \in {"starting", "running"} \/ u.proc = "dead"
    BY <1>1 DEF PlaceFits, UIRecordType
  <2>8. RecordFits(x, m, c, k)
    BY <1>1, <2>3, <2>6, <2>7 DEF PlaceFits, RecordFits, Accounted, UnusedFits, MappedFits, PendingFits,
                                  Resolving, BackgroundFits, Settling, LastIs
  <2> QED
    BY <2>5, <2>8
<1>3. CASE u.pending # "foreground"
  <2>1. x = [u EXCEPT !.pending = "initial"]
    BY <1>1, <1>3 DEF UIRecordType
  <2>2. x \in UIRecordType /\ PlaceFits(x, m, c, k)
    <3>1. /\ [u EXCEPT !.pending = "initial"] \in UIRecordType
          /\ PlaceFits([u EXCEPT !.pending = "initial"], m, c, k)
      BY <1>1, WithPending
    <3> QED
      BY <2>1, <3>1
  <2>3. x.pending = "initial"
    BY <1>1, <2>1 DEF UIRecordType
  <2> QED
    BY <2>2, <2>3 DEF PlaceFits, RecordFits, UnusedFits, PendingFits
<1> QED
  BY <1>2, <1>3

LEMMA CompleteBackgroundKeeps ==
  ASSUME UIInv, NEW r \in UIRecords, NEW v \in UIRecordType, NEW us,
         us = [uis EXCEPT ![r] = v], CompleteBackground(r, us), v.proc # "none",
         NEW k, k = Kinds(r)', PlaceFits(v, InMap(r), r \in terminateList, k),
         v.state # "backgrounding" => PendingFits(v, InMap(r), k),
         uiTasks' \in Seq(TaskType), \A q \in UIRecords \ {r} : Kinds(q)' = Kinds(q)
  PROVE  UIInv'
<1>1. /\ us[r] = v /\ uis \in [UIRecords -> UIRecordType]
      /\ us \in [UIRecords -> UIRecordType] /\ \A q \in UIRecords \ {r} : us[q] = uis[q]
  BY DEF UIInv, UITypes
<1>2. UNCHANGED <<sessionMap, terminateList>>
  BY DEF CompleteBackground
<1>3. CASE v.state # "backgrounding"
  <2>1. SetUI(r, v)
    BY <1>1, <1>3 DEF CompleteBackground, SetUI
  <2>2. RecordFits(v, InMap(r), r \in terminateList, k)
    BY <1>3 DEF PlaceFits, RecordFits, UnusedFits
  <2>3. MovesTo(r, k)
    BY <1>2, <2>1, <2>2, StaysMoves
  <2> QED
    BY <2>3, MovesKeeps
<1>4. CASE v.state = "backgrounding"
  <2> DEFINE u == [v EXCEPT !.state = "background"]
             x == CASE u.pending = "foreground" -> MoveToForeground(Arm(u, "foreground"))
                    [] u.pending = "background" -> [u EXCEPT !.pending = "initial"]
                    [] OTHER -> u
             all == [us EXCEPT ![r] = x]
  <2>1. uis' = [q \in UIRecords |-> IF q \in terminateList /\ all[q].state = "background"
                                    THEN TerminateUI(all[q]) ELSE all[q]]
    BY <1>1, <1>4 DEF CompleteBackground
  <2>2. x \in UIRecordType /\ RecordFits(x, InMap(r), r \in terminateList, k)
    BY <1>4, BackgroundNext
  <2> HIDE DEF x
  <2>3. ASSUME NEW q \in UIRecords
        PROVE  /\ all[q] \in UIRecordType
               /\ RecordFits(all[q], InMap(q), q \in terminateList, Kinds(q)')
    <3>1. CASE q = r
      BY <1>1, <2>2, <3>1
    <3>2. CASE q # r
      <4>1. all[q] = uis[q] /\ Kinds(q)' = Kinds(q)
        BY <1>1, <3>2
      <4> QED
        BY <4>1, RecordFacts
    <3> QED
      BY <3>1, <3>2
  <2> HIDE DEF all
  <2>4. ASSUME NEW q \in UIRecords
        PROVE  /\ uis'[q] \in UIRecordType
               /\ RecordFits(uis'[q], InMap(q), q \in terminateList, Kinds(q)')
    <3>1. CASE q \in terminateList /\ all[q].state = "background"
      <4>1. uis'[q] = TerminateUI(all[q])
        BY <2>1, <3>1
      <4>2. ~InMap(q) /\ PlaceFits(all[q], FALSE, q \in terminateList, Kinds(q)')
        BY <2>3, <3>1 DEF RecordFits, Accounted, UnusedFits, MappedFits, PlaceFits
      <4>3. /\ TerminateUI(all[q]) \in UIRecordType
            /\ RecordFits(TerminateUI(all[q]), FALSE, q \in terminateList, Kinds(q)')
        BY <2>3, <4>2, TerminatingFits
      <4> QED
        BY <4>1, <4>2, <4>3 DEF RecordFits, Accounted, UnusedFits, MappedFits, PendingFits
    <3>2. CASE ~(q \in terminateList /\ all[q].state = "background")
      <4>1. uis'[q] = all[q]
        BY <2>1, <3>2
      <4> QED
        BY <2>3, <4>1
    <3> QED
      BY <3>1, <3>2
  <2>5. uis' \in [UIRecords -> UIRecordType]
    BY <2>1, <2>4
  <2>6. UITypes'
    BY <1>2, <2>5 DEF UIInv, UITypes, TaskType
  <2>7. ASSUME NEW q \in UIRecords
        PROVE  RecordFits(uis'[q], InMap(q)', q \in terminateList', Kinds(q)')
    <3>1. InMap(q)' <=> InMap(q)
      BY <1>2 DEF InMap
    <3> QED
      BY <1>2, <2>4, <3>1 DEF RecordFits, Accounted, UnusedFits, MappedFits, PendingFits
  <2> QED
    BY <2>6, <2>7 DEF UIInv
<1> QED
  BY <1>3, <1>4

LEMMA BackgroundTimeoutKeeps ==
  ASSUME UIInv, NEW r \in UIRecords, UIBackgroundTimeout(r)
  PROVE  UIInv'
<1> DEFINE t == uis[r].timers \ {"background"}
           v == WithTimers(r, t)
           us == [uis EXCEPT ![r] = v]
<1>1. uis[r] \in UIRecordType /\ uis \in [UIRecords -> UIRecordType]
  BY RecordFacts DEF UIInv, UITypes
<1>2. /\ "background" \in uis[r].timers /\ uiTasks' = uiTasks
      /\ CompleteBackground(r, us)
  BY DEF UIBackgroundTimeout, Due, Disarm, WithTimers
<1>3. /\ t \in SUBSET UITimers /\ uis[r].timers # {}
      /\ "load" \in uis[r].timers => "load" \in t
      /\ "foreground" \notin uis[r].timers \ t
  BY <1>1, <1>2 DEF UIRecordType, UITimers
<1>4. /\ uiTasks' \in Seq(TaskType)
      /\ \A q \in UIRecords : Kinds(q)' = Kinds(q)
  BY <1>2 DEF UIInv, UITypes, TaskType, Kinds
<1> HIDE DEF t
<1>5. /\ v \in UIRecordType /\ PlaceFits(v, InMap(r), r \in terminateList, Kinds(r))
      /\ v.state # "backgrounding" => PendingFits(v, InMap(r), Kinds(r))
  BY <1>3, TimersFit
<1> HIDE DEF v
<1>6. v.proc # "none"
  BY <1>5 DEF PlaceFits
<1> HIDE DEF us
<1>7. us = [uis EXCEPT ![r] = v]
  BY DEF us
<1> QED
  BY <1>2, <1>4, <1>5, <1>6, <1>7, CompleteBackgroundKeeps

LEMMA KillTimeoutKeeps ==
  ASSUME UIInv, NEW r \in UIRecords, KillTimeout(r)
  PROVE  UIInv'
<1> DEFINE t == uis[r].timers \ {"kill"}
           v == WithTimers(r, t)
           us == [uis EXCEPT ![r] = v]
<1>1. uis[r] \in UIRecordType /\ uis \in [UIRecords -> UIRecordType]
  BY RecordFacts DEF UIInv, UITypes
<1>2. /\ "kill" \in uis[r].timers /\ uiTasks' = uiTasks
      /\ CompleteTerminate(r, us)
  BY DEF KillTimeout, Due, Disarm, WithTimers
<1>3. /\ t \in SUBSET UITimers /\ uis[r].timers # {}
      /\ "load" \in uis[r].timers => "load" \in t
      /\ "foreground" \notin uis[r].timers \ t /\ "background" \notin uis[r].timers \ t
  BY <1>1, <1>2 DEF UIRecordType, UITimers
<1>4. /\ uiTasks' \in Seq(TaskType)
      /\ \A q \in UIRecords : Kinds(q)' = Kinds(q)
  BY <1>2 DEF UIInv, UITypes, TaskType, Kinds
<1> HIDE DEF t
<1>5. /\ v \in UIRecordType /\ PlaceFits(v, InMap(r), r \in terminateList, Kinds(r))
      /\ PendingFits(v, InMap(r), Kinds(r))
  BY <1>3, TimersFit
<1> HIDE DEF v
<1>6. v.proc # "none" /\ RecordFits(v, InMap(r), r \in terminateList, Kinds(r))
  BY <1>5 DEF PlaceFits, RecordFits, UnusedFits
<1> HIDE DEF us
<1>7. us = [uis EXCEPT ![r] = v]
  BY DEF us
<1>8. MovesTo(r, Kinds(r))
  BY <1>2, <1>5, <1>6, <1>7, TerminateMoves
<1> QED
  BY <1>4, <1>8, MovesKeeps

\* The queue after its first task has run.  The task of a death posts another one.
LEMMA QueueFacts ==
  ASSUME UIInv, RunUITask
  PROVE  LET kind == Head(uiTasks).kind
             r    == Head(uiTasks).record
         IN /\ kind \in UITaskKinds /\ r \in UIRecords
            /\ kind \in Kinds(r)
            /\ uiTasks' \in Seq(TaskType)
            /\ \A q \in UIRecords \ {r} : Kinds(q)' = Kinds(q)
            /\ \E k : /\ \A q \in UIRecords : q = r => k = Kinds(q)'
                      /\ \A j \in UITaskKinds : /\ j \in Kinds(r) /\ j # kind => j \in k
                                                /\ j \in k => j \in Kinds(r) \/ j = "terminated"
<1> DEFINE kind == Head(uiTasks).kind
           r    == Head(uiTasks).record
           e    == [kind |-> "terminated", record |-> r]
           there(s, q, j) == \E i \in DOMAIN s : s[i] = [kind |-> j, record |-> q]
<1>1. uiTasks # <<>> /\ uiTasks' = IF kind = "died" THEN Append(Tail(uiTasks), e) ELSE Tail(uiTasks)
  BY DEF RunUITask
<1>2. /\ Head(uiTasks) \in TaskType
      /\ Tail(uiTasks) \in Seq(TaskType)
      /\ \A q \in UIRecords, j \in UITaskKinds :
            /\ there(Tail(uiTasks), q, j) => there(uiTasks, q, j)
            /\ there(uiTasks, q, j) => there(Tail(uiTasks), q, j) \/ (q = r /\ j = kind)
  BY <1>1, TakenKinds DEF UIInv
<1>3. kind \in UITaskKinds /\ r \in UIRecords /\ Head(uiTasks) = [kind |-> kind, record |-> r]
  BY <1>2 DEF TaskType
<1>4. there(uiTasks, r, kind)
  <2>1. uiTasks \in Seq(TaskType)
    BY DEF UIInv, UITypes, TaskType
  <2>2. 1 \in DOMAIN uiTasks /\ uiTasks[1] = Head(uiTasks)
    BY <1>1, <2>1, EmptySeq
  <2> QED
    BY <1>3, <2>2
<1>5. e \in TaskType
  BY <1>3 DEF TaskType, UITaskKinds
<1>6. /\ uiTasks' \in Seq(TaskType)
      /\ \A q \in UIRecords, j \in UITaskKinds :
            /\ there(Tail(uiTasks), q, j) => there(uiTasks', q, j)
            /\ there(uiTasks', q, j) => there(Tail(uiTasks), q, j) \/ (q = r /\ j = "terminated")
  <2>1. CASE kind = "died"
    <3> DEFINE s == Tail(uiTasks)
    <3>1. s \in Seq(TaskType) /\ uiTasks' = Append(s, e)
      BY <1>1, <1>2, <2>1
    <3>2. e.kind = "terminated" /\ e.record = r
      OBVIOUS
    <3> HIDE DEF s, e, r, kind
    <3>3. /\ uiTasks' \in Seq(TaskType) /\ Len(s) \in Nat
          /\ DOMAIN uiTasks' = 1..(Len(s) + 1) /\ DOMAIN s = 1..Len(s)
          /\ uiTasks'[Len(s) + 1] = e
          /\ \A i \in 1..Len(s) : uiTasks'[i] = s[i]
      BY <1>5, <3>1
    <3>4. \A q \in UIRecords, j \in UITaskKinds : there(s, q, j) => there(uiTasks', q, j)
      BY <3>3
    <3>5. ASSUME NEW q \in UIRecords, NEW j \in UITaskKinds, there(uiTasks', q, j)
          PROVE  there(s, q, j) \/ (q = r /\ j = "terminated")
      <4>1. PICK i \in DOMAIN uiTasks' : uiTasks'[i] = [kind |-> j, record |-> q]
        BY <3>5
      <4>2. CASE i \in DOMAIN s
        BY <3>3, <4>1, <4>2
      <4>3. CASE i \notin DOMAIN s
        <5>1. e = [kind |-> j, record |-> q]
          BY <3>3, <4>1, <4>3
        <5> QED
          BY <3>2, <5>1
      <4> QED
        BY <4>2, <4>3
    <3> QED
      BY <3>3, <3>4, <3>5 DEF s
  <2>2. CASE kind # "died"
    BY <1>1, <1>2, <2>2
  <2> QED
    BY <2>1, <2>2
<1>7. \A q \in UIRecords, j \in UITaskKinds :
         /\ j \in Kinds(q) <=> there(uiTasks, q, j)
         /\ j \in Kinds(q)' <=> there(uiTasks', q, j)
  BY DEF Kinds
<1>8. \A q \in UIRecords : Kinds(q) \subseteq UITaskKinds /\ Kinds(q)' \subseteq UITaskKinds
  BY DEF Kinds
<1> HIDE DEF there, r, kind
<1>9. ASSUME NEW q \in UIRecords \ {r} PROVE Kinds(q)' = Kinds(q)
  <2>1. \A j \in UITaskKinds : j \in Kinds(q)' <=> j \in Kinds(q)
    BY <1>2, <1>6, <1>7
  <2> QED
    BY <1>8, <2>1
<1>10. \E k : /\ \A q \in UIRecords : q = r => k = Kinds(q)'
              /\ \A j \in UITaskKinds : /\ j \in Kinds(r) /\ j # kind => j \in k
                                        /\ j \in k => j \in Kinds(r) \/ j = "terminated"
  <2>1. PICK q \in UIRecords : q = r
    BY <1>3
  <2>2. \A j \in UITaskKinds : /\ j \in Kinds(q) /\ j # kind => j \in Kinds(q)'
                               /\ j \in Kinds(q)' => j \in Kinds(q) \/ j = "terminated"
    BY <1>2, <1>6, <1>7, <2>1
  <2> QED
    BY <2>1, <2>2
<1> QED
  BY <1>3, <1>4, <1>6, <1>7, <1>9, <1>10 DEF r, kind

\* The completion of a foreground transition serves what is pending, or goes on with it.
LEMMA ForegroundSuccessMoves ==
  ASSUME UIInv, NEW r \in UIRecords, NEW k, CompleteForegroundSuccess(r),
         PlaceFits(uis[r], InMap(r), r \in terminateList, k)
  PROVE  MovesTo(r, k)
<1>1. uis[r] \in UIRecordType
  BY RecordFacts
<1> DEFINE b == uis[r].visible \/ \E s \in StatusBarSessions : sessionMap[s] = r
           u == [uis[r] EXCEPT !.state = "foreground", !.visible = b]
<1>2. /\ SetUI(r, CASE u.pending = "background" -> MoveToBackground(u)
                    [] u.pending = "foreground" -> [u EXCEPT !.pending = "initial"]
                    [] OTHER -> u)
      /\ UNCHANGED <<sessionMap, terminateList>>
  BY DEF CompleteForegroundSuccess
<1>3. b \in BOOLEAN
  BY <1>1 DEF UIRecordType
<1> HIDE DEF b
<1>4. u \in UIRecordType
  BY <1>1, <1>3 DEF UIRecordType, UIStates
<1>5. PlaceFits(u, InMap(r), r \in terminateList, k)
  BY <1>1 DEF UIRecordType, PlaceFits, Accounted, MappedFits, BackgroundFits
<1> HIDE DEF u
<1>6. CASE u.pending = "background"
  <2>1. /\ MoveToBackground(u) \in UIRecordType
        /\ RecordFits(MoveToBackground(u), InMap(r), r \in terminateList, k)
    BY <1>4, <1>5, BackgroundingFits
  <2>2. SetUI(r, MoveToBackground(u))
    BY <1>2, <1>6
  <2> QED
    BY <1>2, <2>1, <2>2, StaysMoves
<1>7. CASE u.pending # "background"
  <2> DEFINE x == [u EXCEPT !.pending = "initial"]
  <2>1. SetUI(r, x)
    BY <1>2, <1>4, <1>7 DEF UIRecordType
  <2>2. x \in UIRecordType /\ PlaceFits(x, InMap(r), r \in terminateList, k) /\ x.pending = "initial"
    BY <1>4, <1>5, WithPending, ZenonT(60) DEF UIRecordType
  <2> HIDE DEF x
  <2>3. RecordFits(x, InMap(r), r \in terminateList, k)
    BY <2>2 DEF PlaceFits, RecordFits, UnusedFits, PendingFits
  <2> QED
    BY <1>2, <2>1, <2>2, <2>3, StaysMoves
<1> QED
  BY <1>6, <1>7

\* A death takes the ability out of the session map.
LEMMA DiedMoves ==
  ASSUME UIInv, NEW r \in UIRecords, NEW k, UIOnAbilityDied(r), uis[r].proc # "none",
         BackgroundFits(uis[r], k)
  PROVE  MovesTo(r, k)
<1>1. uis[r] \in UIRecordType
  BY RecordFacts
<1>2. PICK t : /\ t \subseteq uis[r].timers
               /\ SetUI(r, ToldTo([uis[r] EXCEPT !.timers = t, !.state = "terminating"], "kill"))
               /\ sessionMap' = Erased(r)
               /\ terminateList' = terminateList \cup {r}
  BY ZenonT(60) DEF UIOnAbilityDied
<1> DEFINE y == [uis[r] EXCEPT !.timers = t, !.state = "terminating"]
<1>3. y \in UIRecordType /\ y.proc # "none" /\ BackgroundFits(y, k)
  BY <1>1, <1>2 DEF UIRecordType, UIStates, BackgroundFits
<1> HIDE DEF y
<1>4. /\ ToldTo(y, "kill") \in UIRecordType
      /\ RecordFits(ToldTo(y, "kill"), FALSE, r \in terminateList', k)
  BY <1>3, ToldFits
<1> QED
  BY <1>2, <1>4, ErasedMoves DEF y

LEMMA RunTaskKeeps ==
  ASSUME UIInv, RunUITask
  PROVE  UIInv'
<1> DEFINE kind == Head(uiTasks).kind
<1>1. PICK r \in UIRecords : r = Head(uiTasks).record
  BY QueueFacts
<1>2. /\ kind \in UITaskKinds /\ kind \in Kinds(r)
      /\ uiTasks' \in Seq(TaskType)
      /\ \A q \in UIRecords \ {r} : Kinds(q)' = Kinds(q)
  BY <1>1, QueueFacts
<1>3. PICK k : /\ k = Kinds(r)'
               /\ \A j \in UITaskKinds : /\ j \in Kinds(r) /\ j # kind => j \in k
                                         /\ j \in k => j \in Kinds(r) \/ j = "terminated"
  BY <1>1, QueueFacts
<1> HIDE DEF kind
<1>4. /\ "died" \in Kinds(r) /\ kind # "died" => "died" \in k
      /\ "foregrounded" \in Kinds(r) /\ kind # "foregrounded" => "foregrounded" \in k
      /\ "failed" \in Kinds(r) /\ kind # "failed" => "failed" \in k
      /\ "backgrounded" \in Kinds(r) /\ kind # "backgrounded" => "backgrounded" \in k
      /\ "freezed" \in k => "freezed" \in Kinds(r)
  BY <1>3 DEF UITaskKinds
<1> DEFINE u == uis[r]
<1>5. u.proc # "none" /\ u \in UIRecordType /\ uis \in [UIRecords -> UIRecordType]
      /\ PlaceFits(u, InMap(r), r \in terminateList, Kinds(r))
      /\ PendingFits(u, InMap(r), Kinds(r))
      /\ BackgroundFits(u, Kinds(r))
  <2>1. Kinds(r) # {}
    BY <1>2
  <2> QED
    BY <2>1, RecordFacts DEF UIInv, UITypes, RecordFits
<1>6. BackgroundFits(u, k)
  BY <1>4, <1>5 DEF BackgroundFits
<1>7. kind # "died" => PlaceFits(u, InMap(r), r \in terminateList, k)
  BY <1>4, <1>5, <1>6 DEF PlaceFits, MappedFits
<1>8. \/ kind = "died" \/ kind = "foregrounded"
      \/ kind = "failed" /\ u.state = "foregrounding"
      \/ kind = "backgrounded" /\ u.state = "backgrounding"
      \/ RecordFits(u, InMap(r), r \in terminateList, k)
  <2>1. kind \notin {"died", "foregrounded"} /\ ~(kind = "failed" /\ u.state = "foregrounding")
        /\ ~(kind = "backgrounded" /\ u.state = "backgrounding")
        => PendingFits(u, InMap(r), k)
    BY <1>4, <1>5 DEF PendingFits, Resolving
  <2> QED
    BY <1>5, <1>7, <2>1 DEF PlaceFits, RecordFits, UnusedFits
<1>9. uis = [uis EXCEPT ![r] = u]
  BY <1>5
<1>10. CASE kind = "foregrounded"
  <2>1. CompleteForegroundSuccess(r)
    BY <1>1, <1>10 DEF RunUITask, kind
  <2>2. MovesTo(r, k)
    BY <1>7, <1>10, <2>1, ForegroundSuccessMoves
  <2> QED
    BY <1>2, <1>3, <2>2, MovesKeeps
<1>11. CASE kind = "failed"
  <2>1. HandleForegroundFailed(r)
    BY <1>1, <1>11 DEF RunUITask, kind
  <2>2. CASE u.state = "foregrounding"
    <3>1. MovesTo(r, k)
      BY <1>7, <1>11, <2>1, <2>2, CloseMoves DEF HandleForegroundFailed
    <3> QED
      BY <1>2, <1>3, <3>1, MovesKeeps
  <2>3. CASE u.state # "foregrounding"
    <3>1. SetUI(r, u) /\ UNCHANGED <<sessionMap, terminateList>>
      BY <1>9, <2>1, <2>3 DEF HandleForegroundFailed, SetUI
    <3> HIDE DEF u
    <3>2. MovesTo(r, k)
      BY <1>5, <1>8, <1>11, <2>3, <3>1, StaysMoves
    <3> QED
      BY <1>2, <1>3, <3>2, MovesKeeps
  <2> QED
    BY <2>2, <2>3
<1>12. CASE kind = "freezed"
  <2> DEFINE x == [u EXCEPT !.state = "background"]
  <2>1. SetUI(r, x) /\ UNCHANGED <<sessionMap, terminateList>>
    BY <1>1, <1>12 DEF RunUITask, WindowFreezed, kind
  <2>2. x \in UIRecordType
    BY <1>5 DEF UIRecordType, UIStates
  <2>3. u.refused
    BY <1>2, <1>5, <1>12 DEF BackgroundFits
  <2>4. /\ x.proc = u.proc /\ x.ready = u.ready /\ x.commands = u.commands /\ x.told = u.told
        /\ x.impl = u.impl /\ x.window = u.window /\ x.state = "background"
        /\ x.refused = u.refused /\ x.closeAsked = u.closeAsked
        /\ x.watched = u.watched /\ x.terminating = u.terminating
    BY <1>5 DEF UIRecordType
  <2> HIDE DEF x, u
  <2>5. RecordFits(x, InMap(r), r \in terminateList, k)
    BY <1>5, <1>7, <1>12, <2>3, <2>4 DEF PlaceFits, RecordFits, Accounted, UnusedFits, MappedFits, PendingFits,
                                   BackgroundFits
  <2>6. MovesTo(r, k)
    BY <2>1, <2>2, <2>5, StaysMoves
  <2> QED
    BY <1>2, <1>3, <2>6, MovesKeeps
<1>13. CASE kind = "backgrounded"
  <2>1. CompleteBackground(r, uis)
    BY <1>1, <1>13 DEF RunUITask, kind
  <2>2. u.state # "backgrounding" => PendingFits(u, InMap(r), k)
    BY <1>8, <1>13 DEF RecordFits
  <2> HIDE DEF u
  <2> QED
    BY <1>2, <1>3, <1>5, <1>7, <1>9, <1>13, <2>1, <2>2, CompleteBackgroundKeeps
<1>14. CASE kind = "terminated"
  <2>1. CompleteTerminate(r, uis)
    BY <1>1, <1>14 DEF RunUITask, kind
  <2> HIDE DEF u
  <2>2. MovesTo(r, k)
    BY <1>5, <1>8, <1>9, <1>14, <2>1, TerminateMoves
  <2> QED
    BY <1>2, <1>3, <2>2, MovesKeeps
<1>15. CASE kind = "died"
  <2>1. UIOnAbilityDied(r)
    BY <1>1, <1>15 DEF RunUITask, kind
  <2>2. MovesTo(r, k)
    BY <1>5, <1>6, <2>1, DiedMoves
  <2> QED
    BY <1>2, <1>3, <2>2, MovesKeeps
<1> QED
  BY <1>2, <1>10, <1>11, <1>12, <1>13, <1>14, <1>15 DEF UITaskKinds

-----------------------------------------------------------------------------
LEMMA UIInitFits == UIInit => UIInv
<1> SUFFICES ASSUME UIInit PROVE UIInv
  OBVIOUS
<1>1. UnusedUI \in UIRecordType
  BY DEF UnusedUI, UIRecordType, UIStates, UITimers
<1>2. UITypes
  BY <1>1 DEF UIInit, UITypes
<1>3. ASSUME NEW r \in UIRecords
      PROVE  RecordFits(uis[r], InMap(r), r \in terminateList, Kinds(r))
  <2>1. uis[r] = UnusedUI /\ r \notin terminateList /\ Kinds(r) = {}
    BY DEF UIInit, Kinds
  <2>2. ~InMap(r)
    BY DEF UIInit, InMap, NoUI, UIRecords
  <2>3. /\ UnusedUI.proc = "none" /\ UnusedUI.commands = <<>> /\ ~UnusedUI.ready
        /\ UnusedUI.impl = "initial" /\ UnusedUI.window = "hidden" /\ UnusedUI.state = "initial"
    BY DEF UnusedUI
  <2> QED
    BY <2>1, <2>2, <2>3 DEF RecordFits, Accounted, UnusedFits, MappedFits, PendingFits, BackgroundFits
<1> QED
  BY <1>2, <1>3 DEF UIInv

LEMMA UIStep == UIInv /\ [UINext]_uiVars => UIInv'
<1> SUFFICES ASSUME UIInv, [UINext]_uiVars PROVE UIInv'
  OBVIOUS
<1>1. ASSUME NEW s \in UISessions, UISession(s) PROVE UIInv'
  BY <1>1, StartKeeps, VisibilityKeeps, MinimizeKeeps, CloseKeeps DEF UISession
<1>2. ASSUME NEW r \in UIRecords, UIApplication(r) PROVE UIInv'
  BY <1>2, AttachKeeps, ForegroundCommandKeeps, AfterForegroundKeeps, ForegroundFailedKeeps,
     BackgroundCommandKeeps, AfterBackgroundKeeps, TerminateCommandKeeps DEF UIApplication
<1>3. ASSUME NEW r \in UIRecords, UITimesOut(r) PROVE UIInv'
  BY <1>3, OnTimeOutKeeps, BackgroundTimeoutKeeps, TerminateTimeoutKeeps, KillTimeoutKeeps
     DEF UITimesOut
<1>4. ASSUME NEW r \in UIRecords, OnAbilityRequestDone(r) \/ ProcessEnds(r) \/ AbilityCleaned(r)
      PROVE  UIInv'
  BY <1>4, RequestDoneKeeps, ProcessEndsKeeps, CleanedKeeps
<1>5. CASE UNCHANGED uiVars
  <2>1. /\ uis' = uis /\ sessionMap' = sessionMap /\ terminateList' = terminateList
        /\ uiTasks' = uiTasks
    BY <1>5 DEF uiVars
  <2>2. UITypes'
    BY <2>1 DEF UIInv, UITypes
  <2>3. ASSUME NEW r \in UIRecords
        PROVE  RecordFits(uis'[r], InMap(r)', r \in terminateList', Kinds(r)')
    <3>1. /\ InMap(r)' <=> InMap(r)
          /\ Kinds(r)' = Kinds(r)
      BY <2>1 DEF InMap, Kinds
    <3>2. RecordFits(uis[r], InMap(r), r \in terminateList, Kinds(r))
      BY DEF UIInv
    <3> QED
      BY <2>1, <3>1, <3>2 DEF RecordFits, Accounted, UnusedFits, MappedFits, PendingFits
  <2> QED
    BY <2>2, <2>3 DEF UIInv
<1> QED
  BY <1>1, <1>2, <1>3, <1>4, <1>5, RunTaskKeeps DEF UINext

LEMMA UIAlways == UISpec => []UIInv
<1>1. UIInit => UIInv
  BY UIInitFits
<1>2. UIInv /\ [UINext]_uiVars => UIInv'
  BY UIStep
<1> QED
  BY <1>1, <1>2, PTL DEF UISpec

\* The records, the two containers and the queue of the service keep their types
\* (UIAbilityLifecycleManager, AbilityRecord).
THEOREM UIRecordTypes == UISpec => []UITypes
<1>1. UIInv => UITypes
  BY DEF UIInv
<1> QED
  BY <1>1, UIAlways, PTL

\* No living ability is forgotten: an ability whose process is starting or running is in
\* sessionAbilityMap_ or terminateAbilityList_, or the application manager was told to
\* terminate it or kill its process.
THEOREM UIAbilitiesAccounted == UISpec => []UINoOrphan
<1>1. UIInv => UINoOrphan
  BY DEF UIInv, UINoOrphan, RecordFits, Accounted, Known
<1> QED
  BY <1>1, UIAlways, PTL

\* A pending state that StartUIAbility or MinimizeUIAbility relies on is always one that
\* something under way will resolve: a timeout, a task, a command or an answer, unless the
\* window was refused or SceneBoard was asked to close the session.
THEOREM UIPendingIsUnderway == UISpec => []UIPendingUnderway
<1>1. UIInv => UIPendingUnderway
  <2> SUFFICES ASSUME UIInv, NEW s \in UISessions, sessionMap[s] # NoUI
               PROVE  LET r == sessionMap[s]
                      IN  \/ uis[r].pending = "initial" \/ Underway(r)
                          \/ uis[r].refused \/ uis[r].closeAsked
    BY DEF UIPendingUnderway
  <2>1. PICK r \in UIRecords : r = sessionMap[s] /\ InMap(r)
    BY SessionFacts
  <2>2. \/ uis[r].pending = "initial" \/ uis[r].refused \/ uis[r].closeAsked
        \/ Resolving(uis[r], Kinds(r))
    BY <2>1 DEF UIInv, RecordFits, PendingFits
  <2>3. Kinds(r) # {} => \E i \in DOMAIN uiTasks : uiTasks[i].record = r
    BY DEF Kinds
  <2>4. Resolving(uis[r], Kinds(r)) => Underway(r)
    BY <2>3 DEF Resolving, LastIs, Underway
  <2> QED
    BY <2>1, <2>2, <2>4
<1> QED
  BY <1>1, UIAlways, PTL

\* An ability that the manager has in BACKGROUND, and that has handled its commands, does
\* not take itself to be shown in the foreground, unless its window was refused.
THEOREM UIBackgroundIsAgreed == UISpec => []UIBackgroundAgreed
<1>1. UIInv => UIBackgroundAgreed
  BY DEF UIInv, UIBackgroundAgreed, RecordFits, BackgroundFits, Settling
<1> QED
  BY <1>1, UIAlways, PTL
=============================================================================
