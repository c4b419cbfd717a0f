------------------------ MODULE QuickFixManagerProofs ------------------------
(***************************************************************************)
(* Proofs about the quick fix service, for any number of tasks, processes, *)
(* observers, rounds and repeated answers.                                 *)
(*                                                                         *)
(* Nothing in the code says where a task is: its next step is in the       *)
(* queue, with the bundle manager, with the processes or with an observer, *)
(* and a callback that comes twice has it in several of these places.  The *)
(* invariant collects what is under way for a task as a set of jobs,       *)
(* wherever they are, and says what has to be achieved before each job.    *)
(***************************************************************************)
EXTENDS QuickFixManager, FiniteSetTheorems, TLAPS
LOCAL INSTANCE BagsExt

Steps == Requests \cup Notifications \cup {"revoke"}
Results == {"ok", "failed", "timeout"}
TaskType == [type : {"none", "checked", "apply", "revoke"}, named : BOOLEAN, so : BOOLEAN, hot : BOOLEAN,
             running : BOOLEAN, listed : BOOLEAN]
RoundRecord == [task : FixTasks, kind : Notifications, by : {"handler", "binder"},
                todo : SUBSET FixProcesses, telling : SUBSET FixProcesses, told : BOOLEAN,
                waiting : SUBSET FixProcesses, inspecting : SUBSET (FixProcesses \X BOOLEAN),
                failed : BOOLEAN, called : BOOLEAN]

\* While a process is told its id is listed, unless it has answered: then the answer is
\* looked at, another id is listed or the task has been called.
TellingFits(r) == r.telling # {} => r.called \/ r.waiting # {} \/ r.inspecting # {}
RoundType == {r \in RoundRecord : TellingFits(r)}
BinderType == [task : FixTasks, at : {"register", "handle"}, from : {"deployed", "died", "revoke"}]

TaskTypes == applyTasks \in [FixTasks -> TaskType] /\ reports \in [FixTasks -> SUBSET Results]
AchievedTypes == achieved \in [FixTasks -> SUBSET Requests]
QueueTypes == fixQueue \in Seq(Steps \X FixTasks) /\ fixTimers \in [FixTasks -> Nat]
AskedTypes == IsABag(asked) /\ BagToSet(asked) \subseteq Requests \X FixTasks
RoundTypes ==
    /\ DOMAIN rounds \subseteq 1..MaxRounds /\ rounds \in [DOMAIN rounds -> RoundType]
    /\ \A i \in DOMAIN rounds : ~RoundOver(rounds[i], fixAlive)
ObserverTypes ==
    /\ observers \in [FixTasks -> SUBSET (1..MaxObservers)]
    /\ registered \in [FixTasks -> 0..MaxObservers]
    /\ obituaries \in Nat /\ diedCalls \in [FixTasks -> Nat]
BinderTypes == IsABag(binder) /\ BagToSet(binder) \subseteq BinderType
ProcessTypes ==
    /\ fixAlive \subseteq FixProcesses /\ fixDead \subseteq FixProcesses \ fixAlive
    /\ bereaved \subseteq FixTasks /\ unanswered \subseteq FixTasks /\ splits \in Nat

FixTypes == /\ TaskTypes /\ AchievedTypes /\ QueueTypes /\ AskedTypes /\ RoundTypes
            /\ ObserverTypes /\ BinderTypes /\ ProcessTypes

-----------------------------------------------------------------------------
(* The jobs of a task: the steps in the queue, the requests the bundle     *)
(* manager has, the notifications under way, "wait" for the deaths of      *)
(* processes, "ok" once success was published, and what is achieved.       *)

InQueue(queue) == {queue[i] : i \in DOMAIN queue}
QueuedJobs(t) == {step \in Steps : <<step, t>> \in InQueue(fixQueue)}
AskedJobs(t) == {q \in Requests : BagIn(<<q, t>>, asked)}
RoundJobs(t) == {rounds[i].kind : i \in RoundsOf(t)}
Waits(t) == OnBinder(t) \/ observers[t] # {} \/ diedCalls[t] > 0

Jobs(t) == QueuedJobs(t) \cup AskedJobs(t) \cup RoundJobs(t)
           \cup {job \in {"wait"} : Waits(t)} \cup (reports[t] \cap {"ok"}) \cup achieved[t]

\* The types of a task that does not exist yet.
NotMade == {"none", "checked"}

\* What the bundle manager has done for a task of this type before the job begins.
Needs(type, job) ==
    LET deployed == IF type = "apply" THEN {"deploy"} ELSE {} IN
    CASE job \in {"switch", "wait"} -> deployed
      [] job = "unload"             -> IF type = "apply" THEN deployed ELSE {"switch"}
      [] job \in {"load", "delete"} -> deployed \cup {"switch"}
      [] job \in {"reload", "ok"}   -> deployed \cup {"switch", "delete"}
      [] OTHER                      -> {}

MayDo(type, done, job) ==
    /\ type \notin NotMade
    /\ job \in {"deploy", "load", "reload"} => type = "apply"
    /\ job = "revoke" => type = "revoke"
    /\ Needs(type, job) \subseteq done

\* Every job has what it needs, on whichever chain of the task it is.
StagesFit(t) == \A job \in Jobs(t) : MayDo(applyTasks[t].type, achieved[t], job)

\* A round that has called its task.
Spent(r) == r.called

\* The processes whose answer a round may still need.
Expected(r) == r.waiting \cup r.todo

\* Tasks that may be left with nothing to wait for.
Excused == bereaved \cup unanswered

\* Something goes on for the task that is neither a timer, which any answer removes, nor a
\* round that has called it.
Live(t) ==
    \/ QueuedJobs(t) # {} \/ AskedJobs(t) # {} \/ Waits(t)
    \/ \E i \in RoundsOf(t) : ~Spent(rounds[i])

\* As long as no process has died since the task was made and no callback was lost, processes
\* that were seen to run do, and those that are to be told or waited for can answer.
LiveFits(t) ==
    applyTasks[t].listed /\ t \notin Excused =>
        /\ Live(t)
        /\ applyTasks[t].running \/ QueuedJobs(t) \cap Notifications # {} => fixAlive # {}
        /\ \A i \in RoundsOf(t) : Expected(rounds[i]) \subseteq fixAlive

\* A task that handles a death is among the bereaved, and its deployment goes on only
\* if it applies a fix.
DeathFits(t) ==
    /\ diedCalls[t] > 0 => t \in bereaved
    /\ \A b \in BagToSet(binder) : b.task = t =>
          /\ b.from = "died" => t \in bereaved
          /\ b.at = "handle" => applyTasks[t].type = "apply"

Once(queue, e) == \A i, j \in DOMAIN queue : queue[i] = e /\ queue[j] = e => i = j

\* A fix is deployed once, and one with native libraries is not unloaded: its processes
\* have to end.
DeployFits(t) ==
    /\ "deploy" \in QueuedJobs(t) \cup AskedJobs(t) => "deploy" \notin achieved[t]
    /\ Once(fixQueue, <<"deploy", t>>)
    /\ "deploy" \in AskedJobs(t) => asked[<<"deploy", t>>] = 1 /\ "deploy" \notin QueuedJobs(t)
    /\ "unload" \in QueuedJobs(t) \cup RoundJobs(t) /\ applyTasks[t].type = "apply"
         => ~applyTasks[t].so

\* Nothing has happened to a task that was not made yet.
NewFits(t) ==
    applyTasks[t].type \in NotMade =>
        applyTasks[t] = [NewTask EXCEPT !.type = applyTasks[t].type]

TaskFits(t) == StagesFit(t) /\ LiveFits(t) /\ DeathFits(t) /\ DeployFits(t) /\ NewFits(t)

\* The inductive invariant.
FixInv == FixTypes /\ \A t \in FixTasks : TaskFits(t)

-----------------------------------------------------------------------------
(* The queue of the handler and bags, with one element more or less. *)

LEMMA PostedFacts ==
    ASSUME NEW S, NEW queue \in Seq(S), NEW e \in S
    PROVE  /\ Append(queue, e) \in Seq(S)
           /\ InQueue(Append(queue, e)) = InQueue(queue) \cup {e}
           /\ \A x : Once(queue, x) /\ (x # e \/ x \notin InQueue(queue)) => Once(Append(queue, e), x)
<1> DEFINE n == Len(queue)
           more == Append(queue, e)
<1>1. n \in Nat /\ DOMAIN queue = 1..n /\ DOMAIN more = 1..(n + 1) /\ more \in Seq(S)
  OBVIOUS
<1>2. more[n + 1] = e /\ \A i \in 1..n : more[i] = queue[i]
  OBVIOUS
<1> HIDE DEF n, more
<1>3. InQueue(more) = InQueue(queue) \cup {e}
  BY <1>1, <1>2 DEF InQueue
<1>4. ASSUME NEW x, Once(queue, x), x # e \/ x \notin InQueue(queue) PROVE Once(more, x)
  <2> SUFFICES ASSUME NEW i \in DOMAIN more, NEW j \in DOMAIN more, more[i] = x, more[j] = x
               PROVE  i = j
    BY DEF Once
  <2>1. CASE i \in 1..n /\ j \in 1..n
    BY <2>1, <1>1, <1>2, <1>4 DEF Once
  <2>2. CASE i = n + 1 \/ j = n + 1
    BY <2>2, <1>1, <1>2, <1>4 DEF InQueue
  <2> QED BY <2>1, <2>2, <1>1
<1> QED BY <1>1, <1>3, <1>4 DEF more

LEMMA TakenFacts ==
    ASSUME NEW S, NEW queue \in Seq(S), queue # <<>>
    PROVE  /\ Tail(queue) \in Seq(S) /\ Head(queue) \in S
           /\ InQueue(queue) = InQueue(Tail(queue)) \cup {Head(queue)}
           /\ \A x : Once(queue, x) => Once(Tail(queue), x)
           /\ Once(queue, Head(queue)) => Head(queue) \notin InQueue(Tail(queue))
<1> DEFINE n == Len(queue)
           less == Tail(queue)
           e == Head(queue)
<1>1. n \in Nat \ {0} /\ DOMAIN queue = 1..n /\ DOMAIN less = 1..(n - 1) /\ less \in Seq(S)
  OBVIOUS
<1>2. e = queue[1] /\ e \in S /\ \A i \in 1..(n - 1) : less[i] = queue[i + 1]
  OBVIOUS
<1> HIDE DEF n, less, e
<1>3. InQueue(queue) = InQueue(less) \cup {e}
  <2>1. ASSUME NEW i \in 1..n PROVE queue[i] \in InQueue(less) \cup {e}
    <3>1. CASE i = 1
      BY <3>1, <1>2
    <3>2. CASE i # 1
      <4>1. i - 1 \in 1..(n - 1) /\ less[i - 1] = queue[i]
        BY <3>2, <1>1, <1>2
      <4> QED BY <4>1, <1>1 DEF InQueue
    <3> QED BY <3>1, <3>2
  <2>2. ASSUME NEW i \in 1..(n - 1) PROVE less[i] \in InQueue(queue)
    <3>1. i + 1 \in 1..n
      BY <1>1
    <3> QED BY <3>1, <1>1, <1>2 DEF InQueue
  <2>3. 1 \in 1..n
    BY <1>1
  <2>4. ASSUME NEW x \in InQueue(queue) PROVE x \in InQueue(less) \cup {e}
    <3>1. PICK i \in 1..n : x = queue[i]
      BY <1>1 DEF InQueue
    <3> QED BY <3>1, <2>1
  <2>5. ASSUME NEW x \in InQueue(less) PROVE x \in InQueue(queue)
    <3>1. PICK i \in 1..(n - 1) : x = less[i]
      BY <1>1 DEF InQueue
    <3> QED BY <3>1, <2>2
  <2>6. e \in InQueue(queue)
    BY <1>1, <1>2, <2>3 DEF InQueue
  <2> QED BY <2>4, <2>5, <2>6
<1>4. ASSUME NEW x, Once(queue, x) PROVE Once(less, x)
  <2> SUFFICES ASSUME NEW i \in 1..(n - 1), NEW j \in 1..(n - 1), less[i] = x, less[j] = x
               PROVE  i = j
    BY <1>1 DEF Once
  <2>1. i + 1 \in 1..n /\ j + 1 \in 1..n /\ queue[i + 1] = x /\ queue[j + 1] = x
    BY <1>1, <1>2
  <2>2. i + 1 = j + 1
    BY <2>1, <1>1, <1>4 DEF Once
  <2> QED BY <2>2
<1>5. ASSUME Once(queue, e) PROVE e \notin InQueue(less)
  <2> SUFFICES ASSUME NEW i \in 1..(n - 1), less[i] = e PROVE FALSE
    BY <1>1 DEF InQueue
  <2>1. i + 1 \in 1..n /\ 1 \in 1..n /\ queue[i + 1] = e /\ i + 1 # 1
    BY <1>1, <1>2
  <2> QED BY <2>1, <1>1, <1>2, <1>5 DEF Once
<1> QED BY <1>1, <1>2, <1>3, <1>4, <1>5 DEF less, e

LEMMA AddedFacts ==
    ASSUME NEW B, IsABag(B), NEW x
    PROVE  /\ IsABag(BagAdd(B, x))
           /\ BagToSet(BagAdd(B, x)) = BagToSet(B) \cup {x}
           /\ \A e \in BagToSet(B) : e # x => BagAdd(B, x)[e] = B[e]
           /\ x \notin BagToSet(B) => BagAdd(B, x)[x] = 1
BY DEF IsABag, BagToSet, BagAdd

LEMMA RemovedFacts ==
    ASSUME NEW B, IsABag(B), NEW x
    PROVE  /\ IsABag(BagRemove(B, x))
           /\ BagToSet(BagRemove(B, x)) \subseteq BagToSet(B)
           /\ BagToSet(B) \subseteq BagToSet(BagRemove(B, x)) \cup {x}
           /\ \A e \in BagToSet(BagRemove(B, x)) : e # x => BagRemove(B, x)[e] = B[e]
           /\ x \in BagToSet(B) /\ B[x] = 1 => x \notin BagToSet(BagRemove(B, x))
BY DEF IsABag, BagToSet, BagRemove

-----------------------------------------------------------------------------
(* A step is about one task: what belongs to the others stays as it is.    *)

BinderOf(t) == {b \in BagToSet(binder) : b.task = t}

SameTask(t) == applyTasks'[t] = applyTasks[t] /\ reports'[t] = reports[t]
SameQueue(t) ==
    /\ QueuedJobs(t)' = QueuedJobs(t)
    /\ Once(fixQueue, <<"deploy", t>>) => Once(fixQueue, <<"deploy", t>>)'
SameAsked(t) ==
    /\ AskedJobs(t)' = AskedJobs(t)
    /\ "deploy" \in AskedJobs(t) => asked'[<<"deploy", t>>] = asked[<<"deploy", t>>]
SameRounds(t) == RoundsOf(t)' = RoundsOf(t) /\ \A i \in RoundsOf(t) : rounds'[i] = rounds[i]
SameWait(t) ==
    BinderOf(t)' = BinderOf(t) /\ observers'[t] = observers[t] /\ diedCalls'[t] = diedCalls[t]
Same(t) == /\ SameTask(t) /\ achieved'[t] = achieved[t]
           /\ SameQueue(t) /\ SameAsked(t) /\ SameRounds(t) /\ SameWait(t)

\* No process dies.
Onward ==
    /\ bereaved \subseteq bereaved' /\ unanswered \subseteq unanswered'
    /\ fixAlive \subseteq fixAlive'

LEMMA WaitsFacts ==
    ASSUME NEW t
    PROVE  /\ Waits(t) <=> BinderOf(t) # {} \/ observers[t] # {} \/ diedCalls[t] > 0
           /\ Waits(t)' <=> BinderOf(t)' # {} \/ observers'[t] # {} \/ diedCalls'[t] > 0
BY DEF Waits, OnBinder, BinderOf

\* A task to which nothing happens but that it is told of a death.
LEMMA ToldFits ==
    ASSUME NEW t \in FixTasks, TaskFits(t), Onward,
           SameTask(t), achieved'[t] = achieved[t], SameQueue(t), SameAsked(t), SameRounds(t),
           Waits(t)' <=> Waits(t), DeathFits(t)'
    PROVE  TaskFits(t)'
<1>1. Waits(t)' <=> Waits(t)
  OBVIOUS
<1>2. RoundJobs(t)' = RoundJobs(t)
  <2>1. RoundJobs(t)' = {rounds'[i].kind : i \in RoundsOf(t)'}
    BY DEF RoundJobs
  <2> QED BY <2>1 DEF RoundJobs, SameRounds
<1>3. Jobs(t)' = Jobs(t)
  BY <1>1, <1>2 DEF Jobs, SameTask, SameQueue, SameAsked
<1>4. StagesFit(t)'
  BY <1>3 DEF TaskFits, StagesFit, SameTask
<1>5. Live(t)' <=> Live(t)
  <2>1. Live(t)' <=> \/ QueuedJobs(t)' # {} \/ AskedJobs(t)' # {} \/ Waits(t)'
                     \/ \E i \in RoundsOf(t)' : ~Spent(rounds'[i])
    BY DEF Live, Spent
  <2> QED BY <2>1, <1>1 DEF Live, SameQueue, SameAsked, SameRounds
<1>6. LiveFits(t)'
  BY <1>5 DEF TaskFits, LiveFits, SameTask, SameQueue, SameRounds, Onward, Excused, Expected
<1>7. DeathFits(t)'
  OBVIOUS
<1>8. DeployFits(t)'
  BY <1>2 DEF TaskFits, DeployFits, SameTask, SameQueue, SameAsked
<1>9. NewFits(t)'
  BY DEF TaskFits, NewFits, SameTask
<1> QED BY <1>4, <1>6, <1>7, <1>8, <1>9 DEF TaskFits

LEMMA SameFits ==
    ASSUME NEW t \in FixTasks, TaskFits(t), Same(t), Onward
    PROVE  TaskFits(t)'
<1>1. Waits(t)' <=> Waits(t)
  BY WaitsFacts DEF Same, SameWait
<1>2. \A b : b \in BagToSet(binder)' /\ b.task = t => b \in BagToSet(binder)
  BY DEF Same, SameWait, BinderOf
<1>3. DeathFits(t)'
  BY <1>2 DEF TaskFits, DeathFits, Same, SameTask, SameWait, Onward
<1> QED BY <1>1, <1>3, ToldFits DEF Same

LEMMA QueueStays ==
    ASSUME UNCHANGED fixQueue
    PROVE  \A t : SameQueue(t)
BY DEF SameQueue, QueuedJobs

LEMMA AskedStays ==
    ASSUME UNCHANGED asked
    PROVE  \A t : SameAsked(t)
BY DEF SameAsked, AskedJobs

LEMMA RoundsStay ==
    ASSUME UNCHANGED rounds
    PROVE  \A t : SameRounds(t)
BY DEF SameRounds, RoundsOf

LEMMA BinderStays ==
    ASSUME UNCHANGED binder
    PROVE  \A t : BinderOf(t)' = BinderOf(t)
BY DEF BinderOf

\* The rounds of a task that a step leaves alone.
LEMMA RoundsKept ==
    ASSUME NEW t, SameRounds(t)
    PROVE  /\ RoundJobs(t)' = RoundJobs(t)
           /\ \A i \in RoundsOf(t)' : i \in RoundsOf(t) /\ rounds'[i] = rounds[i]
<1>1. RoundJobs(t)' = {rounds'[i].kind : i \in RoundsOf(t)'}
  BY DEF RoundJobs
<1> QED BY <1>1 DEF RoundJobs, SameRounds

-----------------------------------------------------------------------------
(* The parts that actions are made of. *)

\* NotifyApplyStatus and RemoveSelf.
LEMMA FinishFacts ==
    ASSUME TaskTypes, NEW t \in FixTasks, NEW result \in Results, Finish(t, result)
    PROVE  /\ TaskTypes'
           /\ \A u \in FixTasks \ {t} : SameTask(u)
           /\ reports'[t] = reports[t] \cup {result}
           /\ applyTasks'[t] = [applyTasks[t] EXCEPT !.listed = FALSE]
<1>1. /\ applyTasks' = [applyTasks EXCEPT ![t].listed = FALSE]
      /\ reports' = [reports EXCEPT ![t] = @ \cup {result}]
  BY DEF Finish, NotifyApplyStatus, RemoveSelf
<1>2. applyTasks \in [FixTasks -> TaskType] /\ reports \in [FixTasks -> SUBSET Results]
  BY DEF TaskTypes
<1>3. ASSUME NEW task \in TaskType PROVE [task EXCEPT !.listed = FALSE] \in TaskType
  BY DEF TaskType
<1>4. applyTasks' \in [FixTasks -> TaskType] /\ reports' \in [FixTasks -> SUBSET Results]
  BY <1>1, <1>2, <1>3
<1> QED BY <1>1, <1>2, <1>4 DEF TaskTypes, SameTask

\* A step posted to the handler.
LEMMA PostTaskFacts ==
    ASSUME QueueTypes, NEW t \in FixTasks, NEW step \in Steps, NEW removeTimers,
           PostTask(t, step, removeTimers)
    PROVE  /\ QueueTypes'
           /\ \A u \in FixTasks \ {t} : SameQueue(u)
           /\ QueuedJobs(t)' = QueuedJobs(t) \cup {step}
           /\ (step # "deploy" \/ "deploy" \notin QueuedJobs(t)) /\ Once(fixQueue, <<"deploy", t>>)
                => Once(fixQueue, <<"deploy", t>>)'
<1>1. fixQueue \in Seq(Steps \X FixTasks) /\ <<step, t>> \in Steps \X FixTasks
  BY DEF QueueTypes
<1>2. fixQueue' = Append(fixQueue, <<step, t>>)
  BY DEF PostTask
<1>3. /\ fixQueue' \in Seq(Steps \X FixTasks)
      /\ InQueue(fixQueue') = InQueue(fixQueue) \cup {<<step, t>>}
      /\ \A x : Once(fixQueue, x) /\ (x # <<step, t>> \/ x \notin InQueue(fixQueue)) => Once(fixQueue', x)
  BY <1>1, <1>2, PostedFacts, ZenonT(60)
<1>4. fixTimers' \in [FixTasks -> Nat]
  BY DEF QueueTypes, PostTask, NoTimers, TimerPosted
<1>5. \A u : QueuedJobs(u)' = {s \in Steps : <<s, u>> \in InQueue(fixQueue')}
  BY DEF QueuedJobs, InQueue
<1>6. \A u \in FixTasks \ {t} : SameQueue(u)
  BY <1>3, <1>5 DEF SameQueue, QueuedJobs, Once
<1>7. QueuedJobs(t)' = QueuedJobs(t) \cup {step}
  BY <1>3, <1>5 DEF QueuedJobs
<1>8. (step # "deploy" \/ "deploy" \notin QueuedJobs(t)) /\ Once(fixQueue, <<"deploy", t>>)
         => Once(fixQueue', <<"deploy", t>>)
  <2>1. "deploy" \in Steps
    BY DEF Steps, Requests
  <2>2. "deploy" \notin QueuedJobs(t) => <<"deploy", t>> \notin InQueue(fixQueue)
    BY <2>1 DEF QueuedJobs
  <2>3. step # "deploy" => <<"deploy", t>> # <<step, t>>
    OBVIOUS
  <2> QED BY <1>3, <2>2, <2>3
<1> QED BY <1>3, <1>4, <1>6, <1>7, <1>8 DEF QueueTypes, Once

\* Timers are no jobs.
LEMMA TimersFacts ==
    ASSUME QueueTypes, fixTimers' \in [FixTasks -> Nat], UNCHANGED fixQueue
    PROVE  QueueTypes' /\ \A u : SameQueue(u)
BY QueueStays DEF QueueTypes

LEMMA RemoveTimeoutFacts ==
    ASSUME QueueTypes, RemoveTimeoutTask
    PROVE  QueueTypes' /\ \A u : SameQueue(u)
BY TimersFacts DEF RemoveTimeoutTask, NoTimers

\* A request of task t is answered.
LEMMA AnsweredFacts ==
    ASSUME AskedTypes, NEW t \in FixTasks, NEW request \in Requests, asked' = Pending(request, t)
    PROVE  /\ AskedTypes'
           /\ \A u \in FixTasks \ {t} : SameAsked(u)
           /\ AskedJobs(t)' \subseteq AskedJobs(t)
           /\ AskedJobs(t) \subseteq AskedJobs(t)' \cup {request}
           /\ request # "deploy" /\ "deploy" \in AskedJobs(t)'
                => asked'[<<"deploy", t>>] = asked[<<"deploy", t>>]
           /\ request \in AskedJobs(t) /\ asked[<<request, t>>] = 1 => request \notin AskedJobs(t)'
<1>1. asked' = BagRemove(asked, <<request, t>>)
  BY DEF Pending
<1>2. /\ IsABag(asked') /\ BagToSet(asked') \subseteq BagToSet(asked)
      /\ BagToSet(asked) \subseteq BagToSet(asked') \cup {<<request, t>>}
      /\ \A e \in BagToSet(asked') : e # <<request, t>> => asked'[e] = asked[e]
      /\ <<request, t>> \in BagToSet(asked) /\ asked[<<request, t>>] = 1
           => <<request, t>> \notin BagToSet(asked')
  BY <1>1, RemovedFacts DEF AskedTypes
<1>3. \A u : AskedJobs(u)' = {q \in Requests : <<q, u>> \in BagToSet(asked')}
  BY DEF AskedJobs, BagIn, BagToSet
<1>4. \A u : AskedJobs(u) = {q \in Requests : <<q, u>> \in BagToSet(asked)}
  BY DEF AskedJobs, BagIn
<1>5. AskedTypes'
  BY <1>2 DEF AskedTypes, BagToSet, IsABag
<1>6. \A u \in FixTasks \ {t} : SameAsked(u)
  BY <1>2, <1>3, <1>4 DEF SameAsked
<1> QED BY <1>2, <1>3, <1>4, <1>5, <1>6

\* A request is accepted or refused.  What is pending is the bag of requests, with one of
\* task t removed or not.
LEMMA AskFacts ==
    ASSUME AskedTypes, TaskTypes, NEW t \in FixTasks, NEW request \in Requests, NEW pending,
           pending = asked \/ \E q \in Requests \ {"deploy"} : pending = Pending(q, t),
           Ask(t, request, pending)
    PROVE  /\ AskedTypes' /\ TaskTypes'
           /\ \A u \in FixTasks \ {t} : SameAsked(u) /\ SameTask(u)
           /\ AskedJobs(t)' \subseteq AskedJobs(t) \cup {request}
           /\ "deploy" \in AskedJobs(t)' =>
                \/ "deploy" \in AskedJobs(t) /\ request # "deploy"
                   /\ asked'[<<"deploy", t>>] = asked[<<"deploy", t>>]
                \/ "deploy" \in AskedJobs(t) /\ request = "deploy"
                \/ "deploy" \notin AskedJobs(t) /\ request = "deploy" /\ asked'[<<"deploy", t>>] = 1
           /\ \/ request \in AskedJobs(t)' /\ SameTask(t)
              \/ /\ applyTasks'[t] = [applyTasks[t] EXCEPT !.listed = FALSE]
                 /\ reports'[t] = reports[t] \cup {"failed"}
<1>1. /\ IsABag(pending) /\ BagToSet(pending) \subseteq BagToSet(asked)
      /\ \A u \in FixTasks \ {t}, q \in Requests : <<q, u>> \in BagToSet(asked) =>
            <<q, u>> \in BagToSet(pending)
      /\ \A e \in BagToSet(pending) : e[1] = "deploy" \/ e[2] # t => pending[e] = asked[e]
  <2>1. CASE pending = asked
    BY <2>1 DEF AskedTypes
  <2>2. ASSUME NEW q \in Requests \ {"deploy"}, pending = BagRemove(asked, <<q, t>>)
        PROVE <1>1
    <3>1. /\ IsABag(pending) /\ BagToSet(pending) \subseteq BagToSet(asked)
          /\ BagToSet(asked) \subseteq BagToSet(pending) \cup {<<q, t>>}
          /\ \A e \in BagToSet(pending) : e # <<q, t>> => pending[e] = asked[e]
      BY <2>2, RemovedFacts DEF AskedTypes
    <3> QED BY <3>1
  <2> QED BY <2>1, <2>2 DEF Pending
<1>2. \A u : AskedJobs(u)' = {q \in Requests : <<q, u>> \in BagToSet(asked')}
  BY DEF AskedJobs, BagIn, BagToSet
<1>3. \A u : AskedJobs(u) = {q \in Requests : <<q, u>> \in BagToSet(asked)}
  BY DEF AskedJobs, BagIn
<1>4. CASE asked' = BagAdd(pending, <<request, t>>) /\ UNCHANGED fixTaskVars
  <2>1. /\ IsABag(asked') /\ BagToSet(asked') = BagToSet(pending) \cup {<<request, t>>}
        /\ \A e \in BagToSet(pending) : e # <<request, t>> => asked'[e] = pending[e]
        /\ <<request, t>> \notin BagToSet(pending) => asked'[<<request, t>>] = 1
    <3>1. IsABag(pending)
      BY <1>1
    <3> DEFINE more == BagAdd(pending, <<request, t>>)
    <3>2. /\ IsABag(more) /\ BagToSet(more) = BagToSet(pending) \cup {<<request, t>>}
          /\ \A e \in BagToSet(pending) : e # <<request, t>> => more[e] = pending[e]
          /\ <<request, t>> \notin BagToSet(pending) => more[<<request, t>>] = 1
      BY <3>1, AddedFacts
    <3> HIDE DEF more
    <3>3. asked' = more
      BY <1>4 DEF more
    <3> QED BY <3>2, <3>3
  <2>2. AskedTypes'
    BY <1>1, <2>1 DEF AskedTypes, BagToSet, IsABag
  <2>3. TaskTypes' /\ \A u : SameTask(u)
    BY <1>4 DEF TaskTypes, SameTask, fixTaskVars
  <2>4. \A u \in FixTasks \ {t} : SameAsked(u)
    BY <1>1, <1>2, <1>3, <2>1 DEF SameAsked
  <2>5. AskedJobs(t)' \subseteq AskedJobs(t) \cup {request} /\ request \in AskedJobs(t)'
    BY <1>1, <1>2, <1>3, <2>1
  <2>6. ASSUME "deploy" \in AskedJobs(t)', request # "deploy"
        PROVE  "deploy" \in AskedJobs(t) /\ asked'[<<"deploy", t>>] = asked[<<"deploy", t>>]
    <3>1. <<"deploy", t>> # <<request, t>> /\ <<"deploy", t>> \in BagToSet(pending)
      BY <2>1, <2>6, <1>2
    <3>2. <<"deploy", t>>[1] = "deploy"
      OBVIOUS
    <3> QED BY <1>1, <1>3, <2>1, <2>6, <3>1, <3>2, <2>5
  <2>7. ASSUME "deploy" \notin AskedJobs(t), request = "deploy"
        PROVE  asked'[<<"deploy", t>>] = 1
    BY <1>1, <1>3, <2>1, <2>7
  <2> QED BY <2>2, <2>3, <2>4, <2>5, <2>6, <2>7
<1>5. CASE asked' = pending /\ Finish(t, "failed")
  <2>1. /\ TaskTypes' /\ \A u \in FixTasks \ {t} : SameTask(u)
        /\ applyTasks'[t] = [applyTasks[t] EXCEPT !.listed = FALSE]
        /\ reports'[t] = reports[t] \cup {"failed"}
    BY <1>5, FinishFacts DEF Results
  <2>2. AskedTypes'
    BY <1>1, <1>5 DEF AskedTypes, BagToSet, IsABag
  <2>3. \A u \in FixTasks \ {t} : SameAsked(u)
    BY <1>1, <1>2, <1>3, <1>5 DEF SameAsked
  <2>4. AskedJobs(t)' \subseteq AskedJobs(t)
    BY <1>1, <1>2, <1>3, <1>5
  <2>5. ASSUME "deploy" \in AskedJobs(t)'
        PROVE  "deploy" \in AskedJobs(t) /\ asked'[<<"deploy", t>>] = asked[<<"deploy", t>>]
    <3>1. <<"deploy", t>> \in BagToSet(pending) /\ <<"deploy", t>>[1] = "deploy"
      BY <1>2, <1>5, <2>5
    <3> QED BY <1>1, <1>5, <2>4, <2>5, <3>1
  <2> QED BY <2>1, <2>2, <2>3, <2>4, <2>5
<1> QED BY <1>4, <1>5 DEF Ask

\* A round changes, begins or is over.
LEMMA SetRoundFacts ==
    ASSUME RoundTypes, NEW i \in 1..MaxRounds, NEW r \in RoundType, SetRound(i, r),
           UNCHANGED fixAlive, i \in DOMAIN rounds => rounds[i].task = r.task
    PROVE  /\ RoundTypes'
           /\ \A u \in FixTasks \ {r.task} : SameRounds(u)
           /\ RoundsOf(r.task)' \subseteq RoundsOf(r.task) \cup {i}
           /\ RoundsOf(r.task) \subseteq RoundsOf(r.task)' \cup {i}
           /\ \A j \in RoundsOf(r.task)' : j # i => rounds'[j] = rounds[j]
           /\ i \in RoundsOf(r.task)' <=> ~RoundOver(r, fixAlive)
           /\ i \in RoundsOf(r.task)' => rounds'[i] = r
           /\ RoundJobs(r.task)' \subseteq RoundJobs(r.task) \cup {r.kind}
<1> DEFINE D == {k \in DOMAIN rounds \cup {i} : k # i \/ ~RoundOver(r, fixAlive)}
<1>1. rounds' = [j \in D |-> IF j = i THEN r ELSE rounds[j]]
  BY DEF SetRound
<1>2. DOMAIN rounds' = D /\ \A j \in D : rounds'[j] = IF j = i THEN r ELSE rounds[j]
  BY <1>1
<1>3. rounds \in [DOMAIN rounds -> RoundType] /\ DOMAIN rounds \subseteq 1..MaxRounds
  BY DEF RoundTypes
<1>4. /\ D \subseteq 1..MaxRounds
      /\ \A j : j # i => (j \in D <=> j \in DOMAIN rounds)
      /\ i \in D <=> ~RoundOver(r, fixAlive)
  BY <1>3
<1> HIDE DEF D
<1>5. rounds' \in [DOMAIN rounds' -> RoundType] /\ DOMAIN rounds' \subseteq 1..MaxRounds
  BY <1>1, <1>2, <1>3, <1>4
<1>6. \A j \in DOMAIN rounds' : ~RoundOver(rounds'[j], fixAlive)
  BY <1>2, <1>4 DEF RoundTypes
<1>7. RoundTypes'
  BY <1>5, <1>6 DEF RoundTypes, RoundOver
<1>8. \A u : RoundsOf(u)' = {j \in D : rounds'[j].task = u}
  BY <1>2 DEF RoundsOf
<1>9. \A u \in FixTasks \ {r.task} : SameRounds(u)
  BY <1>2, <1>4, <1>8 DEF SameRounds, RoundsOf
<1>10. /\ RoundsOf(r.task)' \subseteq RoundsOf(r.task) \cup {i}
       /\ RoundsOf(r.task) \subseteq RoundsOf(r.task)' \cup {i}
       /\ \A j \in RoundsOf(r.task)' : j # i => rounds'[j] = rounds[j] /\ j \in RoundsOf(r.task)
       /\ i \in RoundsOf(r.task)' <=> ~RoundOver(r, fixAlive)
       /\ i \in RoundsOf(r.task)' => rounds'[i] = r
  BY <1>2, <1>4, <1>8 DEF RoundsOf
<1>11. RoundJobs(r.task)' = {rounds'[j].kind : j \in RoundsOf(r.task)'}
  BY DEF RoundJobs
<1>12. RoundJobs(r.task)' \subseteq RoundJobs(r.task) \cup {r.kind}
  BY <1>10, <1>11 DEF RoundJobs
<1> QED BY <1>7, <1>9, <1>10, <1>12

-----------------------------------------------------------------------------
(* What a step of task t has to show. *)

\* The switch of a task is decided, asked for or done.
Switching(t) == "switch" \in QueuedJobs(t) \cup AskedJobs(t) \cup achieved[t]

\* The switch of a fix that has native libraries is decided only when no process runs.
SwitchFits(t) ==
    applyTasks'[t].so /\ Switching(t)' => fixAlive = {} \/ (applyTasks[t].so /\ Switching(t))

FixStep == FixInv' /\ \A t \in FixTasks : SwitchFits(t)

LEMMA SameSwitch ==
    ASSUME NEW t, SameQueue(t), SameAsked(t), applyTasks'[t].so = applyTasks[t].so,
           achieved'[t] = achieved[t]
    PROVE  SwitchFits(t)
BY DEF SwitchFits, Switching, SameQueue, SameAsked

\* Every job of the task was there before or is among the new ones, which may be done.
LEMMA MovesOn ==
    ASSUME FixInv, FixTypes', NEW t \in FixTasks, Onward,
           \A u \in FixTasks \ {t} : Same(u),
           applyTasks[t].type \notin NotMade, applyTasks'[t].type = applyTasks[t].type,
           achieved[t] \subseteq achieved'[t], achieved'[t] \subseteq achieved[t] \cup AskedJobs(t),
           NEW N, \A job \in N : MayDo(applyTasks[t].type, achieved'[t], job),
           QueuedJobs(t)' \subseteq QueuedJobs(t) \cup AskedJobs(t) \cup RoundJobs(t) \cup N,
           AskedJobs(t)' \subseteq QueuedJobs(t) \cup AskedJobs(t) \cup RoundJobs(t) \cup N,
           RoundJobs(t)' \subseteq QueuedJobs(t) \cup AskedJobs(t) \cup RoundJobs(t) \cup N,
           Waits(t)' => Waits(t) \/ "wait" \in N,
           "ok" \in reports'[t] => "ok" \in reports[t] \/ "ok" \in N,
           LiveFits(t)', DeathFits(t)', DeployFits(t)', SwitchFits(t)
    PROVE  FixStep
<1>1. FixTypes /\ \A u \in FixTasks : TaskFits(u)
  BY DEF FixInv
<1>2. Jobs(t)' \subseteq Jobs(t) \cup N
  BY DEF Jobs
<1>3. ASSUME NEW job, MayDo(applyTasks[t].type, achieved[t], job)
      PROVE MayDo(applyTasks[t].type, achieved'[t], job)
  BY <1>3 DEF MayDo
<1>4. \A job \in Jobs(t)' : MayDo(applyTasks'[t].type, achieved'[t], job)
  BY <1>1, <1>2, <1>3 DEF TaskFits, StagesFit
<1>5. StagesFit(t)'
  BY <1>4 DEF StagesFit
<1>6. NewFits(t)'
  BY DEF NewFits
<1>7. TaskFits(t)'
  BY <1>5, <1>6 DEF TaskFits
<1>8. \A u \in FixTasks : TaskFits(u)'
  BY <1>1, <1>7, SameFits
<1>9. \A u \in FixTasks : SwitchFits(u)
  BY SameSwitch DEF Same, SameTask
<1> QED BY <1>8, <1>9 DEF FixInv, FixStep

LEMMA DeployStays ==
    ASSUME NEW t \in FixTasks, DeployFits(t),
           "deploy" \in achieved'[t] => "deploy" \in achieved[t],
           "deploy" \in QueuedJobs(t)' => "deploy" \in QueuedJobs(t),
           Once(fixQueue, <<"deploy", t>>) => Once(fixQueue, <<"deploy", t>>)',
           "deploy" \in AskedJobs(t)' =>
               "deploy" \in AskedJobs(t) /\ asked'[<<"deploy", t>>] = asked[<<"deploy", t>>],
           applyTasks'[t].type = applyTasks[t].type, applyTasks'[t].so = applyTasks[t].so,
           "unload" \in QueuedJobs(t)' \cup RoundJobs(t)' =>
               \/ "unload" \in QueuedJobs(t) \cup RoundJobs(t)
               \/ ~applyTasks[t].so \/ applyTasks[t].type # "apply"
    PROVE  DeployFits(t)'
BY DEF DeployFits

LEMMA DeathStays ==
    ASSUME NEW t \in FixTasks, DeathFits(t), bereaved \subseteq bereaved',
           applyTasks'[t].type = applyTasks[t].type,
           diedCalls'[t] > 0 => diedCalls[t] > 0 \/ t \in bereaved',
           NEW N, BinderOf(t)' \subseteq BinderOf(t) \cup N,
           \A b \in N : /\ b.from = "died" => t \in bereaved'
                        /\ b.at = "handle" => applyTasks[t].type = "apply"
    PROVE  DeathFits(t)'
<1>1. \A b \in BagToSet(binder)' : b.task = t => b \in BinderOf(t)'
  BY DEF BinderOf
<1>2. \A b \in BinderOf(t) : b \in BagToSet(binder) /\ b.task = t
  BY DEF BinderOf
<1> QED BY <1>1, <1>2 DEF DeathFits

LEMMA DeathSame ==
    ASSUME NEW t \in FixTasks, DeathFits(t), bereaved \subseteq bereaved',
           applyTasks'[t].type = applyTasks[t].type, SameWait(t)
    PROVE  DeathFits(t)'
<1>1. \A b \in BagToSet(binder)' : b.task = t => b \in BagToSet(binder)
  BY DEF BinderOf, SameWait
<1> QED BY <1>1 DEF DeathFits, SameWait

\* A task that is not finished by the step.
LEMMA LiveStays ==
    ASSUME NEW t \in FixTasks, LiveFits(t), Onward,
           applyTasks'[t].listed => applyTasks[t].listed,
           applyTasks'[t].listed /\ t \notin Excused' => Live(t)',
           applyTasks'[t].running => applyTasks[t].running \/ fixAlive # {},
           QueuedJobs(t)' \cap Notifications \subseteq QueuedJobs(t)
               \/ fixAlive # {} \/ applyTasks[t].running,
           \A i \in RoundsOf(t)' :
               \/ i \in RoundsOf(t) /\ Expected(rounds'[i]) \subseteq Expected(rounds[i]) \cup fixAlive
               \/ Expected(rounds'[i]) \subseteq fixAlive
    PROVE  LiveFits(t)'
<1> SUFFICES ASSUME applyTasks'[t].listed, t \notin Excused'
             PROVE  /\ Live(t)'
                    /\ applyTasks'[t].running \/ QueuedJobs(t)' \cap Notifications # {} => fixAlive' # {}
                    /\ \A i \in RoundsOf(t)' : Expected(rounds'[i]) \subseteq fixAlive'
  BY DEF LiveFits, Notifications
<1>1. applyTasks[t].listed /\ t \notin Excused
  BY DEF Onward, Excused
<1> QED BY <1>1 DEF LiveFits, Onward

\* One that is.
LEMMA FinishedFits ==
    ASSUME NEW t \in FixTasks, ~applyTasks'[t].listed
    PROVE  LiveFits(t)'
BY DEF LiveFits

LEMMA InvFacts ==
    ASSUME FixInv, NEW t \in FixTasks
    PROVE  /\ FixTypes /\ TaskFits(t)
           /\ TaskTypes /\ AchievedTypes /\ QueueTypes /\ AskedTypes /\ RoundTypes
           /\ ObserverTypes /\ BinderTypes /\ ProcessTypes
           /\ StagesFit(t) /\ LiveFits(t) /\ DeathFits(t) /\ DeployFits(t) /\ NewFits(t)
           /\ applyTasks[t] \in TaskType /\ reports[t] \subseteq Results
           /\ achieved[t] \subseteq Requests
BY DEF FixInv, FixTypes, TaskFits, TaskTypes, AchievedTypes

-----------------------------------------------------------------------------
(* The service and the timers. *)

\* A new task has its first step to do.
LEMMA NewTaskFits ==
    ASSUME FixInv, FixTypes', NEW t \in FixTasks, Onward,
           \A u \in FixTasks \ {t} : Same(u),
           applyTasks[t].type \in NotMade, NEW step \in {"deploy", "revoke"},
           applyTasks'[t].type = IF step = "deploy" THEN "apply" ELSE "revoke",
           ~applyTasks'[t].running,
           achieved'[t] = achieved[t], reports'[t] = reports[t],
           QueuedJobs(t)' = QueuedJobs(t) \cup {step},
           Once(fixQueue, <<"deploy", t>>) /\ "deploy" \notin QueuedJobs(t)
               => Once(fixQueue, <<"deploy", t>>)',
           SameAsked(t), SameRounds(t), SameWait(t)
    PROVE  FixStep
<1>1. FixTypes /\ \A u \in FixTasks : TaskFits(u)
  BY DEF FixInv
<1>2. StagesFit(t) /\ NewFits(t) /\ DeathFits(t) /\ DeployFits(t)
  BY <1>1 DEF TaskFits
<1>3. Jobs(t) = {}
  BY <1>2 DEF StagesFit, MayDo
<1>4. /\ QueuedJobs(t) = {} /\ AskedJobs(t) = {} /\ RoundJobs(t) = {}
      /\ ~Waits(t) /\ "ok" \notin reports[t]
  BY <1>3 DEF Jobs
<1>5. RoundsOf(t) = {}
  BY <1>4 DEF RoundJobs
<1>6. ~Waits(t)' /\ RoundsOf(t)' = {} /\ RoundJobs(t)' = {} /\ AskedJobs(t)' = {}
  <2>1. RoundsOf(t)' = {}
    BY <1>5 DEF SameRounds
  <2>2. RoundJobs(t)' = {rounds'[i].kind : i \in RoundsOf(t)'}
    BY DEF RoundJobs
  <2>3. ~Waits(t)'
    BY <1>4, WaitsFacts DEF SameWait
  <2> QED BY <1>4, <2>1, <2>2, <2>3 DEF SameAsked
<1>7. QueuedJobs(t)' = {step}
  BY <1>4
<1>8. Jobs(t)' = {step}
  BY <1>3, <1>4, <1>6, <1>7 DEF Jobs
<1>9. MayDo(applyTasks'[t].type, achieved'[t], step)
  BY DEF MayDo, Needs, NotMade
<1>10. StagesFit(t)'
  BY <1>8, <1>9 DEF StagesFit
<1>11. achieved[t] = {}
  BY <1>3 DEF Jobs
<1>12. Live(t)'
  BY <1>7 DEF Live
<1>13. LiveFits(t)'
  BY <1>6, <1>7, <1>12 DEF LiveFits, Notifications
<1>14. BinderOf(t)' = {} /\ diedCalls'[t] = diedCalls[t] /\ ~(diedCalls[t] > 0)
  BY <1>4, WaitsFacts DEF SameWait
<1>15. DeathFits(t)'
  BY <1>14 DEF DeathFits, BinderOf
<1>16. DeployFits(t)'
  BY <1>2, <1>4, <1>6, <1>7, <1>11 DEF DeployFits
<1>17. NewFits(t)'
  BY DEF NewFits, NotMade
<1>18. TaskFits(t)'
  BY <1>10, <1>13, <1>15, <1>16, <1>17 DEF TaskFits
<1>19. \A u \in FixTasks : TaskFits(u)'
  BY <1>1, <1>18, SameFits
<1>20. SwitchFits(t)
  BY <1>6, <1>7, <1>11 DEF SwitchFits, Switching
<1>21. \A u \in FixTasks : SwitchFits(u)
  BY <1>20, SameSwitch DEF Same, SameTask
<1> QED BY <1>19, <1>21 DEF FixInv, FixStep

\* The variables of appmgr that a step leaves alone.
LEMMA WaitStays ==
    ASSUME UNCHANGED <<observerVars, binder>>
    PROVE  \A u : SameWait(u)
BY BinderStays DEF observerVars, SameWait

LEMMA TypesStay ==
    ASSUME FixTypes
    PROVE  /\ UNCHANGED fixTaskVars => TaskTypes'
           /\ UNCHANGED achieved => AchievedTypes'
           /\ UNCHANGED handlerVars => QueueTypes'
           /\ UNCHANGED asked => AskedTypes'
           /\ UNCHANGED <<rounds, fixAlive>> => RoundTypes'
           /\ UNCHANGED observerVars => ObserverTypes'
           /\ UNCHANGED binder => BinderTypes'
           /\ UNCHANGED processVars => ProcessTypes' /\ Onward /\ UNCHANGED fixAlive
BY DEF FixTypes, TaskTypes, AchievedTypes, QueueTypes, AskedTypes, RoundTypes, ObserverTypes, BinderTypes,
       ProcessTypes, fixTaskVars, handlerVars, observerVars, processVars, RoundOver, Onward, IsABag,
       BagToSet

LEMMA ApplyQuickFixStep ==
    ASSUME FixInv, NEW t \in FixTasks, ApplyQuickFix(t)
    PROVE  FixStep
<1>1. /\ applyTasks[t].type = "none" /\ PostTask(t, "deploy", FALSE)
      /\ applyTasks' = [applyTasks EXCEPT ![t].type = "apply", ![t].listed = TRUE]
      /\ UNCHANGED <<reports, achieved, asked, rounds, observerVars, binder, processVars>>
  BY DEF ApplyQuickFix, NextTask
<1>2. /\ QueueTypes' /\ \A u \in FixTasks \ {t} : SameQueue(u)
      /\ QueuedJobs(t)' = QueuedJobs(t) \cup {"deploy"}
      /\ "deploy" \notin QueuedJobs(t) /\ Once(fixQueue, <<"deploy", t>>)
            => Once(fixQueue, <<"deploy", t>>)'
  <2>1. "deploy" \in Steps
    BY DEF Steps, Requests
  <2> QED BY <1>1, <2>1, InvFacts, PostTaskFacts
<1>3. applyTasks[t] = NewTask /\ applyTasks \in [FixTasks -> TaskType]
  BY <1>1, InvFacts DEF NewFits, NotMade, NewTask, TaskTypes
<1>4. /\ applyTasks'[t] = [NewTask EXCEPT !.type = "apply", !.listed = TRUE]
      /\ \A u \in FixTasks \ {t} : applyTasks'[u] = applyTasks[u]
  BY <1>1, <1>3
<1>5. [NewTask EXCEPT !.type = "apply", !.listed = TRUE] \in TaskType
  BY DEF NewTask, TaskType
<1>6. applyTasks' \in [FixTasks -> TaskType]
  BY <1>1, <1>3, <1>4, <1>5
<1>7. FixTypes
  BY DEF FixInv
<1>8. Onward /\ UNCHANGED fixAlive
  BY <1>1, <1>7, TypesStay
<1>9. FixTypes'
  <2>1. TaskTypes'
    BY <1>1, <1>6, <1>7 DEF FixTypes, TaskTypes
  <2> QED BY <1>1, <1>2, <1>7, <1>8, <2>1, TypesStay DEF FixTypes
<1>10. \A u : SameAsked(u) /\ SameRounds(u) /\ SameWait(u) /\ achieved'[u] = achieved[u]
              /\ reports'[u] = reports[u]
  BY <1>1, AskedStays, RoundsStay, WaitStays
<1>11. \A u \in FixTasks \ {t} : Same(u)
  BY <1>2, <1>4, <1>10 DEF Same, SameTask
<1>12. applyTasks'[t].type = "apply" /\ ~applyTasks'[t].running
  BY <1>4 DEF NewTask
<1>13. applyTasks[t].type \in NotMade
  BY <1>1 DEF NotMade
<1> QED BY <1>1, <1>2, <1>8, <1>9, <1>10, <1>11, <1>12, <1>13, NewTaskFits

\* The check alone makes no task.
LEMMA CheckTaskRunningStateStep ==
    ASSUME FixInv, NEW t \in FixTasks, CheckTaskRunningState(t)
    PROVE  FixStep
<1>1. /\ applyTasks[t].type = "none" /\ applyTasks' = [applyTasks EXCEPT ![t].type = "checked"]
      /\ UNCHANGED <<reports, achieved, handlerVars, asked, rounds, observerVars, binder, processVars>>
  BY DEF CheckTaskRunningState, NextTask
<1>2. applyTasks[t] = NewTask /\ applyTasks \in [FixTasks -> TaskType]
  BY <1>1, InvFacts DEF NewFits, NotMade, TaskTypes, NewTask
<1>3. PICK new \in TaskType : new = [NewTask EXCEPT !.type = "checked"]
  BY DEF NewTask, TaskType
<1>4. /\ applyTasks'[t] = new /\ \A u \in FixTasks \ {t} : applyTasks'[u] = applyTasks[u]
      /\ applyTasks' \in [FixTasks -> TaskType]
  BY <1>1, <1>2, <1>3
<1>5. FixTypes
  BY DEF FixInv
<1>6. Onward /\ UNCHANGED fixAlive
  BY <1>1, <1>5, TypesStay
<1>7. FixTypes'
  <2>1. TaskTypes'
    BY <1>1, <1>4, <1>5 DEF FixTypes, TaskTypes
  <2> QED BY <1>1, <1>5, <1>6, <2>1, TypesStay DEF FixTypes
<1>8. \A u : /\ SameQueue(u) /\ SameAsked(u) /\ SameRounds(u) /\ SameWait(u)
             /\ achieved'[u] = achieved[u] /\ reports'[u] = reports[u]
  BY <1>1, QueueStays, AskedStays, RoundsStay, WaitStays DEF handlerVars
<1>9. \A u \in FixTasks \ {t} : Same(u)
  BY <1>4, <1>8 DEF Same, SameTask
<1>10. /\ new.type = "checked" /\ ~new.so /\ ~new.listed /\ ~applyTasks[t].so
       /\ new = [NewTask EXCEPT !.type = new.type]
  BY <1>2, <1>3 DEF NewTask
<1>11. Waits(t)' <=> Waits(t)
  BY <1>8, WaitsFacts DEF SameWait
<1>12. Jobs(t) = {}
  BY <1>1, InvFacts DEF StagesFit, MayDo, NotMade
<1>13. RoundJobs(t)' = RoundJobs(t)
  BY <1>8, RoundsKept
<1>14. Jobs(t)' = {}
  BY <1>8, <1>11, <1>12, <1>13 DEF Jobs, SameQueue, SameAsked
<1>15. StagesFit(t)' /\ NewFits(t)'
  BY <1>4, <1>10, <1>14 DEF StagesFit, NewFits
<1>16. LiveFits(t)'
  BY <1>4, <1>10, FinishedFits
<1>17. BinderOf(t)' = {} /\ diedCalls'[t] = diedCalls[t] /\ ~(diedCalls[t] > 0)
  <2>1. ~Waits(t)
    BY <1>12 DEF Jobs
  <2> QED BY <1>8, <2>1, WaitsFacts DEF SameWait
<1>18. DeathFits(t)'
  BY <1>17 DEF DeathFits, BinderOf
<1>19. "unload" \notin QueuedJobs(t)' \cup RoundJobs(t)' /\ "deploy" \notin QueuedJobs(t)' \cup AskedJobs(t)'
  BY <1>14 DEF Jobs
<1>20. Once(fixQueue, <<"deploy", t>>)'
  BY <1>8, InvFacts DEF DeployFits, SameQueue
<1>21. DeployFits(t)'
  BY <1>19, <1>20 DEF DeployFits
<1>22. TaskFits(t)'
  BY <1>15, <1>16, <1>18, <1>21 DEF TaskFits
<1>23. \A u \in FixTasks : TaskFits(u)'
  BY <1>6, <1>9, <1>22, SameFits, InvFacts
<1>24. \A u \in FixTasks : SwitchFits(u)
  <2>1. SwitchFits(t)
    BY <1>4, <1>10 DEF SwitchFits
  <2> QED BY <1>9, <2>1, SameSwitch DEF Same, SameTask
<1> QED BY <1>7, <1>23, <1>24 DEF FixInv, FixStep

LEMMA RevokeQuickFixStep ==
    ASSUME FixInv, NEW t \in FixTasks, RevokeQuickFix(t)
    PROVE  FixStep
<1>1. /\ applyTasks[t].type = "checked" /\ PostTask(t, "revoke", FALSE)
      /\ UNCHANGED <<reports, achieved, asked, rounds, observerVars, binder, processVars>>
  BY DEF RevokeQuickFix
<1>2. PICK so \in BOOLEAN : applyTasks' = [applyTasks EXCEPT ![t].type = "revoke", ![t].named = TRUE,
                                             ![t].so = so, ![t].listed = TRUE]
  BY DEF RevokeQuickFix
<1>3. /\ QueueTypes' /\ \A u \in FixTasks \ {t} : SameQueue(u)
      /\ QueuedJobs(t)' = QueuedJobs(t) \cup {"revoke"}
      /\ "deploy" \notin QueuedJobs(t) /\ Once(fixQueue, <<"deploy", t>>)
            => Once(fixQueue, <<"deploy", t>>)'
  <2>1. "revoke" \in Steps
    BY DEF Steps
  <2> QED BY <1>1, <2>1, InvFacts, PostTaskFacts
<1>4. /\ applyTasks[t] = [NewTask EXCEPT !.type = "checked"] /\ applyTasks[t].type \in NotMade
      /\ applyTasks \in [FixTasks -> TaskType]
  BY <1>1, InvFacts DEF NewFits, NotMade, TaskTypes
<1> DEFINE new == [NewTask EXCEPT !.type = "revoke", !.named = TRUE, !.so = so, !.listed = TRUE]
<1>5. new \in TaskType /\ new.type = "revoke" /\ ~new.running
  BY DEF NewTask, TaskType
<1>6. applyTasks'[t] = new /\ \A u \in FixTasks \ {t} : applyTasks'[u] = applyTasks[u]
  BY <1>2, <1>4 DEF NewTask
<1>7. applyTasks' \in [FixTasks -> TaskType]
  <2> HIDE DEF new
  <2> QED BY <1>2, <1>4, <1>5, <1>6
<1> HIDE DEF new
<1>8. FixTypes
  BY DEF FixInv
<1>9. Onward /\ UNCHANGED fixAlive
  BY <1>1, <1>8, TypesStay
<1>10. FixTypes'
  <2>1. TaskTypes'
    BY <1>1, <1>7, <1>8 DEF FixTypes, TaskTypes
  <2> QED BY <1>1, <1>3, <1>8, <1>9, <2>1, TypesStay DEF FixTypes
<1>11. \A u : SameAsked(u) /\ SameRounds(u) /\ SameWait(u) /\ achieved'[u] = achieved[u]
              /\ reports'[u] = reports[u]
  BY <1>1, AskedStays, RoundsStay, WaitStays
<1>12. \A u \in FixTasks \ {t} : Same(u)
  BY <1>3, <1>6, <1>11 DEF Same, SameTask
<1>13. applyTasks'[t].type = "revoke" /\ ~applyTasks'[t].running
  BY <1>5, <1>6
<1> QED BY <1>1, <1>3, <1>4, <1>9, <1>10, <1>11, <1>12, <1>13, NewTaskFits

\* The jobs and the state of the model.
LEMMA JobsFacts ==
    ASSUME QueueTypes, NEW t \in FixTasks
    PROVE  /\ QueuedJobs(t) = {fixQueue[i][1] : i \in Queued(t)}
           /\ Queued(t) # {} <=> QueuedJobs(t) # {}
           /\ Asking(t) <=> AskedJobs(t) # {}
           /\ RoundsOf(t) # {} <=> RoundJobs(t) # {}
<1>1. \A i \in DOMAIN fixQueue : fixQueue[i] \in Steps \X FixTasks
  BY DEF QueueTypes
<1>2. \A i \in DOMAIN fixQueue : fixQueue[i] = <<fixQueue[i][1], fixQueue[i][2]>> /\ fixQueue[i][1] \in Steps
  BY <1>1
<1>3. ASSUME NEW step \in QueuedJobs(t) PROVE \E i \in Queued(t) : fixQueue[i][1] = step
  BY <1>2 DEF QueuedJobs, InQueue, Queued
<1>4. ASSUME NEW i \in Queued(t) PROVE fixQueue[i][1] \in QueuedJobs(t)
  <2>1. i \in DOMAIN fixQueue /\ fixQueue[i] = <<fixQueue[i][1], t>> /\ fixQueue[i][1] \in Steps
    BY <1>2 DEF Queued
  <2> QED BY <2>1 DEF QueuedJobs, InQueue
<1>5. QueuedJobs(t) = {fixQueue[i][1] : i \in Queued(t)}
  BY <1>3, <1>4
<1>6. Asking(t) <=> AskedJobs(t) # {}
  BY DEF Asking, AskedJobs
<1> QED BY <1>5, <1>6 DEF RoundJobs

LEMMA MadeFacts ==
    ASSUME FixInv, NEW t \in FixTasks, Referenced(t)
    PROVE  applyTasks[t].type \notin NotMade
<1> SUFFICES ASSUME applyTasks[t].type \in NotMade PROVE FALSE
  OBVIOUS
<1>1. Jobs(t) = {} /\ ~applyTasks[t].listed
  BY InvFacts DEF StagesFit, MayDo, NewFits, NewTask
<1>2. QueuedJobs(t) = {} /\ AskedJobs(t) = {} /\ RoundJobs(t) = {} /\ ~Waits(t)
  BY <1>1 DEF Jobs
<1> QED BY <1>1, <1>2, JobsFacts, InvFacts DEF Referenced, Waits

\* A job is of a task that was made.
LEMMA JobMade ==
    ASSUME FixInv, NEW t \in FixTasks, NEW job,
           \/ job \in QueuedJobs(t) \/ job \in AskedJobs(t) \/ job \in RoundJobs(t)
           \/ job = "wait" /\ Waits(t)
    PROVE  applyTasks[t].type \notin NotMade /\ MayDo(applyTasks[t].type, achieved[t], job)
<1>1. job \in Jobs(t)
  BY DEF Jobs
<1> QED BY <1>1, InvFacts DEF StagesFit, MayDo

LEMMA AllSame ==
    ASSUME FixInv, FixTypes', Onward, \A u \in FixTasks : Same(u)
    PROVE  FixStep
<1>1. \A u \in FixTasks : TaskFits(u)'
  BY SameFits DEF FixInv
<1>2. \A u \in FixTasks : SwitchFits(u)
  BY SameSwitch DEF Same, SameTask
<1> QED BY <1>1, <1>2 DEF FixStep, FixInv

\* A task ends without success, and nothing else happens but that a request is answered.
LEMMA EndsFit ==
    ASSUME FixInv, FixTypes', NEW t \in FixTasks, Onward,
           \A u \in FixTasks \ {t} : Same(u), applyTasks[t].type \notin NotMade,
           applyTasks'[t] = [applyTasks[t] EXCEPT !.listed = FALSE],
           NEW result, reports'[t] = reports[t] \cup {result}, result # "ok",
           achieved'[t] = achieved[t], SameQueue(t), SameRounds(t), SameWait(t),
           AskedJobs(t)' \subseteq AskedJobs(t),
           "deploy" \in AskedJobs(t)' => asked'[<<"deploy", t>>] = asked[<<"deploy", t>>]
    PROVE  FixStep
<1>1. applyTasks[t] \in TaskType
  BY InvFacts
<1>2. /\ applyTasks'[t].type = applyTasks[t].type /\ ~applyTasks'[t].listed
      /\ applyTasks'[t].so = applyTasks[t].so
  BY <1>1 DEF TaskType
<1>3. RoundJobs(t)' = RoundJobs(t)
  <2>1. RoundJobs(t)' = {rounds'[i].kind : i \in RoundsOf(t)'}
    BY DEF RoundJobs
  <2> QED BY <2>1 DEF RoundJobs, SameRounds
<1>4. LiveFits(t)'
  BY <1>2, FinishedFits
<1>5. DeathFits(t)'
  BY <1>2, InvFacts, DeathSame DEF Onward
<1>6. DeployFits(t)'
  BY <1>2, <1>3, InvFacts, DeployStays DEF SameQueue
<1>7. SwitchFits(t)
  BY <1>2 DEF SwitchFits, Switching, SameQueue
<1>8. Waits(t)' => Waits(t)
  BY WaitsFacts DEF SameWait
<1> DEFINE N == {}
<1>9. \A job \in N : MayDo(applyTasks[t].type, achieved'[t], job)
  OBVIOUS
<1>10. /\ QueuedJobs(t)' \subseteq QueuedJobs(t) /\ RoundJobs(t)' \subseteq RoundJobs(t)
       /\ "ok" \in reports'[t] => "ok" \in reports[t]
  BY <1>3 DEF SameQueue
<1> HIDE DEF N
<1> QED BY <1>2, <1>4, <1>5, <1>6, <1>7, <1>8, <1>9, <1>10, MovesOn

LEMMA TimeOutStep ==
    ASSUME FixInv, NEW t \in FixTasks, TimeOut(t)
    PROVE  FixStep
<1>1. /\ fixTimers[t] > 0 /\ fixTimers' = [fixTimers EXCEPT ![t] = @ - 1]
      /\ IF Referenced(t) THEN Finish(t, "timeout") ELSE UNCHANGED fixTaskVars
      /\ UNCHANGED <<achieved, fixQueue, asked, rounds, observerVars, binder, processVars>>
  BY DEF TimeOut
<1>2. FixTypes
  BY DEF FixInv
<1>3. fixTimers' \in [FixTasks -> Nat]
  BY <1>1, <1>2 DEF FixTypes, QueueTypes
<1>4. QueueTypes' /\ \A u : SameQueue(u)
  BY <1>1, <1>2, <1>3, TimersFacts DEF FixTypes
<1>5. Onward /\ UNCHANGED fixAlive
  BY <1>1, <1>2, TypesStay
<1>6. \A u : SameAsked(u) /\ SameRounds(u) /\ SameWait(u) /\ achieved'[u] = achieved[u]
  BY <1>1, AskedStays, RoundsStay, WaitStays
<1>7. CASE Referenced(t)
  <2>1. /\ TaskTypes' /\ \A u \in FixTasks \ {t} : SameTask(u)
        /\ reports'[t] = reports[t] \cup {"timeout"}
        /\ applyTasks'[t] = [applyTasks[t] EXCEPT !.listed = FALSE]
    BY <1>1, <1>2, <1>7, FinishFacts DEF FixTypes, Results
  <2>2. FixTypes'
    BY <1>1, <1>2, <1>4, <1>5, <2>1, TypesStay DEF FixTypes
  <2>3. \A u \in FixTasks \ {t} : Same(u)
    BY <1>4, <1>6, <2>1 DEF Same
  <2>4. applyTasks[t].type \notin NotMade
    BY <1>7, MadeFacts
  <2>5. /\ AskedJobs(t)' \subseteq AskedJobs(t)
        /\ "deploy" \in AskedJobs(t)' => asked'[<<"deploy", t>>] = asked[<<"deploy", t>>]
    BY <1>6 DEF SameAsked
  <2> QED BY <1>4, <1>5, <1>6, <2>1, <2>2, <2>3, <2>4, <2>5, EndsFit
<1>8. CASE ~Referenced(t)
  <2>1. UNCHANGED fixTaskVars
    BY <1>1, <1>8
  <2>2. FixTypes'
    BY <1>1, <1>2, <1>4, <1>5, <2>1, TypesStay DEF FixTypes
  <2>3. \A u \in FixTasks : Same(u)
    BY <1>4, <1>6, <2>1 DEF Same, SameTask, fixTaskVars
  <2> QED BY <1>5, <2>2, <2>3, AllSame
<1> QED BY <1>7, <1>8

-----------------------------------------------------------------------------
(* The answers of the bundle manager. *)

LEMMA OnPatchFailedStep ==
    ASSUME FixInv, NEW t \in FixTasks, NEW request \in Requests, OnPatchFailed(request, t)
    PROVE  FixStep
<1>1. /\ Answered(request, t) /\ asked' = Pending(request, t) /\ Finish(t, "failed")
      /\ RemoveTimeoutTask
      /\ UNCHANGED <<achieved, rounds, observerVars, binder, processVars>>
  BY DEF OnPatchFailed
<1>2. FixTypes
  BY DEF FixInv
<1>3. request \in AskedJobs(t)
  BY <1>1 DEF Answered, AskedJobs
<1>4. QueueTypes' /\ \A u : SameQueue(u)
  BY <1>1, <1>2, RemoveTimeoutFacts DEF FixTypes
<1>5. Onward /\ UNCHANGED fixAlive
  BY <1>1, <1>2, TypesStay
<1>6. \A u : SameRounds(u) /\ SameWait(u) /\ achieved'[u] = achieved[u]
  BY <1>1, RoundsStay, WaitStays
<1>7. /\ AskedTypes' /\ \A u \in FixTasks \ {t} : SameAsked(u)
      /\ AskedJobs(t)' \subseteq AskedJobs(t)
      /\ request # "deploy" /\ "deploy" \in AskedJobs(t)'
            => asked'[<<"deploy", t>>] = asked[<<"deploy", t>>]
      /\ request \in AskedJobs(t) /\ asked[<<request, t>>] = 1 => request \notin AskedJobs(t)'
  BY <1>1, <1>2, AnsweredFacts DEF FixTypes
<1>8. request = "deploy" => asked[<<request, t>>] = 1
  BY <1>3, InvFacts DEF DeployFits
<1>9. /\ TaskTypes' /\ \A u \in FixTasks \ {t} : SameTask(u)
      /\ reports'[t] = reports[t] \cup {"failed"}
      /\ applyTasks'[t] = [applyTasks[t] EXCEPT !.listed = FALSE]
  BY <1>1, <1>2, FinishFacts DEF FixTypes, Results
<1>10. FixTypes'
  BY <1>1, <1>2, <1>4, <1>5, <1>7, <1>9, TypesStay DEF FixTypes
<1>11. \A u \in FixTasks \ {t} : Same(u)
  BY <1>4, <1>6, <1>7, <1>9 DEF Same
<1>12. applyTasks[t].type \notin NotMade
  BY <1>3, JobMade
<1>13. "deploy" \in AskedJobs(t)' => asked'[<<"deploy", t>>] = asked[<<"deploy", t>>]
  BY <1>3, <1>7, <1>8
<1> QED BY <1>4, <1>5, <1>6, <1>7, <1>9, <1>10, <1>11, <1>12, <1>13, EndsFit

\* A handler on a binder thread of appmgr begins, or another one ends.
LEMMA BinderFacts ==
    ASSUME BinderTypes, NEW t \in FixTasks, NEW c \in BinderType, c.task = t,
           NEW others, others = binder \/ others = BagRemove(binder, c)
    PROVE  /\ binder' = others =>
                /\ BinderTypes' /\ BinderOf(t)' \subseteq BinderOf(t)
                /\ \A u \in FixTasks \ {t} : BinderOf(u)' = BinderOf(u)
           /\ \A b \in BinderType : b.task = t /\ binder' = BagAdd(others, b) =>
                /\ BinderTypes' /\ b \in BinderOf(t)' /\ BinderOf(t)' \subseteq BinderOf(t) \cup {b}
                /\ \A u \in FixTasks \ {t} : BinderOf(u)' = BinderOf(u)
<1>1. /\ IsABag(others) /\ BagToSet(others) \subseteq BagToSet(binder)
      /\ BagToSet(binder) \subseteq BagToSet(others) \cup {c}
  BY RemovedFacts DEF BinderTypes
<1>2. \A u : BinderOf(u)' = {b \in BagToSet(binder') : b.task = u}
  BY DEF BinderOf, BagToSet
<1>3. BinderTypes' <=> IsABag(binder') /\ BagToSet(binder') \subseteq BinderType
  BY DEF BinderTypes, IsABag, BagToSet
<1>4. ASSUME binder' = others
      PROVE  /\ BinderTypes' /\ BinderOf(t)' \subseteq BinderOf(t)
             /\ \A u \in FixTasks \ {t} : BinderOf(u)' = BinderOf(u)
  BY <1>1, <1>2, <1>3, <1>4 DEF BinderTypes, BinderOf
<1>5. ASSUME NEW b \in BinderType, b.task = t, binder' = BagAdd(others, b)
      PROVE  /\ BinderTypes' /\ b \in BinderOf(t)' /\ BinderOf(t)' \subseteq BinderOf(t) \cup {b}
             /\ \A u \in FixTasks \ {t} : BinderOf(u)' = BinderOf(u)
  <2> DEFINE more == BagAdd(others, b)
  <2>1. IsABag(more) /\ BagToSet(more) = BagToSet(others) \cup {b}
    BY <1>1, AddedFacts
  <2> HIDE DEF more
  <2>2. IsABag(binder') /\ BagToSet(binder') = BagToSet(others) \cup {b}
    BY <1>5, <2>1 DEF more
  <2> QED BY <1>1, <1>2, <1>3, <1>5, <2>2 DEF BinderTypes, BinderOf
<1> QED BY <1>4, <1>5

\* HandlePatchDeployed: the task waits for deaths, unloads or switches.
LEMMA HandlePatchDeployedFacts ==
    ASSUME TaskTypes, QueueTypes, BinderTypes, NEW t \in FixTasks, NEW task \in TaskType,
           NEW from \in {"deployed", "died"}, NEW c \in BinderType, c.task = t,
           NEW others, others = binder \/ others = BagRemove(binder, c),
           HandlePatchDeployed(t, task, from, others), UNCHANGED reports
    PROVE  /\ TaskTypes' /\ QueueTypes' /\ BinderTypes'
           /\ applyTasks'[t] = [task EXCEPT !.running = (fixAlive # {})] /\ reports'[t] = reports[t]
           /\ \A u \in FixTasks \ {t} : SameTask(u) /\ SameQueue(u) /\ BinderOf(u)' = BinderOf(u)
           /\ Once(fixQueue, <<"deploy", t>>) => Once(fixQueue, <<"deploy", t>>)'
           /\ \/ /\ fixAlive # {} /\ task.so /\ SameQueue(t)
                 /\ BinderOf(t)' # {}
                 /\ BinderOf(t)' \subseteq BinderOf(t) \cup {[task |-> t, at |-> "register", from |-> from]}
              \/ /\ fixAlive # {} /\ ~task.so /\ QueuedJobs(t)' = QueuedJobs(t) \cup {"unload"}
                 /\ BinderOf(t)' \subseteq BinderOf(t)
              \/ /\ ~(fixAlive # {} /\ task.so) /\ QueuedJobs(t)' = QueuedJobs(t) \cup {"switch"}
                 /\ BinderOf(t)' \subseteq BinderOf(t)
<1> DEFINE b == [task |-> t, at |-> "register", from |-> from]
           new == [task EXCEPT !.running = (fixAlive # {})]
<1>1. new \in TaskType /\ b \in BinderType /\ b.task = t
  BY DEF TaskType, BinderType
<1>2. applyTasks' = [applyTasks EXCEPT ![t] = new]
  BY DEF HandlePatchDeployed
<1>3. applyTasks \in [FixTasks -> TaskType]
  BY DEF TaskTypes
<1> HIDE DEF new, b
<1>4. /\ applyTasks' \in [FixTasks -> TaskType] /\ applyTasks'[t] = new
      /\ \A u \in FixTasks \ {t} : applyTasks'[u] = applyTasks[u]
  BY <1>1, <1>2, <1>3
<1>5. TaskTypes' /\ \A u \in FixTasks \ {t} : SameTask(u)
  BY <1>4 DEF TaskTypes, SameTask
<1>6. "unload" \in Steps /\ "switch" \in Steps
  BY DEF Steps, Notifications, Requests
<1>7. CASE fixAlive # {} /\ task.so
  <2>1. binder' = BagAdd(others, b) /\ UNCHANGED handlerVars
    BY <1>7 DEF HandlePatchDeployed, b
  <2>2. /\ BinderTypes' /\ b \in BinderOf(t)' /\ BinderOf(t)' \subseteq BinderOf(t) \cup {b}
        /\ \A u \in FixTasks \ {t} : BinderOf(u)' = BinderOf(u)
    BY <1>1, <2>1, BinderFacts
  <2>3. QueueTypes' /\ \A u : SameQueue(u)
    BY <2>1, QueueStays DEF QueueTypes, handlerVars
  <2> QED BY <1>4, <1>5, <1>7, <2>2, <2>3 DEF new, b, SameQueue
<1>8. CASE ~(fixAlive # {} /\ task.so)
  <2>1. /\ binder' = others
        /\ \/ fixAlive # {} /\ PostTask(t, "unload", from = "deployed")
           \/ PostTask(t, "switch", from = "deployed")
    BY <1>8 DEF HandlePatchDeployed
  <2>2. /\ BinderTypes' /\ BinderOf(t)' \subseteq BinderOf(t)
        /\ \A u \in FixTasks \ {t} : BinderOf(u)' = BinderOf(u)
    BY <2>1, BinderFacts
  <2>3. CASE fixAlive # {} /\ PostTask(t, "unload", from = "deployed")
    <3>1. /\ QueueTypes' /\ \A u \in FixTasks \ {t} : SameQueue(u)
          /\ QueuedJobs(t)' = QueuedJobs(t) \cup {"unload"}
          /\ Once(fixQueue, <<"deploy", t>>) => Once(fixQueue, <<"deploy", t>>)'
      BY <1>6, <2>3, PostTaskFacts
    <3> QED BY <1>4, <1>5, <1>8, <2>2, <2>3, <3>1 DEF new
  <2>4. CASE PostTask(t, "switch", from = "deployed")
    <3>1. /\ QueueTypes' /\ \A u \in FixTasks \ {t} : SameQueue(u)
          /\ QueuedJobs(t)' = QueuedJobs(t) \cup {"switch"}
          /\ Once(fixQueue, <<"deploy", t>>) => Once(fixQueue, <<"deploy", t>>)'
      BY <1>6, <2>4, PostTaskFacts
    <3> QED BY <1>4, <1>5, <1>8, <2>2, <2>4, <3>1 DEF new
  <2> QED BY <2>1, <2>3, <2>4
<1> QED BY <1>7, <1>8

LEMMA AchieveFacts ==
    ASSUME AchievedTypes, NEW t \in FixTasks, NEW request \in Requests, Achieve(request, t)
    PROVE  /\ AchievedTypes' /\ achieved'[t] = achieved[t] \cup {request}
           /\ \A u \in FixTasks \ {t} : achieved'[u] = achieved[u]
<1>1. /\ achieved \in [FixTasks -> SUBSET Requests]
      /\ achieved' = [achieved EXCEPT ![t] = @ \cup {request}]
  BY DEF AchievedTypes, Achieve
<1>2. achieved' \in [FixTasks -> SUBSET Requests]
  BY <1>1
<1> QED BY <1>1, <1>2 DEF AchievedTypes

LEMMA OnPatchDeployedStep ==
    ASSUME FixInv, NEW t \in FixTasks, OnPatchDeployed(t)
    PROVE  FixStep
<1>1. /\ Answered("deploy", t) /\ asked' = Pending("deploy", t) /\ Achieve("deploy", t)
      /\ UNCHANGED <<reports, rounds, observerVars, processVars>>
  BY DEF OnPatchDeployed
<1>2. PICK so \in BOOLEAN, hot \in BOOLEAN :
         HandlePatchDeployed(t, [applyTasks[t] EXCEPT !.named = TRUE, !.so = so, !.hot = hot],
                             "deployed", binder)
  BY DEF OnPatchDeployed
<1>3. FixTypes /\ "deploy" \in Requests /\ applyTasks[t] \in TaskType
  BY InvFacts DEF FixInv, Requests
<1>4. "deploy" \in AskedJobs(t)
  BY <1>1, <1>3 DEF Answered, AskedJobs
<1>5. applyTasks[t].type = "apply"
  BY <1>4, JobMade DEF MayDo
<1>6. /\ "deploy" \notin achieved[t] /\ asked[<<"deploy", t>>] = 1 /\ "deploy" \notin QueuedJobs(t)
      /\ Once(fixQueue, <<"deploy", t>>)
  BY <1>4, InvFacts DEF DeployFits
<1>7. Jobs(t) \subseteq {"deploy"}
  <2>1. \A job \in Jobs(t) : MayDo("apply", achieved[t], job)
    BY <1>5, InvFacts DEF StagesFit
  <2>2. Jobs(t) \subseteq Steps \cup {"wait", "ok"}
    <3>1. RoundJobs(t) \subseteq Notifications
      BY <1>3 DEF FixTypes, RoundTypes, RoundType, RoundRecord, RoundJobs, RoundsOf
    <3>2. QueuedJobs(t) \subseteq Steps /\ AskedJobs(t) \subseteq Requests
      BY DEF QueuedJobs, AskedJobs
    <3> QED BY <3>1, <3>2, InvFacts DEF Jobs, Steps
  <2>3. ASSUME NEW job \in (Steps \cup {"wait", "ok"}) \ {"deploy"} PROVE ~MayDo("apply", achieved[t], job)
    BY <1>6 DEF MayDo, Needs, Steps, Requests, Notifications
  <2> QED BY <2>1, <2>2, <2>3
<1>8. /\ QueuedJobs(t) = {} /\ RoundsOf(t) = {} /\ RoundJobs(t) = {}
  <2>1. RoundJobs(t) \subseteq Notifications
    BY <1>3 DEF FixTypes, RoundTypes, RoundType, RoundRecord, RoundJobs, RoundsOf
  <2>2. QueuedJobs(t) = {} /\ RoundJobs(t) = {}
    BY <1>6, <1>7, <2>1 DEF Jobs, Notifications
  <2> QED BY <2>2, <1>3, JobsFacts DEF FixTypes
<1> DEFINE task == [applyTasks[t] EXCEPT !.named = TRUE, !.so = so, !.hot = hot]
           c == [task |-> t, at |-> "register", from |-> "deployed"]
<1>9. task \in TaskType /\ task.so = so /\ task.type = "apply" /\ task.listed = applyTasks[t].listed
  BY <1>3, <1>5 DEF TaskType
<1>10. c \in BinderType /\ c.task = t /\ c.from = "deployed" /\ c.at = "register"
  BY DEF BinderType
<1> HIDE DEF task, c
<1>11. /\ TaskTypes' /\ QueueTypes' /\ BinderTypes'
       /\ applyTasks'[t] = [task EXCEPT !.running = (fixAlive # {})] /\ reports'[t] = reports[t]
       /\ \A u \in FixTasks \ {t} : SameTask(u) /\ SameQueue(u) /\ BinderOf(u)' = BinderOf(u)
       /\ Once(fixQueue, <<"deploy", t>>)'
       /\ \/ /\ fixAlive # {} /\ task.so /\ SameQueue(t)
             /\ BinderOf(t)' # {} /\ BinderOf(t)' \subseteq BinderOf(t) \cup {c}
          \/ /\ fixAlive # {} /\ ~task.so /\ QueuedJobs(t)' = QueuedJobs(t) \cup {"unload"}
             /\ BinderOf(t)' \subseteq BinderOf(t)
          \/ /\ ~(fixAlive # {} /\ task.so) /\ QueuedJobs(t)' = QueuedJobs(t) \cup {"switch"}
             /\ BinderOf(t)' \subseteq BinderOf(t)
  <2>1. HandlePatchDeployed(t, task, "deployed", binder) /\ UNCHANGED reports
    BY <1>1, <1>2 DEF task
  <2>2. TaskTypes /\ QueueTypes /\ BinderTypes
    BY <1>3 DEF FixTypes
  <2> QED BY <1>6, <1>9, <1>10, <2>1, <2>2, HandlePatchDeployedFacts DEF c
<1>12. /\ applyTasks'[t].type = "apply" /\ applyTasks'[t].so = task.so
       /\ applyTasks'[t].listed = applyTasks[t].listed
       /\ applyTasks'[t].running = (fixAlive # {})
  BY <1>9, <1>11 DEF TaskType
<1>13. /\ AchievedTypes' /\ achieved'[t] = achieved[t] \cup {"deploy"}
       /\ \A u \in FixTasks \ {t} : achieved'[u] = achieved[u]
  BY <1>1, <1>3, AchieveFacts DEF FixTypes
<1>14. /\ AskedTypes' /\ \A u \in FixTasks \ {t} : SameAsked(u)
       /\ AskedJobs(t)' \subseteq AskedJobs(t) /\ "deploy" \notin AskedJobs(t)'
  BY <1>1, <1>3, <1>4, <1>6, AnsweredFacts DEF FixTypes
<1>15. Onward /\ UNCHANGED fixAlive
  BY <1>1, <1>3, TypesStay
<1>16. FixTypes'
  BY <1>1, <1>3, <1>11, <1>13, <1>14, <1>15, TypesStay DEF FixTypes
<1>17. \A u : SameRounds(u) /\ observers'[u] = observers[u] /\ diedCalls'[u] = diedCalls[u]
  BY <1>1, RoundsStay DEF observerVars
<1>18. \A u \in FixTasks \ {t} : Same(u)
  BY <1>11, <1>13, <1>14, <1>17 DEF Same, SameWait
<1>19. RoundsOf(t)' = {} /\ RoundJobs(t)' = {}
  <2>1. RoundsOf(t)' = {}
    BY <1>8, <1>17 DEF SameRounds
  <2>2. RoundJobs(t)' = {rounds'[i].kind : i \in RoundsOf(t)'}
    BY DEF RoundJobs
  <2> QED BY <2>1, <2>2
<1>20. QueuedJobs(t)' \subseteq {"unload", "switch"} /\ ("unload" \in QueuedJobs(t)' => fixAlive # {} /\ ~task.so)
  BY <1>8, <1>11 DEF SameQueue
<1>21. QueuedJobs(t)' # {} \/ Waits(t)'
  BY <1>11, WaitsFacts
<1>22. LiveFits(t)'
  <2>1. Live(t)'
    BY <1>21 DEF Live
  <2>2. QueuedJobs(t)' \cap Notifications # {} => fixAlive # {}
    BY <1>20 DEF Notifications
  <2> QED BY <1>12, <1>15, <1>19, <2>1, <2>2 DEF LiveFits
<1>23. DeathFits(t)'
  <2> DEFINE N == {c}
  <2>1. BinderOf(t)' \subseteq BinderOf(t) \cup N
    BY <1>11
  <2>2. \A b \in N : /\ b.from = "died" => t \in bereaved'
                     /\ b.at = "handle" => applyTasks[t].type = "apply"
    BY <1>10
  <2> HIDE DEF N
  <2> QED BY <1>5, <1>12, <1>15, <1>17, <2>1, <2>2, InvFacts, DeathStays DEF Onward
<1>24. DeployFits(t)'
  BY <1>11, <1>12, <1>14, <1>19, <1>20 DEF DeployFits
<1>25. SwitchFits(t)
  <2>1. "switch" \notin AskedJobs(t) \cup achieved[t]
    BY <1>7 DEF Jobs
  <2> QED BY <1>8, <1>11, <1>12, <1>13, <1>14, <2>1 DEF SwitchFits, Switching, SameQueue
<1> DEFINE N == {"wait", "unload", "switch"}
<1>26. \A job \in N : MayDo(applyTasks[t].type, achieved'[t], job)
  BY <1>5, <1>13 DEF MayDo, Needs, NotMade
<1>27. /\ QueuedJobs(t)' \subseteq N /\ RoundJobs(t)' = {} /\ "wait" \in N
  BY <1>19, <1>20
<1> HIDE DEF N
<1> QED
  BY <1>4, <1>5, <1>11, <1>12, <1>13, <1>14, <1>15, <1>16, <1>18, <1>22, <1>23, <1>24, <1>25, <1>26, <1>27,
     MovesOn DEF NotMade

-----------------------------------------------------------------------------
(* The other answers. *)

\* A step of task t that deploys nothing: its new jobs N are allowed, and the task, if it
\* stays listed and no process died, goes on.
LEMMA TaskMoves ==
    ASSUME FixInv, FixTypes', NEW t \in FixTasks, Onward,
           \A u \in FixTasks \ {t} : Same(u), applyTasks[t].type \notin NotMade,
           applyTasks'[t].type = applyTasks[t].type, applyTasks'[t].so = applyTasks[t].so,
           applyTasks'[t].listed => applyTasks[t].listed,
           applyTasks'[t].running => applyTasks[t].running \/ fixAlive # {},
           achieved[t] \subseteq achieved'[t], achieved'[t] \subseteq achieved[t] \cup AskedJobs(t),
           "deploy" \in achieved'[t] => "deploy" \in achieved[t],
           NEW N, \A job \in N : job # "deploy" /\ MayDo(applyTasks[t].type, achieved'[t], job),
           QueuedJobs(t)' \subseteq QueuedJobs(t) \cup N,
           AskedJobs(t)' \subseteq AskedJobs(t) \cup N,
           RoundJobs(t)' \subseteq RoundJobs(t) \cup N,
           Waits(t)' => Waits(t) \/ "wait" \in N,
           "ok" \in reports'[t] => "ok" \in reports[t] \/ "ok" \in N,
           Once(fixQueue, <<"deploy", t>>) => Once(fixQueue, <<"deploy", t>>)',
           "deploy" \in AskedJobs(t)' => asked'[<<"deploy", t>>] = asked[<<"deploy", t>>],
           "unload" \in N => ~applyTasks[t].so \/ applyTasks[t].type # "apply",
           DeathFits(t)', SwitchFits(t),
           applyTasks'[t].listed /\ t \notin Excused' => Live(t)',
           QueuedJobs(t)' \cap Notifications \subseteq QueuedJobs(t)
               \/ fixAlive # {} \/ applyTasks[t].running,
           \A i \in RoundsOf(t)' :
               \/ i \in RoundsOf(t) /\ Expected(rounds'[i]) \subseteq Expected(rounds[i]) \cup fixAlive
               \/ Expected(rounds'[i]) \subseteq fixAlive
    PROVE  FixStep
<1>1. LiveFits(t) /\ DeployFits(t)
  BY InvFacts
<1>2. LiveFits(t)'
  BY <1>1, LiveStays
<1>3. /\ "deploy" \in QueuedJobs(t)' => "deploy" \in QueuedJobs(t)
      /\ "deploy" \in AskedJobs(t)' => "deploy" \in AskedJobs(t)
      /\ "unload" \in QueuedJobs(t)' \cup RoundJobs(t)' =>
               \/ "unload" \in QueuedJobs(t) \cup RoundJobs(t)
               \/ ~applyTasks[t].so \/ applyTasks[t].type # "apply"
  OBVIOUS
<1>4. DeployFits(t)'
  BY <1>1, <1>3, DeployStays
<1>5. \A job \in N : MayDo(applyTasks[t].type, achieved'[t], job)
  OBVIOUS
<1>6. /\ QueuedJobs(t)' \subseteq QueuedJobs(t) \cup AskedJobs(t) \cup RoundJobs(t) \cup N
      /\ AskedJobs(t)' \subseteq QueuedJobs(t) \cup AskedJobs(t) \cup RoundJobs(t) \cup N
      /\ RoundJobs(t)' \subseteq QueuedJobs(t) \cup AskedJobs(t) \cup RoundJobs(t) \cup N
  OBVIOUS
<1> QED BY <1>2, <1>4, <1>5, <1>6, MovesOn

\* A notification of running processes begins.
LEMMA StartRoundFacts ==
    ASSUME RoundTypes, ProcessTypes, NEW t \in FixTasks, NEW kind \in Notifications,
           NEW by \in {"handler", "binder"}, StartRound(t, kind, by), fixAlive # {},
           UNCHANGED fixAlive
    PROVE  /\ RoundTypes' /\ \A u \in FixTasks \ {t} : SameRounds(u)
           /\ RoundJobs(t)' \subseteq RoundJobs(t) \cup {kind}
           /\ Live(t)'
           /\ \A i \in RoundsOf(t)' :
                \/ i \in RoundsOf(t) /\ rounds'[i] = rounds[i]
                \/ Expected(rounds'[i]) \subseteq fixAlive
<1>1. PICK i \in FreeRounds : SetRound(i, [task |-> t, kind |-> kind, by |-> by, todo |-> fixAlive,
                         telling |-> {}, told |-> FALSE, waiting |-> {}, inspecting |-> {},
                         failed |-> FALSE, called |-> FALSE])
  BY DEF StartRound
<1>2. PICK r \in RoundType : r = [task |-> t, kind |-> kind, by |-> by, todo |-> fixAlive,
                         telling |-> {}, told |-> FALSE, waiting |-> {}, inspecting |-> {},
                         failed |-> FALSE, called |-> FALSE]
  BY DEF RoundType, RoundRecord, TellingFits, ProcessTypes
<1>3. i \in 1..MaxRounds /\ i \notin DOMAIN rounds /\ SetRound(i, r)
  BY <1>1, <1>2 DEF FreeRounds
<1>4. /\ r.task = t /\ r.kind = kind /\ Expected(r) \subseteq fixAlive
      /\ ~RoundOver(r, fixAlive) /\ ~Spent(r)
  BY <1>2 DEF RoundOver, Spent, Expected
<1>5. /\ RoundTypes' /\ \A u \in FixTasks \ {t} : SameRounds(u)
      /\ RoundsOf(t)' \subseteq RoundsOf(t) \cup {i}
      /\ \A j \in RoundsOf(t)' : j # i => rounds'[j] = rounds[j]
      /\ i \in RoundsOf(t)' /\ rounds'[i] = r
      /\ RoundJobs(t)' \subseteq RoundJobs(t) \cup {kind}
  BY <1>3, <1>4, SetRoundFacts
<1>6. Live(t)'
  BY <1>4, <1>5 DEF Live, Spent
<1> QED BY <1>4, <1>5, <1>6

LEMMA OnPatchSwitchedStep ==
    ASSUME FixInv, NEW t \in FixTasks, OnPatchSwitched(t)
    PROVE  FixStep
<1>1. /\ Answered("switch", t) /\ Achieve("switch", t)
      /\ UNCHANGED <<observerVars, binder, processVars>>
      /\ \/ applyTasks[t].type = "apply" /\ HandlePatchSwitched(t)
         \/ applyTasks[t].type = "revoke" /\ HandleRevokePatchSwitched(t)
  BY DEF OnPatchSwitched
<1>2. FixTypes /\ "switch" \in Requests \ {"deploy"} /\ "delete" \in Requests
  BY DEF FixInv, Requests
<1>3. "switch" \in AskedJobs(t)
  BY <1>1, <1>2 DEF Answered, AskedJobs
<1>4. MayDo(applyTasks[t].type, achieved[t], "switch") /\ applyTasks[t].type \notin NotMade
  BY <1>3, JobMade
<1>5. /\ AchievedTypes' /\ achieved'[t] = achieved[t] \cup {"switch"}
      /\ \A u \in FixTasks \ {t} : achieved'[u] = achieved[u]
  BY <1>1, <1>2, AchieveFacts DEF FixTypes
<1>6. Onward /\ UNCHANGED fixAlive
  BY <1>1, <1>2, TypesStay
<1>7. (\A u : SameWait(u)) /\ (Waits(t)' => Waits(t))
  BY <1>1, WaitStays, WaitsFacts DEF SameWait
<1>8. applyTasks'[t].so = applyTasks[t].so => SwitchFits(t)
  BY <1>3 DEF SwitchFits, Switching
<1>9. ASSUME asked' = Pending("switch", t)
      PROVE  /\ AskedTypes' /\ \A u \in FixTasks \ {t} : SameAsked(u)
             /\ AskedJobs(t)' \subseteq AskedJobs(t)
             /\ "deploy" \in AskedJobs(t)' => asked'[<<"deploy", t>>] = asked[<<"deploy", t>>]
  BY <1>2, <1>9, AnsweredFacts DEF FixTypes
<1>10. CASE applyTasks[t].type = "apply" /\ HandlePatchSwitched(t)
  <2> DEFINE step == IF applyTasks[t].running /\ ~applyTasks[t].so THEN "load" ELSE "delete"
             N == {step}
  <2>1. PostTask(t, step, TRUE) /\ asked' = Pending("switch", t) /\ UNCHANGED <<fixTaskVars, rounds>>
    BY <1>10 DEF HandlePatchSwitched
  <2>2. step \in Steps /\ step # "deploy" /\ step # "unload"
    BY DEF Steps, Requests, Notifications
  <2>3. step \in Notifications => applyTasks[t].running
    BY DEF Notifications
  <2>4. MayDo(applyTasks[t].type, achieved'[t], step)
    BY <1>4, <1>5, <1>10 DEF MayDo, Needs
  <2> HIDE DEF step
  <2>5. /\ QueueTypes' /\ \A u \in FixTasks \ {t} : SameQueue(u)
        /\ QueuedJobs(t)' = QueuedJobs(t) \cup {step}
        /\ Once(fixQueue, <<"deploy", t>>) => Once(fixQueue, <<"deploy", t>>)'
    BY <1>2, <2>1, <2>2, PostTaskFacts DEF FixTypes
  <2>6. (\A u : SameRounds(u)) /\ (\A u : SameTask(u))
    BY <2>1, RoundsStay DEF SameTask, fixTaskVars
  <2>7. FixTypes'
    BY <1>1, <1>2, <1>5, <1>6, <1>9, <2>1, <2>5, TypesStay DEF FixTypes
  <2>8. \A u \in FixTasks \ {t} : Same(u)
    BY <1>5, <1>7, <1>9, <2>1, <2>5, <2>6 DEF Same
  <2>9. Live(t)'
    BY <2>5 DEF Live
  <2>10. DeathFits(t)'
    BY <1>6, <1>7, <2>6, InvFacts, DeathSame DEF Onward, SameTask
  <2>11. \A job \in N : job # "deploy" /\ MayDo(applyTasks[t].type, achieved'[t], job)
    BY <2>2, <2>4
  <2>12. "unload" \notin N /\ QueuedJobs(t)' \subseteq QueuedJobs(t) \cup N
    BY <2>2, <2>5
  <2> HIDE DEF N
  <2>13. QueuedJobs(t)' \cap Notifications \subseteq QueuedJobs(t) \/ applyTasks[t].running
    BY <2>3, <2>5
  <2>14. RoundJobs(t)' = RoundJobs(t) /\ \A i \in RoundsOf(t)' : i \in RoundsOf(t) /\ rounds'[i] = rounds[i]
    BY <2>6, RoundsKept
  <2>15. applyTasks'[t] = applyTasks[t] /\ reports'[t] = reports[t]
    BY <2>6 DEF SameTask
  <2> QED
    BY <1>3, <1>4, <1>5, <1>6, <1>7, <1>8, <1>9, <1>10, <2>1, <2>5, <2>7, <2>8, <2>9, <2>10, <2>11, <2>12, <2>13,
       <2>14, <2>15, TaskMoves
<1>11. CASE applyTasks[t].type = "revoke" /\ HandleRevokePatchSwitched(t) /\ fixAlive # {}
  <2> DEFINE N == {"unload"}
  <2>1. /\ StartRound(t, "unload", "binder") /\ asked' = Pending("switch", t)
        /\ UNCHANGED <<fixTaskVars, handlerVars>>
    BY <1>11 DEF HandleRevokePatchSwitched
  <2>2. /\ RoundTypes' /\ \A u \in FixTasks \ {t} : SameRounds(u)
        /\ RoundJobs(t)' \subseteq RoundJobs(t) \cup N
        /\ Live(t)'
        /\ \A i \in RoundsOf(t)' :
             \/ i \in RoundsOf(t) /\ rounds'[i] = rounds[i]
             \/ Expected(rounds'[i]) \subseteq fixAlive
    BY <1>2, <1>6, <1>11, <2>1, StartRoundFacts DEF FixTypes, Notifications
  <2>3. (\A u : SameQueue(u)) /\ (\A u : SameTask(u))
    BY <2>1, QueueStays DEF SameTask, fixTaskVars, handlerVars
  <2>4. FixTypes'
    BY <1>1, <1>2, <1>5, <1>6, <1>9, <2>1, <2>2, TypesStay DEF FixTypes
  <2>5. \A u \in FixTasks \ {t} : Same(u)
    BY <1>5, <1>7, <1>9, <2>1, <2>2, <2>3 DEF Same
  <2>6. DeathFits(t)'
    BY <1>6, <1>7, <2>3, InvFacts, DeathSame DEF Onward, SameTask
  <2>7. \A job \in N : job # "deploy" /\ MayDo(applyTasks[t].type, achieved'[t], job)
    BY <1>5, <1>11 DEF MayDo, Needs, NotMade
  <2>8. /\ applyTasks'[t] = applyTasks[t] /\ reports'[t] = reports[t]
        /\ QueuedJobs(t)' = QueuedJobs(t)
        /\ Once(fixQueue, <<"deploy", t>>) => Once(fixQueue, <<"deploy", t>>)'
    BY <2>3 DEF SameTask, SameQueue
  <2> HIDE DEF N
  <2> QED
    BY <1>3, <1>4, <1>5, <1>6, <1>7, <1>8, <1>9, <1>11, <2>1, <2>2, <2>4, <2>5, <2>6, <2>7, <2>8, TaskMoves
<1>12. CASE applyTasks[t].type = "revoke" /\ HandleRevokePatchSwitched(t) /\ fixAlive = {}
  <2> DEFINE N == {"delete"}
  <2>1. /\ Ask(t, "delete", Pending("switch", t)) /\ RemoveTimeoutTask /\ UNCHANGED rounds
    BY <1>12 DEF HandleRevokePatchSwitched
  <2>2. /\ AskedTypes' /\ TaskTypes'
        /\ \A u \in FixTasks \ {t} : SameAsked(u) /\ SameTask(u)
        /\ AskedJobs(t)' \subseteq AskedJobs(t) \cup {"delete"}
        /\ "deploy" \in AskedJobs(t)' => asked'[<<"deploy", t>>] = asked[<<"deploy", t>>]
        /\ \/ "delete" \in AskedJobs(t)' /\ SameTask(t)
           \/ /\ applyTasks'[t] = [applyTasks[t] EXCEPT !.listed = FALSE]
              /\ reports'[t] = reports[t] \cup {"failed"}
    BY <1>2, <2>1, AskFacts DEF FixTypes
  <2>3. /\ applyTasks'[t].type = applyTasks[t].type /\ applyTasks'[t].so = applyTasks[t].so
        /\ applyTasks'[t].running = applyTasks[t].running
        /\ applyTasks'[t].listed => applyTasks[t].listed /\ AskedJobs(t)' # {}
        /\ "ok" \in reports'[t] => "ok" \in reports[t]
    BY <2>2, InvFacts DEF TaskType, SameTask
  <2>4. (\A u : SameRounds(u)) /\ QueueTypes' /\ (\A u : SameQueue(u))
    BY <1>2, <2>1, RoundsStay, RemoveTimeoutFacts DEF FixTypes
  <2>5. FixTypes'
    BY <1>1, <1>2, <1>5, <1>6, <2>1, <2>2, <2>4, TypesStay DEF FixTypes
  <2>6. \A u \in FixTasks \ {t} : Same(u)
    BY <1>5, <1>7, <2>2, <2>4 DEF Same
  <2>7. applyTasks'[t].listed => Live(t)'
    BY <2>3 DEF Live
  <2>8. DeathFits(t)'
    BY <1>6, <1>7, <2>3, InvFacts, DeathSame DEF Onward
  <2>9. \A job \in N : job # "deploy" /\ MayDo(applyTasks[t].type, achieved'[t], job)
    BY <1>5, <1>12 DEF MayDo, Needs, NotMade
  <2>10. "unload" \notin N /\ AskedJobs(t)' \subseteq AskedJobs(t) \cup N
    BY <2>2
  <2> HIDE DEF N
  <2>11. /\ RoundJobs(t)' = RoundJobs(t)
         /\ \A i \in RoundsOf(t)' : i \in RoundsOf(t) /\ rounds'[i] = rounds[i]
         /\ QueuedJobs(t)' = QueuedJobs(t)
         /\ Once(fixQueue, <<"deploy", t>>) => Once(fixQueue, <<"deploy", t>>)'
    BY <2>4, RoundsKept DEF SameQueue
  <2> QED
    BY <1>3, <1>4, <1>5, <1>6, <1>7, <1>8, <1>12, <2>2, <2>3, <2>5, <2>6, <2>7, <2>8, <2>9, <2>10, <2>11, TaskMoves
<1> QED BY <1>1, <1>10, <1>11, <1>12

LEMMA OnPatchDeletedStep ==
    ASSUME FixInv, NEW t \in FixTasks, OnPatchDeleted(t)
    PROVE  FixStep
<1>1. /\ Answered("delete", t) /\ asked' = Pending("delete", t) /\ Achieve("delete", t)
      /\ HandlePatchDeleted(t) /\ UNCHANGED <<rounds, observerVars, binder, processVars>>
  BY DEF OnPatchDeleted
<1>2. FixTypes /\ "delete" \in Requests \ {"deploy"}
  BY DEF FixInv, Requests
<1>3. "delete" \in AskedJobs(t)
  BY <1>1, <1>2 DEF Answered, AskedJobs
<1>4. MayDo(applyTasks[t].type, achieved[t], "delete") /\ applyTasks[t].type \notin NotMade
  BY <1>3, JobMade
<1>5. /\ AchievedTypes' /\ achieved'[t] = achieved[t] \cup {"delete"}
      /\ \A u \in FixTasks \ {t} : achieved'[u] = achieved[u]
  BY <1>1, <1>2, AchieveFacts DEF FixTypes
<1>6. Onward /\ UNCHANGED fixAlive
  BY <1>1, <1>2, TypesStay
<1>7. (\A u : SameWait(u)) /\ (Waits(t)' => Waits(t)) /\ \A u : SameRounds(u)
  BY <1>1, WaitStays, WaitsFacts, RoundsStay DEF SameWait
<1>8. applyTasks'[t].so = applyTasks[t].so => SwitchFits(t)
  BY <1>4 DEF SwitchFits, Switching, MayDo, Needs
<1>9. /\ AskedTypes' /\ \A u \in FixTasks \ {t} : SameAsked(u)
      /\ AskedJobs(t)' \subseteq AskedJobs(t)
      /\ "deploy" \in AskedJobs(t)' => asked'[<<"deploy", t>>] = asked[<<"deploy", t>>]
  BY <1>1, <1>2, AnsweredFacts DEF FixTypes
<1>10. RoundJobs(t)' = RoundJobs(t) /\ \A i \in RoundsOf(t)' : i \in RoundsOf(t) /\ rounds'[i] = rounds[i]
  BY <1>7, RoundsKept
<1>11. \A job \in {"reload", "ok"} :
          (job = "reload" => applyTasks[t].type = "apply") => MayDo(applyTasks[t].type, achieved'[t], job)
  BY <1>4, <1>5 DEF MayDo, Needs
<1>12. CASE applyTasks[t].type = "apply" /\ applyTasks[t].running /\ ~applyTasks[t].so /\ applyTasks[t].hot
  <2> DEFINE N == {"reload"}
  <2>1. PostTask(t, "reload", TRUE) /\ UNCHANGED fixTaskVars
    BY <1>1, <1>12 DEF HandlePatchDeleted
  <2>2. "reload" \in Steps
    BY DEF Steps, Notifications
  <2>3. /\ QueueTypes' /\ \A u \in FixTasks \ {t} : SameQueue(u)
        /\ QueuedJobs(t)' = QueuedJobs(t) \cup N
        /\ Once(fixQueue, <<"deploy", t>>) => Once(fixQueue, <<"deploy", t>>)'
    BY <1>2, <2>1, <2>2, PostTaskFacts DEF FixTypes
  <2>4. \A u : SameTask(u)
    BY <2>1 DEF SameTask, fixTaskVars
  <2>5. FixTypes'
    BY <1>1, <1>2, <1>5, <1>6, <1>9, <2>1, <2>3, TypesStay DEF FixTypes
  <2>6. \A u \in FixTasks \ {t} : Same(u)
    BY <1>5, <1>7, <1>9, <2>3, <2>4 DEF Same
  <2>7. Live(t)'
    BY <2>3 DEF Live
  <2>8. DeathFits(t)'
    BY <1>6, <1>7, <2>4, InvFacts, DeathSame DEF Onward, SameTask
  <2>9. /\ \A job \in N : job # "deploy" /\ MayDo(applyTasks[t].type, achieved'[t], job)
        /\ "unload" \notin N
    BY <1>11, <1>12
  <2>10. applyTasks'[t] = applyTasks[t] /\ reports'[t] = reports[t]
    BY <2>4 DEF SameTask
  <2> HIDE DEF N
  <2> QED
    BY <1>3, <1>4, <1>5, <1>6, <1>7, <1>8, <1>9, <1>10, <1>12, <2>3, <2>5, <2>6, <2>7, <2>8, <2>9, <2>10, TaskMoves
<1>13. CASE ~(applyTasks[t].type = "apply" /\ applyTasks[t].running /\ ~applyTasks[t].so /\ applyTasks[t].hot)
  <2> DEFINE N == {"ok"}
  <2>1. Finish(t, "ok") /\ RemoveTimeoutTask
    BY <1>1, <1>13 DEF HandlePatchDeleted
  <2>2. /\ TaskTypes' /\ \A u \in FixTasks \ {t} : SameTask(u)
        /\ reports'[t] = reports[t] \cup {"ok"}
        /\ applyTasks'[t] = [applyTasks[t] EXCEPT !.listed = FALSE]
    BY <1>2, <2>1, FinishFacts DEF FixTypes, Results
  <2>3. /\ applyTasks'[t].type = applyTasks[t].type /\ applyTasks'[t].so = applyTasks[t].so
        /\ applyTasks'[t].running = applyTasks[t].running /\ ~applyTasks'[t].listed
    BY <2>2, InvFacts DEF TaskType
  <2>4. QueueTypes' /\ \A u : SameQueue(u)
    BY <1>2, <2>1, RemoveTimeoutFacts DEF FixTypes
  <2>5. FixTypes'
    BY <1>1, <1>2, <1>5, <1>6, <1>9, <2>2, <2>4, TypesStay DEF FixTypes
  <2>6. \A u \in FixTasks \ {t} : Same(u)
    BY <1>5, <1>7, <1>9, <2>2, <2>4 DEF Same
  <2>7. DeathFits(t)'
    BY <1>6, <1>7, <2>3, InvFacts, DeathSame DEF Onward
  <2>8. applyTasks[t].type \notin NotMade
    BY <1>4 DEF MayDo
  <2>9. /\ \A job \in N : job # "deploy" /\ MayDo(applyTasks[t].type, achieved'[t], job)
        /\ "unload" \notin N /\ "ok" \in N
    BY <1>11
  <2>10. /\ QueuedJobs(t)' = QueuedJobs(t)
         /\ Once(fixQueue, <<"deploy", t>>) => Once(fixQueue, <<"deploy", t>>)'
    BY <2>4 DEF SameQueue
  <2> HIDE DEF N
  <2> QED
    BY <1>3, <1>5, <1>6, <1>7, <1>8, <1>9, <1>10, <2>3, <2>5, <2>6, <2>7, <2>8, <2>9, <2>10, TaskMoves
<1> QED BY <1>12, <1>13

-----------------------------------------------------------------------------
(* The handler. *)

\* A step is taken from the queue.
LEMMA TakeFacts ==
    ASSUME QueueTypes, fixQueue # <<>>, fixQueue' = Tail(fixQueue), UNCHANGED fixTimers
    PROVE  \E step \in Steps, t \in FixTasks :
              /\ Head(fixQueue) = <<step, t>> /\ step \in QueuedJobs(t)
              /\ QueueTypes' /\ \A u \in FixTasks \ {t} : SameQueue(u)
              /\ QueuedJobs(t)' \subseteq QueuedJobs(t)
              /\ Once(fixQueue, <<"deploy", t>>) => Once(fixQueue, <<"deploy", t>>)'
              /\ Once(fixQueue, <<"deploy", t>>) /\ step = "deploy" => "deploy" \notin QueuedJobs(t)'
<1>1. fixQueue \in Seq(Steps \X FixTasks)
  BY DEF QueueTypes
<1>2. /\ fixQueue' \in Seq(Steps \X FixTasks) /\ Head(fixQueue) \in Steps \X FixTasks
      /\ InQueue(fixQueue) = InQueue(fixQueue') \cup {Head(fixQueue)}
      /\ \A x : Once(fixQueue, x) => Once(fixQueue', x)
      /\ Once(fixQueue, Head(fixQueue)) => Head(fixQueue) \notin InQueue(fixQueue')
  BY <1>1, TakenFacts
<1>3. PICK step \in Steps, t \in FixTasks : Head(fixQueue) = <<step, t>>
  BY <1>2
<1>4. \A u : QueuedJobs(u)' = {s \in Steps : <<s, u>> \in InQueue(fixQueue')}
  BY DEF QueuedJobs, InQueue
<1>5. step \in QueuedJobs(t) /\ QueuedJobs(t)' \subseteq QueuedJobs(t)
  BY <1>2, <1>3, <1>4 DEF QueuedJobs
<1>6. \A u : Once(fixQueue, <<"deploy", u>>) => Once(fixQueue, <<"deploy", u>>)'
  BY <1>2 DEF Once
<1>7. \A u \in FixTasks \ {t} : SameQueue(u)
  <2> SUFFICES ASSUME NEW u \in FixTasks \ {t} PROVE SameQueue(u)
    OBVIOUS
  <2>1. \A s \in Steps : <<s, u>> # Head(fixQueue)
    BY <1>3
  <2>2. QueuedJobs(u)' = QueuedJobs(u)
    BY <1>2, <1>4, <2>1 DEF QueuedJobs
  <2> QED BY <1>6, <2>2 DEF SameQueue
<1>8. Once(fixQueue, <<"deploy", t>>) /\ step = "deploy" => "deploy" \notin QueuedJobs(t)'
  BY <1>2, <1>3, <1>4
<1>9. QueueTypes'
  BY <1>2 DEF QueueTypes
<1> QED BY <1>3, <1>5, <1>6, <1>7, <1>8, <1>9

LEMMA RunHandlerStep ==
    ASSUME FixInv, RunHandler
    PROVE  FixStep
<1>1. /\ fixQueue # <<>>
      /\ TaskGone \/ RunRequest \/ RunNotification \/ RunRevoke
      /\ fixQueue' = Tail(fixQueue) /\ UNCHANGED <<achieved, fixTimers, observerVars, processVars>>
  BY DEF RunHandler
<1>2. FixTypes
  BY DEF FixInv
<1>3. PICK step \in Steps, t \in FixTasks :
         /\ Head(fixQueue) = <<step, t>> /\ step \in QueuedJobs(t)
         /\ QueueTypes' /\ \A u \in FixTasks \ {t} : SameQueue(u)
         /\ QueuedJobs(t)' \subseteq QueuedJobs(t)
         /\ Once(fixQueue, <<"deploy", t>>) => Once(fixQueue, <<"deploy", t>>)'
         /\ Once(fixQueue, <<"deploy", t>>) /\ step = "deploy" => "deploy" \notin QueuedJobs(t)'
  <2>1. QueueTypes /\ fixQueue # <<>> /\ fixQueue' = Tail(fixQueue) /\ UNCHANGED fixTimers
    BY <1>1, <1>2 DEF FixTypes
  <2> QED BY <2>1, TakeFacts, Zenon
<1>4. Head(fixQueue)[1] = step /\ Head(fixQueue)[2] = t
  BY <1>3
<1>5. MayDo(applyTasks[t].type, achieved[t], step) /\ applyTasks[t].type \notin NotMade
  BY <1>3, JobMade
<1>6. Onward /\ UNCHANGED fixAlive /\ UNCHANGED bereaved
  BY <1>1, <1>2, TypesStay DEF processVars
<1>7. /\ applyTasks'[t].so = applyTasks[t].so /\ AskedJobs(t)' \subseteq AskedJobs(t) \cup {step}
           => SwitchFits(t)
      /\ applyTasks'[t].so = applyTasks[t].so /\ ~(fixAlive # {} /\ applyTasks[t].so) => SwitchFits(t)
  BY <1>1, <1>3 DEF SwitchFits, Switching
<1>8. /\ achieved' = achieved
      /\ \A u : observers'[u] = observers[u] /\ diedCalls'[u] = diedCalls[u]
  BY <1>1 DEF observerVars
<1>9. ASSUME UNCHANGED binder
      PROVE  /\ \A u : SameWait(u)
             /\ Waits(t)' => Waits(t)
  BY <1>1, <1>9, WaitStays, WaitsFacts DEF SameWait
<1>10. ASSUME UNCHANGED fixTaskVars
       PROVE  /\ \A u : SameTask(u)
              /\ applyTasks'[t] = applyTasks[t] /\ reports'[t] = reports[t]
  BY <1>10 DEF SameTask, fixTaskVars
<1>11. ASSUME UNCHANGED rounds
       PROVE  /\ \A u : SameRounds(u)
              /\ RoundJobs(t)' = RoundJobs(t)
              /\ \A i \in RoundsOf(t)' : i \in RoundsOf(t) /\ rounds'[i] = rounds[i]
  BY <1>11, RoundsStay, RoundsKept
<1>12. ASSUME UNCHANGED asked
       PROVE  /\ \A u : SameAsked(u)
              /\ AskedJobs(t)' = AskedJobs(t)
              /\ "deploy" \in AskedJobs(t)' => asked'[<<"deploy", t>>] = asked[<<"deploy", t>>]
  BY <1>12, AskedStays DEF SameAsked
<1>13. CASE TaskGone
  <2> DEFINE N == {}
  <2>1. step = "revoke" /\ ~Referenced(t) /\ UNCHANGED <<fixTaskVars, asked, rounds, binder>>
    BY <1>4, <1>13 DEF TaskGone
  <2>2. ~applyTasks[t].listed
    BY <2>1 DEF Referenced
  <2>3. FixTypes'
    BY <1>1, <1>2, <1>3, <1>6, <2>1, TypesStay DEF FixTypes
  <2>4. \A u \in FixTasks \ {t} : Same(u)
    BY <1>3, <1>8, <1>9, <1>10, <1>11, <1>12, <2>1 DEF Same
  <2>5. DeathFits(t)'
    BY <1>6, <1>9, <1>10, <2>1, InvFacts, DeathSame DEF Onward
  <2>6. \A job \in N : job # "deploy" /\ MayDo(applyTasks[t].type, achieved'[t], job)
    OBVIOUS
  <2>7. "unload" \notin N
    OBVIOUS
  <2> HIDE DEF N
  <2> QED
    BY <1>3, <1>5, <1>6, <1>7, <1>8, <1>9, <1>10, <1>11, <1>12, <2>1, <2>2, <2>3, <2>4, <2>5, <2>6, <2>7,
       TaskMoves
<1>14. CASE RunNotification
  <2> DEFINE N == {step}
  <2>1. /\ step \in Notifications /\ StartRound(t, step, "handler")
        /\ UNCHANGED <<fixTaskVars, asked, binder>>
    BY <1>4, <1>14 DEF RunNotification
  <2>2. \A u \in FixTasks \ {t} : SameRounds(u) => Same(u)
    BY <1>3, <1>8, <1>9, <1>10, <1>12, <2>1 DEF Same
  <2>3. RoundTypes' => FixTypes'
    BY <1>1, <1>2, <1>3, <1>6, <2>1, TypesStay DEF FixTypes
  <2>4. DeathFits(t)'
    BY <1>6, <1>9, <1>10, <2>1, InvFacts, DeathSame DEF Onward
  <2>5. step # "deploy" /\ (step = "unload" => ~applyTasks[t].so \/ applyTasks[t].type # "apply")
    BY <1>3, <2>1, InvFacts DEF Notifications, DeployFits
  <2>6. \A job \in N : job # "deploy" /\ MayDo(applyTasks[t].type, achieved'[t], job)
    BY <1>5, <1>8, <2>5
  <2>7. "unload" \in N => ~applyTasks[t].so \/ applyTasks[t].type # "apply"
    BY <2>5
  <2>8. CASE fixAlive = {}
    <3>1. UNCHANGED rounds
      BY <2>1, <2>8 DEF StartRound
    <3>2. RoundTypes'
      BY <1>2, <1>6, <3>1, TypesStay
    <3>3. ~(applyTasks'[t].listed /\ t \notin Excused')
      BY <1>3, <1>6, <1>10, <2>1, <2>8, InvFacts DEF LiveFits, Onward, Excused
    <3> HIDE DEF N
    <3> QED
      BY <1>3, <1>5, <1>6, <1>7, <1>8, <1>9, <1>10, <1>11, <1>12, <2>1, <2>2, <2>3, <2>4, <2>6, <2>7,
         <3>1, <3>2, <3>3, TaskMoves
  <2>9. CASE fixAlive # {}
    <3>1. /\ RoundTypes' /\ \A u \in FixTasks \ {t} : SameRounds(u)
          /\ RoundJobs(t)' \subseteq RoundJobs(t) \cup N
          /\ Live(t)'
          /\ \A i \in RoundsOf(t)' :
               \/ i \in RoundsOf(t) /\ rounds'[i] = rounds[i]
               \/ Expected(rounds'[i]) \subseteq fixAlive
      BY <1>2, <1>6, <2>1, <2>9, StartRoundFacts DEF FixTypes
    <3> HIDE DEF N
    <3> QED
      BY <1>3, <1>5, <1>6, <1>7, <1>8, <1>9, <1>10, <1>12, <2>1, <2>2, <2>3, <2>4, <2>6, <2>7, <2>9,
         <3>1, TaskMoves
  <2> QED BY <2>8, <2>9
<1> DEFINE AskedFor(request) ==
       /\ AskedTypes' /\ TaskTypes'
       /\ \A u \in FixTasks \ {t} : SameAsked(u) /\ SameTask(u)
       /\ AskedJobs(t)' \subseteq AskedJobs(t) \cup {request}
       /\ "deploy" \in AskedJobs(t)' =>
            \/ "deploy" \in AskedJobs(t) /\ request # "deploy"
               /\ asked'[<<"deploy", t>>] = asked[<<"deploy", t>>]
            \/ "deploy" \in AskedJobs(t) /\ request = "deploy"
            \/ "deploy" \notin AskedJobs(t) /\ request = "deploy" /\ asked'[<<"deploy", t>>] = 1
       /\ applyTasks'[t].type = applyTasks[t].type /\ applyTasks'[t].so = applyTasks[t].so
       /\ applyTasks'[t].running = applyTasks[t].running
       /\ applyTasks'[t].listed => applyTasks[t].listed /\ AskedJobs(t)' # {}
       /\ "ok" \in reports'[t] => "ok" \in reports[t]
<1>15. ASSUME NEW request \in Requests, Ask(t, request, asked) PROVE AskedFor(request)
  <2>1. /\ AskedTypes' /\ TaskTypes'
        /\ \A u \in FixTasks \ {t} : SameAsked(u) /\ SameTask(u)
        /\ AskedJobs(t)' \subseteq AskedJobs(t) \cup {request}
        /\ "deploy" \in AskedJobs(t)' =>
             \/ "deploy" \in AskedJobs(t) /\ request # "deploy"
                /\ asked'[<<"deploy", t>>] = asked[<<"deploy", t>>]
             \/ "deploy" \in AskedJobs(t) /\ request = "deploy"
             \/ "deploy" \notin AskedJobs(t) /\ request = "deploy" /\ asked'[<<"deploy", t>>] = 1
        /\ \/ request \in AskedJobs(t)' /\ SameTask(t)
           \/ /\ applyTasks'[t] = [applyTasks[t] EXCEPT !.listed = FALSE]
              /\ reports'[t] = reports[t] \cup {"failed"}
    BY <1>2, <1>15, AskFacts DEF FixTypes
  <2>2. applyTasks[t] \in TaskType
    BY InvFacts
  <2> QED BY <2>1, <2>2 DEF TaskType, SameTask
<1>16. CASE RunRequest
  <2>1. step \in Requests /\ Ask(t, step, asked) /\ UNCHANGED <<rounds, binder>>
    BY <1>4, <1>16 DEF RunRequest
  <2>2. AskedFor(step)
    BY <1>15, <2>1
  <2>3. FixTypes'
    BY <1>1, <1>2, <1>3, <1>6, <2>1, <2>2, TypesStay DEF FixTypes
  <2>4. \A u \in FixTasks \ {t} : Same(u)
    BY <1>3, <1>8, <1>9, <1>11, <2>1, <2>2 DEF Same
  <2>5. DeathFits(t)'
    BY <1>6, <1>9, <2>1, <2>2, InvFacts, DeathSame DEF Onward
  <2>6. applyTasks'[t].listed => Live(t)'
    BY <2>2 DEF Live
  <2> DEFINE N == {step}
  <2>7. AskedJobs(t)' \subseteq AskedJobs(t) \cup N /\ "unload" \notin N
    BY <2>1, <2>2 DEF Requests
  <2>8. \A job \in N : MayDo(applyTasks[t].type, achieved'[t], job)
    BY <1>5, <1>8
  <2>9. CASE step # "deploy"
    <3>1. \A job \in N : job # "deploy"
      BY <2>9
    <3>2. "deploy" \in AskedJobs(t)' => asked'[<<"deploy", t>>] = asked[<<"deploy", t>>]
      BY <2>2, <2>9
    <3> HIDE DEF N
    <3> QED
      BY <1>3, <1>5, <1>6, <1>7, <1>8, <1>9, <1>11, <2>1, <2>2, <2>3, <2>4, <2>5, <2>6, <2>7, <2>8,
         <3>1, <3>2, TaskMoves
  <2>10. CASE step = "deploy"
    <3>1. /\ "deploy" \notin achieved[t] /\ Once(fixQueue, <<"deploy", t>>)
          /\ "deploy" \notin AskedJobs(t)
          /\ "unload" \in QueuedJobs(t) \cup RoundJobs(t) /\ applyTasks[t].type = "apply"
               => ~applyTasks[t].so
      BY <1>3, <2>10, InvFacts DEF DeployFits
    <3>2. DeployFits(t)'
      BY <1>3, <1>8, <1>11, <2>1, <2>2, <2>10, <3>1 DEF DeployFits
    <3>3. LiveFits(t)'
      BY <1>3, <1>6, <1>11, <2>1, <2>2, <2>6, InvFacts, LiveStays
    <3> HIDE DEF N
    <3> QED
      BY <1>3, <1>5, <1>6, <1>7, <1>8, <1>9, <1>11, <2>1, <2>2, <2>3, <2>4, <2>5, <2>7, <2>8,
         <3>2, <3>3, MovesOn
  <2> QED BY <2>9, <2>10
<1>17. CASE RunRevoke
  <2>1. step = "revoke" /\ UNCHANGED rounds /\ applyTasks[t].type = "revoke"
    BY <1>4, <1>5, <1>17 DEF RunRevoke, MayDo
  <2>2. CASE fixAlive # {} /\ applyTasks[t].so
    <3>1. PICK b \in BinderType : b = [task |-> t, at |-> "register", from |-> "revoke"]
      BY DEF BinderType
    <3>2. binder' = BagAdd(binder, b) /\ UNCHANGED <<fixTaskVars, asked>>
      BY <1>4, <1>17, <2>2, <3>1 DEF RunRevoke
    <3>3. b.task = t /\ b.at = "register" /\ b.from = "revoke"
      BY <3>1
    <3>4. /\ BinderTypes' /\ b \in BinderOf(t)' /\ BinderOf(t)' \subseteq BinderOf(t) \cup {b}
          /\ \A u \in FixTasks \ {t} : BinderOf(u)' = BinderOf(u)
      BY <1>2, <3>2, <3>3, BinderFacts DEF FixTypes
    <3>5. FixTypes'
      BY <1>1, <1>2, <1>3, <1>6, <2>1, <3>2, <3>4, TypesStay DEF FixTypes
    <3>6. \A u \in FixTasks \ {t} : Same(u)
      BY <1>3, <1>8, <1>10, <1>11, <1>12, <2>1, <3>2, <3>4 DEF Same, SameWait
    <3>7. DeathFits(t)'
      <4> DEFINE M == {b}
      <4>1. /\ BinderOf(t)' \subseteq BinderOf(t) \cup M
            /\ \A c \in M : /\ c.from = "died" => t \in bereaved'
                            /\ c.at = "handle" => applyTasks[t].type = "apply"
        BY <3>3, <3>4
      <4> HIDE DEF M
      <4> QED BY <1>6, <1>8, <1>10, <3>2, <4>1, InvFacts, DeathStays DEF Onward
    <3>8. Live(t)'
      BY <3>4, WaitsFacts DEF Live
    <3> DEFINE N == {"wait"}
    <3>9. /\ \A job \in N : job # "deploy" /\ MayDo(applyTasks[t].type, achieved'[t], job)
          /\ "unload" \notin N /\ "wait" \in N
      BY <2>1 DEF MayDo, Needs, NotMade
    <3> HIDE DEF N
    <3> QED
      BY <1>3, <1>5, <1>6, <1>7, <1>8, <1>10, <1>11, <1>12, <2>1, <3>2, <3>5, <3>6, <3>7, <3>8, <3>9,
         TaskMoves
  <2>3. CASE ~(fixAlive # {} /\ applyTasks[t].so)
    <3>1. Ask(t, "switch", asked) /\ UNCHANGED binder
      BY <1>4, <1>17, <2>3 DEF RunRevoke
    <3>2. AskedFor("switch")
      BY <1>15, <3>1 DEF Requests
    <3>3. FixTypes'
      BY <1>1, <1>2, <1>3, <1>6, <2>1, <3>1, <3>2, TypesStay DEF FixTypes
    <3>4. \A u \in FixTasks \ {t} : Same(u)
      BY <1>3, <1>8, <1>9, <1>11, <2>1, <3>1, <3>2 DEF Same
    <3>5. DeathFits(t)'
      BY <1>6, <1>9, <3>1, <3>2, InvFacts, DeathSame DEF Onward
    <3>6. applyTasks'[t].listed => Live(t)'
      BY <3>2 DEF Live
    <3> DEFINE N == {"switch"}
    <3>7. /\ \A job \in N : job # "deploy" /\ MayDo(applyTasks[t].type, achieved'[t], job)
          /\ "unload" \notin N /\ AskedJobs(t)' \subseteq AskedJobs(t) \cup N
      BY <2>1, <3>2 DEF MayDo, Needs, NotMade
    <3> HIDE DEF N
    <3> QED
      BY <1>3, <1>5, <1>6, <1>7, <1>8, <1>9, <1>11, <2>1, <2>3, <3>1, <3>2, <3>3, <3>4, <3>5, <3>6, <3>7,
         TaskMoves
  <2> QED BY <2>2, <2>3
<1> QED BY <1>1, <1>13, <1>14, <1>16, <1>17

-----------------------------------------------------------------------------
(* The rounds. *)

\* A round of task t goes on or is over, and so does the task.
LEMMA RoundLive ==
    ASSUME RoundTypes, NEW i \in DOMAIN rounds, NEW r \in RoundType, SetRound(i, r),
           UNCHANGED fixAlive, NEW t \in FixTasks, r.task = t, rounds[i].task = t,
           Live(t), QueuedJobs(t) \subseteq QueuedJobs(t)', AskedJobs(t) \subseteq AskedJobs(t)',
           Waits(t) => Waits(t)',
           Spent(rounds[i]) \/ (~Spent(r) /\ ~RoundOver(r, fixAlive))
    PROVE  Live(t)'
<1>1. i \in 1..MaxRounds
  BY DEF RoundTypes
<1>2. /\ RoundsOf(t) \subseteq RoundsOf(t)' \cup {i}
      /\ \A j \in RoundsOf(t)' : j # i => rounds'[j] = rounds[j]
      /\ i \in RoundsOf(t)' <=> ~RoundOver(r, fixAlive)
      /\ i \in RoundsOf(t)' => rounds'[i] = r
  BY <1>1, SetRoundFacts
<1>3. Live(t)' <=> \/ QueuedJobs(t)' # {} \/ AskedJobs(t)' # {} \/ Waits(t)'
                   \/ \E j \in RoundsOf(t)' : ~Spent(rounds'[j])
  BY DEF Live, Spent
<1>4. CASE ~Spent(r) /\ ~RoundOver(r, fixAlive)
  BY <1>2, <1>3, <1>4
<1>5. CASE Spent(rounds[i])
  <2>1. CASE \E j \in RoundsOf(t) : ~Spent(rounds[j])
    <3>1. PICK j \in RoundsOf(t) : ~Spent(rounds[j])
      BY <2>1
    <3>2. j # i
      BY <1>5, <3>1
    <3>3. j \in RoundsOf(t)' /\ rounds'[j] = rounds[j]
      BY <1>2, <3>2
    <3> QED BY <1>3, <3>1, <3>3
  <2>2. CASE QueuedJobs(t) # {} \/ AskedJobs(t) # {} \/ Waits(t)
    BY <1>3, <2>2
  <2> QED BY <2>1, <2>2 DEF Live
<1> QED BY <1>4, <1>5

\* A step of a round is a step of its task.
LEMMA RoundFacts ==
    ASSUME FixInv, NEW i \in DOMAIN rounds
    PROVE  /\ rounds[i] \in RoundType /\ rounds[i].task \in FixTasks /\ i \in 1..MaxRounds
           /\ i \in RoundsOf(rounds[i].task) /\ rounds[i].kind \in RoundJobs(rounds[i].task)
           /\ applyTasks[rounds[i].task].type \notin NotMade
           /\ MayDo(applyTasks[rounds[i].task].type, achieved[rounds[i].task], rounds[i].kind)
<1>1. RoundTypes
  BY DEF FixInv, FixTypes
<1>2. rounds[i] \in RoundType /\ i \in 1..MaxRounds
  BY <1>1 DEF RoundTypes
<1>3. rounds[i].task \in FixTasks
  BY <1>2 DEF RoundType, RoundRecord
<1>4. i \in RoundsOf(rounds[i].task) /\ rounds[i].kind \in RoundJobs(rounds[i].task)
  BY DEF RoundJobs, RoundsOf
<1> QED BY <1>2, <1>3, <1>4, JobMade

\* What a step that sets round i does to the rounds of its task.
LEMMA RoundMoves ==
    ASSUME RoundTypes, NEW i \in DOMAIN rounds, NEW r \in RoundType, SetRound(i, r),
           UNCHANGED fixAlive, NEW t \in FixTasks, r.task = t, rounds[i].task = t,
           r.kind = rounds[i].kind, Expected(r) \subseteq Expected(rounds[i]) \cup fixAlive
    PROVE  /\ RoundTypes' /\ \A u \in FixTasks \ {t} : SameRounds(u)
           /\ RoundJobs(t)' \subseteq RoundJobs(t)
           /\ \A j \in RoundsOf(t)' :
                j \in RoundsOf(t) /\ Expected(rounds'[j]) \subseteq Expected(rounds[j]) \cup fixAlive
<1>1. i \in 1..MaxRounds
  BY DEF RoundTypes
<1>2. /\ RoundTypes' /\ \A u \in FixTasks \ {t} : SameRounds(u)
      /\ RoundsOf(t)' \subseteq RoundsOf(t) \cup {i}
      /\ \A j \in RoundsOf(t)' : j # i => rounds'[j] = rounds[j]
      /\ i \in RoundsOf(t)' => rounds'[i] = r
      /\ RoundJobs(t)' \subseteq RoundJobs(t) \cup {r.kind}
  BY <1>1, SetRoundFacts
<1>3. i \in RoundsOf(t) /\ rounds[i].kind \in RoundJobs(t)
  BY DEF RoundsOf, RoundJobs
<1> QED BY <1>2, <1>3

\* A step that changes a round of task t and nothing else.
LEMMA RoundOnly ==
    ASSUME FixInv, NEW t \in FixTasks, applyTasks[t].type \notin NotMade,
           UNCHANGED <<fixTaskVars, achieved, handlerVars, asked, observerVars, binder, processVars>>,
           RoundTypes', \A u \in FixTasks \ {t} : SameRounds(u), RoundJobs(t)' \subseteq RoundJobs(t),
           \A j \in RoundsOf(t)' :
               j \in RoundsOf(t) /\ Expected(rounds'[j]) \subseteq Expected(rounds[j]) \cup fixAlive,
           Live(t) => Live(t)'
    PROVE  FixStep
<1>1. FixTypes
  BY DEF FixInv
<1>2. Onward /\ UNCHANGED fixAlive /\ UNCHANGED <<bereaved, unanswered>>
  BY <1>1, TypesStay DEF processVars
<1>3. \A u : SameQueue(u) /\ SameAsked(u) /\ SameWait(u) /\ SameTask(u) /\ achieved'[u] = achieved[u]
  BY QueueStays, AskedStays, WaitStays DEF SameTask, fixTaskVars, handlerVars
<1>4. /\ QueuedJobs(t)' = QueuedJobs(t) /\ AskedJobs(t)' = AskedJobs(t)
      /\ Once(fixQueue, <<"deploy", t>>) => Once(fixQueue, <<"deploy", t>>)'
      /\ "deploy" \in AskedJobs(t)' => asked'[<<"deploy", t>>] = asked[<<"deploy", t>>]
      /\ Waits(t)' <=> Waits(t)
      /\ applyTasks'[t] = applyTasks[t] /\ reports'[t] = reports[t]
  BY <1>3, WaitsFacts DEF SameQueue, SameAsked, SameWait, SameTask
<1>5. SwitchFits(t)
  BY <1>3, <1>4, SameSwitch
<1>6. FixTypes'
  BY <1>1, <1>2, TypesStay DEF FixTypes
<1>7. \A u \in FixTasks \ {t} : Same(u)
  BY <1>3 DEF Same
<1>8. DeathFits(t)'
  BY <1>2, <1>3, <1>4, InvFacts, DeathSame
<1>9. applyTasks'[t].listed /\ t \notin Excused' => Live(t)'
  BY <1>2, <1>4, InvFacts DEF LiveFits, Excused
<1> DEFINE N == {}
<1>10. /\ \A job \in N : job # "deploy" /\ MayDo(applyTasks[t].type, achieved'[t], job)
       /\ "unload" \notin N
  OBVIOUS
<1> HIDE DEF N
<1> QED
  BY <1>2, <1>3, <1>4, <1>5, <1>6, <1>7, <1>8, <1>9, <1>10, TaskMoves

\* The id of the next process is added to the list.
LEMMA AddRecordIdStep ==
    ASSUME FixInv, NEW i \in DOMAIN rounds, AddRecordId(i)
    PROVE  FixStep
<1>1. PICK r \in RoundType, t \in FixTasks : r = rounds[i] /\ t = r.task
  BY RoundFacts
<1>2. PICK p \in r.todo :
         SetRound(i, [r EXCEPT !.todo = @ \ {p}, !.waiting = @ \cup {p}, !.telling = {p}])
  BY <1>1 DEF AddRecordId
<1>3. UNCHANGED <<fixTaskVars, achieved, handlerVars, asked, observerVars, binder, processVars>>
  BY DEF AddRecordId
<1>4. PICK new \in RoundType :
         new = [r EXCEPT !.todo = @ \ {p}, !.waiting = @ \cup {p}, !.telling = {p}]
  BY <1>1 DEF RoundType, RoundRecord, TellingFits
<1>5. /\ new.task = t /\ new.kind = r.kind /\ new.called = r.called /\ new.telling # {}
      /\ Expected(new) = Expected(r) /\ SetRound(i, new)
  BY <1>1, <1>2, <1>4 DEF RoundType, RoundRecord, Expected
<1>6. FixTypes
  BY DEF FixInv
<1>7. Onward /\ UNCHANGED fixAlive
  BY <1>3, <1>6, TypesStay
<1>8. /\ RoundTypes' /\ \A u \in FixTasks \ {t} : SameRounds(u)
      /\ RoundJobs(t)' \subseteq RoundJobs(t)
      /\ \A j \in RoundsOf(t)' :
            j \in RoundsOf(t) /\ Expected(rounds'[j]) \subseteq Expected(rounds[j]) \cup fixAlive
  BY <1>1, <1>5, <1>6, <1>7, RoundMoves DEF FixTypes
<1>9. ASSUME Live(t) PROVE Live(t)'
  <2>1. \A u : SameQueue(u) /\ SameAsked(u) /\ SameWait(u)
    BY <1>3, QueueStays, AskedStays, WaitStays DEF handlerVars
  <2>2. /\ QueuedJobs(t)' = QueuedJobs(t) /\ AskedJobs(t)' = AskedJobs(t)
        /\ Waits(t)' <=> Waits(t)
    BY <2>1, WaitsFacts DEF SameQueue, SameAsked, SameWait
  <2>3. Spent(r) \/ (~Spent(new) /\ ~RoundOver(new, fixAlive))
    BY <1>5 DEF Spent, RoundOver
  <2> QED BY <1>1, <1>5, <1>6, <1>7, <1>9, <2>2, <2>3, RoundLive DEF FixTypes
<1>10. applyTasks[t].type \notin NotMade
  BY <1>1, RoundFacts
<1> QED BY <1>3, <1>6, <1>7, <1>8, <1>9, <1>10, RoundOnly

\* The process is told, or its id is removed again.
LEMMA NotifyProcessStep ==
    ASSUME FixInv, NEW i \in DOMAIN rounds, NotifyProcess(i)
    PROVE  FixStep
<1>1. PICK r \in RoundType, t \in FixTasks : r = rounds[i] /\ t = r.task
  BY RoundFacts
<1>20. PICK p \in r.telling, ok \in BOOLEAN : \E new :
         /\ new = [r EXCEPT !.telling = {}, !.told = (r.told \/ ok),
                            !.waiting = IF ok THEN r.waiting ELSE r.waiting \ {p}]
         /\ SetRound(i, new)
         /\ unanswered' = IF (r.told \/ ok) /\ ~ok /\ ~r.called /\ RoundOver(new, fixAlive)
                          THEN unanswered \cup {t} ELSE unanswered
         /\ IF r.todo = {} /\ ~(r.told \/ ok) THEN Finish(t, "failed") ELSE UNCHANGED fixTaskVars
         /\ IF r.todo = {} /\ r.by = "binder" THEN RemoveTimeoutTask ELSE UNCHANGED handlerVars
         /\ UNCHANGED <<achieved, asked, observerVars, binder, fixAlive, fixDead, bereaved, splits>>
  BY <1>1 DEF NotifyProcess
<1>2. PICK new :
         /\ new = [r EXCEPT !.telling = {}, !.told = (r.told \/ ok),
                            !.waiting = IF ok THEN r.waiting ELSE r.waiting \ {p}]
         /\ SetRound(i, new)
         /\ unanswered' = IF (r.told \/ ok) /\ ~ok /\ ~r.called /\ RoundOver(new, fixAlive)
                          THEN unanswered \cup {t} ELSE unanswered
         /\ IF r.todo = {} /\ ~(r.told \/ ok) THEN Finish(t, "failed") ELSE UNCHANGED fixTaskVars
         /\ IF r.todo = {} /\ r.by = "binder" THEN RemoveTimeoutTask ELSE UNCHANGED handlerVars
         /\ UNCHANGED <<achieved, asked, observerVars, binder, fixAlive, fixDead, bereaved, splits>>
  BY <1>20
<1>3. new \in RoundType
  BY <1>1, <1>2 DEF RoundType, RoundRecord, TellingFits
<1>4. /\ new.task = t /\ new.kind = r.kind /\ new.todo = r.todo /\ new.called = r.called
      /\ new.waiting = (IF ok THEN r.waiting ELSE r.waiting \ {p})
      /\ new.inspecting = r.inspecting
  BY <1>1, <1>2 DEF RoundType, RoundRecord
<1>5. SetRound(i, new)
  BY <1>2
<1>6. FixTypes
  BY DEF FixInv
<1>7. Onward /\ UNCHANGED fixAlive /\ ProcessTypes'
  BY <1>2, <1>6 DEF FixTypes, ProcessTypes, Onward
<1>8. /\ RoundTypes' /\ \A u \in FixTasks \ {t} : SameRounds(u)
      /\ RoundJobs(t)' \subseteq RoundJobs(t)
      /\ \A j \in RoundsOf(t)' :
            j \in RoundsOf(t) /\ Expected(rounds'[j]) \subseteq Expected(rounds[j]) \cup fixAlive
  <2>1. Expected(new) \subseteq Expected(rounds[i]) \cup fixAlive
    BY <1>1, <1>4 DEF Expected
  <2> QED BY <1>1, <1>3, <1>4, <1>5, <1>6, <1>7, <2>1, RoundMoves DEF FixTypes
<1>9. QueueTypes' /\ \A u : SameQueue(u)
  BY <1>2, <1>6, RemoveTimeoutFacts, QueueStays DEF FixTypes, QueueTypes, handlerVars
<1>10. \A u : SameAsked(u) /\ SameWait(u) /\ achieved'[u] = achieved[u]
  BY <1>2, AskedStays, WaitStays
<1>11. /\ QueuedJobs(t)' = QueuedJobs(t) /\ AskedJobs(t)' = AskedJobs(t)
       /\ Once(fixQueue, <<"deploy", t>>) => Once(fixQueue, <<"deploy", t>>)'
       /\ "deploy" \in AskedJobs(t)' => asked'[<<"deploy", t>>] = asked[<<"deploy", t>>]
       /\ Waits(t)' <=> Waits(t)
  BY <1>9, <1>10, WaitsFacts DEF SameQueue, SameAsked, SameWait
<1>12. applyTasks[t].type \notin NotMade /\ i \in RoundsOf(t)
  BY <1>1, RoundFacts
<1>13. applyTasks'[t].so = applyTasks[t].so => SwitchFits(t)
  BY <1>9, <1>10, SameSwitch
<1> DEFINE N == {}
<1>14. /\ \A job \in N : job # "deploy" /\ MayDo(applyTasks[t].type, achieved'[t], job)
       /\ "unload" \notin N
  OBVIOUS
<1> HIDE DEF N
<1>15. CASE r.todo = {} /\ ~(r.told \/ ok)
  <2>1. /\ TaskTypes' /\ \A u \in FixTasks \ {t} : SameTask(u)
        /\ reports'[t] = reports[t] \cup {"failed"}
        /\ applyTasks'[t] = [applyTasks[t] EXCEPT !.listed = FALSE]
    BY <1>2, <1>6, <1>15, FinishFacts DEF FixTypes, Results
  <2>2. /\ applyTasks'[t].type = applyTasks[t].type /\ applyTasks'[t].so = applyTasks[t].so
        /\ applyTasks'[t].running = applyTasks[t].running /\ ~applyTasks'[t].listed
        /\ "ok" \in reports'[t] => "ok" \in reports[t]
    BY <2>1, InvFacts DEF TaskType
  <2>3. FixTypes'
    BY <1>2, <1>6, <1>7, <1>8, <1>9, <2>1, TypesStay DEF FixTypes
  <2>4. \A u \in FixTasks \ {t} : Same(u)
    BY <1>8, <1>9, <1>10, <2>1 DEF Same
  <2>5. DeathFits(t)'
    BY <1>7, <1>10, <2>2, InvFacts, DeathSame DEF Onward
  <2> QED
    BY <1>7, <1>8, <1>10, <1>11, <1>12, <1>13, <1>14, <2>2, <2>3, <2>4, <2>5, TaskMoves
<1>16. CASE ~(r.todo = {} /\ ~(r.told \/ ok))
  <2>1. UNCHANGED fixTaskVars
    BY <1>2, <1>16
  <2>2. /\ \A u : SameTask(u)
        /\ applyTasks'[t] = applyTasks[t] /\ reports'[t] = reports[t]
    BY <2>1 DEF SameTask, fixTaskVars
  <2>3. FixTypes'
    BY <1>2, <1>6, <1>7, <1>8, <1>9, <2>1, TypesStay DEF FixTypes
  <2>4. \A u \in FixTasks \ {t} : Same(u)
    BY <1>8, <1>9, <1>10, <2>2 DEF Same
  <2>5. DeathFits(t)'
    BY <1>7, <1>10, <2>2, InvFacts, DeathSame DEF Onward
  <2>6. ASSUME applyTasks'[t].listed, t \notin Excused' PROVE Live(t)'
    <3>1. Live(t) /\ Expected(r) \subseteq fixAlive /\ t \notin unanswered'
      BY <1>1, <1>7, <1>12, <2>2, <2>6, InvFacts DEF LiveFits, Excused, Onward
    <3>2. SUFFICES Spent(r) \/ (~Spent(new) /\ ~RoundOver(new, fixAlive))
      BY <1>1, <1>3, <1>4, <1>5, <1>6, <1>7, <1>11, <3>1, RoundLive DEF FixTypes
    <3>3. CASE r.called
      BY <3>3 DEF Spent
    <3>4. CASE ~r.called /\ ~(r.told \/ ok)
      BY <1>4, <1>16, <3>4 DEF Spent, RoundOver
    <3>5. CASE ~r.called /\ ok
      <4>1. r.waiting # {} \/ r.inspecting # {}
        BY <1>1, <1>2, <3>5 DEF RoundType, TellingFits
      <4> QED BY <1>4, <3>1, <3>5, <4>1 DEF Spent, RoundOver, Expected
    <3>6. CASE ~r.called /\ r.told /\ ~ok
      BY <1>2, <1>4, <3>1, <3>6 DEF Spent
    <3> QED BY <3>3, <3>4, <3>5, <3>6
  <2> QED
    BY <1>7, <1>8, <1>10, <1>11, <1>12, <1>13, <1>14, <2>2, <2>3, <2>4, <2>5, <2>6, TaskMoves
<1> QED BY <1>15, <1>16

\* The id of a process that answers is removed from the list.
LEMMA ProcessAnswersStep ==
    ASSUME FixInv, NEW i \in DOMAIN rounds, ProcessAnswers(i)
    PROVE  FixStep
<1>1. PICK r \in RoundType, t \in FixTasks : r = rounds[i] /\ t = r.task
  BY RoundFacts
<1>2. PICK p \in r.waiting \cap fixAlive, ok \in BOOLEAN :
         SetRound(i, [r EXCEPT !.waiting = @ \ {p}, !.inspecting = @ \cup {<<p, ok>>}])
  BY <1>1 DEF ProcessAnswers
<1>3. UNCHANGED <<fixTaskVars, achieved, handlerVars, asked, observerVars, binder, processVars>>
  BY DEF ProcessAnswers
<1>4. FixTypes
  BY DEF FixInv
<1>5. <<p, ok>> \in FixProcesses \X BOOLEAN
  BY <1>1, <1>4 DEF FixTypes, ProcessTypes
<1>6. PICK new \in RoundType : new = [r EXCEPT !.waiting = @ \ {p}, !.inspecting = @ \cup {<<p, ok>>}]
  BY <1>1, <1>5 DEF RoundType, RoundRecord, TellingFits
<1>7. /\ new.task = t /\ new.kind = r.kind /\ new.called = r.called /\ new.inspecting # {}
      /\ Expected(new) \subseteq Expected(r) /\ SetRound(i, new)
  BY <1>1, <1>2, <1>6 DEF RoundType, RoundRecord, Expected
<1>8. Onward /\ UNCHANGED fixAlive
  BY <1>3, <1>4, TypesStay
<1>9. /\ RoundTypes' /\ \A u \in FixTasks \ {t} : SameRounds(u)
      /\ RoundJobs(t)' \subseteq RoundJobs(t)
      /\ \A j \in RoundsOf(t)' :
            j \in RoundsOf(t) /\ Expected(rounds'[j]) \subseteq Expected(rounds[j]) \cup fixAlive
  BY <1>1, <1>4, <1>7, <1>8, RoundMoves DEF FixTypes
<1>10. ASSUME Live(t) PROVE Live(t)'
  <2>1. \A u : SameQueue(u) /\ SameAsked(u) /\ SameWait(u)
    BY <1>3, QueueStays, AskedStays, WaitStays DEF handlerVars
  <2>2. /\ QueuedJobs(t)' = QueuedJobs(t) /\ AskedJobs(t)' = AskedJobs(t)
        /\ Waits(t)' <=> Waits(t)
    BY <2>1, WaitsFacts DEF SameQueue, SameAsked, SameWait
  <2>3. Spent(r) \/ (~Spent(new) /\ ~RoundOver(new, fixAlive))
    BY <1>7 DEF Spent, RoundOver
  <2> QED BY <1>1, <1>4, <1>7, <1>8, <1>10, <2>2, <2>3, RoundLive DEF FixTypes
<1>11. applyTasks[t].type \notin NotMade
  BY <1>1, RoundFacts
<1> QED BY <1>3, <1>8, <1>9, <1>10, <1>11, RoundOnly

LEMMA RoundDoneStep ==
    ASSUME FixInv, NEW i \in DOMAIN rounds, RoundDone(i)
    PROVE  FixStep
<1>1. PICK r \in RoundType, t \in FixTasks : r = rounds[i] /\ t = r.task
  BY RoundFacts
<1>2. PICK e \in r.inspecting :
         /\ SetRound(i, [r EXCEPT !.inspecting = r.inspecting \ {e}, !.failed = (r.failed \/ ~e[2]),
                                  !.called = (r.called \/ r.waiting = {})])
         /\ splits' = IF r.waiting = {} /\ (r.inspecting \ {e} # {} \/ r.todo # {}) THEN splits + 1 ELSE splits
         /\ \/ /\ r.waiting # {}
               /\ UNCHANGED <<fixTaskVars, handlerVars, asked>>
            \/ /\ r.waiting = {}
               /\ Finish(t, "failed")
               /\ UNCHANGED <<handlerVars, asked>>
            \/ /\ r.waiting = {}
               /\ \/ r.kind = "load" /\ OnLoadPatchDone(t)
                  \/ r.kind = "unload" /\ OnUnloadPatchDone(t)
                  \/ r.kind = "reload" /\ OnReloadPageDone(t)
         /\ UNCHANGED <<achieved, observerVars, binder, fixAlive, fixDead, bereaved, unanswered>>
  BY <1>1 DEF RoundDone
<1>3. PICK new \in RoundType :
         new = [r EXCEPT !.inspecting = r.inspecting \ {e}, !.failed = (r.failed \/ ~e[2]),
                         !.called = (r.called \/ r.waiting = {})]
  BY <1>1 DEF RoundType, RoundRecord, TellingFits
<1>4. /\ new.task = t /\ new.kind = r.kind /\ new.waiting = r.waiting /\ Expected(new) = Expected(r)
      /\ new.called = (r.called \/ r.waiting = {}) /\ SetRound(i, new)
  BY <1>1, <1>2, <1>3 DEF RoundType, RoundRecord, Expected
<1>5. FixTypes
  BY DEF FixInv
<1>6. Onward /\ UNCHANGED fixAlive /\ UNCHANGED bereaved
  BY <1>2 DEF Onward
<1>7. ProcessTypes'
  BY <1>2, <1>5 DEF FixTypes, ProcessTypes
<1>8. /\ RoundTypes' /\ \A u \in FixTasks \ {t} : SameRounds(u)
      /\ RoundJobs(t)' \subseteq RoundJobs(t)
      /\ \A j \in RoundsOf(t)' :
            j \in RoundsOf(t) /\ Expected(rounds'[j]) \subseteq Expected(rounds[j]) \cup fixAlive
  <2>1. Expected(new) \subseteq Expected(rounds[i]) \cup fixAlive
    BY <1>1, <1>4
  <2> QED BY <1>1, <1>4, <1>5, <1>6, <2>1, RoundMoves DEF FixTypes
<1>9. (\A u : SameWait(u)) /\ (Waits(t)' <=> Waits(t)) /\ achieved' = achieved
  BY <1>2, WaitStays, WaitsFacts DEF SameWait
<1>10. /\ applyTasks[t].type \notin NotMade /\ i \in RoundsOf(t) /\ r.kind \in RoundJobs(t)
       /\ MayDo(applyTasks[t].type, achieved[t], r.kind)
  BY <1>1, RoundFacts
<1>11. ASSUME TaskTypes', QueueTypes', AskedTypes' PROVE FixTypes'
  BY <1>2, <1>5, <1>7, <1>8, <1>11, TypesStay DEF FixTypes
<1>12. ASSUME NEW u \in FixTasks \ {t}, SameTask(u), SameQueue(u), SameAsked(u) PROVE Same(u)
  BY <1>8, <1>9, <1>12 DEF Same
<1>13. ASSUME applyTasks'[t].type = applyTasks[t].type PROVE DeathFits(t)'
  BY <1>6, <1>9, <1>13, InvFacts, DeathSame DEF Onward
<1>14. ASSUME UNCHANGED asked
       PROVE  /\ AskedTypes' /\ \A u : SameAsked(u)
              /\ AskedJobs(t)' = AskedJobs(t)
              /\ "deploy" \in AskedJobs(t)' => asked'[<<"deploy", t>>] = asked[<<"deploy", t>>]
  BY <1>5, <1>14, AskedStays, TypesStay DEF SameAsked
<1>15. ASSUME UNCHANGED handlerVars
       PROVE  /\ QueueTypes' /\ \A u : SameQueue(u)
              /\ QueuedJobs(t)' = QueuedJobs(t)
              /\ Once(fixQueue, <<"deploy", t>>) => Once(fixQueue, <<"deploy", t>>)'
  BY <1>5, <1>15, QueueStays, TypesStay DEF SameQueue, handlerVars
<1>16. ASSUME UNCHANGED fixTaskVars
       PROVE  /\ TaskTypes' /\ \A u : SameTask(u)
              /\ applyTasks'[t] = applyTasks[t] /\ reports'[t] = reports[t]
  BY <1>5, <1>16, TypesStay DEF SameTask, fixTaskVars
<1>17. ASSUME NEW result \in Results, Finish(t, result)
       PROVE  /\ TaskTypes' /\ \A u \in FixTasks \ {t} : SameTask(u)
              /\ reports'[t] = reports[t] \cup {result}
              /\ applyTasks'[t].type = applyTasks[t].type /\ applyTasks'[t].so = applyTasks[t].so
              /\ applyTasks'[t].running = applyTasks[t].running /\ ~applyTasks'[t].listed
  <2>1. /\ TaskTypes' /\ \A u \in FixTasks \ {t} : SameTask(u)
        /\ reports'[t] = reports[t] \cup {result}
        /\ applyTasks'[t] = [applyTasks[t] EXCEPT !.listed = FALSE]
    BY <1>5, <1>17, FinishFacts DEF FixTypes
  <2> QED BY <2>1, InvFacts DEF TaskType
<1>18. CASE r.waiting # {} /\ UNCHANGED <<fixTaskVars, handlerVars, asked>>
  <2>1. ASSUME applyTasks'[t].listed, t \notin Excused' PROVE Live(t)'
    <3>1. Live(t) /\ r.waiting \subseteq fixAlive
      BY <1>1, <1>2, <1>6, <1>10, <1>16, <1>18, <2>1, InvFacts DEF LiveFits, Expected, Excused
    <3>2. Spent(r) \/ (~Spent(new) /\ ~RoundOver(new, fixAlive))
      BY <1>4, <1>18, <3>1 DEF Spent, RoundOver
    <3> QED BY <1>1, <1>4, <1>5, <1>6, <1>9, <1>14, <1>15, <1>18, <3>1, <3>2, RoundLive DEF FixTypes
  <2>2. FixTypes' /\ \A u \in FixTasks \ {t} : Same(u)
    BY <1>11, <1>12, <1>14, <1>15, <1>16, <1>18
  <2>3. SwitchFits(t) /\ DeathFits(t)'
    BY <1>9, <1>13, <1>14, <1>15, <1>16, <1>18, SameSwitch
  <2> DEFINE N == {}
  <2>4. /\ \A job \in N : job # "deploy" /\ MayDo(applyTasks[t].type, achieved'[t], job)
        /\ "unload" \notin N
    OBVIOUS
  <2> HIDE DEF N
  <2> QED
    BY <1>6, <1>8, <1>9, <1>10, <1>14, <1>15, <1>16, <1>18, <2>1, <2>2, <2>3, <2>4, TaskMoves
<1>19. ASSUME NEW result \in {"failed", "ok"}, Finish(t, result), UNCHANGED <<handlerVars, asked>>,
              result = "ok" => r.kind = "reload"
       PROVE  FixStep
  <2>1. /\ TaskTypes' /\ \A u \in FixTasks \ {t} : SameTask(u)
        /\ reports'[t] = reports[t] \cup {result}
        /\ applyTasks'[t].type = applyTasks[t].type /\ applyTasks'[t].so = applyTasks[t].so
        /\ applyTasks'[t].running = applyTasks[t].running /\ ~applyTasks'[t].listed
    BY <1>17, <1>19 DEF Results
  <2>2. FixTypes' /\ \A u \in FixTasks \ {t} : Same(u)
    BY <1>11, <1>12, <1>14, <1>15, <1>19, <2>1
  <2>3. SwitchFits(t) /\ DeathFits(t)'
    BY <1>9, <1>13, <1>14, <1>15, <1>19, <2>1, SameSwitch
  <2> DEFINE N == {result} \cap {"ok"}
  <2>4. \A job \in N : job # "deploy" /\ MayDo(applyTasks[t].type, achieved'[t], job)
    BY <1>9, <1>10, <1>19 DEF MayDo, Needs
  <2>5. "unload" \notin N /\ ("ok" \in reports'[t] => "ok" \in reports[t] \/ "ok" \in N)
    BY <2>1
  <2> HIDE DEF N
  <2> QED
    BY <1>6, <1>8, <1>9, <1>10, <1>14, <1>15, <1>19, <2>1, <2>2, <2>3, <2>4, <2>5, TaskMoves
<1>20. ASSUME NEW step \in {"delete", "switch"}, PostTask(t, step, FALSE), UNCHANGED <<fixTaskVars, asked>>,
              step = "delete" => r.kind = "load",
              step = "switch" => r.kind = "unload" /\ applyTasks[t].type = "apply"
       PROVE  FixStep
  <2>1. step \in Steps /\ step # "deploy" /\ step # "unload" /\ step \notin Notifications
    BY DEF Steps, Requests, Notifications
  <2>2. /\ QueueTypes' /\ \A u \in FixTasks \ {t} : SameQueue(u)
        /\ QueuedJobs(t)' = QueuedJobs(t) \cup {step}
        /\ Once(fixQueue, <<"deploy", t>>) => Once(fixQueue, <<"deploy", t>>)'
    BY <1>5, <1>20, <2>1, PostTaskFacts DEF FixTypes
  <2>3. FixTypes' /\ \A u \in FixTasks \ {t} : Same(u)
    BY <1>11, <1>12, <1>14, <1>16, <1>20, <2>2
  <2>4. DeathFits(t)' /\ Live(t)'
    BY <1>13, <1>16, <1>20, <2>2 DEF Live
  <2>5. step = "switch" => ~applyTasks[t].so
    BY <1>10, <1>20, InvFacts DEF DeployFits
  <2>6. SwitchFits(t)
    BY <1>9, <1>14, <1>16, <1>20, <2>2, <2>5 DEF SwitchFits, Switching
  <2> DEFINE N == {step}
  <2>7. \A job \in N : job # "deploy" /\ MayDo(applyTasks[t].type, achieved'[t], job)
    BY <1>9, <1>10, <1>20 DEF MayDo, Needs
  <2>8. "unload" \notin N /\ QueuedJobs(t)' \subseteq QueuedJobs(t) \cup N
    BY <2>1, <2>2
  <2>9. QueuedJobs(t)' \cap Notifications \subseteq QueuedJobs(t)
    BY <2>1, <2>2
  <2> HIDE DEF N
  <2> QED
    BY <1>6, <1>8, <1>9, <1>10, <1>14, <1>16, <1>20, <2>2, <2>3, <2>4, <2>6, <2>7, <2>8, <2>9, TaskMoves
<1>21. ASSUME r.kind = "unload", applyTasks[t].type = "revoke", Ask(t, "delete", asked), UNCHANGED handlerVars
       PROVE  FixStep
  <2>1. /\ AskedTypes' /\ TaskTypes'
        /\ \A u \in FixTasks \ {t} : SameAsked(u) /\ SameTask(u)
        /\ AskedJobs(t)' \subseteq AskedJobs(t) \cup {"delete"}
        /\ "deploy" \in AskedJobs(t)' => asked'[<<"deploy", t>>] = asked[<<"deploy", t>>]
        /\ \/ "delete" \in AskedJobs(t)' /\ SameTask(t)
           \/ /\ applyTasks'[t] = [applyTasks[t] EXCEPT !.listed = FALSE]
              /\ reports'[t] = reports[t] \cup {"failed"}
    BY <1>5, <1>21, AskFacts DEF FixTypes, Requests
  <2>2. /\ applyTasks'[t].type = applyTasks[t].type /\ applyTasks'[t].so = applyTasks[t].so
        /\ applyTasks'[t].running = applyTasks[t].running
        /\ applyTasks'[t].listed => applyTasks[t].listed /\ AskedJobs(t)' # {}
        /\ "ok" \in reports'[t] => "ok" \in reports[t]
    BY <2>1, InvFacts DEF TaskType, SameTask
  <2>3. FixTypes' /\ \A u \in FixTasks \ {t} : Same(u)
    BY <1>11, <1>12, <1>15, <1>21, <2>1
  <2>4. DeathFits(t)' /\ (applyTasks'[t].listed => Live(t)')
    BY <1>13, <2>2 DEF Live
  <2>5. SwitchFits(t)
    BY <1>9, <1>15, <1>21, <2>1, <2>2 DEF SwitchFits, Switching
  <2> DEFINE N == {"delete"}
  <2>6. \A job \in N : job # "deploy" /\ MayDo(applyTasks[t].type, achieved'[t], job)
    BY <1>9, <1>10, <1>21 DEF MayDo, Needs
  <2>7. "unload" \notin N /\ AskedJobs(t)' \subseteq AskedJobs(t) \cup N
    BY <2>1
  <2> HIDE DEF N
  <2> QED
    BY <1>6, <1>8, <1>9, <1>10, <1>15, <1>21, <2>1, <2>2, <2>3, <2>4, <2>5, <2>6, <2>7, TaskMoves
<1>22. CASE r.kind = "load" /\ OnLoadPatchDone(t)
  BY <1>20, <1>22 DEF OnLoadPatchDone
<1>23. CASE r.kind = "unload" /\ OnUnloadPatchDone(t)
  BY <1>20, <1>21, <1>23 DEF OnUnloadPatchDone
<1>24. CASE r.kind = "reload" /\ OnReloadPageDone(t)
  BY <1>19, <1>24 DEF OnReloadPageDone
<1>25. CASE Finish(t, "failed") /\ UNCHANGED <<handlerVars, asked>>
  BY <1>19, <1>25
<1> QED BY <1>2, <1>18, <1>22, <1>23, <1>24, <1>25

-----------------------------------------------------------------------------
(* The deaths and their observers. *)

\* A step that changes neither the queue of the task nor its requests.
LEMMA QuietMove ==
    ASSUME FixInv, FixTypes', NEW t \in FixTasks, Onward,
           \A u \in FixTasks \ {t} : Same(u), applyTasks[t].type \notin NotMade,
           applyTasks'[t].type = applyTasks[t].type, applyTasks'[t].so = applyTasks[t].so,
           applyTasks'[t].running = applyTasks[t].running,
           applyTasks'[t].listed => applyTasks[t].listed,
           achieved'[t] = achieved[t], SameQueue(t), SameAsked(t), SameRounds(t),
           "ok" \in reports'[t] => "ok" \in reports[t],
           Waits(t), DeathFits(t)',
           applyTasks'[t].listed /\ t \notin Excused' => Live(t)'
    PROVE  FixStep
<1> DEFINE N == {}
<1>1. /\ \A job \in N : job # "deploy" /\ MayDo(applyTasks[t].type, achieved'[t], job)
      /\ "unload" \notin N
  OBVIOUS
<1>2. /\ QueuedJobs(t)' = QueuedJobs(t) /\ AskedJobs(t)' = AskedJobs(t)
      /\ Once(fixQueue, <<"deploy", t>>) => Once(fixQueue, <<"deploy", t>>)'
      /\ "deploy" \in AskedJobs(t)' => asked'[<<"deploy", t>>] = asked[<<"deploy", t>>]
  BY DEF SameQueue, SameAsked
<1>3. /\ RoundJobs(t)' = RoundJobs(t)
      /\ \A i \in RoundsOf(t)' : i \in RoundsOf(t) /\ rounds'[i] = rounds[i]
  BY RoundsKept
<1>4. SwitchFits(t)
  BY SameSwitch
<1> HIDE DEF N
<1> QED BY <1>1, <1>2, <1>3, <1>4, TaskMoves

LEMMA RegAppStateObserverStep ==
    ASSUME FixInv, NEW b \in BagToSet(binder), RegAppStateObserver(b)
    PROVE  FixStep
<1>1. FixTypes
  BY DEF FixInv
<1>2. b \in BinderType
  BY <1>1 DEF FixTypes, BinderTypes
<1>3. PICK t \in FixTasks, c \in BinderType : t = b.task /\ c = b
  BY <1>2 DEF BinderType
<1>31. RegAppStateObserver(c) /\ c.task = t
  BY <1>3, Zenon
<1>4. /\ binder' = BagRemove(binder, c)
      /\ UNCHANGED <<achieved, asked, rounds, obituaries, diedCalls, processVars>>
  BY <1>31 DEF RegAppStateObserver
<1>41. IF c.from = "died" THEN UNCHANGED handlerVars ELSE RemoveTimeoutTask
  BY <1>31 DEF RegAppStateObserver
<1>42. \E last :
         \/ /\ registered[t] + 1 <= MaxObservers
            /\ registered' = [registered EXCEPT ![t] = registered[t] + 1]
            /\ observers' = Unregister(t, observers[t] \cup {registered[t] + 1}, last)
            /\ c.from # "died" => last = 0
            /\ UNCHANGED fixTaskVars
         \/ /\ Finish(t, "failed")
            /\ observers' = Unregister(t, observers[t], last)
            /\ UNCHANGED registered
  <2>1. CASE c.from = "died"
    BY <1>31, <2>1 DEF RegAppStateObserver
  <2>2. CASE c.from # "died"
    BY <1>31, <2>2 DEF RegAppStateObserver
  <2> QED BY <2>1, <2>2
<1>5. BinderOf(t) # {} /\ Waits(t)
  BY <1>3, WaitsFacts DEF BinderOf
<1>6. applyTasks[t].type \notin NotMade /\ MayDo(applyTasks[t].type, achieved[t], "wait")
  BY <1>5, JobMade
<1>7. Onward /\ UNCHANGED fixAlive /\ UNCHANGED bereaved
  BY <1>1, <1>4, TypesStay DEF processVars
<1>8. /\ BinderTypes' /\ BinderOf(t)' \subseteq BinderOf(t)
      /\ \A u \in FixTasks \ {t} : BinderOf(u)' = BinderOf(u)
  BY <1>1, <1>3, <1>4, BinderFacts DEF FixTypes
<1>9. c.from = "died" => t \in bereaved
  BY <1>3, InvFacts DEF DeathFits
<1>10. QueueTypes' /\ \A u : SameQueue(u)
  BY <1>1, <1>41, RemoveTimeoutFacts, QueueStays DEF FixTypes, QueueTypes, handlerVars
<1>11. \A u : SameAsked(u) /\ SameRounds(u) /\ achieved'[u] = achieved[u] /\ diedCalls'[u] = diedCalls[u]
  BY <1>4, AskedStays, RoundsStay
<1>12. /\ observers \in [FixTasks -> SUBSET (1..MaxObservers)]
       /\ registered \in [FixTasks -> 0..MaxObservers] /\ MaxObservers \in Nat
  BY <1>1, FixConstants DEF FixTypes, ObserverTypes
<1>13. ASSUME applyTasks'[t].type = applyTasks[t].type PROVE DeathFits(t)'
  <2> DEFINE M == {}
  <2>1. /\ BinderOf(t)' \subseteq BinderOf(t) \cup M
        /\ \A d \in M : /\ d.from = "died" => t \in bereaved'
                        /\ d.at = "handle" => applyTasks[t].type = "apply"
    BY <1>8
  <2> HIDE DEF M
  <2> QED BY <1>7, <1>11, <1>13, <2>1, InvFacts, DeathStays DEF Onward
<1>14. ASSUME NEW last, registered[t] + 1 <= MaxObservers,
              registered' = [registered EXCEPT ![t] = registered[t] + 1],
              observers' = Unregister(t, observers[t] \cup {registered[t] + 1}, last),
              c.from # "died" => last = 0, UNCHANGED fixTaskVars
       PROVE  FixStep
  <2>1. PICK n \in 1..MaxObservers : n = registered[t] + 1
    BY <1>12, <1>14
  <2>2. PICK left \in SUBSET (1..MaxObservers) :
           left = (observers[t] \cup {n}) \ {last}
    BY <1>12
  <2>3. observers' = [observers EXCEPT ![t] = left] /\ registered' = [registered EXCEPT ![t] = n]
    BY <1>14, <2>1, <2>2 DEF Unregister
  <2>4. /\ observers' \in [FixTasks -> SUBSET (1..MaxObservers)]
        /\ registered' \in [FixTasks -> 0..MaxObservers]
        /\ observers'[t] = left /\ \A u \in FixTasks \ {t} : observers'[u] = observers[u]
    BY <1>12, <2>3
  <2>5. c.from # "died" => left # {}
    BY <1>14, <2>1, <2>2
  <2>6. ObserverTypes'
    BY <1>1, <1>4, <2>4 DEF FixTypes, ObserverTypes
  <2>7. /\ \A u : SameTask(u)
        /\ applyTasks'[t] = applyTasks[t] /\ reports'[t] = reports[t]
    BY <1>14 DEF SameTask, fixTaskVars
  <2>8. FixTypes'
    BY <1>1, <1>4, <1>7, <1>8, <1>10, <1>14, <2>6, TypesStay DEF FixTypes
  <2>9. \A u \in FixTasks \ {t} : Same(u)
    BY <1>8, <1>10, <1>11, <2>4, <2>7 DEF Same, SameWait
  <2>10. ASSUME t \notin Excused' PROVE Live(t)'
    BY <1>7, <1>9, <2>4, <2>5, <2>10, WaitsFacts DEF Live, Excused
  <2>11. DeathFits(t)'
    BY <1>13, <2>7
  <2> QED
    BY <1>5, <1>6, <1>7, <1>10, <1>11, <2>7, <2>8, <2>9, <2>10, <2>11, QuietMove
<1>15. ASSUME NEW last, Finish(t, "failed"), observers' = Unregister(t, observers[t], last),
              UNCHANGED registered
       PROVE  FixStep
  <2>1. PICK left \in SUBSET (1..MaxObservers) :
           left = observers[t] \ {last}
    BY <1>12
  <2>2. observers' = [observers EXCEPT ![t] = left]
    BY <1>15, <2>1 DEF Unregister
  <2>3. /\ observers' \in [FixTasks -> SUBSET (1..MaxObservers)]
        /\ \A u \in FixTasks \ {t} : observers'[u] = observers[u]
    BY <1>12, <2>2
  <2>4. ObserverTypes'
    BY <1>1, <1>4, <1>15, <2>3 DEF FixTypes, ObserverTypes
  <2>5. /\ TaskTypes' /\ \A u \in FixTasks \ {t} : SameTask(u)
        /\ reports'[t] = reports[t] \cup {"failed"}
        /\ applyTasks'[t] = [applyTasks[t] EXCEPT !.listed = FALSE]
    BY <1>1, <1>15, FinishFacts DEF FixTypes, Results
  <2>6. /\ applyTasks'[t].type = applyTasks[t].type /\ applyTasks'[t].so = applyTasks[t].so
        /\ applyTasks'[t].running = applyTasks[t].running /\ ~applyTasks'[t].listed
        /\ "ok" \in reports'[t] => "ok" \in reports[t]
    BY <2>5, InvFacts DEF TaskType
  <2>7. FixTypes'
    BY <1>1, <1>4, <1>7, <1>8, <1>10, <2>4, <2>5, TypesStay DEF FixTypes
  <2>8. \A u \in FixTasks \ {t} : Same(u)
    BY <1>8, <1>10, <1>11, <2>3, <2>5 DEF Same, SameWait
  <2>9. DeathFits(t)'
    BY <1>13, <2>6
  <2> QED BY <1>5, <1>6, <1>7, <1>10, <1>11, <2>6, <2>7, <2>8, <2>9, QuietMove
<1> QED BY <1>42, <1>14, <1>15

\* A task called for a death is among the bereaved, and was waiting.
LEMMA HandleOnProcessDiedStep ==
    ASSUME FixInv, HandleOnProcessDied
    PROVE  FixStep
<1>1. /\ obituaries > 0 /\ obituaries' = obituaries - 1
      /\ diedCalls' = [t \in FixTasks |-> diedCalls[t] + Cardinality(observers[t])]
      /\ bereaved' = bereaved \cup {t \in FixTasks : observers[t] # {}}
      /\ UNCHANGED <<fixTaskVars, achieved, handlerVars, asked, rounds, observers, registered,
                     binder, fixAlive, fixDead, unanswered, splits>>
  BY DEF HandleOnProcessDied
<1>2. FixTypes
  BY DEF FixInv
<1>3. \A t \in FixTasks : /\ Cardinality(observers[t]) \in Nat
                          /\ Cardinality(observers[t]) > 0 => observers[t] # {}
  <2>1. IsFiniteSet(1..MaxObservers)
    BY FixConstants, FS_Interval
  <2>2. \A t \in FixTasks : observers[t] \subseteq 1..MaxObservers
    BY <1>2 DEF FixTypes, ObserverTypes
  <2>3. \A t \in FixTasks : IsFiniteSet(observers[t])
    BY <2>1, <2>2, FS_Subset
  <2>4. \A t \in FixTasks : Cardinality(observers[t]) \in Nat
    BY <2>3, FS_CardinalityType
  <2>5. Cardinality({}) = 0
    BY FS_EmptySet
  <2> QED BY <2>4, <2>5
<1>4. \A t \in FixTasks : diedCalls[t] \in Nat /\ diedCalls'[t] = diedCalls[t] + Cardinality(observers[t])
  BY <1>1, <1>2 DEF FixTypes, ObserverTypes
<1>5. \A t \in FixTasks :
         /\ diedCalls'[t] \in Nat
         /\ diedCalls'[t] > 0 <=> diedCalls[t] > 0 \/ Cardinality(observers[t]) > 0
  BY <1>3, <1>4
<1>6. ObserverTypes' /\ ProcessTypes'
  <2>1. diedCalls' \in [FixTasks -> Nat]
    BY <1>1, <1>5
  <2> QED BY <1>1, <1>2, <2>1 DEF FixTypes, ObserverTypes, ProcessTypes
<1>7. FixTypes'
  BY <1>1, <1>2, <1>6, TypesStay DEF FixTypes
<1>8. Onward
  BY <1>1 DEF Onward
<1>9. ASSUME NEW t \in FixTasks PROVE TaskFits(t)' /\ SwitchFits(t)
  <2>1. SameTask(t) /\ SameQueue(t) /\ SameAsked(t) /\ SameRounds(t) /\ achieved'[t] = achieved[t]
    BY <1>1, QueueStays, AskedStays, RoundsStay DEF SameTask, fixTaskVars, handlerVars
  <2>2. BinderOf(t)' = BinderOf(t) /\ observers'[t] = observers[t]
    BY <1>1, BinderStays
  <2>3. Waits(t)' <=> Waits(t)
    BY <1>3, <1>5, <2>2, WaitsFacts
  <2>4. DeathFits(t)'
    <3> DEFINE M == {}
    <3>1. /\ BinderOf(t)' \subseteq BinderOf(t) \cup M
          /\ \A d \in M : /\ d.from = "died" => t \in bereaved'
                          /\ d.at = "handle" => applyTasks[t].type = "apply"
      BY <2>2
    <3> HIDE DEF M
    <3>2. diedCalls'[t] > 0 => diedCalls[t] > 0 \/ t \in bereaved'
      BY <1>1, <1>3, <1>5
    <3> QED BY <1>8, <2>1, <3>1, <3>2, InvFacts, DeathStays DEF Onward, SameTask
  <2> QED BY <1>8, <2>1, <2>3, <2>4, InvFacts, ToldFits, SameSwitch DEF SameTask
<1> QED BY <1>7, <1>9 DEF FixStep, FixInv

LEMMA OnProcessDiedStep ==
    ASSUME FixInv, NEW t \in FixTasks, OnProcessDied(t)
    PROVE  FixStep
<1>1. /\ diedCalls[t] > 0 /\ diedCalls' = [diedCalls EXCEPT ![t] = @ - 1]
      /\ UNCHANGED <<achieved, rounds, obituaries, registered, processVars>>
  BY DEF OnProcessDied
<1>2. FixTypes
  BY DEF FixInv
<1>3. Waits(t) /\ t \in bereaved
  BY <1>1, WaitsFacts, InvFacts DEF DeathFits
<1>4. applyTasks[t].type \notin NotMade /\ MayDo(applyTasks[t].type, achieved[t], "wait")
  BY <1>3, JobMade
<1>5. Onward /\ UNCHANGED fixAlive /\ UNCHANGED bereaved
  BY <1>1, <1>2, TypesStay DEF processVars
<1>6. /\ diedCalls' \in [FixTasks -> Nat]
      /\ \A u \in FixTasks \ {t} : diedCalls'[u] = diedCalls[u]
  BY <1>1, <1>2 DEF FixTypes, ObserverTypes
<1>7. \A u : SameRounds(u) /\ achieved'[u] = achieved[u]
  BY <1>1, RoundsStay
<1>8. observers \in [FixTasks -> SUBSET (1..MaxObservers)]
  BY <1>2 DEF FixTypes, ObserverTypes
<1>9. ASSUME observers' = Unregister(t, observers[t], registered[t])
      PROVE  ObserverTypes' /\ \A u \in FixTasks \ {t} : observers'[u] = observers[u]
  <2>1. PICK left \in SUBSET (1..MaxObservers) : left = observers[t] \ {registered[t]}
    BY <1>8
  <2>2. observers' = [observers EXCEPT ![t] = left]
    BY <1>9, <2>1 DEF Unregister
  <2>3. /\ observers' \in [FixTasks -> SUBSET (1..MaxObservers)]
        /\ \A u \in FixTasks \ {t} : observers'[u] = observers[u]
    BY <1>8, <2>2
  <2> QED BY <1>1, <1>2, <1>6, <2>3 DEF FixTypes, ObserverTypes
<1>10. ASSUME applyTasks'[t].type = applyTasks[t].type, UNCHANGED binder PROVE DeathFits(t)'
  <2> DEFINE M == {}
  <2>1. /\ BinderOf(t)' \subseteq BinderOf(t) \cup M
        /\ \A d \in M : /\ d.from = "died" => t \in bereaved'
                        /\ d.at = "handle" => applyTasks[t].type = "apply"
    BY <1>10, BinderStays
  <2> HIDE DEF M
  <2>2. t \in bereaved'
    BY <1>3, <1>5
  <2> QED BY <1>5, <1>10, <2>1, <2>2, InvFacts, DeathStays DEF Onward
<1>11. ASSUME UNCHANGED fixTaskVars
       PROVE  /\ TaskTypes' /\ \A u : SameTask(u)
              /\ applyTasks'[t] = applyTasks[t] /\ reports'[t] = reports[t]
  BY <1>2, <1>11, TypesStay DEF SameTask, fixTaskVars
<1>12. CASE /\ applyTasks[t].type = "apply"
            /\ binder' = BagAdd(binder, [task |-> t, at |-> "handle", from |-> "died"])
            /\ UNCHANGED <<fixTaskVars, handlerVars, asked, observers>>
  <2>1. PICK b \in BinderType : b = [task |-> t, at |-> "handle", from |-> "died"]
    BY DEF BinderType
  <2>2. b.task = t /\ binder' = BagAdd(binder, b)
    BY <1>12, <2>1
  <2>3. /\ BinderTypes' /\ b \in BinderOf(t)' /\ BinderOf(t)' \subseteq BinderOf(t) \cup {b}
        /\ \A u \in FixTasks \ {t} : BinderOf(u)' = BinderOf(u)
    BY <1>2, <2>2, BinderFacts DEF FixTypes
  <2>4. ObserverTypes'
    BY <1>1, <1>2, <1>6, <1>12 DEF FixTypes, ObserverTypes
  <2>5. FixTypes'
    BY <1>1, <1>2, <1>5, <1>12, <2>3, <2>4, TypesStay DEF FixTypes
  <2>6. \A u : SameQueue(u) /\ SameAsked(u)
    BY <1>12, QueueStays, AskedStays DEF handlerVars
  <2>7. \A u \in FixTasks \ {t} : Same(u)
    BY <1>6, <1>7, <1>11, <1>12, <2>3, <2>6 DEF Same, SameWait
  <2>8. DeathFits(t)'
    <3> DEFINE M == {b}
    <3>1. t \in bereaved'
      BY <1>3, <1>5
    <3>2. /\ BinderOf(t)' \subseteq BinderOf(t) \cup M
          /\ \A d \in M : /\ d.from = "died" => t \in bereaved'
                          /\ d.at = "handle" => applyTasks[t].type = "apply"
      BY <1>12, <2>3, <3>1
    <3> HIDE DEF M
    <3> QED BY <1>5, <1>11, <1>12, <3>1, <3>2, InvFacts, DeathStays DEF Onward
  <2> QED BY <1>3, <1>4, <1>5, <1>7, <1>11, <1>12, <2>5, <2>6, <2>7, <2>8, QuietMove DEF Excused
<1>13. CASE /\ fixAlive = {} /\ applyTasks[t].type = "revoke"
            /\ Ask(t, "switch", asked)
            /\ fixTimers' = TimerPosted(t)
            /\ observers' = Unregister(t, observers[t], registered[t])
            /\ UNCHANGED <<fixQueue, binder>>
  <2>1. /\ AskedTypes' /\ TaskTypes'
        /\ \A u \in FixTasks \ {t} : SameAsked(u) /\ SameTask(u)
        /\ AskedJobs(t)' \subseteq AskedJobs(t) \cup {"switch"}
        /\ "deploy" \in AskedJobs(t)' => asked'[<<"deploy", t>>] = asked[<<"deploy", t>>]
        /\ \/ "switch" \in AskedJobs(t)' /\ SameTask(t)
           \/ /\ applyTasks'[t] = [applyTasks[t] EXCEPT !.listed = FALSE]
              /\ reports'[t] = reports[t] \cup {"failed"}
    BY <1>2, <1>13, AskFacts DEF FixTypes, Requests
  <2>2. /\ applyTasks'[t].type = applyTasks[t].type /\ applyTasks'[t].so = applyTasks[t].so
        /\ applyTasks'[t].running = applyTasks[t].running
        /\ applyTasks'[t].listed => applyTasks[t].listed
        /\ "ok" \in reports'[t] => "ok" \in reports[t]
    BY <2>1, InvFacts DEF TaskType, SameTask
  <2>3. fixTimers' \in [FixTasks -> Nat]
    BY <1>2, <1>13 DEF FixTypes, QueueTypes, TimerPosted
  <2>4. QueueTypes' /\ \A u : SameQueue(u)
    BY <1>2, <1>13, <2>3, TimersFacts DEF FixTypes
  <2>5. FixTypes'
    BY <1>1, <1>2, <1>5, <1>9, <1>13, <2>1, <2>4, TypesStay DEF FixTypes
  <2>6. \A u : BinderOf(u)' = BinderOf(u)
    BY <1>13, BinderStays
  <2>7. \A u \in FixTasks \ {t} : Same(u)
    BY <1>6, <1>7, <1>9, <1>13, <2>1, <2>4, <2>6 DEF Same, SameWait
  <2>8. DeathFits(t)'
    BY <1>10, <1>13, <2>2
  <2>9. SwitchFits(t)
    BY <1>13 DEF SwitchFits
  <2>10. /\ RoundJobs(t)' = RoundJobs(t)
         /\ \A i \in RoundsOf(t)' : i \in RoundsOf(t) /\ rounds'[i] = rounds[i]
    BY <1>7, RoundsKept
  <2>11. /\ QueuedJobs(t)' = QueuedJobs(t)
         /\ Once(fixQueue, <<"deploy", t>>) => Once(fixQueue, <<"deploy", t>>)'
    BY <2>4 DEF SameQueue
  <2> DEFINE N == {"switch"}
  <2>12. \A job \in N : job # "deploy" /\ MayDo(applyTasks[t].type, achieved'[t], job)
    BY <1>13 DEF MayDo, Needs, NotMade
  <2>13. "unload" \notin N /\ AskedJobs(t)' \subseteq AskedJobs(t) \cup N
    BY <2>1
  <2> HIDE DEF N
  <2> QED
    BY <1>3, <1>4, <1>5, <1>7, <2>1, <2>2, <2>5, <2>7, <2>8, <2>9, <2>10, <2>11, <2>12, <2>13, TaskMoves DEF Excused
<1>14. CASE /\ observers' = Unregister(t, observers[t], registered[t])
            /\ UNCHANGED <<fixTaskVars, handlerVars, asked, binder>>
  <2>1. FixTypes'
    BY <1>1, <1>2, <1>5, <1>9, <1>14, TypesStay DEF FixTypes
  <2>2. \A u : SameQueue(u) /\ SameAsked(u) /\ BinderOf(u)' = BinderOf(u)
    BY <1>14, QueueStays, AskedStays, BinderStays DEF handlerVars
  <2>3. \A u \in FixTasks \ {t} : Same(u)
    BY <1>6, <1>7, <1>9, <1>11, <1>14, <2>2 DEF Same, SameWait
  <2>4. DeathFits(t)'
    BY <1>10, <1>11, <1>14
  <2> QED BY <1>3, <1>4, <1>5, <1>7, <1>11, <1>14, <2>1, <2>2, <2>3, <2>4, QuietMove DEF Excused
<1> QED BY <1>12, <1>13, <1>14 DEF OnProcessDied

LEMMA HandleAfterDeathStep ==
    ASSUME FixInv, NEW t \in FixTasks, HandleAfterDeath(t)
    PROVE  FixStep
<1>1. PICK c \in BinderType : c = [task |-> t, at |-> "handle", from |-> "died"]
  BY DEF BinderType
<1>2. /\ BagIn(c, binder)
      /\ HandlePatchDeployed(t, applyTasks[t], "died", BagRemove(binder, c))
      /\ UNCHANGED <<reports, achieved, asked, rounds, registered, obituaries, diedCalls, processVars>>
  BY <1>1 DEF HandleAfterDeath
<1>3. observers' = IF fixAlive # {} /\ applyTasks[t].so THEN observers
                   ELSE Unregister(t, observers[t], registered[t])
  BY DEF HandleAfterDeath
<1>4. FixTypes /\ applyTasks[t] \in TaskType
  BY InvFacts DEF FixInv
<1>5. c.task = t /\ c \in BagToSet(binder) /\ c.at = "handle" /\ c.from = "died"
  BY <1>1, <1>2 DEF BagIn
<1>6. Waits(t) /\ t \in bereaved /\ applyTasks[t].type = "apply" /\ applyTasks[t].type \notin NotMade
  <2>1. BinderOf(t) # {}
    BY <1>5 DEF BinderOf
  <2> QED BY <1>5, <2>1, WaitsFacts, InvFacts DEF DeathFits, NotMade
<1>7. MayDo("apply", achieved[t], "wait")
  BY <1>6, JobMade
<1>8. Onward /\ UNCHANGED fixAlive /\ UNCHANGED bereaved
  BY <1>2, <1>4, TypesStay DEF processVars
<1>9. /\ TaskTypes' /\ QueueTypes' /\ BinderTypes'
      /\ applyTasks'[t] = [applyTasks[t] EXCEPT !.running = (fixAlive # {})] /\ reports'[t] = reports[t]
      /\ \A u \in FixTasks \ {t} : SameTask(u) /\ SameQueue(u) /\ BinderOf(u)' = BinderOf(u)
      /\ Once(fixQueue, <<"deploy", t>>) => Once(fixQueue, <<"deploy", t>>)'
      /\ \/ /\ fixAlive # {} /\ applyTasks[t].so /\ SameQueue(t)
            /\ BinderOf(t)' # {}
            /\ BinderOf(t)' \subseteq BinderOf(t) \cup {[task |-> t, at |-> "register", from |-> "died"]}
         \/ /\ fixAlive # {} /\ ~applyTasks[t].so /\ QueuedJobs(t)' = QueuedJobs(t) \cup {"unload"}
            /\ BinderOf(t)' \subseteq BinderOf(t)
         \/ /\ ~(fixAlive # {} /\ applyTasks[t].so) /\ QueuedJobs(t)' = QueuedJobs(t) \cup {"switch"}
            /\ BinderOf(t)' \subseteq BinderOf(t)
  <2>1. TaskTypes /\ QueueTypes /\ BinderTypes
    BY <1>4 DEF FixTypes
  <2> QED BY <1>2, <1>4, <1>5, <2>1, HandlePatchDeployedFacts
<1>10. /\ applyTasks'[t].type = applyTasks[t].type /\ applyTasks'[t].so = applyTasks[t].so
       /\ applyTasks'[t].listed = applyTasks[t].listed
       /\ applyTasks'[t].running => fixAlive # {}
  BY <1>4, <1>9 DEF TaskType
<1>11. observers \in [FixTasks -> SUBSET (1..MaxObservers)]
  BY <1>4 DEF FixTypes, ObserverTypes
<1>12. /\ observers' \in [FixTasks -> SUBSET (1..MaxObservers)]
       /\ \A u \in FixTasks \ {t} : observers'[u] = observers[u]
  <2>1. CASE fixAlive # {} /\ applyTasks[t].so
    BY <1>3, <1>11, <2>1
  <2>2. CASE ~(fixAlive # {} /\ applyTasks[t].so)
    <3>1. PICK left \in SUBSET (1..MaxObservers) : left = observers[t] \ {registered[t]}
      BY <1>11
    <3>2. observers' = [observers EXCEPT ![t] = left]
      BY <1>3, <2>2, <3>1 DEF Unregister
    <3> QED BY <1>11, <3>2
  <2> QED BY <2>1, <2>2
<1>13. ObserverTypes'
  BY <1>2, <1>4, <1>12 DEF FixTypes, ObserverTypes
<1>14. FixTypes'
  BY <1>2, <1>4, <1>8, <1>9, <1>13, TypesStay DEF FixTypes
<1>15. \A u : SameAsked(u) /\ SameRounds(u) /\ achieved'[u] = achieved[u] /\ diedCalls'[u] = diedCalls[u]
  BY <1>2, AskedStays, RoundsStay
<1>16. \A u \in FixTasks \ {t} : Same(u)
  BY <1>9, <1>12, <1>15 DEF Same, SameWait
<1>17. t \in bereaved' /\ t \in Excused'
  BY <1>6, <1>8 DEF Excused
<1>18. DeathFits(t)'
  <2> DEFINE M == {[task |-> t, at |-> "register", from |-> "died"]}
  <2>1. /\ BinderOf(t)' \subseteq BinderOf(t) \cup M
        /\ \A d \in M : /\ d.from = "died" => t \in bereaved'
                        /\ d.at = "handle" => applyTasks[t].type = "apply"
    BY <1>6, <1>9, <1>17
  <2> HIDE DEF M
  <2> QED BY <1>8, <1>10, <1>17, <2>1, InvFacts, DeathStays DEF Onward
<1>19. SwitchFits(t)
  BY <1>9, <1>10, <1>15 DEF SwitchFits, Switching, SameQueue, SameAsked
<1> DEFINE N == {"switch"} \cup {job \in {"unload"} : ~applyTasks[t].so}
<1>20. \A job \in N : job # "deploy" /\ MayDo(applyTasks[t].type, achieved'[t], job)
  BY <1>6, <1>7, <1>15 DEF MayDo, Needs
<1>21. "unload" \in N => ~applyTasks[t].so
  OBVIOUS
<1>22. QueuedJobs(t)' \subseteq QueuedJobs(t) \cup N
  BY <1>9 DEF SameQueue
<1>23. QueuedJobs(t)' \cap Notifications \subseteq QueuedJobs(t) \/ fixAlive # {}
  BY <1>9 DEF SameQueue, Notifications
<1>24. /\ RoundJobs(t)' = RoundJobs(t)
       /\ \A i \in RoundsOf(t)' : i \in RoundsOf(t) /\ rounds'[i] = rounds[i]
       /\ AskedJobs(t)' = AskedJobs(t)
       /\ "deploy" \in AskedJobs(t)' => asked'[<<"deploy", t>>] = asked[<<"deploy", t>>]
  BY <1>15, RoundsKept DEF SameAsked
<1> HIDE DEF N
<1> QED
  BY <1>6, <1>8, <1>9, <1>10, <1>14, <1>15, <1>16, <1>17, <1>18, <1>19, <1>20, <1>21, <1>22, <1>23, <1>24,
     TaskMoves

-----------------------------------------------------------------------------
(* The processes of the bundle. *)

LEMMA ProcessStartsStep ==
    ASSUME FixInv, NEW p \in FixProcesses, ProcessStarts(p)
    PROVE  FixStep
<1>1. /\ p \notin fixAlive \cup fixDead /\ fixAlive' = fixAlive \cup {p}
      /\ UNCHANGED <<fixTaskVars, achieved, handlerVars, asked, rounds, observerVars, binder,
                     fixDead, bereaved, unanswered, splits>>
  BY DEF ProcessStarts
<1>2. FixTypes
  BY DEF FixInv
<1>3. ProcessTypes' /\ Onward
  BY <1>1, <1>2 DEF FixTypes, ProcessTypes, Onward
<1>4. RoundTypes'
  <2>1. \A i \in DOMAIN rounds : ~RoundOver(rounds[i], fixAlive')
    BY <1>1, <1>2 DEF FixTypes, RoundTypes, RoundOver
  <2> QED BY <1>1, <1>2, <2>1 DEF FixTypes, RoundTypes, RoundOver
<1>5. FixTypes'
  BY <1>1, <1>2, <1>3, <1>4, TypesStay DEF FixTypes
<1>6. \A u \in FixTasks : Same(u)
  BY <1>1, QueueStays, AskedStays, RoundsStay, WaitStays DEF Same, SameTask, fixTaskVars, handlerVars
<1> QED BY <1>3, <1>5, <1>6, AllSame

\* Every listed task is bereaved, and rounds that nobody will answer are gone.
LEMMA FixProcessDiesStep ==
    ASSUME FixInv, NEW p \in FixProcesses, FixProcessDies(p)
    PROVE  FixStep
<1>1. /\ p \in fixAlive /\ fixAlive' = fixAlive \ {p} /\ fixDead' = fixDead \cup {p}
      /\ obituaries' = obituaries + 1
      /\ bereaved' = bereaved \cup {t \in FixTasks : applyTasks[t].listed}
      /\ rounds' = [i \in {j \in DOMAIN rounds : ~RoundOver(rounds[j], fixAlive')} |-> rounds[i]]
      /\ UNCHANGED <<fixTaskVars, achieved, handlerVars, asked, observers, registered, diedCalls,
                     binder, unanswered, splits>>
  BY DEF FixProcessDies
<1>2. FixTypes
  BY DEF FixInv
<1>3. /\ DOMAIN rounds' = {j \in DOMAIN rounds : ~RoundOver(rounds[j], fixAlive')}
      /\ \A i \in DOMAIN rounds' : rounds'[i] = rounds[i]
  BY <1>1
<1>4. RoundTypes'
  <2>1. DOMAIN rounds' \subseteq DOMAIN rounds
    BY <1>3
  <2>2. rounds \in [DOMAIN rounds -> RoundType] /\ DOMAIN rounds \subseteq 1..MaxRounds
    BY <1>2 DEF FixTypes, RoundTypes
  <2>3. \A i \in DOMAIN rounds' : rounds'[i] \in RoundType
    BY <1>3, <2>1, <2>2
  <2>4. rounds' \in [DOMAIN rounds' -> RoundType]
    <3>1. rounds' = [i \in DOMAIN rounds' |-> rounds'[i]]
      BY <1>1
    <3> QED BY <2>3, <3>1
  <2>5. \A i \in DOMAIN rounds' : ~RoundOver(rounds'[i], fixAlive')
    BY <1>3
  <2> QED BY <2>1, <2>2, <2>4, <2>5 DEF RoundTypes, RoundOver
<1>5. ProcessTypes' /\ ObserverTypes'
  BY <1>1, <1>2 DEF FixTypes, ProcessTypes, ObserverTypes
<1>6. FixTypes'
  BY <1>1, <1>2, <1>4, <1>5, TypesStay DEF FixTypes
<1>7. ASSUME NEW t \in FixTasks PROVE TaskFits(t)' /\ SwitchFits(t)
  <2>1. SameTask(t) /\ SameQueue(t) /\ SameAsked(t) /\ achieved'[t] = achieved[t]
    BY <1>1, QueueStays, AskedStays DEF SameTask, fixTaskVars, handlerVars
  <2>2. BinderOf(t)' = BinderOf(t) /\ observers'[t] = observers[t] /\ diedCalls'[t] = diedCalls[t]
    BY <1>1, BinderStays
  <2>3. Waits(t)' <=> Waits(t)
    BY <2>2, WaitsFacts
  <2>4. RoundJobs(t)' \subseteq RoundJobs(t)
    <3>1. RoundsOf(t)' \subseteq RoundsOf(t) /\ \A i \in RoundsOf(t)' : rounds'[i] = rounds[i]
      BY <1>3 DEF RoundsOf
    <3>2. RoundJobs(t)' = {rounds'[i].kind : i \in RoundsOf(t)'}
      BY DEF RoundJobs
    <3> QED BY <3>1, <3>2 DEF RoundJobs
  <2>5. Jobs(t)' \subseteq Jobs(t)
    BY <2>1, <2>3, <2>4 DEF Jobs, SameTask, SameQueue, SameAsked
  <2>6. StagesFit(t)'
    BY <2>1, <2>5, InvFacts DEF StagesFit, SameTask
  <2>7. LiveFits(t)'
    BY <1>1, <2>1 DEF LiveFits, SameTask, Excused
  <2>8. DeathFits(t)'
    BY <1>1, <2>1, <2>2, InvFacts, DeathSame DEF SameTask, SameWait
  <2>9. DeployFits(t)'
    BY <2>1, <2>4, InvFacts, DeployStays DEF SameTask, SameQueue, SameAsked
  <2>10. NewFits(t)'
    BY <2>1, InvFacts DEF NewFits, SameTask
  <2> QED BY <2>1, <2>6, <2>7, <2>8, <2>9, <2>10, SameSwitch DEF TaskFits, SameTask
<1> QED BY <1>6, <1>7 DEF FixStep, FixInv

-----------------------------------------------------------------------------
(* The invariant holds. *)

LEMMA FixInvInit ==
    ASSUME QuickFixInit
    PROVE  FixInv
<1>1. FixTypes
  <2>1. NewTask \in TaskType
    BY DEF NewTask, TaskType
  <2>2. TaskTypes /\ AchievedTypes
    BY <2>1 DEF QuickFixInit, TaskTypes, AchievedTypes
  <2>3. QueueTypes
    BY DEF QuickFixInit, QueueTypes
  <2>4. AskedTypes /\ BinderTypes
    BY DEF QuickFixInit, AskedTypes, BinderTypes, EmptyBag, SetToBag, IsABag, BagToSet
  <2>5. RoundTypes
    BY DEF QuickFixInit, RoundTypes
  <2>6. ObserverTypes /\ ProcessTypes
    BY FixConstants DEF QuickFixInit, ObserverTypes, ProcessTypes
  <2> QED BY <2>2, <2>3, <2>4, <2>5, <2>6 DEF FixTypes
<1>2. BagToSet(asked) = {} /\ BagToSet(binder) = {} /\ fixQueue = <<>> /\ rounds = <<>>
  BY DEF QuickFixInit, EmptyBag, SetToBag, BagToSet
<1>3. ASSUME NEW t \in FixTasks PROVE TaskFits(t)
  <2>1. QueuedJobs(t) = {} /\ AskedJobs(t) = {} /\ RoundsOf(t) = {} /\ RoundJobs(t) = {}
    BY <1>2 DEF QueuedJobs, InQueue, AskedJobs, BagIn, RoundsOf, RoundJobs
  <2>2. /\ applyTasks[t] = NewTask /\ achieved[t] = {} /\ reports[t] = {}
        /\ observers[t] = {} /\ diedCalls[t] = 0
    BY DEF QuickFixInit
  <2>3. ~Waits(t)
    BY <1>2, <2>2 DEF Waits, OnBinder
  <2>4. Jobs(t) = {}
    BY <2>1, <2>2, <2>3 DEF Jobs
  <2>5. StagesFit(t) /\ NewFits(t)
    BY <2>2, <2>4 DEF StagesFit, NewFits, NewTask
  <2>6. LiveFits(t)
    BY <2>2 DEF LiveFits, NewTask
  <2>7. DeathFits(t)
    BY <1>2, <2>2 DEF DeathFits
  <2>8. DeployFits(t)
    BY <1>2, <2>1 DEF DeployFits, Once
  <2> QED BY <2>5, <2>6, <2>7, <2>8 DEF TaskFits
<1> QED BY <1>1, <1>3 DEF FixInv

LEMMA FixInvStep ==
    ASSUME FixInv, QuickFixNext
    PROVE  FixStep
<1>1. ASSUME NEW t \in FixTasks, BundleManagerAnswers(t) PROVE FixStep
  BY <1>1, OnPatchFailedStep, OnPatchDeployedStep, OnPatchSwitchedStep, OnPatchDeletedStep
     DEF BundleManagerAnswers
<1>2. ASSUME RoundStep PROVE FixStep
  BY <1>2, AddRecordIdStep, NotifyProcessStep, ProcessAnswersStep, RoundDoneStep DEF RoundStep
<1>3. ASSUME BinderStep PROVE FixStep
  BY <1>3, RegAppStateObserverStep, HandleAfterDeathStep DEF BinderStep
<1> QED
  BY <1>1, <1>2, <1>3, ApplyQuickFixStep, CheckTaskRunningStateStep, RevokeQuickFixStep, TimeOutStep,
     OnProcessDiedStep, RunHandlerStep, HandleOnProcessDiedStep, ProcessStartsStep, FixProcessDiesStep
     DEF QuickFixNext

LEMMA FixInvStutter ==
    ASSUME FixInv, UNCHANGED fixVars
    PROVE  FixStep
<1>1. /\ UNCHANGED <<fixTaskVars, achieved, handlerVars, asked, rounds, observerVars, binder, processVars>>
  BY DEF fixVars
<1>2. FixTypes
  BY DEF FixInv
<1>3. Onward /\ UNCHANGED fixAlive
  BY <1>1, <1>2, TypesStay
<1>4. FixTypes'
  BY <1>1, <1>2, <1>3, TypesStay DEF FixTypes
<1>5. \A u \in FixTasks : Same(u)
  BY <1>1, QueueStays, AskedStays, RoundsStay, WaitStays DEF Same, SameTask, fixTaskVars, handlerVars
<1> QED BY <1>3, <1>4, <1>5, AllSame

\* The invariant holds in every state: QuickFixInit establishes it and every action of the
\* service, of the handler, of the bundle manager and of appmgr preserves it.
THEOREM FixInvHolds == QuickFixSpec => []FixInv
<1>1. QuickFixInit => FixInv
  BY FixInvInit
<1>2. FixInv /\ [QuickFixNext]_fixVars => FixInv'
  BY FixInvStep, FixInvStutter DEF FixStep
<1> QED BY <1>1, <1>2, PTL DEF QuickFixSpec

-----------------------------------------------------------------------------
(* The processes that ran when a task learned what its fix holds. *)

\* They live or are dead, and none lives once the switch of a fix with native libraries is
\* decided.
RanFits(t) ==
    /\ fixRan[t] \subseteq fixAlive \cup fixDead
    /\ applyTasks[t].so /\ Switching(t) => fixRan[t] \cap fixAlive = {}

RanInv == fixRan \in [FixTasks -> SUBSET FixProcesses] /\ \A t \in FixTasks : RanFits(t)

\* Nobody comes back from the dead.
NoReturn ==
    /\ fixAlive' \cap (fixAlive \cup fixDead) \subseteq fixAlive
    /\ fixAlive \cup fixDead \subseteq fixAlive' \cup fixDead'

LEMMA NoReturnHolds ==
    ASSUME QuickFixNext
    PROVE  NoReturn
<1>1. ASSUME NEW p \in FixProcesses, ProcessStarts(p) \/ FixProcessDies(p) PROVE NoReturn
  BY <1>1 DEF ProcessStarts, FixProcessDies, NoReturn
<1>2. ASSUME NEW t \in FixTasks,
             \/ ApplyQuickFix(t) \/ CheckTaskRunningState(t) \/ RevokeQuickFix(t)
             \/ TimeOut(t) \/ OnProcessDied(t) \/ BundleManagerAnswers(t)
      PROVE  UNCHANGED <<fixAlive, fixDead>>
  BY <1>2 DEF ApplyQuickFix, CheckTaskRunningState, RevokeQuickFix, TimeOut, OnProcessDied,
              BundleManagerAnswers, OnPatchFailed, OnPatchDeployed, OnPatchSwitched, OnPatchDeleted,
              processVars
<1>3. ASSUME RunHandler \/ RoundStep \/ BinderStep \/ HandleOnProcessDied
      PROVE  UNCHANGED <<fixAlive, fixDead>>
  BY <1>3 DEF RunHandler, RoundStep, AddRecordId, NotifyProcess, ProcessAnswers, RoundDone, BinderStep,
              RegAppStateObserver, HandleAfterDeath, HandleOnProcessDied, processVars
<1>4. UNCHANGED <<fixAlive, fixDead>> => NoReturn
  BY DEF NoReturn
<1> QED BY <1>1, <1>2, <1>3, <1>4 DEF QuickFixNext

\* A task learns what its fix holds before its switch is decided.
LEMMA RanMoves ==
    ASSUME FixInv, QuickFixNext, fixRan \in [FixTasks -> SUBSET FixProcesses]
    PROVE  /\ fixRan' \in [FixTasks -> SUBSET FixProcesses]
           /\ \A t \in FixTasks : fixRan'[t] = fixRan[t] \/ (fixRan'[t] = fixAlive /\ ~Switching(t))
<1> DEFINE Moves == /\ fixRan' \in [FixTasks -> SUBSET FixProcesses]
                    /\ \A t \in FixTasks :
                         fixRan'[t] = fixRan[t] \/ (fixRan'[t] = fixAlive /\ ~Switching(t))
<1>1. UNCHANGED fixRan => Moves
  OBVIOUS
<1>2. ASSUME NEW t \in FixTasks, ~Switching(t), fixRan' = [fixRan EXCEPT ![t] = fixAlive] PROVE Moves
  BY <1>2, InvFacts DEF ProcessTypes
<1> HIDE DEF Moves
<1>3. ASSUME NEW t \in FixTasks, RevokeQuickFix(t) PROVE Moves
  <2>1. applyTasks[t].type \in NotMade /\ fixRan' = [fixRan EXCEPT ![t] = fixAlive]
    BY <1>3 DEF RevokeQuickFix, NotMade
  <2>2. Jobs(t) = {}
    BY <2>1, InvFacts DEF StagesFit, MayDo
  <2>3. ~Switching(t)
    BY <2>2 DEF Jobs, Switching
  <2> QED BY <1>2, <2>1, <2>3
<1>4. ASSUME NEW t \in FixTasks, OnPatchDeployed(t) PROVE Moves
  <2>1. Answered("deploy", t) /\ fixRan' = [fixRan EXCEPT ![t] = fixAlive]
    BY <1>4 DEF OnPatchDeployed
  <2>2. "deploy" \in AskedJobs(t)
    BY <2>1 DEF Answered, AskedJobs, Requests
  <2>3. applyTasks[t].type = "apply" /\ "deploy" \notin achieved[t]
    BY <2>2, JobMade, InvFacts DEF MayDo, DeployFits
  <2>4. ~MayDo(applyTasks[t].type, achieved[t], "switch")
    BY <2>3 DEF MayDo, Needs
  <2>5. ~Switching(t)
    BY <2>4, InvFacts DEF StagesFit, Jobs, Switching
  <2> QED BY <1>2, <2>1, <2>5
<1>5. ASSUME NEW t \in FixTasks,
             \/ ApplyQuickFix(t) \/ CheckTaskRunningState(t) \/ TimeOut(t) \/ OnProcessDied(t)
             \/ \E request \in Requests : OnPatchFailed(request, t)
             \/ OnPatchSwitched(t) \/ OnPatchDeleted(t)
      PROVE  UNCHANGED fixRan
  BY <1>5 DEF ApplyQuickFix, CheckTaskRunningState, TimeOut, OnProcessDied, OnPatchFailed,
              OnPatchSwitched, OnPatchDeleted
<1>6. ASSUME RunHandler \/ RoundStep \/ BinderStep \/ HandleOnProcessDied
      PROVE  UNCHANGED fixRan
  BY <1>6 DEF RunHandler, RoundStep, AddRecordId, NotifyProcess, ProcessAnswers, RoundDone, BinderStep,
              RegAppStateObserver, HandleAfterDeath, HandleOnProcessDied
<1>7. ASSUME NEW p \in FixProcesses, ProcessStarts(p) \/ FixProcessDies(p) PROVE UNCHANGED fixRan
  BY <1>7 DEF ProcessStarts, FixProcessDies
<1>8. Moves
  BY <1>1, <1>3, <1>4, <1>5, <1>6, <1>7 DEF QuickFixNext, BundleManagerAnswers
<1> QED BY <1>8 DEF Moves

LEMMA RanStep ==
    ASSUME FixInv, RanInv, [QuickFixNext]_fixVars
    PROVE  RanInv'
<1>1. CASE UNCHANGED fixVars
  <2>1. UNCHANGED <<fixRan, applyTasks, fixAlive, fixDead, fixQueue, asked, achieved>>
    BY <1>1 DEF fixVars, fixTaskVars, handlerVars, processVars
  <2>2. \A t : Switching(t)' <=> Switching(t)
    BY <2>1, QueueStays, AskedStays DEF Switching, SameQueue, SameAsked
  <2> QED BY <2>1, <2>2 DEF RanInv, RanFits
<1>2. CASE QuickFixNext
  <2>1. /\ fixRan' \in [FixTasks -> SUBSET FixProcesses]
        /\ \A t \in FixTasks : fixRan'[t] = fixRan[t] \/ (fixRan'[t] = fixAlive /\ ~Switching(t))
    BY <1>2, RanMoves DEF RanInv
  <2>2. NoReturn /\ \A t \in FixTasks : SwitchFits(t)
    BY <1>2, NoReturnHolds, FixInvStep DEF FixStep
  <2>3. ASSUME NEW t \in FixTasks PROVE RanFits(t)'
    <3>1. RanFits(t) /\ SwitchFits(t)
      BY <2>2 DEF RanInv
    <3>2. CASE fixRan'[t] = fixRan[t]
      BY <2>2, <3>1, <3>2 DEF RanFits, SwitchFits, NoReturn
    <3>3. CASE fixRan'[t] = fixAlive /\ ~Switching(t)
      BY <2>2, <3>1, <3>3 DEF RanFits, SwitchFits, NoReturn
    <3> QED BY <2>1, <3>2, <3>3
  <2> QED BY <2>1, <2>3 DEF RanInv
<1> QED BY <1>1, <1>2

LEMMA RanInvHolds == QuickFixSpec => [](FixInv /\ RanInv)
<1>1. QuickFixInit => RanInv
  BY FixInvInit DEF QuickFixInit, RanInv, RanFits, Switching, QueuedJobs, InQueue, AskedJobs, BagIn,
                    EmptyBag, SetToBag, BagToSet, NewTask
<1>2. QuickFixInit => FixInv
  BY FixInvInit
<1>3. FixInv /\ [QuickFixNext]_fixVars => FixInv'
  BY FixInvStep, FixInvStutter DEF FixStep
<1>4. FixInv /\ RanInv /\ [QuickFixNext]_fixVars => RanInv'
  BY RanStep
<1> QED BY <1>1, <1>2, <1>3, <1>4, PTL DEF QuickFixSpec

-----------------------------------------------------------------------------
(* The properties that the runs check. *)

\* Every variable has its type, for every number of tasks, processes, observers and rounds.
THEOREM QuickFixTypesHold == QuickFixSpec => []QuickFixTypes
<1>1. FixInv /\ RanInv => QuickFixTypes
  BY DEF FixInv, FixTypes, TaskTypes, AchievedTypes, QueueTypes, AskedTypes, RoundTypes, ObserverTypes,
         BinderTypes, ProcessTypes, QuickFixTypes, TaskType, Steps, Results, RanInv
<1> QED BY <1>1, RanInvHolds, PTL

\* A listed task always has a step, a request, a notification, an observer or a timer left,
\* unless a process died or a failed notification took the callback with it: every answer
\* removes every timer (RemoveTimeoutTask), so the proof shows that what is left is never a
\* timer alone.
THEOREM FixAccountedHolds == QuickFixSpec => []FixAccounted
<1>1. ASSUME FixInv, NEW t \in FixTasks, applyTasks[t].listed, t \notin Excused PROVE HasWork(t)
  <2>1. Live(t)
    BY <1>1, InvFacts DEF LiveFits
  <2>2. QueueTypes
    BY <1>1, InvFacts
  <2>3. CASE QueuedJobs(t) # {} \/ AskedJobs(t) # {}
    BY <2>2, <2>3, JobsFacts DEF HasWork
  <2>4. CASE Waits(t)
    BY <2>4 DEF HasWork, Waits
  <2>5. CASE \E i \in RoundsOf(t) : ~Spent(rounds[i])
    BY <2>5 DEF HasWork
  <2> QED BY <2>1, <2>3, <2>4, <2>5 DEF Live
<1>2. FixInv => FixAccounted
  BY <1>1 DEF FixAccounted, Excused
<1> QED BY <1>2, FixInvHolds, PTL

\* Success is published (NotifyApplyStatus) only for a task all of whose requests the bundle
\* manager has carried out, however many chains of callbacks the task has.
THEOREM FixOkCompleteHolds == QuickFixSpec => []FixOkComplete
<1>1. ASSUME FixInv, NEW t \in FixTasks, "ok" \in reports[t]
      PROVE  (IF applyTasks[t].type = "apply" THEN Requests ELSE {"switch", "delete"}) \subseteq achieved[t]
  <2>1. "ok" \in Jobs(t)
    BY <1>1 DEF Jobs
  <2>2. MayDo(applyTasks[t].type, achieved[t], "ok")
    BY <1>1, <2>1, InvFacts DEF StagesFit
  <2> QED BY <2>2 DEF MayDo, Needs, Requests
<1>2. FixInv => FixOkComplete
  BY <1>1 DEF FixOkComplete
<1> QED BY <1>2, FixInvHolds, PTL

\* No process that ran when a task learned that its fix holds native libraries is alive once
\* the switch of the fix is asked for, whatever starts or dies meanwhile (OnPatchDeployed,
\* HandlePatchDeployed, OnProcessDied, the revocation).
THEOREM FixOldProcessesGoneHolds == QuickFixSpec => []FixOldProcessesGone
<1>1. ASSUME NEW t, BagIn(<<"switch", t>>, asked) \/ "switch" \in achieved[t] PROVE Switching(t)
  BY <1>1 DEF Switching, AskedJobs, Requests
<1>2. RanInv => FixOldProcessesGone
  BY <1>1 DEF RanInv, RanFits, FixOldProcessesGone
<1> QED BY <1>2, RanInvHolds, PTL
=============================================================================
