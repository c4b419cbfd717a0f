-------------------------- MODULE AppStartupProofs --------------------------
(***************************************************************************)
(* The startup framework begins tasks in the order of their dependencies,  *)
(* tells each listener once and counts correctly, for any tasks,           *)
(* dependencies and number of runs, whatever Sort lets through.            *)
(*                                                                         *)
(* The counters of a dispatcher say nothing by themselves of what has been *)
(* done: the invariant relates them to two sets of tasks for each run, the *)
(* tasks whose children have been notified and those whose Dispatch has    *)
(* returned (Progress).  A dispatch may happen within another, so that the *)
(* two differ by the calls under way.  A task that a run waits for is      *)
(* pending in the run and waits in one place: to be started by a loop, for *)
(* its completion, or to be dispatched (PendingOnce); otherwise it could   *)
(* be counted twice.                                                       *)
(*                                                                         *)
(* The closure of the tasks is an iteration, whose result is found by      *)
(* induction: a set of numbers that is not empty has a least element       *)
(* (LeastNumber), a growing iteration in a finite set stops within as many *)
(* steps as the set has elements (IterationStops).  What Sort computes is  *)
(* left to TLC.                                                            *)
(***************************************************************************)
EXTENDS AppStartup, FiniteSetTheorems, SequenceTheorems, TLAPS

-----------------------------------------------------------------------------
(* Induction over numbers, stated with sets.                               *)

\* A set of natural numbers that is not empty has a least element: the intervals below its
\* elements are finite sets, ordered by inclusion.
LEMMA LeastNumber ==
    ASSUME NEW M, M \subseteq Nat, M # {}
    PROVE  \E m \in M : \A k \in M : m <= k
<1> DEFINE T == {1..m : m \in M}
<1>1. T \subseteq FiniteSubsetsOf(Nat)
  <2>1. \A m \in Nat : 1..m \subseteq Nat /\ IsFiniteSet(1..m)
    BY FS_Interval
  <2> QED BY <2>1 DEF FiniteSubsetsOf
<1>2. T # {} OBVIOUS
<1>3. IsWellFoundedOn(StrictSubsetOrdering(Nat), FiniteSubsetsOf(Nat))
  BY FS_StrictSubsetOrderingWellFounded
<1>4. PICK x \in T : \A y \in T : ~(<<y, x>> \in StrictSubsetOrdering(Nat))
  <2> HIDE DEF T
  <2> QED BY <1>1, <1>2, <1>3, WFMin
<1>5. PICK m \in M : x = 1..m BY <1>4
<1>6. ASSUME NEW k \in M, ~(m <= k) PROVE FALSE
  <2>1. k \in Nat /\ m \in Nat /\ k < m BY <1>6
  <2>2. 1..k \subseteq 1..m /\ m \in 1..m /\ m \notin 1..k BY <2>1
  <2>3. 1..k # 1..m BY <2>2
  <2>4. <<1..k, 1..m>> \in (SUBSET Nat) \X (SUBSET Nat) BY <2>1
  <2>5. <<1..k, 1..m>> \in StrictSubsetOrdering(Nat) BY <2>2, <2>3, <2>4 DEF StrictSubsetOrdering
  <2> QED BY <1>4, <1>5, <2>5
<1> QED BY <1>6

\* The iteration of a function G from x, as the recursive functions of the model write it.
IsIteration(f, G, x, N) == f = [n \in 0..N |-> IF n = 0 THEN x ELSE G[f[n - 1]]]

\* A function on the subsets of S that never removes anything.
IsInflation(G, S) ==
    G \in [SUBSET S -> SUBSET S] /\ \A X \in SUBSET S : X \subseteq G[X]

LEMMA IterationExists ==
    ASSUME NEW S, NEW G \in [S -> S], NEW x \in S, NEW N \in Nat
    PROVE  \E f \in [0..N -> S] : IsIteration(f, G, x, N)
<1> DEFINE M == {k \in Nat : ~\E f \in [0..k -> S] : IsIteration(f, G, x, k)}
<1> SUFFICES ASSUME M # {} PROVE FALSE OBVIOUS
<1>1. PICK m \in M : \A k \in M : m <= k
  <2>1. M \subseteq Nat OBVIOUS
  <2> HIDE DEF M
  <2> QED BY <2>1, LeastNumber
<1>2. m # 0
  <2>1. [n \in 0..0 |-> x] \in [0..0 -> S] OBVIOUS
  <2>2. IsIteration([n \in 0..0 |-> x], G, x, 0) BY DEF IsIteration
  <2> QED BY <2>1, <2>2
<1>3. m \in Nat /\ m - 1 \in Nat BY <1>2
<1>4. m - 1 \notin M BY <1>1, <1>3
<1>5. PICK f \in [0..(m - 1) -> S] : IsIteration(f, G, x, m - 1) BY <1>3, <1>4
<1>6. PICK g : g = [n \in 0..m |-> IF n = m THEN G[f[m - 1]] ELSE f[n]] OBVIOUS
<1>7. g \in [0..m -> S] BY <1>3, <1>5, <1>6
<1>8. \A n \in 0..m : g[n] = IF n = 0 THEN x ELSE G[g[n - 1]]
  <2> TAKE n \in 0..m
  <2>0. \A i \in 0..(m - 1) : f[i] = IF i = 0 THEN x ELSE G[f[i - 1]]
    BY <1>5 DEF IsIteration
  <2>1. CASE n = m
    <3>1. g[n - 1] = f[m - 1] /\ g[n] = G[f[m - 1]] BY <1>3, <1>6, <2>1
    <3> QED BY <3>1, <1>2, <2>1
  <2>2. CASE n # m
    <3>1. n \in 0..(m - 1) /\ g[n] = f[n] BY <1>3, <1>6, <2>2
    <3>2. n # 0 => g[n - 1] = f[n - 1] BY <1>3, <1>6, <2>2
    <3> QED BY <3>1, <3>2, <2>0
  <2> QED BY <2>1, <2>2
<1>9. IsIteration(g, G, x, m) BY <1>6, <1>8 DEF IsIteration
<1> QED BY <1>7, <1>9

\* As many steps as a finite set has elements reach a fixed point of a function on its
\* subsets that never removes anything: before, every step adds an element.
LEMMA IterationStops ==
    ASSUME NEW S, IsFiniteSet(S), NEW G, IsInflation(G, S), NEW N, N = Cardinality(S),
           NEW x, NEW f, f \in [0..N -> SUBSET S], IsIteration(f, G, x, N)
    PROVE  G[f[N]] = f[N]
<1>1. G \in [SUBSET S -> SUBSET S] /\ \A X \in SUBSET S : X \subseteq G[X] BY DEF IsInflation
<1>2. N \in Nat BY FS_CardinalityType
<1> USE <1>1, <1>2
<1>3. \A n \in 0..N : f[n] = IF n = 0 THEN x ELSE G[f[n - 1]] BY DEF IsIteration
<1>4. \A n \in 1..N : n \in 0..N /\ n - 1 \in 0..N /\ n # 0 OBVIOUS
<1>5. \A n \in 1..N : f[n] = G[f[n - 1]] BY <1>3, <1>4
<1> SUFFICES ASSUME G[f[N]] # f[N] PROVE FALSE OBVIOUS
<1>6. \A n \in 0..N : G[f[n]] # f[n]
  <2> DEFINE M == {k \in 0..N : G[f[N - k]] = f[N - k]}
  <2> SUFFICES ASSUME M # {} PROVE FALSE
    <3>1. \A n \in 0..N : N - n \in 0..N /\ N - (N - n) = n OBVIOUS
    <3> QED BY <3>1
  <2>1. PICK m \in M : \A k \in M : m <= k
    <3>1. M \subseteq Nat OBVIOUS
    <3> HIDE DEF M
    <3> QED BY <3>1, LeastNumber
  <2>2. m # 0 /\ m \in 0..N /\ N - m \in 0..N BY <2>1
  <2>3. m - 1 \in 0..N /\ N - m + 1 \in 1..N /\ N - (m - 1) = N - m + 1
        /\ (N - m + 1) - 1 = N - m
    BY <2>2
  <2>4. G[f[N - m]] = f[N - m] BY <2>1
  <2>5. f[N - m + 1] = f[N - m] BY <1>5, <2>3, <2>4
  <2>6. G[f[N - (m - 1)]] = f[N - (m - 1)] BY <2>3, <2>4, <2>5
  <2>7. m - 1 \in M BY <2>3, <2>6
  <2> QED BY <2>1, <2>2, <2>7
<1>7. \A n \in 0..N : n <= Cardinality(f[n])
  <2> DEFINE M == {k \in 0..N : ~(k <= Cardinality(f[k]))}
  <2> SUFFICES ASSUME M # {} PROVE FALSE OBVIOUS
  <2>1. PICK m \in M : \A k \in M : m <= k
    <3>1. M \subseteq Nat OBVIOUS
    <3> HIDE DEF M
    <3> QED BY <3>1, LeastNumber
  <2>2. m \in 0..N /\ ~(m <= Cardinality(f[m])) BY <2>1
  <2>3. \A n \in 0..N : IsFiniteSet(f[n]) /\ Cardinality(f[n]) \in Nat
    BY FS_Subset, FS_CardinalityType
  <2>4. m # 0 BY <2>2, <2>3
  <2>5. m - 1 \in 0..N /\ m \in 1..N /\ m - 1 \notin M BY <2>1, <2>2, <2>4
  <2>6. m - 1 <= Cardinality(f[m - 1]) BY <2>5
  <2>7. f[m - 1] \subseteq f[m] /\ f[m - 1] # f[m]
    <3>1. f[m] = G[f[m - 1]] BY <1>5, <2>5
    <3>2. G[f[m - 1]] # f[m - 1] BY <1>6, <2>5
    <3>3. f[m - 1] \in SUBSET S BY <2>5
    <3> QED BY <3>1, <3>2, <3>3
  <2>8. Cardinality(f[m - 1]) < Cardinality(f[m])
    <3>1. IsFiniteSet(f[m]) /\ Cardinality(f[m]) \in Nat /\ Cardinality(f[m - 1]) \in Nat
      BY <2>2, <2>3, <2>5
    <3>2. Cardinality(f[m - 1]) <= Cardinality(f[m])
          /\ (Cardinality(f[m - 1]) = Cardinality(f[m]) => f[m - 1] = f[m])
      BY <3>1, <2>7, FS_Subset
    <3> QED BY <3>1, <3>2, <2>7
  <2> QED BY <2>2, <2>3, <2>5, <2>6, <2>8
<1>8. f[N] = S
  <2>0. N \in 0..N OBVIOUS
  <2>1. f[N] \in SUBSET S /\ N <= Cardinality(f[N]) BY <1>7, <2>0
  <2>2. Cardinality(f[N]) \in Nat /\ Cardinality(f[N]) <= Cardinality(S)
        /\ (Cardinality(f[N]) = Cardinality(S) => f[N] = S)
    BY <2>1, FS_Subset, FS_CardinalityType
  <2> QED BY <2>1, <2>2
<1>9. G[S] = S
  <2>1. S \in SUBSET S OBVIOUS
  <2>2. S \subseteq G[S] /\ G[S] \in SUBSET S BY <2>1
  <2> QED BY <2>2
<1> QED BY <1>8, <1>9

-----------------------------------------------------------------------------
(* What AddStartupTask computes.                                           *)

\* The tasks to build contain what was asked for and everything they depend on.
LEMMA WithDependenciesCloses ==
    ASSUME deps \in [StartupTasks -> SUBSET StartupTasks], NEW tasks \in SUBSET StartupTasks
    PROVE  /\ WithDependencies(tasks) \in SUBSET StartupTasks
           /\ \A t \in WithDependencies(tasks) : deps[t] \subseteq WithDependencies(tasks)
<1>1. PICK N \in Nat : N = Cardinality(StartupTasks) BY StartupConstants, FS_CardinalityType
<1>2. PICK G : G = [X \in SUBSET StartupTasks |-> X \cup UNION {deps[t] : t \in X}] OBVIOUS
<1>3. G \in [SUBSET StartupTasks -> SUBSET StartupTasks] /\ \A X \in SUBSET StartupTasks : X \subseteq G[X]
  BY <1>2
<1>4. PICK f \in [0..N -> SUBSET StartupTasks] : IsIteration(f, G, tasks, N)
  BY <1>3, IterationExists
<1> DEFINE Reach(g) == g = [n \in 0..N |->
              IF n = 0 THEN tasks ELSE g[n - 1] \cup UNION {deps[t] : t \in g[n - 1]}]
<1>5. \A g \in [0..N -> SUBSET StartupTasks] : \A n \in 0..N :
        n # 0 => G[g[n - 1]] = g[n - 1] \cup UNION {deps[t] : t \in g[n - 1]}
  BY <1>2
<1>6. Reach(f)
  <2>1. f = [n \in 0..N |-> IF n = 0 THEN tasks ELSE G[f[n - 1]]] BY <1>4 DEF IsIteration
  <2>2. f = [n \in 0..N |-> f[n]] BY <1>4
  <2>3. \A n \in 0..N : f[n] = IF n = 0 THEN tasks ELSE f[n - 1] \cup UNION {deps[t] : t \in f[n - 1]}
    BY <2>1, <1>5
  <2> QED BY <2>2, <2>3
<1>7. PICK g : g = CHOOSE h : Reach(h) OBVIOUS
<1>8. Reach(g) BY <1>6, <1>7
<1>9. WithDependencies(tasks) = g[N] BY <1>1, <1>7 DEF WithDependencies
<1>10. \A n \in 0..N : g[n] = IF n = 0 THEN tasks ELSE g[n - 1] \cup UNION {deps[t] : t \in g[n - 1]}
  BY <1>8
<1>11. \A n \in 0..N : g[n] \in SUBSET StartupTasks
  <2> DEFINE M == {k \in 0..N : g[k] \notin SUBSET StartupTasks}
  <2> SUFFICES ASSUME M # {} PROVE FALSE OBVIOUS
  <2>1. PICK m \in M : \A k \in M : m <= k
    <3>1. M \subseteq Nat OBVIOUS
    <3> HIDE DEF M
    <3> QED BY <3>1, LeastNumber
  <2>2. m # 0 BY <1>10
  <2>3. m - 1 \in 0..N /\ m - 1 \notin M BY <2>1, <2>2
  <2>4. g[m - 1] \in SUBSET StartupTasks BY <2>3
  <2>5. g[m] = g[m - 1] \cup UNION {deps[t] : t \in g[m - 1]} BY <1>10, <2>2
  <2>6. g[m] \in SUBSET StartupTasks BY <2>4, <2>5
  <2> QED BY <2>6
<1>12. g \in [0..N -> SUBSET StartupTasks] BY <1>8, <1>11
<1>13. IsIteration(g, G, tasks, N)
  <2>1. g = [n \in 0..N |-> g[n]] BY <1>12
  <2>2. \A n \in 0..N : g[n] = IF n = 0 THEN tasks ELSE G[g[n - 1]] BY <1>5, <1>10, <1>12
  <2> QED BY <2>1, <2>2 DEF IsIteration
<1>14. G[g[N]] = g[N]
  <2>1. IsFiniteSet(StartupTasks) /\ tasks \in SUBSET StartupTasks BY StartupConstants
  <2>2. IsInflation(G, StartupTasks) BY <1>3 DEF IsInflation
  <2> HIDE DEF Reach
  <2> QED BY ONLY <1>1, <1>12, <1>13, <2>1, <2>2, IterationStops
<1>15. N \in 0..N OBVIOUS
<1>16. g[N] \in SUBSET StartupTasks BY <1>11, <1>15
<1>17. g[N] = g[N] \cup UNION {deps[t] : t \in g[N]} BY <1>2, <1>14, <1>16
<1>18. \A t \in g[N] : deps[t] \subseteq g[N] BY <1>17
<1> QED BY <1>9, <1>16, <1>18

-----------------------------------------------------------------------------
(* The invariant.                                                          *)

Outcomes == {"none", "ok", "error", "timeout"}

RunRecords ==
    [kind : {"none", "direct", "auto", "js"}, tasks : SUBSET StartupTasks,
     inDegree : [StartupTasks -> Int], tasksCount : Int, awaitCount : Int,
     listed : BOOLEAN, timer : BOOLEAN, completed : BOOLEAN, awaitCalled : BOOLEAN,
     told : Nat, outcome : Outcomes, launched : Nat, refused : BOOLEAN]

Frames == [run : Runs, task : StartupTasks \cup {NoTask}, todo : SUBSET StartupTasks,
           failed : BOOLEAN]

RunTypes ==
    /\ deps \in [StartupTasks -> SUBSET StartupTasks]
    /\ initialised \in SUBSET StartupTasks
    /\ startupRuns \in [Runs -> RunRecords]
    /\ posted \in SUBSET Runs
    /\ stage \in {0} \cup Runs

CallTypes ==
    /\ taskState \in [StartupTasks -> {"CREATED", "INITIALIZING", "LOST", "INITIALIZED"}]
    /\ callbacks \in [StartupTasks -> Seq(Runs)]
    /\ stack \in Seq(Frames)
    /\ calls \in Seq(Runs \X StartupTasks \X BOOLEAN)

\* A run with a manager; one whose dispatcher has been started; one that may be in the middle
\* of a call: the listener has not been told, or the completed callback has told it.
Managed(run) == run.kind \in {"auto", "js"}
Begun(run) == run.completed \/ run.tasksCount > 0
Live(run) == Begun(run) /\ (run.completed \/ run.told = 0)

\* What competes to tell the listener and to launch the ability.
RunSettled(run) ==
    /\ run.told \in {0, 1}
    /\ Managed(run) => (run.listed <=> run.told = 0)
    /\ Begun(run) => Managed(run)
    /\ run.completed => run.told = 1
    /\ run.timer => Begun(run) /\ run.told = 0
    /\ run.refused => Begun(run) /\ run.told = 1
    /\ Begun(run) =>
          run.launched <= (IF run.awaitCalled THEN 1 ELSE 0) + (IF run.refused THEN 1 ELSE 0)
    /\ ~Begun(run) => run.launched <= 1

RunsSettled ==
    \A r \in Runs :
        /\ RunSettled(startupRuns[r])
        /\ startupRuns[r].outcome = "ok" => startupRuns[r].tasks \subseteq initialised
        /\ \A t \in startupRuns[r].tasks : deps[t] \subseteq startupRuns[r].tasks

\* The calls under way are of one run; only the outermost may be Run, which has not failed.
OneRun(runs, s) ==
    \A i \in 1..Len(s) :
        /\ Live(runs[s[i].run])
        /\ s[i].run = s[1].run
        /\ s[i].task = NoTask => i = 1 /\ ~runs[s[i].run].refused

\* Whoever may still be called has a dispatcher.
WaitersBegun(runs, cb, cl, ps) ==
    /\ \A t \in StartupTasks : \A i \in 1..Len(cb[t]) : Begun(runs[cb[t][i]])
    /\ \A i \in 1..Len(cl) : Begun(runs[cl[i][1]])
    /\ \A r \in ps : Begun(runs[r])

TasksInOrder ==
    /\ \A t \in StartupTasks : callbacks[t] # <<>> <=> taskState[t] = "INITIALIZING"
    /\ \A t \in StartupTasks : taskState[t] = "INITIALIZED" => t \in initialised
    /\ \A i \in 1..Len(calls) : calls[i][3] => calls[i][2] \in initialised
    /\ StartupOrder

\* D: the tasks of the run whose children have been notified; C: those whose Dispatch has
\* returned.
Counts(run, D, C) ==
    IF Begun(run)
    THEN /\ run.inDegree = [c \in StartupTasks |->
                              IF c \in run.tasks THEN Cardinality(deps[c] \ D) ELSE 0]
         /\ run.tasksCount = Cardinality(run.tasks \ C)
         /\ run.awaitCount = Cardinality((run.tasks \cap AwaitedTasks) \ C)
    ELSE /\ run.inDegree = [c \in StartupTasks |-> 0]
         /\ run.tasksCount = 0 /\ run.awaitCount = 0

RunsCounted(done, counted) ==
    \A r \in Runs :
        /\ done[r] \subseteq initialised /\ counted[r] \subseteq done[r]
        /\ \A t \in done[r] : deps[t] \subseteq done[r]
        /\ Counts(startupRuns[r], done[r], counted[r])

\* All that task t waits for is done, and its children have not been notified.
Pending(runs, done, r, t) ==
    t \in runs[r].tasks \ done[r] /\ deps[t] \subseteq done[r]

FramesCounted(runs, s, done, counted) ==
    \A i \in 1..Len(s) :
        /\ s[i].task # NoTask =>
              s[i].task \in (runs[s[i].run].tasks \cap done[s[i].run]) \ counted[s[i].run]
        /\ \A t \in s[i].todo : Pending(runs, done, s[i].run, t)
        /\ \A j \in 1..Len(s) : i # j => s[i].task # s[j].task /\ s[i].todo \cap s[j].todo = {}

WaitersPending(runs, cb, cl, done) ==
    /\ \A t \in StartupTasks : \A i \in 1..Len(cb[t]) : Pending(runs, done, cb[t][i], t)
    /\ \A i \in 1..Len(cl) : Pending(runs, done, cl[i][1], cl[i][2])

\* A task waits in one place for each run: to be started, for its completion, or for its
\* dispatch.
Uncalled(r, t, cb, cl) ==
    /\ \A j \in 1..Len(cb[t]) : cb[t][j] # r
    /\ \A j \in 1..Len(cl) : ~(cl[j][1] = r /\ cl[j][2] = t)

PendingOnce(s, cb, cl) ==
    /\ \A t \in StartupTasks : \A i, j \in 1..Len(cb[t]) : cb[t][i] = cb[t][j] => i = j
    /\ \A i, j \in 1..Len(cl) : (cl[i][1] = cl[j][1] => i = j) /\ cl[i][2] = cl[j][2]
    /\ \A i \in 1..Len(s) : \A t \in s[i].todo : Uncalled(s[i].run, t, cb, cl)
    /\ \A i \in 1..Len(cl) : \A j \in 1..Len(cb[cl[i][2]]) : cb[cl[i][2]][j] # cl[i][1]

Histories == [Runs -> SUBSET StartupTasks]

Counted(done, counted) ==
    /\ RunsCounted(done, counted)
    /\ FramesCounted(startupRuns, stack, done, counted)
    /\ WaitersPending(startupRuns, callbacks, calls, done)

Progress == \E done, counted \in Histories : Counted(done, counted)

StartupInvariant ==
    /\ RunTypes /\ CallTypes /\ RunsSettled /\ TasksInOrder
    /\ OneRun(startupRuns, stack)
    /\ WaitersBegun(startupRuns, callbacks, calls, posted)
    /\ PendingOnce(stack, callbacks, calls)
    /\ Progress

-----------------------------------------------------------------------------
(* The operators on runs.                                                  *)

\* What a call that leaves the counts alone does not change.
SameCounts(run, x) ==
    /\ x.kind = run.kind /\ x.tasks = run.tasks /\ x.inDegree = run.inDegree
    /\ x.tasksCount = run.tasksCount /\ x.awaitCount = run.awaitCount

LEMMA RunRecordTypes ==
    ASSUME NEW run \in RunRecords
    PROVE  /\ \A o \in Outcomes : Told(run, o) \in RunRecords
           /\ LaunchedOnce(run) \in RunRecords
           /\ \A b \in BOOLEAN : [run EXCEPT !.timer = b] \in RunRecords
           /\ \A b \in BOOLEAN : [run EXCEPT !.completed = b] \in RunRecords
           /\ \A b \in BOOLEAN : [run EXCEPT !.awaitCalled = b] \in RunRecords
           /\ \A b \in BOOLEAN : [run EXCEPT !.refused = b] \in RunRecords
<1>1. ASSUME NEW o \in Outcomes PROVE Told(run, o) \in RunRecords
  <2>0. run.told + 1 \in Nat BY DEF RunRecords
  <2>1. PICK a \in RunRecords : a = [run EXCEPT !.told = @ + 1] BY <2>0 DEF RunRecords
  <2>2. PICK b \in RunRecords : b = [a EXCEPT !.outcome = o] BY DEF RunRecords
  <2>3. PICK c \in RunRecords : c = [b EXCEPT !.listed = FALSE] BY DEF RunRecords
  <2>4. Told(run, o) = c BY <2>1, <2>2, <2>3 DEF Told, RunRecords
  <2> QED BY <2>4
<1>2. LaunchedOnce(run) \in RunRecords BY DEF RunRecords, LaunchedOnce
<1>3. \A b \in BOOLEAN : [run EXCEPT !.timer = b] \in RunRecords BY DEF RunRecords
<1>4. \A b \in BOOLEAN : [run EXCEPT !.completed = b] \in RunRecords BY DEF RunRecords
<1>5. \A b \in BOOLEAN : [run EXCEPT !.awaitCalled = b] \in RunRecords BY DEF RunRecords
<1>6. \A b \in BOOLEAN : [run EXCEPT !.refused = b] \in RunRecords BY DEF RunRecords
<1> QED BY <1>1, <1>2, <1>3, <1>4, <1>5, <1>6

LEMMA TimedOutRun ==
    ASSUME NEW run \in RunRecords, RunSettled(run), run.timer,
           NEW x, x = Told([run EXCEPT !.timer = FALSE], "timeout")
    PROVE  /\ x \in RunRecords /\ RunSettled(x) /\ SameCounts(run, x)
           /\ Begun(run) /\ Begun(x) /\ x.outcome = "timeout" /\ x.launched = run.launched
<1>1. x \in RunRecords
  <2>1. "timeout" \in Outcomes BY DEF Outcomes
  <2>2. PICK a \in RunRecords : a = [run EXCEPT !.timer = FALSE] BY RunRecordTypes
  <2> QED BY <2>1, <2>2, RunRecordTypes
<1>2. SameCounts(run, x) /\ x.outcome = "timeout" /\ x.told = run.told + 1 /\ x.listed = FALSE
      /\ x.timer = FALSE /\ x.completed = run.completed /\ x.refused = run.refused
      /\ x.launched = run.launched /\ x.awaitCalled = run.awaitCalled
  BY DEF RunRecords, Told, SameCounts
<1>3. Begun(run) /\ run.told = 0 /\ ~run.completed BY DEF RunSettled
<1>4. Begun(x) BY <1>2, <1>3 DEF Begun, SameCounts
<1>5. RunSettled(x) BY <1>2, <1>3, <1>4 DEF RunSettled, Managed, SameCounts
<1> QED BY <1>1, <1>2, <1>3, <1>4, <1>5

LEMMA CompletedRun ==
    ASSUME NEW run \in RunRecords, RunSettled(run), Live(run), NEW o \in Outcomes,
           NEW x, x = Completed(run, o)
    PROVE  /\ x \in RunRecords /\ RunSettled(x) /\ SameCounts(run, x) /\ Live(x) /\ x.completed
           /\ x.outcome \in {o, run.outcome} /\ x.refused = run.refused /\ x.launched = run.launched
<1>1. CASE run.completed
  <2>1. x = run BY <1>1 DEF Completed
  <2> QED BY <1>1, <2>1 DEF SameCounts
<1>2. CASE ~run.completed
  <2>0. x = Told([run EXCEPT !.completed = TRUE, !.timer = FALSE], o) BY <1>2 DEF Completed
  <2>1. x \in RunRecords
    <3>1. PICK a \in RunRecords : a = [run EXCEPT !.completed = TRUE] BY RunRecordTypes
    <3>2. PICK b \in RunRecords : b = [a EXCEPT !.timer = FALSE] BY RunRecordTypes
    <3>3. b = [run EXCEPT !.completed = TRUE, !.timer = FALSE] BY <3>1, <3>2 DEF RunRecords
    <3> QED BY <2>0, <3>3, RunRecordTypes
  <2>2. SameCounts(run, x) /\ x.outcome = o /\ x.told = run.told + 1 /\ x.listed = FALSE
        /\ x.timer = FALSE /\ x.completed = TRUE /\ x.refused = run.refused
        /\ x.launched = run.launched /\ x.awaitCalled = run.awaitCalled
    BY <2>0 DEF RunRecords, Told, SameCounts
  <2>3. run.told = 0 /\ Begun(run) BY <1>2 DEF Live
  <2>4. Begun(x) /\ Live(x) BY <2>2 DEF Begun, Live
  <2>5. RunSettled(x) BY <2>2, <2>3, <2>4 DEF RunSettled, Managed, SameCounts
  <2> QED BY <2>1, <2>2, <2>4, <2>5
<1> QED BY <1>1, <1>2

LEMMA AwaitCalledRun ==
    ASSUME NEW run \in RunRecords, RunSettled(run), Begun(run), NEW x, x = AwaitCalled(run)
    PROVE  /\ x \in RunRecords /\ RunSettled(x) /\ SameCounts(run, x) /\ Begun(x)
           /\ Live(run) => Live(x)
           /\ x.outcome = run.outcome /\ x.refused = run.refused /\ x.told = run.told
           /\ x.completed = run.completed /\ x.timer = run.timer
<1>1. CASE run.awaitCalled
  <2>1. x = run BY <1>1 DEF AwaitCalled
  <2> QED BY <2>1 DEF SameCounts
<1>2. CASE ~run.awaitCalled
  <2>1. x \in RunRecords
    <3>1. PICK a \in RunRecords : a = [run EXCEPT !.awaitCalled = TRUE] BY RunRecordTypes
    <3>2. x \in {a, LaunchedOnce(a)} BY <1>2, <3>1 DEF AwaitCalled
    <3> QED BY <3>2, RunRecordTypes
  <2>2. SameCounts(run, x) /\ x.outcome = run.outcome /\ x.told = run.told /\ x.listed = run.listed
        /\ x.timer = run.timer /\ x.completed = run.completed /\ x.refused = run.refused
        /\ x.launched <= run.launched + 1 /\ x.awaitCalled = TRUE
    BY <1>2 DEF RunRecords, AwaitCalled, LaunchedOnce, SameCounts
  <2>3. Begun(x) /\ (Live(run) => Live(x)) BY <2>2 DEF Begun, Live, SameCounts
  <2>4. run.launched <= (IF run.refused THEN 1 ELSE 0) BY <1>2 DEF RunSettled
  <2>5. RunSettled(x)
    BY <2>1, <2>2, <2>3, <2>4 DEF RunSettled, Managed, SameCounts, RunRecords
  <2> QED BY <2>1, <2>2, <2>3, <2>5
<1> QED BY <1>1, <1>2

LEMMA FailedRun ==
    ASSUME NEW run \in RunRecords, RunSettled(run), Live(run), ~run.refused,
           NEW x, x = RunFailed(run)
    PROVE  /\ x \in RunRecords /\ RunSettled(x) /\ SameCounts(run, x) /\ Begun(x)
           /\ x.outcome \in {"error", run.outcome}
<1>1. x \in RunRecords
  <2>1. PICK a \in RunRecords : a = [run EXCEPT !.timer = FALSE] BY RunRecordTypes
  <2>2. PICK b \in RunRecords : b = [a EXCEPT !.refused = TRUE] BY RunRecordTypes
  <2>3. b = [run EXCEPT !.timer = FALSE, !.refused = TRUE] BY <2>1, <2>2 DEF RunRecords
  <2>4. PICK c \in RunRecords : c = IF run.completed THEN b ELSE Told(b, "error")
    BY RunRecordTypes DEF Outcomes
  <2>5. x \in {c, LaunchedOnce(c)} BY <2>3, <2>4 DEF RunFailed
  <2> QED BY <2>5, RunRecordTypes
<1>2. SameCounts(run, x) /\ x.outcome \in {"error", run.outcome}
      /\ x.told = (IF run.completed THEN run.told ELSE run.told + 1)
      /\ x.listed = (IF run.completed THEN run.listed ELSE FALSE)
      /\ x.timer = FALSE /\ x.completed = run.completed /\ x.refused = TRUE
      /\ x.launched <= (IF run.awaitCalled THEN run.launched ELSE run.launched + 1)
      /\ x.awaitCalled = run.awaitCalled
  BY DEF RunRecords, RunFailed, Told, LaunchedOnce, SameCounts
<1>3. Begun(run) /\ (~run.completed => run.told = 0) BY DEF Live
<1>4. Begun(x) BY <1>2, <1>3 DEF Begun, SameCounts
<1>5. RunSettled(x)
  BY <1>1, <1>2, <1>3, <1>4 DEF RunSettled, Managed, SameCounts, RunRecords
<1> QED BY <1>1, <1>2, <1>4, <1>5

LEMMA LoweredRun ==
    ASSUME NEW run \in RunRecords, RunSettled(run), NEW t, NEW x, x = Lowered(run, t)
    PROVE  /\ x \in RunRecords /\ RunSettled(x)
           /\ x.kind = run.kind /\ x.tasks = run.tasks /\ x.tasksCount = run.tasksCount
           /\ x.awaitCount = run.awaitCount /\ x.outcome = run.outcome
           /\ x.refused = run.refused /\ x.completed = run.completed /\ x.launched = run.launched
           /\ (Begun(x) <=> Begun(run)) /\ (Live(x) <=> Live(run))
           /\ x.inDegree = [c \in StartupTasks |->
                  IF c \in Children(run, t) THEN run.inDegree[c] - 1 ELSE run.inDegree[c]]
<1>0. \A c \in StartupTasks : run.inDegree[c] \in Int BY DEF RunRecords
<1>1. PICK d : d = [c \in StartupTasks |->
                  IF c \in Children(run, t) THEN run.inDegree[c] - 1 ELSE run.inDegree[c]]
  OBVIOUS
<1>10. d \in [StartupTasks -> Int] BY <1>0, <1>1
<1>2. x = [run EXCEPT !.inDegree = d] BY <1>1 DEF Lowered
<1>3. x \in RunRecords BY <1>10, <1>2 DEF RunRecords
<1>4. /\ x.kind = run.kind /\ x.tasks = run.tasks /\ x.tasksCount = run.tasksCount
      /\ x.awaitCount = run.awaitCount /\ x.listed = run.listed /\ x.timer = run.timer
      /\ x.completed = run.completed /\ x.awaitCalled = run.awaitCalled /\ x.told = run.told
      /\ x.outcome = run.outcome /\ x.launched = run.launched /\ x.refused = run.refused
      /\ x.inDegree = d
  BY <1>2 DEF RunRecords
<1>5. (Begun(x) <=> Begun(run)) /\ (Live(x) <=> Live(run)) BY <1>4 DEF Begun, Live
<1>6. RunSettled(x) BY <1>4, <1>5 DEF RunSettled, Managed
<1> QED BY <1>1, <1>3, <1>4, <1>5, <1>6

LEMMA DispatchedRun ==
    ASSUME NEW run \in RunRecords, RunSettled(run), Live(run), run.tasksCount > 0, NEW t,
           NEW x, x = Dispatched(run, t)
    PROVE  /\ x \in RunRecords /\ RunSettled(x) /\ Live(x)
           /\ x.kind = run.kind /\ x.tasks = run.tasks /\ x.inDegree = run.inDegree
           /\ x.tasksCount = run.tasksCount - 1
           /\ x.awaitCount = IF t \in AwaitedTasks THEN run.awaitCount - 1 ELSE run.awaitCount
           /\ x.refused = run.refused
           /\ x.outcome = "ok" => run.outcome = "ok" \/ run.tasksCount = 1
<1>1. PICK n \in Int : n = IF t \in AwaitedTasks THEN run.awaitCount - 1 ELSE run.awaitCount
  BY DEF RunRecords
<1>2. PICK y : y = [run EXCEPT !.awaitCount = n, !.tasksCount = @ - 1] OBVIOUS
<1>3. y = [run EXCEPT !.awaitCount = IF t \in AwaitedTasks THEN @ - 1 ELSE @, !.tasksCount = @ - 1]
  BY <1>1, <1>2 DEF RunRecords
<1>4. y \in RunRecords
  <2>1. PICK a \in RunRecords : a = [run EXCEPT !.awaitCount = n] BY DEF RunRecords
  <2>2. run.tasksCount - 1 \in Int BY DEF RunRecords
  <2>3. PICK b \in RunRecords : b = [a EXCEPT !.tasksCount = run.tasksCount - 1] BY <2>2 DEF RunRecords
  <2>4. y = b BY <1>2, <2>1, <2>3 DEF RunRecords
  <2> QED BY <2>4
<1>5. /\ y.kind = run.kind /\ y.tasks = run.tasks /\ y.tasksCount = run.tasksCount - 1
      /\ y.awaitCount = n /\ y.listed = run.listed /\ y.timer = run.timer
      /\ y.completed = run.completed /\ y.awaitCalled = run.awaitCalled /\ y.told = run.told
      /\ y.outcome = run.outcome /\ y.launched = run.launched /\ y.refused = run.refused
      /\ y.inDegree = run.inDegree
  BY <1>2 DEF RunRecords
<1> DEFINE a == IF t \in AwaitedTasks /\ y.awaitCount = 0 THEN AwaitCalled(y) ELSE y
<1>6. x = IF a.tasksCount = 0 THEN Completed(a, "ok") ELSE a
  BY <1>1, <1>2, <1>3 DEF Dispatched
<1>7. run.tasksCount \in Int BY DEF RunRecords
<1>8. Begun(run) /\ Managed(run) BY DEF Live, RunSettled
\* If the count falls to zero, the run is Begun only once the completed callback is called.
<1>9. CASE run.completed \/ run.tasksCount # 1
  <2>1. Begun(y) /\ Live(y) BY <1>5, <1>7, <1>9 DEF Begun, Live
  <2>2. RunSettled(y) BY <1>5, <1>8, <2>1 DEF RunSettled, Managed
  <2>3. PICK b : b = a OBVIOUS
  <2>4. /\ b \in RunRecords /\ RunSettled(b) /\ Live(b) /\ SameCounts(y, b)
        /\ b.outcome = y.outcome /\ b.refused = y.refused /\ b.completed = y.completed
    BY <1>4, <2>1, <2>2, <2>3, AwaitCalledRun DEF SameCounts
  <2>5. CASE b.tasksCount = 0
    <3>1. x = Completed(b, "ok") BY <1>6, <2>3, <2>5
    <3>2. run.completed BY <1>5, <1>7, <1>9, <2>4, <2>5 DEF SameCounts
    <3>3. x = b BY <1>5, <2>4, <3>1, <3>2 DEF Completed
    <3> QED BY <1>1, <1>5, <2>4, <3>3 DEF SameCounts
  <2>6. CASE b.tasksCount # 0
    <3>1. x = b BY <1>6, <2>3, <2>6
    <3> QED BY <1>1, <1>5, <2>4, <3>1 DEF SameCounts
  <2> QED BY <2>5, <2>6
<1>10. CASE ~run.completed /\ run.tasksCount = 1
  <2>1. run.told = 0 /\ ~run.refused BY <1>10 DEF Live, RunSettled
  <2>2. PICK b : b = a OBVIOUS
  <2>3. b \in RunRecords
    <3>1. PICK e \in RunRecords : e = [y EXCEPT !.awaitCalled = TRUE] BY <1>4, RunRecordTypes
    <3>2. b \in {y, e, LaunchedOnce(e)} BY <2>2, <3>1 DEF AwaitCalled
    <3> QED BY <1>4, <3>2, RunRecordTypes
  <2>4. /\ SameCounts(y, b) /\ b.outcome = y.outcome /\ b.refused = y.refused
        /\ b.completed = y.completed /\ b.told = y.told /\ b.listed = y.listed
        /\ b.launched <= (IF b.awaitCalled THEN 1 ELSE 0)
    <3>1. y.launched <= (IF y.awaitCalled THEN 1 ELSE 0) /\ y.launched \in Nat
      BY <1>4, <1>5, <1>8, <2>1 DEF RunSettled, RunRecords
    <3>2. CASE b = y BY <3>1, <3>2 DEF SameCounts
    <3>3. CASE b = AwaitCalled(y) /\ ~y.awaitCalled
      <4>1. SameCounts(y, b) /\ b.outcome = y.outcome /\ b.refused = y.refused
            /\ b.completed = y.completed /\ b.told = y.told /\ b.listed = y.listed
            /\ b.launched <= y.launched + 1 /\ b.awaitCalled = TRUE
        BY <1>4, <3>1, <3>3 DEF RunRecords, AwaitCalled, LaunchedOnce, SameCounts
      <4> QED BY <3>1, <3>3, <4>1, <2>3 DEF RunRecords
    <3>4. b = y \/ (b = AwaitCalled(y) /\ ~y.awaitCalled) BY <2>2 DEF AwaitCalled
    <3> QED BY <3>2, <3>3, <3>4
  <2>5. x = Told([b EXCEPT !.completed = TRUE, !.timer = FALSE], "ok")
    BY <1>5, <1>6, <1>10, <2>2, <2>4 DEF Completed, SameCounts
  <2>6. x \in RunRecords
    <3>1. PICK e \in RunRecords : e = [b EXCEPT !.completed = TRUE] BY <2>3, RunRecordTypes
    <3>2. PICK f \in RunRecords : f = [e EXCEPT !.timer = FALSE] BY RunRecordTypes
    <3>3. f = [b EXCEPT !.completed = TRUE, !.timer = FALSE] BY <2>3, <3>1, <3>2 DEF RunRecords
    <3>4. "ok" \in Outcomes BY DEF Outcomes
    <3> QED BY <2>5, <3>3, <3>4, RunRecordTypes
  <2>7. SameCounts(b, x) /\ x.outcome = "ok" /\ x.told = b.told + 1 /\ x.listed = FALSE
        /\ x.timer = FALSE /\ x.completed = TRUE /\ x.refused = b.refused
        /\ x.launched = b.launched /\ x.awaitCalled = b.awaitCalled
    BY <2>3, <2>5 DEF RunRecords, Told, SameCounts
  <2>8. Begun(x) /\ Live(x) BY <2>7 DEF Begun, Live
  <2>9. RunSettled(x)
    BY <1>5, <1>8, <2>1, <2>4, <2>7, <2>8 DEF RunSettled, Managed, SameCounts
  <2> QED BY <1>1, <1>5, <1>10, <2>4, <2>6, <2>7, <2>8, <2>9 DEF SameCounts
<1> QED BY <1>9, <1>10

\* Preparing a run of a set of tasks that is not empty.
NewRun(run, kind, tasks) ==
    /\ tasks \in SUBSET StartupTasks /\ kind \in {"auto", "js"}
    /\ run = [NoRun EXCEPT !.kind = kind, !.tasks = tasks, !.listed = TRUE]

LEMMA PreparedRun ==
    ASSUME NEW tasks, NEW kind, NEW run, NewRun(run, kind, tasks), tasks # {},
           deps \in [StartupTasks -> SUBSET StartupTasks],
           NEW x, x \in {Prepared(run), AwaitCalled(Prepared(run))}
    PROVE  /\ x \in RunRecords /\ RunSettled(x) /\ Live(x) /\ Counts(x, {}, {})
           /\ x.tasks = tasks /\ x.outcome = "none" /\ ~x.refused
<1> USE DEF NewRun
<1>0. IsFiniteSet(tasks) BY StartupConstants, FS_Subset
<1>1. IsFiniteSet(tasks) /\ Cardinality(tasks) \in Nat /\ Cardinality(tasks) > 0
  <2>1. Cardinality(tasks) \in Nat BY <1>0, FS_CardinalityType
  <2>2. Cardinality(tasks) # 0 BY <1>0, FS_EmptySet
  <2> QED BY <1>0, <2>1, <2>2
<1>2. Cardinality(tasks \cap AwaitedTasks) \in Nat
  BY <1>1, FS_Subset, FS_CardinalityType
<1>3. \A t \in StartupTasks : Cardinality(deps[t]) \in Nat
  BY StartupConstants, FS_Subset, FS_CardinalityType
<1>40. PICK d : d = [t \in StartupTasks |-> IF t \in tasks THEN Cardinality(deps[t]) ELSE 0]
  OBVIOUS
<1>4. /\ d = [t \in StartupTasks |-> IF t \in tasks THEN Cardinality(deps[t]) ELSE 0]
      /\ d \in [StartupTasks -> Int]
  BY <1>3, <1>40
<1>5. PICK y : y = Prepared(run) OBVIOUS
<1>6. run.tasks = tasks BY DEF NoRun
<1>7. y = [kind |-> kind, tasks |-> tasks, inDegree |-> d,
           tasksCount |-> Cardinality(tasks), awaitCount |-> Cardinality(tasks \cap AwaitedTasks),
           listed |-> TRUE, timer |-> TRUE, completed |-> FALSE, awaitCalled |-> FALSE,
           told |-> 0, outcome |-> "none", launched |-> 0, refused |-> FALSE]
  BY <1>4, <1>5, <1>6, ZenonT(60) DEF Prepared, NoRun
<1>8. y \in RunRecords BY <1>1, <1>2, <1>4, <1>7 DEF RunRecords, Outcomes
<1>9. /\ y.kind = kind /\ y.tasks = tasks /\ y.tasksCount = Cardinality(tasks)
      /\ y.awaitCount = Cardinality(tasks \cap AwaitedTasks) /\ y.listed = TRUE /\ y.timer = TRUE
      /\ y.completed = FALSE /\ y.awaitCalled = FALSE /\ y.told = 0
      /\ y.outcome = "none" /\ y.launched = 0 /\ y.refused = FALSE /\ y.inDegree = d
  BY <1>7
<1>10. Begun(y) /\ Live(y) BY <1>1, <1>9 DEF Begun, Live
<1>11. RunSettled(y) BY <1>9, <1>10 DEF RunSettled, Managed
<1>12. /\ x \in RunRecords /\ RunSettled(x) /\ Live(x) /\ SameCounts(y, x)
       /\ x.outcome = "none" /\ ~x.refused
  BY <1>5, <1>8, <1>9, <1>10, <1>11, AwaitCalledRun DEF SameCounts
<1>13. Begun(x) BY <1>12 DEF Live
<1>14. Counts(x, {}, {})
  <2>1. \A c \in StartupTasks : deps[c] \ {} = deps[c] OBVIOUS
  <2>2. tasks \ {} = tasks /\ (tasks \cap AwaitedTasks) \ {} = tasks \cap AwaitedTasks OBVIOUS
  <2>3. x.inDegree = [c \in StartupTasks |-> IF c \in x.tasks THEN Cardinality(deps[c] \ {}) ELSE 0]
    BY <1>4, <1>9, <1>12, <2>1 DEF SameCounts
  <2>4. x.tasksCount = Cardinality(x.tasks \ {})
        /\ x.awaitCount = Cardinality((x.tasks \cap AwaitedTasks) \ {})
    BY <1>9, <1>12, <2>2 DEF SameCounts
  <2> QED BY <1>13, <2>3, <2>4 DEF Counts
<1> QED BY <1>9, <1>12, <1>14 DEF SameCounts

\* A run that is not prepared, and one that has been launched without a manager.
LEMMA UnpreparedRun ==
    ASSUME NEW tasks, NEW kind, NEW run, NewRun(run, kind, tasks),
           NEW x, x \in {run, LaunchedOnce(run), Told(run, "error"), LaunchedOnce(Told(run, "error")),
                         NoRun, LaunchedOnce([NoRun EXCEPT !.kind = "direct"])},
           NEW D, NEW C
    PROVE  /\ x \in RunRecords /\ RunSettled(x) /\ ~Begun(x) /\ Counts(x, D, C)
           /\ x.tasks \in {{}, tasks} /\ x.outcome # "ok"
<1> USE DEF NewRun
<1>0. PICK d : d = [t \in StartupTasks |-> 0] OBVIOUS
<1>1. d = [t \in StartupTasks |-> 0] /\ d \in [StartupTasks -> Int] BY <1>0
<1> DEFINE Fresh(y) ==
        /\ y \in RunRecords /\ y.tasks \in {{}, tasks} /\ y.inDegree = d
        /\ y.tasksCount = 0 /\ y.awaitCount = 0 /\ ~y.timer /\ ~y.completed /\ ~y.refused
        /\ y.told \in {0, 1} /\ (Managed(y) => (y.listed <=> y.told = 0))
        /\ y.outcome # "ok"
<1>2. Fresh(NoRun) /\ NoRun.launched = 0
  <2>1. NoRun \in RunRecords BY <1>1 DEF NoRun, RunRecords, Outcomes
  <2> QED BY <1>1, <2>1 DEF NoRun, Managed
<1>3. Fresh(run) /\ run.launched = 0 /\ run.told = 0
  <2>1. run = [kind |-> kind, tasks |-> tasks, inDegree |-> d, tasksCount |-> 0, awaitCount |-> 0,
               listed |-> TRUE, timer |-> FALSE, completed |-> FALSE, awaitCalled |-> FALSE,
               told |-> 0, outcome |-> "none", launched |-> 0, refused |-> FALSE]
    BY <1>1 DEF NoRun
  <2>0. kind \in {"none", "direct", "auto", "js"} /\ tasks \in SUBSET StartupTasks OBVIOUS
  <2>2. run \in RunRecords BY ONLY <1>1, <2>0, <2>1 DEF RunRecords, Outcomes
  <2>3. /\ run.kind = kind /\ run.tasks = tasks /\ run.inDegree = d /\ run.tasksCount = 0
        /\ run.awaitCount = 0 /\ run.listed = TRUE /\ run.timer = FALSE /\ run.completed = FALSE
        /\ run.told = 0 /\ run.outcome = "none" /\ run.launched = 0 /\ run.refused = FALSE
    BY ONLY <2>1
  <2> QED BY ONLY <2>2, <2>3 DEF Managed
<1>4. PICK e : e = [NoRun EXCEPT !.kind = "direct"] OBVIOUS
<1>5. Fresh(e) /\ e.launched = 0
  <2>1. e = [kind |-> "direct", tasks |-> {}, inDegree |-> d, tasksCount |-> 0, awaitCount |-> 0,
               listed |-> FALSE, timer |-> FALSE, completed |-> FALSE, awaitCalled |-> FALSE,
               told |-> 0, outcome |-> "none", launched |-> 0, refused |-> FALSE]
    BY <1>1, <1>4 DEF NoRun
  <2>2. e \in RunRecords BY <1>1, <2>1 DEF RunRecords, Outcomes
  <2> QED BY <1>1, <2>1, <2>2 DEF Managed
<1>6. PICK y : y = Told(run, "error") OBVIOUS
<1>7. Fresh(y) /\ y.launched = 0
  <2>1. y \in RunRecords BY <1>3, <1>6, RunRecordTypes DEF Outcomes
  <2>2. /\ y.tasks = run.tasks /\ y.inDegree = run.inDegree /\ y.tasksCount = run.tasksCount
        /\ y.awaitCount = run.awaitCount /\ y.timer = run.timer /\ y.completed = run.completed
        /\ y.refused = run.refused /\ y.told = run.told + 1 /\ y.listed = FALSE /\ y.kind = run.kind
        /\ y.outcome = "error" /\ y.launched = run.launched
    BY <1>3, <1>6 DEF Told, RunRecords
  <2> QED BY <1>3, <2>1, <2>2 DEF Managed
<1>8. \A z : Fresh(z) /\ z.launched = 0 => Fresh(LaunchedOnce(z)) /\ LaunchedOnce(z).launched = 1
  <2> SUFFICES ASSUME NEW z, Fresh(z), z.launched = 0, NEW w, w = LaunchedOnce(z)
               PROVE  Fresh(w) /\ w.launched = 1
    OBVIOUS
  <2>1. w \in RunRecords BY RunRecordTypes
  <2>2. /\ w.tasks = z.tasks /\ w.inDegree = z.inDegree /\ w.tasksCount = z.tasksCount
        /\ w.awaitCount = z.awaitCount /\ w.timer = z.timer /\ w.completed = z.completed
        /\ w.refused = z.refused /\ w.told = z.told /\ w.listed = z.listed /\ w.kind = z.kind
        /\ w.outcome = z.outcome /\ w.launched = z.launched + 1
    BY DEF LaunchedOnce, RunRecords
  <2> QED BY <2>1, <2>2 DEF Managed
<1>9. Fresh(x) /\ x.launched \in {0, 1}
  <2> HIDE DEF Fresh
  <2> QED BY <1>2, <1>3, <1>4, <1>5, <1>6, <1>7, <1>8, ZenonT(60)
<1>10. ~Begun(x) BY <1>9 DEF Begun
<1>11. RunSettled(x) BY <1>9, <1>10 DEF RunSettled
<1>12. Counts(x, D, C) BY <1>1, <1>9, <1>10 DEF Counts
<1> QED BY <1>9, <1>10, <1>11, <1>12

-----------------------------------------------------------------------------
(* The counts.                                                             *)

\* Notifying the children of t lowers the count of exactly those that depend on it; a count
\* of zero says that all dependencies are done.
LEMMA LoweredCounts ==
    ASSUME deps \in [StartupTasks -> SUBSET StartupTasks],
           NEW run \in RunRecords, RunSettled(run), Begun(run),
           NEW D \in SUBSET StartupTasks, NEW C, Counts(run, D, C),
           NEW t \in StartupTasks, t \notin D, NEW x, x = Lowered(run, t)
    PROVE  /\ Counts(x, D \cup {t}, C)
           /\ \A c \in Children(x, t) :
                 c \in run.tasks /\ t \in deps[c] /\ (x.inDegree[c] = 0 => deps[c] \subseteq D \cup {t})
<1>1. /\ x.kind = run.kind /\ x.tasks = run.tasks /\ x.tasksCount = run.tasksCount
      /\ x.awaitCount = run.awaitCount /\ (Begun(x) <=> Begun(run))
      /\ x.inDegree = [c \in StartupTasks |->
             IF c \in Children(run, t) THEN run.inDegree[c] - 1 ELSE run.inDegree[c]]
  BY LoweredRun
<1>2. run.tasks \in SUBSET StartupTasks BY DEF RunRecords
<1>3. \A c \in StartupTasks : run.inDegree[c] = IF c \in run.tasks THEN Cardinality(deps[c] \ D) ELSE 0
  BY DEF Counts
<1>4. \A c \in StartupTasks : IsFiniteSet(deps[c] \ D) /\ IsFiniteSet(deps[c] \ (D \cup {t}))
  BY StartupConstants, FS_Subset
<1>5. ASSUME NEW c \in StartupTasks
      PROVE  x.inDegree[c] = IF c \in x.tasks THEN Cardinality(deps[c] \ (D \cup {t})) ELSE 0
  <2>1. CASE c \in Children(run, t)
    <3>1. c \in run.tasks /\ t \in deps[c] \ D BY <2>1 DEF Children
    <3>2. deps[c] \ (D \cup {t}) = (deps[c] \ D) \ {t} OBVIOUS
    <3>3. Cardinality((deps[c] \ D) \ {t}) = Cardinality(deps[c] \ D) - 1
      BY <1>4, <3>1, FS_RemoveElement
    <3> QED BY <1>1, <1>3, <2>1, <3>1, <3>2, <3>3
  <2>2. CASE c \in run.tasks /\ c \notin Children(run, t)
    <3>1. t \notin deps[c] BY <2>2 DEF Children
    <3>2. deps[c] \ (D \cup {t}) = deps[c] \ D BY <3>1
    <3> QED BY <1>1, <1>3, <2>2, <3>2
  <2>3. CASE c \notin run.tasks
    <3>1. c \notin Children(run, t) BY <2>3 DEF Children
    <3> QED BY <1>1, <1>3, <2>3, <3>1
  <2> QED BY <2>1, <2>2, <2>3
<1>6. x.inDegree = [c \in StartupTasks |->
                      IF c \in x.tasks THEN Cardinality(deps[c] \ (D \cup {t})) ELSE 0]
  BY <1>1, <1>5
<1>7. Counts(x, D \cup {t}, C) BY <1>1, <1>6 DEF Counts
<1>8. ASSUME NEW c \in Children(x, t)
      PROVE  c \in run.tasks /\ t \in deps[c] /\ (x.inDegree[c] = 0 => deps[c] \subseteq D \cup {t})
  <2>1. c \in run.tasks /\ t \in deps[c] /\ c \in x.tasks /\ c \in StartupTasks
    BY <1>1, <1>2, <1>8 DEF Children
  <2>2. ASSUME x.inDegree[c] = 0 PROVE deps[c] \subseteq D \cup {t}
    <3>1. Cardinality(deps[c] \ (D \cup {t})) = 0 BY <1>5, <2>1, <2>2
    <3>2. deps[c] \ (D \cup {t}) = {} BY <1>4, <2>1, <3>1, FS_EmptySet
    <3> QED BY <3>2
  <2> QED BY <2>1, <2>2
<1> QED BY <1>7, <1>8

\* The rest of Dispatch counts a task that was not counted yet; the last one ends the run.
LEMMA DispatchedCounts ==
    ASSUME NEW run \in RunRecords, RunSettled(run), Live(run),
           NEW D, NEW C, Counts(run, D, C), NEW t \in run.tasks, t \notin C,
           NEW x, x = Dispatched(run, t)
    PROVE  /\ run.tasksCount > 0 /\ Counts(x, D, C \cup {t})
           /\ run.tasksCount = 1 => run.tasks \subseteq C \cup {t}
<1>1. Begun(run) BY DEF Live
<1>2. run.inDegree = [c \in StartupTasks |-> IF c \in run.tasks THEN Cardinality(deps[c] \ D) ELSE 0]
      /\ run.tasksCount = Cardinality(run.tasks \ C)
      /\ run.awaitCount = Cardinality((run.tasks \cap AwaitedTasks) \ C)
  BY <1>1 DEF Counts
<1>3. run.tasks \in SUBSET StartupTasks BY DEF RunRecords
<1>4. IsFiniteSet(run.tasks \ C) /\ IsFiniteSet((run.tasks \cap AwaitedTasks) \ C)
  BY <1>3, StartupConstants, FS_Subset
<1>5. run.tasks \ (C \cup {t}) = (run.tasks \ C) \ {t}
      /\ (run.tasks \cap AwaitedTasks) \ (C \cup {t}) = ((run.tasks \cap AwaitedTasks) \ C) \ {t}
  OBVIOUS
<1>6. Cardinality((run.tasks \ C) \ {t}) = Cardinality(run.tasks \ C) - 1
      /\ Cardinality(run.tasks \ C) \in Nat /\ Cardinality((run.tasks \ C) \ {t}) \in Nat
      /\ IsFiniteSet((run.tasks \ C) \ {t})
  BY <1>4, FS_RemoveElement, FS_CardinalityType
<1>7. run.tasksCount > 0 BY <1>2, <1>6
<1>8. Cardinality(((run.tasks \cap AwaitedTasks) \ C) \ {t})
        = IF t \in AwaitedTasks THEN run.awaitCount - 1 ELSE run.awaitCount
  <2>1. CASE t \in AwaitedTasks
    <3>1. t \in (run.tasks \cap AwaitedTasks) \ C BY <2>1
    <3>2. Cardinality(((run.tasks \cap AwaitedTasks) \ C) \ {t})
            = Cardinality((run.tasks \cap AwaitedTasks) \ C) - 1
      BY <1>4, <3>1, FS_RemoveElement
    <3> QED BY <1>2, <2>1, <3>2
  <2>2. CASE t \notin AwaitedTasks
    <3>1. ((run.tasks \cap AwaitedTasks) \ C) \ {t} = (run.tasks \cap AwaitedTasks) \ C BY <2>2
    <3> QED BY <1>2, <2>2, <3>1
  <2> QED BY <2>1, <2>2
<1>9. /\ Live(x) /\ x.tasks = run.tasks /\ x.inDegree = run.inDegree
      /\ x.tasksCount = run.tasksCount - 1
      /\ x.awaitCount = IF t \in AwaitedTasks THEN run.awaitCount - 1 ELSE run.awaitCount
  BY <1>7, DispatchedRun
<1>10. Counts(x, D, C \cup {t})
  <2>1. Begun(x) BY <1>9 DEF Live
  <2>2. x.tasksCount = Cardinality(x.tasks \ (C \cup {t})) BY <1>2, <1>5, <1>6, <1>9
  <2>3. x.awaitCount = Cardinality((x.tasks \cap AwaitedTasks) \ (C \cup {t})) BY <1>5, <1>8, <1>9
  <2>4. x.inDegree = [c \in StartupTasks |-> IF c \in x.tasks THEN Cardinality(deps[c] \ D) ELSE 0]
    BY <1>2, <1>9
  <2> QED BY <2>1, <2>2, <2>3, <2>4 DEF Counts
<1>11. ASSUME run.tasksCount = 1 PROVE run.tasks \subseteq C \cup {t}
  <2>1. Cardinality((run.tasks \ C) \ {t}) = 0 BY <1>2, <1>6, <1>11
  <2>2. (run.tasks \ C) \ {t} = {} BY <1>6, <2>1, FS_EmptySet
  <2> QED BY <2>2
<1> QED BY <1>7, <1>10, <1>11

\* Counts are natural numbers.
LEMMA CountsNatural ==
    ASSUME deps \in [StartupTasks -> SUBSET StartupTasks], NEW run \in RunRecords,
           NEW D, NEW C, Counts(run, D, C)
    PROVE  /\ run.tasksCount >= 0 /\ run.awaitCount >= 0
           /\ \A t \in StartupTasks : run.inDegree[t] >= 0
<1>1. CASE ~Begun(run) BY <1>1 DEF Counts
<1>2. CASE Begun(run)
  <2>1. run.tasks \in SUBSET StartupTasks BY DEF RunRecords
  <2>2. Cardinality(run.tasks \ C) \in Nat /\ Cardinality((run.tasks \cap AwaitedTasks) \ C) \in Nat
    BY <2>1, StartupConstants, FS_Subset, FS_CardinalityType
  <2>3. \A t \in StartupTasks : Cardinality(deps[t] \ D) \in Nat
    BY StartupConstants, FS_Subset, FS_CardinalityType
  <2>4. run.tasksCount = Cardinality(run.tasks \ C)
        /\ run.awaitCount = Cardinality((run.tasks \cap AwaitedTasks) \ C)
    BY <1>2 DEF Counts
  <2>5. ASSUME NEW t \in StartupTasks PROVE run.inDegree[t] \in Nat
    <3>1. run.inDegree[t] = IF t \in run.tasks THEN Cardinality(deps[t] \ D) ELSE 0
      BY <1>2 DEF Counts
    <3> QED BY <2>3, <3>1
  <2> QED BY <2>2, <2>4, <2>5
<1> QED BY <1>1, <1>2

-----------------------------------------------------------------------------
(* The stack and the waiters.                                              *)

\* A stack that has returned from some calls and taken some tasks out of their loops.
Shrinks(s, s2) ==
    /\ s2 \in Seq(Frames) /\ Len(s2) <= Len(s)
    /\ \A i \in 1..Len(s2) :
          s2[i].run = s[i].run /\ s2[i].task = s[i].task /\ s2[i].todo \subseteq s[i].todo

LEMMA RemainingShrinks ==
    ASSUME NEW s \in Seq(Frames), s # <<>>, NEW t,
           NEW s2, s2 = [s EXCEPT ![Len(s)].todo = @ \ {t}]
    PROVE  /\ Shrinks(s, s2) /\ Len(s2) = Len(s) /\ s2 # <<>>
           /\ s2[Len(s)].todo = s[Len(s)].todo \ {t}
<1>1. Len(s) \in Nat /\ Len(s) \in 1..Len(s) /\ \A i \in 1..Len(s) : s[i] \in Frames OBVIOUS
<1>2. PICK f : f = [s[Len(s)] EXCEPT !.todo = @ \ {t}] OBVIOUS
<1>3. f \in Frames /\ f.run = s[Len(s)].run /\ f.task = s[Len(s)].task
      /\ f.todo = s[Len(s)].todo \ {t}
  BY <1>1, <1>2 DEF Frames
<1>4. s2 = [s EXCEPT ![Len(s)] = f] BY <1>2
<1>5. /\ [s EXCEPT ![Len(s)] = f] \in Seq(Frames) /\ Len([s EXCEPT ![Len(s)] = f]) = Len(s)
      /\ \A i \in 1..Len(s) : [s EXCEPT ![Len(s)] = f][i] = IF i = Len(s) THEN f ELSE s[i]
  BY ONLY <1>1, <1>3, s \in Seq(Frames), ExceptSeq
<1>6. /\ s2 \in Seq(Frames) /\ Len(s2) = Len(s)
      /\ \A i \in 1..Len(s) : s2[i] = IF i = Len(s) THEN f ELSE s[i]
  BY ONLY <1>4, <1>5
<1> QED BY <1>1, <1>3, <1>5, <1>6 DEF Shrinks

LEMMA FailedShrinks ==
    ASSUME NEW s \in Seq(Frames), s # <<>>, NEW s2, s2 = [s EXCEPT ![Len(s)].failed = TRUE]
    PROVE  Shrinks(s, s2)
<1>1. Len(s) \in Nat /\ Len(s) \in 1..Len(s) /\ \A i \in 1..Len(s) : s[i] \in Frames OBVIOUS
<1>2. PICK f : f = [s[Len(s)] EXCEPT !.failed = TRUE] OBVIOUS
<1>3. f \in Frames /\ f.run = s[Len(s)].run /\ f.task = s[Len(s)].task /\ f.todo = s[Len(s)].todo
  BY <1>1, <1>2 DEF Frames
<1>4. s2 = [s EXCEPT ![Len(s)] = f] BY <1>2
<1>5. /\ [s EXCEPT ![Len(s)] = f] \in Seq(Frames) /\ Len([s EXCEPT ![Len(s)] = f]) = Len(s)
      /\ \A i \in 1..Len(s) : [s EXCEPT ![Len(s)] = f][i] = IF i = Len(s) THEN f ELSE s[i]
  BY ONLY <1>1, <1>3, s \in Seq(Frames), ExceptSeq
<1>6. /\ s2 \in Seq(Frames) /\ Len(s2) = Len(s)
      /\ \A i \in 1..Len(s) : s2[i] = IF i = Len(s) THEN f ELSE s[i]
  BY ONLY <1>4, <1>5
<1> QED BY <1>1, <1>3, <1>5, <1>6 DEF Shrinks

LEMMA BelowShrinks ==
    ASSUME NEW s \in Seq(Frames), s # <<>>, NEW s2, s2 = SubSeq(s, 1, Len(s) - 1)
    PROVE  Shrinks(s, s2) /\ Len(s2) = Len(s) - 1
<1>1. Len(s) \in Nat /\ Len(s) - 1 \in Nat OBVIOUS
<1>2. 1 \in Int /\ Len(s) - 1 \in Int /\ \A i \in 1..(Len(s) - 1) : s[i] \in Frames BY <1>1
<1>3. s2 \in Seq(Frames) /\ Len(s2) = Len(s) - 1
  <2>1. /\ SubSeq(s, 1, Len(s) - 1) \in Seq(Frames)
        /\ Len(SubSeq(s, 1, Len(s) - 1)) = IF 1 <= Len(s) - 1 THEN Len(s) - 1 - 1 + 1 ELSE 0
    BY ONLY <1>2, SubSeqProperties
  <2>2. (IF 1 <= Len(s) - 1 THEN Len(s) - 1 - 1 + 1 ELSE 0) = Len(s) - 1
    <3>1. \A n \in Nat : (IF 1 <= n THEN n - 1 + 1 ELSE 0) = n OBVIOUS
    <3> QED BY ONLY <1>1, <3>1
  <2>3. s2 \in Seq(Frames) BY ONLY <2>1, s2 = SubSeq(s, 1, Len(s) - 1)
  <2>4. Len(s2) = Len(s) - 1 BY ONLY <2>1, <2>2, s2 = SubSeq(s, 1, Len(s) - 1), Zenon
  <2> QED BY <2>3, <2>4
<1>4. \A i \in 1..(Len(s) - 1) : s2[i] = s[i]
  <2>1. \A i \in 1..(Len(s) - 1 - 1 + 1) : s2[i] = s[1 + i - 1] BY <1>2, SubSeqProperties
  <2> QED BY <1>1, <2>1
<1> QED BY <1>1, <1>3, <1>4 DEF Shrinks

\* What the calls under way promise does not depend on what has returned.
LEMMA OneRunKept ==
    ASSUME NEW runs, NEW runs2, NEW s \in Seq(Frames), NEW s2, Shrinks(s, s2), OneRun(runs, s),
           \A r \in Runs : Live(runs[r]) => Live(runs2[r]) /\ runs2[r].refused = runs[r].refused
    PROVE  OneRun(runs2, s2)
<1>1. Len(s) \in Nat /\ Len(s2) \in Nat BY DEF Shrinks
<1>2. SUFFICES ASSUME NEW i \in 1..Len(s2)
               PROVE  /\ Live(runs2[s2[i].run]) /\ s2[i].run = s2[1].run
                      /\ s2[i].task = NoTask => i = 1 /\ ~runs2[s2[i].run].refused
  BY DEF OneRun
<1>3. i \in 1..Len(s) /\ 1 \in 1..Len(s2) /\ 1 \in 1..Len(s) BY <1>1 DEF Shrinks
<1>4. s2[i].run = s[i].run /\ s2[i].task = s[i].task /\ s2[1].run = s[1].run BY <1>3 DEF Shrinks
<1>5. s[i] \in Frames /\ s[i].run \in Runs
  <2>1. s[i] \in Frames BY <1>3
  <2> QED BY <2>1 DEF Frames
<1>6. Live(runs[s[i].run]) /\ s[i].run = s[1].run
      /\ (s[i].task = NoTask => i = 1 /\ ~runs[s[i].run].refused)
  BY <1>3 DEF OneRun
<1> QED BY <1>4, <1>5, <1>6

LEMMA PendingOnceKept ==
    ASSUME NEW s \in Seq(Frames), NEW s2, Shrinks(s, s2), NEW cb, NEW cl, PendingOnce(s, cb, cl)
    PROVE  PendingOnce(s2, cb, cl)
<1>1. Len(s) \in Nat /\ Len(s2) \in Nat BY DEF Shrinks
<1>2. ASSUME NEW i \in 1..Len(s2), NEW t \in s2[i].todo PROVE Uncalled(s2[i].run, t, cb, cl)
  <2>1. i \in 1..Len(s) /\ s2[i].run = s[i].run /\ t \in s[i].todo BY <1>1 DEF Shrinks
  <2> QED BY <2>1 DEF PendingOnce
<1> QED BY <1>2 DEF PendingOnce

LEMMA FramesCountedKept ==
    ASSUME NEW runs, NEW runs2, NEW s \in Seq(Frames), NEW s2, Shrinks(s, s2),
           NEW done, NEW counted, NEW counted2, FramesCounted(runs, s, done, counted),
           \A i \in 1..Len(s2) : runs2[s2[i].run].tasks = runs[s2[i].run].tasks,
           \A i \in 1..Len(s2) : s2[i].task \in counted2[s2[i].run] => s2[i].task \in counted[s2[i].run]
    PROVE  FramesCounted(runs2, s2, done, counted2)
<1>1. Len(s) \in Nat /\ Len(s2) \in Nat /\ Len(s2) <= Len(s) BY DEF Shrinks
<1>2. \A i \in 1..Len(s2) : i \in 1..Len(s) BY <1>1
<1>3. ASSUME NEW i \in 1..Len(s2)
      PROVE  /\ s2[i].task # NoTask =>
                  s2[i].task \in (runs2[s2[i].run].tasks \cap done[s2[i].run]) \ counted2[s2[i].run]
             /\ \A t \in s2[i].todo : Pending(runs2, done, s2[i].run, t)
             /\ \A j \in 1..Len(s2) :
                  i # j => s2[i].task # s2[j].task /\ s2[i].todo \cap s2[j].todo = {}
  <2>1. s2[i].run = s[i].run /\ s2[i].task = s[i].task /\ s2[i].todo \subseteq s[i].todo
    BY DEF Shrinks
  <2>2. /\ s[i].task # NoTask =>
             s[i].task \in (runs[s[i].run].tasks \cap done[s[i].run]) \ counted[s[i].run]
        /\ \A t \in s[i].todo : Pending(runs, done, s[i].run, t)
        /\ \A j \in 1..Len(s) : i # j => s[i].task # s[j].task /\ s[i].todo \cap s[j].todo = {}
    BY <1>2 DEF FramesCounted
  <2>3. s2[i].task # NoTask =>
             s2[i].task \in (runs2[s2[i].run].tasks \cap done[s2[i].run]) \ counted2[s2[i].run]
    BY <2>1, <2>2
  <2>4. \A t \in s2[i].todo : Pending(runs2, done, s2[i].run, t)
    BY <2>1, <2>2 DEF Pending
  <2>5. ASSUME NEW j \in 1..Len(s2), i # j
        PROVE  s2[i].task # s2[j].task /\ s2[i].todo \cap s2[j].todo = {}
    <3>1. j \in 1..Len(s) BY <1>2
    <3>2. s2[j].task = s[j].task /\ s2[j].todo \subseteq s[j].todo BY DEF Shrinks
    <3>3. s[i].task # s[j].task /\ s[i].todo \cap s[j].todo = {} BY <2>2, <2>5, <3>1
    <3> QED BY <2>1, <3>2, <3>3
  <2> QED BY <2>3, <2>4, <2>5
<1> QED BY <1>3 DEF FramesCounted

\* Waiters keep waiting while their runs change otherwise.
LEMMA WaitersKept ==
    ASSUME NEW runs, NEW runs2, NEW cb, NEW cl \in Seq(Runs \X StartupTasks \X BOOLEAN), NEW ps,
           cb \in [StartupTasks -> Seq(Runs)], ps \in SUBSET Runs,
           NEW done, NEW done2, WaitersBegun(runs, cb, cl, ps), WaitersPending(runs, cb, cl, done),
           \A r \in Runs : Begun(runs[r]) =>
               Begun(runs2[r]) /\ runs2[r].tasks = runs[r].tasks /\ done2[r] = done[r]
    PROVE  WaitersBegun(runs2, cb, cl, ps) /\ WaitersPending(runs2, cb, cl, done2)
<1>1. \A t \in StartupTasks : \A i \in 1..Len(cb[t]) : cb[t][i] \in Runs OBVIOUS
<1>2. \A i \in 1..Len(cl) : cl[i][1] \in Runs
  <2>1. \A i \in 1..Len(cl) : cl[i] \in Runs \X StartupTasks \X BOOLEAN OBVIOUS
  <2> QED BY <2>1
<1>3. WaitersBegun(runs2, cb, cl, ps) BY <1>1, <1>2 DEF WaitersBegun
<1>4. \A t \in StartupTasks : \A i \in 1..Len(cb[t]) : Pending(runs2, done2, cb[t][i], t)
  BY <1>1 DEF WaitersBegun, WaitersPending, Pending
<1>5. ASSUME NEW i \in 1..Len(cl) PROVE Pending(runs2, done2, cl[i][1], cl[i][2])
  <2>1. Begun(runs[cl[i][1]]) /\ Pending(runs, done, cl[i][1], cl[i][2])
    BY DEF WaitersBegun, WaitersPending
  <2> QED BY <1>2, <2>1 DEF Pending
<1> QED BY <1>3, <1>4, <1>5 DEF WaitersPending

\* NotifyChildren: task t of run r becomes done and its children that wait for nothing else
\* are to be started, by a call above s.  They were not pending, because they waited for t;
\* and t itself waited nowhere else.
NotifyCase(runs, s, cb, cl, done, counted, r, t, x, runs2, s2, done2) ==
    /\ deps \in [StartupTasks -> SUBSET StartupTasks]
    /\ runs \in [Runs -> RunRecords] /\ s \in Seq(Frames)
    /\ cb \in [StartupTasks -> Seq(Runs)] /\ cl \in Seq(Runs \X StartupTasks \X BOOLEAN)
    /\ done \in Histories /\ counted \in Histories
    /\ r \in Runs /\ t \in StartupTasks /\ RunSettled(runs[r]) /\ Live(runs[r])
    /\ \A u \in done[r] : deps[u] \subseteq done[r]
    /\ counted[r] \subseteq done[r] /\ Counts(runs[r], done[r], counted[r])
    /\ OneRun(runs, s) /\ FramesCounted(runs, s, done, counted) /\ PendingOnce(s, cb, cl)
    /\ WaitersPending(runs, cb, cl, done)
    /\ \A i \in 1..Len(s) : s[i].run = r /\ t \notin s[i].todo
    /\ Pending(runs, done, r, t) /\ Uncalled(r, t, cb, cl)
    /\ x = Lowered(runs[r], t) /\ runs2 = [runs EXCEPT ![r] = x]
    /\ s2 = Append(s, Frame(r, t, {c \in Children(x, t) : x.inDegree[c] = 0}))
    /\ done2 = [done EXCEPT ![r] = @ \cup {t}]

NotifyResult(cb, cl, counted, r, x, runs2, s2, done2) ==
    /\ s2 \in Seq(Frames) /\ OneRun(runs2, s2) /\ FramesCounted(runs2, s2, done2, counted)
    /\ PendingOnce(s2, cb, cl) /\ WaitersPending(runs2, cb, cl, done2)
    /\ Counts(x, done2[r], counted[r]) /\ counted[r] \subseteq done2[r]
    /\ \A u \in done2[r] : deps[u] \subseteq done2[r]

LEMMA NotifyKept ==
    ASSUME NEW runs, NEW s, NEW cb, NEW cl, NEW done, NEW counted, NEW r, NEW t, NEW x,
           NEW runs2, NEW s2, NEW done2,
           NotifyCase(runs, s, cb, cl, done, counted, r, t, x, runs2, s2, done2)
    PROVE  NotifyResult(cb, cl, counted, r, x, runs2, s2, done2)
<1> SUFFICES
      ASSUME deps \in [StartupTasks -> SUBSET StartupTasks],
             runs \in [Runs -> RunRecords], s \in Seq(Frames),
             cb \in [StartupTasks -> Seq(Runs)], cl \in Seq(Runs \X StartupTasks \X BOOLEAN),
             done \in Histories, counted \in Histories,
             r \in Runs, t \in StartupTasks, RunSettled(runs[r]), Live(runs[r]),
             \A u \in done[r] : deps[u] \subseteq done[r], counted[r] \subseteq done[r],
             Counts(runs[r], done[r], counted[r]),
             OneRun(runs, s), FramesCounted(runs, s, done, counted), PendingOnce(s, cb, cl),
             WaitersPending(runs, cb, cl, done),
             \A i \in 1..Len(s) : s[i].run = r /\ t \notin s[i].todo,
             Pending(runs, done, r, t), Uncalled(r, t, cb, cl),
             x = Lowered(runs[r], t), runs2 = [runs EXCEPT ![r] = x],
             s2 = Append(s, Frame(r, t, {c \in Children(x, t) : x.inDegree[c] = 0})),
             done2 = [done EXCEPT ![r] = @ \cup {t}]
      PROVE  /\ s2 \in Seq(Frames) /\ OneRun(runs2, s2) /\ FramesCounted(runs2, s2, done2, counted)
             /\ PendingOnce(s2, cb, cl) /\ WaitersPending(runs2, cb, cl, done2)
             /\ Counts(x, done2[r], counted[r]) /\ counted[r] \subseteq done2[r]
             /\ \A u \in done2[r] : deps[u] \subseteq done2[r]
  BY DEF NotifyCase, NotifyResult
<1> DEFINE ready == {c \in Children(x, t) : x.inDegree[c] = 0}
<1>1. /\ runs[r] \in RunRecords /\ Begun(runs[r]) /\ done[r] \in SUBSET StartupTasks
      /\ t \notin done[r] /\ t \in runs[r].tasks /\ deps[t] \subseteq done[r]
  BY DEF Live, Pending, Histories
<1>21. PICK run : run = runs[r] OBVIOUS
<1>22. run \in RunRecords /\ RunSettled(run) /\ Begun(run) /\ Counts(run, done[r], counted[r])
       /\ x = Lowered(run, t)
  BY <1>1, <1>21
<1> USE <1>22
<1>2. /\ x \in RunRecords /\ x.tasks = runs[r].tasks /\ x.refused = runs[r].refused
      /\ Live(x) <=> Live(runs[r])
  <2>1. x.tasks = run.tasks
    BY ONLY run \in RunRecords, RunSettled(run), x = Lowered(run, t), LoweredRun, ZenonT(60)
  <2>2. x \in RunRecords
    BY ONLY run \in RunRecords, RunSettled(run), x = Lowered(run, t), LoweredRun
  <2>3. Live(x) <=> Live(run)
    BY ONLY run \in RunRecords, RunSettled(run), x = Lowered(run, t), LoweredRun
  <2>4. x.refused = run.refused
    BY ONLY run \in RunRecords, RunSettled(run), x = Lowered(run, t), LoweredRun, ZenonT(60)
  <2> QED BY <1>21, <2>1, <2>2, <2>3, <2>4
<1>23. /\ Counts(x, done[r] \cup {t}, counted[r])
       /\ \A c \in Children(x, t) :
             c \in run.tasks /\ t \in deps[c] /\ (x.inDegree[c] = 0 => deps[c] \subseteq done[r] \cup {t})
  <2>1. PICK D \in SUBSET StartupTasks : D = done[r] BY <1>1
  <2>2. t \notin D /\ Counts(run, D, counted[r]) BY <1>1, <1>22, <2>1
  <2>3. Counts(x, D \cup {t}, counted[r])
    BY ONLY run \in RunRecords, RunSettled(run), Begun(run), x = Lowered(run, t), D \in SUBSET StartupTasks,
            t \in StartupTasks, deps \in [StartupTasks -> SUBSET StartupTasks], <2>2, LoweredCounts
  <2>4. \A c \in Children(x, t) :
           c \in run.tasks /\ t \in deps[c] /\ (x.inDegree[c] = 0 => deps[c] \subseteq D \cup {t})
    BY ONLY run \in RunRecords, RunSettled(run), Begun(run), x = Lowered(run, t), D \in SUBSET StartupTasks,
            t \in StartupTasks, deps \in [StartupTasks -> SUBSET StartupTasks], <2>2, LoweredCounts, ZenonT(60)
  <2> QED BY <2>1, <2>3, <2>4
<1>3. done2[r] = done[r] \cup {t} /\ \A q \in Runs : q # r => done2[q] = done[q]
  BY DEF Histories
<1>4. Counts(x, done2[r], counted[r]) BY <1>3, <1>23
<1>5. \A c \in ready : c \in runs[r].tasks /\ t \in deps[c] /\ deps[c] \subseteq done2[r]
  BY <1>3, <1>21, <1>23
<1>6. \A c \in ready : c \notin done2[r] /\ c \in StartupTasks
  <2>1. runs[r].tasks \subseteq StartupTasks BY <1>1 DEF RunRecords
  <2> QED BY <1>1, <1>3, <1>5, <2>1
<1>7. \A q \in Runs : runs2[q].tasks = runs[q].tasks /\ runs2[q].refused = runs[q].refused
         /\ (Live(runs[q]) => Live(runs2[q]))
  BY <1>2
<1>8. PICK f : f = Frame(r, t, ready) OBVIOUS
<1>9. f \in Frames /\ f.run = r /\ f.task = t /\ f.todo = ready BY <1>6, <1>8 DEF Frame, Frames
<1>101. Len(s) \in Nat OBVIOUS
<1>10. PICK n \in Nat : n = Len(s) BY <1>101
<1>11. /\ s2 \in Seq(Frames) /\ Len(s2) = n + 1 /\ s2[n + 1] = f
       /\ \A i \in 1..n : s2[i] = s[i] /\ s2[i] \in Frames
  <2>1. s2 = Append(s, f) BY <1>8
  <2>2. /\ s2 \in Seq(Frames) /\ Len(s2) = n + 1 /\ s2[n + 1] = f
        /\ \A i \in 1..n : s2[i] = s[i]
    BY <1>9, <1>10, <2>1, AppendProperties
  <2>3. \A i \in 1..n : s[i] \in Frames BY <1>10
  <2> QED BY <2>2, <2>3
<1>12. \A i \in 1..(n + 1) : i \in 1..n \/ i = n + 1 BY ONLY <1>10
<1> HIDE DEF ready
<1>13. ASSUME NEW q \in Runs, NEW u, Pending(runs, done, q, u), q # r \/ u # t
       PROVE  Pending(runs2, done2, q, u)
  BY <1>3, <1>7, <1>13 DEF Pending
<1>14. OneRun(runs2, s2)
  <2> SUFFICES ASSUME NEW i \in 1..(n + 1)
               PROVE  /\ Live(runs2[s2[i].run]) /\ s2[i].run = s2[1].run
                      /\ s2[i].task = NoTask => i = 1 /\ ~runs2[s2[i].run].refused
    BY <1>11 DEF OneRun
  <2>1. s2[1].run = r
    <3>1. CASE n = 0 BY <1>9, <1>11, <3>1
    <3>2. CASE n # 0
      <4>1. 1 \in 1..n BY <3>2
      <4> QED BY <1>10, <1>11, <4>1
    <3> QED BY <3>1, <3>2
  <2>2. CASE i \in 1..n
    <3>1. s2[i] = s[i] /\ s[i].run = r BY <1>10, <1>11, <2>2
    <3>2. s[i].task = NoTask => i = 1 /\ ~runs[s[i].run].refused BY <1>10, <2>2 DEF OneRun
    <3> QED BY <1>7, <2>1, <3>1, <3>2
  <2>3. CASE i = n + 1
    <3>1. t # NoTask BY StartupConstants DEF NoTask
    <3> QED BY <1>7, <1>9, <1>11, <2>1, <2>3, <3>1
  <2> QED BY <1>12, <2>2, <2>3
<1>15. \A i \in 1..n : ready \cap s[i].todo = {} /\ s[i].task # t
  <2> TAKE i \in 1..n
  <2>0. s[i].run = r BY <1>10
  <2>1. \A u \in s[i].todo : Pending(runs, done, r, u) BY <1>10, <2>0 DEF FramesCounted
  <2>2. s[i].task # NoTask => s[i].task \in done[r] BY <1>10 DEF FramesCounted
  <2>3. t # NoTask BY StartupConstants DEF NoTask
  <2> QED BY <1>1, <1>5, <2>1, <2>2, <2>3 DEF Pending
<1>16. FramesCounted(runs2, s2, done2, counted)
  <2> SUFFICES ASSUME NEW i \in 1..(n + 1)
               PROVE  /\ s2[i].task # NoTask =>
                            s2[i].task \in (runs2[s2[i].run].tasks \cap done2[s2[i].run]) \ counted[s2[i].run]
                      /\ \A u \in s2[i].todo : Pending(runs2, done2, s2[i].run, u)
                      /\ \A j \in 1..(n + 1) :
                            i # j => s2[i].task # s2[j].task /\ s2[i].todo \cap s2[j].todo = {}
    BY <1>11, ZenonT(60) DEF FramesCounted
  <2>1. CASE i \in 1..n
    <3>1. s2[i] = s[i] /\ s[i].run = r BY <1>10, <1>11, <2>1
    <3>2. /\ s[i].task # NoTask => s[i].task \in (runs[r].tasks \cap done[r]) \ counted[r]
          /\ \A u \in s[i].todo : Pending(runs, done, r, u) /\ u # t
          /\ \A j \in 1..n : i # j => s[i].task # s[j].task /\ s[i].todo \cap s[j].todo = {}
      BY <1>10, <2>1, <3>1 DEF FramesCounted
    <3>3. \A j \in 1..(n + 1) : i # j => s2[i].task # s2[j].task /\ s2[i].todo \cap s2[j].todo = {}
      <4> TAKE j \in 1..(n + 1)
      <4>1. CASE j \in 1..n BY <1>11, <3>1, <3>2, <4>1
      <4>2. CASE j = n + 1 BY <1>9, <1>11, <1>15, <2>1, <3>1, <4>2
      <4> QED BY <1>12, <4>1, <4>2
    <3>4. \A u \in s2[i].todo : Pending(runs2, done2, s2[i].run, u) BY <1>13, <3>1, <3>2
    <3> QED BY <1>3, <1>7, <3>1, <3>2, <3>3, <3>4
  <2>2. CASE i = n + 1
    <3>1. s2[i] = f BY <1>11, <2>2
    <3>2. t \in (runs2[r].tasks \cap done2[r]) \ counted[r] BY <1>1, <1>3, <1>7
    <3>3. \A u \in ready : Pending(runs2, done2, r, u) BY <1>5, <1>6, <1>7 DEF Pending
    <3>4. \A j \in 1..(n + 1) : i # j => s2[i].task # s2[j].task /\ s2[i].todo \cap s2[j].todo = {}
      <4> TAKE j \in 1..(n + 1)
      <4>1. CASE j \in 1..n BY <1>9, <1>11, <1>15, <3>1, <4>1
      <4>2. CASE j = n + 1 BY <2>2, <4>2
      <4> QED BY <1>12, <4>1, <4>2
    <3> QED BY <1>9, <3>1, <3>2, <3>3, <3>4
  <2> QED BY <1>12, <2>1, <2>2
<1>17. PendingOnce(s2, cb, cl)
  <2>1. ASSUME NEW c \in ready PROVE Uncalled(r, c, cb, cl)
    <3>1. ~Pending(runs, done, r, c) BY <1>1, <1>5 DEF Pending
    <3>2. c \in StartupTasks BY <1>6
    <3> QED BY <3>1, <3>2 DEF WaitersPending, Uncalled
  <2>2. ASSUME NEW i \in 1..(n + 1), NEW u \in s2[i].todo PROVE Uncalled(s2[i].run, u, cb, cl)
    <3>1. CASE i \in 1..n BY <1>10, <1>11, <2>2, <3>1 DEF PendingOnce
    <3>2. CASE i = n + 1 BY <1>9, <1>11, <2>1, <2>2, <3>2
    <3> QED BY <1>12, <3>1, <3>2
  <2> QED BY <1>11, <2>2 DEF PendingOnce
<1>18. WaitersPending(runs2, cb, cl, done2)
  <2>1. ASSUME NEW u \in StartupTasks, NEW i \in 1..Len(cb[u]) PROVE Pending(runs2, done2, cb[u][i], u)
    <3>1. cb[u][i] \in Runs /\ Pending(runs, done, cb[u][i], u) BY DEF WaitersPending
    <3>2. cb[u][i] # r \/ u # t BY DEF Uncalled
    <3> QED BY <1>13, <3>1, <3>2
  <2>2. ASSUME NEW i \in 1..Len(cl) PROVE Pending(runs2, done2, cl[i][1], cl[i][2])
    <3>1. cl[i] \in Runs \X StartupTasks \X BOOLEAN OBVIOUS
    <3>2. cl[i][1] \in Runs /\ Pending(runs, done, cl[i][1], cl[i][2]) BY <3>1 DEF WaitersPending
    <3>3. cl[i][1] # r \/ cl[i][2] # t BY DEF Uncalled
    <3> QED BY <1>13, <3>2, <3>3
  <2> QED BY <2>1, <2>2 DEF WaitersPending
<1> QED BY <1>1, <1>3, <1>4, <1>11, <1>14, <1>16, <1>17, <1>18

\* Some of the calls of an event have been made.
Suffix(cl, cl2) ==
    /\ cl2 \in Seq(Runs \X StartupTasks \X BOOLEAN)
    /\ \E k \in Nat : \A i \in 1..Len(cl2) : i + k \in 1..Len(cl) /\ cl2[i] = cl[i + k]

LEMMA SuffixKept ==
    ASSUME NEW runs, NEW s, NEW cb, NEW cl, NEW cl2, NEW ps, NEW done, Suffix(cl, cl2),
           WaitersBegun(runs, cb, cl, ps), PendingOnce(s, cb, cl), WaitersPending(runs, cb, cl, done)
    PROVE  WaitersBegun(runs, cb, cl2, ps) /\ PendingOnce(s, cb, cl2) /\ WaitersPending(runs, cb, cl2, done)
<1>1. PICK k \in Nat : \A i \in 1..Len(cl2) : i + k \in 1..Len(cl) /\ cl2[i] = cl[i + k]
  BY DEF Suffix
<1>2. WaitersBegun(runs, cb, cl2, ps) BY <1>1 DEF WaitersBegun
<1>3. WaitersPending(runs, cb, cl2, done) BY <1>1 DEF WaitersPending
<1>4. \A i, j \in 1..Len(cl2) : (cl2[i][1] = cl2[j][1] => i = j) /\ cl2[i][2] = cl2[j][2]
  <2> TAKE i, j \in 1..Len(cl2)
  <2>1. i + k \in 1..Len(cl) /\ j + k \in 1..Len(cl) /\ cl2[i] = cl[i + k] /\ cl2[j] = cl[j + k]
    BY <1>1
  <2>2. (cl[i + k][1] = cl[j + k][1] => i + k = j + k) /\ cl[i + k][2] = cl[j + k][2]
    BY <2>1 DEF PendingOnce
  <2>3. i \in Int /\ j \in Int /\ k \in Int
    <3>1. Len(cl2) \in Nat BY DEF Suffix
    <3> QED BY <3>1
  <2> QED BY <2>1, <2>2, <2>3
<1>5. \A i \in 1..Len(s) : \A t \in s[i].todo : Uncalled(s[i].run, t, cb, cl2)
  BY <1>1 DEF PendingOnce, Uncalled
<1>6. \A i \in 1..Len(cl2) : \A j \in 1..Len(cb[cl2[i][2]]) : cb[cl2[i][2]][j] # cl2[i][1]
  <2> TAKE i \in 1..Len(cl2)
  <2>1. i + k \in 1..Len(cl) /\ cl2[i] = cl[i + k] BY <1>1
  <2> QED BY <2>1 DEF PendingOnce
<1>7. PendingOnce(s, cb, cl2) BY <1>4, <1>5, <1>6 DEF PendingOnce
<1> QED BY <1>2, <1>3, <1>7

LEMMA TailSuffix ==
    ASSUME NEW cl \in Seq(Runs \X StartupTasks \X BOOLEAN), cl # <<>>
    PROVE  Suffix(cl, Tail(cl)) /\ Suffix(cl, cl)
<1>1. Len(cl) \in Nat /\ Len(cl) > 0 OBVIOUS
<1>2. PICK c : c = Tail(cl) OBVIOUS
<1>3. c \in Seq(Runs \X StartupTasks \X BOOLEAN) /\ Len(c) = Len(cl) - 1
      /\ \A i \in 1..Len(c) : c[i] = cl[i + 1]
  BY <1>2, HeadTailProperties
<1>4. \A i \in 1..Len(c) : i + 1 \in 1..Len(cl) BY <1>1, <1>3
<1>5. 1 \in Nat OBVIOUS
<1>6. Suffix(cl, c) BY <1>3, <1>4, <1>5 DEF Suffix
<1>7. 0 \in Nat /\ \A i \in 1..Len(cl) : i + 0 \in 1..Len(cl) /\ cl[i] = cl[i + 0] BY <1>1
<1>8. Suffix(cl, cl) BY <1>7 DEF Suffix
<1> QED BY <1>2, <1>6, <1>8

LEMMA SuffixRefl ==
    ASSUME NEW cl \in Seq(Runs \X StartupTasks \X BOOLEAN) PROVE Suffix(cl, cl)
<1>1. Len(cl) \in Nat OBVIOUS
<1>2. 0 \in Nat /\ \A i \in 1..Len(cl) : i + 0 \in 1..Len(cl) /\ cl[i] = cl[i + 0] BY <1>1
<1> QED BY <1>2 DEF Suffix

LEMMA ShrinksRefl ==
    ASSUME NEW s \in Seq(Frames) PROVE Shrinks(s, s)
<1>1. Len(s) \in Nat OBVIOUS
<1> QED BY <1>1 DEF Shrinks

-----------------------------------------------------------------------------
(* The steps.                                                              *)

\* Progress of the next state, with the dependencies that never change.
LEMMA ProgressNext ==
    ASSUME deps' = deps, NEW done \in Histories, NEW counted \in Histories,
           \A q \in Runs : /\ done[q] \subseteq initialised' /\ counted[q] \subseteq done[q]
                           /\ \A t \in done[q] : deps[t] \subseteq done[q]
                           /\ Counts(startupRuns'[q], done[q], counted[q]),
           FramesCounted(startupRuns', stack', done, counted),
           WaitersPending(startupRuns', callbacks', calls', done)
    PROVE  Progress'
<1>3. RunsCounted(done, counted)' BY DEF RunsCounted, Counts
<1>4. FramesCounted(startupRuns, stack, done, counted)' BY DEF FramesCounted, Pending
<1>5. WaitersPending(startupRuns, callbacks, calls, done)' BY DEF WaitersPending, Pending
<1>6. Counted(done, counted)' BY <1>3, <1>4, <1>5 DEF Counted
<1> QED BY <1>6 DEF Progress

\* A step that tells a run something: its counts, the tasks and those that wait for them are
\* not changed, while calls return or events are consumed.
LEMMA RunStep ==
    ASSUME StartupInvariant, NEW r \in Runs, NEW x \in RunRecords, RunSettled(x),
           SameCounts(startupRuns[r], x), Begun(startupRuns[r]), Begun(x),
           x.outcome = "ok" => startupRuns[r].outcome = "ok",
           startupRuns' = [startupRuns EXCEPT ![r] = x], stage' \in {0} \cup Runs,
           UNCHANGED <<deps, taskState, callbacks, initialised>>,
           posted' \subseteq posted \cup {r}, Suffix(calls, calls'),
           Shrinks(stack, stack'), OneRun(startupRuns', stack')
    PROVE  StartupInvariant'
<1> USE DEF StartupInvariant
<1>1. startupRuns \in [Runs -> RunRecords] /\ posted \in SUBSET Runs BY DEF RunTypes
<1>2. \A q \in Runs : startupRuns'[q] = IF q = r THEN x ELSE startupRuns[q] BY <1>1
<1>3. RunTypes' BY <1>1 DEF RunTypes
<1>4. CallTypes' BY DEF CallTypes, Suffix, Shrinks
<1>5. RunsSettled'
  <2> SUFFICES ASSUME NEW q \in Runs
               PROVE  /\ RunSettled(startupRuns'[q])
                      /\ startupRuns'[q].outcome = "ok" => startupRuns'[q].tasks \subseteq initialised
                      /\ \A t \in startupRuns'[q].tasks : deps[t] \subseteq startupRuns'[q].tasks
    BY DEF RunsSettled
  <2>1. x.tasks = startupRuns[r].tasks BY DEF SameCounts
  <2> QED BY <1>2, <2>1 DEF RunsSettled
<1>6. TasksInOrder'
  <2>1. PICK k \in Nat : \A i \in 1..Len(calls') : i + k \in 1..Len(calls) /\ calls'[i] = calls[i + k]
    BY DEF Suffix
  <2>2. \A i \in 1..Len(calls') : calls'[i][3] => calls'[i][2] \in initialised BY <2>1 DEF TasksInOrder
  <2> QED BY <2>2 DEF TasksInOrder, StartupOrder
<1>7. PICK done \in Histories, counted \in Histories : Counted(done, counted) BY DEF Progress
<1>8. \A q \in Runs : Begun(startupRuns[q]) =>
        Begun(startupRuns'[q]) /\ startupRuns'[q].tasks = startupRuns[q].tasks /\ done[q] = done[q]
  BY <1>2 DEF SameCounts
<1>9. /\ WaitersBegun(startupRuns, callbacks, calls', posted)
      /\ PendingOnce(stack, callbacks, calls')
      /\ WaitersPending(startupRuns, callbacks, calls', done)
  BY <1>7, SuffixKept DEF Counted
<1>10. calls' \in Seq(Runs \X StartupTasks \X BOOLEAN) /\ callbacks \in [StartupTasks -> Seq(Runs)]
       /\ stack \in Seq(Frames)
  BY DEF Suffix, CallTypes
<1>11. /\ WaitersBegun(startupRuns', callbacks, calls', posted)
       /\ WaitersPending(startupRuns', callbacks, calls', done)
  <2>1. PICK runs2 : runs2 = startupRuns' OBVIOUS
  <2>2. PICK cl : cl = calls' OBVIOUS
  <2>3. WaitersBegun(runs2, callbacks, cl, posted) /\ WaitersPending(runs2, callbacks, cl, done)
    BY <1>1, <1>8, <1>9, <1>10, <2>1, <2>2, WaitersKept
  <2> QED BY <2>1, <2>2, <2>3
<1>12. WaitersBegun(startupRuns', callbacks', calls', posted')
  <2>1. \A q \in posted' : Begun(startupRuns'[q]) BY <1>1, <1>2, <1>11 DEF WaitersBegun
  <2> QED BY <1>11, <2>1 DEF WaitersBegun
<1>13. PendingOnce(stack', callbacks', calls') BY <1>9, <1>10, PendingOnceKept
<1>14. FramesCounted(startupRuns', stack', done, counted)
  <2>1. \A i \in 1..Len(stack') : startupRuns'[stack'[i].run].tasks = startupRuns[stack'[i].run].tasks
    <3> TAKE i \in 1..Len(stack')
    <3>1. stack'[i] \in Frames BY DEF Shrinks
    <3>2. stack'[i].run \in Runs BY <3>1 DEF Frames
    <3> QED BY <1>2, <3>2 DEF SameCounts
  <2> QED BY <1>7, <1>10, <2>1, FramesCountedKept DEF Counted
<1>15. ASSUME NEW q \in Runs
       PROVE  /\ done[q] \subseteq initialised' /\ counted[q] \subseteq done[q]
              /\ \A t \in done[q] : deps[t] \subseteq done[q]
              /\ Counts(startupRuns'[q], done[q], counted[q])
  <2>1. /\ done[q] \subseteq initialised /\ counted[q] \subseteq done[q]
        /\ \A t \in done[q] : deps[t] \subseteq done[q]
        /\ Counts(startupRuns[q], done[q], counted[q])
    BY <1>7 DEF Counted, RunsCounted
  <2>2. Counts(startupRuns'[q], done[q], counted[q])
    <3>1. CASE q = r
      <4>1. Counts(startupRuns[r], done[r], counted[r]) BY <2>1, <3>1
      <4>2. Counts(x, done[r], counted[r]) BY <4>1 DEF Counts, SameCounts
      <4> QED BY <1>2, <3>1, <4>2
    <3>2. CASE q # r BY <1>2, <2>1, <3>2
    <3> QED BY <3>1, <3>2
  <2> QED BY <2>1, <2>2
<1>16. Progress'
  <2>1. WaitersPending(startupRuns', callbacks', calls', done) BY <1>11
  <2> QED BY <1>7, <1>14, <1>15, <2>1, ProgressNext
<1> QED BY <1>3, <1>4, <1>5, <1>6, <1>12, <1>13, <1>16

\* SetRun: the new run, and the stage.
LEMMA SetRunEffect ==
    ASSUME StartupInvariant, NEW r \in Runs, NEW x, SetRun(r, x)
    PROVE  startupRuns' = [startupRuns EXCEPT ![r] = x] /\ stage' \in {0} \cup Runs
BY DEF SetRun, StartupInvariant, RunTypes

LEMMA RunFacts ==
    ASSUME StartupInvariant, NEW r \in Runs
    PROVE  startupRuns[r] \in RunRecords /\ RunSettled(startupRuns[r])
BY DEF StartupInvariant, RunTypes, RunsSettled

\* The call at the top of the stack.
LEMMA TopFacts ==
    ASSUME StartupInvariant, stack # <<>>
    PROVE  /\ Len(stack) \in 1..Len(stack) /\ Top = stack[Len(stack)] /\ Top \in Frames
           /\ Top.run \in Runs /\ Live(startupRuns[Top.run]) /\ Begun(startupRuns[Top.run])
           /\ Top.task = NoTask => Len(stack) = 1 /\ ~startupRuns[Top.run].refused
           /\ \A i \in 1..Len(stack) : stack[i].run = Top.run
<1>1. stack \in Seq(Frames) BY DEF StartupInvariant, CallTypes
<1>2. Len(stack) \in Nat /\ Len(stack) \in 1..Len(stack) BY <1>1
<1>3. stack[Len(stack)] \in Frames BY <1>1, <1>2
<1>4. Top = stack[Len(stack)] BY DEF Top
<1>5. Top.run \in Runs BY <1>3, <1>4 DEF Frames
<1>6. OneRun(startupRuns, stack) BY DEF StartupInvariant
<1>7. Live(startupRuns[Top.run]) /\ (Top.task = NoTask => Len(stack) = 1 /\ ~startupRuns[Top.run].refused)
  BY <1>2, <1>4, <1>6 DEF OneRun
<1>8. \A i \in 1..Len(stack) : stack[i].run = Top.run
  <2>1. \A i \in 1..Len(stack) : stack[i].run = stack[1].run BY <1>6 DEF OneRun
  <2> QED BY <1>2, <1>4, <2>1
<1> QED BY <1>2, <1>3, <1>4, <1>5, <1>7, <1>8 DEF Live

LEMMA OneRunEmpty == \A runs : OneRun(runs, <<>>)
BY DEF OneRun

LEMMA OnTimeoutKeeps ==
    ASSUME StartupInvariant, NEW r \in Runs, OnTimeout(r) PROVE StartupInvariant'
<1>1. PICK x : x = Told([startupRuns[r] EXCEPT !.timer = FALSE], "timeout") OBVIOUS
<1>2. SetRun(r, x) /\ startupRuns[r].timer /\ stack = <<>> /\ stack' = stack /\ calls' = calls
      /\ posted' = posted /\ UNCHANGED <<deps, taskState, callbacks, initialised>>
  BY <1>1 DEF OnTimeout, Idle
<1>3. startupRuns' = [startupRuns EXCEPT ![r] = x] /\ stage' \in {0} \cup Runs
  BY <1>2, SetRunEffect
<1>4. PICK run \in RunRecords : run = startupRuns[r] /\ RunSettled(run) BY RunFacts
<1>5. /\ x \in RunRecords /\ RunSettled(x) /\ SameCounts(run, x) /\ Begun(run) /\ Begun(x)
      /\ x.outcome = "timeout"
  BY <1>1, <1>2, <1>4, TimedOutRun
<1>6. Shrinks(stack, stack') /\ Suffix(calls, calls')
  BY <1>2, ShrinksRefl, SuffixRefl DEF StartupInvariant, CallTypes
<1>7. OneRun(startupRuns', stack') BY <1>2, OneRunEmpty
<1> QED BY <1>2, <1>3, <1>4, <1>5, <1>6, <1>7, RunStep

LEMMA RunPostedKeeps ==
    ASSUME StartupInvariant, NEW r \in Runs, RunPosted(r) PROVE StartupInvariant'
<1>1. PICK x : x = AwaitCalled(startupRuns[r]) OBVIOUS
<1>2. SetRun(r, x) /\ r \in posted /\ stack = <<>> /\ stack' = stack /\ calls' = calls
      /\ posted' = posted \ {r} /\ UNCHANGED <<deps, taskState, callbacks, initialised>>
  BY <1>1 DEF RunPosted, Idle
<1>3. startupRuns' = [startupRuns EXCEPT ![r] = x] /\ stage' \in {0} \cup Runs
  BY <1>2, SetRunEffect
<1>4. PICK run \in RunRecords : run = startupRuns[r] /\ RunSettled(run) BY RunFacts
<1>5. Begun(run) BY <1>2, <1>4 DEF StartupInvariant, WaitersBegun
<1>6. /\ x \in RunRecords /\ RunSettled(x) /\ SameCounts(run, x) /\ Begun(x)
      /\ x.outcome = run.outcome
  BY <1>1, <1>4, <1>5, AwaitCalledRun
<1>7. Shrinks(stack, stack') /\ Suffix(calls, calls')
  BY <1>2, ShrinksRefl, SuffixRefl DEF StartupInvariant, CallTypes
<1>8. OneRun(startupRuns', stack') BY <1>2, OneRunEmpty
<1> QED BY <1>2, <1>3, <1>4, <1>5, <1>6, <1>7, <1>8, RunStep

LEMMA StartTaskRefusedKeeps ==
    ASSUME StartupInvariant, stack # <<>>, NEW t, StartTaskRefused(t) PROVE StartupInvariant'
<1>1. PICK r \in Runs : r = Top.run BY TopFacts
<1>2. PICK x : x = Completed(startupRuns[r], "error") OBVIOUS
<1>3. SetRun(r, x) /\ stack' = [stack EXCEPT ![Len(stack)].failed = TRUE] /\ calls' = calls
      /\ posted' = posted \cup {r} /\ UNCHANGED <<deps, taskState, callbacks, initialised>>
  BY <1>1, <1>2 DEF StartTaskRefused, OnError
<1>4. startupRuns' = [startupRuns EXCEPT ![r] = x] /\ stage' \in {0} \cup Runs
  BY <1>3, SetRunEffect
<1>5. PICK run \in RunRecords : run = startupRuns[r] /\ RunSettled(run) BY RunFacts
<1>6. Live(run) /\ Begun(run) BY <1>1, <1>5, TopFacts
<1>7. /\ x \in RunRecords /\ RunSettled(x) /\ SameCounts(run, x) /\ Live(x)
      /\ x.outcome \in {"error", run.outcome} /\ x.refused = run.refused
  <2>1. "error" \in Outcomes BY DEF Outcomes
  <2> QED BY <1>2, <1>5, <1>6, <2>1, CompletedRun
<1>8. stack \in Seq(Frames) /\ startupRuns \in [Runs -> RunRecords] BY DEF StartupInvariant, CallTypes, RunTypes
<1>9. Shrinks(stack, stack') /\ Suffix(calls, calls')
  BY <1>3, <1>8, FailedShrinks, SuffixRefl DEF StartupInvariant, CallTypes
<1>10. OneRun(startupRuns', stack')
  <2>1. \A q \in Runs : Live(startupRuns[q]) => Live(startupRuns'[q]) /\ startupRuns'[q].refused = startupRuns[q].refused
    BY <1>4, <1>5, <1>7, <1>8
  <2>2. OneRun(startupRuns, stack) BY DEF StartupInvariant
  <2> QED BY <1>8, <1>9, <2>1, <2>2, OneRunKept
<1>11. Begun(x) BY <1>7 DEF Live
<1> QED BY <1>3, <1>4, <1>5, <1>6, <1>7, <1>9, <1>10, <1>11, RunStep

\* A call that returns without counting: Run, with or without an error, and Dispatch when
\* starting a child has failed.
LEMMA FrameDroppedKeeps ==
    ASSUME StartupInvariant, FrameReturns, Top.task = NoTask \/ Top.failed PROVE StartupInvariant'
<1>0. stack # <<>> BY DEF FrameReturns
<1>1. PICK r \in Runs : r = Top.run BY <1>0, TopFacts
<1>2. PICK run \in RunRecords : run = startupRuns[r] /\ RunSettled(run) BY RunFacts
<1>3. PICK x : x = IF Top.task = NoTask /\ Top.failed THEN RunFailed(run) ELSE run OBVIOUS
<1>4. SetRun(r, x) /\ stack' = Below /\ calls' = calls /\ posted' = posted
      /\ UNCHANGED <<deps, taskState, callbacks, initialised>>
  BY <1>1, <1>2, <1>3 DEF FrameReturns
<1>5. startupRuns' = [startupRuns EXCEPT ![r] = x] /\ stage' \in {0} \cup Runs
  BY <1>4, SetRunEffect
<1>6. Live(run) /\ Begun(run) BY <1>0, <1>1, <1>2, TopFacts
<1>7. stack \in Seq(Frames) /\ startupRuns \in [Runs -> RunRecords] BY DEF StartupInvariant, CallTypes, RunTypes
<1>8. Shrinks(stack, stack') /\ Len(stack') = Len(stack) - 1 BY <1>0, <1>4, <1>7, BelowShrinks DEF Below
<1>9. Suffix(calls, calls') BY <1>4, SuffixRefl DEF StartupInvariant, CallTypes
<1>10. CASE Top.task = NoTask /\ Top.failed
  <2>1. Len(stack) = 1 /\ ~run.refused BY <1>0, <1>1, <1>2, <1>10, TopFacts
  <2>2. /\ x \in RunRecords /\ RunSettled(x) /\ SameCounts(run, x) /\ Begun(x)
        /\ x.outcome \in {"error", run.outcome}
    BY <1>2, <1>3, <1>6, <1>10, <2>1, FailedRun
  <2>3. OneRun(startupRuns', stack') BY <1>8, <2>1 DEF OneRun
  <2> QED BY <1>2, <1>4, <1>5, <1>6, <1>8, <1>9, <2>2, <2>3, RunStep
<1>11. CASE ~(Top.task = NoTask /\ Top.failed)
  <2>1. x = run BY <1>3, <1>11
  <2>2. SameCounts(run, x) BY <2>1 DEF SameCounts
  <2>3. startupRuns' = startupRuns BY <1>2, <1>5, <1>7, <2>1
  <2>4. OneRun(startupRuns', stack')
    <3>1. OneRun(startupRuns, stack) BY DEF StartupInvariant
    <3> QED BY <1>7, <1>8, <2>3, <3>1, OneRunKept
  <2> QED BY <1>2, <1>4, <1>5, <1>6, <1>8, <1>9, <2>1, <2>2, <2>4, RunStep
<1> QED BY <1>10, <1>11

\* The rest of Dispatch: the task is counted, and the last one completes the run.
LEMMA FrameCountedKeeps ==
    ASSUME StartupInvariant, FrameReturns, Top.task # NoTask, ~Top.failed PROVE StartupInvariant'
<1>0. stack # <<>> BY DEF FrameReturns
<1>1. PICK r \in Runs : r = Top.run BY <1>0, TopFacts
<1>2. PICK run \in RunRecords : run = startupRuns[r] /\ RunSettled(run) BY RunFacts
<1>3. PICK t : t = Top.task OBVIOUS
<1>4. PICK x : x = Dispatched(run, t) OBVIOUS
<1>5. SetRun(r, x) /\ stack' = Below /\ calls' = calls /\ posted' = posted
      /\ UNCHANGED <<deps, taskState, callbacks, initialised>>
  BY <1>1, <1>2, <1>3, <1>4 DEF FrameReturns
<1>6. startupRuns' = [startupRuns EXCEPT ![r] = x] /\ stage' \in {0} \cup Runs
  BY <1>5, SetRunEffect
<1>7. Live(run) /\ Begun(run) BY <1>0, <1>1, <1>2, TopFacts
<1>8. /\ stack \in Seq(Frames) /\ startupRuns \in [Runs -> RunRecords]
      /\ callbacks \in [StartupTasks -> Seq(Runs)] /\ posted \in SUBSET Runs
      /\ calls \in Seq(Runs \X StartupTasks \X BOOLEAN)
  BY DEF StartupInvariant, CallTypes, RunTypes
<1>9. Shrinks(stack, stack') /\ Len(stack') = Len(stack) - 1 BY <1>0, <1>5, <1>8, BelowShrinks DEF Below
<1>10. PICK done \in Histories, counted \in Histories : Counted(done, counted)
  BY DEF StartupInvariant, Progress
<1>11. /\ done[r] \subseteq initialised /\ counted[r] \subseteq done[r]
       /\ \A u \in done[r] : deps[u] \subseteq done[r]
       /\ Counts(run, done[r], counted[r])
  BY <1>2, <1>10 DEF Counted, RunsCounted
<1>12. FramesCounted(startupRuns, stack, done, counted) /\ WaitersPending(startupRuns, callbacks, calls, done)
  BY <1>10 DEF Counted
<1>13. t \in run.tasks /\ t \in done[r] /\ t \notin counted[r] /\ t # NoTask
  <2>1. Len(stack) \in 1..Len(stack) /\ Top = stack[Len(stack)] BY <1>0, TopFacts
  <2> QED BY <1>1, <1>2, <1>3, <1>12, <2>1 DEF FramesCounted
<1>14. run.tasksCount > 0 /\ Counts(x, done[r], counted[r] \cup {t})
       /\ (run.tasksCount = 1 => run.tasks \subseteq counted[r] \cup {t})
  <2>1. PICK D : D = done[r] OBVIOUS
  <2>2. PICK C : C = counted[r] OBVIOUS
  <2>3. Counts(run, D, C) /\ t \notin C BY <1>11, <1>13, <2>1, <2>2
  <2>4. run.tasksCount > 0 /\ Counts(x, D, C \cup {t})
        /\ (run.tasksCount = 1 => run.tasks \subseteq C \cup {t})
    BY <1>2, <1>4, <1>7, <1>13, <2>3, DispatchedCounts
  <2> QED BY <2>1, <2>2, <2>4
<1>15. /\ x \in RunRecords /\ RunSettled(x) /\ Live(x) /\ x.tasks = run.tasks
       /\ x.refused = run.refused /\ (x.outcome = "ok" => run.outcome = "ok" \/ run.tasksCount = 1)
  BY <1>2, <1>4, <1>7, <1>14, DispatchedRun
<1>16. Begun(x) BY <1>15 DEF Live
<1>17. \A q \in Runs : startupRuns'[q] = IF q = r THEN x ELSE startupRuns[q] BY <1>6, <1>8
<1>18. RunTypes' BY <1>5, <1>6, <1>8, <1>15 DEF RunTypes, StartupInvariant
<1>19. CallTypes' BY <1>5, <1>9 DEF CallTypes, Shrinks, StartupInvariant
<1>20. RunsSettled'
  <2> SUFFICES ASSUME NEW q \in Runs
               PROVE  /\ RunSettled(startupRuns'[q])
                      /\ startupRuns'[q].outcome = "ok" => startupRuns'[q].tasks \subseteq initialised
                      /\ \A u \in startupRuns'[q].tasks : deps[u] \subseteq startupRuns'[q].tasks
    BY <1>5 DEF RunsSettled
  <2>1. /\ startupRuns[q].outcome = "ok" => startupRuns[q].tasks \subseteq initialised
        /\ \A u \in startupRuns[q].tasks : deps[u] \subseteq startupRuns[q].tasks
        /\ RunSettled(startupRuns[q])
    BY DEF StartupInvariant, RunsSettled
  <2>2. x.outcome = "ok" => x.tasks \subseteq initialised
    <3>1. run.outcome = "ok" => run.tasks \subseteq initialised
      BY <1>2 DEF StartupInvariant, RunsSettled
    <3>2. counted[r] \cup {t} \subseteq initialised BY <1>11, <1>13
    <3> QED BY <1>14, <1>15, <3>1, <3>2
  <2>3. CASE q = r BY <1>2, <1>15, <1>17, <2>1, <2>2, <2>3
  <2>4. CASE q # r BY <1>17, <2>1, <2>4
  <2> QED BY <2>3, <2>4
<1>21. TasksInOrder' BY <1>5 DEF TasksInOrder, StartupOrder, StartupInvariant
<1>22. OneRun(startupRuns', stack')
  <2>1. \A q \in Runs : Live(startupRuns[q]) => Live(startupRuns'[q]) /\ startupRuns'[q].refused = startupRuns[q].refused
    BY <1>2, <1>15, <1>17
  <2>2. OneRun(startupRuns, stack) BY DEF StartupInvariant
  <2> QED BY <1>8, <1>9, <2>1, <2>2, OneRunKept
<1>23. /\ WaitersBegun(startupRuns', callbacks', calls', posted')
       /\ WaitersPending(startupRuns', callbacks', calls', done)
  <2>1. \A q \in Runs : Begun(startupRuns[q]) =>
          Begun(startupRuns'[q]) /\ startupRuns'[q].tasks = startupRuns[q].tasks /\ done[q] = done[q]
    BY <1>2, <1>15, <1>16, <1>17
  <2>2. PICK runs2 : runs2 = startupRuns' OBVIOUS
  <2>3. WaitersBegun(startupRuns, callbacks, calls, posted) BY DEF StartupInvariant
  <2>4. WaitersBegun(runs2, callbacks, calls, posted) /\ WaitersPending(runs2, callbacks, calls, done)
    BY <1>8, <1>12, <2>1, <2>2, <2>3, WaitersKept
  <2> QED BY <1>5, <2>2, <2>4
<1>24. PendingOnce(stack', callbacks', calls')
  BY <1>5, <1>8, <1>9, PendingOnceKept DEF StartupInvariant
<1>25. PICK counted2 : counted2 = [counted EXCEPT ![r] = @ \cup {t}] OBVIOUS
<1>26. counted2 \in Histories /\ \A q \in Runs : counted2[q] = IF q = r THEN counted[q] \cup {t} ELSE counted[q]
  <2>1. t \in StartupTasks BY <1>13 DEF RunRecords
  <2> QED BY <1>25, <2>1 DEF Histories
<1>27. FramesCounted(startupRuns', stack', done, counted2)
  <2>1. ASSUME NEW i \in 1..Len(stack')
        PROVE  /\ startupRuns'[stack'[i].run].tasks = startupRuns[stack'[i].run].tasks
               /\ stack'[i].task \in counted2[stack'[i].run] => stack'[i].task \in counted[stack'[i].run]
    <3>1. stack'[i] \in Frames BY <1>9 DEF Shrinks
    <3>2. stack'[i].run \in Runs BY <3>1 DEF Frames
    <3>3. Len(stack) \in Nat /\ Len(stack') \in Nat /\ i \in 1..Len(stack) /\ i # Len(stack)
      BY <1>8, <1>9 DEF Shrinks
    <3>4. Len(stack) \in 1..Len(stack) /\ t = stack[Len(stack)].task BY <1>0, <1>3, TopFacts
    <3>5. stack[i].task # t BY <1>12, <3>3, <3>4 DEF FramesCounted
    <3>6. stack'[i].task # t BY <1>9, <3>5 DEF Shrinks
    <3> QED BY <1>2, <1>15, <1>17, <1>26, <3>2, <3>6
  <2> QED BY <1>8, <1>9, <1>12, <2>1, FramesCountedKept
<1>28. ASSUME NEW q \in Runs
       PROVE  /\ done[q] \subseteq initialised' /\ counted2[q] \subseteq done[q]
              /\ \A u \in done[q] : deps[u] \subseteq done[q]
              /\ Counts(startupRuns'[q], done[q], counted2[q])
  <2>1. /\ done[q] \subseteq initialised /\ counted[q] \subseteq done[q]
        /\ \A u \in done[q] : deps[u] \subseteq done[q]
        /\ Counts(startupRuns[q], done[q], counted[q])
    BY <1>10 DEF Counted, RunsCounted
  <2>2. CASE q = r BY <1>5, <1>13, <1>14, <1>17, <1>26, <2>1, <2>2
  <2>3. CASE q # r BY <1>5, <1>17, <1>26, <2>1, <2>3
  <2> QED BY <2>2, <2>3
<1>29. Progress' BY <1>5, <1>10, <1>23, <1>26, <1>27, <1>28, ProgressNext
<1> QED BY <1>18, <1>19, <1>20, <1>21, <1>22, <1>23, <1>24, <1>29 DEF StartupInvariant

\* Dispatch of a task that succeeded, from within another call or for an event.
LEMMA NotifyStep ==
    ASSUME StartupInvariant, NEW r \in Runs, NEW t \in StartupTasks, NEW s,
           Live(startupRuns[r]), t \in initialised,
           \A done, counted \in Histories : Counted(done, counted) => Pending(startupRuns, done, r, t),
           NotifyChildren(r, t, s), UNCHANGED <<deps, taskState, callbacks, initialised, posted>>,
           Shrinks(stack, s), Suffix(calls, calls'), Uncalled(r, t, callbacks, calls'),
           \A i \in 1..Len(s) : s[i].run = r /\ t \notin s[i].todo
    PROVE  StartupInvariant'
<1>1. PICK run \in RunRecords : run = startupRuns[r] /\ RunSettled(run) BY RunFacts
<1>2. PICK x : x = Lowered(run, t) OBVIOUS
<1>3. SetRun(r, x) /\ stack' = Append(s, Frame(r, t, {c \in Children(x, t) : x.inDegree[c] = 0}))
  BY <1>1, <1>2 DEF NotifyChildren
<1>4. startupRuns' = [startupRuns EXCEPT ![r] = x] /\ stage' \in {0} \cup Runs
  BY <1>3, SetRunEffect
<1>5. /\ stack \in Seq(Frames) /\ startupRuns \in [Runs -> RunRecords]
      /\ callbacks \in [StartupTasks -> Seq(Runs)] /\ posted \in SUBSET Runs
      /\ deps \in [StartupTasks -> SUBSET StartupTasks] /\ initialised \in SUBSET StartupTasks
  BY DEF StartupInvariant, CallTypes, RunTypes
<1>6. calls' \in Seq(Runs \X StartupTasks \X BOOLEAN) /\ s \in Seq(Frames) BY DEF Suffix, Shrinks
<1>7. PICK done \in Histories, counted \in Histories : Counted(done, counted)
  BY DEF StartupInvariant, Progress
<1>8. Pending(startupRuns, done, r, t) BY <1>7
<1>9. /\ WaitersBegun(startupRuns, callbacks, calls', posted)
      /\ PendingOnce(stack, callbacks, calls')
      /\ WaitersPending(startupRuns, callbacks, calls', done)
  <2>1. PICK cl : cl = calls' OBVIOUS
  <2>2. /\ WaitersBegun(startupRuns, callbacks, calls, posted) /\ PendingOnce(stack, callbacks, calls)
        /\ WaitersPending(startupRuns, callbacks, calls, done) /\ Suffix(calls, cl)
    BY <1>7, <2>1 DEF StartupInvariant, Counted
  <2> QED BY <2>1, <2>2, SuffixKept
<1>10. OneRun(startupRuns, s)
  <2>1. OneRun(startupRuns, stack) BY DEF StartupInvariant
  <2> QED BY <1>5, <2>1, OneRunKept
<1>11. PendingOnce(s, callbacks, calls') BY <1>5, <1>9, PendingOnceKept
<1>12. FramesCounted(startupRuns, s, done, counted)
  <2>1. FramesCounted(startupRuns, stack, done, counted) BY <1>7 DEF Counted
  <2> QED BY <1>5, <2>1, FramesCountedKept
<1>13. \A q \in Runs : /\ done[q] \subseteq initialised /\ counted[q] \subseteq done[q]
                       /\ \A u \in done[q] : deps[u] \subseteq done[q]
                       /\ Counts(startupRuns[q], done[q], counted[q])
  BY <1>7 DEF Counted, RunsCounted
<1>14. PICK done2 : done2 = [done EXCEPT ![r] = @ \cup {t}] OBVIOUS
<1>15. /\ stack' \in Seq(Frames) /\ OneRun(startupRuns', stack')
       /\ FramesCounted(startupRuns', stack', done2, counted)
       /\ PendingOnce(stack', callbacks, calls') /\ WaitersPending(startupRuns', callbacks, calls', done2)
       /\ Counts(x, done2[r], counted[r]) /\ counted[r] \subseteq done2[r]
       /\ \A u \in done2[r] : deps[u] \subseteq done2[r]
  <2>1. PICK runs2 : runs2 = startupRuns' OBVIOUS
  <2>2. PICK s2 : s2 = stack' OBVIOUS
  <2>3. PICK cl \in Seq(Runs \X StartupTasks \X BOOLEAN) : cl = calls' BY <1>6
  <2>4. PICK runs \in [Runs -> RunRecords] : runs = startupRuns BY <1>5
  <2>5. PICK cb \in [StartupTasks -> Seq(Runs)] : cb = callbacks BY <1>5
  <2>6. NotifyCase(runs, s, cb, cl, done, counted, r, t, x, runs2, s2, done2)
    BY <1>1, <1>2, <1>3, <1>4, <1>5, <1>6, <1>8, <1>9, <1>10, <1>11, <1>12, <1>13, <1>14,
       <2>1, <2>2, <2>3, <2>4, <2>5 DEF NotifyCase
  <2>7. NotifyResult(cb, cl, counted, r, x, runs2, s2, done2) BY ONLY <2>6, NotifyKept
  <2> QED BY <2>1, <2>2, <2>3, <2>4, <2>5, <2>7 DEF NotifyResult
<1>16. /\ x \in RunRecords /\ RunSettled(x) /\ x.tasks = run.tasks /\ x.outcome = run.outcome
       /\ Begun(x) <=> Begun(run)
  <2>0. RunSettled(run) /\ x = Lowered(run, t) BY <1>1, <1>2
  <2> USE <2>0
  <2>1. x \in RunRecords BY ONLY run \in RunRecords, RunSettled(run), x = Lowered(run, t), LoweredRun
  <2>2. RunSettled(x) BY ONLY run \in RunRecords, RunSettled(run), x = Lowered(run, t), LoweredRun
  <2>3. x.tasks = run.tasks BY DEF RunRecords, Lowered
  <2>4. x.outcome = run.outcome BY ONLY run \in RunRecords, RunSettled(run), x = Lowered(run, t), LoweredRun, ZenonT(60)
  <2>5. Begun(x) <=> Begun(run) BY ONLY run \in RunRecords, RunSettled(run), x = Lowered(run, t), LoweredRun
  <2> QED BY <2>1, <2>2, <2>3, <2>4, <2>5
<1>17. \A q \in Runs : startupRuns'[q] = IF q = r THEN x ELSE startupRuns[q] BY <1>4, <1>5
<1>18. RunTypes' BY <1>4, <1>5, <1>16 DEF RunTypes
<1>19. CallTypes' BY <1>6, <1>15 DEF CallTypes, StartupInvariant
<1>20. RunsSettled'
  <2> SUFFICES ASSUME NEW q \in Runs
               PROVE  /\ RunSettled(startupRuns'[q])
                      /\ startupRuns'[q].outcome = "ok" => startupRuns'[q].tasks \subseteq initialised
                      /\ \A u \in startupRuns'[q].tasks : deps[u] \subseteq startupRuns'[q].tasks
    BY DEF RunsSettled
  <2>1. /\ startupRuns[q].outcome = "ok" => startupRuns[q].tasks \subseteq initialised
        /\ \A u \in startupRuns[q].tasks : deps[u] \subseteq startupRuns[q].tasks
        /\ RunSettled(startupRuns[q])
    BY DEF StartupInvariant, RunsSettled
  <2> QED BY <1>1, <1>16, <1>17, <2>1
<1>21. TasksInOrder'
  <2>1. PICK k \in Nat : \A i \in 1..Len(calls') : i + k \in 1..Len(calls) /\ calls'[i] = calls[i + k]
    BY DEF Suffix
  <2>2. \A i \in 1..Len(calls') : calls'[i][3] => calls'[i][2] \in initialised
    BY <2>1 DEF TasksInOrder, StartupInvariant
  <2> QED BY <2>2 DEF TasksInOrder, StartupOrder, StartupInvariant
<1>22. WaitersBegun(startupRuns', callbacks', calls', posted')
  <2>1. \A q \in Runs : Begun(startupRuns[q]) =>
          Begun(startupRuns'[q]) /\ startupRuns'[q].tasks = startupRuns[q].tasks /\ done[q] = done[q]
    BY <1>1, <1>16, <1>17
  <2>2. PICK runs2 : runs2 = startupRuns' OBVIOUS
  <2>3. PICK cl \in Seq(Runs \X StartupTasks \X BOOLEAN) : cl = calls' BY <1>6
  <2>4. WaitersBegun(runs2, callbacks, cl, posted) BY <1>5, <1>9, <2>1, <2>2, <2>3, WaitersKept
  <2> QED BY <2>2, <2>3, <2>4
<1>23. done2 \in Histories /\ \A q \in Runs : done2[q] = IF q = r THEN done[q] \cup {t} ELSE done[q]
  BY <1>14 DEF Histories
<1>24. ASSUME NEW q \in Runs
       PROVE  /\ done2[q] \subseteq initialised' /\ counted[q] \subseteq done2[q]
              /\ \A u \in done2[q] : deps[u] \subseteq done2[q]
              /\ Counts(startupRuns'[q], done2[q], counted[q])
  <2>1. CASE q = r
    <3>1. done2[r] = done[r] \cup {t} BY <1>23
    <3>2. done2[r] \subseteq initialised' BY <1>13, <3>1
    <3>3. counted[r] \subseteq done2[r] BY <1>13, <3>1
    <3>4. Counts(x, done2[r], counted[r]) /\ \A u \in done2[r] : deps[u] \subseteq done2[r] BY <1>15
    <3>5. startupRuns'[r] = x BY <1>17
    <3> QED BY <2>1, <3>2, <3>3, <3>4, <3>5
  <2>2. CASE q # r BY <1>13, <1>17, <1>23, <2>2
  <2> QED BY <2>1, <2>2
<1>25. Progress' BY <1>7, <1>15, <1>23, <1>24, ProgressNext
<1> QED BY <1>15, <1>18, <1>19, <1>20, <1>21, <1>22, <1>25 DEF StartupInvariant

\* A task that the call at the top of the stack is about to start.
LEMMA TodoFacts ==
    ASSUME StartupInvariant, stack # <<>>, NEW t \in Top.todo
    PROVE  /\ t \in StartupTasks /\ Uncalled(Top.run, t, callbacks, calls)
           /\ deps[t] \subseteq initialised
           /\ \A done, counted \in Histories :
                 Counted(done, counted) => /\ Pending(startupRuns, done, Top.run, t)
                                           /\ \A i \in 1..Len(stack) : i # Len(stack) => t \notin stack[i].todo
<1>1. /\ Len(stack) \in 1..Len(stack) /\ Top = stack[Len(stack)] /\ Top \in Frames /\ Top.run \in Runs
  BY TopFacts
<1>2. t \in StartupTasks BY <1>1 DEF Frames
<1>3. PendingOnce(stack, callbacks, calls) BY DEF StartupInvariant
<1>4. Uncalled(Top.run, t, callbacks, calls) BY <1>1, <1>3 DEF PendingOnce
<1>5. ASSUME NEW done \in Histories, NEW counted \in Histories, Counted(done, counted)
      PROVE  /\ Pending(startupRuns, done, Top.run, t) /\ deps[t] \subseteq initialised
             /\ \A i \in 1..Len(stack) : i # Len(stack) => t \notin stack[i].todo
  <2>1. FramesCounted(startupRuns, stack, done, counted) BY <1>5 DEF Counted
  <2>2. Pending(startupRuns, done, Top.run, t) BY <1>1, <2>1 DEF FramesCounted
  <2>3. \A i \in 1..Len(stack) : i # Len(stack) => t \notin stack[i].todo BY <1>1, <2>1 DEF FramesCounted
  <2>4. done[Top.run] \subseteq initialised BY <1>1, <1>5 DEF Counted, RunsCounted
  <2>5. deps[t] \subseteq initialised BY <2>2, <2>4 DEF Pending
  <2> QED BY <2>2, <2>3, <2>5
<1>6. PICK done \in Histories, counted \in Histories : Counted(done, counted)
  BY DEF StartupInvariant, Progress
<1> QED BY <1>2, <1>4, <1>5, <1>6

LEMMA DispatchInitialisedKeeps ==
    ASSUME StartupInvariant, stack # <<>>, NEW t \in Top.todo, DispatchInitialised(t)
    PROVE  StartupInvariant'
<1>1. PICK r \in Runs : r = Top.run BY TopFacts
<1>2. Live(startupRuns[r]) /\ (\A i \in 1..Len(stack) : stack[i].run = r) /\ Len(stack) \in 1..Len(stack)
      /\ Top = stack[Len(stack)]
  BY <1>1, TopFacts
<1>3. t \in StartupTasks /\ Uncalled(r, t, callbacks, calls) BY <1>1, TodoFacts
<1>4. t \in initialised BY <1>3 DEF DispatchInitialised, StartupInvariant, TasksInOrder
<1>5. PICK s : s = Remaining(t) OBVIOUS
<1>6. NotifyChildren(r, t, s) /\ calls' = calls /\ UNCHANGED <<deps, taskState, callbacks, initialised, posted>>
  BY <1>1, <1>5 DEF DispatchInitialised
<1>7. stack \in Seq(Frames) /\ calls \in Seq(Runs \X StartupTasks \X BOOLEAN)
  BY DEF StartupInvariant, CallTypes
<1>8. Shrinks(stack, s) /\ Len(s) = Len(stack) /\ s[Len(stack)].todo = stack[Len(stack)].todo \ {t}
  BY <1>5, <1>7, RemainingShrinks DEF Remaining
<1>9. Suffix(calls, calls') /\ Uncalled(r, t, callbacks, calls') BY <1>3, <1>6, <1>7, SuffixRefl
<1>10. \A done, counted \in Histories : Counted(done, counted) => Pending(startupRuns, done, r, t)
  BY <1>1, TodoFacts
<1>11. \A i \in 1..Len(s) : s[i].run = r /\ t \notin s[i].todo
  <2> TAKE i \in 1..Len(s)
  <2>1. PICK done \in Histories, counted \in Histories : Counted(done, counted)
    BY DEF StartupInvariant, Progress
  <2>2. i # Len(stack) => t \notin stack[i].todo BY <1>8, <2>1, TodoFacts
  <2>3. s[i].run = stack[i].run /\ s[i].todo \subseteq stack[i].todo BY <1>8 DEF Shrinks
  <2> QED BY <1>2, <1>8, <2>2, <2>3
<1> QED BY <1>2, <1>3, <1>4, <1>6, <1>8, <1>9, <1>10, <1>11, NotifyStep

LEMMA NextCallKeeps ==
    ASSUME StartupInvariant, NextCall PROVE StartupInvariant'
<1>1. /\ stack \in Seq(Frames) /\ startupRuns \in [Runs -> RunRecords]
      /\ callbacks \in [StartupTasks -> Seq(Runs)]
      /\ calls \in Seq(Runs \X StartupTasks \X BOOLEAN)
  BY DEF StartupInvariant, CallTypes, RunTypes
<1>2. calls # <<>> /\ stack = <<>> /\ calls' = Tail(calls)
      /\ UNCHANGED <<deps, taskState, callbacks, initialised>>
  BY DEF NextCall
<1>3. Len(calls) \in Nat /\ 1 \in 1..Len(calls) /\ Head(calls) = calls[1]
      /\ calls[1] \in Runs \X StartupTasks \X BOOLEAN
  BY <1>1, <1>2
<1>4. PICK r \in Runs : r = calls[1][1] BY <1>3
<1>5. PICK t \in StartupTasks : t = calls[1][2] BY <1>3
<1>6. PICK run \in RunRecords : run = startupRuns[r] /\ RunSettled(run) BY RunFacts
<1>7. Begun(run) BY <1>3, <1>4, <1>6 DEF StartupInvariant, WaitersBegun
<1>8. Suffix(calls, calls') BY <1>1, <1>2, TailSuffix
<1>9. run.listed => Live(run) BY <1>6, <1>7 DEF RunSettled, Live
<1>10. CASE ~run.listed /\ UNCHANGED <<startupRuns, stack, posted, stage>>
  <2>1. SameCounts(run, run) BY DEF SameCounts
  <2>2. startupRuns' = [startupRuns EXCEPT ![r] = run] BY <1>1, <1>6, <1>10
  <2>3. Shrinks(stack, stack') BY <1>1, <1>10, ShrinksRefl
  <2>4. OneRun(startupRuns', stack') BY <1>2, <1>10, OneRunEmpty
  <2>5. stage' \in {0} \cup Runs BY <1>10 DEF StartupInvariant, RunTypes
  <2> QED BY <1>2, <1>6, <1>7, <1>8, <1>10, <2>1, <2>2, <2>3, <2>4, <2>5, RunStep
<1>11. CASE run.listed /\ calls[1][3] /\ NotifyChildren(r, t, <<>>) /\ UNCHANGED posted
  <2>1. t \in initialised BY <1>3, <1>5, <1>11 DEF StartupInvariant, TasksInOrder
  <2>2. \A done, counted \in Histories : Counted(done, counted) => Pending(startupRuns, done, r, t)
    BY <1>3, <1>4, <1>5 DEF Counted, WaitersPending
  <2>3. PICK s : s = <<>> OBVIOUS
  <2>4. Shrinks(stack, s) BY <1>1, <1>2, <2>3, ShrinksRefl
  <2>5. PICK cl : cl = Tail(calls) OBVIOUS
  <2>6. PendingOnce(stack, callbacks, calls) BY DEF StartupInvariant
  <2>7. Len(cl) = Len(calls) - 1 /\ \A i \in 1..Len(cl) : cl[i] = calls[i + 1]
    BY <1>1, <1>2, <2>5, HeadTailProperties
  <2>8. ASSUME NEW j \in 1..Len(cl) PROVE cl[j][1] # r
    <3>1. j \in Nat /\ j >= 1 /\ j + 1 \in 1..Len(calls) /\ j + 1 # 1 BY <1>3, <2>7
    <3>2. calls[j + 1][1] # calls[1][1] BY <1>3, <2>6, <3>1 DEF PendingOnce
    <3> QED BY <1>4, <2>7, <3>2
  <2>9. \A j \in 1..Len(callbacks[t]) : callbacks[t][j] # r
    BY <1>3, <1>4, <1>5, <2>6 DEF PendingOnce
  <2>10. Uncalled(r, t, callbacks, calls') BY <1>2, <2>5, <2>8, <2>9 DEF Uncalled
  <2>11. Live(startupRuns[r]) BY <1>6, <1>9, <1>11
  <2>12. \A i \in 1..Len(s) : s[i].run = r /\ t \notin s[i].todo BY <2>3
  <2>13. NotifyChildren(r, t, s) /\ UNCHANGED <<deps, taskState, callbacks, initialised, posted>>
    BY <1>2, <1>11, <2>3
  <2> QED BY <1>8, <2>1, <2>2, <2>4, <2>10, <2>11, <2>12, <2>13, NotifyStep
<1>12. CASE run.listed /\ OnError(r) /\ UNCHANGED stack
  <2>1. PICK x : x = Completed(run, "error") OBVIOUS
  <2>2. SetRun(r, x) /\ posted' = posted \cup {r} BY <1>6, <1>12, <2>1 DEF OnError
  <2>3. startupRuns' = [startupRuns EXCEPT ![r] = x] /\ stage' \in {0} \cup Runs
    BY <2>2, SetRunEffect
  <2>4. "error" \in Outcomes BY DEF Outcomes
  <2>5. /\ x \in RunRecords /\ RunSettled(x) /\ SameCounts(run, x) /\ Live(x)
        /\ x.outcome \in {"error", run.outcome}
    BY <1>6, <1>7, <1>9, <1>12, <2>1, <2>4, CompletedRun
  <2>6. Begun(x) BY <2>5 DEF Live
  <2>7. Shrinks(stack, stack') BY <1>1, <1>12, ShrinksRefl
  <2>8. OneRun(startupRuns', stack') BY <1>2, <1>12, OneRunEmpty
  <2> QED BY <1>2, <1>6, <1>7, <1>8, <2>2, <2>3, <2>5, <2>6, <2>7, <2>8, RunStep
<1> QED BY <1>3, <1>4, <1>5, <1>6, <1>10, <1>11, <1>12 DEF NextCall

\* A step that changes no run: tasks are begun or completed, and runs begin to wait for them.
LEMMA SameRunsStep ==
    ASSUME StartupInvariant, UNCHANGED <<deps, startupRuns, posted, stage>>,
           initialised \subseteq initialised', initialised' \in SUBSET StartupTasks,
           CallTypes', TasksInOrder', Shrinks(stack, stack'),
           WaitersBegun(startupRuns, callbacks', calls', posted),
           PendingOnce(stack', callbacks', calls'),
           \A done, counted \in Histories :
               Counted(done, counted) => WaitersPending(startupRuns, callbacks', calls', done)
    PROVE  StartupInvariant'
<1>1. RunTypes' BY DEF StartupInvariant, RunTypes
<1>2. RunsSettled'
  <2> SUFFICES ASSUME NEW q \in Runs
               PROVE  /\ RunSettled(startupRuns[q])
                      /\ startupRuns[q].outcome = "ok" => startupRuns[q].tasks \subseteq initialised'
                      /\ \A u \in startupRuns[q].tasks : deps[u] \subseteq startupRuns[q].tasks
    BY DEF RunsSettled
  <2> QED BY DEF StartupInvariant, RunsSettled
<1>3. stack \in Seq(Frames) /\ OneRun(startupRuns, stack) BY DEF StartupInvariant, CallTypes
<1>4. OneRun(startupRuns, stack') BY <1>3, OneRunKept
<1>5. PICK done \in Histories, counted \in Histories : Counted(done, counted)
  BY DEF StartupInvariant, Progress
<1>6. FramesCounted(startupRuns, stack, done, counted) BY <1>5 DEF Counted
<1>7. FramesCounted(startupRuns, stack', done, counted) BY <1>3, <1>6, FramesCountedKept
<1>8. \A q \in Runs : /\ done[q] \subseteq initialised' /\ counted[q] \subseteq done[q]
                      /\ \A u \in done[q] : deps[u] \subseteq done[q]
                      /\ Counts(startupRuns[q], done[q], counted[q])
  BY <1>5 DEF Counted, RunsCounted
<1>9. WaitersPending(startupRuns, callbacks', calls', done) BY <1>5
<1>10. Progress' BY <1>5, <1>7, <1>8, <1>9, ProgressNext
<1> QED BY <1>1, <1>2, <1>4, <1>10 DEF StartupInvariant

\* The run at the top of the stack begins to wait for task t.
LEMMA WaitStep ==
    ASSUME StartupInvariant, stack # <<>>, NEW t \in Top.todo,
           UNCHANGED <<deps, startupRuns, initialised, calls, posted, stage>>,
           callbacks' = [callbacks EXCEPT ![t] = Append(@, Top.run)], stack' = Remaining(t),
           taskState' \in [StartupTasks -> {"CREATED", "INITIALIZING", "LOST", "INITIALIZED"}],
           TasksInOrder'
    PROVE  StartupInvariant'
<1>1. PICK r \in Runs : r = Top.run BY TopFacts
<1>2. Begun(startupRuns[r]) /\ (\A i \in 1..Len(stack) : stack[i].run = r) /\ Len(stack) \in 1..Len(stack)
      /\ Top = stack[Len(stack)]
  BY <1>1, TopFacts
<1>3. t \in StartupTasks /\ Uncalled(r, t, callbacks, calls) BY <1>1, TodoFacts
<1>4. /\ stack \in Seq(Frames) /\ callbacks \in [StartupTasks -> Seq(Runs)]
      /\ calls \in Seq(Runs \X StartupTasks \X BOOLEAN)
  BY DEF StartupInvariant, CallTypes
<1>5. PICK s : s = stack' OBVIOUS
<1>6. Shrinks(stack, s) /\ Len(s) = Len(stack) /\ s[Len(stack)].todo = stack[Len(stack)].todo \ {t}
  BY <1>4, <1>5, RemainingShrinks DEF Remaining
<1>7. PICK w : w = callbacks[t] OBVIOUS
<1>8. PICK w2 : w2 = Append(w, r) OBVIOUS
<1>9. w \in Seq(Runs) /\ Len(w) \in Nat BY <1>3, <1>4, <1>7
<1>10. /\ w2 \in Seq(Runs) /\ Len(w2) = Len(w) + 1 /\ w2[Len(w) + 1] = r
       /\ \A i \in 1..Len(w) : w2[i] = w[i]
  BY <1>8, <1>9, AppendProperties
<1>11. \A i \in 1..Len(w2) : i \in 1..Len(w) \/ i = Len(w) + 1 BY <1>9, <1>10
<1>12. PICK cb : cb = callbacks' OBVIOUS
<1>13. cb \in [StartupTasks -> Seq(Runs)] /\ \A u \in StartupTasks : cb[u] = IF u = t THEN w2 ELSE callbacks[u]
  BY <1>1, <1>3, <1>4, <1>7, <1>8, <1>10, <1>12
<1>14. CallTypes' BY <1>4, <1>5, <1>6, <1>12, <1>13 DEF CallTypes, Shrinks
<1>15. WaitersBegun(startupRuns, cb, calls, posted)
  <2>1. WaitersBegun(startupRuns, callbacks, calls, posted) BY DEF StartupInvariant
  <2>2. \A i \in 1..Len(w2) : Begun(startupRuns[w2[i]])
    <3>1. \A i \in 1..Len(w) : Begun(startupRuns[w[i]]) BY <1>3, <1>7, <2>1 DEF WaitersBegun
    <3> QED BY <1>2, <1>10, <1>11, <3>1
  <2>3. \A u \in StartupTasks : \A i \in 1..Len(cb[u]) : Begun(startupRuns[cb[u][i]])
    BY <1>13, <2>1, <2>2 DEF WaitersBegun
  <2> QED BY <2>1, <2>3 DEF WaitersBegun
<1>16. ASSUME NEW done \in Histories, NEW counted \in Histories, Counted(done, counted)
       PROVE  WaitersPending(startupRuns, cb, calls, done)
  <2>1. WaitersPending(startupRuns, callbacks, calls, done) BY <1>16 DEF Counted
  <2>2. Pending(startupRuns, done, r, t) BY <1>1, <1>16, TodoFacts
  <2>3. \A i \in 1..Len(w2) : Pending(startupRuns, done, w2[i], t)
    <3>1. \A i \in 1..Len(w) : Pending(startupRuns, done, w[i], t) BY <1>3, <1>7, <2>1 DEF WaitersPending
    <3> QED BY <1>10, <1>11, <2>2, <3>1
  <2>4. \A u \in StartupTasks : \A i \in 1..Len(cb[u]) : Pending(startupRuns, done, cb[u][i], u)
    BY <1>13, <2>1, <2>3 DEF WaitersPending
  <2> QED BY <2>1, <2>4 DEF WaitersPending
<1>17. PendingOnce(s, cb, calls)
  <2>1. PendingOnce(s, callbacks, calls) BY <1>4, <1>6, PendingOnceKept DEF StartupInvariant
  <2>2. \A i \in 1..Len(w) : w[i] # r BY <1>3, <1>7 DEF Uncalled
  <2>3. \A i, j \in 1..Len(w2) : w2[i] = w2[j] => i = j
    <3>1. \A i, j \in 1..Len(w) : w[i] = w[j] => i = j BY <1>3, <1>7, <2>1 DEF PendingOnce
    <3>2. SUFFICES ASSUME NEW i \in 1..Len(w2), NEW j \in 1..Len(w2), w2[i] = w2[j] PROVE i = j
      OBVIOUS
    <3>3. CASE i \in 1..Len(w) /\ j \in 1..Len(w) BY <1>10, <3>1, <3>2, <3>3
    <3>4. CASE i \in 1..Len(w) /\ j = Len(w) + 1 BY <1>10, <2>2, <3>2, <3>4
    <3>5. CASE i = Len(w) + 1 /\ j \in 1..Len(w) BY <1>10, <2>2, <3>2, <3>5
    <3> QED BY <1>11, <3>3, <3>4, <3>5
  <2>4. \A u \in StartupTasks : \A i, j \in 1..Len(cb[u]) : cb[u][i] = cb[u][j] => i = j
    BY <1>13, <2>1, <2>3 DEF PendingOnce
  <2>5. ASSUME NEW i \in 1..Len(s), NEW u \in s[i].todo PROVE Uncalled(s[i].run, u, cb, calls)
    <3>1. Uncalled(s[i].run, u, callbacks, calls) BY <2>1 DEF PendingOnce
    <3>2. PICK done \in Histories, counted \in Histories : Counted(done, counted)
      BY DEF StartupInvariant, Progress
    <3>3. i # Len(stack) => t \notin stack[i].todo BY <1>6, <3>2, TodoFacts
    <3>4. u # t BY <1>2, <1>6, <3>3 DEF Shrinks
    <3>5. u \in StartupTasks
      <4>1. s[i] \in Frames BY <1>6 DEF Shrinks
      <4> QED BY <4>1 DEF Frames
    <3> QED BY <1>13, <3>1, <3>4, <3>5 DEF Uncalled
  <2>6. ASSUME NEW i \in 1..Len(calls), NEW j \in 1..Len(cb[calls[i][2]])
        PROVE  cb[calls[i][2]][j] # calls[i][1]
    <3>1. PICK u \in StartupTasks : u = calls[i][2]
      <4>1. calls[i] \in Runs \X StartupTasks \X BOOLEAN BY <1>4
      <4> QED BY <4>1
    <3>2. \A k \in 1..Len(callbacks[u]) : callbacks[u][k] # calls[i][1] BY <2>1, <3>1 DEF PendingOnce
    <3>3. CASE u # t BY <1>13, <3>1, <3>2, <3>3
    <3>4. CASE u = t
      <4>1. cb[u] = w2 /\ j \in 1..Len(w2) BY <1>13, <3>1, <3>4
      <4>2. calls[i][1] # r BY <1>3, <3>1, <3>4 DEF Uncalled
      <4>3. \A k \in 1..Len(w) : w[k] # calls[i][1] BY <1>7, <3>2, <3>4
      <4>4. w2[j] # calls[i][1] BY <1>10, <1>11, <4>1, <4>2, <4>3
      <4> QED BY <3>1, <4>1, <4>4
    <3> QED BY <3>3, <3>4
  <2>7. \A i, j \in 1..Len(calls) : (calls[i][1] = calls[j][1] => i = j) /\ calls[i][2] = calls[j][2]
    BY <2>1 DEF PendingOnce
  <2> QED BY <2>4, <2>5, <2>6, <2>7 DEF PendingOnce
<1>18. initialised \subseteq initialised' /\ initialised' \in SUBSET StartupTasks
  BY DEF StartupInvariant, RunTypes
<1> QED BY <1>5, <1>6, <1>12, <1>14, <1>15, <1>16, <1>17, <1>18, SameRunsStep

LEMMA StartTaskKeeps ==
    ASSUME StartupInvariant, stack # <<>>, NEW t \in Top.todo, StartTask(t) PROVE StartupInvariant'
<1>1. t \in StartupTasks /\ deps[t] \subseteq initialised BY TodoFacts
<1>2. /\ taskState \in [StartupTasks -> {"CREATED", "INITIALIZING", "LOST", "INITIALIZED"}]
      /\ callbacks \in [StartupTasks -> Seq(Runs)]
  BY DEF StartupInvariant, CallTypes
<1>3. PICK r \in Runs : r = Top.run BY TopFacts
<1>4. callbacks[t] = <<>> BY <1>1 DEF StartTask, StartupInvariant, TasksInOrder
<1>5. callbacks' = [callbacks EXCEPT ![t] = <<r>>] /\ taskState' = [taskState EXCEPT ![t] = "INITIALIZING"]
      /\ UNCHANGED <<deps, startupRuns, initialised, calls, posted, stage>> /\ stack' = Remaining(t)
  BY <1>3 DEF StartTask
<1>6. callbacks' = [callbacks EXCEPT ![t] = Append(@, Top.run)]
  <2>1. Append(callbacks[t], r) = <<r>> BY <1>4
  <2> QED BY <1>3, <1>5, <2>1
<1>7. \A u \in StartupTasks : callbacks'[u] = IF u = t THEN <<r>> ELSE callbacks[u] BY <1>2, <1>5
<1>8. \A u \in StartupTasks : taskState'[u] = IF u = t THEN "INITIALIZING" ELSE taskState[u] BY <1>2, <1>5
<1>9. TasksInOrder'
  <2>1. <<r>> # <<>> OBVIOUS
  <2>2. \A u \in StartupTasks : callbacks'[u] # <<>> <=> taskState'[u] = "INITIALIZING"
    BY <1>7, <1>8, <2>1 DEF StartupInvariant, TasksInOrder
  <2>3. \A u \in StartupTasks : taskState'[u] # "CREATED" => deps[u] \subseteq initialised
    BY <1>1, <1>8 DEF StartupInvariant, TasksInOrder, StartupOrder
  <2>4. \A u \in StartupTasks : taskState'[u] = "INITIALIZED" => u \in initialised
    BY <1>8 DEF StartupInvariant, TasksInOrder
  <2> QED BY <1>5, <2>2, <2>3, <2>4 DEF StartupInvariant, TasksInOrder, StartupOrder
<1>10. taskState' \in [StartupTasks -> {"CREATED", "INITIALIZING", "LOST", "INITIALIZED"}] BY <1>2, <1>5
<1> QED BY <1>5, <1>6, <1>9, <1>10, WaitStep

\* A step that changes neither runs nor those that wait.
LEMMA StateStep ==
    ASSUME StartupInvariant, UNCHANGED <<deps, startupRuns, initialised, callbacks, calls, posted, stage>>,
           Shrinks(stack, stack'),
           taskState' \in [StartupTasks -> {"CREATED", "INITIALIZING", "LOST", "INITIALIZED"}],
           \A u \in StartupTasks :
               /\ taskState'[u] = "INITIALIZING" <=> taskState[u] = "INITIALIZING"
               /\ taskState'[u] = "INITIALIZED" => taskState[u] = "INITIALIZED"
               /\ taskState'[u] # "CREATED" => deps[u] \subseteq initialised
    PROVE  StartupInvariant'
<1>1. CallTypes' BY DEF StartupInvariant, CallTypes, Shrinks
<1>2. TasksInOrder' BY DEF StartupInvariant, TasksInOrder, StartupOrder
<1>3. stack \in Seq(Frames) BY DEF StartupInvariant, CallTypes
<1>4. PendingOnce(stack', callbacks', calls') BY <1>3, PendingOnceKept DEF StartupInvariant
<1>5. WaitersBegun(startupRuns, callbacks', calls', posted) BY DEF StartupInvariant
<1>6. \A done, counted \in Histories :
         Counted(done, counted) => WaitersPending(startupRuns, callbacks', calls', done)
  BY DEF Counted
<1>7. initialised \subseteq initialised' /\ initialised' \in SUBSET StartupTasks
  BY DEF StartupInvariant, RunTypes
<1> QED BY <1>1, <1>2, <1>4, <1>5, <1>6, <1>7, SameRunsStep

LEMMA AddExtraCallbackKeeps ==
    ASSUME StartupInvariant, stack # <<>>, NEW t \in Top.todo, AddExtraCallback(t)
    PROVE  StartupInvariant'
<1>1. taskState' = taskState /\ UNCHANGED <<deps, startupRuns, initialised, calls, posted, stage>>
      /\ stack' = Remaining(t)
  BY DEF AddExtraCallback
<1>2. /\ taskState \in [StartupTasks -> {"CREATED", "INITIALIZING", "LOST", "INITIALIZED"}]
      /\ callbacks \in [StartupTasks -> Seq(Runs)] /\ stack \in Seq(Frames)
  BY DEF StartupInvariant, CallTypes
<1>3. CASE taskState[t] = "LOST"
  <2>1. callbacks' = callbacks BY <1>3 DEF AddExtraCallback
  <2>2. Shrinks(stack, stack') BY <1>1, <1>2, RemainingShrinks DEF Remaining
  <2>3. \A u \in StartupTasks : taskState[u] # "CREATED" => deps[u] \subseteq initialised
    BY DEF StartupInvariant, TasksInOrder, StartupOrder
  <2> QED BY <1>1, <1>2, <2>1, <2>2, <2>3, StateStep
<1>4. CASE taskState[t] # "LOST"
  <2>1. taskState[t] = "INITIALIZING" /\ callbacks' = [callbacks EXCEPT ![t] = Append(@, Top.run)]
    BY <1>4 DEF AddExtraCallback
  <2>2. t \in StartupTasks BY TodoFacts
  <2>3. PICK r \in Runs : r = Top.run BY TopFacts
  <2>4. callbacks[t] \in Seq(Runs) BY <1>2, <2>2
  <2>5. Append(callbacks[t], r) # <<>> BY <2>4, AppendProperties
  <2>6. \A u \in StartupTasks : callbacks'[u] = IF u = t THEN Append(callbacks[t], r) ELSE callbacks[u]
    BY <1>2, <2>1, <2>3
  <2>7. \A u \in StartupTasks : callbacks'[u] # <<>> <=> taskState[u] = "INITIALIZING"
    BY <2>1, <2>5, <2>6 DEF StartupInvariant, TasksInOrder
  <2>8. TasksInOrder' BY <1>1, <2>7 DEF StartupInvariant, TasksInOrder, StartupOrder
  <2> QED BY <1>1, <1>2, <2>1, <2>8, WaitStep
<1> QED BY <1>3, <1>4

LEMMA StartTaskLostKeeps ==
    ASSUME StartupInvariant, stack # <<>>, NEW t \in Top.todo, StartTaskLost(t)
    PROVE  StartupInvariant'
<1>1. t \in StartupTasks /\ deps[t] \subseteq initialised BY TodoFacts
<1>2. /\ taskState \in [StartupTasks -> {"CREATED", "INITIALIZING", "LOST", "INITIALIZED"}]
      /\ stack \in Seq(Frames)
  BY DEF StartupInvariant, CallTypes
<1>3. taskState[t] = "CREATED" /\ taskState' = [taskState EXCEPT ![t] = "LOST"]
      /\ UNCHANGED <<deps, startupRuns, initialised, callbacks, calls, posted, stage>>
      /\ stack' = [stack EXCEPT ![Len(stack)].failed = TRUE]
  BY DEF StartTaskLost
<1>4. Shrinks(stack, stack') BY <1>2, <1>3, FailedShrinks
<1>5. taskState' \in [StartupTasks -> {"CREATED", "INITIALIZING", "LOST", "INITIALIZED"}] BY <1>2, <1>3
<1>6. \A u \in StartupTasks : taskState'[u] = IF u = t THEN "LOST" ELSE taskState[u] BY <1>2, <1>3
<1>7. \A u \in StartupTasks :
         /\ taskState'[u] = "INITIALIZING" <=> taskState[u] = "INITIALIZING"
         /\ taskState'[u] = "INITIALIZED" => taskState[u] = "INITIALIZED"
         /\ taskState'[u] # "CREATED" => deps[u] \subseteq initialised
  BY <1>1, <1>3, <1>6 DEF StartupInvariant, TasksInOrder, StartupOrder
<1> QED BY <1>3, <1>4, <1>5, <1>7, StateStep

LEMMA RunTaskInitKeeps ==
    ASSUME StartupInvariant, RunTaskInit PROVE StartupInvariant'
<1>1. stack # <<>> BY DEF RunTaskInit
<1>2. PICK t \in Top.todo : \/ DispatchInitialised(t) \/ AddExtraCallback(t) \/ StartTask(t)
                            \/ StartTaskRefused(t) \/ StartTaskLost(t)
  BY DEF RunTaskInit
<1> QED BY <1>1, <1>2, DispatchInitialisedKeeps, AddExtraCallbackKeeps, StartTaskKeeps,
           StartTaskRefusedKeeps, StartTaskLostKeeps

LEMMA RemoveResultsKeeps ==
    ASSUME StartupInvariant, NEW tasks, RemoveResults(tasks) PROVE StartupInvariant'
<1>1. /\ taskState \in [StartupTasks -> {"CREATED", "INITIALIZING", "LOST", "INITIALIZED"}]
      /\ stack \in Seq(Frames)
  BY DEF StartupInvariant, CallTypes
<1>2. UNCHANGED <<deps, startupRuns, initialised, callbacks, calls, posted, stage>> /\ stack' = stack
      /\ taskState' = [t \in StartupTasks |->
                        IF t \in tasks /\ taskState[t] = "INITIALIZED" THEN "CREATED" ELSE taskState[t]]
  BY DEF RemoveResults
<1>3. taskState' \in [StartupTasks -> {"CREATED", "INITIALIZING", "LOST", "INITIALIZED"}] BY <1>1, <1>2
<1>4. \A u \in StartupTasks : taskState'[u] = taskState[u] \/ (taskState[u] = "INITIALIZED" /\ taskState'[u] = "CREATED")
  BY <1>2
<1>5. \A u \in StartupTasks :
         /\ taskState'[u] = "INITIALIZING" <=> taskState[u] = "INITIALIZING"
         /\ taskState'[u] = "INITIALIZED" => taskState[u] = "INITIALIZED"
         /\ taskState'[u] # "CREATED" => deps[u] \subseteq initialised
  BY <1>4 DEF StartupInvariant, TasksInOrder, StartupOrder
<1>6. Shrinks(stack, stack') BY <1>1, <1>2, ShrinksRefl
<1> QED BY <1>2, <1>3, <1>5, <1>6, StateStep

\* The runs that are called when a task completes: those that waited, each once.
LEMMA Rotated ==
    ASSUME NEW w \in Seq(Runs), w # <<>>, NEW v, v = Tail(w) \o <<Head(w)>>
    PROVE  /\ v \in Seq(Runs) /\ Len(v) = Len(w)
           /\ \A i \in 1..Len(w) : v[i] = IF i = Len(w) THEN w[1] ELSE w[i + 1]
<1>1. Len(w) \in Nat /\ Len(w) > 0 /\ Head(w) = w[1] /\ w[1] \in Runs OBVIOUS
<1>2. PICK a : a = Tail(w) OBVIOUS
<1>3. a \in Seq(Runs) /\ Len(a) = Len(w) - 1 /\ \A i \in 1..Len(a) : a[i] = w[i + 1]
  BY <1>2, HeadTailProperties
<1>4. v = Append(a, w[1])
  <2>1. v = a \o <<w[1]>> BY <1>1, <1>2
  <2> QED BY <1>1, <1>3, <2>1, AppendIsConcat
<1>5. v \in Seq(Runs) /\ Len(v) = Len(a) + 1 /\ v[Len(a) + 1] = w[1] /\ \A i \in 1..Len(a) : v[i] = a[i]
  BY <1>1, <1>3, <1>4, AppendProperties
<1> QED BY <1>1, <1>3, <1>5

LEMMA CompleteTaskKeeps ==
    ASSUME StartupInvariant, NEW t \in StartupTasks, NEW ok \in BOOLEAN, CompleteTask(t, ok)
    PROVE  StartupInvariant'
<1>1. /\ taskState \in [StartupTasks -> {"CREATED", "INITIALIZING", "LOST", "INITIALIZED"}]
      /\ callbacks \in [StartupTasks -> Seq(Runs)] /\ stack \in Seq(Frames)
      /\ initialised \in SUBSET StartupTasks
  BY DEF StartupInvariant, CallTypes, RunTypes
<1>2. PICK w \in Seq(Runs) : w = callbacks[t] BY <1>1
<1>3. w # <<>> BY <1>2 DEF CompleteTask, StartupInvariant, TasksInOrder
<1>4. PICK v : v = Tail(w) \o <<Head(w)>> OBVIOUS
<1>5. /\ v \in Seq(Runs) /\ Len(v) = Len(w)
      /\ \A i \in 1..Len(w) : v[i] = IF i = Len(w) THEN w[1] ELSE w[i + 1]
  BY <1>3, <1>4, Rotated
<1>6. PICK n \in Nat : n = Len(w) /\ n > 0 BY <1>3
<1>7. PICK cl : cl = [i \in 1..n |-> <<v[i], t, ok>>] OBVIOUS
<1>8. /\ stack = <<>> /\ stack' = stack /\ calls' = cl
      /\ taskState' = [taskState EXCEPT ![t] = IF ok THEN "INITIALIZED" ELSE "CREATED"]
      /\ initialised' = (IF ok THEN initialised \cup {t} ELSE initialised)
      /\ callbacks' = [callbacks EXCEPT ![t] = <<>>]
      /\ UNCHANGED <<deps, startupRuns, posted, stage>>
  BY <1>2, <1>4, <1>6, <1>7 DEF CompleteTask, Idle
<1>9. \A i \in 1..n : v[i] \in Runs /\ \E j \in 1..n : v[i] = w[j]
  <2> TAKE i \in 1..n
  <2>1. v[i] \in Runs BY <1>5, <1>6
  <2>2. CASE i = n BY <1>5, <1>6, <2>1, <2>2
  <2>3. CASE i # n
    <3>1. i + 1 \in 1..n BY <1>6, <2>3
    <3> QED BY <1>5, <1>6, <2>1, <2>3, <3>1
  <2> QED BY <2>2, <2>3
<1>10. cl \in Seq(Runs \X StartupTasks \X BOOLEAN) /\ Len(cl) = n
       /\ \A i \in 1..n : cl[i][1] = v[i] /\ cl[i][2] = t /\ cl[i][3] = ok
  <2>1. \A i \in 1..n : <<v[i], t, ok>> \in Runs \X StartupTasks \X BOOLEAN BY <1>9
  <2> QED BY <1>6, <1>7, <2>1
<1>11. PICK cb : cb = callbacks' OBVIOUS
<1>12. cb \in [StartupTasks -> Seq(Runs)] /\ \A u \in StartupTasks : cb[u] = IF u = t THEN <<>> ELSE callbacks[u]
  BY <1>1, <1>8, <1>11
<1>13. PICK st : st = IF ok THEN "INITIALIZED" ELSE "CREATED" OBVIOUS
<1>14. /\ taskState' \in [StartupTasks -> {"CREATED", "INITIALIZING", "LOST", "INITIALIZED"}]
       /\ \A u \in StartupTasks : taskState'[u] = IF u = t THEN st ELSE taskState[u]
  BY <1>1, <1>8, <1>13
<1>15. CallTypes' BY <1>1, <1>8, <1>10, <1>11, <1>12, <1>14 DEF CallTypes
<1>16. initialised \subseteq initialised' /\ initialised' \in SUBSET StartupTasks /\ (ok => t \in initialised')
  BY <1>1, <1>8
<1>17. TasksInOrder'
  <2>1. \A u \in StartupTasks : cb[u] # <<>> <=> taskState'[u] = "INITIALIZING"
    BY <1>12, <1>13, <1>14 DEF StartupInvariant, TasksInOrder
  <2>2. \A u \in StartupTasks : taskState'[u] = "INITIALIZED" => u \in initialised'
    BY <1>13, <1>14, <1>16 DEF StartupInvariant, TasksInOrder
  <2>3. \A u \in StartupTasks : taskState'[u] # "CREATED" => deps[u] \subseteq initialised'
    <3>1. \A u \in StartupTasks : taskState[u] # "CREATED" => deps[u] \subseteq initialised
      BY DEF StartupInvariant, TasksInOrder, StartupOrder
    <3>2. deps[t] \subseteq initialised BY <3>1 DEF CompleteTask
    <3> QED BY <1>14, <1>16, <3>1, <3>2
  <2>4. \A i \in 1..Len(cl) : cl[i][3] => cl[i][2] \in initialised' BY <1>10, <1>16
  <2> QED BY <1>8, <1>11, <2>1, <2>2, <2>3, <2>4 DEF TasksInOrder, StartupOrder
<1>18. WaitersBegun(startupRuns, cb, cl, posted)
  <2>1. WaitersBegun(startupRuns, callbacks, calls, posted) BY DEF StartupInvariant
  <2>2. \A j \in 1..n : Begun(startupRuns[w[j]]) BY <1>2, <1>6, <2>1 DEF WaitersBegun
  <2>3. \A i \in 1..Len(cl) : Begun(startupRuns[cl[i][1]])
    <3> TAKE i \in 1..Len(cl)
    <3>1. i \in 1..n BY <1>10
    <3>2. PICK j \in 1..n : v[i] = w[j] BY <1>9, <3>1
    <3>3. cl[i][1] = w[j] BY <1>10, <3>1, <3>2
    <3> QED BY <2>2, <3>3
  <2>4. \A u \in StartupTasks : \A i \in 1..Len(cb[u]) : Begun(startupRuns[cb[u][i]])
    BY <1>12, <2>1 DEF WaitersBegun
  <2> QED BY <2>1, <2>3, <2>4 DEF WaitersBegun
<1>19. ASSUME NEW done \in Histories, NEW counted \in Histories, Counted(done, counted)
       PROVE  WaitersPending(startupRuns, cb, cl, done)
  <2>1. WaitersPending(startupRuns, callbacks, calls, done) BY <1>19 DEF Counted
  <2>2. \A j \in 1..n : Pending(startupRuns, done, w[j], t) BY <1>2, <1>6, <2>1 DEF WaitersPending
  <2>3. \A i \in 1..Len(cl) : Pending(startupRuns, done, cl[i][1], cl[i][2])
    <3> TAKE i \in 1..Len(cl)
    <3>1. i \in 1..n BY <1>10
    <3>2. PICK j \in 1..n : v[i] = w[j] BY <1>9, <3>1
    <3>3. cl[i][1] = w[j] /\ cl[i][2] = t BY <1>10, <3>1, <3>2
    <3> QED BY <2>2, <3>3
  <2>4. \A u \in StartupTasks : \A i \in 1..Len(cb[u]) : Pending(startupRuns, done, cb[u][i], u)
    BY <1>12, <2>1 DEF WaitersPending
  <2> QED BY <2>3, <2>4 DEF WaitersPending
<1>20. PendingOnce(stack', cb, cl)
  <2>1. PendingOnce(stack, callbacks, calls) BY DEF StartupInvariant
  <2>2. \A u \in StartupTasks : \A i, j \in 1..Len(cb[u]) : cb[u][i] = cb[u][j] => i = j
    BY <1>12, <2>1 DEF PendingOnce
  <2>3. \A i, j \in 1..n : w[i] = w[j] => i = j BY <1>2, <1>6, <2>1 DEF PendingOnce
  <2>4. ASSUME NEW i \in 1..n, NEW j \in 1..n, v[i] = v[j] PROVE i = j
    <3>1. 1 \in 1..n /\ (i # n => i + 1 \in 1..n) /\ (j # n => j + 1 \in 1..n) BY <1>6
    <3>2. CASE i = n /\ j = n BY <3>2
    <3>3. CASE i = n /\ j # n
      <4>1. w[1] = w[j + 1] BY <1>5, <1>6, <2>4, <3>3
      <4>2. 1 = j + 1 BY <2>3, <3>1, <3>3, <4>1
      <4> QED BY <4>2
    <3>4. CASE i # n /\ j = n
      <4>1. w[1] = w[i + 1] BY <1>5, <1>6, <2>4, <3>4
      <4>2. 1 = i + 1 BY <2>3, <3>1, <3>4, <4>1
      <4> QED BY <4>2
    <3>5. CASE i # n /\ j # n
      <4>1. w[i + 1] = w[j + 1] BY <1>5, <1>6, <2>4, <3>5
      <4>2. i + 1 = j + 1 BY <2>3, <3>1, <3>5, <4>1
      <4> QED BY <4>2
    <3> QED BY <3>2, <3>3, <3>4, <3>5
  <2>5. \A i, j \in 1..Len(cl) : (cl[i][1] = cl[j][1] => i = j) /\ cl[i][2] = cl[j][2]
    BY <1>10, <2>4
  <2>6. \A i \in 1..Len(cl) : \A j \in 1..Len(cb[cl[i][2]]) : cb[cl[i][2]][j] # cl[i][1]
    BY <1>10, <1>12
  <2>7. \A i \in 1..Len(stack') : \A u \in stack'[i].todo : Uncalled(stack'[i].run, u, cb, cl) BY <1>8
  <2> QED BY <2>2, <2>5, <2>6, <2>7 DEF PendingOnce
<1>21. Shrinks(stack, stack') BY <1>1, <1>8, ShrinksRefl
<1> QED BY <1>8, <1>11, <1>15, <1>16, <1>17, <1>18, <1>19, <1>20, <1>21, SameRunsStep

\* A run is started: nothing waits for it yet.
LEMMA NewRunStep ==
    ASSUME StartupInvariant, stack = <<>>, calls = <<>>, NEW r \in Runs, startupRuns[r].kind = "none",
           NEW x \in RunRecords, RunSettled(x), x.outcome # "ok",
           \A t \in x.tasks : deps[t] \subseteq x.tasks, Counts(x, {}, {}),
           startupRuns' = [startupRuns EXCEPT ![r] = x], stage' \in {0} \cup Runs,
           UNCHANGED <<deps, taskState, callbacks, initialised, calls, posted>>,
           \/ stack' = <<>>
           \/ Live(x) /\ ~x.refused /\ stack' = <<Frame(r, NoTask, {t \in x.tasks : deps[t] = {}})>>
    PROVE  StartupInvariant'
<1>1. /\ startupRuns \in [Runs -> RunRecords] /\ posted \in SUBSET Runs
      /\ callbacks \in [StartupTasks -> Seq(Runs)]
      /\ calls \in Seq(Runs \X StartupTasks \X BOOLEAN)
  BY DEF StartupInvariant, CallTypes, RunTypes
<1>2. \A q \in Runs : startupRuns'[q] = IF q = r THEN x ELSE startupRuns[q] BY <1>1
<1>3. ~Begun(startupRuns[r])
  <2>1. RunSettled(startupRuns[r]) BY RunFacts
  <2> QED BY <2>1 DEF RunSettled, Managed
<1>4. PICK s : s = stack' OBVIOUS
<1>5. PICK todo : todo = {t \in x.tasks : deps[t] = {}} OBVIOUS
<1>6. todo \in SUBSET StartupTasks /\ todo \subseteq x.tasks BY <1>5 DEF RunRecords
<1>7. s = <<>> \/ (Live(x) /\ ~x.refused /\ s = <<Frame(r, NoTask, todo)>>) BY <1>4, <1>5
<1>8. s \in Seq(Frames) /\ Len(s) \in {0, 1}
      /\ \A i \in 1..Len(s) : /\ i = 1 /\ Live(x) /\ ~x.refused
                              /\ s[i].run = r /\ s[i].task = NoTask /\ s[i].todo = todo
  <2>1. CASE s = <<>> BY <2>1
  <2>2. CASE s # <<>>
    <3>1. PICK f : f = Frame(r, NoTask, todo) OBVIOUS
    <3>2. f \in Frames /\ f.run = r /\ f.task = NoTask /\ f.todo = todo BY <1>6, <3>1 DEF Frame, Frames
    <3>3. s = <<f>> /\ Live(x) /\ ~x.refused BY <1>7, <2>2, <3>1
    <3>4. s \in Seq(Frames) /\ Len(s) = 1 /\ s[1] = f BY <3>2, <3>3
    <3> QED BY <3>2, <3>3, <3>4
  <2> QED BY <2>1, <2>2
<1>9. RunTypes' BY <1>1 DEF RunTypes, StartupInvariant
<1>10. CallTypes' BY <1>4, <1>8 DEF CallTypes, StartupInvariant
<1>11. RunsSettled'
  <2> SUFFICES ASSUME NEW q \in Runs
               PROVE  /\ RunSettled(startupRuns'[q])
                      /\ startupRuns'[q].outcome = "ok" => startupRuns'[q].tasks \subseteq initialised
                      /\ \A u \in startupRuns'[q].tasks : deps[u] \subseteq startupRuns'[q].tasks
    BY DEF RunsSettled
  <2> QED BY <1>2 DEF RunsSettled, StartupInvariant
<1>12. TasksInOrder' BY DEF TasksInOrder, StartupOrder, StartupInvariant
<1>13. OneRun(startupRuns', s) BY <1>2, <1>8 DEF OneRun
<1>14. PICK done \in Histories, counted \in Histories : Counted(done, counted)
  BY DEF StartupInvariant, Progress
<1>15. PICK done2 : done2 = [done EXCEPT ![r] = {}] OBVIOUS
<1>16. PICK counted2 : counted2 = [counted EXCEPT ![r] = {}] OBVIOUS
<1>17. /\ done2 \in Histories /\ counted2 \in Histories
       /\ \A q \in Runs : /\ done2[q] = IF q = r THEN {} ELSE done[q]
                          /\ counted2[q] = IF q = r THEN {} ELSE counted[q]
  BY <1>14, <1>15, <1>16 DEF Histories
<1>18. /\ WaitersBegun(startupRuns', callbacks, calls, posted)
       /\ WaitersPending(startupRuns', callbacks, calls, done2)
  <2>1. \A q \in Runs : Begun(startupRuns[q]) =>
          Begun(startupRuns'[q]) /\ startupRuns'[q].tasks = startupRuns[q].tasks /\ done2[q] = done[q]
    BY <1>2, <1>3, <1>17
  <2>2. PICK runs2 : runs2 = startupRuns' OBVIOUS
  <2>3. WaitersBegun(startupRuns, callbacks, calls, posted) BY DEF StartupInvariant
  <2>4. WaitersPending(startupRuns, callbacks, calls, done) BY <1>14 DEF Counted
  <2>5. \A q \in Runs : Begun(startupRuns[q]) =>
          Begun(runs2[q]) /\ runs2[q].tasks = startupRuns[q].tasks /\ done2[q] = done[q]
    BY <2>1, <2>2
  <2>6. WaitersBegun(runs2, callbacks, calls, posted) /\ WaitersPending(runs2, callbacks, calls, done2)
    <3>1. WaitersBegun(runs2, callbacks, calls, posted) BY ONLY <1>1, <2>3, <2>4, <2>5, WaitersKept
    <3>2. \A t \in StartupTasks : \A i \in 1..Len(callbacks[t]) : callbacks[t][i] \in Runs BY <1>1
    <3>3. \A t \in StartupTasks : \A i \in 1..Len(callbacks[t]) : Pending(runs2, done2, callbacks[t][i], t)
      BY ONLY <2>3, <2>4, <2>5, <3>2 DEF WaitersBegun, WaitersPending, Pending
    <3>4. WaitersPending(runs2, callbacks, calls, done2) BY <3>3 DEF WaitersPending
    <3> QED BY <3>1, <3>4
  <2> QED BY <2>2, <2>6
<1>19. PendingOnce(s, callbacks, calls)
  <2>1. PendingOnce(stack, callbacks, calls) BY DEF StartupInvariant
  <2>2. \A t \in StartupTasks : \A j \in 1..Len(callbacks[t]) : callbacks[t][j] # r
    <3>1. WaitersBegun(startupRuns, callbacks, calls, posted) BY DEF StartupInvariant
    <3> QED BY <1>3, <3>1 DEF WaitersBegun
  <2>3. \A t \in StartupTasks : Uncalled(r, t, callbacks, calls) BY <2>2 DEF Uncalled
  <2>4. \A i \in 1..Len(s) : \A t \in s[i].todo : Uncalled(s[i].run, t, callbacks, calls)
    BY <1>6, <1>8, <2>3
  <2> QED BY <2>1, <2>4 DEF PendingOnce
<1>20. FramesCounted(startupRuns', s, done2, counted2)
  <2>1. \A t \in todo : Pending(startupRuns', done2, r, t) BY <1>2, <1>5, <1>6, <1>17 DEF Pending
  <2>2. \A i \in 1..Len(s) : s[i].task = NoTask /\ (\A t \in s[i].todo : Pending(startupRuns', done2, s[i].run, t))
    BY <1>8, <2>1
  <2>3. \A i, j \in 1..Len(s) : i = j BY <1>8
  <2> QED BY <2>2, <2>3 DEF FramesCounted
<1>21. ASSUME NEW q \in Runs
       PROVE  /\ done2[q] \subseteq initialised' /\ counted2[q] \subseteq done2[q]
              /\ \A u \in done2[q] : deps[u] \subseteq done2[q]
              /\ Counts(startupRuns'[q], done2[q], counted2[q])
  <2>1. CASE q = r BY <1>2, <1>17, <2>1
  <2>2. CASE q # r
    <3>1. /\ done[q] \subseteq initialised /\ counted[q] \subseteq done[q]
          /\ \A u \in done[q] : deps[u] \subseteq done[q]
          /\ Counts(startupRuns[q], done[q], counted[q])
      BY <1>14 DEF Counted, RunsCounted
    <3> QED BY <1>2, <1>17, <2>2, <3>1
  <2> QED BY <2>1, <2>2
<1>22. Progress' BY <1>4, <1>17, <1>18, <1>20, <1>21, ProgressNext
<1> QED BY <1>4, <1>9, <1>10, <1>11, <1>12, <1>13, <1>18, <1>19, <1>22 DEF StartupInvariant

LEMMA BuildAndRunKeeps ==
    ASSUME StartupInvariant, stack = <<>>, calls = <<>>, NEW r \in Runs, startupRuns[r].kind = "none",
           NEW kind \in {"auto", "js"}, NEW tasks \in SUBSET StartupTasks,
           \A t \in tasks : deps[t] \subseteq tasks, BuildAndRun(r, kind, tasks)
    PROVE  StartupInvariant'
<1>1. PICK run : run = [NoRun EXCEPT !.kind = kind, !.tasks = tasks, !.listed = TRUE] OBVIOUS
<1>10. NewRun(run, kind, tasks) BY <1>1 DEF NewRun
<1>2. deps \in [StartupTasks -> SUBSET StartupTasks] BY DEF StartupInvariant, RunTypes
<1>3. UNCHANGED <<deps, taskState, callbacks, initialised, calls, posted>> BY DEF BuildAndRun
<1>4. \/ \E x \in {run, LaunchedOnce(run), Told(run, "error"), LaunchedOnce(Told(run, "error"))} :
            SetRun(r, x) /\ stack' = stack
      \/ /\ tasks # {}
         /\ \E x \in {Prepared(run), AwaitCalled(Prepared(run))} : SetRun(r, x)
         /\ stack' = <<Frame(r, NoTask, {t \in tasks : deps[t] = {}})>>
  <2>1. CASE ~SortSucceeds(tasks) BY <1>1, <2>1 DEF BuildAndRun
  <2>2. CASE SortSucceeds(tasks) /\ tasks = {} BY <1>1, <2>2 DEF BuildAndRun
  <2>3. CASE SortSucceeds(tasks) /\ tasks # {} BY <1>1, <2>3 DEF BuildAndRun
  <2> QED BY <2>1, <2>2, <2>3
<1>5. ASSUME NEW x \in {run, LaunchedOnce(run), Told(run, "error"), LaunchedOnce(Told(run, "error"))},
             SetRun(r, x), stack' = stack
      PROVE  StartupInvariant'
  <2>1. /\ x \in RunRecords /\ RunSettled(x) /\ Counts(x, {}, {})
        /\ x.tasks \in {{}, tasks} /\ x.outcome # "ok"
    <3>1. x \in {run, LaunchedOnce(run), Told(run, "error"), LaunchedOnce(Told(run, "error")),
                 NoRun, LaunchedOnce([NoRun EXCEPT !.kind = "direct"])}
      BY <1>5
    <3> QED BY ONLY <1>10, <3>1, UnpreparedRun
  <2>2. \A t \in x.tasks : deps[t] \subseteq x.tasks BY <2>1
  <2>3. startupRuns' = [startupRuns EXCEPT ![r] = x] /\ stage' \in {0} \cup Runs BY <1>5, SetRunEffect
  <2> QED BY <1>3, <1>5, <2>1, <2>2, <2>3, NewRunStep
<1>6. ASSUME tasks # {}, NEW x \in {Prepared(run), AwaitCalled(Prepared(run))}, SetRun(r, x),
             stack' = <<Frame(r, NoTask, {t \in tasks : deps[t] = {}})>>
      PROVE  StartupInvariant'
  <2>1. /\ x \in RunRecords /\ RunSettled(x) /\ Live(x) /\ Counts(x, {}, {})
        /\ x.tasks = tasks /\ x.outcome = "none" /\ ~x.refused
    BY ONLY <1>2, <1>6, <1>10, x \in {Prepared(run), AwaitCalled(Prepared(run))}, PreparedRun
  <2>2. \A t \in x.tasks : deps[t] \subseteq x.tasks BY <2>1
  <2>3. startupRuns' = [startupRuns EXCEPT ![r] = x] /\ stage' \in {0} \cup Runs BY <1>6, SetRunEffect
  <2>4. stack' = <<Frame(r, NoTask, {t \in x.tasks : deps[t] = {}})>> BY <1>6, <2>1
  <2> QED BY <1>3, <2>1, <2>2, <2>3, <2>4, NewRunStep
<1> QED BY <1>4, <1>5, <1>6

LEMMA LaunchWithStartupKeeps ==
    ASSUME StartupInvariant, NEW r \in Runs, LaunchWithStartup(r) PROVE StartupInvariant'
<1>1. stack = <<>> /\ calls = <<>> /\ startupRuns[r].kind = "none" BY DEF LaunchWithStartup, Idle, NextRun
<1>2. deps \in [StartupTasks -> SUBSET StartupTasks] BY DEF StartupInvariant, RunTypes
<1>3. CASE stage # 0
  <2>1. PICK x : x = LaunchedOnce([NoRun EXCEPT !.kind = "direct"]) OBVIOUS
  <2>2. startupRuns' = [startupRuns EXCEPT ![r] = x] /\ stack' = <<>> /\ stage' \in {0} \cup Runs
        /\ UNCHANGED <<deps, taskState, callbacks, initialised, calls, posted>>
    BY <1>1, <1>3, <2>1 DEF LaunchWithStartup, StartupInvariant, RunTypes
  <2>3. PICK run : run = [NoRun EXCEPT !.kind = "auto", !.tasks = {}, !.listed = TRUE] OBVIOUS
  <2>4. /\ x \in RunRecords /\ RunSettled(x) /\ Counts(x, {}, {})
        /\ x.tasks \in {{}, {}} /\ x.outcome # "ok"
    <3>1. NewRun(run, "auto", {}) BY <2>3 DEF NewRun
    <3> QED BY ONLY <2>1, <3>1, UnpreparedRun
  <2>5. \A t \in x.tasks : deps[t] \subseteq x.tasks BY <2>4
  <2> QED BY <1>1, <2>2, <2>4, <2>5, NewRunStep
<1>4. CASE stage = 0
  <2>1. PICK tasks : tasks = WithDependencies(StartupTasks \ ExcludedTasks) OBVIOUS
  <2>2. BuildAndRun(r, "auto", tasks) BY <1>4, <2>1 DEF LaunchWithStartup
  <2>3. PICK input \in SUBSET StartupTasks : input = StartupTasks \ ExcludedTasks OBVIOUS
  <2>4. tasks \in SUBSET StartupTasks /\ \A t \in tasks : deps[t] \subseteq tasks
    BY <1>2, <2>1, <2>3, WithDependenciesCloses
  <2> QED BY <1>1, <2>2, <2>4, BuildAndRunKeeps
<1> QED BY <1>3, <1>4

LEMMA OnRunKeeps ==
    ASSUME StartupInvariant, NEW r \in Runs, NEW input \in SUBSET StartupTasks, OnRun(r, input)
    PROVE  StartupInvariant'
<1>1. stack = <<>> /\ calls = <<>> /\ startupRuns[r].kind = "none" BY DEF OnRun, Idle, NextRun
<1>2. deps \in [StartupTasks -> SUBSET StartupTasks] BY DEF StartupInvariant, RunTypes
<1>3. PICK tasks : tasks = WithDependencies(input) OBVIOUS
<1>4. BuildAndRun(r, "js", tasks) BY <1>3 DEF OnRun
<1>5. tasks \in SUBSET StartupTasks /\ \A t \in tasks : deps[t] \subseteq tasks
  BY <1>2, <1>3, WithDependenciesCloses
<1> QED BY <1>1, <1>4, <1>5, BuildAndRunKeeps

LEMMA StartupBegins ==
    ASSUME StartupInit PROVE StartupInvariant
<1>1. PICK run : run = [NoRun EXCEPT !.kind = "auto", !.tasks = {}, !.listed = TRUE] OBVIOUS
<1>2. PICK x : x = NoRun OBVIOUS
<1>3. /\ x \in RunRecords /\ RunSettled(x) /\ Counts(x, {}, {})
      /\ x.tasks \in {{}, {}} /\ x.outcome # "ok"
  <2>1. NewRun(run, "auto", {}) BY <1>1 DEF NewRun
  <2> QED BY ONLY <1>2, <2>1, UnpreparedRun
<1>4. startupRuns = [r \in Runs |-> x] BY <1>2 DEF StartupInit
<1>5. \A r \in Runs : startupRuns[r] = x BY <1>4
<1>6. RunTypes BY <1>3, <1>4 DEF RunTypes, StartupInit
<1>7. CallTypes BY DEF CallTypes, StartupInit
<1>8. RunsSettled BY <1>3, <1>5 DEF RunsSettled
<1>9. TasksInOrder BY DEF TasksInOrder, StartupOrder, StartupInit
<1>10. OneRun(startupRuns, stack) BY OneRunEmpty DEF StartupInit
<1>11. WaitersBegun(startupRuns, callbacks, calls, posted) BY DEF WaitersBegun, StartupInit
<1>12. PendingOnce(stack, callbacks, calls) BY DEF PendingOnce, StartupInit
<1>13. PICK none : none = [r \in Runs |-> {}] OBVIOUS
<1>14. none \in Histories /\ \A r \in Runs : none[r] = {} BY <1>13 DEF Histories
<1>15. RunsCounted(none, none) BY <1>3, <1>5, <1>14 DEF RunsCounted
<1>16. FramesCounted(startupRuns, stack, none, none) BY DEF FramesCounted, StartupInit
<1>17. WaitersPending(startupRuns, callbacks, calls, none) BY DEF WaitersPending, StartupInit
<1>18. Progress BY <1>14, <1>15, <1>16, <1>17 DEF Progress, Counted
<1> QED BY <1>6, <1>7, <1>8, <1>9, <1>10, <1>11, <1>12, <1>18 DEF StartupInvariant

LEMMA StutterKeeps ==
    ASSUME StartupInvariant, UNCHANGED startupVars PROVE StartupInvariant'
<1>1. UNCHANGED <<deps, startupRuns, initialised, callbacks, calls, posted, stage, stack, taskState>>
  BY DEF startupVars
<1>2. Shrinks(stack, stack') BY <1>1, ShrinksRefl DEF StartupInvariant, CallTypes
<1> QED BY <1>1, <1>2, StateStep DEF StartupInvariant, CallTypes, TasksInOrder, StartupOrder

LEMMA StartupNextKeeps ==
    ASSUME StartupInvariant, [StartupNext]_startupVars PROVE StartupInvariant'
<1>1. ASSUME NEW r \in Runs, LaunchWithStartup(r) PROVE StartupInvariant'
  BY <1>1, LaunchWithStartupKeeps
<1>2. ASSUME NEW r \in Runs, NEW input \in SUBSET StartupTasks, OnRun(r, input) PROVE StartupInvariant'
  BY <1>2, OnRunKeeps
<1>3. ASSUME NEW r \in Runs, OnTimeout(r) PROVE StartupInvariant' BY <1>3, OnTimeoutKeeps
<1>4. ASSUME NEW r \in Runs, RunPosted(r) PROVE StartupInvariant' BY <1>4, RunPostedKeeps
<1>5. ASSUME NEW t \in StartupTasks, NEW ok \in BOOLEAN, CompleteTask(t, ok) PROVE StartupInvariant'
  BY <1>5, CompleteTaskKeeps
<1>6. ASSUME NEW tasks, RemoveResults(tasks) PROVE StartupInvariant' BY <1>6, RemoveResultsKeeps
<1>7. CASE RunTaskInit BY <1>7, RunTaskInitKeeps
<1>8. CASE FrameReturns BY <1>8, FrameDroppedKeeps, FrameCountedKeeps
<1>9. CASE NextCall BY <1>9, NextCallKeeps
<1>10. CASE UNCHANGED startupVars BY <1>10, StutterKeeps
<1> QED BY <1>1, <1>2, <1>3, <1>4, <1>5, <1>6, <1>7, <1>8, <1>9, <1>10 DEF StartupNext

-----------------------------------------------------------------------------
(* The theorems.                                                           *)

\* What the invariant says of the runs: it implies the properties below.
LEMMA InvariantTypes == StartupInvariant => StartupTypes
<1> SUFFICES ASSUME StartupInvariant PROVE StartupTypes OBVIOUS
<1>1. \A t \in StartupTasks : (callbacks[t] # <<>>) = (taskState[t] = "INITIALIZING")
  BY DEF StartupInvariant, TasksInOrder
<1>2. PICK done \in Histories, counted \in Histories : Counted(done, counted)
  BY DEF StartupInvariant, Progress
<1>3. ASSUME NEW r \in Runs
      PROVE  /\ startupRuns[r].tasksCount >= 0 /\ startupRuns[r].awaitCount >= 0
             /\ \A t \in StartupTasks : startupRuns[r].inDegree[t] >= 0
  <2>1. PICK run \in RunRecords : run = startupRuns[r] BY RunFacts
  <2>2. Counts(run, done[r], counted[r]) BY <1>2, <2>1 DEF Counted, RunsCounted
  <2>3. PICK D : D = done[r] OBVIOUS
  <2>4. PICK C : C = counted[r] OBVIOUS
  <2>5. deps \in [StartupTasks -> SUBSET StartupTasks] BY DEF StartupInvariant, RunTypes
  <2>6. /\ run.tasksCount >= 0 /\ run.awaitCount >= 0 /\ \A t \in StartupTasks : run.inDegree[t] >= 0
    BY <2>1, <2>2, <2>3, <2>4, <2>5, CountsNatural
  <2> QED BY <2>1, <2>6
<1> QED BY <1>1, <1>3 DEF StartupTypes, StartupInvariant, RunTypes, CallTypes

LEMMA InvariantToldOnce == StartupInvariant => StartupToldOnce
<1> SUFFICES ASSUME StartupInvariant, NEW r \in Runs, NEW run, run = startupRuns[r]
             PROVE  /\ run.told <= 1
                    /\ run.outcome = "ok" => run.tasks \subseteq initialised
                    /\ ~run.listed /\ run.kind \in {"auto", "js"} => run.told = 1
                    /\ run.launched > 1 => run.refused /\ run.launched = 2
  BY DEF StartupToldOnce
<1>1. run \in RunRecords /\ RunSettled(run) BY RunFacts
<1>2. run.outcome = "ok" => run.tasks \subseteq initialised BY DEF StartupInvariant, RunsSettled
<1>3. run.told <= 1 BY <1>1 DEF RunSettled
<1>4. ~run.listed /\ run.kind \in {"auto", "js"} => run.told = 1 BY <1>1 DEF RunSettled, Managed
<1>5. run.launched > 1 => run.refused /\ run.launched = 2
  <2>1. run.launched \in Nat BY <1>1 DEF RunRecords
  <2> QED BY <1>1, <2>1 DEF RunSettled
<1> QED BY <1>2, <1>3, <1>4, <1>5

\* StartupInvariant holds in every reachable state of the startup framework, for any tasks,
\* dependencies and number of runs.
THEOREM StartupInvariantHolds == StartupSpec => []StartupInvariant
<1>1. StartupInit => StartupInvariant BY StartupBegins
<1>2. StartupInvariant /\ [StartupNext]_startupVars => StartupInvariant' BY StartupNextKeeps
<1> QED BY <1>1, <1>2, PTL DEF StartupSpec

\* Runs wait for a task exactly while it is being initialised, and the counters of
\* StartupTaskDispatcher, which Dispatch and NotifyChildren lower, never fall below zero.
THEOREM StartupTypesHold == StartupSpec => []StartupTypes
BY StartupInvariantHolds, InvariantTypes, PTL

\* RunTaskInit begins a task only when all tasks it depends on have been initialised, however
\* runs that share tasks are interleaved with completions, failures and removed results.
THEOREM StartupOrderHolds == StartupSpec => []StartupOrder
<1>1. StartupInvariant => StartupOrder BY DEF StartupInvariant, TasksInOrder
<1> QED BY <1>1, StartupInvariantHolds, PTL

\* CallListenerOnCompleted is called once for each run, with success only when all tasks of
\* the run have been initialised, and an ability is launched twice only when Run has failed.
THEOREM StartupToldOnceHolds == StartupSpec => []StartupToldOnce
BY StartupInvariantHolds, InvariantToldOnce, PTL
=============================================================================
