\* Two clients and the restarting worker acquire a resident data ability; two tasks apply
\* or revoke fixes of a bundle with one process; an application record with two pages and
\* one late answer; one session of new process mode with two UI
\* ability records; and two runs of three startup tasks with any dependencies, one for a
\* launch and one asked for by a script or by a second launch.
SPECIFICATION ManagersSpec
CONSTANTS
    d1 = d1  d2 = d2  A = A  data = data  system = system
    Names = {A}
    Records = {d1, d2}
    NameOf <- MCNameOf
    NoRecord = NoRecord
    Callers = {data, system}
    KindOf <- MCKindOf
    Binding = {data}
    Worker = Worker
    Resident = {A}
    Crashes = TRUE
    MaxHolds = 2
    FixTasks = {1, 2}
    FixProcesses = {1}
    MaxObservers = 2
    MaxRounds = 3
    MaxSplits = 0
    Pages = {1, 2}
    JointUser = FALSE
    MaxAppRecords = 1
    MaxSlow = 1
    s1 = s1
    UISessions = {s1}
    StatusBarSessions = {s1}
    MaxUIRecords = 2
    MaxUICommands = 0
    k1 = k1  k2 = k2  k3 = k3
    StartupTasks = {k1, k2, k3}
    MainTasks = {k1, k3}
    AwaitedTasks = {k2}
    ExcludedTasks = {k3}
    MaxRuns = 2
INVARIANTS
    ManagersTypes
    LoadingIsAwaited ClientsCounted
    FixAccounted
    AppSettled AppForegroundBacked AppLaunchBeforeEnd
    UIPendingUnderway UINoOrphan UIBackgroundAgreed
    StartupOrder StartupToldOnce SortFindsCycles
CHECK_DEADLOCK FALSE
