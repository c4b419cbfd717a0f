\* The extension cache; two sessions, one of new process mode, with a single UI ability
\* record; and two runs of two startup tasks with any dependencies.
SPECIFICATION ServicesSpec
CONSTANTS
    r1 = r1  r2 = r2  r3 = r3  r4 = r4  r5 = r5
    t1 = t1  t2 = t2  b1 = b1  b2 = b2  n1 = n1  n2 = n2
    Records <- MCRecords
    Tokens = {t1, t2}
    Bundles = {b1, b2}
    Names = {n1, n2}
    TokenOf <- MCTokenOf
    BundleOf <- MCBundleOf
    NameOf <- MCNameOf
    NoRecord = NoRecord
    NoBundle = NoBundle
    devCapacity = 3
    procCapacity = 2
    s1 = s1  s2 = s2
    UISessions = {s1, s2}
    StatusBarSessions = {s2}
    MaxUIRecords = 1
    MaxUICommands = 1
    k1 = k1  k2 = k2
    StartupTasks = {k1, k2}
    MainTasks = {k1}
    AwaitedTasks = {k2}
    ExcludedTasks = {}
    MaxRuns = 2
INVARIANTS
    TypeOK ListsAgree WithinCapacity UIPendingUnderway
PROPERTIES
    NoSilentDrop ImplementsCache
    UIStartServed UIClosedEnds
    StartupRunEnds StartupLaunches
CHECK_DEADLOCK FALSE
