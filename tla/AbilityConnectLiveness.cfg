\* Two clients of an extension with auto disconnect that may never answer and may crash.
SPECIFICATION FairSpec
CONSTANTS
    a1 = a1  a2 = a2  b1 = b1  b2 = b2  A = A  B = B  c1 = c1  c2 = c2
    Tokens = {"token"}
    Bundles = {"bundle"}
    TokenOf <- MCTokenOf
    BundleOf <- MCBundleOf
    ServiceOf <- MCServiceOf
    NoRecord = NoRecord
    Records = {a1}
    Services = {A}
    Callbacks = {c1, c2}
    MaxConns = 3
    MaxReqs = 1
    MaxInbox = 2
    Cacheable = {}
    KeepAlive = {}
    AutoDisconnect = {A}
    Startable = {}
    Stoppable = {}
    Crashing = {A}
    KillBundles = {}
    NullRemote = FALSE
    Freezes = FALSE
    Overtaking = FALSE
    devCapacity = 1
    procCapacity = 1
INVARIANTS ConnectedIsMapped
PROPERTIES RequestsResolve DeathIsReported TerminationCompletes
CHECK_DEADLOCK FALSE
