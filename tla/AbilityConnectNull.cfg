\* onConnect may return no remote object.
SPECIFICATION FairSpec
CONSTANTS
    a1 = a1  a2 = a2  b1 = b1  b2 = b2  A = A  B = B  c1 = c1  c2 = c2
    Tokens = {"token"}
    Bundles = {"bundle"}
    TokenOf <- MCTokenOf
    BundleOf <- MCBundleOf
    ServiceOf <- MCServiceOf
    NoRecord = NoRecord
    Records = {a1, a2}
    Services = {A}
    Callbacks = {c1, c2}
    MaxConns = 2
    MaxReqs = 1
    MaxInbox = 2
    Cacheable = {}
    KeepAlive = {}
    AutoDisconnect = {}
    Startable = {}
    Stoppable = {}
    Crashing = {}
    KillBundles = {}
    NullRemote = TRUE
    Freezes = FALSE
    Overtaking = FALSE
    devCapacity = 1
    procCapacity = 1
PROPERTIES RequestsResolve
CHECK_DEADLOCK FALSE
