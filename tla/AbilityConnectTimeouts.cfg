\* Two clients of one extension that answers late, crashes, is killed or returns no
\* remote object.
SPECIFICATION Spec
CONSTANTS
    a1 = a1  a2 = a2  b1 = b1  b2 = b2  A = A  B = B  c1 = c1  c2 = c2
    Tokens = {"token"}
    Bundles = {"bundle"}
    TokenOf <- MCTokenOf
    BundleOf <- MCBundleOf
    ServiceOf <- MCServiceOf
    NoRecord = NoRecord
    Records = {a1, a2}
    Services = {A}
    Callbacks = {c1, c2}
    MaxConns = 2
    MaxReqs = 1
    MaxInbox = 2
    Cacheable = {}
    KeepAlive = {}
    AutoDisconnect = {A}
    Startable = {}
    Stoppable = {}
    Crashing = {A}
    KillBundles = {"bundle"}
    NullRemote = TRUE
    Freezes = FALSE
    Overtaking = TRUE
    devCapacity = 1
    procCapacity = 1
SYMMETRY Symmetry
INVARIANTS OneHome TimeoutsArmed UnusedIsTerminated
CHECK_DEADLOCK FALSE
