\* A resident extension that is cached too: it is started, connected, stopped, crashes
\* and restarts.
SPECIFICATION Spec
CONSTANTS
    a1 = a1  a2 = a2  b1 = b1  b2 = b2  A = A  B = B  c1 = c1  c2 = c2
    Tokens = {"token"}
    Bundles = {"bundle"}
    TokenOf <- MCTokenOf
    BundleOf <- MCBundleOf
    ServiceOf <- MCServiceOf
    NoRecord = NoRecord
    Records = {a1, a2}
    Services = {A}
    Callbacks = {c1}
    MaxConns = 1
    MaxReqs = 2
    MaxInbox = 2
    Cacheable = {A}
    KeepAlive = {A}
    AutoDisconnect = {}
    Startable = {A}
    Stoppable = {A}
    Crashing = {A}
    KillBundles = {}
    NullRemote = FALSE
    Freezes = FALSE
    Overtaking = FALSE
    devCapacity = 1
    procCapacity = 1
SYMMETRY Symmetry
INVARIANTS TypeOK OneHome TimeoutsArmed
CHECK_DEADLOCK FALSE
