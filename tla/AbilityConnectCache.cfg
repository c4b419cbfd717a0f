\* Two cached extensions on a device that caches one: one may be stopped, the other
\* started and frozen.
SPECIFICATION Spec
CONSTANTS
    a1 = a1  a2 = a2  b1 = b1  b2 = b2  A = A  B = B  c1 = c1  c2 = c2
    Tokens = {"token"}
    Bundles = {"bundle"}
    TokenOf <- MCTokenOf
    BundleOf <- MCBundleOf
    ServiceOf <- MCServiceOf
    NoRecord = NoRecord
    Records = {a1, a2, b1, b2}
    Services = {A, B}
    Callbacks = {c1}
    MaxConns = 2
    MaxReqs = 1
    MaxInbox = 1
    Cacheable = {A, B}
    KeepAlive = {}
    AutoDisconnect = {}
    Startable = {B}
    Stoppable = {A}
    Crashing = {}
    KillBundles = {}
    NullRemote = FALSE
    Freezes = TRUE
    Overtaking = FALSE
    devCapacity = 1
    procCapacity = 1
SYMMETRY Symmetry
INVARIANTS OneHome
CHECK_DEADLOCK FALSE
