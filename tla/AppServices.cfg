\* One task that applies or revokes a fix of a bundle with two processes; and an application
\* record with two pages.
SPECIFICATION ServicesSpec
CONSTANTS
    FixTasks = {1}
    FixProcesses = {1, 2}
    MaxObservers = 2
    MaxRounds = 3
    MaxSplits = 1
    Pages = {1, 2}
    JointUser = TRUE
    MaxAppRecords = 1
    MaxSlow = 0
INVARIANTS
    FixAccounted FixOkComplete FixOldProcessesGone
PROPERTIES
    FixEnds
    AppForegroundReached AppPageEnds
CHECK_DEADLOCK FALSE
