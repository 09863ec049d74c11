CONSTANTS
    m = m
    a = a
    b = b
    Thread <- MCThreads
    Main = m
    NoThread = NoThread
    PRIORITY_SIZE = 3
    InitPriority <- TwoPriorities
    RequestedPriority = {}
    Sem = {l1}
    NoSem = NoSem
    HandlerSem = {}
    InitValue <- Unlocked
    MaxValue = 1
    Preemptive = TRUE
    MaxHeld = 1
SPECIFICATION LockSpec
CONSTRAINT ShortLists
INVARIANTS
    MutualExclusion
    HolderIsKnown
PROPERTIES
    ImplementsMutex
\* A thread whose priority left the range of the ready lists is never dispatched
\* again, and with -p the simulator can die in Acquire.
CHECK_DEADLOCK FALSE
