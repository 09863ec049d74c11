CONSTANTS
    m = m
    a = a
    b = b
    Thread <- MCThreads
    Main = m
    NoThread = NoThread
    PRIORITY_SIZE = 3
    InitPriority <- ThreePriorities
    RequestedPriority = {}
    Sem = {l1}
    NoSem = NoSem
    HandlerSem = {}
    InitValue <- Unlocked
    MaxValue = 1
    Preemptive = FALSE
    MaxHeld = 1
SPECIFICATION LockSpec
INVARIANT PriorityIsRestored
CHECK_DEADLOCK FALSE
