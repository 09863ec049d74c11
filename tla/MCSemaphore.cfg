CONSTANTS
    m = m
    a = a
    b = b
    c = c
    s1 = s1
    s2 = s2
    Thread <- MCThreads
    Main = m
    NoThread = NoThread
    PRIORITY_SIZE = 2
    InitPriority <- TwoPriorities
    RequestedPriority = {}
    Sem = {s1, s2}
    NoSem = NoSem
    HandlerSem = {s1, s2}
    InitValue <- One
    MaxValue = 2
SPECIFICATION SemFairSpec
INVARIANTS
    SleepersAreQueued
    NoLostWakeup
PROPERTIES
    ImplementsScheduler
    PIsServed
\* The machine halts when nobody is ready and no device is busy.
CHECK_DEADLOCK FALSE
