CONSTANTS
    m = m
    a = a
    b = b
    c = c
    Thread <- MCThreads
    Main = m
    NoThread = NoThread
    PRIORITY_SIZE = 2
    InitPriority <- Ascending
    RequestedPriority <- InRange
SPECIFICATION FairSpec
INVARIANTS
    TypeOK
    
    NoCarcassRuns
PROPERTIES
    SwitchesToHighest
    ReadyThreadsRun
\* The machine halts when nobody is ready and no device is busy.
CHECK_DEADLOCK FALSE
