CONSTANTS
    Thread = {t1, t2}
    NoThread = NoThread
    SYSTEM_TICK = 1
    ROTATION_TIME = 2
    SEEK_TIME = 1
    CONSOLE_TIME = 1
    TIMER_TICKS = 2
    SECTORS_PER_TRACK = 2
    NUM_SECTORS = 3
    Char = {c}
    EOF = EOF
    MaxUnread = 1
SPECIFICATION Spec
INVARIANTS
    DriversWaitForInterrupt
    EveryCharIsReadOnce
    HaltsWhenAllAreDone
    
PROPERTY
    RequestsReturn
\* The machine halts.
CHECK_DEADLOCK FALSE
