CONSTANTS
    Thread = {a, b}
    Nobody = Nobody
SPECIFICATION CondSpec
INVARIANT WaitEndsWithSignal
CHECK_DEADLOCK FALSE
