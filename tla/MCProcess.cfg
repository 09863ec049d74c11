CONSTANTS
    Main = m
    Proc = {m, a, b, c, d}
    NoProc = NoProc
    SIZE = 4
    NUM_PHYS_PAGES = 9
    CodePages = 1
    NumPages = 2
SYMMETRY Children
SPECIFICATION Spec
INVARIANTS
    TableStaysSound
    FramesAreOwned
    UserRunsInItsSpace
    OnlyFrameZeroIsLost
    PidNamesItsProcess
    JoinableExecWaits
\* All processes may wait for each other or have exited.
CHECK_DEADLOCK FALSE
