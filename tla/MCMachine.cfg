CONSTANTS
    ByteBits = 2
    PAGE_SIZE = 32
    NUM_PHYS_PAGES = 5
    MAX_ARG_COUNT = 3
    MAX_ARG_LENGTH = 4
    Runs <- MCRuns
    Garbage <- MCGarbage
    Frames <- MCFrames
    GP <- MCGP
    RESULT_REG = 2
    ARGC = 4
    ARGV = 5
    STACK_REG = 29
    RET_ADDR_REG = 31
SPECIFICATION Spec
INVARIANT
    StoresAreRecorded
PROPERTIES
    MultIsProduct
    
    
\* A program ends, aborts or leaves its code page.
CHECK_DEADLOCK FALSE
