CONSTANTS
    Thread = {t1, t2}
    Name = {f, g}
    NoName = NoName
    NUM_SECTORS = 8
    SECTOR_SIZE = 2
    NUM_DIR_ENTRIES = 2
    NUM_DIRECT = 3
    MAX_OPEN = 1
    FileSize = {1, 3}
    Request = {3}
SPECIFICATION Spec
SYMMETRY Symmetry
INVARIANTS
    
    HaltHurtsOneFile
    
    
\* After a write through a removed file the model stops.
CHECK_DEADLOCK FALSE
