SPECIFICATION Spec
CONSTANTS
    Contents <- MCContents
    BlockSize = 2
    MemoryBytes = 2
    DiskBytes = 3
    Readers = {1, 2}
    Ranges <- MCRanges
    Modes <- MCModes
INVARIANTS WithinBudget ReadExact NoLeak
PROPERTIES ReadsFinish
CHECK_DEADLOCK FALSE
