\* Headers arrive whole; data in any pieces; chunks up to and beyond the limit.
SPECIFICATION FairSpec
CONSTANTS
    HdrLen = 2
    Base = 16
    MaxChunk = 3
    MaxBytes = 5
    Sizes = {1, 2, 3}
    Futures = {"exact"}
    SplitHeaders = FALSE
    MayClose = TRUE
INVARIANTS
    TypeOK
    ReadIsPrefix
    Aligned
    NothingLost
PROPERTIES
    ReadsAreServed
\* Everything may have been written and read.
CHECK_DEADLOCK FALSE
