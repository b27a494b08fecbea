\* A header arrives in two pieces.
SPECIFICATION Spec
CONSTANTS
    HdrLen = 2
    Base = 16
    MaxChunk = 3
    MaxBytes = 5
    Sizes = {1, 2}
    Futures = {"exact"}
    SplitHeaders = TRUE
    MayClose = FALSE
INVARIANTS
    ReadIsPrefix
\* Everything may have been written and read.
CHECK_DEADLOCK FALSE
