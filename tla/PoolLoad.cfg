\* Concurrent calls, connections that break, lanes that overflow.
SPECIFICATION Spec
CONSTANTS
    Calls = {"q1", "i1", "i2", "m1", "h1"}
    Kind <- MCKind
    Key <- MCKey
    MaxConns = 2
    FastModeSize = 0
    LaneSize = 8
    Lanes = 3
    MayBreak = TRUE
INVARIANTS
    IndexInBounds
    LoadExact
    InsertFollowsQuery
\* The calls are finite: when all are over nothing happens any more.
CHECK_DEADLOCK FALSE
