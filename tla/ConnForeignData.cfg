\* Two inserts on one connection, the first one fails.
SPECIFICATION Spec
CONSTANTS
    NoReq = NoReq
    Req = {"insert1", "insert2"}
    Ins = {"insert1", "insert2"}
    Hdr = {}
    Pings = {}
    OpsCap = 1
    RespCap = 2
    MaxBlocks = 0
    Faults = {}
INVARIANTS
    OwnData
\* The calls are finite: when all are over nothing happens any more.
CHECK_DEADLOCK FALSE
