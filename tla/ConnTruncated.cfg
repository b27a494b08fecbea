\* A connection lost in the middle of an answer.
SPECIFICATION Spec
CONSTANTS
    NoReq = NoReq
    Req = {"select"}
    Ins = {}
    Hdr = {}
    Pings = {}
    OpsCap = 1
    RespCap = 4
    MaxBlocks = 2
    Faults = {"loss"}
INVARIANTS
    StreamComplete
\* The calls are finite: when all are over nothing happens any more.
CHECK_DEADLOCK FALSE
