\* A response channel that is full when another call's operation comes in.
SPECIFICATION Spec
CONSTANTS
    NoReq = NoReq
    Req = {"select", "ping"}
    Ins = {}
    Hdr = {}
    Pings = {"ping"}
    OpsCap = 1
    RespCap = 1
    MaxBlocks = 3
    Faults = {}
INVARIANTS
    NoHole
\* The calls are finite: when all are over nothing happens any more.
CHECK_DEADLOCK FALSE
