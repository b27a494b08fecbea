\* Packets in two pieces: reads cancelled between them.
SPECIFICATION Spec
CONSTANTS
    NoReq = NoReq
    Req = {"select", "insert"}
    Ins = {"insert"}
    Hdr = {}
    Pings = {}
    OpsCap = 1
    RespCap = 1
    MaxBlocks = 1
    Faults = {"split", "loss"}
INVARIANTS
    TypeOK
    ClosedMeansDead
\* The calls are finite: when all are over nothing happens any more.
CHECK_DEADLOCK FALSE
