\* Fair scheduling, full channels and every failure but torn packets: streams, and the
\* end of every call.
SPECIFICATION FairSpec
CONSTANTS
    NoReq = NoReq
    Req = {"select", "insert"}
    Ins = {"insert"}
    Hdr = {"insert"}
    Pings = {}
    OpsCap = 1
    RespCap = 1
    MaxBlocks = 3
    Faults = {"loss", "fatal", "baddata", "rows", "shutdown"}
INVARIANTS
    StreamInOrder
    NoGap
    AnswerWhole
PROPERTIES
    EveryCallEnds
\* The calls are finite: when all are over nothing happens any more.
CHECK_DEADLOCK FALSE
