\* Every way the io task can end, with reads cancelled while a channel is full.
SPECIFICATION Spec
CONSTANTS
    NoReq = NoReq
    Req = {"select", "insert", "ping"}
    Ins = {"insert"}
    Hdr = {"insert"}
    Pings = {"ping"}
    OpsCap = 1
    RespCap = 1
    MaxBlocks = 1
    Faults = {"loss", "fatal", "baddata", "shutdown", "abandon"}
INVARIANTS
    InStep
    NotForgotten
    QueriesOnce
\* The calls are finite: when all are over nothing happens any more.
CHECK_DEADLOCK FALSE
