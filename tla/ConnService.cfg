\* Three queries on one connection, callers that go away: refinement of QueryService.
SPECIFICATION Spec
CONSTANTS
    NoReq = NoReq
    Req = {"select", "insert", "other"}
    Ins = {"insert"}
    Hdr = {"insert"}
    Pings = {}
    OpsCap = 1
    RespCap = 1
    MaxBlocks = 0
    Faults = {"abandon", "rows", "shutdown"}
INVARIANTS
    ResponsesBelong
PROPERTIES
    ServiceSpec
\* The calls are finite: when all are over nothing happens any more.
CHECK_DEADLOCK FALSE
