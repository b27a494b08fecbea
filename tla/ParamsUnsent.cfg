\* A query with parameters, to a server that knows them.
SPECIFICATION SessionSpec
CONSTANTS
    ReadNative <- FormatRead
    WriteNative <- FormatWrite
    Peers <- MCPeers
    Asks <- MCBound
    Said <- MCSaid
    MaxAsks = 1
    MaxSaid = 1
INVARIANTS
    ParamsReach
\* A session ends with its last query.
CHECK_DEADLOCK FALSE
