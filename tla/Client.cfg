\* Everything a client does beside its io task: building, the session, both formats.
SPECIFICATION Spec
CONSTANTS
    Destinations <- MCDestinations
    Domains = {"given"}
    OptionSets <- MCOptionSets
    Exts <- MCExts
    Credentials <- MCCredentials
    BuilderSettings <- MCBuilderSettings
    MaxCalls = 3
    ReadNative <- FormatRead
    WriteNative <- FormatWrite
    Peers <- MCPeers
    Asks <- MCAsks
    Said <- MCSaid
    MaxAsks = 2
    MaxSaid = 3
    U16 = 30
    U32 = 2
    DAY_MS = 100
    WORD = 32768
    MAX_POW = 4
    MAX_I128_REPR = 4095
    Blocks <- MCBlocks
    Revisions = {0, 54453, 54477}
    MaxBlocks = 2
    Tables <- MCTables
    Names = {"a", "b"}
    RawValues <- MCRawValues
    MaxRaw = 3
    DateMakers = {"days", "millis", "naive", "days32", "naive32"}
    Days <- MCDays
    Times <- MCTimes
    Digits = {0, 3, 6, 9}
    Scales = {0, 1, 3}
    Exponents <- MCExponents
    Mantissas <- MCMantissas
    Uints <- MCUints
    Samples <- MCSamples
    AllOptions <- MCOptions
    MaxTables = 2
INVARIANTS
    BlocksInOrder Readable FramesOnly RowsReadBack RowsReadable RawRowIsMap DatesMean 
    ReadsBack Reinsertable NativeReads BuildersFit
    ServerReads SettingsInEffect FramingAgrees PacketsRead DialsAsGiven RowsAsSaid FirstTaken SchemaTold UintsReadBack
\* Every task is finite.
CHECK_DEADLOCK FALSE
