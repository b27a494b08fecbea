------------------------------- MODULE Client -------------------------------
(***************************************************************************)
(* What a caller does with a client beside waiting for its io task, one    *)
(* `task` at a time: build one (ClientBuilder), connect and talk to a      *)
(* server (ClientSession), make values (ValueMaker), work with native      *)
(* blocks and rows (RowStream), or with record batches (ArrowTable).       *)
(* Client is generic over its format: blocks and rows belong to            *)
(* NativeFormat, batches to ArrowFormat.  Both use the revision and the    *)
(* method that the connection has.  The variables of the other tasks keep  *)
(* their first value.                                                      *)
(***************************************************************************)
EXTENDS ClientBuilder, ClientSession, ValueMaker

CONSTANTS Blocks, Revisions, MaxBlocks, Tables, Names, RawValues, MaxRaw,     \* see BlockStream and RowStream
          Samples, AllOptions, MaxTables            \* see ArrowTable

VARIABLES task, revision, wire, got,
          sent, torn, tableOf, back, raw, want,
          table, tables, store, reading, headed, builders, st

Native == INSTANCE RowStream
Arrow == INSTANCE ArrowTable WITH Revisions <- Revisions \ {0}

formatVars == <<method, revision, options, wire, got>>
nativeOnly == <<sent, torn, tableOf, back, raw, want>>
arrowOnly == <<table, tables, store, reading, headed, builders, st>>
sessionOnly == <<link, hello, asked, heard, server, srv, framed, session, changed, knows, ran, told, toServer, toClient>>

FormatIdle == method = "None" /\ revision = 0 /\ wire = <<>> /\ got = <<>>
NativeIdle == /\ sent = <<>> /\ torn = FALSE /\ tableOf = <<>> /\ back = <<>> /\ raw = <<>>
              /\ want = [n \in Names |-> <<>>]
ArrowIdle == table = <<>> /\ tables = 0 /\ store = <<>> /\ reading = "no" /\ headed = <<>> /\ builders = <<>> /\ st = "open"
SessionIdle == /\ link = "off" /\ hello = <<>> /\ asked = <<>> /\ heard = <<>> /\ server = <<>> /\ srv = "off" /\ framed = <<>>
               /\ session = <<>> /\ changed = FALSE /\ knows = <<>> /\ ran = <<>> /\ told = <<>>
               /\ toServer = <<>> /\ toClient = <<>>
BuilderIdle == /\ builder = BuilderNew /\ given = <<>> /\ owner = "gone" /\ calls = 0 /\ dialled = <<>>

Init == \/ Native!RowInit /\ options = <<>> /\ ArrowIdle /\ SessionIdle /\ BuilderIdle /\ MakerInit
        \/ task = "batches" /\ Arrow!Init /\ NativeIdle /\ SessionIdle /\ BuilderIdle /\ MakerInit
        \/ /\ task = "session" /\ SessionInit /\ revision = 0 /\ wire = <<>> /\ got = <<>>
           /\ NativeIdle /\ ArrowIdle /\ BuilderIdle /\ MakerInit
        \/ /\ (task = "build" /\ BuilderInit) \/ (task = "make" /\ BuilderIdle)
           /\ MakerInit /\ options = <<>> /\ FormatIdle /\ NativeIdle /\ ArrowIdle /\ SessionIdle

Next == \/ Native!RowNext /\ UNCHANGED <<options, arrowOnly, sessionOnly, builderVars, made>>
        \/ task = "batches" /\ Arrow!Next /\ UNCHANGED <<task, nativeOnly, sessionOnly, builderVars, made>>
        \/ task = "session" /\ SessionNext /\ UNCHANGED <<task, revision, wire, got, nativeOnly, arrowOnly, builderVars, made>>
        \/ task = "build" /\ BuilderNext /\ UNCHANGED <<task, formatVars, nativeOnly, arrowOnly, sessionOnly, made>>
        \/ task = "make" /\ MakerNext /\ UNCHANGED <<task, formatVars, nativeOnly, arrowOnly, sessionOnly, builderVars>>

Spec == Init /\ [][Next]_<<task, formatVars, nativeOnly, arrowOnly, sessionOnly, builderVars, made>>

-----------------------------------------------------------------------------
NativeTask == task \in {"blocks", "rows", "raw"}
ArrowTask == task = "batches"

\* NativeFormat::read gives, block by block and in every type, what NativeFormat::write
\* was given, and never loses its place, although writes and compressed reads may fail.
BlocksInOrder == NativeTask => Native!BlocksInOrder

\* Every block that a write accepted can be read, except compressed ones of the types
\* that the synchronous readers leave out.
Readable == NativeTask => Native!Readable

\* A compressed stream consists of whole frames: a block whose serialization fails is
\* never seen by the other side.
FramesOnly == NativeTask => Native!FramesOnly

\* A row that is read back through the derived Row holds what was inserted, in every field
\* that was selected, whatever the order of the columns; or it is an error.
RowsReadBack == NativeTask => Native!RowsReadBack

\* All rows of a table can be read when all its columns are selected, in any order.
RowsReadable == NativeTask => Native!RowsReadable

\* A RawRow gives the last value set for a name, once.
RawRowIsMap == NativeTask => Native!RawRowIsMap

\* A batch that was inserted into a table made from its schema is read back as it was, row
\* by row, and the reader never fails, whatever was read on the connection before.
ReadsBack == ArrowTask => Arrow!ReadsBack

\* A batch that was read can be inserted again, and is the same block on the stream.
Reinsertable == ArrowTask => Arrow!Reinsertable

\* A native client reads from the blocks of an arrow client what the batches said.
NativeReads == ArrowTask => Arrow!NativeReads

\* The builders that deserialization keeps between blocks belong to the query under way.
BuildersFit == ArrowTask => Arrow!BuildersFit

\* query_rows gives the rows of an answer as values that say what the batches said.
RowsAsSaid == ArrowTask => Arrow!RowsAsSaid

\* query_one and query_column take the first row and column of an answer, if there is one.
FirstTaken == ArrowTask => Arrow!FirstTaken

\* fetch_schema tells the schema that the batches of a select have.
SchemaTold == ArrowTask => Arrow!SchemaTold
=============================================================================
