----------------------------- MODULE ArrowTable -----------------------------
(***************************************************************************)
(* A client that works with record batches, on one connection: it makes a  *)
(* table from the schema of a batch, inserts batches under the header the  *)
(* server sends, and selects them again.  The server (external) prints the *)
(* columns as it was told to make them, keeps the blocks it was sent, and  *)
(* answers a select with a block that has columns and no rows, the blocks, *)
(* and an empty block, or breaks an answer off with an exception.  The     *)
(* builders of the reader live as long as a query, on a connection that    *)
(* outlives it.                                                            *)
(***************************************************************************)
EXTENDS ArrowRows, TableDDL

CONSTANTS Samples,      \* what a client may insert, a sequence of records
          AllOptions,   \* the arrow options a client may have
          Revisions, MaxTables, MaxBlocks

VARIABLES method, revision, options,
          table,        \* <<>>, or <<header>>: the columns of the table
          tables,       \* how many tables were made
          store,        \* the blocks that the server keeps: [cells, sample, part]
          wire,         \* the cells of the answer to a select that are not read yet
          reading,      \* the state of the query: no, header, or progress
          headed,       \* the header that the caller was given with it
          got,          \* the batches that it gave
          builders,     \* ArrowDeserializerState.builders
          st            \* "open", or "halfwritten", or how a read or an exception ended the connection

vars == <<method, revision, options, table, tables, store, wire, reading, headed, got, builders, st>>

Init == /\ method \in Methods \ {"ZSTD"} /\ revision \in Revisions /\ options \in AllOptions
        /\ table = <<>> /\ tables = 0 /\ store = <<>> /\ wire = <<>> /\ reading = "no"
        /\ headed = <<>> /\ got = <<>> /\ builders = <<>> /\ st = "open"

-----------------------------------------------------------------------------
(* What the server says.                                                   *)
Frame(cells) == IF method = "None" THEN cells ELSE compress_data_sync(cells, method).out
HeaderBlock(columns) ==
    LET flag == IF revision >= CUSTOM_SERIALIZATION THEN <<Num(1, 0)>> ELSE <<>>
    IN Frame(WriteInfo(DefaultInfo).out \o <<Num(VAR, Len(columns)), Num(VAR, 0)>>
             \o FlattenSeq([i \in 1..Len(columns) |-> <<Cell(STR, columns[i][1]), Cell(STR, Show(columns[i][2]))>> \o flag]))
EndBlock == Frame(WriteInfo(DefaultInfo).out \o <<Num(VAR, 0), Num(VAR, 0)>>)

Created(columns) == [i \in 1..Len(columns) |-> <<columns[i][1], FromStr(Show(columns[i][2])).v>>]

-----------------------------------------------------------------------------
Idle == st = "open" /\ reading = "no"

\* The statement is refused, or the server has a table of the columns it names.
CreateTable(s) ==
    /\ Idle /\ table = <<>> /\ tables < MaxTables /\ s.makes
    /\ tables' = tables + 1
    /\ \E c \in {create_table_statement_from_arrow(s.batch.fields, s.create, options)} :
          table' = IF c.st = "ok" THEN <<Created(c.v.columns)>> ELSE table
    /\ UNCHANGED <<method, revision, options, store, wire, reading, headed, got, builders, st>>

\* The table was there before: the server's own types.
UseTable(s) ==
    /\ Idle /\ table = <<>> /\ tables < MaxTables /\ s.types # <<>>
    /\ tables' = tables + 1 /\ table' = <<s.types>>
    /\ UNCHANGED <<method, revision, options, store, wire, reading, headed, got, builders, st>>

\* The chunks of a batch, one block each.  A write that fails leaves half a block on an
\* uncompressed stream.  What was selected before is done with.
BatchParts(s) == IF s.max = 0 THEN <<s.batch>> ELSE split_record_batch(s.batch, s.max)
FirstBad(ws) == Min({k \in 1..Len(ws) : ws[k].st # "ok"} \union {Len(ws) + 1})
Sent(ws, s) == [k \in 1..FirstBad(ws) - 1 |-> [cells |-> ws[k].out, sample |-> s, part |-> k]]
HalfWritten(ws) == FirstBad(ws) <= Len(ws) /\ ws[FirstBad(ws)].out # <<>>
Insert(s) ==
    /\ Idle /\ table # <<>> /\ Len(store) < MaxBlocks
    /\ {s.batch.fields[i][1] : i \in 1..Len(s.batch.fields)} = {table[1][i][1] : i \in 1..Len(table[1])}
    /\ \E parts \in {BatchParts(s)} :
       \E ws \in {[k \in 1..Len(parts) |-> ArrowWrite(parts[k], revision, method, table[1], options)]} :
          /\ store' = store \o Sent(ws, s)
          /\ st' = IF HalfWritten(ws) THEN "halfwritten" ELSE st
    /\ headed' = <<>> /\ got' = <<>>
    /\ UNCHANGED <<method, revision, options, table, tables, wire, reading, builders>>

Select ==
    /\ Idle /\ table # <<>> /\ headed = <<>>
    /\ wire' = HeaderBlock(table[1]) \o FlattenSeq([k \in 1..Len(store) |-> store[k].cells]) \o EndBlock
    /\ reading' = "header"
    /\ UNCHANGED <<method, revision, options, table, tables, store, headed, got, builders, st>>

\* The first block is the header, which receive_header reads as a native one.
ReadHeader ==
    /\ st = "open" /\ reading = "header"
    /\ \E r \in {FormatRead(revision, method, wire)} :
          IF r.st = "ok" /\ r.v # <<>>
          THEN wire' = r.rest /\ headed' = r.v[1].types /\ reading' = "progress" /\ st' = st
          ELSE st' = (IF r.st = "ok" THEN "err" ELSE r.st) /\ UNCHANGED <<wire, headed, reading>>
    /\ UNCHANGED <<method, revision, options, table, tables, store, got, builders>>

\* One packet.  A block without data is ignored, an error or a panic ends the connection.
Read ==
    /\ st = "open" /\ reading = "progress" /\ wire # <<>>
    /\ \E r \in {ArrowRead(builders, revision, method, options, wire)} :
          IF r.st = "ok"
          THEN /\ wire' = r.rest /\ builders' = r.v.builders /\ st' = st
               /\ got' = IF r.v.batch.fields = <<>> THEN got ELSE Append(got, r.v.batch)
          ELSE st' = r.st /\ UNCHANGED <<wire, builders, got>>
    /\ UNCHANGED <<method, revision, options, table, tables, store, reading, headed>>

\* EndOfStream: finish_deser.
EndOfStream ==
    /\ st = "open" /\ reading = "progress" /\ wire = <<>>
    /\ reading' = "no" /\ builders' = finish_deser(builders)
    /\ UNCHANGED <<method, revision, options, table, tables, store, wire, headed, got, st>>

\* Mutant: the builders are kept.
ExceptionKeeps(fatal) ==
    /\ st = "open" /\ reading # "no"
    /\ reading' = "no" /\ wire' = <<>> /\ headed' = <<>> /\ got' = <<>>
    /\ st' = IF fatal THEN "ended" ELSE st
    /\ UNCHANGED <<method, revision, options, table, tables, store, builders>>

\* An exception instead of the rest of the answer: what the caller had of it is lost, and
\* finish_deser is called unless the exception ends the connection.
Exception(fatal) ==
    /\ st = "open" /\ reading # "no"
    /\ reading' = "no" /\ wire' = <<>> /\ headed' = <<>> /\ got' = <<>>
    /\ IF fatal THEN st' = "ended" /\ UNCHANGED builders ELSE builders' = finish_deser(builders) /\ UNCHANGED st
    /\ UNCHANGED <<method, revision, options, table, tables, store>>

DropTable ==
    /\ Idle /\ table # <<>>
    /\ table' = <<>> /\ store' = <<>> /\ headed' = <<>> /\ got' = <<>>
    /\ UNCHANGED <<method, revision, options, tables, wire, reading, builders, st>>

Next == \/ \E i \in 1..Len(Samples) : CreateTable(Samples[i]) \/ UseTable(Samples[i]) \/ Insert(Samples[i])
        \/ Select \/ ReadHeader \/ Read \/ EndOfStream \/ (\E fatal \in BOOLEAN : Exception(fatal)) \/ DropTable
Spec == Init /\ [][Next]_vars

-----------------------------------------------------------------------------
\* What a part of a sample says of a column: `says` holds the rows of every column.
Says(e, j) == LET s == e.sample
                  n == IF s.max = 0 THEN s.batch.rows ELSE s.max
              IN SubSeq(s.says[j], (e.part - 1) * n + 1, Min({e.part * n, s.batch.rows}))

\* A text inside a map is only read by clients that take strings as strings.
Sound(e) == e.sample.text => options.strings_as_strings

\* What a client inserts into a table it made, it reads: no block makes the reader fail,
\* whatever the method and the options are and whatever was read on the connection before,
\* every batch says, row by row, what the batch written for it said, and an answer that
\* has ended has them all.
ReadsBack == (\A k \in 1..Len(store) : Sound(store[k])) =>
                /\ st \in {"open", "halfwritten", "ended"}
                /\ Len(got) <= Len(store)
                /\ reading = "no" /\ headed # <<>> => Len(got) = Len(store)
                /\ \A k \in 1..Len(got) : \A j \in 1..Len(got[k].cols) :
                      store[k].sample.exact => Logical(got[k].cols[j]) = Says(store[k], j)

\* A batch that was read can be inserted again, and is the same block on the stream.
Reinsertable == \A k \in 1..Len(got) :
                   store[k].sample.again =>
                      ArrowWrite(got[k], revision, method, table[1], options) = Wrote(store[k].cells)

ReadAsSaid(r, e) ==
    /\ r.st = "ok" /\ r.rest = <<>>
    /\ \A j \in 1..Len(r.v.types) :
          LET c == ColumnOf(r.v, j) IN [i \in 1..Len(c) |-> LogicalValue(c[i])] = Says(e, j)
\* A native client reads from the blocks of an arrow client what the batches said.
NativeReads == \A k \in 1..Len(store) : store[k].sample.native =>
                  ReadAsSaid(BlockRead("async", revision, IF method = "None" THEN store[k].cells ELSE store[k].cells[1].in),
                             store[k])

\* While an answer is read, the builders that are kept are those of its own columns: none
\* is left of an earlier answer, about another table, however that one ended.
BuildersFit == reading = "progress" /\ st = "open" =>
                  /\ Len(builders) <= Len(table[1])
                  /\ \A i \in 1..Len(builders) :
                        LET t == table[1][i][2]
                        IN builders[i] = strip_null(HintFor(t, ch_to_arrow_type(t, options).v.dt))

SaidBy(r, said) == /\ r.st = "ok"
                   /\ [i \in 1..Len(r.v) |-> [j \in 1..Len(r.v[i]) |-> LogicalValue(r.v[i][j])]] = said
\* query_rows gives the rows of the answer, in their order, as values that say what the
\* batches said: lists, maps, dictionaries and enums (by the header's names) too.
RowsAsSaid == (\A k \in 1..Len(got) : store[k].sample.exact /\ Sound(store[k])) /\ headed # <<>> =>
    SaidBy(query_rows(got, headed),
           FlattenSeq([k \in 1..Len(got) |-> [i \in 1..got[k].rows |-> [j \in 1..Len(got[k].cols) |-> Says(store[k], j)[i]]]]))

\* query_one and query_column take from a whole answer its first row and its first column
\* of a block, and nothing only if there is nothing.
FirstTaken == reading = "no" /\ st = "open" /\ headed # <<>> =>
    LET one == query_one(got)
        col == query_column(got)
    IN IF store = <<>> THEN one = <<>> /\ col = <<>>
       ELSE store[1].sample.exact =>
            /\ \A j \in 1..Len(one[1].cols) : Logical(one[1].cols[j]) = <<Says(store[1], j)[1]>>
            /\ Logical(col[1]) = Says(store[1], 1)

\* The schema that fetch_schema gives for the table is the schema of the batches that a
\* select of this client gives.
SchemaTold == got # <<>> =>
    fetch_schema([i \in 1..Len(table[1]) |-> <<table[1][i][1], Show(table[1][i][2])>>], options).v = got[1].fields
=============================================================================
