----------------------------- MODULE RowStream -----------------------------
(***************************************************************************)
(* A native client and its rows: it fills and empties a RawRow, inserts    *)
(* the rows of a struct into a table and selects them again.  insert_rows  *)
(* (client.rs) builds a block from the rows and the header the server      *)
(* sent; the block travels on the stream of BlockStream; query_params      *)
(* turns the blocks of an answer into rows.  A client does one of these at *)
(* a time; `task` is which.                                                *)
(***************************************************************************)
EXTENDS BlockStream, RowDerive

CONSTANTS Tables,       \* a sequence: what the client inserts, and how it selects it
          Names,        \* the columns of a RawRow
          RawValues,    \* <<hint, Rust type, value>> that a RawRow may be given
          MaxRaw        \* how many columns a RawRow gets

VARIABLES task,
          tableOf,      \* for every block sent, the table it was made for
          back,         \* the answer to the last query: table, columns, rows
          raw, want     \* the RawRow, and what was last set and not fetched

rowVars == <<task, tableOf, back, raw, want>>
allVars == <<vars, rowVars>>

RowInit == /\ Init
           /\ task \in {"blocks", "rows", "raw"}
           /\ task = "raw" => method = "None" /\ revision = 0
           /\ tableOf = <<>> /\ back = <<>> /\ raw = <<>>
           /\ want = [n \in Names |-> <<>>]

-----------------------------------------------------------------------------
\* The struct is generated by the macro if its attributes compile; the rows of a unit
\* table are UnitValues.
RowsOf(t) == All(Map(LAMBDA row : IF t.unit THEN unit_serialize(t.struct.fields[1].rt, row[1], t.schema)
                                  ELSE serialize_row(t.struct, row, t.schema), t.rows))
RowFrom(t, columns) == IF t.unit THEN Then(unit_deserialize(t.struct.fields[1].rt, columns), LAMBDA v, none : Done(<<v>>))
                       ELSE deserialize_row(t.struct, columns)
BlockOf(t) == IF ~compiles(t.struct) THEN Bad
              ELSE Then(RowsOf(t), LAMBDA rows, none : from_rows(rows, t.schema))

InsertRows(i) ==
    /\ task = "rows"
    /\ \E b \in {BlockOf(Tables[i])} : b.st = "ok" /\ Write(b.v)
    /\ tableOf' = IF Len(sent') > Len(sent) THEN Append(tableOf, i) ELSE tableOf
    /\ UNCHANGED <<task, back, raw, want>>

\* What the server answers to a query for some columns of the table and for others,
\* expressions of the query that are the number 7 (external).
Computed(b) == [r \in 1..b.rows |-> Val("Int32", <<7>>)]
Answer(b, cols) ==
    LET at(n) == ColumnNamed(b.types, n)
    IN [b EXCEPT !.types = Map(LAMBDA n : IF at(n) = 0 THEN <<n, Ty("Int32")>> ELSE b.types[at(n)], cols),
                 !.data = Flat(Map(LAMBDA n : IF at(n) = 0 THEN Computed(b) ELSE ColumnOf(b, at(n)), cols))]

\* query_params: the rows of a block, each converted by itself.
QueryRows(cols) ==
    /\ task = "rows" /\ got # <<>> /\ Last(got).st = "ok" /\ Last(got).v # <<>>
    /\ LET i == tableOf[Len(got)]
           columns == Rows(Answer(Last(got).v[1], cols))
       IN /\ cols \in Tables[i].selects
          /\ back' = <<[table |-> i, cols |-> cols, columns |-> columns,
                        rows |-> Map(LAMBDA r : RowFrom(Tables[i], r), columns)]>>
    /\ UNCHANGED <<vars, task, tableOf, raw, want>>

WriteBlock(b) == task = "blocks" /\ Write(b) /\ UNCHANGED rowVars
ReadBlock == task \in {"rows", "blocks"} /\ Read /\ back' = <<>> /\ UNCHANGED <<task, tableOf, raw, want>>

-----------------------------------------------------------------------------
TrySet(n, x) ==
    /\ task = "raw" /\ Len(raw) < MaxRaw
    /\ raw' = try_set_typed(raw, n, x[1], x[2], x[3])
    /\ want' = [want EXCEPT ![n] = IF raw' = raw /\ to_sql(x[2], x[3], x[1]).st # "ok" THEN @ ELSE <<x>>]
    /\ UNCHANGED <<vars, task, tableOf, back>>

TryGet(n, rt) ==
    /\ task = "raw"
    /\ raw' = try_get(raw, index_of_name(raw, n), rt).raw
    /\ want' = [want EXCEPT ![n] = <<>>]
    /\ UNCHANGED <<vars, task, tableOf, back>>

\* A RawRow that was read from a block is the row of its columns.
RawInsert ==
    /\ task = "raw" /\ raw # <<>> /\ raw_serialize(raw).st = "ok"
    /\ raw' = raw_deserialize(Map(LAMBDA c : c[1], raw)).v
    /\ UNCHANGED <<vars, task, tableOf, back, want>>

RowNext ==
    \/ \E b \in Blocks : WriteBlock(b)
    \/ \E i \in 1..Len(Tables) : InsertRows(i)
    \/ ReadBlock
    \/ \E cols \in UNION {Tables[i].selects : i \in 1..Len(Tables)} : QueryRows(cols)
    \/ \E n \in Names, x \in RawValues : TrySet(n, x) \/ TryGet(n, x[2])
    \/ RawInsert
RowSpec == RowInit /\ [][RowNext]_allVars

-----------------------------------------------------------------------------
\* The values that a field may take of columns that are no field's.
Strays(s, f, columns) ==
    LET strays == SelectSeq(columns, LAMBDA c : \A i \in 1..Len(Wanted(s)) : ~TakenByName(s, Wanted(s)[i], c[1]))
        taken == Map(LAMBDA c : from_sql(f.rt, c[2], c[3]), strays)
    IN IF Flattened(s) # <<>> THEN {} ELSE {taken[i].v : i \in {j \in 1..Len(taken) : taken[j].st = "ok"}}

\* What field i may hold after an insert and a select.
MayHold(s, row, a, columns, i) ==
    LET f == s.fields[i]
        selected == nested(f) \/ flatten(f) \/ Contains(a.cols, name(s, f))
    IN IF skip_deserializing(f) THEN {Default(f.rt)}
       ELSE IF selected /\ ~skip_serializing(f) THEN {row[i]}
       ELSE {Default(f.rt)} \union Strays(s, f, columns)

\* A row that comes back is the row that was inserted, whatever order the answer has the
\* columns in and whatever columns come with them: a field whose column was selected
\* holds what was inserted, or the row is an error.  A field whose column was not holds
\* its default, or the value of a column that is no field's: those go by their position
\* (row.rs:507, also under deny_unknown_fields), unless a field is flattened.
RowsReadBack == \A a \in {back[i] : i \in 1..Len(back)} :
    LET t == Tables[a.table]
    IN \A r \in 1..Len(a.rows) : a.rows[r].st = "ok" =>
          \A i \in 1..Len(t.struct.fields) :
             a.rows[r].v[i] \in MayHold(t.struct, t.rows[r], a, a.columns[r], i)

\* The columns of a table give all its rows, in the order of the struct or in any other,
\* as do further columns behind them; a column that no field reads fails the row when its
\* position is that of a field (row.rs:507), so those answers are left out.
RowsReadable == \A a \in {back[i] : i \in 1..Len(back)} :
    LET t == Tables[a.table]
    IN a.cols \in t.fine => Len(a.rows) = Len(t.rows) /\ \A r \in 1..Len(a.rows) : a.rows[r].st = "ok"

\* A RawRow gives each value that was set exactly once: by its name until it is fetched,
\* the last value set, at the place of the first; afterwards the name is free again.
RawRowIsMap == \A n \in Names :
    IF want[n] = <<>> THEN index_of_name(raw, n) = <<>>
    ELSE LET x == want[n][1]
         IN \E r \in {try_get(raw, index_of_name(raw, n), x[2])} :
               r.st = "ok" /\ r.v = x[3] /\ index_of_name(r.raw, n) = <<>>
=============================================================================
