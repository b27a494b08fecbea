----------------------------- MODULE ArrowRows -----------------------------
(***************************************************************************)
(* arrow/utils.rs and arrow/schema.rs: the rows of values that a client of *)
(* record batches gives for a batch (query_rows), the first row and the    *)
(* first column of an answer (query_one, query_column), and the arrow      *)
(* schema of a table.  A hint is <<>>, or <<type>>: what the header of the *)
(* answer says of a column.                                                *)
(***************************************************************************)
EXTENDS ArrowBlock

Done(v) == Ok(v, <<>>)
Bad == Fail("err", <<>>)
Panics == Fail("panic", <<>>)

\* A dictionary cast to the type of its values: a key without a value is a null.
unpack_dictionary(c) ==
    LET dict == c.kids[1]
        null(i) == c.nulls[i] \/ dict.nulls[c.x[i][1] + 1]
    IN Col(dict.dt, [i \in 1..RowsOf(c) |-> null(i)],
           [i \in 1..RowsOf(c) |-> IF null(i) THEN <<>> ELSE dict.x[c.x[i][1] + 1]], <<>>, <<>>)

\* The dates and times of a row, none before 1970 (2^31 is the largest number here, so
\* seconds beyond u32 do not occur), and the name of an enum in its type.
date_of(x) == IF x[1] \notin 0..65535 THEN Panics ELSE Done(Val("Date", x))
instant_of(dt, x) ==
    IF x[1] < 0 THEN Panics
    ELSE Done([Val(IF dt.u = "Second" THEN "DateTime" ELSE "DateTime64",
                   IF dt.u = "Second" THEN x ELSE Append(x, Precision[dt.u])) EXCEPT !.tz = dt.tz])
enum_of(t, x) == LET i == SelectInSeq(t.items, LAMBDA item : item.name = x)
                 IN Done(IF i = 0 THEN Null ELSE Val(t.k, <<t.items[i].idx>> \o x))

\* A value of a column without columns below it.  The value of a decimal has the
\* precision of its type where others have the scale.
scalar_value(dt, hint, x) ==
    CASE dt.a \in SameNamed -> Done(Val(dt.a, x))
      [] dt.a = "FixedSizeBinary" /\ hint # <<>> /\ hint[1].k = "Uuid" -> IF dt.p = 16 THEN Done(Val("Uuid", x)) ELSE Bad
      [] dt.a \in Binaries \union Utf8s \union {"FixedSizeBinary"} -> Done(Val("String", x))
      [] dt.a = "Boolean" -> Done(Val("UInt8", x))
      [] dt.a \in {"Decimal128", "Decimal256"} -> Done(Val(dt.a, <<dt.p>> \o x))
      [] dt.a = "Date32" -> date_of(x)
      [] dt.a = "Timestamp" -> instant_of(dt, x)
      [] OTHER -> Bad

Collected(rs) == LET bad == {i \in 1..Len(rs) : rs[i].st # "ok"}
                 IN IF bad = {} THEN Done([i \in 1..Len(rs) |-> rs[i].v]) ELSE rs[Min(bad)]

\* Mutant: the values of a list come from the start of the values below it.
RowsAtStart(c, i) == LET n == c.offs[i + 1] - c.offs[i] IN <<1, n>>
\* Where the values of row i of a list or map are below it.
RowRange(c, i) == IF c.dt.a = "FixedSizeList" THEN <<(i - 1) * c.dt.p + 1, i * c.dt.p>> ELSE <<c.offs[i] + 1, c.offs[i + 1]>>

\* array_to_values.  Lists pass the type of their elements on, tuples and maps do not.
RECURSIVE array_to_values(_, _)
array_to_values(c, hint) ==
    LET span(i, values) == SubSeq(values, RowRange(c, i)[1], RowRange(c, i)[2])
        below(j, h) == array_to_values(c.kids[j], h)
        elements == IF hint # <<>> /\ hint[1].k = "Array" THEN hint[1].in ELSE <<>>
        each(value(_)) == Collected([i \in 1..RowsOf(c) |-> IF c.nulls[i] THEN Done(Null) ELSE value(i)])
        enum == hint # <<>> /\ <<c.dt.u, hint[1].k>> \in {<<"Int8", "Enum8">>, <<"Int16", "Enum16">>}
    IN CASE c.dt.a \in {"List", "LargeList", "FixedSizeList"} ->
              Then(below(1, elements), LAMBDA vs, none : each(LAMBDA i : Done(Arr(span(i, vs)))))
         [] c.dt.a = "Struct" ->
              Then(Collected([j \in 1..Len(c.kids) |-> below(j, <<>>)]), LAMBDA cols, none :
                   each(LAMBDA i : Done(Tup([j \in 1..Len(cols) |-> cols[j][i]]))))
         [] c.dt.a = "Map" ->
              Then(below(1, <<>>), LAMBDA ks, none : Then(below(2, <<>>), LAMBDA vs, none2 :
                   each(LAMBDA i : Done(MapV(span(i, ks), span(i, vs))))))
         [] c.dt.a = "Dictionary" ->
              LET flat == unpack_dictionary(c)
              IN IF enum THEN Collected([i \in 1..RowsOf(c) |-> IF flat.nulls[i] THEN Done(Null) ELSE enum_of(hint[1], flat.x[i])])
                 ELSE array_to_values(flat, hint)
         [] c.dt.a = "Null" -> Done([i \in 1..RowsOf(c) |-> Null])
         [] OTHER -> each(LAMBDA i : scalar_value(c.dt, hint, c.x[i]))

batch_to_rows(b, header) ==
    LET hint(i) == SelectSeq(header, LAMBDA h : h[1] = b.fields[i][1])
    IN Then(Collected([i \in 1..Len(b.cols) |-> array_to_values(b.cols[i], IF hint(i) = <<>> THEN <<>> ELSE <<hint(i)[1][2]>>)]),
            LAMBDA cols, none : Done([r \in 1..b.rows |-> [i \in 1..Len(cols) |-> cols[i][r]]]))

-----------------------------------------------------------------------------
(* What is asked of an answer, the batches in their order.                 *)
query_rows(batches, header) ==
    Then(Collected([k \in 1..Len(batches) |-> batch_to_rows(batches[k], header)]), LAMBDA rows, none : Done(FlattenSeq(rows)))
\* Mutant: the last block answers.
query_one_last(batches) ==
    IF batches = <<>> THEN <<>>
    ELSE LET b == batches[Len(batches)] IN <<Batch(b.fields, [i \in 1..Len(b.cols) |-> SliceCol(b.cols[i], 0, 1)], 1)>>
query_one(batches) ==
    IF batches = <<>> \/ batches[1].rows = 0 THEN <<>>
    ELSE LET b == batches[1] IN <<Batch(b.fields, [i \in 1..Len(b.cols) |-> SliceCol(b.cols[i], 0, 1)], 1)>>
query_column(batches) == IF batches = <<>> \/ batches[1].rows = 0 THEN <<>> ELSE <<batches[1].cols[1]>>

\* The rows that system.columns has of a table are <<name, text of the type>>.
\* Mutant: the schema is made without the options of the client.
fetch_schema_plain(described, options) ==
    LET f(i) == ch_to_arrow_type(FromStr(described[i][2]).v, NoOptions)
    IN Done([i \in 1..Len(described) |-> <<described[i][1], f(i).v>>])
fetch_schema(described, options) ==
    EachParsed(LAMBDA d : ThenParsed(FromStr(d[2]), LAMBDA t : ThenParsed(ch_to_arrow_type(t, options), LAMBDA f :
                          Parsed(<<d[1], f>>))), described)
-----------------------------------------------------------------------------
(* What a column says, row by row, whatever arrow type carries it.         *)
Nil == [null |-> TRUE, v |-> <<>>]
Is(v) == [null |-> FALSE, v |-> v]
RECURSIVE Logical(_)
Logical(c) ==
    LET below == [j \in 1..Len(c.kids) |-> Logical(c.kids[j])]
        span(i, s) == SubSeq(s, c.offs[i] + 1, c.offs[i + 1])
        row(i) == CASE c.dt.a = "Dictionary" -> below[1][c.x[i][1] + 1]
                    [] c.dt.a \in ListViews -> Is(span(i, below[1]))
                    [] c.dt.a = "FixedSizeList" -> Is(SubSeq(below[1], (i - 1) * c.dt.p + 1, i * c.dt.p))
                    [] c.dt.a = "Map" -> Is(<<span(i, below[1]), span(i, below[2])>>)
                    [] c.dt.a = "Struct" -> Is([j \in 1..Len(below) |-> below[j][i]])
                    [] OTHER -> Is(c.x[i])
    IN [i \in 1..RowsOf(c) |-> IF c.nulls[i] THEN Nil ELSE row(i)]

\* The same of a value of the native client.
RECURSIVE LogicalValue(_)
LogicalValue(a) ==
    LET all(s) == [i \in 1..Len(s) |-> LogicalValue(s[i])]
    IN CASE a.v = "Null" -> Nil
         [] a.v \in {"Array", "Tuple"} -> Is(all(a.in))
         [] a.v = "Map" -> Is(<<all(a.in), all(a.in2)>>)
         [] a.v \in Decimals -> Is(<<a.x[2]>>)
         [] a.v = "DateTime64" -> Is(<<a.x[1]>>)
         [] a.v = "Date32" -> Is(<<a.x[1] - DAYS_1900_TO_1970>>)
         [] a.v \in Enums -> Is(Tail(a.x))
         [] OTHER -> Is(a.x)
=============================================================================
