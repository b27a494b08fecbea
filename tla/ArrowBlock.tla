----------------------------- MODULE ArrowBlock -----------------------------
(***************************************************************************)
(* arrow/block.rs, formats/arrow.rs and the splitting of arrow/utils.rs: a *)
(* record batch on the stream.  A batch is [fields, cols, rows]: a field   *)
(* is <<name, [dt, null]>>, a column is one of ArrowCodec.  The header is  *)
(* the table's columns as the server named and typed them.                 *)
(***************************************************************************)
EXTENDS ArrowCodec, NativeBlock

Batch(fields, cols, rows) == [fields |-> fields, cols |-> cols, rows |-> rows]
EmptyBatch == Batch(<<>>, <<>>, 0)

\* The type of a column: the server's, if it named the column, else the arrow type's own.
TypeFor(header, field, options) ==
    LET i == SelectInSeq(header, LAMBDA h : h[1] = field[1])
    IN IF i # 0 THEN Parsed(header[i][2]) ELSE arrow_to_ch_type(field[2].dt, field[2].null, options)

\* Name, type (a geo type as the arrays it is made of) and flag; the prefix and the values
\* unless the column is empty.
WireType(t) == IF t.k \in Geo THEN normalize_geo_type(t) ELSE t
TypedColumnWrite(name, t, c, revision) ==
    WThen(Wrote(<<Cell(STR, name), Cell(STR, Show(t))>> \o IF revision >= CUSTOM_SERIALIZATION THEN <<Num(1, 0)>> ELSE <<>>),
          IF RowsOf(c) = 0 THEN Wrote(<<>>) ELSE WThen(serialize_prefix(t), serialize_arrow(t, c)))
ColumnWriteAs(p, name, c, revision) ==
    IF p.st # "ok" THEN WErr(<<>>) ELSE TypedColumnWrite(name, WireType(p.v), c, revision)
BatchColumnWrite(b, i, revision, header, options) ==
    ColumnWriteAs(TypeFor(header, b.fields[i], options), b.fields[i][1], b.cols[i], revision)

BatchWrite(b, revision, header, options) ==
    WThen(IF revision > 0 THEN WriteInfo(DefaultInfo) ELSE Wrote(<<>>),
    WThen(Wrote(<<Num(VAR, Len(b.fields)), Num(VAR, b.rows)>>),
          WEach(LAMBDA i : BatchColumnWrite(b, i, revision, header, options), [i \in 1..Len(b.fields) |-> i])))

\* RecordBatch::try_new: every column has its field's type, no null where there is none.
TryBatch(fields, cols, rows, rest) ==
    IF \A i \in 1..Len(cols) : cols[i].dt = fields[i][2].dt /\ (HasNull(cols[i]) => fields[i][2].null)
    THEN Ok(Batch(fields, cols, rows), rest) ELSE Fail("err", rest)

\* new_empty_array: a column of a type without rows, down to its children.
RECURSIVE NoRows(_)
NoRows(d) == Col(d, <<>>, <<>>, IF d.a \in {"List", "Map"} THEN <<0>> ELSE <<>>, [i \in 1..Len(d.in) |-> NoRows(d.in[i].dt)])

\* What a type on the wire is read as: a field, and the type brought to it.
HintFrom(t, n) == IF n = <<>> THEN t ELSE n[1]
HintFor(t, d) == HintFrom(t, normalize_type(t, d))
FieldRead(text, options, rest) ==
    TypeRead(ThenParsed(FromStr(text), LAMBDA t : ThenParsed(ch_to_arrow_type(t, options), LAMBDA f :
                        Parsed([field |-> f, hint |-> HintFor(t, f.dt)]))), rest)

\* The builder that an earlier block of the query made for the place, or a new one.
BuilderFor(i, builders, f, rest) ==
    IF i <= Len(builders) THEN Ok(builders[i], rest) ELSE [try_new(f.hint, f.field.dt) EXCEPT !.rest = rest]
WithColumn(acc, builders, name, f, c) ==
    [builders |-> builders, fields |-> Append(acc.fields, <<name, f.field>>), cols |-> Append(acc.cols, c)]

\* One column.  The accumulator is [builders, fields, cols].
BatchColumnRead(mode, i, acc, rows, revision, options, wire) ==
    Then(read_string(wire), LAMBDA name, r1 :
    Then(read_string(r1), LAMBDA text, r2 :
    Then(FieldRead(text, options, r2), LAMBDA f, r3 :
    Then(IF revision >= CUSTOM_SERIALIZATION THEN ReadNum(1, r3) ELSE Ok(0, r3), LAMBDA custom, r4 :
    IF rows = 0 THEN Ok(WithColumn(acc, acc.builders, name, f, NoRows(f.field.dt)), r4)
    ELSE Then(BuilderFor(i, acc.builders, f, r4), LAMBDA b, r5 :
         Then(deserialize_prefix(f.hint, r5), LAMBDA none, r6 :
         Mapped(deserialize_arrow(mode, f.hint, b, f.field.dt, rows, <<>>, r6), LAMBDA c :
                WithColumn(acc, IF i <= Len(acc.builders) THEN acc.builders ELSE Append(acc.builders, b), name, f, c))))))))

\* The block info is read at every revision.  The value is [batch, builders].
BatchRead(mode, builders, revision, options, wire) ==
    Then(ReadInfo(wire), LAMBDA info, r1 :
    Then(ReadNum(VAR, r1), LAMBDA columns, r2 :
    Then(ReadNum(VAR, r2), LAMBDA rows, r3 :
    IF columns = 0 /\ rows = 0 THEN Ok([batch |-> EmptyBatch, builders |-> builders], r3)
    ELSE Then(FoldLeft(LAMBDA r, i : Then(r, LAMBDA acc, rest : BatchColumnRead(mode, i, acc, rows, revision, options, rest)),
                       Ok([builders |-> builders, fields |-> <<>>, cols |-> <<>>], r3), [i \in 1..columns |-> i]),
              LAMBDA acc, rest : Mapped(TryBatch(acc.fields, acc.cols, rows, rest),
                                        LAMBDA b : [batch |-> b, builders |-> acc.builders])))))

-----------------------------------------------------------------------------
(* ArrowFormat.                                                            *)
ArrowWrite(b, revision, method, header, options) ==
    IF method = "None" THEN BatchWrite(b, revision, header, options)
    ELSE Framed(BatchWrite(b, revision, header, options), method)

ArrowRead(builders, revision, method, options, wire) ==
    IF method = "None" THEN BatchRead("async", builders, revision, options, wire)
    ELSE Then(decompress_data_async(wire, method), LAMBDA cells, rest :
              [BatchRead("sync", builders, revision, options, cells) EXCEPT !.rest = rest])

\* The end of a query clears the builders.
finish_deser(builders) == <<>>

-----------------------------------------------------------------------------
(* split_record_batch: at most max rows a batch.  A slice of a list or map *)
(* keeps the values below it and shares the offsets; one of a struct or of *)
(* a list of fixed size slices what is below it.                           *)
RECURSIVE SliceCol(_, _, _)
SliceCol(c, from, n) ==
    [c EXCEPT !.nulls = SubSeq(@, from + 1, from + n),
              !.x = SubSeq(@, from + 1, from + n),
              !.offs = IF @ = <<>> THEN @ ELSE SubSeq(@, from + 1, from + n + 1),
              !.kids = CASE c.dt.a = "Struct" -> [i \in 1..Len(@) |-> SliceCol(@[i], from, n)]
                         [] c.dt.a = "FixedSizeList" -> <<SliceCol(@[1], from * c.dt.p, n * c.dt.p)>>
                         [] OTHER -> @]

split_record_batch(b, max) ==
    LET chunks == (b.rows + max - 1) \div max
        chunk(k) == LET n == Min({max, b.rows - (k - 1) * max})
                    IN Batch(b.fields, [i \in 1..Len(b.cols) |-> SliceCol(b.cols[i], (k - 1) * max, n)], n)
    IN IF max = 0 THEN <<>>
       ELSE IF b.rows = 0 \/ b.rows < max THEN <<b>>
       ELSE [k \in 1..chunks |-> chunk(k)]
=============================================================================
