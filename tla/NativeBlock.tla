---------------------------- MODULE NativeBlock ----------------------------
(***************************************************************************)
(* native/block.rs, native/block_info.rs and formats/: a block of named    *)
(* and typed columns, how it is written into a stream or a compressed      *)
(* frame, and how it is read back.                                         *)
(***************************************************************************)
EXTENDS NativeCodec

CUSTOM_SERIALIZATION == 54454   \* DBMS_MIN_PROTOCOL_VERSION_WITH_CUSTOM_SERIALIZATION

\* BlockInfo: numbered fields up to field 0.  "No overflow" is written as 2 and every
\* byte but 0 is read as an overflow.
WriteInfo(info) == Wrote(<<Num(VAR, 1), Num(1, IF info.overflows THEN 1 ELSE 2),
                           Num(VAR, 2), Num(4, info.bucket), Num(VAR, 0)>>)

RECURSIVE ReadInfoFrom(_, _)
ReadInfoFrom(info, wire) ==
    Then(ReadNum(VAR, wire), LAMBDA field, r1 :
         CASE field = 0 -> Ok(info, r1)
           [] field = 1 -> Then(ReadNum(1, r1), LAMBDA n, r2 : ReadInfoFrom([info EXCEPT !.overflows = n # 0], r2))
           [] field = 2 -> Then(ReadNum(4, r1), LAMBDA n, r2 : ReadInfoFrom([info EXCEPT !.bucket = n], r2))
           [] OTHER -> Fail("err", r1))
ReadInfo(wire) == ReadInfoFrom(DefaultInfo, wire)

\* A column of a block: name, type and, unless there are no rows, the flag of custom
\* serialization, the prefix and the values.
WriteColumn(b, i, revision) ==
    LET t == b.types[i][2]
        flag == IF revision >= CUSTOM_SERIALIZATION THEN Wrote(<<Num(1, 0)>>) ELSE Wrote(<<>>)
    IN WThen(Wrote(<<Cell(STR, b.types[i][1]), Cell(STR, Show(t))>>),
             IF b.rows = 0 THEN Wrote(<<>>)
             ELSE WThen(flag, WThen(serialize_prefix(t), serialize_column(t, ColumnOf(b, i)))))

\* Data that ends before its columns do is drained out of range: a panic.
BlockWrite(b, revision) ==
    LET short(i) == i * b.rows > Len(b.data)
    IN WThen(IF revision > 0 THEN WriteInfo(b.info) ELSE Wrote(<<>>),
       WThen(Wrote(<<Num(VAR, Len(b.types)), Num(VAR, b.rows)>>),
             WEach(LAMBDA i : IF short(i) THEN WPanic(<<>>) ELSE WriteColumn(b, i, revision),
                   [i \in 1..Len(b.types) |-> i])))

\* The type that a text names.
TypeRead(p, rest) == IF p.st = "err" THEN Fail("err", rest) ELSE Ok(p.v, rest)
ReadType(text, rest) == TypeRead(FromStr(text), rest)

ReadColumn(mode, rows, revision, wire) ==
    Then(read_string(wire), LAMBDA name, r1 :
    Then(read_string(r1), LAMBDA text, r2 :
    Then(IF revision >= CUSTOM_SERIALIZATION THEN ReadNum(1, r2) ELSE Ok(0, r2), LAMBDA custom, r3 :
    Then(ReadType(text, r3), LAMBDA t, r4 :
    IF rows = 0 THEN Ok([type |-> <<name, t>>, vals |-> <<>>], r4)
    ELSE Then(deserialize_prefix(t, r4), LAMBDA none, r5 :
         Then(deserialize_column(mode, t, rows, r5), LAMBDA vals, r6 :
              Ok([type |-> <<name, t>>, vals |-> vals], r6)))))))

BlockRead(mode, revision, wire) ==
    Then(IF revision > 0 THEN ReadInfo(wire) ELSE Ok(DefaultInfo, wire), LAMBDA info, r1 :
    Then(ReadNum(VAR, r1), LAMBDA columns, r2 :
    Then(ReadNum(VAR, r2), LAMBDA rows, r3 :
    Then(ReadMany(columns, LAMBDA w : ReadColumn(mode, rows, revision, w), r3), LAMBDA cols, r4 :
         Ok([info |-> info, rows |-> rows, types |-> [i \in 1..columns |-> cols[i].type],
             data |-> Flat([i \in 1..columns |-> cols[i].vals])], r4)))))

no_data(b) == b.data = <<>> /\ b.types = <<>>

-----------------------------------------------------------------------------
(* Blocks and rows.                                                        *)

\* take_iter_rows: row by row, a LowCardinality column by its inner type, until a column
\* has no more values.  A block without columns has no rows.
Rows(b) == IF b.types = <<>> THEN <<>>
           ELSE [r \in 1..b.rows |-> [i \in 1..Len(b.types) |->
                   <<b.types[i][1], strip_low_cardinality(b.types[i][2]), ColumnOf(b, i)[r]>>]]

\* from_rows: every value goes to the column of its name, if the type allows it.  A row
\* is a sequence of <<name, value>>.  The columns are put together as long as they are.
ColumnNamed(schema, name) == SelectInSeq(schema, LAMBDA c : c[1] = name)
from_rows(rows, schema) ==
    LET cells == Flat(rows)
        ok(c) == ColumnNamed(schema, c[1]) # 0 /\ validate_value(schema[ColumnNamed(schema, c[1])][2], c[2])
        column(i) == SelectSeq(cells, LAMBDA c : ColumnNamed(schema, c[1]) = i)
        firsts == SelectSeq([i \in 1..Len(schema) |-> i], LAMBDA i : ColumnNamed(schema, schema[i][1]) = i)
    IN IF \E i \in 1..Len(cells) : ~ok(cells[i]) THEN Fail("err", <<>>)
       ELSE Ok([info |-> DefaultInfo, rows |-> Len(rows), types |-> schema,
                data |-> Flat([i \in 1..Len(firsts) |-> [j \in 1..Len(column(firsts[i])) |-> column(firsts[i])[j][2]]])], <<>>)

\* estimate_size: the buffer that a block's synchronous writer starts with.
estimate_size(b) ==
    LET column(c) == Len(c[1]) + Len(Show(c[2])) + 10 + b.rows * estimate_capacity(c[2])
    IN (FoldLeft(LAMBDA n, c : n + column(c), 16, b.types) * 6) \div 5

-----------------------------------------------------------------------------
(* NativeFormat: an uncompressed block is streamed as it is serialized, a  *)
(* compressed one is serialized into a buffer first, so that an error in   *)
(* it leaves nothing on the stream; the reader of a compressed block takes *)
(* the frame off the stream before it looks into it.                       *)
\* Mutant: what was serialized before an error is sent.
PartlyFramed(w, method) == [w EXCEPT !.out = compress_data_sync(w.out, method).out]
SendsPartial(b, revision, method) ==
    IF method = "None" THEN BlockWrite(b, revision) ELSE PartlyFramed(BlockWrite(b, revision), method)
Framed(w, method) == IF w.st # "ok" THEN [w EXCEPT !.out = <<>>] ELSE compress_data_sync(w.out, method)
FormatWrite(b, revision, method) ==
    IF method = "None" THEN BlockWrite(b, revision) ELSE Framed(BlockWrite(b, revision), method)

into_option(r) == Then(r, LAMBDA b, rest : Ok(IF no_data(b) THEN <<>> ELSE <<b>>, rest))

FormatRead(revision, method, wire) ==
    into_option(IF method = "None" THEN BlockRead("async", revision, wire)
                ELSE Then(decompress_data_async(wire, method), LAMBDA cells, rest :
                          [BlockRead("sync", revision, cells) EXCEPT !.rest = rest]))
=============================================================================
