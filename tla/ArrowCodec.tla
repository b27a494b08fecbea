----------------------------- MODULE ArrowCodec -----------------------------
(***************************************************************************)
(* The arrow column codecs, arrow/serialize/ and arrow/deserialize/, and   *)
(* the builders of arrow/builder.rs.  Each serializer and deserializer     *)
(* exists twice, async and sync; mode tells them apart where they differ.  *)
(*                                                                         *)
(* A column is [dt, nulls, x, offs, kids]: its arrow type, which rows are  *)
(* null, the scalar of every row (<<n>>, the bytes of a text, <<key>> of a *)
(* dictionary), the offsets of a list or map (one more than its rows) and  *)
(* the columns below it.  A slice of a list or map shares them.            *)
(***************************************************************************)
EXTENDS ArrowTypes, NativeCodec

Col(dt, nulls, x, offs, kids) == [dt |-> dt, nulls |-> nulls, x |-> x, offs |-> offs, kids |-> kids]
RowsOf(c) == Len(c.nulls)
HasNull(c) == \E i \in 1..RowsOf(c) : c.nulls[i]

\* The largest values of the widths, scaled so that TLC can reach them.
U16_MAX == 100
U32_MAX == 200
U64_MOD == 1048576
DECIMAL_MAX == [Decimal32 |-> 99, Decimal64 |-> 999]
TICK == 10                      \* 1000 in the code: a unit of time in the next finer one
DAYS_1900_TO_1970 == 25567

Zeros(n) == [i \in 1..n |-> 0]
\* A small integer's bytes, little-endian and sign-extended, and back.
to_le_bytes(n, w) == [i \in 1..w |-> IF i <= 2 THEN (n \div 256^(i - 1)) % 256 ELSE IF n < 0 THEN 255 ELSE 0]
from_le_bytes(b) == b[1] + 256 * b[2] - (IF Last(b) = 255 THEN 65536 ELSE 0)
swap_endian_256(b) == Reverse(b)

ByteKinds == {"Int128", "UInt128", "Int256", "UInt256", "Ipv4", "Ipv6", "Decimal256"}

-----------------------------------------------------------------------------
(* primitive.rs: which arrays a type takes, and what a value becomes.      *)
IntTakes(t, dt) == dt.a = t.k \/ (t.k = "UInt8" /\ dt.a = "Boolean")
FloatTakes(t, dt) == dt.a \in {t.k, "Float16"} \/ (t.k = "Float64" /\ dt.a = "Float32")
Takes(t, dt) ==
    CASE t.k \in Floats -> FloatTakes(t, dt)
      [] t.k \in SameNamed -> IntTakes(t, dt)
      [] t.k \in {"Int128", "Int256"} -> dt.a \in {"Int64", "Binary", "FixedSizeBinary"}
      [] t.k \in {"UInt128", "UInt256"} -> dt.a \in {"UInt64", "Binary", "FixedSizeBinary"}
      [] t.k = "Decimal256" -> dt.a \in {"Decimal256", "Decimal128"}
      [] t.k \in Decimals -> dt.a = "Decimal128"
      [] t.k \in {"Date", "Date32"} -> dt.a = "Date32"
      [] t.k = "DateTime" -> dt.a = "Timestamp" /\ dt.u = "Second"
      [] t.k = "DateTime64" -> dt.a = "Timestamp" /\ t.p <= 9
      [] OTHER -> dt.a = "FixedSizeBinary"

\* 128 and 256 bits: an integer's own bytes, or bytes of the right length as they are;
\* 256 bits are reversed, whichever they came from.
WideBytes(t, dt, x) ==
    LET w == WidthOf(t.k)
        b == IF dt.a \in {"Int64", "UInt64"} THEN to_le_bytes(x[1], w) ELSE x
    IN IF Len(b) # w THEN WErr(<<>>)
       ELSE Wrote(<<Cell(w, IF w = 32 THEN swap_endian_256(b) ELSE b)>>)

\* A time in the unit of the column, as an unsigned 64 bit integer.
Units == <<"Second", "Millisecond", "Microsecond", "Nanosecond">>
UnitIx(u) == SelectInSeq(Units, LAMBDA e : e = u)
Ticks(t, dt, n) ==
    LET finer == UnitIx(dt.u) - UnitIx(UnitOf(t.p))
    IN IF finer >= 0 THEN (n % U64_MOD) \div TICK^finer ELSE (n * TICK^(-finer)) % U64_MOD

DecimalBytes(t, x) ==
    CASE t.k = "Decimal128" -> Wrote(<<Num(16, x[1])>>)
      [] t.k = "Decimal256" -> Wrote(<<Cell(32, swap_endian_256(to_le_bytes(x[1], 32)))>>)
      [] OTHER -> IF x[1] \in -DECIMAL_MAX[t.k]..DECIMAL_MAX[t.k] THEN Wrote(<<Num(WidthOf(t.k), x[1])>>) ELSE WErr(<<>>)

\* Days in 16 bits, days since 1900, seconds in 32 bits (a negative one wraps), ticks.
DateBytes(t, dt, x) ==
    CASE t.k = "Date" -> IF x[1] \in 0..U16_MAX THEN Wrote(<<Num(2, x[1])>>) ELSE WErr(<<>>)
      [] t.k = "Date32" -> Wrote(<<Num(4, x[1] + DAYS_1900_TO_1970)>>)
      [] t.k = "DateTime" -> IF x[1] > U32_MAX THEN WErr(<<>>) ELSE Wrote(<<Num(4, x[1] % (U32_MAX + 1))>>)
      [] t.k = "DateTime64" -> Wrote(<<Num(8, Ticks(t, dt, x[1]))>>)

IpBytes(t, x) == IF Len(x) = WidthOf(t.k) THEN Wrote(<<Cell(WidthOf(t.k), x)>>) ELSE WErr(<<>>)
UuidBytes(x) == IF Len(x) = 16 THEN Wrote(<<Cell(8, SubSeq(x, 9, 16)), Cell(8, SubSeq(x, 1, 8))>>) ELSE WErr(<<>>)

Coerced(t, dt, x) ==
    CASE t.k \in {"Int128", "UInt128", "Int256", "UInt256"} -> WideBytes(t, dt, x)
      [] t.k \in Decimals -> DecimalBytes(t, x)
      [] t.k \in Dates -> DateBytes(t, dt, x)
      [] t.k \in {"Ipv4", "Ipv6"} -> IpBytes(t, x)
      [] t.k = "Uuid" -> UuidBytes(x)
      [] OTHER -> Wrote(<<Num(WidthOf(t.k), x[1])>>)

ZeroOf(t) == IF t.k = "Uuid" THEN <<Cell(8, Zeros(8)), Cell(8, Zeros(8))>>
             ELSE IF t.k \in ByteKinds THEN <<Cell(WidthOf(t.k), Zeros(WidthOf(t.k)))>> ELSE <<Num(WidthOf(t.k), 0)>>

\* Every row of a column, a null one as `zero`.
EachRow(c, zero, F(_)) ==
    WEach(LAMBDA i : IF c.nulls[i] THEN Wrote(zero) ELSE F(c.x[i]), [i \in 1..RowsOf(c) |-> i])

write_primitive_values(t, c) == EachRow(c, ZeroOf(t), LAMBDA x : Coerced(t, c.dt, x))

PrimitiveWrite(t, c) == IF ~Takes(t, c.dt) THEN WErr(<<>>) ELSE write_primitive_values(t, c)

-----------------------------------------------------------------------------
(* binary.rs: texts with their length, or cut and padded to a fixed size.  *)
Texts == Utf8s \union Binaries
BinaryWrite(t, c) ==
    IF t.k \in FixedStrings
    THEN IF c.dt.a \notin Texts \union {"FixedSizeBinary"} THEN WErr(<<>>)
         ELSE EachRow(c, <<Cell(t.p, Zeros(t.p))>>, LAMBDA x : Wrote(<<Cell(t.p, Padded(x, t.p))>>))
    ELSE IF c.dt.a \notin Texts THEN WErr(<<>>) ELSE EachRow(c, <<Cell(STR, <<>>)>>, LAMBDA x : write_string(x))

\* null.rs: one byte for every row, unless the nulls are those of an array or a map.
NullsWrite(t, c) == IF strip_null(t).k \in {"Array", "Map"} THEN Wrote(<<>>)
                    ELSE WPutAll(1, [i \in 1..RowsOf(c) |-> IF c.nulls[i] THEN 1 ELSE 0])

\* enums.rs: a dictionary whose values are the names of the enum in their order, indexes,
\* or names; a null is 0.
NamesOf(t) == [i \in 1..Len(t.items) |-> t.items[i].name]
EnumCell(t, n) == <<Num(WidthOf(t.k), n)>>
EnumDictWrite(t, c) ==
    IF c.kids[1].dt.a # "Utf8" \/ c.kids[1].x # NamesOf(t) THEN WErr(<<>>)
    ELSE EachRow(c, EnumCell(t, 0), LAMBDA x : IF x[1] \notin 0..(Len(t.items) - 1) THEN WErr(<<>>)
                                               ELSE Wrote(EnumCell(t, t.items[x[1] + 1].idx)))
EnumIndexWrite(t, c) ==
    WEach(LAMBDA i : LET n == IF c.nulls[i] THEN 0 ELSE c.x[i][1]
                     IN IF \E j \in 1..Len(t.items) : t.items[j].idx = n THEN Wrote(EnumCell(t, n)) ELSE WErr(<<>>),
          [i \in 1..RowsOf(c) |-> i])
EnumTextWrite(t, c) ==
    LET named(x) == {i \in 1..Len(t.items) : t.items[i].name = x}
    IN EachRow(c, EnumCell(t, 0), LAMBDA x : IF named(x) = {} THEN WErr(<<>>) ELSE Wrote(EnumCell(t, t.items[Max(named(x))].idx)))
EnumWrite(t, c) == CASE c.dt.a = "Dictionary" -> EnumDictWrite(t, c)
                     [] c.dt.a \in SameNamed \ Floats -> EnumIndexWrite(t, c)
                     [] c.dt.a \in Texts -> EnumTextWrite(t, c)
                     [] OTHER -> WErr(<<>>)

-----------------------------------------------------------------------------
(* ClickHouseArrowSerializer for Type.                                     *)
RECURSIVE serialize_arrow(_, _)

\* list.rs: all offsets but the first as they are, then all the values below.
ListWrite(t, c) ==
    CASE c.dt.a \in ListViews -> WThen(WPutAll(8, Tail(c.offs)), serialize_arrow(t.in[1], c.kids[1]))
      [] c.dt.a = "FixedSizeList" -> WThen(WPutAll(8, [i \in 1..RowsOf(c) |-> c.dt.p * i]), serialize_arrow(t.in[1], c.kids[1]))
      [] OTHER -> WErr(<<>>)

\* map.rs: offsets counted from zero, then all the keys and all the values below.
MapColumnWrite(t, c) ==
    IF c.dt.a # "Map" THEN WErr(<<>>)
    ELSE WThen(WPutAll(8, [i \in 1..RowsOf(c) |-> c.offs[i + 1] - c.offs[1]]),
               WEach(LAMBDA i : serialize_arrow(t.in[i], c.kids[i]), <<1, 2>>))

\* tuple.rs: the fields one after another.
StructWrite(t, c) ==
    IF c.dt.a # "Struct" \/ Len(c.dt.in) # Len(t.in) THEN WErr(<<>>)
    ELSE WEach(LAMBDA i : serialize_arrow(t.in[i], c.kids[i]), [i \in 1..Len(t.in) |-> i])

\* low_cardinality.rs: the flags, the keys, and the index of every row.
\* Mutant: the keys are said to be a global dictionary.
GlobalLcWrite(size, keys, ixs) ==
    WThen(Wrote(<<Num(8, NEED_GLOBAL_DICTIONARY + IndexFlag(IndexKind(size))), Num(8, size)>>),
    WThen(keys, WThen(Wrote(<<Num(8, Len(ixs))>>), WPutAll(WidthOf(IndexKind(size)), ixs))))
LcWrite(size, keys, ixs) ==
    WThen(Wrote(<<Num(8, HAS_ADDITIONAL_KEYS + IndexFlag(IndexKind(size))), Num(8, size)>>),
    WThen(keys, WThen(Wrote(<<Num(8, Len(ixs))>>), WPutAll(WidthOf(IndexKind(size)), ixs))))

\* write_values: the dictionary as it is, after a default when the column is nullable and
\* the dictionary holds no null; every key moves by that one, a null is 0.
\* Mutant: the keys stay where they were when a default is put before the dictionary.
UnmovedValues(inner, c) ==
    LET modifier == IF is_nullable(inner) /\ ~HasNull(c.kids[1]) THEN 1 ELSE 0
    IN LcWrite(RowsOf(c.kids[1]) + modifier,
               WThen(IF modifier = 1 THEN write_default(inner) ELSE Wrote(<<>>), serialize_arrow(strip_null(inner), c.kids[1])),
               [i \in 1..RowsOf(c) |-> IF c.nulls[i] THEN 0 ELSE c.x[i][1]])
\* Mutant: a default is put before a dictionary that holds a null too.
DefaultedValues(inner, c) ==
    LET modifier == IF is_nullable(inner) THEN 1 ELSE 0
    IN LcWrite(RowsOf(c.kids[1]) + modifier,
               WThen(IF modifier = 1 THEN write_default(inner) ELSE Wrote(<<>>), serialize_arrow(strip_null(inner), c.kids[1])),
               [i \in 1..RowsOf(c) |-> IF c.nulls[i] THEN 0 ELSE c.x[i][1] + modifier])
write_values(inner, c) ==
    LET dict == c.kids[1]
        modifier == IF is_nullable(inner) /\ ~HasNull(dict) THEN 1 ELSE 0
        ixs == [i \in 1..RowsOf(c) |-> IF c.nulls[i] THEN 0 ELSE c.x[i][1] + modifier]
    IN LcWrite(RowsOf(dict) + modifier,
               WThen(IF modifier = 1 THEN write_default(inner) ELSE Wrote(<<>>), serialize_arrow(strip_null(inner), dict)), ixs)

\* write_string_values: the distinct texts, after an empty one when there are nulls.
StringDictionary(nullable, c) ==
    LET first == IF HasNull(c) \/ nullable THEN << <<>> >> ELSE <<>>
        texts == SelectSeq([i \in 1..RowsOf(c) |-> <<c.nulls[i], c.x[i]>>], LAMBDA e : ~e[1])
    IN FoldLeft(LAMBDA acc, e : IF Contains(acc, e[2]) THEN acc ELSE Append(acc, e[2]), first, texts)
TextsWrite(dict, c) ==
    LcWrite(Len(dict), WEach(write_string, dict),
            [i \in 1..RowsOf(c) |-> IF c.nulls[i] THEN 0 ELSE SelectInSeq(dict, LAMBDA e : e = c.x[i]) - 1])
write_string_values(nullable, c) == TextsWrite(StringDictionary(nullable, c), c)

DictionaryWrite(t, c) ==
    CASE RowsOf(c) = 0 -> Wrote(<<>>)
      [] c.dt.a = "Dictionary" -> write_values(strip_null(t).in[1], c)
      [] c.dt.a \in Texts -> write_string_values(is_nullable(t), c)
      [] OTHER -> WErr(<<>>)

ValuesWrite(t0, t, c) ==
    CASE t.k \in Enums -> EnumWrite(t, c)
      [] t.k \in SizedKinds -> PrimitiveWrite(t, c)
      [] t.k \in Strings \union FixedStrings \union {"Object"} -> BinaryWrite(t, c)
      [] t.k = "LowCardinality" -> DictionaryWrite(t0, c)
      [] t.k = "Array" -> ListWrite(t, c)
      [] t.k = "Map" -> MapColumnWrite(t0, c)
      [] t.k = "Tuple" -> StructWrite(t, c)
      [] OTHER -> serialize_arrow(normalize_geo_type(t), c)
serialize_arrow(t0, c) ==
    WThen(IF is_nullable(t0) THEN NullsWrite(t0, c) ELSE Wrote(<<>>), ValuesWrite(t0, strip_null(t0), c))

-----------------------------------------------------------------------------
(* The builders.  A builder is the type it was made for; a geo type is not *)
(* implemented, and what a list, a tuple or a map holds is checked too.    *)
RECURSIVE try_new(_, _)
BuilderFits(t, d) ==
    CASE t.k = "Array" -> d.a \in {"List", "LargeList", "FixedSizeList"}
      [] t.k = "LowCardinality" -> d.a = "Dictionary"
      [] t.k = "Tuple" -> d.a = "Struct" /\ Len(d.in) = Len(t.in)
      [] t.k = "Map" -> d.a = "Map" /\ Len(d.in) >= 2
Unless(t, ends) == CASE "panic" \in ends -> Fail("panic", <<>>) [] "err" \in ends -> Fail("err", <<>>) [] OTHER -> Ok(t, <<>>)
try_new(t0, d) ==
    LET t == strip_null(t0)
    IN CASE t.k \in {"Array", "LowCardinality", "Tuple", "Map"} ->
              IF ~BuilderFits(t, d) THEN Fail("err", <<>>)
              ELSE Unless(t, {try_new(t.in[i], d.in[i].dt).st : i \in 1..Len(t.in)})
         [] t.k = "DateTime64" /\ t.p > 9 -> Fail("err", <<>>)
         [] t.k \in Geo -> Fail("panic", <<>>)
         [] OTHER -> Ok(t, <<>>)

\* The arrow type of what a scalar's builder makes: texts are Utf8 whatever the options.
BuilderDT(t) == ch_to_arrow_type(t, [NewOptions EXCEPT !.strings_as_strings = TRUE]).v.dt

-----------------------------------------------------------------------------
(* ClickHouseArrowDeserializer for Type.                                   *)
RECURSIVE ReadBytes(_, _)
ReadBytes(n, wire) ==
    IF wire = <<>> THEN Fail("err", wire)
    ELSE IF Head(wire).w = n THEN Ok(Head(wire).x, Tail(wire))
    ELSE IF Head(wire).w \notin 1..n THEN Fail("torn", wire)
    ELSE Then(ReadBytes(n - Head(wire).w, Tail(wire)), LAMBDA x, rest : Ok(Head(wire).x \o x, rest))

REPLACEMENT == -1       \* U+FFFD, in the place of what is not UTF-8
from_utf8_lossy(x) == [i \in 1..Len(x) |-> IF x[i] > 127 THEN REPLACEMENT ELSE x[i]]
\* The text of a JSON value, without blanks; a text that is none is left as it is.
JsonText(x) == IF x # <<>> /\ Head(x) = 123 /\ Last(x) = 125 THEN SelectSeq(x, LAMBDA b : b # 32) ELSE x

Mapped(r, F(_)) == Then(r, LAMBDA v, rest : Ok(F(v), rest))
PrimitiveRead(t, wire) ==
    CASE t.k = "Date32" -> Mapped(ReadNum(4, wire), LAMBDA n : <<n - DAYS_1900_TO_1970>>)
      [] t.k = "DateTime64" -> Mapped(ReadNum(8, wire), LAMBDA n : <<IF 2 * n >= U64_MOD THEN n - U64_MOD ELSE n>>)
      [] t.k = "Decimal256" -> Mapped(ReadBytes(32, wire), LAMBDA b : <<from_le_bytes(Reverse(b))>>)
      [] OTHER -> Mapped(ReadNum(WidthOf(t.k), wire), LAMBDA n : <<n>>)
BinaryRead(t, wire) ==
    CASE t.k = "String" -> Mapped(read_string(wire), from_utf8_lossy)
      [] t.k = "Object" -> Mapped(read_string(wire), LAMBDA x : JsonText(from_utf8_lossy(x)))
      [] t.k = "Binary" -> read_string(wire)
      [] t.k \in FixedStrings -> ReadBytes(t.p, wire)
      [] t.k = "Ipv4" -> Mapped(ReadBytes(4, wire), Reverse)
      [] t.k \in {"Ipv6", "Uuid", "Int128", "UInt128"} -> ReadBytes(16, wire)
      [] OTHER -> Mapped(ReadBytes(32, wire), Reverse)
BinaryKinds == Strings \union FixedStrings
               \union {"Object", "Ipv4", "Ipv6", "Uuid", "Int128", "UInt128", "Int256", "UInt256"}
ScalarRead(t, wire) == IF t.k \in BinaryKinds THEN BinaryRead(t, wire) ELSE PrimitiveRead(t, wire)

\* The rows a mask calls null.
NullRows(nulls, rows) == [i \in 1..rows |-> nulls # <<>> /\ nulls[i] # 0]

\* The scalars of a column: every value is read, the null ones are dropped.
ScalarsRead(b, rows, nulls, wire) ==
    LET null == NullRows(nulls, rows)
    IN Mapped(ReadMany(rows, LAMBDA w : ScalarRead(b, w), wire),
              LAMBDA xs : Col(BuilderDT(b), null, [i \in 1..rows |-> IF null[i] THEN <<>> ELSE xs[i]], <<>>, <<>>))
\* The async twin asks that the builder be one for the type, the sync twin reads what the
\* builder was made for.
ScalarsReadAsync(t, b, rows, nulls, wire) ==
    IF b.k # t.k THEN Fail("err", wire) ELSE ScalarsRead(b, rows, nulls, wire)

\* enums.rs: the names as a dictionary, in the order in which they occur.
EnumRead(t, rows, nulls, wire) ==
    Then(ReadMany(rows, LAMBDA w : ReadNum(WidthOf(t.k), w), wire), LAMBDA ns, rest :
         LET null == NullRows(nulls, rows)
             item(n) == SelectInSeq(t.items, LAMBDA e : e.idx = n)
             used == SelectSeq([i \in 1..rows |-> i], LAMBDA i : ~null[i])
             seen == FoldLeft(LAMBDA acc, i : IF \E j \in 1..Len(acc) : acc[j] = t.items[item(ns[i])].name THEN acc
                                              ELSE Append(acc, t.items[item(ns[i])].name), <<>>, used)
             key(i) == SelectInSeq(seen, LAMBDA e : e = t.items[item(ns[i])].name) - 1
         IN IF \E i \in 1..rows : ~null[i] /\ item(ns[i]) = 0 THEN Fail("err", rest)
            ELSE Ok(Col(BuilderDT(t), null, [i \in 1..rows |-> IF null[i] THEN <<>> ELSE <<key(i)>>], <<>>,
                        <<Col(DT("Utf8"), [i \in 1..Len(seen) |-> FALSE], seen, <<>>, <<>>)>>), rest))

RECURSIVE deserialize_arrow(_, _, _, _, _, _, _)

\* bulk_offsets, for lists and maps; offsets that go down are refused with a panic.
bulk_offsets(rows, wire) ==
    Then(ReadMany(rows, LAMBDA w : ReadNum(8, w), wire),
         LAMBDA offs, rest : IF GoesDown(<<0>> \o offs) THEN Fail("panic", rest) ELSE Ok(<<0>> \o offs, rest))

ListRead(mode, t, b, d, rows, nulls, wire) ==
    IF d.a \notin {"List", "ListView", "LargeList"} \/ b.k # "Array" THEN Fail("err", wire)
    ELSE Then(bulk_offsets(rows, wire), LAMBDA offs, r1 :
         Mapped(deserialize_arrow(mode, t.in[1], strip_null(b.in[1]), d.in[1].dt, Last(offs), <<>>, r1), LAMBDA kid :
                Col(ListDT(kid.dt, is_nullable(strip_low_cardinality(t.in[1]))), NullRows(nulls, rows),
                    [i \in 1..rows |-> <<>>], offs, <<kid>>)))

\* StructArray::new: the columns must have the types of the fields.
StructNew(a, fields, nulls, rows, offs, kids, rest) ==
    IF \E i \in 1..Len(kids) : kids[i].dt # fields[i].dt \/ (~fields[i].null /\ HasNull(kids[i])) THEN Fail("panic", rest)
    ELSE Ok(Col([DT(a) EXCEPT !.in = fields], NullRows(nulls, rows), [i \in 1..rows |-> <<>>], offs, kids), rest)

MapColumnRead(mode, t, b, d, rows, nulls, wire) ==
    IF d.a # "Map" \/ b.k # "Map" THEN Fail("err", wire)
    ELSE Then(bulk_offsets(rows, wire), LAMBDA offs, r1 :
         Then(deserialize_arrow(mode, t.in[1], strip_null(b.in[1]), d.in[1].dt, Last(offs), <<>>, r1), LAMBDA ks, r2 :
         Then(deserialize_arrow(mode, t.in[2], strip_null(b.in[2]), d.in[2].dt, Last(offs), <<>>, r2), LAMBDA vs, r3 :
              StructNew("Map", d.in, nulls, rows, offs, <<ks, vs>>, r3))))

\* No rows: two empty columns of fixed types, which must be the types of the fields.
StructRead(mode, t, b, d, rows, nulls, wire) ==
    IF d.a # "Struct" \/ b.k # "Tuple" THEN Fail("err", wire)
    ELSE IF rows = 0
    THEN IF Len(d.in) = 2 /\ d.in[1].dt = DT("Int32") /\ d.in[2].dt = DT("Utf8")
         THEN Ok(Col(d, <<>>, <<>>, <<>>, [i \in 1..2 |-> Col(d.in[i].dt, <<>>, <<>>, <<>>, <<>>)]), wire)
         ELSE Fail("err", wire)
    ELSE Then(FoldLeft(LAMBDA acc, i : Then(acc, LAMBDA ks, rest :
                  Then(deserialize_arrow(mode, t.in[i], strip_null(b.in[i]), d.in[i].dt, rows, <<>>, rest),
                       LAMBDA k, r2 : Ok(Append(ks, k), r2))), Ok(<<>>, wire), [i \in 1..Len(t.in) |-> i]),
              LAMBDA ks, rest : StructNew("Struct", d.in, nulls, rows, <<>>, ks, rest))

\* The kind of the indexes and the size of the dictionary.
DictionaryFlags(wire) ==
    Then(ReadNum(8, wire), LAMBDA flags, r1 :
    IF flags % 256 > 3 THEN Fail("err", r1)
    ELSE Then(ReadNum(8, r1), LAMBDA size, r2 :
         IF flags \div 256 = 0 THEN Fail("err", r2) ELSE Ok(<<IndexKinds[(flags % 256) + 1], size>>, r2)))

\* The keys, which must be in the dictionary, and as many as there are rows.
DictionaryKeys(kind, key, dict, rows, nulls, wire) ==
    Then(ReadNum(8, wire), LAMBDA n, r1 :
    IF n # rows THEN Fail("err", r1)
    ELSE Then(ReadMany(rows, LAMBDA w : ReadNum(WidthOf(kind), w), r1), LAMBDA keys, r2 :
         LET null == NullRows(nulls, rows)
         IN IF \E i \in 1..rows : ~null[i] /\ keys[i] >= RowsOf(dict) THEN Fail("panic", r2)
            ELSE Ok(Col(DictDT(key, dict.dt), null, [i \in 1..rows |-> <<keys[i]>>], <<>>, <<dict>>), r2)))

\* Flags, dictionary and keys; the first entry of a nullable dictionary is its null.
DictionaryRead(mode, t, b, d, rows, nulls, wire) ==
    LET inner == t.in[1]
        mask(size) == IF is_nullable(inner) THEN [i \in 1..size |-> IF i = 1 THEN 1 ELSE 0] ELSE <<>>
    IN IF d.a # "Dictionary" \/ b.k # "LowCardinality" THEN Fail("err", wire)
       ELSE Then(DictionaryFlags(wire), LAMBDA f, r1 :
            IF is_nullable(inner) /\ f[2] = 0 THEN Fail("panic", r1)
            ELSE Then(deserialize_arrow(mode, strip_null(inner), strip_null(b.in[1]), d.in[1].dt, f[2], mask(f[2]), r1),
                      LAMBDA dict, r2 : DictionaryKeys(f[1], d.u, dict, rows, nulls, r2)))

NullsRead(rows, wire) == ReadMany(rows, LAMBDA w : ReadNum(1, w), wire)

deserialize_arrow(mode, t, b, d, rows, nulls, wire) ==
    CASE t.k = "Nullable" ->
           Then(NullsRead(rows, wire), LAMBDA mask, rest :
                deserialize_arrow(mode, t.in[1], b, d, rows, mask, rest))
      [] t.k = "Array" -> ListRead(mode, t, b, d, rows, nulls, wire)
      [] t.k = "Map" -> MapColumnRead(mode, t, b, d, rows, nulls, wire)
      [] t.k = "Tuple" -> StructRead(mode, t, b, d, rows, nulls, wire)
      [] t.k = "LowCardinality" -> DictionaryRead(mode, t, b, d, rows, nulls, wire)
      [] t.k \in Enums -> IF b.k # t.k THEN Fail("err", wire) ELSE EnumRead(t, rows, nulls, wire)
      [] t.k \in Geo -> LET n == normalize_geo_type(t)
                        IN deserialize_arrow(mode, n, b, ch_to_arrow_type(n, NoOptions).v.dt, rows, nulls, wire)
      [] mode = "async" -> ScalarsReadAsync(t, b, rows, nulls, wire)
      [] OTHER -> ScalarsRead(b, rows, nulls, wire)
=============================================================================
