---------------------------- MODULE NativeCodec ----------------------------
(***************************************************************************)
(* The native column codecs, native/types/serialize/ and deserialize/.     *)
(* Every serializer exists twice, for an async writer and for a buffer,    *)
(* and so does every deserializer; mode \in {"async", "sync"} picks the    *)
(* twin, and a definition says where the two differ.                       *)
(***************************************************************************)
EXTENDS ChValues, Wire

LOW_CARDINALITY_VERSION == 1
HAS_ADDITIONAL_KEYS == 512
NEED_GLOBAL_DICTIONARY == 256
NEED_UPDATE_DICTIONARY == 1024

\* The number of keys above which an index needs the next width: 255, 65535 and 2^32 - 1
\* in the code, scaled so that every width is reached.
U8_KEYS == 2
U16_KEYS == 3
U32_KEYS == 4
IndexKind(n) == CASE n > U32_KEYS -> "UInt64" [] n > U16_KEYS -> "UInt32" [] n > U8_KEYS -> "UInt16" [] OTHER -> "UInt8"
IndexKinds == <<"UInt8", "UInt16", "UInt32", "UInt64">>
IndexFlag(k) == (CHOOSE i \in 1..4 : IndexKinds[i] = k) - 1

normalize_map_type(t) == Of("Array", <<Of("Tuple", t.in)>>)

\* The type of the items of a geo array.
GeoItem(k) == CASE k = "Ring" -> Ty("Point") [] k = "Polygon" -> Ty("Ring") [] OTHER -> Ty("Polygon")

-----------------------------------------------------------------------------
(* Prefixes: the version of a LowCardinality and the tag of an Object,     *)
(* wherever in a type they occur.  The sync twins skip the geo arrays,     *)
(* which have none.                                                        *)
\* Mutant: only a column that is itself a LowCardinality or an Object has a prefix.
OuterPrefix(t) == IF t.k = "LowCardinality" THEN Wrote(<<Num(8, LOW_CARDINALITY_VERSION)>>)
                  ELSE IF t.k = "Object" THEN Wrote(<<Num(1, 1)>>) ELSE Wrote(<<>>)
RECURSIVE serialize_prefix(_)
serialize_prefix(t) ==
    CASE t.k \in {"Nullable", "Array", "Tuple"} -> WEach(serialize_prefix, t.in)
      [] t.k = "Map" -> serialize_prefix(normalize_map_type(t))
      [] t.k = "LowCardinality" -> Wrote(<<Num(8, LOW_CARDINALITY_VERSION)>>)
      [] t.k = "Object" -> Wrote(<<Num(1, 1)>>)
      [] OTHER -> Wrote(<<>>)

RECURSIVE deserialize_prefix(_, _)
deserialize_prefix(t, wire) ==
    CASE t.k \in {"Nullable", "Array", "Tuple"} ->
           FoldLeft(LAMBDA acc, inner : Then(acc, LAMBDA v, rest : deserialize_prefix(inner, rest)), Ok(<<>>, wire), t.in)
      [] t.k = "Map" -> deserialize_prefix(normalize_map_type(t), wire)
      [] t.k = "LowCardinality" ->
           Then(ReadNum(8, wire), LAMBDA n, rest : IF n = LOW_CARDINALITY_VERSION THEN Ok(<<>>, rest) ELSE Fail("err", rest))
      [] t.k = "Object" -> Then(ReadNum(1, wire), LAMBDA n, rest : Ok(<<>>, rest))
      [] OTHER -> Ok(<<>>, wire)

-----------------------------------------------------------------------------
(* Sized values, sized.rs: as wide as the VALUE is, whatever the type.     *)
Raw(a) == CASE a.v \in Decimals -> <<a.x[2]>> [] OTHER -> <<a.x[1]>>
SizedCells(a) ==
    CASE a.v = "Uuid" -> Wrote(<<Num(8, a.x[1]), Num(8, a.x[2])>>)
      [] a.v \in SizedKinds -> Wrote(<<Cell(WidthOf(a.v), Raw(a))>>)
      [] OTHER -> WErr(<<>>)
SizedWrite(t, value) == SizedCells(justify_null_ref(value, t))

\* The value a type gives to what it reads: an enum must know its index.
SizedValue(t, n) ==
    CASE t.k \in Decimals -> Val(t.k, <<t.p, n>>)
      [] t.k = "DateTime" -> [Val(t.k, <<n>>) EXCEPT !.tz = t.tz]
      [] t.k = "DateTime64" -> [Val(t.k, <<n, t.p>>) EXCEPT !.tz = t.tz]
      [] t.k \in Enums -> Val(t.k, <<n>> \o t.items[SelectInSeq(t.items, LAMBDA e : e.idx = n)].name)
      [] OTHER -> Val(t.k, <<n>>)
SizedRead(t, wire) ==
    IF t.k = "Uuid"
    THEN Then(ReadNum(8, wire), LAMBDA n1, r1 : Then(ReadNum(8, r1), LAMBDA n2, r2 : Ok(Val("Uuid", <<n1, n2>>), r2)))
    ELSE Then(ReadNum(WidthOf(t.k), wire),
              LAMBDA n, rest : IF t.k \in Enums /\ ~\E i \in 1..Len(t.items) : t.items[i].idx = n
                               THEN Fail("err", rest) ELSE Ok(SizedValue(t, n), rest))

\* Strings, string.rs: a fixed string is cut or padded with zeros to its size; every
\* other kind, a fixed binary too, is written with its length.  A fixed string and a
\* fixed binary are read at their size, up to the first zero.
Padded(bytes, n) == [i \in 1..n |-> IF i <= Len(bytes) THEN bytes[i] ELSE 0]
emit_bytes(t, bytes) == IF t.k = "FixedSizedString" THEN Wrote(<<Cell(t.p, Padded(bytes, t.p))>>)
                        ELSE write_string(bytes)
BytesOf(octets) == [i \in 1..Len(octets) |-> octets[i].x[1] % 256]
StringCells(t, a) ==
    CASE a.v = "String" -> emit_bytes(t, a.x)
      [] a.v = "Array" -> emit_bytes(t, BytesOf(SelectSeq(a.in, LAMBDA e : e.v \in {"UInt8", "Int8"})))
      [] OTHER -> WErr(<<>>)
StringWrite(t, value) == StringCells(t, justify_null_ref(value, t))
UpToZero(bytes) == LET z == SelectInSeq(bytes, LAMBDA b : b = 0) IN IF z = 0 THEN bytes ELSE SubSeq(bytes, 1, z - 1)
StringRead(t, wire) ==
    IF t.k \in Strings THEN Then(read_string(wire), LAMBDA x, rest : Ok(Val("String", x), rest))
    ELSE Then(ReadCell(t.p, wire), LAMBDA x, rest : Ok(Val("String", UpToZero(x)), rest))

\* Objects, object.rs: their text, as a string.
ObjectWrite(t, value) == LET a == justify_null_ref(value, t) IN IF a.v = "Object" THEN write_string(a.x) ELSE WErr(<<>>)
ObjectRead(wire) == Then(read_string(wire), LAMBDA x, rest : Ok(Val("Object", x), rest))

-----------------------------------------------------------------------------
(* serialize_column and its twin.                                          *)
Offsets(lens) == [i \in 1..Len(lens) |-> FoldLeft(LAMBDA n, j : n + j, 0, SubSeq(lens, 1, i))]
Flat(s) == FlattenSeq(s)

\* The items of an array value, and whether it is one.
ItemsOf(t, a) == IF a.v = t.k THEN [st |-> "ok", v |-> a.in] ELSE [st |-> "err", v |-> <<>>]

RECURSIVE serialize_column(_, _)
\* The offsets up to the first value that is no array, then the items of all of them.
ArrayWrite(t, inner, vals) ==
    LET bad == {i \in 1..Len(vals) : ItemsOf(t, vals[i]).st = "err"}
        upto == IF bad = {} THEN Len(vals) ELSE Min(bad) - 1
        lens == [i \in 1..upto |-> Len(vals[i].in)]
    IN IF bad # {} THEN WErr(WPutAll(8, Offsets(lens)).out)
       ELSE WThen(WPutAll(8, Offsets(lens)),
                  serialize_column(inner, Flat([i \in 1..Len(vals) |-> vals[i].in])))

MapWrite(t, vals) ==
    LET bad == {i \in 1..Len(vals) : vals[i].v # "Map"}
        odd == {i \in 1..Len(vals) : Len(vals[i].in) # Len(vals[i].in2)}
        stop == IF bad \union odd = {} THEN Len(vals) + 1 ELSE Min(bad \union odd)
        heads == WPutAll(8, Offsets([i \in 1..(stop - 1) |-> Len(vals[i].in)]))
    IN CASE stop \in bad -> WErr(heads.out)
         [] stop \in odd -> WPanic(heads.out)
         [] OTHER -> WThen(heads,
                       WThen(serialize_column(t.in[1], Flat([i \in 1..Len(vals) |-> vals[i].in])),
                             serialize_column(t.in[2], Flat([i \in 1..Len(vals) |-> vals[i].in2]))))

\* A tuple becomes one column per element; too many elements are out of range.
TupleWrite(t, vals) ==
    LET col(i) == Flat([r \in 1..Len(vals) |-> IF i <= Len(vals[r].in) THEN <<vals[r].in[i]>> ELSE <<>>])
    IN CASE \E r \in 1..Len(vals) : vals[r].v # "Tuple" -> WErr(<<>>)
         [] \E r \in 1..Len(vals) : Len(vals[r].in) > Len(t.in) -> WPanic(<<>>)
         [] OTHER -> WEach(LAMBDA i : serialize_column(t.in[i], col(i)), [i \in 1..Len(t.in) |-> i])

PointWrite(vals) ==
    IF \E i \in 1..Len(vals) : vals[i].v # "Point" THEN WPanic(<<>>)
    ELSE WEach(LAMBDA c : WPutAll(8, [i \in 1..Len(vals) |-> vals[i].x[c]]), <<1, 2>>)

\* The mask, then every value, the null ones as the default of the inner type.
NullableWrite(t, vals) ==
    WThen(WPutAll(1, [i \in 1..Len(vals) |-> IF Same(vals[i], Null) THEN 1 ELSE 0]),
          serialize_column(t.in[1], vals))

\* The distinct keys in the order they first occur, null before them in a nullable
\* column, then the index of every value.
Distinct(s) == FoldLeft(LAMBDA acc, a : IF \E i \in 1..Len(acc) : Same(acc[i], a) THEN acc ELSE Append(acc, a), <<>>, s)
\* Mutant: null gets the place where it first occurs.
KeysInOrder(inner, vals) == Distinct(vals)
KeysOf(inner, vals) == Distinct((IF is_nullable(inner) THEN <<Null>> ELSE <<>>) \o vals)
LowCardinalityWrite(t, vals) ==
    LET inner == t.in[1]
        keys == KeysOf(inner, vals)
        kind == IndexKind(Len(keys))
        index(a) == (CHOOSE i \in 1..Len(keys) : Same(keys[i], a)) - 1
    IN IF vals = <<>> THEN Wrote(<<>>)
       ELSE WThen(Wrote(<<Num(8, HAS_ADDITIONAL_KEYS + IndexFlag(kind)), Num(8, Len(keys))>>),
            WThen(serialize_column(strip_null(inner), keys),
            WThen(Wrote(<<Num(8, Len(vals))>>),
                  WPutAll(WidthOf(kind), [i \in 1..Len(vals) |-> index(vals[i])]))))

serialize_column(t, vals) ==
    CASE t.k \in SizedKinds -> WEach(LAMBDA a : SizedWrite(t, a), vals)
      [] t.k \in Strings \union FixedStrings -> WEach(LAMBDA a : StringWrite(t, a), vals)
      [] t.k = "Object" -> WEach(LAMBDA a : ObjectWrite(t, a), vals)
      [] t.k = "Array" -> ArrayWrite(t, t.in[1], vals)
      [] t.k \in {"Ring", "Polygon", "MultiPolygon"} -> ArrayWrite(t, GeoItem(t.k), vals)
      [] t.k = "Tuple" -> TupleWrite(t, vals)
      [] t.k = "Point" -> PointWrite(vals)
      [] t.k = "Nullable" -> NullableWrite(t, vals)
      [] t.k = "Map" -> MapWrite(t, vals)
      [] OTHER -> LowCardinalityWrite(t, vals)

-----------------------------------------------------------------------------
(* deserialize_column and its twin.                                        *)
RECURSIVE deserialize_column(_, _, _, _)

\* The parts of a flat column between its offsets; offsets that go down underflow.
Parts(flat, offs) == [i \in 1..Len(offs) |-> SubSeq(flat, (IF i = 1 THEN 0 ELSE offs[i - 1]) + 1, offs[i])]
GoesDown(offs) == \E i \in 2..Len(offs) : offs[i] < offs[i - 1]

\* No rows: the async twin reads nothing, the sync one takes the last of no offsets.
ArrayRead(mode, t, inner, rows, wire) ==
    IF rows = 0 THEN (IF mode = "async" THEN Ok(<<>>, wire) ELSE Fail("panic", wire))
    ELSE Then(ReadMany(rows, LAMBDA w : ReadNum(8, w), wire), LAMBDA offs, r1 :
         Then(deserialize_column(mode, inner, offs[rows], r1), LAMBDA flat, r2 :
              IF GoesDown(offs) THEN Fail("panic", r2)
              ELSE Ok([i \in 1..rows |-> [Val(t.k, <<>>) EXCEPT !.in = Parts(flat, offs)[i]]], r2)))

\* Only the async twin of a map is implemented.
MapRead(mode, t, rows, wire) ==
    IF mode = "sync" THEN Fail("err", wire)
    ELSE IF rows = 0 THEN Ok(<<>>, wire)
    ELSE Then(ReadMany(rows, LAMBDA w : ReadNum(8, w), wire), LAMBDA offs, r1 :
         Then(deserialize_column(mode, t.in[1], offs[rows], r1), LAMBDA ks, r2 :
         Then(deserialize_column(mode, t.in[2], offs[rows], r2), LAMBDA vs, r3 :
              Ok([i \in 1..rows |-> MapV(Parts(ks, offs)[i], Parts(vs, offs)[i])], r3))))

\* Only the async twin of a tuple is implemented.
TupleRead(mode, t, rows, wire) ==
    IF mode = "sync" THEN Fail("err", wire)
    ELSE LET cols == FoldLeft(LAMBDA acc, inner :
                         Then(acc, LAMBDA cs, rest :
                              Then(deserialize_column(mode, inner, rows, rest), LAMBDA c, r2 : Ok(Append(cs, c), r2))),
                         Ok(<<>>, wire), t.in)
         IN Then(cols, LAMBDA cs, rest : Ok([r \in 1..rows |-> Tup([i \in 1..Len(cs) |-> cs[i][r]])], rest))

PointRead(rows, wire) ==
    Then(ReadMany(rows, LAMBDA w : ReadNum(8, w), wire), LAMBDA xs, r1 :
    Then(ReadMany(rows, LAMBDA w : ReadNum(8, w), r1), LAMBDA ys, r2 :
         Ok([i \in 1..rows |-> Val("Point", <<xs[i], ys[i]>>)], r2)))

NullableRead(mode, t, rows, wire) ==
    Then(ReadMany(rows, LAMBDA w : ReadNum(1, w), wire), LAMBDA mask, r1 :
    Then(deserialize_column(mode, strip_null(t), rows, r1), LAMBDA vs, r2 :
         Ok([i \in 1..rows |-> IF mask[i] # 0 THEN Null ELSE vs[i]], r2)))

\* What an index stands for, from the additional keys and the global dictionary: null in
\* a nullable column at 0 (unless there is only a dictionary), else a key, else the
\* dictionary after the keys; <<>> when it is out of range.  Without either, no value.
Lookup(inner, a, n) ==
    LET all == (IF a.more THEN a.keys ELSE <<>>) \o (IF a.global THEN a.dict ELSE <<>>)
    IN IF is_nullable(inner) /\ n = 0 /\ a.more THEN <<Null>>
       ELSE IF n < Len(all) THEN <<all[n + 1]>> ELSE <<>>

\* One batch of a LowCardinality column: its flags, the keys it brings, its indexes.
LcBatch(inner, a, wire) ==
    Then(ReadNum(8, wire), LAMBDA flags, r1 :
    LET has(bit) == (flags \div bit) % 2 = 1
        kind == flags % 256
        global == has(NEED_GLOBAL_DICTIONARY)
        more == has(HAS_ADDITIONAL_KEYS)
        fresh == global /\ (a.dict = <<>> \/ has(NEED_UPDATE_DICTIONARY))
        column(yes, old, w) == IF ~yes THEN Ok(old, w)
                               ELSE Then(ReadNum(8, w), LAMBDA n, w2 : deserialize_column("async", strip_null(inner), n, w2))
    IN IF kind > 3 THEN Fail("err", r1)
       ELSE Then(column(fresh, a.dict, r1), LAMBDA dict, r2 :
            Then(column(more, a.keys, r2), LAMBDA keys, r3 :
            Then(ReadNum(8, r3), LAMBDA pending, r4 :
            LET n == IF pending < a.left THEN pending ELSE a.left
                b == [dict |-> dict, keys |-> keys, global |-> global, more |-> more, out |-> a.out, left |-> a.left - n]
            IN Then(ReadMany(n, LAMBDA w : ReadNum(WidthOf(IndexKinds[kind + 1]), w), r4), LAMBDA ixs, r5 :
                 IF ~more /\ ~global THEN Ok(b, r5)
                 ELSE IF \E i \in 1..n : Lookup(inner, b, ixs[i]) = <<>> THEN Fail("err", r5)
                 ELSE Ok([b EXCEPT !.out = @ \o [i \in 1..n |-> Lookup(inner, b, ixs[i])[1]]], r5))))))

\* Batches until the rows are there; only the async twin is implemented.
RECURSIVE LcBatches(_, _, _)
LcBatches(inner, a, wire) ==
    IF a.left = 0 THEN Ok(a.out, wire)
    ELSE Then(LcBatch(inner, a, wire), LAMBDA b, rest : LcBatches(inner, b, rest))
LowCardinalityRead(mode, t, rows, wire) ==
    IF mode = "sync" THEN Fail("err", wire)
    ELSE LcBatches(t.in[1], [dict |-> <<>>, keys |-> <<>>, global |-> FALSE, more |-> FALSE, out |-> <<>>, left |-> rows], wire)

deserialize_column(mode, t, rows, wire) ==
    CASE rows > MAX_STRING_SIZE -> Fail("err", wire)
      [] t.k \in SizedKinds -> ReadMany(rows, LAMBDA w : SizedRead(t, w), wire)
      [] t.k \in Strings \union FixedStrings -> ReadMany(rows, LAMBDA w : StringRead(t, w), wire)
      [] t.k = "Object" -> ReadMany(rows, LAMBDA w : ObjectRead(w), wire)
      [] t.k = "Array" -> ArrayRead(mode, t, t.in[1], rows, wire)
      [] t.k \in {"Ring", "Polygon", "MultiPolygon"} -> ArrayRead(mode, t, GeoItem(t.k), rows, wire)
      [] t.k = "Tuple" -> TupleRead(mode, t, rows, wire)
      [] t.k = "Point" -> PointRead(rows, wire)
      [] t.k = "Nullable" -> NullableRead(mode, t, rows, wire)
      [] t.k = "Map" -> MapRead(mode, t, rows, wire)
      [] OTHER -> LowCardinalityRead(mode, t, rows, wire)

-----------------------------------------------------------------------------
(* write_default and put_default: one value that stands for a null when    *)
(* the arrow serializers write one.  A DateTime64 gets as many bytes as    *)
(* its precision says.                                                     *)
RECURSIVE write_default(_)
write_default(t0) ==
    LET t == strip_null(t0)
    IN CASE t.k \in Strings -> write_string(<<>>)
         [] t.k \in FixedStrings -> Wrote(<<Cell(t.p, Padded(<<>>, t.p))>>)
         [] t.k = "DateTime64" -> IF t.p > 8 THEN WPanic(<<>>) ELSE Wrote(<<Num(t.p, 0)>>)
         [] t.k \in SizedKinds -> Wrote(<<Num(WidthOf(t.k), 0)>>)
         [] t.k \in {"Array", "Map"} -> Wrote(<<Num(VAR, 0)>>)
         [] t.k = "LowCardinality" -> write_default(t.in[1])
         [] t.k = "Tuple" -> WEach(write_default, t.in)
         [] OTHER -> WErr(<<>>)
=============================================================================
