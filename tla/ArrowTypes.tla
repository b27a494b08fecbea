----------------------------- MODULE ArrowTypes -----------------------------
(***************************************************************************)
(* arrow/types.rs and the ArrowOptions of client/options.rs: which         *)
(* ClickHouse type an arrow type becomes when a table is made or a batch   *)
(* inserted, which arrow type a ClickHouse type becomes when it is read,   *)
(* and the normalisation that brings the two together.                     *)
(*                                                                         *)
(* An arrow type is its kind a, the parameters p and s of a decimal or the *)
(* size p of a fixed binary, the unit u and the zone tz of a time, and its *)
(* fields in `in`, each [dt, null].  A dictionary has its value type in    *)
(* `in` and its key kind in u.                                             *)
(***************************************************************************)
EXTENDS ChValues

DT(a) == [a |-> a, p |-> 0, s |-> 0, u |-> "", tz |-> "", in |-> <<>>]
FixedBinary(n) == [DT("FixedSizeBinary") EXCEPT !.p = n]
DecimalDT(a, p, s) == [DT(a) EXCEPT !.p = p, !.s = s]
TimeDT(a, u, tz) == [DT(a) EXCEPT !.u = u, !.tz = tz]
Field(dt, null) == [dt |-> dt, null |-> null]
ListDT(dt, null) == [DT("List") EXCEPT !.in = <<Field(dt, null)>>]
StructDT(fields) == [DT("Struct") EXCEPT !.in = fields]
MapDT(key, val) == [DT("Map") EXCEPT !.in = <<key, val>>]
DictDT(key, dt) == [DT("Dictionary") EXCEPT !.u = key, !.in = <<Field(dt, TRUE)>>]

Utf8s == {"Utf8", "LargeUtf8", "Utf8View"}
Binaries == {"Binary", "LargeBinary", "BinaryView"}
ListViews == {"List", "ListView", "LargeList", "LargeListView"}
SameNamed == {"Int8", "Int16", "Int32", "Int64", "UInt8", "UInt16", "UInt32", "UInt64", "Float32", "Float64"}

-----------------------------------------------------------------------------
(* ArrowOptions.  No options at all is NoOptions.                          *)
Options(strings, date32, strict, noStrictDdl, emptyArrays) ==
    [strings_as_strings |-> strings, use_date32_for_date |-> date32, strict_schema |-> strict,
     disable_strict_schema_ddl |-> noStrictDdl, nullable_array_default_empty |-> emptyArrays]
NewOptions == Options(FALSE, FALSE, FALSE, FALSE, TRUE)
StrictOptions == Options(FALSE, FALSE, TRUE, FALSE, FALSE)
NoOptions == [none |-> TRUE]
OptionOr(o, name, no) == IF o = NoOptions THEN no ELSE o[name]

with_setting(o, name, value) == IF name \in DOMAIN o THEN [o EXCEPT ![name] = value] ELSE o
OptionsFrom(settings) == FoldLeft(LAMBDA o, kv : with_setting(o, kv[1], kv[2]), NewOptions, settings)

into_strict_ddl(o) ==
    IF o.disable_strict_schema_ddl THEN o
    ELSE [StrictOptions EXCEPT !.strings_as_strings = o.strings_as_strings,
                               !.use_date32_for_date = o.use_date32_for_date]

\* The options a table is made with, and those a converted column is typed with.
generate_schema_options(o) ==
    IF o = NoOptions THEN <<StrictOptions, [NewOptions EXCEPT !.nullable_array_default_empty = FALSE]>>
    ELSE <<into_strict_ddl(o), o>>

\* The refusals of a strict schema: a nullable list, unless it becomes an empty array,
\* and a nullable dictionary.
RefusesNullList(o) == OptionOr(o, "strict_schema", FALSE) /\ ~OptionOr(o, "nullable_array_default_empty", FALSE)
RefusesNullDict(o) == OptionOr(o, "strict_schema", FALSE)

-----------------------------------------------------------------------------
(* normalize_geo_type.                                                     *)
PointType == Of("Tuple", <<Ty("Float64"), Ty("Float64")>>)
RECURSIVE normalize_geo_type(_)
normalize_geo_type(t) == CASE t.k = "Point" -> PointType
                           [] t.k = "Ring" -> Of("Array", <<PointType>>)
                           [] t.k = "Polygon" -> Of("Array", <<normalize_geo_type(Ty("Ring"))>>)
                           [] t.k = "MultiPolygon" -> Of("Array", <<normalize_geo_type(Ty("Polygon"))>>)

-----------------------------------------------------------------------------
(* arrow_to_ch_type.                                                       *)
Precision == [Second |-> 0, Millisecond |-> 3, Microsecond |-> 6, Nanosecond |-> 9]
tz_map(tz) == IF tz \in Zones THEN tz ELSE "UTC"
InstantType(u, tz) == IF u = "Second" THEN DateTimeT(tz) ELSE DateTime64T(Precision[u], tz)
DecimalType(p, s) ==
    TyP(CASE p <= 9 -> "Decimal32" [] p <= 18 -> "Decimal64" [] p <= 38 -> "Decimal128" [] OTHER -> "Decimal256", s)

RECURSIVE arrow_to_ch_type(_, _, _)
FieldTypes(fields, o) == EachParsed(LAMBDA f : arrow_to_ch_type(f.dt, f.null, o), fields)

\* A list, a dictionary, a struct and a map, and the fields below them: a dictionary hands
\* its nulls to its values.
Lists == ListViews \union {"FixedSizeList"}
NestedType(a) == CASE a \in Lists -> "Array" [] a = "Dictionary" -> "LowCardinality" [] a = "Struct" -> "Tuple" [] OTHER -> a
FieldsBelow(d, null) == IF d.a = "Dictionary" THEN <<Field(d.in[1].dt, null)>> ELSE d.in
RefusesNull(a, o) == (a \in Lists /\ RefusesNullList(o)) \/ (a = "Dictionary" /\ RefusesNullDict(o))

\* The type of the values, null or not.
BaseType(d, null, o) ==
    CASE d.a \in SameNamed -> Parsed(Ty(d.a))
      [] d.a = "Interval" -> Parsed(Ty("Int64"))
      [] d.a = "Boolean" -> Parsed(Ty("UInt8"))
      [] d.a \in {"Decimal32", "Decimal64", "Decimal256"} -> Parsed(TyP(d.a, d.s))
      [] d.a = "Decimal128" -> Parsed(DecimalType(d.p, d.s))
      [] d.a = "Date32" -> Parsed(Ty(IF OptionOr(o, "use_date32_for_date", FALSE) THEN "Date32" ELSE "Date"))
      [] d.a = "Date64" -> Parsed(DateTime64T(3, "UTC"))
      [] d.a \in {"Time32", "Time64", "Duration"} -> Parsed(InstantType(d.u, "UTC"))
      [] d.a = "Timestamp" -> Parsed(InstantType(d.u, tz_map(d.tz)))
      [] d.a = "FixedSizeBinary" -> Parsed(TyP("FixedSizedBinary", d.p))
      [] d.a \in Utf8s -> Parsed(Ty("String"))
      [] d.a \in Binaries -> Parsed(Ty("Binary"))
      [] d.a \in Lists \union {"Dictionary", "Struct", "Map"} ->
           IF null /\ RefusesNull(d.a, o) THEN ParseErr
           ELSE ThenParsed(FieldTypes(FieldsBelow(d, null), o), LAMBDA ts : Parsed(Of(NestedType(d.a), ts)))
      [] OTHER -> ParseErr

\* Arrays, maps and dictionaries are never nullable themselves.
arrow_to_ch_type(d, null, o) ==
    ThenParsed(BaseType(d, null, o), LAMBDA t :
               Parsed(IF null /\ t.k \notin {"Array", "Map", "LowCardinality"} THEN Of("Nullable", <<t>>) ELSE t))

-----------------------------------------------------------------------------
(* schema_conversion: a column of a table made from an arrow schema, which *)
(* the caller may want as an enum, a date or a geo type instead.           *)

\* convert_to_enum: strings become the enum, whether they are in a dictionary or not.
convert_to_enum(t, items, k) ==
    LET base == strip_null(t)
        inner == strip_low_cardinality(base)
        null == is_nullable(t) \/ is_nullable(inner)
    IN IF strip_null(inner).k \notin Strings THEN ParseErr
       ELSE Parsed(IF null THEN into_nullable(EnumT(k, items)) ELSE EnumT(k, items))

\* `conv` is the sequence of at most one type that is wanted.
Retype(t, want) == IF want.k \in Enums THEN convert_to_enum(t, want.items, want.k)
                   ELSE IF t.k \in {"Date", "Date32"} THEN Parsed(want) ELSE ParseErr
schema_conversion(f, conv, options) ==
    LET want == IF conv = <<>> THEN Ty("Any") ELSE strip_null(conv[1])
        retyped == want.k \in Enums \union {"Date", "Date32"}
    IN IF want.k \in Geo THEN Parsed(want)
       ELSE ThenParsed(arrow_to_ch_type(f.dt, f.null, generate_schema_options(options)[IF retyped THEN 2 ELSE 1]),
                       LAMBDA t : IF retyped THEN Retype(t, want) ELSE Parsed(t))

-----------------------------------------------------------------------------
(* ch_to_arrow_type: [st, v] with a field.                                 *)
DecimalDigits == [Decimal32 |-> 9, Decimal64 |-> 18, Decimal128 |-> 38, Decimal256 |-> 76]
UnitOf(p) == CASE p = 0 -> "Second" [] p \in 1..3 -> "Millisecond" [] p \in 4..6 -> "Microsecond" [] OTHER -> "Nanosecond"

ScalarDT(t, o) ==
    CASE t.k \in SameNamed -> Parsed(DT(t.k))
      [] t.k \in {"Int128", "UInt128", "Ipv6", "Uuid"} -> Parsed(FixedBinary(16))
      [] t.k \in {"Int256", "UInt256"} -> Parsed(FixedBinary(32))
      [] t.k = "Ipv4" -> Parsed(FixedBinary(4))
      [] t.k \in FixedStrings -> Parsed(FixedBinary(t.p))
      [] t.k = "Decimal256" -> Parsed(DecimalDT("Decimal256", 76, t.p))
      [] t.k \in Decimals -> Parsed(DecimalDT("Decimal128", DecimalDigits[t.k], t.p))
      [] t.k = "String" -> Parsed(DT(IF OptionOr(o, "strings_as_strings", FALSE) THEN "Utf8" ELSE "Binary"))
      [] t.k = "Binary" -> Parsed(DT("Binary"))
      [] t.k = "Object" -> Parsed(DT("Utf8"))
      [] t.k \in {"Date", "Date32"} -> Parsed(DT("Date32"))
      [] t.k = "DateTime" -> Parsed(TimeDT("Timestamp", "Second", t.tz))
      [] t.k = "DateTime64" -> IF t.p > 9 THEN ParseErr ELSE Parsed(TimeDT("Timestamp", UnitOf(t.p), t.tz))
      [] t.k \in Enums -> Parsed(DictDT(IF t.k = "Enum8" THEN "Int8" ELSE "Int16", DT("Utf8")))

NestedDT(k, fs) ==
    CASE k = "Array" -> [DT("List") EXCEPT !.in = fs]
      [] k = "Tuple" -> StructDT(fs)
      [] k = "Map" -> MapDT([fs[1] EXCEPT !.null = FALSE], fs[2])
      [] k = "LowCardinality" -> DictDT("Int32", fs[1].dt)

RECURSIVE ch_to_arrow_type(_, _)
DataType(t, null, o) ==
    IF t.k \notin {"Array", "Tuple", "Map", "LowCardinality"} THEN ScalarDT(t, o)
    ELSE IF null /\ RefusesNull(CASE t.k = "Array" -> "List" [] t.k = "LowCardinality" -> "Dictionary" [] OTHER -> t.k, o)
    THEN ParseErr
    ELSE ThenParsed(EachParsed(LAMBDA e : ch_to_arrow_type(e, o), t.in), LAMBDA fs : Parsed(NestedDT(t.k, fs)))

\* A dictionary is nullable when its values are.  A nullable geo type, which no server has
\* (the code panics on it), is not told apart.
ch_to_arrow_type(t0, o) ==
    LET t == strip_null(t0)
    IN IF t.k \in Geo THEN ch_to_arrow_type(normalize_geo_type(t), o)
       ELSE ThenParsed(DataType(t, is_nullable(t0), o), LAMBDA dt :
                       Parsed(Field(dt, is_nullable(IF t.k = "LowCardinality" THEN t.in[1] ELSE t0))))

-----------------------------------------------------------------------------
(* normalize_type: the type of a column on the wire brought to the arrow   *)
(* type it is read as; <<>> when it stays as it is.                        *)
RECURSIVE normalize_type(_, _)
Rewrapped(k, n) == IF n = <<>> THEN <<>> ELSE <<Of(k, n)>>
WithNull(null, n) == IF null /\ n # <<>> THEN <<into_nullable(n[1])>> ELSE n
NormalizedTuple(ts, each) ==
    IF \A i \in DOMAIN each : each[i] = <<>> THEN <<>>
    ELSE <<Of("Tuple", [i \in DOMAIN each |-> IF each[i] = <<>> THEN ts[i] ELSE each[i][1]])>>
Normalized(t, d) ==
    CASE t.k = "String" /\ d.a \in Binaries -> <<Ty("Binary")>>
      [] t.k \in {"String", "FixedSizedString", "Binary"} /\ d.a = "FixedSizeBinary" -> <<TyP("FixedSizedBinary", d.p)>>
      [] t.k = "Binary" /\ d.a \in Utf8s -> <<Ty("String")>>
      [] t.k = "FixedSizedBinary" /\ d.a \in {"Utf8", "Utf8View"} -> <<TyP("FixedSizedString", t.p)>>
      [] <<t.k, d.a>> \in ({"Array"} \X ListViews) \union { <<"LowCardinality", "Dictionary">> } ->
           Rewrapped(t.k, normalize_type(t.in[1], d.in[1].dt))
      [] t.k = "LowCardinality" /\ d.a \in Utf8s \union Binaries \union {"FixedSizeBinary"} ->
           Rewrapped("LowCardinality", normalize_type(t.in[1], d))
      [] t.k = "Tuple" /\ d.a = "Struct" ->
           NormalizedTuple(t.in, [i \in 1..Min({Len(t.in), Len(d.in)}) |-> normalize_type(t.in[i], d.in[i].dt)])
      [] OTHER -> <<>>
normalize_type(t0, d) == WithNull(is_nullable(t0), Normalized(strip_null(t0), d))
=============================================================================
