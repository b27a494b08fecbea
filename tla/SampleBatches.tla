--------------------------- MODULE SampleBatches ---------------------------
(* Samples: for every codec, columns of the arrow types it takes (null and  *)
(* not, empty and nested, dictionaries with and without nulls), batches     *)
(* that are split, and batches of another arrow type than the table was     *)
(* made from.  Samples for one table have the same column names.            *)
EXTENDS ArrowRows, TableDDL

Keys == [CreateNew("MergeTree") EXCEPT !.order_by = <<"a">>]
Rep(n, v) == [i \in 1..n |-> v]
Flat1(dt, xs) == Col(dt, Rep(Len(xs), FALSE), xs, <<>>, <<>>)
\* xs with <<>> for a null.
Opt(dt, xs) == Col(dt, [i \in 1..Len(xs) |-> xs[i] = <<>>], [i \in 1..Len(xs) |-> IF xs[i] = <<>> THEN <<>> ELSE xs[i][1]], <<>>, <<>>)
ListCol(null, offs, kid) == Col(ListDT(kid.dt, null), Rep(Len(offs) - 1, FALSE), Rep(Len(offs) - 1, <<>>), offs, <<kid>>)
StructCol(kids) == Col(StructDT([i \in 1..Len(kids) |-> Field(kids[i].dt, FALSE)]), Rep(RowsOf(kids[1]), FALSE),
                       Rep(RowsOf(kids[1]), <<>>), <<>>, kids)
MapCol(offs, ks, vs) == Col(MapDT(Field(ks.dt, FALSE), Field(vs.dt, FALSE)), Rep(Len(offs) - 1, FALSE),
                            Rep(Len(offs) - 1, <<>>), offs, <<ks, vs>>)
DictCol(nulls, keys, dict) == Col(DictDT("Int32", dict.dt), nulls, keys, <<>>, <<dict>>)

\* A sample of one column, whose name tells its table.
Sample(name, c, null) ==
    [batch |-> Batch(<< <<name, Field(c.dt, null)>> >>, <<c>>, RowsOf(c)), create |-> Keys, max |-> 0,
     says |-> <<Logical(c)>>, exact |-> TRUE, again |-> TRUE, native |-> TRUE, text |-> FALSE, makes |-> TRUE, types |-> <<>>]
Saying(s, rows) == [s EXCEPT !.says = <<[i \in 1..Len(rows) |-> Is(rows[i])]>>]
Inexact(s) == [s EXCEPT !.exact = FALSE, !.again = FALSE, !.native = FALSE]
Wide(s) == [s EXCEPT !.native = FALSE]
Once(s) == [s EXCEPT !.again = FALSE]
Split(s, n) == [s EXCEPT !.max = n]
Retyped(s, t) == [s EXCEPT !.create.conversions = << <<s.batch.fields[1][1], t>> >>]
Other(s) == [s EXCEPT !.again = FALSE, !.makes = FALSE]
Into(t, s) == [Wide(Other(s)) EXCEPT !.types = << <<s.batch.fields[1][1], t>> >>]
Textual(s) == [s EXCEPT !.text = TRUE]

Int32s(xs) == Flat1(DT("Int32"), xs)
Utf8s1(xs) == Flat1(DT("Utf8"), xs)
Binary1(xs) == Flat1(DT("Binary"), xs)
Ramp(n, from) == [i \in 1..n |-> from + i]
Colors == EnumT("Enum8", <<[name |-> <<"r">>, idx |-> 1], [name |-> <<"g">>, idx |-> 2]>>)

Scalars == <<
    Split(Sample("ints", Opt(DT("Int32"), << <<<<1>>>>, <<>>, <<<<3>>>> >>), TRUE), 2),
    Sample("bools", Flat1(DT("Boolean"), << <<1>>, <<0>> >>), FALSE),
    Sample("texts", Opt(DT("Utf8"), << <<<<65>>>>, <<>>, <<<<>>>> >>), TRUE),
    Sample("texts", Opt(DT("LargeBinary"), << <<<<66>>>>, <<<<67>>>> >>), TRUE),
    Sample("dec", Flat1(DecimalDT("Decimal128", 9, 2), << <<7>>, <<-99>> >>), FALSE),
    Other(Sample("dec", Flat1(DecimalDT("Decimal128", 9, 2), << <<7>>, <<100>> >>), FALSE)),
    Wide(Sample("dec256", Flat1(DecimalDT("Decimal256", 76, 2), << <<7>>, <<-300>> >>), FALSE)),
    Sample("days", Flat1(DT("Date32"), << <<0>>, <<100>> >>), FALSE),
    Sample("instants", Flat1(TimeDT("Timestamp", "Millisecond", "Europe/Paris"), << <<5>>, <<0>> >>), FALSE),
    Other(Saying(Sample("instants", Flat1(TimeDT("Timestamp", "Second", "UTC"), << <<5>>, <<7>> >>), FALSE), << <<50>>, <<70>> >>)),
    Sample("seconds", Opt(TimeDT("Timestamp", "Second", "UTC"), << <<<<200>>>>, <<>> >>), TRUE) >>

\* FixedSizeBinary prints as FixedString, which a batch reads as fixed binary.
Fixed == <<
    Wide(Sample("fixed", Flat1(FixedBinary(2), << <<1, 2>>, <<3, 0>> >>), FALSE)),
    Other(Wide(Saying(Sample("fixed", Binary1(<< <<1>>, <<1, 2, 3>> >>), FALSE), << <<1, 0>>, <<1, 2>> >>))) >>

Enumerated == <<
    Once(Retyped(Sample("color", Utf8s1(<< <<"g">>, <<"r">>, <<"g">> >>), FALSE), Colors)),
    Retyped(Sample("color", DictCol(Rep(2, FALSE), << <<0>>, <<1>> >>, Utf8s1(<< <<"r">>, <<"g">> >>)), FALSE), Colors),
    Once(Retyped(Saying(Sample("color", Flat1(DT("Int8"), << <<1>>, <<2>> >>), FALSE), << <<"r">>, <<"g">> >>), Colors)) >>

Nestings == <<
    Sample("lists", ListCol(FALSE, <<0, 2, 2, 3>>, Int32s(<< <<1>>, <<2>>, <<3>> >>)), FALSE),
    Sample("lists2", ListCol(FALSE, <<0, 1, 3>>, ListCol(TRUE, <<0, 2, 2, 3>>, Opt(DT("Int32"), << <<<<1>>>>, <<>>, <<<<3>>>> >>))), FALSE),
    Once(Sample("lists", Col([DT("FixedSizeList") EXCEPT !.p = 2, !.in = <<Field(DT("Int32"), FALSE)>>], Rep(1, FALSE), Rep(1, <<>>),
                             <<>>, <<Int32s(<< <<8>>, <<9>> >>)>>), FALSE)),
    Split(Sample("pairs", StructCol(<<Int32s(<< <<1>>, <<2>>, <<3>> >>), Binary1(<< <<1>>, <<>>, <<3>> >>)>>), FALSE), 2),
    Textual(Sample("maps", MapCol(<<0, 2, 2, 3>>, Utf8s1(<< <<1>>, <<2>>, <<1>> >>), Int32s(<< <<1>>, <<2>>, <<3>> >>)), FALSE)),
    Sample("intmaps", MapCol(<<0, 1, 3>>, Int32s(<< <<1>>, <<2>>, <<1>> >>), ListCol(FALSE, <<0, 1, 1, 2>>, Int32s(<< <<1>>, <<2>> >>))), FALSE) >>

Dictionaries == <<
    Sample("words", DictCol(Rep(4, FALSE), << <<0>>, <<1>>, <<0>>, <<2>> >>, Utf8s1(<< <<65>>, <<66>>, <<67>> >>)), FALSE),
    Other(Sample("words", Utf8s1(<< <<66>>, <<65>>, <<66>> >>), FALSE)),
    Sample("nwords", DictCol(<<FALSE, TRUE, FALSE>>, << <<1>>, <<0>>, <<0>> >>, Utf8s1(<< <<65>>, <<66>> >>)), TRUE),
    Other(Sample("nwords", Opt(DT("Utf8"), << <<<<66>>>>, <<>>, <<<<65>>>> >>), TRUE)),
    Once(Sample("wordlists", ListCol(FALSE, <<0, 1, 1, 3>>,
                DictCol(Rep(3, FALSE), << <<1>>, <<0>>, <<1>> >>, Utf8s1(<< <<65>>, <<66>> >>))), FALSE)) >>

\* Tables that no arrow schema makes.
Bytes(n, from) == [i \in 1..n |-> from + i]
Foreign == <<
    Saying(Into(Ty("Int128"), Sample("wide", Flat1(DT("Int64"), << <<300>>, <<-2>> >>), FALSE)),
           <<to_le_bytes(300, 16), to_le_bytes(-2, 16)>>),
    Into(Ty("UInt256"), Sample("wide256", Flat1(FixedBinary(32), <<Bytes(32, 0)>>), FALSE)),
    Into(Ty("Ipv6"), Sample("ip6", Flat1(FixedBinary(16), <<Bytes(16, 0), Bytes(16, 50)>>), FALSE)),
    Into(Ty("Float64"), Sample("float", Flat1(DT("Float32"), << <<1>>, <<2>> >>), FALSE)),
    Into(Of("Nullable", <<DateTime64T(9, "UTC")>>),
         Saying(Sample("nanos", Flat1(TimeDT("Timestamp", "Microsecond", "UTC"), << <<5>>, <<6>> >>), FALSE), << <<50>>, <<60>> >>)),
    Into(TyP("FixedSizedString", 3),
         Saying(Sample("code", Opt(DT("Utf8View"), << <<<<65>>>>, <<<<66, 67, 68, 69>>>> >>), FALSE), << <<65, 0, 0>>, <<66, 67, 68>> >>)),
    Into(Of("LowCardinality", <<Ty("String")>>),
         Sample("lc", Flat1(DT("LargeUtf8"), << <<65>>, <<66>>, <<65>>, <<67>>, <<68>> >>), FALSE)),
    Into(Of("Tuple", <<Of("Nullable", <<Ty("Int32")>>), Of("Array", <<Ty("UInt8")>>)>>),
         Sample("tuple", StructCol(<<Opt(DT("Int32"), << <<<<1>>>>, <<>> >>),
                                     ListCol(FALSE, <<0, 2, 2>>, Flat1(DT("UInt8"), << <<1>>, <<2>> >>))>>), FALSE)),
    \* Bytes that come back in another order.
    Inexact(Into(Ty("Uuid"), Sample("uuid", Flat1(FixedBinary(16), <<Bytes(16, 0)>>), FALSE))),
    Inexact(Into(Ty("Ipv4"), Sample("ip4", Flat1(FixedBinary(4), <<Bytes(4, 0)>>), FALSE))) >>

AllSamples == Scalars \o Fixed \o Enumerated \o Nestings \o Dictionaries \o Foreign
AllArrowOptions == {NewOptions, [NewOptions EXCEPT !.strings_as_strings = TRUE, !.use_date32_for_date = TRUE, !.disable_strict_schema_ddl = TRUE]}
=============================================================================
