---------------------------- MODULE SampleTables ----------------------------
(* Sample blocks: for every codec, columns that exercise its cases (null    *)
(* and not, empty and nested, a dictionary of each index width), two blocks *)
(* with two columns, the empty block, and blocks that cannot be written.    *)
(* Sample tables: the Rust types one after the other, and structs with the  *)
(* attributes of the macro; sample values for a RawRow, instants and        *)
(* numbers.                                                                 *)
EXTENDS RowDerive

A == <<"a">>
Block(types, rows, data) == [info |-> DefaultInfo, rows |-> rows, types |-> types, data |-> data]
One(t, vals) == Block(<< <<A, t>> >>, Len(vals), vals)
I(n) == Val("Int32", <<n>>)
U(n) == Val("UInt8", <<n>>)
S(x) == Val("String", x)
Point(x, y) == Val("Point", <<x, y>>)
Ring(s) == [Val("Ring", <<>>) EXCEPT !.in = s]
Polygon(s) == [Val("Polygon", <<>>) EXCEPT !.in = s]
Color == EnumT("Enum8", <<[name |-> <<"a">>, idx |-> 0], [name |-> <<"b">>, idx |-> 1]>>)
LcString == Of("LowCardinality", <<Ty("String")>>)
LcNullable == Of("LowCardinality", <<Of("Nullable", <<Ty("String")>>)>>)

Good == {
    Block(<<>>, 0, <<>>),
    Block(<< <<A, Ty("Int32")>>, <<<<"b">>, Of("Nullable", <<Ty("String")>>)>> >>, 2, <<I(1), I(2), Null, S(<<7>>)>>),
    One(TyP("Decimal64", 3), <<Val("Decimal64", <<3, 5>>)>>),
    One(DateTime64T(6, "Europe/Paris"), <<[Val("DateTime64", <<9, 6>>) EXCEPT !.tz = "Europe/Paris"]>>),
    One(Ty("Uuid"), <<Val("Uuid", <<1, 2>>), Val("Uuid", <<3, 4>>)>>),
    One(Color, <<Val("Enum8", <<1, "b">>), Val("Enum8", <<0, "a">>)>>),
    One(TyP("FixedSizedString", 3), <<S(<<1, 2>>), S(<<>>), S(<<1, 2, 3>>)>>),
    One(Ty("Object"), <<Val("Object", <<123, 125>>)>>),
    One(Of("Array", <<Ty("Int32")>>), <<Arr(<<I(1), I(2)>>), Arr(<<>>), Arr(<<I(3)>>)>>),
    One(Of("Array", <<Of("Array", <<Of("Nullable", <<Ty("Int32")>>)>>)>>),
        <<Arr(<<Arr(<<Null>>), Arr(<<>>)>>), Arr(<<Arr(<<I(3)>>)>>)>>),
    One(Of("Tuple", <<Ty("Int32"), Ty("String")>>), <<Tup(<<I(1), S(<<1>>)>>), Tup(<<I(2), S(<<2>>)>>)>>),
    One(Of("Map", <<Ty("String"), Of("Array", <<Ty("Int32")>>)>>),
        <<MapV(<<S(<<1>>), S(<<2>>)>>, <<Arr(<<I(1)>>), Arr(<<>>)>>), MapV(<<>>, <<>>)>>),
    One(Ty("Polygon"), <<Polygon(<<Ring(<<Point(1, 2), Point(3, 4)>>)>>), Polygon(<<Ring(<<>>)>>)>>),
    One(LcString, <<S(<<1>>), S(<<2>>), S(<<1>>)>>),
    One(LcString, <<S(<<1>>), S(<<2>>), S(<<3>>), S(<<2>>)>>),
    One(LcNullable, <<S(<<1>>), Null, S(<<2>>), S(<<3>>), S(<<2>>), Null>>),
    One(Of("Array", <<LcNullable>>), <<Arr(<<S(<<1>>), Null>>), Arr(<<>>), Arr(<<S(<<1>>)>>)>>) }

\* The second value is not of the column's type: the first is on the stream already.
Unwritable == {
    One(Of("Array", <<Ty("Int32")>>), <<Arr(<<I(1)>>), I(2)>>),
    One(Ty("String"), <<S(<<1>>), I(2)>>) }

AllBlocks == Good \union Unwritable

-----------------------------------------------------------------------------
\* A table with one column for each <<Rust type, column type, value>>.
Col(i) == <<"c", ToString(i)>>
TableOf(cells) ==
    LET names == [i \in 1..Len(cells) |-> Col(i)]
    IN [unit |-> FALSE,
        struct |-> Struct(<<>>, [i \in 1..Len(cells) |-> Field(Col(i), <<>>, cells[i][1])]),
        schema |-> [i \in 1..Len(cells) |-> <<Col(i), cells[i][2]>>],
        rows |-> <<Map(LAMBDA c : c[3], cells)>>,
        selects |-> {names, Reverse(names)}, fine |-> {names, Reverse(names)}]
In(v, s) == [Val(v, <<>>) EXCEPT !.in = s]
i32(n) == Val("i32", <<n>>)
u8(n) == Val("u8", <<n>>)
Some(v) == In("Some", <<v>>)
None == Val("None", <<>>)

PlainTypes == TableOf([i \in 1..18 |->
    LET r == <<"u8", "bool", "u16", "u32", "u64", "u128", "i8", "i16", "i32", "i64", "i128", "f32", "f64",
               "i256", "u256", "Date", "Date32", "Ipv4">>[i]
    IN <<RT(r), Ty(Kinds[r]), Val(r, <<1>>)>>])

Containers == TableOf(<<
    <<RT("String"), Ty("String"), S(<<7, 8>>)>>,
    <<RT("String"), TyP("FixedSizedString", 2), S(<<7, 8>>)>>,
    <<RT("Bytes"), Ty("String"), Val("Bytes", <<7, 200>>)>>,
    <<RT("Bytes"), Of("Array", <<Ty("Int8")>>), Val("Bytes", <<7, 200>>)>>,
    <<RTof("Vec", <<RT("i32")>>), Of("Array", <<Ty("Int32")>>), In("Vec", <<i32(1), i32(2)>>)>>,
    <<RTof("Vec", <<RT("u8")>>), Of("Array", <<Ty("UInt8")>>), In("Vec", <<u8(1)>>)>>,
    <<[RTof("Array", <<RT("i32")>>) EXCEPT !.n = 2], Of("Array", <<Ty("Int32")>>), In("Array", <<i32(1), i32(2)>>)>>,
    <<RTof("Map", <<RT("String"), RT("i32")>>), Of("Map", <<Ty("String"), Ty("Int32")>>),
      [In("Map", <<S(<<1>>), S(<<2>>)>>) EXCEPT !.in2 = <<i32(5), i32(6)>>]>>,
    <<RTof("Option", <<RT("i32")>>), Of("Nullable", <<Ty("Int32")>>), None>>,
    <<RTof("Option", <<RT("String")>>), LcNullable, Some(S(<<3>>))>>,
    <<RT("String"), LcString, S(<<3>>)>>,
    <<RTof("Tuple", <<RT("i32"), RT("String")>>), Of("Tuple", <<Ty("Int32"), Ty("String")>>), In("Tuple", <<i32(1), S(<<2>>)>>)>>,
    <<RTof("VecTuple", <<RT("i32")>>), Of("Tuple", <<Ty("Int32"), Ty("Int32")>>), In("VecTuple", <<i32(1), i32(2)>>)>>,
    <<RTof("Box", <<RT("i32")>>), Ty("Int32"), i32(4)>>,
    <<RTn("Json", 1), Ty("Object"), Val("Json", <<7>>)>>,
    <<RT("Json"), Ty("Object"), Val("Json", <<7>>)>>,
    <<RT("Value"), Ty("Int32"), I(4)>> >>)

Special == TableOf(<<
    <<RT("Uuid"), Ty("Uuid"), Val("Uuid", <<1, 2>>)>>,
    <<RT("Ipv6"), Ty("Ipv6"), Val("Ipv6", <<1>>)>>,
    <<RT("Point"), Ty("Point"), Point(1, 2)>>,
    <<RT("Polygon"), Ty("Polygon"), Polygon(<<Ring(<<Point(1, 2), Point(3, 4)>>)>>)>>,
    <<RT("LineString"), Ty("Ring"), In("LineString", <<Point(1, 2), Point(3, 4)>>)>>,
    <<RT("GeoPolygon"), Ty("Polygon"), In("GeoPolygon", <<Ring(<<Point(1, 2), Point(3, 4), Point(1, 2)>>)>>)>>,
    <<RTn("FixedPoint64", 3), TyP("Decimal64", 3), Val("FixedPoint64", <<-1234>>)>>,
    <<RT("Decimal"), TyP("Decimal64", 3), Val("Decimal", <<1234, 3>>)>>,
    <<RT("DateTime"), DateTimeT("UTC"), [Val("DateTime", <<1>>) EXCEPT !.tz = "UTC"]>>,
    <<RTn("DateTime64", 3), DateTime64T(3, "UTC"), [Val("DateTime64", <<1999>>) EXCEPT !.tz = "UTC"]>>,
    <<RT("chrono"), DateTime64T(6, "UTC"), [Val("chrono", <<1, 123456000>>) EXCEPT !.tz = "UTC"]>> >>)

\* A struct with every attribute; its columns in other orders, with one more, without one.
B == <<"b">>
Z == <<"z">>
Point2 == Struct(<<>>, <<Field(A, <<>>, RT("i32")), Field(B, <<>>, RT("String"))>>)
Full == Struct(<<Attr("rename_all", "PascalCase")>>,
               <<Field(<<"a", "_", "b">>, <<>>, RT("i32")),
                 Field(<<"n">>, <<Attr("rename", <<"x">>)>>, RT("i32")),
                 Field(<<"b">>, <<Attr("skip", "")>>, RT("i32")),
                 FieldIn(<<"a">>, <<Attr("nested", "")>>, Point2)>>)
FullNames == << <<"A", "B">>, <<"x">>, <<"A", ".", "a">>, <<"A", ".", "b">> >>
Swapped == [FullNames EXCEPT ![1] = FullNames[2], ![2] = FullNames[1]]
Attributed ==
    [unit |-> FALSE, struct |-> Full,
     schema |-> << <<FullNames[1], Ty("Int32")>>, <<FullNames[2], Ty("Int32")>>,
                   <<FullNames[3], Of("Array", <<Ty("Int32")>>)>>, <<FullNames[4], Of("Array", <<Ty("String")>>)>> >>,
     rows |-> << <<i32(1), i32(2), i32(0), << <<i32(3), S(<<3>>)>>, <<i32(4), S(<<4>>)>> >> >>,
                 <<i32(5), i32(6), i32(0), <<>> >> >>,
     selects |-> {FullNames, Reverse(FullNames), Tail(FullNames), Tail(Reverse(FullNames)), Swapped,
                  Append(FullNames, Z), <<Z>> \o Tail(FullNames)},
     fine |-> {FullNames, Reverse(FullNames), Swapped, Append(FullNames, Z)}]

Flat2 == Struct(<<Attr("deny_unknown_fields", "")>>,
                <<Field(<<"n">>, <<Attr("default", "")>>, RT("i32")), FieldIn(<<"b">>, <<Attr("flatten", "")>>, Point2)>>)
FlatNames == << <<"n">>, A, B >>
Flattening ==
    [unit |-> FALSE, struct |-> Flat2,
     schema |-> << <<FlatNames[1], Ty("Int32")>>, <<A, Ty("Int32")>>, <<B, Ty("String")>> >>,
     rows |-> << <<i32(1), <<i32(2), S(<<2>>)>> >> >>,
     selects |-> {FlatNames, Reverse(FlatNames), <<A, B>>, <<A>>, <<Z, A, B>>},
     fine |-> {FlatNames, Reverse(FlatNames)}]

Strict ==
    [unit |-> FALSE, struct |-> Struct(<<Attr("deny_unknown_fields", ""), Attr("default", "")>>, Point2.fields),
     schema |-> << <<A, Ty("Int32")>>, <<B, Ty("String")>> >>,
     rows |-> << <<i32(1), S(<<2>>)>> >>,
     selects |-> {<<A, B>>, <<B, A>>, <<A, B, Z>>, <<A, Z>>, <<Z>>}, fine |-> {<<A, B>>, <<B, A>>}]

\* The column in the middle is written and not read.
Loose ==
    [unit |-> FALSE, struct |-> Struct(<<Attr("default", "")>>,
                                       <<Field(A, <<>>, RT("i32")), Field(<<"n">>, <<Attr("skip_deserializing", "")>>, RT("i32")),
                                         Field(B, <<>>, RT("i32"))>>),
     schema |-> << <<A, Ty("Int32")>>, <<<<"n">>, Ty("Int32")>>, <<B, Ty("Int32")>> >>,
     rows |-> << <<i32(1), i32(2), i32(3)>> >>,
     selects |-> {<<A, <<"n">>, B>>, <<A, B, <<"n">>>>, <<A, <<"n">>>>, <<Z, B>>, <<B, Z>>},
     fine |-> {<<A, B, <<"n">>>>}]

Unit ==
    [unit |-> TRUE, struct |-> Struct(<<>>, <<Field(<<"_">>, <<>>, RT("i32"))>>), schema |-> << << <<"_">>, Ty("Int32")>> >>,
     rows |-> << <<i32(1)>>, <<i32(2)>> >>, selects |-> {<< <<"_">> >>}, fine |-> {<< <<"_">> >>}]

\* A struct that the macro refuses: its attribute is given twice.
Refused == [Strict EXCEPT !.struct.attrs = Append(@, Attr("default", ""))]

AllTables == <<PlainTypes, Containers, Special, Attributed, Flattening, Strict, Loose, Unit, Refused>>
AllRawValues == { <<<<>>, RT("i32"), i32(1)>>, <<<<>>, RT("i32"), i32(2)>>, <<<<Ty("String")>>, RT("String"), S(<<1>>)>>,
                 <<<<Ty("Int32")>>, RT("Decimal"), Val("Decimal", <<1, 0>>)>> }
AllTimes == {<<0, 0>>, <<1, 999999999>>, <<1, 123456789>>, <<2, 1>>, <<-1, 500000000>>}
AllMantissas == {-32, -7, 0, 5, 123}
=============================================================================
