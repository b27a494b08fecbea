------------------------------ MODULE Convert ------------------------------
(***************************************************************************)
(* native/convert/ and the ToSql and FromSql of native/values/: how a Rust *)
(* value becomes a Value, given a hint of the column's type, and how a     *)
(* Value of a column becomes a Rust value again.  A Rust type is its name  *)
(* r, a parameter n (a scale, a precision, a length) and the types in it;  *)
(* a Rust value has the shape of a Value, its r where a Value has its kind.*)
(* A hint is a sequence of no type or one.                                 *)
(***************************************************************************)
EXTENDS Numbers, NativeBlock

RT(r) == [r |-> r, n |-> 0, in |-> <<>>]
RTn(r, n) == [RT(r) EXCEPT !.n = n]
RTof(r, in) == [RT(r) EXCEPT !.in = in]

Map(F(_), s) == [i \in 1..Len(s) |-> F(s[i])]

\* The types that stand for one kind of Value and carry it as it is.
Scalars == [u8 |-> "UInt8", bool |-> "UInt8", u16 |-> "UInt16", u32 |-> "UInt32", u64 |-> "UInt64", u128 |-> "UInt128",
            i8 |-> "Int8", i16 |-> "Int16", i32 |-> "Int32", i64 |-> "Int64", i128 |-> "Int128",
            f32 |-> "Float32", f64 |-> "Float64"]
Wides == [i256 |-> "Int256", u256 |-> "UInt256"]
Ids == [Uuid |-> "Uuid"]
Ips == [Ipv4 |-> "Ipv4", Ipv6 |-> "Ipv6"]
DateTypes == [Date |-> "Date", Date32 |-> "Date32"]
Shapes == [Point |-> "Point", Ring |-> "Ring", Polygon |-> "Polygon", MultiPolygon |-> "MultiPolygon"]
FixedPoints == [FixedPoint32 |-> "Decimal32", FixedPoint64 |-> "Decimal64", FixedPoint128 |-> "Decimal128",
                FixedPoint256 |-> "Decimal256"]
Kinds == Scalars @@ Wides @@ Ids @@ Ips @@ DateTypes @@ Shapes

\* The types of geo_types (external): the same shapes, the rings of a polygon closed and
\* its exterior always there.
GeoTypes == [Coord |-> "Point", LineString |-> "Ring", GeoPolygon |-> "Polygon", GeoMultiPolygon |-> "MultiPolygon"]
Closed(ring) == IF ring.in = <<>> \/ Head(ring.in) = Last(ring.in) THEN ring ELSE [ring EXCEPT !.in = Append(@, Head(ring.in))]
geo_polygon(p) == [p EXCEPT !.in = IF @ = <<>> THEN <<Val("Ring", <<>>)>> ELSE Map(Closed, @)]

\* The types whose from_sql ends in unimplemented! when the column has the right type
\* and the value another kind; the others report an error.
Unimplemented == DOMAIN Wides \union DOMAIN Ips \union DOMAIN Shapes \union DOMAIN FixedPoints
                 \union DOMAIN GeoTypes \union {"DateTime", "DateTime64"}
unexpected_type(rt) == IF rt.r \in Unimplemented THEN Panics ELSE Bad

\* All the results, or the first that is not ok.
All(rs) == FoldLeft(LAMBDA acc, r : Then(acc, LAMBDA vs, none : Then(r, LAMBDA v, n : Done(Append(vs, v)))), Done(<<>>), rs)
Nth(ts, i) == IF i <= Len(ts) THEN <<ts[i]>> ELSE <<>>

\* Option::and_then of the accessors of a hint.
unarray(hint) == IF hint = <<>> THEN <<>> ELSE unwrap_array(hint[1])
unmap(hint) == IF hint = <<>> THEN <<>> ELSE unwrap_map(hint[1])
untuple(hint) == IF hint = <<>> THEN <<>> ELSE unwrap_tuple(hint[1])
unnull(hint) == IF hint # <<>> /\ is_nullable(hint[1]) THEN hint[1].in ELSE <<>>

ByteTypes == {"u8", "i8"}
Bytewise == {Ty("UInt8"), Ty("Int8")}
IsString(hint) == hint # <<>> /\ hint[1].k \in {"String", "FixedSizedString"}

\* Text is UTF-8: bytes above 127 stand for those that are not.
Utf8(x) == \A i \in 1..Len(x) : x[i] < 128

-----------------------------------------------------------------------------
(* ToSql.                                                                  *)
scalar_to_sql(rt, a) == Done([Val(Kinds[rt.r], a.x) EXCEPT !.in = a.in])
geo_to_sql(rt, a) == Done([a EXCEPT !.v = GeoTypes[rt.r]])
fixed_point_to_sql(rt, a) == Done(Val(FixedPoints[rt.r], <<rt.n, a.x[1]>>))

bytes_to_sql(a, hint) ==
    IF hint # <<>> /\ hint[1].k = "Array" /\ hint[1].in[1] \in Bytewise
    THEN LET k == hint[1].in[1].k
             byte(b) == Val(k, <<IF k = "Int8" /\ b > 127 THEN b - 256 ELSE b>>)
         IN Done(Arr(Map(byte, a.x)))
    ELSE Done(Val("String", a.x))

RECURSIVE to_sql(_, _, _)
array_to_sql(rt, a, hint) ==
    Then(All(Map(LAMBDA e : to_sql(rt.in[1], e, unarray(hint)), a.in)), LAMBDA vs, none : Done(Arr(vs)))

\* A vector of bytes is a string where an array of strings is expected.
vec_to_sql(rt, a, hint) ==
    IF IsString(unarray(hint)) /\ rt.in[1].r \in ByteTypes
    THEN Done(Val("String", Map(LAMBDA e : e.x[1], a.in)))
    ELSE array_to_sql(rt, a, hint)

map_to_sql(rt, a, hint) ==
    LET h == unmap(hint)
    IN Then(All(Map(LAMBDA k : to_sql(rt.in[1], k, Nth(h, 1)), a.in)), LAMBDA ks, none :
       Then(All(Map(LAMBDA v : to_sql(rt.in[2], v, Nth(h, 2)), a.in2)), LAMBDA vs, n : Done(MapV(ks, vs))))

option_to_sql(rt, a, hint) ==
    IF a.v = "None" THEN Done(Null) ELSE to_sql(rt.in[1], a.in[1], unnull(hint))

tuple_to_sql(rt, a, hint) ==
    Then(All([i \in 1..Len(a.in) |-> to_sql(rt.in[i], a.in[i], Nth(untuple(hint), i))]), LAMBDA vs, none : Done(Tup(vs)))
vec_tuple_to_sql(rt, a, hint) ==
    Then(All([i \in 1..Len(a.in) |-> to_sql(rt.in[1], a.in[i], Nth(untuple(hint), i))]), LAMBDA vs, none : Done(Tup(vs)))

to_sql(rt, a, hint) ==
    CASE rt.r \in DOMAIN Kinds -> scalar_to_sql(rt, a)
      [] rt.r \in DOMAIN GeoTypes -> geo_to_sql(rt, a)
      [] rt.r \in DOMAIN FixedPoints -> fixed_point_to_sql(rt, a)
      [] rt.r = "String" -> Done(Val("String", a.x))
      [] rt.r = "Bytes" -> bytes_to_sql(a, hint)
      [] rt.r = "Json" -> Done(Val("Object", a.x))
      [] rt.r = "Decimal" -> decimal_to_sql(a.x, hint)
      [] rt.r = "DateTime" -> Done(Zoned(Val("DateTime", a.x), a.tz))
      [] rt.r = "DateTime64" -> Done(Zoned(Val("DateTime64", <<a.x[1], rt.n>>), a.tz))
      [] rt.r = "chrono" -> micros_of_chrono(a.x, a.tz)
      [] rt.r = "Vec" -> vec_to_sql(rt, a, hint)
      [] rt.r = "Array" -> array_to_sql(rt, a, hint)
      [] rt.r = "Map" -> map_to_sql(rt, a, hint)
      [] rt.r = "Option" -> option_to_sql(rt, a, hint)
      [] rt.r = "Tuple" -> tuple_to_sql(rt, a, hint)
      [] rt.r = "VecTuple" -> vec_tuple_to_sql(rt, a, hint)
      [] rt.r = "Box" -> to_sql(rt.in[1], a, hint)
      [] rt.r = "Value" -> Done(a)

-----------------------------------------------------------------------------
(* FromSql.                                                                *)
scalar_from_sql(rt, t, v) ==
    LET k == Kinds[rt.r]
    IN CASE t.k # k -> Bad
         [] v.v # k -> unexpected_type(rt)
         [] rt.r = "bool" -> Done(Val("bool", <<IF v.x[1] # 0 THEN 1 ELSE 0>>))
         [] OTHER -> Done([Val(rt.r, v.x) EXCEPT !.in = v.in])

geo_from_sql(rt, t, v) ==
    LET k == GeoTypes[rt.r]
        made == CASE k = "Polygon" -> geo_polygon(v)
                  [] k = "MultiPolygon" -> [v EXCEPT !.in = Map(geo_polygon, @)]
                  [] OTHER -> v
    IN IF t.k # k THEN Bad ELSE IF v.v # k THEN unexpected_type(rt) ELSE Done([made EXCEPT !.v = rt.r])

fixed_point_from_sql(rt, t, v) ==
    LET k == FixedPoints[rt.r]
    IN IF t.k # k \/ t.p # rt.n THEN Bad
       ELSE IF v.v # k THEN unexpected_type(rt) ELSE Done(Val(rt.r, <<v.x[2]>>))

string_from_sql(t, v) ==
    IF t.k \in Strings \union FixedStrings \union {"Object"} /\ v.v \in {"String", "Object"} /\ Utf8(v.x)
    THEN Done(Val("String", v.x)) ELSE Bad

bytes_from_sql(t, v) ==
    CASE t.k \in {"String", "FixedSizedString"} -> IF v.v = "String" THEN Done(Val("Bytes", v.x)) ELSE Panics
      [] t.k = "Array" /\ t.in[1] \in Bytewise ->
           IF v.v # "Array" THEN Panics
           ELSE IF \E i \in 1..Len(v.in) : v.in[i].v \notin {"UInt8", "Int8"} THEN Bad
           ELSE Done(Val("Bytes", Map(LAMBDA e : e.x[1] % 256, v.in)))
      [] OTHER -> Bad

\* A serde_json::Value needs an Object; a Json<T> takes any text, which must parse.
json_from_sql(rt, t, v) ==
    IF rt.n = 1 THEN IF t.k \in {"Object", "String"} /\ v.v = "Object" /\ v.x # <<>> THEN Done(Val("Json", v.x)) ELSE Bad
    ELSE Then(string_from_sql(t, v), LAMBDA s, none : IF s.x = <<>> THEN Bad ELSE Done(Val("Json", s.x)))

datetime_from_sql(rt, t, v) ==
    IF t.k # rt.r \/ (rt.r = "DateTime64" /\ t.p # rt.n) THEN Bad
    ELSE IF v.v # rt.r THEN unexpected_type(rt) ELSE Done(Zoned(Val(rt.r, <<v.x[1]>>), v.tz))

\* A chrono DateTime: of any precision, and of a DateTime too.
chrono_from_sql(t, v) ==
    CASE t.k \notin {"DateTime", "DateTime64"} -> Bad
      [] v.v = "DateTime64" -> Done(Zoned(Val("chrono", chrono_of_datetime64(v)), v.tz))
      [] v.v = "DateTime" -> Done(Zoned(Val("chrono", chrono_of_datetime(v)), v.tz))
      [] OTHER -> Panics

RECURSIVE from_sql(_, _, _)
vec_from_sql(rt, t, v) ==
    LET sub == strip_low_cardinality(t.in[1])
    IN CASE t.k # "Array" -> Bad
         [] v.v = "String" /\ sub \in Bytewise ->
              IF rt.in[1].r \in ByteTypes THEN Done([Val("Vec", <<>>) EXCEPT !.in = Map(LAMBDA b : Val(rt.in[1].r, <<b>>), v.x)])
              ELSE Bad
         [] v.v = "Array" -> Then(All(Map(LAMBDA e : from_sql(rt.in[1], sub, e), v.in)), LAMBDA vs, none :
                                  Done([Val("Vec", <<>>) EXCEPT !.in = vs]))
         [] OTHER -> Bad

array_from_sql(rt, t, v) ==
    IF t.k # "Array" \/ v.v # "Array" \/ Len(v.in) # rt.n THEN Bad
    ELSE Then(All(Map(LAMBDA e : from_sql(rt.in[1], strip_low_cardinality(t.in[1]), e), v.in)), LAMBDA vs, none :
              Done([Val("Array", <<>>) EXCEPT !.in = vs]))

\* A pair replaces the value of a key that is there already.
Inserted(m, k, v) == IF Contains(m.in, k) THEN [m EXCEPT !.in2[SelectInSeq(m.in, LAMBDA e : e = k)] = v]
                     ELSE [m EXCEPT !.in = Append(@, k), !.in2 = Append(@, v)]
map_from_sql(rt, t, v) ==
    IF t.k # "Map" \/ v.v # "Map" THEN Bad
    ELSE Then(All(Map(LAMBDA k : from_sql(rt.in[1], strip_low_cardinality(t.in[1]), k), v.in)), LAMBDA ks, none :
         Then(All(Map(LAMBDA e : from_sql(rt.in[2], strip_low_cardinality(t.in[2]), e), v.in2)), LAMBDA vs, n :
              Done(FoldLeft(LAMBDA m, i : Inserted(m, ks[i], vs[i]), Val("Map", <<>>), [i \in 1..Len(ks) |-> i]))))

option_from_sql(rt, t, v) ==
    IF ~is_nullable(t) THEN Bad
    ELSE IF Same(v, Null) THEN Done(Val("None", <<>>))
    ELSE Then(from_sql(rt.in[1], strip_low_cardinality(t.in[1]), v), LAMBDA e, none : Done([Val("Some", <<>>) EXCEPT !.in = <<e>>]))

tuple_from_sql(rt, t, v) ==
    IF t.k # "Tuple" \/ v.v # "Tuple" \/ Len(v.in) # Len(t.in) \/ Len(v.in) # Len(rt.in) THEN Bad
    ELSE Then(All([i \in 1..Len(v.in) |-> from_sql(rt.in[i], strip_low_cardinality(t.in[i]), v.in[i])]), LAMBDA vs, none :
              Done([Val("Tuple", <<>>) EXCEPT !.in = vs]))
vec_tuple_from_sql(rt, t, v) ==
    IF t.k # "Tuple" \/ v.v # "Tuple" \/ Len(v.in) # Len(t.in) THEN Bad
    ELSE Then(All([i \in 1..Len(v.in) |-> from_sql(rt.in[1], t.in[i], v.in[i])]), LAMBDA vs, none :
              Done([Val("VecTuple", <<>>) EXCEPT !.in = vs]))

from_sql(rt, t, v) ==
    CASE rt.r \in DOMAIN Kinds -> scalar_from_sql(rt, t, v)
      [] rt.r \in DOMAIN GeoTypes -> geo_from_sql(rt, t, v)
      [] rt.r \in DOMAIN FixedPoints -> fixed_point_from_sql(rt, t, v)
      [] rt.r = "String" -> string_from_sql(t, v)
      [] rt.r = "Bytes" -> bytes_from_sql(t, v)
      [] rt.r = "Json" -> json_from_sql(rt, t, v)
      [] rt.r = "Decimal" -> Then(decimal_from_sql(v), LAMBDA d, none : Done(Val("Decimal", d)))
      [] rt.r \in {"DateTime", "DateTime64"} -> datetime_from_sql(rt, t, v)
      [] rt.r = "chrono" -> chrono_from_sql(t, v)
      [] rt.r = "Vec" -> vec_from_sql(rt, t, v)
      [] rt.r = "Array" -> array_from_sql(rt, t, v)
      [] rt.r = "Map" -> map_from_sql(rt, t, v)
      [] rt.r = "Option" -> option_from_sql(rt, t, v)
      [] rt.r = "Tuple" -> tuple_from_sql(rt, t, v)
      [] rt.r = "VecTuple" -> vec_tuple_from_sql(rt, t, v)
      [] rt.r = "Box" -> from_sql(rt.in[1], t, v)
      [] rt.r = "Value" -> Done(v)
=============================================================================
