-------------------------------- MODULE Kinds --------------------------------
(***************************************************************************)
(* The kinds that types and values have (native/types.rs, native/values.rs)*)
(* and what a value and a block of them (native/block.rs) are.  A value is *)
(* its kind v, the integers x it carries (a number, the bytes of a string, *)
(* <<scale, raw>> of a decimal, <<index>> \o name of an enum,              *)
(* <<ticks, precision>> of a DateTime64), its zone tz, and the values in   *)
(* it (a map holds its keys in `in` and its values in `in2`).              *)
(***************************************************************************)
EXTENDS Integers, Sequences

Signed == {"Int8", "Int16", "Int32", "Int64", "Int128", "Int256"}
Unsigned == {"UInt8", "UInt16", "UInt32", "UInt64", "UInt128", "UInt256"}
Integer == Signed \union Unsigned
Floats == {"Float32", "Float64"}
Decimals == {"Decimal32", "Decimal64", "Decimal128", "Decimal256"}
Strings == {"String", "Binary"}
FixedStrings == {"FixedSizedString", "FixedSizedBinary"}
Geo == {"Point", "Ring", "Polygon", "MultiPolygon"}
Enums == {"Enum8", "Enum16"}
Dates == {"Date", "Date32", "DateTime", "DateTime64"}
Plain == Integer \union Floats \union {"String", "Date", "Date32", "Ipv4", "Ipv6", "Uuid", "Object"} \union Geo

\* The kinds one integer of a fixed width stands for.
SizedKinds == Integer \union Floats \union Decimals \union Dates \union Enums \union {"Uuid", "Ipv4", "Ipv6"}

Val(v, x) == [v |-> v, x |-> x, tz |-> "UTC", in |-> <<>>, in2 |-> <<>>]

-----------------------------------------------------------------------------
(* A block of named and typed columns is [info, rows, types, data]: types  *)
(* are <<name, type>> pairs, data is the columns one after another.        *)
DefaultInfo == [overflows |-> FALSE, bucket |-> -1]
ColumnOf(b, i) == SubSeq(b.data, (i - 1) * b.rows + 1, i * b.rows)
=============================================================================
