------------------------------ MODULE ChValues ------------------------------
(***************************************************************************)
(* native/values.rs and the parts of native/types.rs that relate a value   *)
(* to a type.                                                              *)
(***************************************************************************)
EXTENDS ChTypes

Null == Val("Null", <<>>)
Arr(s) == [Val("Array", <<>>) EXCEPT !.in = s]
Tup(s) == [Val("Tuple", <<>>) EXCEPT !.in = s]
MapV(ks, vs) == [Val("Map", <<>>) EXCEPT !.in = ks, !.in2 = vs]

\* PartialEq: the kinds that eq names compare what they carry, the others (Null and
\* Object) only that they are of the same kind.
RECURSIVE Same(_, _)
SameSeq(a, b) == Len(a) = Len(b) /\ \A i \in 1..Len(a) : Same(a[i], b[i])
Same(a, b) == /\ a.v = b.v
              /\ \/ a.v \in {"Null", "Object"}
                 \/ a.x = b.x /\ a.tz = b.tz /\ SameSeq(a.in, b.in) /\ SameSeq(a.in2, b.in2)

\* Hash: what a value feeds to the hasher.  The name of an enum is left out, the text of
\* an object is not.
HashOf(a) == <<a.v, IF a.v \in Enums THEN <<a.x[1]>> ELSE a.x, a.tz, a.in, a.in2>>

index_value(a) == IF a.v \in {"UInt8", "UInt16", "UInt32", "UInt64"} THEN <<a.x[1]>> ELSE <<>>
unwrap_array_value(a) == IF a.v = "Array" THEN [st |-> "ok", v |-> a.in] ELSE [st |-> "err", v |-> <<>>]
unwrap_tuple_value(a) == IF a.v = "Tuple" THEN [st |-> "ok", v |-> a.in] ELSE [st |-> "err", v |-> <<>>]

\* default_value: what stands for a value that is not there.
RECURSIVE default_value(_)
default_value(t) ==
    CASE t.k \in Decimals -> Val(t.k, <<t.p, 0>>)
      [] t.k \in Strings \union FixedStrings -> Val("String", <<>>)
      [] t.k = "DateTime" -> [Val("DateTime", <<0>>) EXCEPT !.tz = t.tz]
      [] t.k = "DateTime64" -> [Val("DateTime64", <<0, t.p>>) EXCEPT !.tz = t.tz]
      [] t.k \in Enums -> Val(t.k, <<0>>)
      [] t.k = "LowCardinality" -> default_value(t.in[1])
      [] t.k = "Tuple" -> Tup([i \in 1..Len(t.in) |-> default_value(t.in[i])])
      [] t.k = "Nullable" -> Null
      [] t.k \in {"Array", "Map", "Ring", "Polygon", "MultiPolygon"} -> Val(t.k, <<>>)
      [] t.k = "Object" -> Val("Object", <<123, 125>>)
      [] t.k \in {"Point", "Uuid"} -> Val(t.k, <<0, 0>>)
      [] OTHER -> Val(t.k, <<0>>)

justify_null_ref(a, t) == IF Same(a, Null) THEN default_value(t) ELSE a

\* guess_type: a type a value has, from the value alone.
RECURSIVE guess_type(_)
FirstType(s) == IF s = <<>> THEN Ty("String") ELSE guess_type(s[1])
guess_type(a) ==
    CASE a.v \in Decimals -> TyP(a.v, a.x[1])
      [] a.v = "DateTime" -> DateTimeT(a.tz)
      [] a.v = "DateTime64" -> DateTime64T(a.x[2], a.tz)
      [] a.v \in Enums -> EnumT(a.v, <<[name |-> <<>>, idx |-> a.x[1]]>>)
      [] a.v = "Array" -> Of("Array", <<FirstType(a.in)>>)
      [] a.v = "Tuple" -> Of("Tuple", [i \in 1..Len(a.in) |-> guess_type(a.in[i])])
      [] a.v = "Map" -> Of("Map", <<FirstType(a.in), FirstType(a.in2)>>)
      [] a.v = "Null" -> Of("Nullable", <<Ty("String")>>)
      [] OTHER -> Ty(a.v)

\* inner_validate_value: may a value be put in a column of a type.
RECURSIVE inner_validate_value(_, _)
AllValid(t, s) == \A i \in 1..Len(s) : inner_validate_value(t, s[i])
inner_validate_value(t, a) ==
    CASE t.k = "LowCardinality" -> inner_validate_value(t.in[1], a)
      [] t.k = "Nullable" -> Same(a, Null) \/ inner_validate_value(t.in[1], a)
      [] t.k \in {"String", "FixedSizedString"} ->
           \/ a.v = "String"
           \/ a.v = "Array" /\ \A i \in 1..Len(a.in) : a.in[i].v \in {"UInt8", "Int8"}
      [] t.k \in {"Binary", "FixedSizedBinary", "Object"} -> FALSE
      [] t.k # a.v -> FALSE
      [] t.k = "DateTime" -> t.tz = a.tz
      [] t.k = "DateTime64" -> t.tz = a.tz /\ t.p = a.x[2]
      [] t.k \in Decimals -> t.p >= a.x[1]
      [] t.k \in Enums -> \E i \in 1..Len(t.items) : t.items[i].idx = a.x[1]
      [] t.k = "Array" -> AllValid(t.in[1], a.in)
      [] t.k = "Tuple" -> Len(t.in) = Len(a.in) /\ \A i \in 1..Len(a.in) : inner_validate_value(t.in[i], a.in[i])
      [] t.k = "Map" -> Len(a.in) = Len(a.in2) /\ AllValid(t.in[1], a.in) /\ AllValid(t.in[2], a.in2)
      [] OTHER -> TRUE

validate_value(t, a) == validate(t) /\ inner_validate_value(t, a)

-----------------------------------------------------------------------------
(* escape_string: the bytes a string literal needs to escape become a      *)
(* backslash and a letter, the ones above ASCII a backslash, x and two hex *)
(* digits.  Bytes are ASCII codes.                                         *)
Backslash == 92
Escapes == << <<92, 92>>, <<39, 39>>, <<8, 98>>, <<12, 102>>, <<13, 114>>, <<10, 110>>,
              <<9, 116>>, <<0, 48>>, <<7, 97>>, <<11, 118>> >>
EscapeLetter(b) == {Escapes[i][2] : i \in {j \in 1..Len(Escapes) : Escapes[j][1] = b}}
Hex(d) == IF d < 10 THEN 48 + d ELSE 55 + d
EscapeByte(b) ==
    CASE EscapeLetter(b) # {} -> <<Backslash, CHOOSE c \in EscapeLetter(b) : TRUE>>
      [] b < 128 -> <<b>>
      [] OTHER -> <<Backslash, 120, Hex(b \div 16), Hex(b % 16)>>
escape_string(bytes) == FoldLeft(LAMBDA acc, b : acc \o EscapeByte(b), <<>>, bytes)

\* The Display of a decimal: its digits with a point before the last `scale` of them, or
\* the bare digits when there are fewer than the scale.  `raw` is the text of the number
\* without its scale: its digits, after a minus sign when it is negative.
DisplayDecimal(scale, raw) ==
    IF Len(raw) < scale THEN raw
    ELSE SubSeq(raw, 1, Len(raw) - scale) \o <<".">> \o SubSeq(raw, Len(raw) - scale + 1, Len(raw))
=============================================================================
