------------------------------ MODULE ChTypes ------------------------------
(***************************************************************************)
(* native/types.rs and the grammar of native/types/deserialize.rs: the     *)
(* ClickHouse types, their printed form, the parser that reads it back     *)
(* from a server's block header, and the rules a type and a value obey.    *)
(*                                                                         *)
(* A type's text is a sequence of TOKENS: an identifier or a number is one *)
(* token, every other character (quotes, parentheses, commas, backslashes, *)
(* blanks) is one of its own, so that quoting and nesting are exact.       *)
(***************************************************************************)
EXTENDS Kinds, SequencesExt, FiniteSets, TLC

Ty(k) == [k |-> k, p |-> 0, tz |-> "UTC", items |-> <<>>, in |-> <<>>]
TyP(k, p) == [Ty(k) EXCEPT !.p = p]
DateTimeT(tz) == [Ty("DateTime") EXCEPT !.tz = tz]
DateTime64T(p, tz) == [TyP("DateTime64", p) EXCEPT !.tz = tz]
EnumT(k, items) == [Ty(k) EXCEPT !.items = items]
Of(k, inner) == [Ty(k) EXCEPT !.in = inner]

-----------------------------------------------------------------------------
(* Accessors.                                                              *)
unwrap_array(t) == IF t.k = "Array" THEN <<t.in[1]>> ELSE <<>>
unwrap_map(t) == IF t.k = "Map" THEN t.in ELSE <<>>
unwrap_tuple(t) == IF t.k = "Tuple" THEN t.in ELSE <<>>
strip_null(t) == IF t.k = "Nullable" THEN t.in[1] ELSE t
is_nullable(t) == t.k = "Nullable"
strip_low_cardinality(t) == IF t.k = "LowCardinality" THEN t.in[1] ELSE t

RECURSIVE into_nullable(_)
into_nullable(t) == CASE t.k = "Nullable" -> t
                      [] t.k = "LowCardinality" -> Of("LowCardinality", <<into_nullable(t.in[1])>>)
                      [] OTHER -> Of("Nullable", <<t>>)

-----------------------------------------------------------------------------
(* Display.                                                                *)
Ident(k) == CASE k = "Uuid" -> "UUID" [] k = "Ipv4" -> "IPv4" [] k = "Ipv6" -> "IPv6"
              [] k = "Object" -> "JSON" [] k = "Binary" -> "String"
              [] k \in FixedStrings -> "FixedString" [] OTHER -> k

Joined(parts) == FoldLeft(LAMBDA acc, p : IF acc = <<>> THEN p ELSE acc \o <<",">> \o p, <<>>, parts)

\* An enum entry, with every quote of its name doubled.
ShowEntry(e) ==
    <<"'">> \o FoldLeft(LAMBDA acc, c : acc \o (IF c = "'" THEN <<"'", "'">> ELSE <<c>>), <<>>, e.name)
            \o <<"'", " ", "=", " ", ToString(e.idx)>>

Quoted(tz) == <<"'", tz, "'">>

RECURSIVE Show(_)
Show(t) ==
    LET args == CASE t.k \in Decimals \union FixedStrings -> << <<ToString(t.p)>> >>
                  [] t.k = "DateTime" -> <<Quoted(t.tz)>>
                  [] t.k = "DateTime64" -> << <<ToString(t.p)>>, Quoted(t.tz) >>
                  [] t.k \in Enums -> [i \in 1..Len(t.items) |-> ShowEntry(t.items[i])]
                  [] OTHER -> [i \in 1..Len(t.in) |-> Show(t.in[i])]
    IN IF t.k \in Plain \union {"Binary"} THEN <<Ident(t.k)>>
       ELSE <<Ident(t.k), "(">> \o Joined(args) \o <<")">>

-----------------------------------------------------------------------------
(* FromStr.  A parse is [st, v]: "ok" and a type, or "err".                *)
Parsed(v) == [st |-> "ok", v |-> v]
ParseErr == [st |-> "err", v |-> <<>>]
ThenParsed(p, F(_)) == IF p.st = "ok" THEN F(p.v) ELSE p
\* What F parses of every element, all of it or an error.
EachParsed(F(_), s) ==
    FoldLeft(LAMBDA acc, e : ThenParsed(acc, LAMBDA vs : ThenParsed(F(e), LAMBDA v : Parsed(Append(vs, v)))), Parsed(<<>>), s)

Numbers == [s \in {ToString(n) : n \in -2..80} |-> CHOOSE n \in -2..80 : ToString(n) = s]
NumberOr(s, no) == IF Len(s) = 1 /\ s[1] \in DOMAIN Numbers THEN Numbers[s[1]] ELSE no

Zones == {"UTC", "Europe/Paris"}

Enclosed(s) == Len(s) >= 2 /\ Head(s) = "(" /\ Last(s) = ")"
Inner(s) == SubSeq(s, 2, Len(s) - 1)
trim(s) == LET ink == {i \in 1..Len(s) : s[i] # " "}
           IN IF ink = {} THEN <<>> ELSE SubSeq(s, Min(ink), Max(ink))

\* ArgsIterator: the arguments between commas outside parentheses and quotes.  A
\* backslash in quotes escapes what follows it, and also a backslash that is itself
\* escaped does.
ArgStep(a, c) ==
    LET put == [a EXCEPT !.arg = Append(@, c), !.esc = FALSE]
    IN CASE a.st = "err" -> a
         [] a.quoted /\ c = "\\" -> [put EXCEPT !.esc = TRUE]
         [] a.quoted -> [put EXCEPT !.quoted = ~(c = "'" /\ ~a.esc)]
         [] c = "'" -> [put EXCEPT !.quoted = TRUE]
         [] c = "(" -> [put EXCEPT !.depth = @ + 1]
         [] c = ")" -> [put EXCEPT !.depth = @ - 1, !.st = IF a.depth = 0 THEN "err" ELSE @]
         [] c = "," /\ a.depth = 0 ->
              IF trim(a.arg) = <<>> THEN [a EXCEPT !.st = "err"]
              ELSE [a EXCEPT !.out = Append(@, trim(a.arg)), !.arg = <<>>]
         [] OTHER -> put

ArgsStart == [st |-> "ok", out |-> <<>>, arg |-> <<>>, depth |-> 0, quoted |-> FALSE, esc |-> FALSE]
ArgsEnd(a) == IF a.st = "err" \/ a.depth # 0 THEN ParseErr
              ELSE Parsed(IF trim(a.arg) = <<>> THEN a.out ELSE Append(a.out, trim(a.arg)))
ArgsIn(s) == IF s # <<>> /\ Last(s) = "," THEN ParseErr ELSE ArgsEnd(FoldLeft(ArgStep, ArgsStart, s))
parse_args(s) == IF Enclosed(s) THEN ArgsIn(trim(Inner(s))) ELSE ParseErr

\* parse_fixed_args: at most n arguments.
parse_fixed_args(s, n) ==
    ThenParsed(parse_args(s), LAMBDA args : IF Len(args) > n THEN ParseErr ELSE Parsed(args))

\* parse_enum_options: its four states, quote, name, equals and value.
EnumStep(a, c) ==
    CASE a.st = "err" -> a
      [] a.at = "quote" -> IF c = "'" THEN [a EXCEPT !.at = "name"]
                           ELSE IF c = " " THEN a ELSE [a EXCEPT !.st = "err"]
      [] a.at = "name" /\ (a.esc \/ c \notin {"\\", "'"}) ->
            [a EXCEPT !.name = Append(@, c), !.esc = FALSE]
      [] a.at = "name" -> IF c = "\\" THEN [a EXCEPT !.esc = TRUE] ELSE [a EXCEPT !.at = "equal"]
      [] a.at = "equal" -> IF c = "=" THEN [a EXCEPT !.at = "value"]
                           ELSE IF c = " " THEN a ELSE [a EXCEPT !.st = "err"]
      [] a.at = "value" /\ c = "," ->
            IF NumberOr(a.value, -99) = -99 THEN [a EXCEPT !.st = "err"]
            ELSE [a EXCEPT !.out = Append(@, [name |-> a.name, idx |-> NumberOr(a.value, 0)]),
                           !.name = <<>>, !.value = <<>>, !.at = "quote"]
      [] OTHER -> IF c = " " THEN a ELSE [a EXCEPT !.value = Append(@, c)]

EnumStart == [st |-> "ok", out |-> <<>>, at |-> "quote", name |-> <<>>, value |-> <<>>, esc |-> FALSE]
EnumEnd(a) ==
    CASE a.st = "err" \/ a.at # "value" -> ParseErr
      [] a.value = <<>> -> Parsed(a.out)
      [] NumberOr(a.value, -99) = -99 -> ParseErr
      [] OTHER -> Parsed(Append(a.out, [name |-> a.name, idx |-> NumberOr(a.value, 0)]))
OptionsIn(s) ==
    CASE s = <<>> -> Parsed(<<>>)
      [] s # <<>> /\ Last(s) = "," -> ParseErr
      [] OTHER -> EnumEnd(FoldLeft(EnumStep, EnumStart, s))
parse_enum_options(s) == IF Enclosed(s) THEN OptionsIn(trim(Inner(s))) ELSE ParseErr

\* The precision of a Decimal(P, S) picks its width; a scale of zero is refused.
DecimalOf(p, s) ==
    CASE s <= 0 \/ p < 0 -> ParseErr
      [] p <= 9 /\ s <= 9 -> Parsed(TyP("Decimal32", s))
      [] p \in 10..18 /\ s <= 18 -> Parsed(TyP("Decimal64", s))
      [] p \in 19..38 /\ s <= 38 -> Parsed(TyP("Decimal128", s))
      [] p \in 39..76 /\ s <= 76 -> Parsed(TyP("Decimal256", s))
      [] OTHER -> ParseErr

MaxScale == [Decimal32 |-> 9, Decimal64 |-> 18, Decimal128 |-> 38, Decimal256 |-> 76]

ZoneOf(arg) == IF Len(arg) = 3 /\ arg[1] = "'" /\ arg[3] = "'" /\ arg[2] \in Zones
               THEN Parsed(arg[2]) ELSE ParseErr

\* A type named without arguments.
PlainOf(id) ==
    CASE id \in {"Bool", "UInt8"} -> Parsed(Ty("UInt8"))
      [] id \in {"UUID", "Uuid", "uuid"} -> Parsed(Ty("Uuid"))
      [] id \in {"IPv4", "IPv6"} -> Parsed(Ty(IF id = "IPv4" THEN "Ipv4" ELSE "Ipv6"))
      [] id \in {"Object", "Json", "OBJECT", "JSON"} -> Parsed(Ty("Object"))
      [] id = "DateTime" -> Parsed(DateTimeT("UTC"))
      [] id \in (Plain \ {"Uuid", "Ipv4", "Ipv6", "Object"}) -> Parsed(Ty(id))
      [] OTHER -> ParseErr

RECURSIVE FromStr(_)
InnerTypes(args) == EachParsed(FromStr, args)

\* A type with an argument list: how many arguments it takes, and what they are.
Arity(id) == CASE id \in {"Decimal", "DateTime64", "Map"} -> 2 [] id = "Tuple" -> 99 [] OTHER -> 1

TypeOf(id, a) ==
    LET n == Len(a)
        num(i) == NumberOr(a[i], -1)
    IN CASE id = "Decimal" -> IF n = 2 THEN DecimalOf(num(1), num(2)) ELSE ParseErr
         [] id \in Decimals -> IF n = 1 /\ num(1) \in 1..MaxScale[id] THEN Parsed(TyP(id, num(1))) ELSE ParseErr
         [] id = "FixedString" -> IF n = 1 /\ num(1) > 0 THEN Parsed(TyP("FixedSizedString", num(1))) ELSE ParseErr
         [] id = "DateTime" -> IF n = 0 THEN Parsed(DateTimeT("UTC"))
                               ELSE ThenParsed(ZoneOf(a[1]), LAMBDA tz : Parsed(DateTimeT(tz)))
         [] id = "DateTime64" ->
              IF n = 0 \/ num(1) < 0 THEN ParseErr
              ELSE ThenParsed(IF n = 2 THEN ZoneOf(a[2]) ELSE Parsed("UTC"), LAMBDA tz : Parsed(DateTime64T(num(1), tz)))
         [] id \in {"LowCardinality", "Array", "Nullable", "Tuple", "Map"} ->
              IF id # "Tuple" /\ n # Arity(id) THEN ParseErr
              ELSE ThenParsed(InnerTypes(a), LAMBDA ts : Parsed(Of(id, ts)))
         [] OTHER -> ParseErr

WithArgs(id, following) ==
    IF id \in Enums THEN ThenParsed(parse_enum_options(following), LAMBDA items : Parsed(EnumT(id, items)))
    ELSE ThenParsed(parse_fixed_args(following, Arity(id)), LAMBDA a : TypeOf(id, a))

Punctuation == {"'", "(", ")", ",", " ", "=", "\\"} \union DOMAIN Numbers
FromStr(s) ==
    IF s = <<>> THEN ParseErr
    ELSE IF Head(s) \in Punctuation THEN ParseErr
    ELSE IF trim(Tail(s)) # <<>> THEN WithArgs(Head(s), trim(Tail(s)))
    ELSE PlainOf(Head(s))

-----------------------------------------------------------------------------
(* validate: the types a column may have.                                  *)
RECURSIVE validate(_)
validate(t) ==
    CASE t.k \in Decimals -> t.p \in 1..MaxScale[t.k]
      [] t.k = "DateTime64" -> t.p \in 1..18
      [] t.k = "LowCardinality" ->
           /\ strip_null(t.in[1]).k \in Integer \union Strings \union FixedStrings
                                        \union {"Date", "Date32", "DateTime", "Ipv4", "Ipv6"}
           /\ validate(t.in[1])
      [] t.k = "Nullable" -> /\ t.in[1].k \notin {"Array", "Map", "LowCardinality", "Tuple", "Nullable"}
                             /\ validate(t.in[1])
      [] t.k = "Map" ->
           /\ t.in[1].k \in Integer \union Enums \union {"String", "FixedSizedString", "LowCardinality",
                                                         "Uuid", "Date", "DateTime", "DateTime64"}
           /\ validate(t.in[1]) /\ validate(t.in[2])
      [] t.k \in {"Array", "Tuple"} -> \A i \in 1..Len(t.in) : validate(t.in[i])
      [] OTHER -> TRUE

\* estimate_capacity: bytes to reserve for a value.
WidthOf(k) ==
    CASE k \in {"Int8", "UInt8", "Enum8"} -> 1
      [] k \in {"Int16", "UInt16", "Date", "Enum16"} -> 2
      [] k \in {"Int32", "UInt32", "Float32", "Date32", "DateTime", "Ipv4", "Decimal32"} -> 4
      [] k \in {"Int64", "UInt64", "Float64", "DateTime64", "Decimal64"} -> 8
      [] k \in {"Int128", "UInt128", "Uuid", "Ipv6", "Decimal128"} -> 16
      [] k \in {"Int256", "UInt256", "Decimal256"} -> 32
      [] OTHER -> 0

RECURSIVE estimate_capacity(_)
estimate_capacity(t) ==
    CASE t.k \in Integer \union Floats \union Dates \union {"Ipv4", "Ipv6", "Uuid"} -> WidthOf(t.k)
      [] t.k = "Point" -> 16
      [] t.k \in Strings -> 32
      [] t.k \in FixedStrings -> t.p
      [] t.k = "Array" -> (4 + estimate_capacity(t.in[1])) * 8
      [] t.k = "Nullable" -> estimate_capacity(t.in[1])
      [] t.k = "Tuple" -> FoldLeft(LAMBDA n, i : n + estimate_capacity(i), 0, t.in)
      [] t.k = "Map" -> 4 + estimate_capacity(t.in[1]) + estimate_capacity(t.in[2])
      [] OTHER -> 64
=============================================================================
