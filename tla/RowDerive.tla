----------------------------- MODULE RowDerive -----------------------------
(***************************************************************************)
(* clickhouse-arrow-derive and native/convert/: the Row trait, the code    *)
(* that #[derive(Row)] generates for a struct, RawRow and UnitValue.       *)
(*                                                                         *)
(* A struct is [fields, attrs]; a field is its identifier (a sequence of   *)
(* characters), its attributes, its Rust type and, when it is nested or    *)
(* flattened, the struct inside.  An attribute is [a, v].  A value of a    *)
(* struct is the sequence of its fields' values.                           *)
(***************************************************************************)
EXTENDS Convert

Attr(a, v) == [a |-> a, v |-> v]
Field(ident, attrs, rt) == [ident |-> ident, attrs |-> attrs, rt |-> rt, inner |-> <<>>]
FieldIn(ident, attrs, inner) == [Field(ident, attrs, RT("struct")) EXCEPT !.inner = <<inner>>]
Struct(attrs, fields) == [attrs |-> attrs, fields |-> fields]

-----------------------------------------------------------------------------
(* case.rs: rename_all, over a small alphabet.                             *)
Upper == [a |-> "A", b |-> "B", n |-> "N"]
ToUpper(c) == IF c \in DOMAIN Upper THEN Upper[c] ELSE c
ToLower(c) == IF \E d \in DOMAIN Upper : Upper[d] = c THEN CHOOSE d \in DOMAIN Upper : Upper[d] = c ELSE c
Rules == {"lowercase", "UPPERCASE", "PascalCase", "camelCase", "snake_case", "SCREAMING_SNAKE_CASE",
          "kebab-case", "SCREAMING-KEBAB-CASE"}
Kebab(s) == Map(LAMBDA c : IF c = "_" THEN "-" ELSE c, s)
Pascal(s) == Flat([i \in 1..Len(s) |-> IF s[i] = "_" THEN <<>>
                                       ELSE IF i = 1 \/ s[i - 1] = "_" THEN <<ToUpper(s[i])>> ELSE <<s[i]>>])
Camel(s) == IF s = <<>> THEN s ELSE <<ToLower(Head(s))>> \o Tail(s)
apply_to_field(rule, s) ==
    CASE rule \in {"UPPERCASE", "SCREAMING_SNAKE_CASE"} -> Map(ToUpper, s)
      [] rule = "PascalCase" -> Pascal(s)
      [] rule = "camelCase" -> Camel(Pascal(s))
      [] rule = "kebab-case" -> Kebab(s)
      [] rule = "SCREAMING-KEBAB-CASE" -> Kebab(Map(ToUpper, s))
      [] OTHER -> s

-----------------------------------------------------------------------------
(* attr.rs and ast.rs: what a struct's attributes say.  An attribute that  *)
(* is unknown or given twice is a compile error.                           *)
FieldAttrs == {"rename", "nested", "skip_serializing", "skip_deserializing", "skip", "flatten", "default",
               "serialize_with", "deserialize_with", "with", "bound"}
ContainerAttrs == {"rename", "rename_all", "deny_unknown_fields", "default", "bound", "from", "try_from", "into", "schema"}

Has(x, a) == \E i \in 1..Len(x.attrs) : x.attrs[i].a = a
Arg(x, a) == x.attrs[SelectInSeq(x.attrs, LAMBDA e : e.a = a)].v

\* Attr::set, once for each attribute that an attribute stands for.
Sets(e) == CASE e.a = "skip" -> <<"skip_serializing", "skip_deserializing">>
             [] e.a = "with" -> <<"serialize_with", "deserialize_with">>
             [] OTHER -> <<e.a>>
SetOnce(x) == LET all == Flat(Map(Sets, x.attrs)) IN \A i, j \in 1..Len(all) : all[i] = all[j] => i = j

skip_serializing(f) == Has(f, "skip_serializing") \/ Has(f, "skip")
skip_deserializing(f) == Has(f, "skip_deserializing") \/ Has(f, "skip")
nested(f) == Has(f, "nested")
flatten(f) == Has(f, "flatten")

RECURSIVE compiles(_)
compiles(s) ==
    /\ SetOnce(s) /\ \A i \in 1..Len(s.attrs) : s.attrs[i].a \in ContainerAttrs
    /\ Has(s, "rename_all") => Arg(s, "rename_all") \in Rules
    /\ \A i \in 1..Len(s.fields) :
          LET f == s.fields[i]
          IN /\ SetOnce(f) /\ \A j \in 1..Len(f.attrs) : f.attrs[j].a \in FieldAttrs
             /\ f.inner # <<>> => compiles(f.inner[1])

\* Name::from_attrs and rename_by_rules.
name(s, f) == IF Has(f, "rename") THEN Arg(f, "rename")
              ELSE IF Has(s, "rename_all") THEN apply_to_field(Arg(s, "rename_all"), f.ident) ELSE f.ident

-----------------------------------------------------------------------------
(* column_names, COLUMN_COUNT and serialize_row.                           *)
Dotted(key, n) == key \o <<".">> \o n
Serialized(s) == SelectSeq(s.fields, LAMBDA f : ~skip_serializing(f))

RECURSIVE column_names(_)
column_names(s) == Flat(Map(LAMBDA f : IF nested(f) THEN Map(LAMBDA n : Dotted(name(s, f), n), column_names(f.inner[1]))
                                       ELSE IF flatten(f) THEN column_names(f.inner[1])
                                       ELSE <<name(s, f)>>, Serialized(s)))

\* No count for a struct with a flattened field.
RECURSIVE COLUMN_COUNT(_)
Total(counts) == IF Contains(counts, <<>>) THEN <<>> ELSE <<FoldLeft(LAMBDA n, c : n + c[1], 0, counts)>>
COLUMN_COUNT(s) ==
    IF \E i \in 1..Len(s.fields) : flatten(s.fields[i]) THEN <<>>
    ELSE Total(Map(LAMBDA f : IF nested(f) THEN COLUMN_COUNT(f.inner[1]) ELSE <<1>>, Serialized(s)))

HintOf(hints, key) == LET i == SelectInSeq(hints, LAMBDA h : h[1] = key) IN IF i = 0 THEN <<>> ELSE <<hints[i][2]>>
FieldIndex(s, f) == SelectInSeq(s.fields, LAMBDA g : g = f)

\* The inner rows of a nested field become one array for each inner column; they are
\* serialized with the hints of the OUTER columns.
RECURSIVE serialize_row(_, _, _)
serialize_nested(key, inner, rows, hints) ==
    LET count == COLUMN_COUNT(inner)
        columns == All(Map(LAMBDA row : serialize_row(inner, row, hints), rows))
    IN IF count = <<>> THEN Panics
       ELSE Then(columns, LAMBDA out, none :
                 Done([c \in 1..count[1] |-> <<Dotted(key, IF out = <<>> THEN column_names(inner)[c] ELSE out[1][c][1]),
                                               Arr(Map(LAMBDA r : r[c][2], out))>>]))

serialize_field(s, f, value, hints) ==
    LET key == name(s, f)
        one(r) == Then(r, LAMBDA v, none : Done(<< <<key, v>> >>))
    IN CASE Has(f, "serialize_with") \/ Has(f, "with") -> one(to_sql(f.rt, value, <<>>))
         [] nested(f) -> serialize_nested(key, f.inner[1], value, hints)
         [] flatten(f) -> serialize_row(f.inner[1], value, hints)
         [] OTHER -> one(to_sql(f.rt, value, HintOf(hints, key)))

serialize_row(s, row, hints) ==
    Then(All(Map(LAMBDA f : serialize_field(s, f, row[FieldIndex(s, f)], hints), Serialized(s))),
         LAMBDA parts, none : Done(Flat(parts)))

-----------------------------------------------------------------------------
(* deserialize_row.  `columns` is a sequence of <<name, type, value>>.     *)
NameFits(key, f, n) == IF nested(f) THEN IsPrefix(key \o <<".">>, n) /\ Len(n) > Len(key) ELSE n = key
TakenByName(s, f, n) == NameFits(name(s, f), f, n)
Wanted(s) == SelectSeq(s.fields, LAMBDA f : ~skip_deserializing(f) /\ ~flatten(f))
Flattened(s) == SelectSeq(s.fields, flatten)

\* How many columns a field stands for when columns are matched by their position.
Width(f) == IF nested(f) THEN COLUMN_COUNT(f.inner[1])[1] ELSE 1
LocalIndex(s, i) == FoldLeft(LAMBDA n, f : n + Width(f), 0, SubSeq(Wanted(s), 1, i - 1))

\* The field a column goes to: by its name, or else, unless a field is flattened, by its
\* position; 0 for none.
\* Mutant of FieldFor: a column goes to the field at its position, whatever its name.
ByPosition(s, n, at) == SelectInSeq([i \in 1..Len(Wanted(s)) |-> i],
                                    LAMBDA i : at >= LocalIndex(s, i) /\ at < LocalIndex(s, i) + Width(Wanted(s)[i]))
NameFirst(s, byName, byPosition) ==
    IF byName # 0 THEN byName ELSE IF Flattened(s) # <<>> THEN 0 ELSE byPosition
FieldFor(s, n, at) ==
    NameFirst(s, SelectInSeq(Wanted(s), LAMBDA f : TakenByName(s, f, n)), ByPosition(s, n, at))

\* A column of a nested field: an array, as long as the columns of the field before it.
add_nested(f, key, have, n, t, v) ==
    CASE v.v # "Array" -> Bad
      [] have # <<>> /\ Len(have[1].vals) # Len(v.in) -> Bad
      [] t.k # "Array" -> Bad
      [] OTHER -> Done(Append(have, [name |-> IF IsPrefix(key \o <<".">>, n) THEN SubSeq(n, Len(key) + 2, Len(n)) ELSE n,
                                     type |-> t.in[1], vals |-> v.in]))

\* One column into the fields' slots: a slot is filled once.
put_column(s, slots, c, i) ==
    LET f == Wanted(s)[i]
        put(r) == Then(r, LAMBDA v, none : Done([slots EXCEPT ![i] = v]))
    IN CASE i = 0 -> IF Has(s, "deny_unknown_fields") /\ Flattened(s) = <<>> THEN Bad ELSE Done(slots)
         [] nested(f) -> put(add_nested(f, name(s, f), slots[i], c[1], c[2], c[3]))
         [] slots[i] # <<>> -> Bad
         [] OTHER -> put(Then(from_sql(f.rt, c[2], c[3]), LAMBDA v, none : Done(<<v>>)))
take_column(s, slots, c, at) == put_column(s, slots, c, FieldFor(s, c[1], at))

\* A flattened field takes the columns of its names out of the row first.
RECURSIVE pull_flatten(_, _, _)
pull_flatten(names, columns, pulled) ==
    IF names = <<>> THEN Done([columns |-> columns, pulled |-> pulled])
    ELSE LET i == SelectInSeq(columns, LAMBDA c : c[1] = Head(names))
         IN IF i = 0 THEN Bad
            ELSE pull_flatten(Tail(names), SubSeq([columns EXCEPT ![i] = Last(columns)], 1, Len(columns) - 1),
                              Append(pulled, columns[i]))

\* expr_is_missing: the field's default, the struct's, or an error.
Default(rt) == CASE rt.r \in {"String", "Bytes", "Vec", "Map", "VecTuple"} -> Val(rt.r, <<>>)
                 [] rt.r = "Option" -> Val("None", <<>>)
                 [] OTHER -> Val(rt.r, <<0>>)
missing(s, f) == IF Has(f, "default") \/ Has(s, "default") \/ skip_deserializing(f) THEN Done(Default(f.rt)) ELSE Bad

\* nested_rectify: the inner rows, column by column, until one column has no more.  With
\* no column at all nothing ends the loop, unless an inner field is missing.
RECURSIVE deserialize_row(_, _)
rectify(inner, have) ==
    IF have = <<>> THEN IF deserialize_row(inner, <<>>).st = "ok" THEN Fail("hang", <<>>) ELSE Bad
    ELSE Then(All([r \in 1..Len(have[1].vals) |->
                      deserialize_row(inner, Map(LAMBDA c : <<c.name, c.type, c.vals[r]>>, have))]),
              LAMBDA rows, none : Done(rows))

deserialize_row(s, columns) ==
    LET pulled == pull_flatten(Flat(Map(LAMBDA f : column_names(f.inner[1]), Flattened(s))), columns, <<>>)
        wanted == Wanted(s)
        slots(cols) == FoldLeft(LAMBDA acc, at : Then(acc, LAMBDA sl, none : take_column(s, sl, cols[at], at - 1)),
                                Done([i \in 1..Len(wanted) |-> <<>>]), [at \in 1..Len(cols) |-> at])
        part(f, pull) == deserialize_row(f.inner[1],
                            Map(LAMBDA n : pull[SelectInSeq(pull, LAMBDA c : c[1] = n)], column_names(f.inner[1])))
        value(f, sl, pull) ==
            CASE skip_deserializing(f) -> missing(s, f)
              [] flatten(f) -> part(f, pull)
              [] nested(f) -> rectify(f.inner[1], sl[SelectInSeq(wanted, LAMBDA g : g = f)])
              [] OTHER -> LET slot == sl[SelectInSeq(wanted, LAMBDA g : g = f)]
                          IN IF slot = <<>> THEN missing(s, f) ELSE Done(slot[1])
    IN IF \E i \in 1..Len(wanted) : nested(wanted[i]) /\ COLUMN_COUNT(wanted[i].inner[1]) = <<>> THEN Panics
       ELSE Then(pulled, LAMBDA p, none :
            Then(slots(p.columns), LAMBDA sl, n : All(Map(LAMBDA f : value(f, sl, p.pulled), s.fields))))

-----------------------------------------------------------------------------
(* RawRow: a row by hand.  A column that was fetched leaves an empty slot, *)
(* which answers to no name.                                               *)
Find(raw, n) == SelectInSeq(raw, LAMBDA c : c # <<>> /\ c[1][1] = n)

\* RowIndex: a position is in bounds up to and including the length, a name where it is.
index_of_position(raw, i) == IF Len(raw) >= i THEN <<i>> ELSE <<>>
index_of_name(raw, n) == IF Find(raw, n) = 0 THEN <<>> ELSE <<Find(raw, n) - 1>>

\* try_get gives the value and the row that is left; a fetched value is gone even when
\* it does not convert.
Fetched(r, left) == [st |-> r.st, v |-> r.v, raw |-> left]
try_get(raw, index, rt) ==
    CASE index = <<>> -> [st |-> "OutOfBounds", v |-> <<>>, raw |-> raw]
      [] index[1] = Len(raw) -> [st |-> "panic", v |-> <<>>, raw |-> raw]
      [] raw[index[1] + 1] = <<>> -> [st |-> "DoubleFetch", v |-> <<>>, raw |-> raw]
      [] OTHER -> LET c == raw[index[1] + 1][1] IN Fetched(from_sql(rt, c[2], c[3]), [raw EXCEPT ![index[1] + 1] = <<>>])

\* try_set_typed: in place where the name is, else at the end.
\* Mutant: a column is set at the end even if it is there.
AlwaysPush(raw, n, t, rt, value) ==
    LET r == to_sql(rt, value, t)
    IN IF r.st # "ok" THEN raw ELSE Append(raw, << <<n, IF t = <<>> THEN guess_type(r.v) ELSE t[1], r.v>> >>)
put_slot(raw, n, c) == IF Find(raw, n) # 0 THEN [raw EXCEPT ![Find(raw, n)] = <<c>>] ELSE Append(raw, <<c>>)
put_value(raw, n, t, r) ==
    IF r.st # "ok" THEN raw ELSE put_slot(raw, n, <<n, IF t = <<>> THEN guess_type(r.v) ELSE t[1], r.v>>)
try_set_typed(raw, n, t, rt, value) == put_value(raw, n, t, to_sql(rt, value, t))

raw_serialize(raw) == IF Contains(raw, <<>>) THEN Panics ELSE Done(Map(LAMBDA c : <<c[1][1], c[1][3]>>, raw))
raw_deserialize(columns) == Done(Map(LAMBDA c : <<c>>, columns))

-----------------------------------------------------------------------------
(* UnitValue: the first column, whatever its name; written as "_".         *)
unit_deserialize(rt, columns) == IF columns = <<>> THEN Bad ELSE from_sql(rt, columns[1][2], columns[1][3])
unit_serialize(rt, value, hints) ==
    Then(to_sql(rt, value, IF hints = <<>> THEN <<>> ELSE <<hints[1][2]>>), LAMBDA v, none : Done(<< << <<"_">>, v>> >>))
=============================================================================
