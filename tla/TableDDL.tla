----------------------------- MODULE TableDDL ------------------------------
(***************************************************************************)
(* schema.rs: the statement that makes a table, from an arrow schema or    *)
(* from the columns of a Row, with the engine and the keys of its          *)
(* CreateOptions.  A statement is the sequence of its clauses; a name is a *)
(* string, an expression over columns is the sequence of the names in it,  *)
(* and what is not given is <<>>.                                          *)
(***************************************************************************)
EXTENDS ArrowTypes

\* The engines whose name holds the word log: they take none of the clauses.
Logs == {"Log", "StripeLog", "TinyLog"}

CreateNew(engine) ==
    [engine |-> engine, order_by |-> <<>>, primary_keys |-> <<>>, partition_by |-> <<>>, sampling |-> <<>>,
     ttl |-> <<>>, settings |-> <<>>, conversions |-> <<>>, defaults |-> <<>>, defaults_for_nullable |-> FALSE]

\* An association list, as the maps of the options and the settings are used.
Entry(kvs, k) == LET i == SelectInSeq(kvs, LAMBDA e : e[1] = k) IN IF i = 0 THEN <<>> ELSE <<kvs[i][2]>>
Put(kvs, k, v) == LET i == SelectInSeq(kvs, LAMBDA e : e[1] = k)
                  IN IF i = 0 THEN Append(kvs, <<k, v>>) ELSE [kvs EXCEPT ![i] = <<k, v>>]

NonEmpty(names) == SelectSeq(names, LAMBDA n : n # "")
with_order_by(o, names) == [o EXCEPT !.order_by = NonEmpty(names)]
with_primary_keys(o, names) == [o EXCEPT !.primary_keys = NonEmpty(names)]
\* with_partition_by, with_sample_by and with_ttl keep what was there for an empty text.
Given(o, clause, expr) == IF expr = <<>> THEN o ELSE [o EXCEPT ![clause] = expr]
add_setting(o, name, value) == [o EXCEPT !.settings = Put(@, name, value)]

IsPrefixOf(keys, names) == Len(keys) <= Len(names) /\ \A i \in 1..Len(keys) : keys[i] = names[i]

Clause(name, arg) == IF arg = <<>> THEN <<>> ELSE << <<name, arg>> >>
build(o) ==
    CASE o.engine = "" -> ParseErr
      [] o.engine \in Logs -> Parsed(<< <<"ENGINE", o.engine>> >>)
      [] o.order_by = <<>> /\ (o.primary_keys # <<>> \/ o.sampling # <<>>) -> ParseErr
      [] o.order_by # <<>> /\ ~IsPrefixOf(o.primary_keys, o.order_by) -> ParseErr
      [] o.order_by # <<>> /\ o.sampling # <<>> /\ ~\E i \in 1..Len(o.order_by) : Contains(o.sampling, o.order_by[i]) -> ParseErr
      [] OTHER -> Parsed(<< <<"ENGINE", o.engine>>, <<"ORDER BY", o.order_by>> >>
                         \o Clause("PRIMARY KEY", o.primary_keys) \o Clause("PARTITION BY", o.partition_by)
                         \o Clause("SAMPLE BY", o.sampling) \o Clause("TTL", o.ttl) \o Clause("SETTINGS", o.settings))

\* create_db_statement and drop_db_statement.
db_statement(verb, database, sync) ==
    IF database \in {"", "default", "DEFAULT"} THEN ParseErr
    ELSE Parsed(<< <<verb, database>> >> \o IF sync THEN << <<"SYNC", "">> >> ELSE <<>>)

\* A default that is empty or NULL is printed as a bare DEFAULT.
DefaultOf(o, name, type, own) ==
    LET d == IF Entry(o.defaults, name) # <<>> THEN Entry(o.defaults, name) ELSE own
    IN IF d # <<>> THEN <<IF d[1] = "NULL" THEN "" ELSE d[1]>>
       ELSE IF o.defaults_for_nullable /\ is_nullable(type) THEN <<"">> ELSE <<>>

\* The columns of an arrow schema, a sequence of <<name, field>>: every one converted, or
\* an error.
OwnDefault(d) == IF d = <<"">> \/ d = <<"NULL">> THEN <<>> ELSE d
RuntimeDefinitions(schema, o, arrow_options) ==
    EachParsed(LAMBDA c : ThenParsed(schema_conversion(c[2], Entry(o.conversions, c[1]), arrow_options), LAMBDA t :
                          Parsed(<<c[1], t, OwnDefault(Entry(o.defaults, c[1]))>>)), schema)

\* The columns of a Row, a sequence of <<name, type, default>>, retyped where a conversion
\* is given; the statement made from a Row type has no value of it, and leaves them.
RowDefinitions(columns, o) ==
    [i \in 1..Len(columns) |-> LET c == Entry(o.conversions, columns[i][1])
                               IN IF c = <<>> THEN columns[i] ELSE <<columns[i][1], c[1], columns[i][3]>>]

create_table_statement(definitions, o) ==
    LET b == build(o)
        column(d) == <<d[1], d[2], DefaultOf(o, d[1], d[2], d[3])>>
    IN IF definitions.st # "ok" \/ definitions.v = <<>> \/ b.st # "ok" THEN ParseErr
       ELSE Parsed([columns |-> [i \in 1..Len(definitions.v) |-> column(definitions.v[i])], clauses |-> b.v])

create_table_statement_from_arrow(schema, o, arrow_options) ==
    create_table_statement(RuntimeDefinitions(schema, o, arrow_options), o)
create_table_statement_from_native(columns, o) == create_table_statement(Parsed(columns), o)
=============================================================================
