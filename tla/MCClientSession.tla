--------------------------- MODULE MCClientSession ---------------------------
(* Clients and servers that meet, or do not: every mode of one side against *)
(* servers with one mode and with two, clients that insist, and revisions   *)
(* that add a field; queries with settings that the server knows, does not  *)
(* know, or knows with another value; the packets whose bodies are read.    *)
EXTENDS ClientSession, NativeBlock

Opts(send, recv, m) == [username |-> "u", password |-> "", database |-> "db", compression |-> m,
                        ext |-> [chunked_send |-> send, chunked_recv |-> recv]]
Usual(m) == Opts(DefaultMode, DefaultMode, m)
Srv(rev, send, recv, settings, rules) ==
    [revision |-> rev, send |-> send, recv |-> recv, settings |-> settings, rules |-> rules,
     talks |-> FALSE, refuses |-> FALSE]
Known == << <<"threads", "3">>, <<"flag", "0">>, <<"ratio", "0.5">>, <<"mode", "deny">> >>
Current(rev) == Srv(rev, "chunked", "notchunked_optional", Known, 1)

\* Servers with one mode, and with two, for clients that leave it open and that insist.
MCPeers ==
    {<<Opts(c, "chunked_optional", "None"), Srv(54470, s, s, <<>>, 0)>> : c, s \in Modes}
    \union {<<Opts("chunked", "notchunked", "None"), Srv(54470, s, r, <<>>, 0)>> : s, r \in {"chunked_optional", "notchunked_optional"}}
    \union {<<Opts("notchunked_optional", c, "LZ4"), Srv(54479, s, "notchunked", Known, 2)>> : c, s \in Modes}
    \union {<<Usual("ZSTD"), Current(rev)>> : rev \in {54471, 54473, 54474, 54476, 54478}}
    \union {<<Usual(m), [Current(54480) EXCEPT !.talks = TRUE]>> : m \in Methods}
    \union {<<Usual("LZ4"), [Current(54479) EXCEPT !.refuses = TRUE]>>}

Ask(query, pairs) == [qid |-> "id", query |-> query, settings |-> IF pairs = <<>> THEN <<>> ELSE <<SettingsFrom(pairs)>>,
                      params |-> <<>>, set |-> <<>>]
MCAsks ==
    {Ask("SELECT", <<>>),
     Ask("SELECT", << <<"threads", Value("Int", 3)>>, <<"flag", Value("Bool", 1)>>, <<"ratio", Value("Float", 5)>>, <<"new", Value("Int", 1)>> >>),
     Ask("INSERT", << <<"threads", Value("Int", 4)>>, <<"flag", Value("Int", 0)>>, <<"mode", Value("String", "")>> >>),
     [Ask("SET", <<>>) EXCEPT !.set = << <<"threads", "5">> >>]}
MCBound == {[Ask("SELECT {x}", <<>>) EXCEPT !.params = << << <<"x", Value("Int", 3)>> >> >>]}

\* A block as a server writes it.
Cols(b) == FlattenSeq([i \in 1..Len(b.types) |->
    <<Cell(STR, b.types[i][1]), Cell(STR, Show(b.types[i][2])), U8(0)>>
    \o (IF b.rows = 0 THEN <<>> ELSE serialize_column(b.types[i][2], ColumnOf(b, i)).out)])
Body(b) == <<Var(1), U8(0), Var(2), Num(4, -1), Var(0), Var(Len(b.types)), Var(b.rows)>> \o Cols(b)
Rowset(types, rows, data) == [info |-> DefaultInfo, rows |-> rows, types |-> types, data |-> data]
IntCol == << << <<"a">>, Ty("Int32")>> >>
Say(p, body, means) == [p |-> p, body |-> body, data |-> FALSE, bare |-> FALSE, means |-> means]
SayBlock(p, b) == [Say(p, Body(b), IF no_data(b) THEN <<>> ELSE <<b>>) EXCEPT !.data = TRUE, !.bare = no_data(b)]

LogBlock == Rowset(<< << <<"host_name">>, Ty("String")>>, << <<"priority">>, Ty("Int8")>>, << <<"extra">>, Ty("UInt8")>> >>, 2,
                   <<Val("String", <<7>>), Val("String", <<8>>), Val("Int8", <<3>>), Val("Int8", <<4>>), Val("UInt8", <<1>>), Val("UInt8", <<1>>)>>)
Events == Rowset(<< << <<"name">>, Ty("String")>>, << <<"value">>, Ty("UInt64")>> >>, 1, <<Val("String", <<9>>), Val("UInt64", <<5>>)>>)
Thrown(code) == Say("Exception", <<Num(4, code), Text("name"), Text("text"), Text(""), U8(0)>>,
                    [code |-> <<code>>, name |-> <<"name">>, message |-> <<"text">>, trace |-> <<>>, nested |-> <<0>>])

MCSaid ==
    {Say("Progress", <<Var(1), Var(2), Var(3), Var(4), Var(5), Var(6), Var(7)>>,
         [read_rows |-> <<1>>, read_bytes |-> <<2>>, total_rows |-> <<3>>, total_bytes |-> <<4>>,
          written_rows |-> <<5>>, written_bytes |-> <<6>>, elapsed |-> <<7>>]),
     Say("TableColumns", <<Text("t"), Text("columns")>>, [name |-> <<"t">>, description |-> <<"columns">>]),
     SayBlock("Data", Rowset(IntCol, 0, <<>>)),
     SayBlock("Data", Rowset(IntCol, 2, <<Val("Int32", <<5>>), Val("Int32", <<6>>)>>)),
     SayBlock("Data", Rowset(<<>>, 0, <<>>)),
     SayBlock("Totals", Rowset(IntCol, 1, <<Val("Int32", <<11>>)>>)),
     SayBlock("Extremes", Rowset(IntCol, 1, <<Val("Int32", <<6>>)>>)),
     Say("ProfileInfo", <<Var(1), Var(1), Var(8), U8(0), Var(1), U8(1), U8(1), Var(2)>>,
         [rows |-> <<1>>, blocks |-> <<1>>, bytes |-> <<8>>, limited |-> <<0>>, before_limit |-> <<1>>, calculated |-> <<1>>,
          aggregated |-> <<1>>, before_aggregation |-> <<2>>]),
     Say("TablesStatusResponse", <<Var(2), Text("d"), Text("t"), U8(1), Var(9), Text("d"), Text("u"), U8(0)>>,
         (<< <<"d">>, <<"t">> >> :> << <<1>>, <<9>> >>) @@ (<< <<"d">>, <<"u">> >> :> << <<0>>, <<0>> >>)),
     Say("Log", Body(LogBlock), <<[host_name |-> <<7>>, priority |-> <<3>>], [host_name |-> <<8>>, priority |-> <<4>>]>>),
     \* A value that is not an Int64: the events are lost, their bytes are not.
     Say("ProfileEvents", Body(Events), <<>>),
     Say("PartUUIDs", <<Var(2), Num(16, 1), Num(16, 2)>>, <<1, 2>>),
     Say("ReadTaskRequest", <<Text("task")>>, <<"task">>),
     Say("Pong", <<>>, <<>>),
     Thrown(60), Thrown(241), Thrown(173),
     Say("EndOfStream", <<>>, <<>>)}

\* The delimiter of a query, in front of nothing and of another query.
ASSUME DelimiterAssumption == \A rest \in {<<>>, <<Var(1), Text("id"), U8(1)>>} : ReadsEmptyBlock(rest)
=============================================================================
