--------------------------- MODULE ClientSession ---------------------------
(***************************************************************************)
(* One connection from its first byte: hello, addendum, queries one after  *)
(* another, and what the server says to them.  The client is               *)
(* perform_handshake and the io task's send_query and receive_packet       *)
(* (connection.rs, internal.rs, writer.rs, reader.rs); when it may take    *)
(* which of its steps is the subject of Connection, what the bytes mean is *)
(* the subject here.                                                       *)
(*                                                                         *)
(* The server is external.  It is [revision, send, recv, settings, rules,  *)
(* talks, refuses]: the modes are those of its own sending and receiving,  *)
(* which its hello names in this order (reader.rs calls them               *)
(* proto_send_chunked_srv and proto_recv_chunked_srv); the settings are    *)
(* those of its profile, which it tells in its hello; one that does not    *)
(* talk answers a query with EndOfStream; one that refuses a client sends  *)
(* an exception.  It uses the older of the two revisions.  Only servers    *)
(* that know chunking are considered.                                      *)
(***************************************************************************)
EXTENDS ServerPackets

CONSTANTS WriteNative(_, _, _),     \* NativeFormat::write of a block for a revision, by a method
          Peers,        \* <<options, server>> that meet
          Asks,         \* what a client may ask: [query, settings, params, set]
          Said,         \* what a server may say: [p, body, data, bare, means], where data
                        \* is for blocks that may be compressed and bare for those without columns
          MaxAsks, MaxSaid

\* What a client is built with, and the servers that know chunking.  A server tells a
\* Bool as a number.  How packets are compressed is said by the options alone.
Compressing == {"network_compression_method", "network_zstd_compression_level"}
SettingNames == STRING \ (Compressing \union {""})
SettingTexts == STRING \ {"true", "TRUE", "false", "FALSE"}
ASSUME PeerAssumption ==
    \A peer \in Peers :
       LET o == peer[1]
           s == peer[2]
       IN /\ o.compression \in Methods /\ o.ext.chunked_send \in Modes /\ o.ext.chunked_recv \in Modes
          /\ s.revision \in Nat /\ s.revision >= CHUNKED_PACKETS
          /\ s.send \in Modes /\ s.recv \in Modes /\ s.rules \in Nat
          /\ s.settings \in Seq(SettingNames \X SettingTexts)
          /\ \A i, j \in 1..Len(s.settings) : s.settings[i][1] = s.settings[j][1] => i = j

\* A query names a setting once.
ASSUME AskAssumption ==
    \A q \in Asks :
       /\ q.set \in Seq(SettingNames \X STRING)
       /\ q.settings # <<>> =>
             LET s == q.settings[1]
             IN /\ Len(s) \in Nat /\ \A i \in 1..Len(s) : s[i].key \in SettingNames
                /\ \A i, j \in 1..Len(s) : s[i].key = s[j].key => i = j

\* What a writer leaves on the stream is a sequence.
EmptyBlock == [info |-> DefaultInfo, rows |-> 0, types |-> <<>>, data |-> <<>>]
ASSUME WriterAssumption ==
    \A revision \in CHUNKED_PACKETS..DBMS_TCP_PROTOCOL_VERSION, m \in Methods :
       LET cells == WriteNative(EmptyBlock, revision, m).out
       IN Len(cells) \in Nat /\ cells = [i \in 1..Len(cells) |-> cells[i]]

\* The empty block is read as one without data, and what follows it is left.
ReadsEmptyBlock(rest) ==
    \A revision \in CHUNKED_PACKETS..DBMS_TCP_PROTOCOL_VERSION, m \in Methods :
       LET w == WriteNative(EmptyBlock, revision, m)
       IN w.st = "ok" => ReadNative(revision, m, w.out \o rest) = Ok(<<>>, rest)

VARIABLES options, server,
          link,         \* of the client: start, hello, idle, header, progress, or how it ended
          hello,        \* ServerHello, as negotiated
          srv,          \* of the server: hello, addendum, ready, running, refused, torn
          framed,       \* whether it takes and gives chunks
          session,      \* its settings, a function from names to texts
          changed,      \* a SET has been run
          method,       \* how it compresses what it sends for the query it runs
          toServer, toClient,
          knows,        \* what it learned from the hello
          asked, ran,   \* the queries sent, and those run with the settings in force
          told, heard   \* the packets sent, and those received

linkVars == <<options, link, hello, asked, heard>>
srvVars == <<server, srv, framed, session, changed, method, knows, ran, told>>
sessionVars == <<linkVars, srvVars, toServer, toClient>>

SessionInit ==
    /\ \E p \in Peers : options = p[1] /\ server = p[2]
    /\ link = "start" /\ hello = <<>> /\ asked = <<>> /\ heard = <<>>
    /\ srv = "hello" /\ framed = <<>> /\ changed = FALSE /\ method = "None"
    /\ session = Apply(<<>>, server.settings) /\ knows = <<>> /\ ran = <<>> /\ told = <<>>
    /\ toServer = <<>> /\ toClient = <<>>

Agreed == Smaller(server.revision, DBMS_TCP_PROTOCOL_VERSION)

-----------------------------------------------------------------------------
(* The client.                                                             *)
SendHello ==
    /\ link = "start" /\ link' = "hello"
    /\ toServer' = toServer \o send_hello(options)
    /\ UNCHANGED <<options, hello, asked, heard, srvVars, toClient>>

\* The rest of perform_handshake: the hello, and the addendum for servers that read one.
RecvHello ==
    /\ link = "hello" /\ toClient # <<>>
    /\ \E r \in {receive_hello(<<options.ext.chunked_send, options.ext.chunked_recv>>, toClient)} :
          /\ IF r.st = "ok"
             THEN /\ hello' = r.v /\ link' = "idle"
                  /\ toServer' = IF r.v.revision >= ADDENDUM THEN toServer \o send_addendum(r.v) ELSE toServer
             ELSE link' = (IF r.st = "torn" THEN "torn" ELSE "failed") /\ UNCHANGED <<hello, toServer>>
          /\ toClient' = r.rest
    /\ UNCHANGED <<options, asked, heard, srvVars>>

\* send_query of the io task: the query, then the delimiter, a block without data.
send_data(b) == WThen(Wrote(<<Var(2), Text("")>>), WriteNative(b, hello.revision, options.compression))
Delimiter == send_data(EmptyBlock)
SendQuery(q) ==
    /\ link = "idle" /\ Len(asked) < MaxAsks
    /\ asked' = Append(asked, q)
    /\ \E w \in {WThen(send_query(q, hello.revision, options.compression, hello.settings), Delimiter)} :
          /\ toServer' = IF w.st = "ok" THEN toServer \o w.out ELSE toServer
          /\ link' = CASE w.st = "ok" -> "header" [] w.st = "panic" -> "aborted" [] OTHER -> "failed"
    /\ UNCHANGED <<options, hello, heard, srvVars, toClient>>

\* receive_packet of the io task.  The first block is the header.
Received == IF link = "header" THEN receive_header(hello.revision, options.compression, toClient)
            ELSE receive_packet(hello.revision, options.compression, toClient)
Fatal(packet) == packet.p = "Exception" /\ is_fatal(packet.v["code"][1])
RecvPacket ==
    /\ link \in {"header", "progress"} /\ toClient # <<>>
    /\ \E r \in {Received} :
          /\ IF supports_chunked_recv(hello) # framed.out \/ r.st # "ok"
             THEN /\ link' = IF supports_chunked_recv(hello) = framed.out /\ r.st = "err" THEN "failed" ELSE "torn"
                  /\ UNCHANGED heard
             ELSE /\ heard' = Append(heard, r.v)
                  /\ link' = CASE r.v.p = "Data" -> "progress"
                               [] r.v.p = "Exception" -> IF Fatal(r.v) THEN "failed" ELSE "idle"
                               [] r.v.p = "EndOfStream" -> "idle"
                               [] OTHER -> link
          /\ toClient' = r.rest
    /\ UNCHANGED <<options, hello, asked, srvVars, toServer>>

-----------------------------------------------------------------------------
(* The server.                                                             *)
ClientHelloLayout == << <<"id", VAR, 0>>, <<"name", STR, 0>>, <<"major", VAR, 0>>, <<"minor", VAR, 0>>, <<"revision", VAR, 0>>,
                        <<"database", STR, 0>>, <<"username", STR, 0>>, <<"password", STR, 0>> >>
AddendumLayout == << <<"quota", STR, QUOTA_KEY>>, <<"send", STR, CHUNKED_PACKETS>>, <<"recv", STR, CHUNKED_PACKETS>>,
                     <<"replicas", VAR, VERSIONED_PARALLEL_REPLICAS>> >>
ClientInfoLayout ==
    << <<"kind", 1, 0>>, <<"user", STR, 0>>, <<"initial", STR, 0>>, <<"address", STR, 0>>, <<"time", 8, QUERY_START_TIME>>,
       <<"interface", 1, 0>>, <<"os", STR, 0>>, <<"host", STR, 0>>, <<"client", STR, 0>>,
       <<"major", VAR, 0>>, <<"minor", VAR, 0>>, <<"tcp", VAR, 0>>,
       <<"quota", STR, QUOTA_KEY_IN_CLIENT_INFO>>, <<"depth", VAR, DISTRIBUTED_DEPTH>>, <<"patch", VAR, VERSION_PATCH>>,
       <<"telemetry", 1, OPENTELEMETRY>>, <<"collaborate", VAR, PARALLEL_REPLICAS>>, <<"replicas", VAR, PARALLEL_REPLICAS>>,
       <<"replica", VAR, PARALLEL_REPLICAS>>, <<"number", VAR, QUERY_AND_LINE_NUMBERS>>,
       <<"line", VAR, QUERY_AND_LINE_NUMBERS>>, <<"jwt", 1, JWT_IN_INTERSERVER>> >>
QueryTextLayout == << <<"roles", STR, EXTERNALLY_GRANTED_ROLES>>, <<"secret", STR, INTERSERVER_SECRET>>, <<"stage", VAR, 0>>,
                      <<"compression", 1, 0>>, <<"query", STR, 0>> >>

ServerReadsQuery(wire) ==
    Then(ReadLayout(<< <<"id", VAR, 0>>, <<"qid", STR, 0>> >>, Agreed, wire), LAMBDA start, r0 :
    Then(ReadLayout(ClientInfoLayout, Agreed, r0), LAMBDA info, r1 :
    Then(ServerReadsSettings(r1, Agreed), LAMBDA settings, r2 :
    Then(ReadLayout(QueryTextLayout, Agreed, r2), LAMBDA text, r3 :
    Then(ServerReadsSettings(r3, Agreed), LAMBDA params, r4 :
         Ok([query |-> TextOf(text["query"]), compression |-> text["compression"][1] = 1, settings |-> settings, params |-> params], r4))))))

ServerMethod(compression, settings) ==
    IF ~compression THEN "None"
    ELSE IF "network_compression_method" \in DOMAIN settings /\ settings["network_compression_method"] = "zstd" THEN "ZSTD"
    ELSE "LZ4"

ServerSettings ==
    [i \in 1..3 * Len(server.settings) |->
        LET s == server.settings[(i + 2) \div 3]
        IN CASE i % 3 = 1 -> Text(s[1]) [] i % 3 = 2 -> Var(0) [] i % 3 = 0 -> Text(s[2])]
ServerHello ==
    <<Var(0)>> \o <<Text("ClickHouse"), Var(25), Var(3), Var(server.revision)>>
    \o Since(Agreed, VERSIONED_PARALLEL_REPLICAS, <<Var(4)>>)
    \o <<Text("UTC"), Text("host"), Var(1), Text(server.send), Text(server.recv)>>
    \o <<Var(server.rules)>> \o [i \in 1..2 * server.rules |-> Text("rule")] \o <<Num(8, 0)>>
    \o Since(Agreed, SERVER_SETTINGS, ServerSettings \o <<Text("")>>)
    \o Since(Agreed, QUERY_PLAN_SERIALIZATION, <<Var(1)>>)
    \o Since(Agreed, VERSIONED_CLUSTER_FUNCTION, <<Var(1)>>)

Denied == <<Var(2), Num(4, 516), Text("E"), Text("denied"), Text("trace"), U8(0)>>
SrvHello ==
    /\ srv = "hello" /\ toServer # <<>>
    /\ \E r \in {ReadLayout(ClientHelloLayout, 0, toServer)} :
          /\ srv' = CASE r.st # "ok" -> "torn" [] r.st = "ok" /\ server.refuses -> "refused" [] OTHER -> "addendum"
          /\ knows' = IF r.st = "ok" THEN <<TextOf(r.v["database"]), TextOf(r.v["username"]), TextOf(r.v["password"])>> ELSE knows
          /\ toClient' = toClient \o (IF server.refuses THEN Denied ELSE ServerHello)
          /\ toServer' = r.rest
    /\ UNCHANGED <<linkVars, server, framed, session, changed, method, ran, told>>

\* What the client says of its sending is checked against the mode the server receives in,
\* and what it says of its receiving against the one the server sends in.
SrvAddendum ==
    LET takes(own, asks) == IF IsOptional(own) THEN IsChunked(asks) ELSE IsChunked(own)
        clash(own, asks) == ~IsOptional(own) /\ IsChunked(own) # IsChunked(asks)
    IN /\ srv = "addendum" /\ toServer # <<>>
       /\ \E r \in {ReadLayout(AddendumLayout, Agreed, toServer)} :
             /\ IF r.st = "ok"
                THEN IF clash(server.recv, r.v["send"][1]) \/ clash(server.send, r.v["recv"][1])
                     THEN srv' = "refused" /\ UNCHANGED framed
                     ELSE /\ srv' = "ready"
                          /\ framed' = [in |-> takes(server.recv, r.v["send"][1]), out |-> takes(server.send, r.v["recv"][1])]
                ELSE srv' = "torn" /\ UNCHANGED framed
             /\ toServer' = r.rest
       /\ UNCHANGED <<linkVars, server, session, changed, method, knows, ran, told, toClient>>

\* The query and its delimiter, compressed by the method its settings say.  A SET changes
\* the session.
Delimited(q, rest) ==
    LET inForce == Apply(session, q.settings)
        m == ServerMethod(q.compression, inForce)
    IN Then(ReadNum(VAR, rest), LAMBDA id, r1 :
       Then(read_data(Agreed, m, r1), LAMBDA b, r2 :
            Ok([method |-> m, empty |-> b = <<>>, query |-> [query |-> q.query, settings |-> inForce, params |-> q.params]], r2)))
SrvQuery ==
    /\ srv = "ready" /\ toServer # <<>>
    /\ \E r \in {Then(ServerReadsQuery(toServer), Delimited)} :
          IF supports_chunked_send(hello) = framed.in /\ r.st = "ok" /\ r.v.empty
          THEN /\ srv' = "running" /\ method' = r.v.method /\ toServer' = r.rest
               /\ ran' = Append(ran, r.v.query)
               /\ LET ask == asked[Len(ran) + 1].set
                  IN session' = Apply(session, ask) /\ changed' = (changed \/ ask # <<>>)
          ELSE srv' = "torn" /\ UNCHANGED <<method, toServer, ran, session, changed>>
    /\ UNCHANGED <<linkVars, server, framed, knows, told, toClient>>

\* A packet about the query that runs; blocks are compressed as the query asked.
Headers == {told[i].p : i \in {j \in 1..Len(told) : told[j].n = Len(ran)}}
SrvPacket(x) ==
    LET body == IF x.data /\ method # "None" THEN compress_data_sync(x.body, method).out ELSE x.body
        name == IF x.data \/ x.p \in {"Log", "ProfileEvents"} THEN <<Text("")>> ELSE <<>>
    IN /\ srv = "running" /\ Len(told) < MaxSaid /\ (server.talks \/ x.p = "EndOfStream")
       /\ "Data" \notin Headers => x.p \in {"Data", "Progress", "TableColumns", "Exception", "EndOfStream"} /\ ~x.bare
       /\ told' = Append(told, [p |-> x.p, means |-> x.means, n |-> Len(ran)])
       /\ toClient' = toClient \o <<Var(IdOf(x.p))>> \o name \o body
       /\ srv' = IF x.p \in {"Exception", "EndOfStream"} THEN "ready" ELSE srv
       /\ UNCHANGED <<linkVars, server, framed, session, changed, method, knows, ran, toServer>>

SessionNext == \/ SendHello \/ RecvHello \/ (\E q \in Asks : SendQuery(q)) \/ RecvPacket
               \/ SrvHello \/ SrvAddendum \/ SrvQuery \/ (\E x \in Said : SrvPacket(x))
SessionSpec == SessionInit /\ [][SessionNext]_sessionVars

-----------------------------------------------------------------------------
\* A server never loses its place: it reads the hello, the addendum and every query with
\* the fields its revision has, learns who the client is, and runs the queries that were
\* asked, in their order.
ServerReads == /\ srv # "torn"
               /\ knows # <<>> => knows = <<options.database, options.username, options.password>>
               /\ Len(ran) <= Len(asked) /\ \A i \in 1..Len(ran) : ran[i].query = asked[i].query

\* A query runs with the settings that were asked for it, although the client leaves out
\* those that the server told in its hello: unless the session has been changed since.
SettingsInEffect == ~changed =>
    \A i \in 1..Len(ran) : asked[i].settings # <<>> =>
       \A j \in 1..Len(asked[i].settings[1]) :
          LET s == asked[i].settings[1][j]
          IN ran[i].settings[s.key] = Meaning(to_string(s.value))

\* What one side sends can be framed to suit the other: one of them leaves it open, or both
\* insist on the same.
Suits(sends, receives) == IsOptional(sends) \/ IsOptional(receives) \/ IsChunked(sends) = IsChunked(receives)

\* Once they have met, both sides frame what they send as the other expects it, and what the
\* client insists on is kept.  A server with one mode for both directions and a client that
\* suits it do meet: neither gives up in the handshake.
FramingAgrees ==
    /\ framed # <<>> => supports_chunked_send(hello) = framed.in /\ supports_chunked_recv(hello) = framed.out
    /\ hello # <<>> => /\ ~IsOptional(options.ext.chunked_send) => supports_chunked_send(hello) = IsChunked(options.ext.chunked_send)
                       /\ ~IsOptional(options.ext.chunked_recv) => supports_chunked_recv(hello) = IsChunked(options.ext.chunked_recv)
    /\ srv = "refused" \/ (link = "failed" /\ hello = <<>>) =>
          \/ server.refuses \/ server.send # server.recv
          \/ ~Suits(options.ext.chunked_send, server.recv) \/ ~Suits(server.send, options.ext.chunked_recv)

\* Of the packets of Said that a server sends the client reads every one, in order, as it was
\* meant, in its place after the packets before it, compressed or not.  Before the header
\* these are Progress, TableColumns, an Exception and EndOfStream.
PacketsRead == /\ link # "torn"
               /\ Len(heard) <= Len(told)
               /\ \A i \in 1..Len(heard) : heard[i] = Packet(told[i].p, told[i].means)

\* Parameters "can be passed to bind values during queries" (QueryParams): a query that
\* is sent with some does not end the client.
ParamsReach == link # "aborted"
=============================================================================
