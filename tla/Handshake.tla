----------------------------- MODULE Handshake ------------------------------
(***************************************************************************)
(* The packets of a connection apart from blocks of data: hello, addendum  *)
(* and query of the client (writer.rs, client_info.rs), the hello and the  *)
(* packets of the server (reader.rs), and what the hello negotiates        *)
(* (protocol.rs).  A packet is a sequence of cells; which fields it has    *)
(* depends on the revision.  A LAYOUT is the fields that a reader takes,   *)
(* in order: <<name, width, the revision since which it is there>>.        *)
(***************************************************************************)
EXTENDS Settings

CLIENT_INFO == 54032
SERVER_TIMEZONE == 54058
QUOTA_KEY_IN_CLIENT_INFO == 54060
DISPLAY_NAME == 54372
VERSION_PATCH == 54401
SERVER_LOGS == 54406
CLIENT_WRITE_INFO == 54420
INTERSERVER_SECRET == 54441
OPENTELEMETRY == 54442
DISTRIBUTED_DEPTH == 54448
QUERY_START_TIME == 54449
PARALLEL_REPLICAS == 54453
PROFILE_EVENTS_IN_INSERT == 54456
ADDENDUM == 54458
QUOTA_KEY == 54458
PARAMETERS == 54459
QUERY_TIME_IN_PROGRESS == 54460
PASSWORD_COMPLEXITY_RULES == 54461
INTERSERVER_SECRET_V2 == 54462
TOTAL_BYTES_IN_PROGRESS == 54463
ROWS_BEFORE_AGGREGATION == 54469
CHUNKED_PACKETS == 54470
VERSIONED_PARALLEL_REPLICAS == 54471
EXTERNALLY_GRANTED_ROLES == 54472
SERVER_SETTINGS == 54474
QUERY_AND_LINE_NUMBERS == 54475
JWT_IN_INTERSERVER == 54476
QUERY_PLAN_SERIALIZATION == 54477
VERSIONED_CLUSTER_FUNCTION == 54479
DBMS_TCP_PROTOCOL_VERSION == VERSIONED_CLUSTER_FUNCTION

Smaller(a, b) == IF a < b THEN a ELSE b
Since(revision, r, cells) == IF revision >= r THEN cells ELSE <<>>
U8(n) == Num(1, n)
Var(n) == Num(VAR, n)

\* A field joins those read before it.
WithField(fields, name, x) == [k \in DOMAIN fields \union {name} |-> IF k = name THEN x ELSE fields[k]]

\* The fields of a layout that a revision has, read into a function from their names.
ReadLayout(layout, revision, wire) ==
    LET read[n \in 0..Len(layout)] ==
            IF n = 0 THEN Ok(<<>>, wire)
            ELSE Then(read[n - 1], LAMBDA fields, rest :
                      IF revision < layout[n][3] THEN Ok(fields, rest)
                      ELSE Then(ReadCell(layout[n][2], rest), LAMBDA x, rest2 : Ok(WithField(fields, layout[n][1], x), rest2)))
    IN read[Len(layout)]

-----------------------------------------------------------------------------
(* Settings in a hello and in a query: one after another, up to an empty   *)
(* key.                                                                    *)
AtEmptyKey(wire) == wire # <<>> /\ Head(wire).w = STR /\ Head(wire).x = <<>>
UpToEmptyKey(Read(_), wire) ==
    LET read[n \in 0..Len(wire)] ==
            IF n = 0 THEN Ok(<<>>, wire)
            ELSE Then(read[n - 1], LAMBDA all, rest :
                      IF AtEmptyKey(rest) THEN Ok(all, rest)
                      ELSE Then(Read(rest), LAMBDA one, rest2 : Ok(Append(all, one), rest2)))
    IN Then(read[Len(wire)], LAMBDA all, rest : Then(ReadCell(STR, rest), LAMBDA key, rest2 : Ok(all, rest2)))

\* Settings::decode, with Setting::decode.
decode_setting(wire) ==
    Then(read_string(wire), LAMBDA key, r1 :
    Then(ReadNum(VAR, r1), LAMBDA flags, r2 :
    Then(read_string(r2), LAMBDA text, r3 :
    LET custom == (flags \div SETTING_FLAG_CUSTOM) % 2 = 1
        t == TextOf(text)
    IN Ok([key |-> TextOf(key), important |-> flags % 2 = 1, custom |-> custom,
           value |-> IF custom THEN Value("String", t) ELSE parse_setting_value(t)], r3))))
decode_settings(wire) == UpToEmptyKey(decode_setting, wire)

\* The server reads them by its own rules (external).
ServerReadsSetting(wire, revision) ==
    Then(ReadCell(STR, wire), LAMBDA key, r1 :
    Then(ReadNum(VAR, r1), LAMBDA n, r2 :
    Then(IF revision > SETTINGS_AS_STRINGS THEN ReadCell(STR, r2) ELSE Ok(<<ToString(n)>>, r2), LAMBDA text, r3 :
         Ok(<<TextOf(key), Meaning(TextOf(text))>>, r3))))
ServerReadsSettings(wire, revision) == UpToEmptyKey(LAMBDA w : ServerReadsSetting(w, revision), wire)

-----------------------------------------------------------------------------
(* The client's packets.                                                   *)
send_hello(options) ==
    <<Var(0), Text("ClickHouseArrow Rust"), Var(0), Var(1), Var(DBMS_TCP_PROTOCOL_VERSION),
      Text(options.database), Text(options.username), Text(options.password)>>

\* Mutant: the version of parallel replicas goes to every server that knows chunking.
send_addendum_early(hello) ==
    <<Text(""), Text(hello.chunked_send), Text(hello.chunked_recv), Var(4)>>

\* The addendum repeats what was negotiated.
send_addendum(hello) ==
    Since(hello.revision, QUOTA_KEY, <<Text("")>>)
    \o Since(hello.revision, CHUNKED_PACKETS, <<Text(hello.chunked_send), Text(hello.chunked_recv)>>)
    \o Since(hello.revision, VERSIONED_PARALLEL_REPLICAS, <<Var(4)>>)

\* ClientInfo::write of the default: an initial query without telemetry.
write_client_info(revision) ==
    <<U8(1), Text(""), Text(""), Text("0.0.0.0:0")>>
    \o Since(revision, QUERY_START_TIME, <<Num(8, 0)>>)
    \o <<U8(1), Text(""), Text("localhost"), Text("ClickHouseArrow"), Var(0), Var(1), Var(DBMS_TCP_PROTOCOL_VERSION)>>
    \o Since(revision, QUOTA_KEY_IN_CLIENT_INFO, <<Text("")>>)
    \o Since(revision, DISTRIBUTED_DEPTH, <<Var(1)>>)
    \o Since(revision, VERSION_PATCH, <<Var(0)>>)
    \o Since(revision, OPENTELEMETRY, <<U8(0)>>)
    \o Since(revision, PARALLEL_REPLICAS, <<Var(0), Var(0), Var(0)>>)
    \o Since(revision, QUERY_AND_LINE_NUMBERS, <<Var(0), Var(0)>>)
    \o Since(revision, JWT_IN_INTERSERVER, <<U8(0)>>)

\* ClientMetadata::compression_settings.
compression_settings(method) ==
    IF method = "ZSTD" THEN SettingsFrom(<< <<"network_compression_method", Value("String", "zstd")>>,
                                            <<"network_zstd_compression_level", Value("String", "1")>> >>)
    ELSE <<>>

\* From<QueryParams> for Settings collects into Settings, whose from_iter collects into
\* Settings: the stack overflows, for every number of parameters.
settings_from_params(params) == WPanic(<<>>)

\* A query is [qid, query, settings, params]; settings and params may be absent (<<>>).
\* `ignore` are the settings the server told, if it did.  An error or the end of the
\* process leaves the start of the packet in the writer's buffer.
send_query(q, revision, method, ignore) ==
    WThen(Wrote(<<Var(1), Text(q.qid)>> \o Since(revision, CLIENT_INFO, write_client_info(revision))),
    WThen(encode_settings(compression_settings(method), revision),
    WThen(CASE q.settings = <<>> -> Wrote(<<>>)
            [] q.settings # <<>> /\ ignore # <<>> -> encode_with_ignore(q.settings[1], revision, ignore[1])
            [] OTHER -> encode_settings(q.settings[1], revision),
    WThen(Wrote(<<Text("")>>
                \o Since(revision, EXTERNALLY_GRANTED_ROLES, <<Text("")>>)
                \o Since(revision, INTERSERVER_SECRET, <<Text("")>>)
                \o <<Var(2), U8(IF method = "None" THEN 0 ELSE 1), Text(q.query)>>),
    IF revision < PARAMETERS THEN Wrote(<<>>)
    ELSE WThen(IF q.params = <<>> THEN Wrote(<<>>) ELSE settings_from_params(q.params[1]), Wrote(<<Text("")>>))))))

-----------------------------------------------------------------------------
(* The server's hello.                                                     *)
ServerHelloStart == << <<"name", STR, 0>>, <<"major", VAR, 0>>, <<"minor", VAR, 0>>, <<"revision", VAR, 0>> >>
ServerHelloVersion ==
    << <<"replicas", VAR, VERSIONED_PARALLEL_REPLICAS>>, <<"timezone", STR, SERVER_TIMEZONE>>,
       <<"display", STR, DISPLAY_NAME>>, <<"patch", VAR, VERSION_PATCH>>,
       <<"send", STR, CHUNKED_PACKETS>>, <<"recv", STR, CHUNKED_PACKETS>> >>
ServerHelloEnd == << <<"plan", VAR, QUERY_PLAN_SERIALIZATION>>, <<"cluster", VAR, VERSIONED_CLUSTER_FUNCTION>> >>

\* Mutant: the client's modes change places.
NegotiatedSwapped(revision, fields, modes) ==
    IF revision < CHUNKED_PACKETS THEN Ok(<<DefaultMode, DefaultMode>>, <<>>)
    ELSE Then(negotiate(ModeFromStr(fields["send"][1]), modes[2]), LAMBDA s, none :
         Then(negotiate(ModeFromStr(fields["recv"][1]), modes[1]), LAMBDA r, none2 : Ok(<<s, r>>, <<>>)))

\* Before chunking there is nothing to negotiate, and the modes are the default ones.
Negotiated(revision, fields, modes) ==
    IF revision < CHUNKED_PACKETS THEN Ok(<<DefaultMode, DefaultMode>>, <<>>)
    ELSE Then(negotiate(ModeFromStr(fields["send"][1]), modes[1]), LAMBDA s, none :
         Then(negotiate(ModeFromStr(fields["recv"][1]), modes[2]), LAMBDA r, none2 : Ok(<<s, r>>, <<>>)))

read_rules(revision, wire) ==
    IF revision < PASSWORD_COMPLEXITY_RULES THEN Ok(<<>>, wire)
    ELSE Then(ReadNum(VAR, wire), LAMBDA n, rest : ReadMany(2 * n, read_string, rest))

read_hello(modes, wire) ==
    Then(ReadLayout(ServerHelloStart, 0, wire), LAMBDA start, r1 :
    LET revision == Smaller(start["revision"][1], DBMS_TCP_PROTOCOL_VERSION)
    IN Then(ReadLayout(ServerHelloVersion, revision, r1), LAMBDA fields, r2 :
       Then(Negotiated(revision, fields, modes), LAMBDA agreed, none :
       Then(read_rules(revision, r2), LAMBDA rules, r3 :
       Then(ReadLayout(<< <<"nonce", 8, INTERSERVER_SECRET_V2>> >>, revision, r3), LAMBDA nonce, r4 :
       Then(IF revision >= SERVER_SETTINGS THEN decode_settings(r4) ELSE Ok(<<>>, r4), LAMBDA settings, r5 :
       Then(ReadLayout(ServerHelloEnd, revision, r5), LAMBDA last, r6 :
            Ok([revision |-> revision, chunked_send |-> agreed[1], chunked_recv |-> agreed[2],
                settings |-> IF revision >= SERVER_SETTINGS THEN <<settings>> ELSE <<>>], r6))))))))

ExceptionLayout == << <<"code", 4, 0>>, <<"name", STR, 0>>, <<"message", STR, 0>>, <<"trace", STR, 0>>, <<"nested", 1, 0>> >>
read_exception(wire) == ReadLayout(ExceptionLayout, 0, wire)

receive_hello(modes, wire) ==
    Then(ReadNum(VAR, wire), LAMBDA id, rest :
         CASE id = 0 -> read_hello(modes, rest)
           [] id = 2 -> Then(read_exception(rest), LAMBDA e, rest2 : Fail("err", rest2))
           [] OTHER -> Fail("err", rest))
=============================================================================
