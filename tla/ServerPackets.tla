--------------------------- MODULE ServerPackets ---------------------------
(***************************************************************************)
(* What a client reads after the handshake (reader.rs, protocol.rs), what  *)
(* a server writes there (external), and the errors that exceptions are    *)
(* turned into (error_codes.rs).  A packet is [p, v]: its name and what it *)
(* says.                                                                   *)
(***************************************************************************)
EXTENDS Handshake, Kinds

CONSTANT ReadNative(_, _, _)    \* NativeFormat::read of a revision and a method

PacketIds == <<"Hello", "Data", "Exception", "Progress", "Pong", "EndOfStream", "ProfileInfo", "Totals", "Extremes",
               "TablesStatusResponse", "Log", "TableColumns", "PartUUIDs", "ReadTaskRequest", "ProfileEvents",
               "MergeTreeAllRangesAnnouncement", "MergeTreeReadTaskRequest", "TimezoneUpdate", "SSHChallenge">>
Packet(p, v) == [p |-> p, v |-> v]
IdOf(p) == SelectInSeq(PacketIds, LAMBDA q : q = p) - 1
from_u64(n) == IF n < Len(PacketIds) THEN Ok(PacketIds[n + 1], <<>>) ELSE Fail("err", <<>>)

-----------------------------------------------------------------------------
(* The bodies.  A number of a layout is read as <<n>>, a text as <<text>>. *)
ProgressLayout ==
    << <<"read_rows", VAR, 0>>, <<"read_bytes", VAR, 0>>, <<"total_rows", VAR, SERVER_LOGS>>,
       <<"total_bytes", VAR, TOTAL_BYTES_IN_PROGRESS>>, <<"written_rows", VAR, CLIENT_WRITE_INFO>>,
       <<"written_bytes", VAR, CLIENT_WRITE_INFO>>, <<"elapsed", VAR, QUERY_TIME_IN_PROGRESS>> >>

read_progress(revision, wire) == ReadLayout(ProgressLayout, revision, wire)

ProfileInfoLayout ==
    << <<"rows", VAR, 0>>, <<"blocks", VAR, 0>>, <<"bytes", VAR, 0>>, <<"limited", 1, 0>>, <<"before_limit", VAR, 0>>,
       <<"calculated", 1, 0>>, <<"aggregated", 1, ROWS_BEFORE_AGGREGATION>>, <<"before_aggregation", VAR, ROWS_BEFORE_AGGREGATION>> >>
read_profile_info(revision, wire) == ReadLayout(ProfileInfoLayout, revision, wire)

read_table_columns(wire) == ReadLayout(<< <<"name", STR, 0>>, <<"description", STR, 0>> >>, 0, wire)

\* A replicated table has a delay; later tables of a name replace earlier ones.
read_table_status(wire) ==
    Then(ReadLayout(<< <<"db", STR, 0>>, <<"table", STR, 0>>, <<"replicated", 1, 0>> >>, 0, wire), LAMBDA f, rest :
    Then(IF f["replicated"][1] # 0 THEN ReadCell(VAR, rest) ELSE Ok(<<0>>, rest), LAMBDA delay, rest2 :
         Ok(<<f["db"], f["table"]>> :> <<f["replicated"], delay>>, rest2)))
read_table_status_response(wire) ==
    Then(ReadNum(VAR, wire), LAMBDA size, rest :
    IF size > MAX_STRING_SIZE THEN Fail("err", rest)
    ELSE Then(ReadMany(size, read_table_status, rest), LAMBDA all, rest2 :
              Ok(FoldLeft(LAMBDA acc, one : one @@ acc, <<>>, all), rest2)))

read_task_request(wire) == LET r == ReadCell(STR, wire) IN IF r.st = "err" THEN Ok(<<>>, r.rest) ELSE r

read_part_uuids(wire) ==
    Then(ReadNum(VAR, wire), LAMBDA len, rest :
    IF len > MAX_STRING_SIZE THEN Fail("err", rest) ELSE ReadMany(len, LAMBDA w : ReadNum(16, w), rest))

\* read_data and read_block: the name of a table, then a block of the native format.
read_data(revision, method, wire) ==
    Then(ReadCell(STR, wire), LAMBDA name, rest : ReadNative(revision, method, rest))

\* LogData::from_block and ProfileEvent::from_block: a record for every row, with the
\* columns it knows; a number that does not convert makes the packet an empty one.
LogColumns == [host_name |-> "text", time |-> "text", time_micro |-> "UInt32", query_id |-> "text", thread_id |-> "UInt64",
               priority |-> "Int8", source |-> "text", text |-> "text"]
ProfileColumns == [host_name |-> "text", current_time |-> "text", thread_id |-> "UInt64", type_code |-> "Int8",
                   name |-> "text", value |-> "Int64"]
events_from_block(columns, b) ==
    LET known == SelectSeq([i \in 1..Len(b.types) |-> i], LAMBDA i : b.types[i][1][1] \in DOMAIN columns)
        fits(i) == columns[b.types[i][1][1]] \in {"text", b.types[i][2].k}
        row(r) == FoldLeft(LAMBDA acc, i : b.types[i][1][1] :> ColumnOf(b, i)[r].x @@ acc, <<>>, known)
    IN IF \E i \in Range(known) : ~fits(i) /\ b.rows > 0 THEN <<>> ELSE [r \in 1..b.rows |-> row(r)]

\* Logs and profile events are never compressed.
read_events(columns, revision, wire) ==
    Then(read_data(revision, "None", wire), LAMBDA b, rest :
         Ok(IF b = <<>> THEN <<>> ELSE events_from_block(columns, b[1]), rest))
\* Mutant: logs are read as data is, compressed.
read_log_compressed(revision, wire) ==
    Then(read_data(revision, "LZ4", wire), LAMBDA b, rest :
         Ok(IF b = <<>> THEN <<>> ELSE events_from_block(LogColumns, b[1]), rest))
read_log_data(revision, wire) == read_events(LogColumns, revision, wire)
read_profile_events(revision, wire) ==
    IF revision < PROFILE_EVENTS_IN_INSERT THEN Fail("err", wire) ELSE read_events(ProfileColumns, revision, wire)

\* receive_packet.  A block without data is ignored; of the last four packets the body
\* is not read.
receive_packet(revision, method, wire) ==
    Then(ReadNum(VAR, wire), LAMBDA n, rest :
    Then(from_u64(n), LAMBDA p, none :
    Then(CASE p \in {"Data", "Totals", "Extremes"} -> read_data(revision, method, rest)
           [] p = "Exception" -> read_exception(rest)
           [] p = "Progress" -> read_progress(revision, rest)
           [] p = "ProfileInfo" -> read_profile_info(revision, rest)
           [] p = "TablesStatusResponse" -> read_table_status_response(rest)
           [] p = "Log" -> read_log_data(revision, rest)
           [] p = "TableColumns" -> read_table_columns(rest)
           [] p = "PartUUIDs" -> read_part_uuids(rest)
           [] p = "ReadTaskRequest" -> read_task_request(rest)
           [] p = "ProfileEvents" -> read_profile_events(revision, rest)
           [] p = "Hello" -> Fail("err", rest)
           [] OTHER -> Ok(<<>>, rest), LAMBDA v, rest2 : Ok(Packet(p, v), rest2))))

\* receive_header, for the answer to an insert: fewer packets, and blocks only native.
receive_header(revision, method, wire) ==
    Then(ReadNum(VAR, wire), LAMBDA n, rest :
    Then(from_u64(n), LAMBDA p, none :
    Then(CASE p = "Data" -> Then(read_data(revision, method, rest), LAMBDA b, r : IF b = <<>> THEN Fail("err", r) ELSE Ok(b, r))
           [] p = "Progress" -> read_progress(revision, rest)
           [] p = "TableColumns" -> read_table_columns(rest)
           [] p = "EndOfStream" -> Ok(<<>>, rest)
           [] p = "Exception" -> read_exception(rest)
           [] OTHER -> Fail("err", rest), LAMBDA v, rest2 : Ok(Packet(p, v), rest2))))

-----------------------------------------------------------------------------
(* The errors.  Of the codes of a server those count that map_error_code   *)
(* has a case for; their names are only a step in between.                 *)
SyntaxCodes == {6, 25, 26, 27, 38, 41, 62, 72, 119, 179, 377, 431, 441, 467, 474}
ProtocolCodes == {40, 89, 95, 96, 99, 100, 101, 102, 104, 192, 193, 194, 195, 209, 210, 217, 497, 902}
DataCodes == {3, 9, 15, 19, 20, 33, 39, 92, 108, 117, 124, 131, 190, 246, 321, 407}
QueryCodes == {8, 10, 16, 34, 35, 36, 43, 46, 47, 48, 49, 50, 53, 57, 60, 73, 81, 82, 93, 115, 158, 159, 161, 162, 164,
               191, 211, 218, 219, 229, 236, 241, 242, 290, 394, 440}
ServerCodes == {109, 110, 111, 112, 113, 114, 173, 239, 240, 243, 745}
map_error_code(code) ==
    CASE code \in SyntaxCodes -> "Syntax" [] code \in ProtocolCodes -> "Protocol" [] code \in DataCodes -> "Data"
      [] code \in QueryCodes -> "Query" [] code \in ServerCodes -> "Server" [] OTHER -> "Unknown"
is_fatal(code) == map_error_code(code) = "Server"
=============================================================================
