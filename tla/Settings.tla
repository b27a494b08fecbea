------------------------------ MODULE Settings ------------------------------
(***************************************************************************)
(* Query settings, settings.rs: a typed value, its text, its encoding on   *)
(* the stream, and what a server makes of it.  Settings are a sequence of  *)
(* records [key, value, important, custom]; a value is a record [k, v]     *)
(* whose v is an integer (the tenths of a float, 0 or 1 for a Bool) or a   *)
(* text.  Integers are not negative: `as u64` would wrap them.  At the end *)
(* the chunk modes, which a handshake settles as well.                     *)
(***************************************************************************)
EXTENDS Wire, TLC

SETTINGS_AS_STRINGS == 54429    \* DBMS_MIN_REVISION_WITH_SETTINGS_SERIALIZED_AS_STRINGS
SETTING_FLAG_IMPORTANT == 1
SETTING_FLAG_CUSTOM == 2
MaxSetting == 20                \* integers and tenths that a text may name

Value(k, v) == [k |-> k, v |-> v]
Setting(key, value) == [key |-> key, value |-> value, important |-> FALSE, custom |-> FALSE]

\* Display for SettingValue.
to_string(x) ==
    CASE x.k = "Int" -> ToString(x.v)
      [] x.k = "Bool" -> IF x.v = 1 THEN "true" ELSE "false"
      [] x.k = "Float" /\ x.v % 10 = 0 -> ToString(x.v \div 10)
      [] x.k = "Float" /\ x.v % 10 # 0 -> ToString(x.v \div 10) \o "." \o ToString(x.v % 10)
      [] x.k = "String" -> x.v

parse_setting_value(text) ==
    CASE text \in {"true", "TRUE", "1"} -> Value("Bool", 1)
      [] text \in {"false", "FALSE", "0"} -> Value("Bool", 0)
      [] \E n \in 2..MaxSetting : ToString(n) = text ->
            Value("Int", CHOOSE n \in 2..MaxSetting : ToString(n) = text)
      [] \E n \in 0..MaxSetting : to_string(Value("Float", n)) = text /\ n % 10 # 0 ->
            Value("Float", CHOOSE n \in 0..MaxSetting : to_string(Value("Float", n)) = text /\ n % 10 # 0)
      [] OTHER -> Value("String", text)

Find(settings, key) == SelectInSeq(settings, LAMBDA s : s.key = key)
with_setting(settings, key, value) ==
    IF Find(settings, key) = 0 THEN Append(settings, Setting(key, value))
    ELSE [settings EXCEPT ![Find(settings, key)].value = value]

\* From a sequence of pairs: no key is looked for.
SettingsFrom(pairs) == [i \in 1..Len(pairs) |-> Setting(pairs[i][1], pairs[i][2])]

-----------------------------------------------------------------------------
Text(t) == Cell(STR, IF t = "" THEN <<>> ELSE <<t>>)
TextOf(x) == IF x = <<>> THEN "" ELSE x[1]

\* Setting::encode with encode_field_dump.  An error leaves what was written before it.
encode_setting(s, revision) ==
    LET flags == (IF s.important THEN SETTING_FLAG_IMPORTANT ELSE 0) + (IF s.custom THEN SETTING_FLAG_CUSTOM ELSE 0)
        start == <<Text(s.key), Num(VAR, flags)>>
    IN CASE revision <= SETTINGS_AS_STRINGS /\ s.value.k \in {"Int", "Bool"} -> Wrote(<<Text(s.key), Num(VAR, s.value.v)>>)
         [] revision <= SETTINGS_AS_STRINGS /\ s.value.k \notin {"Int", "Bool"} -> WErr(<<>>)
         [] revision > SETTINGS_AS_STRINGS /\ s.custom /\ s.value.k # "String" -> WErr(start)
         [] OTHER -> Wrote(Append(start, Text(to_string(s.value))))
encode_settings(settings, revision) == WEach(LAMBDA s : encode_setting(s, revision), settings)

\* Mutant: a setting the server knows is left out, whatever its value is.
ignore_known(settings, revision, ignore) ==
    encode_settings(SelectSeq(settings, LAMBDA s : Find(ignore, s.key) = 0), revision)

\* encode_with_ignore: what the server said in the handshake is not sent again.
Ignored(s, ignore) == Find(ignore, s.key) # 0 /\ ignore[Find(ignore, s.key)].value = s.value
encode_with_ignore(settings, revision, ignore) ==
    WEach(LAMBDA s : IF Ignored(s, ignore) THEN Wrote(<<>>) ELSE encode_setting(s, revision), settings)

-----------------------------------------------------------------------------
(* The server (external).  It knows a setting by its text; a Bool that is  *)
(* written out is the number.                                              *)
Meaning(t) == CASE t \in {"true", "TRUE"} -> "1" [] t \in {"false", "FALSE"} -> "0" [] OTHER -> t

\* Settings after some pairs were set, in order: the last one of a name counts.
Apply(settings, pairs) ==
    LET named(k) == {i \in DOMAIN pairs : pairs[i][1] = k}
    IN [k \in DOMAIN settings \union {pairs[i][1] : i \in DOMAIN pairs} |->
           IF named(k) = {} THEN settings[k] ELSE pairs[Max(named(k))][2]]

-----------------------------------------------------------------------------
(* Chunk modes (native/protocol.rs).  For each direction the client and    *)
(* the server have a mode, which insists or is optional, and negotiate     *)
(* agrees on one that is not optional, or on none.                         *)
Modes == {"chunked", "chunked_optional", "notchunked", "notchunked_optional"}
DefaultMode == "chunked_optional"
IsChunked(m) == m \in {"chunked", "chunked_optional"}
IsOptional(m) == m \in {"chunked_optional", "notchunked_optional"}
ModeFromStr(text) == IF text \in Modes THEN text ELSE DefaultMode

negotiate(server, client) ==
    LET chunked == IF IsOptional(server) THEN IsChunked(client) ELSE IsChunked(server)
    IN IF ~IsOptional(server) /\ ~IsOptional(client) /\ IsChunked(server) # IsChunked(client) THEN Fail("err", <<>>)
       ELSE Ok(IF chunked THEN "chunked" ELSE "notchunked", <<>>)

supports_chunked_send(hello) == IsChunked(hello.chunked_send)
supports_chunked_recv(hello) == IsChunked(hello.chunked_recv)
=============================================================================
