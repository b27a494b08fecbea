--------------------------- MODULE ClientBuilder ---------------------------
(***************************************************************************)
(* client/builder.rs, client/options.rs and client/tcp.rs: a caller gives  *)
(* a builder its settings one by one, may have it verified in between, and *)
(* builds a client or the manager of a pool, which connects again and      *)
(* again.  Setters take the builder and return it: a verification that     *)
(* fails leaves the caller without one.                                    *)
(*                                                                         *)
(* A destination is [kind, text, addrs]: its text is what is between the   *)
(* colons; addrs is what the name service answers for a name (nothing: it  *)
(* does not know the name), or the addresses themselves.                   *)
(***************************************************************************)
EXTENDS Settings

CONSTANTS Destinations, Domains, OptionSets, Exts, Credentials, BuilderSettings,
          MaxCalls      \* how many setters a caller uses

VARIABLES builder,      \* ClientBuilder
          given,        \* what the caller asked for, and the setters used after a verification
          owner,        \* who has the builder: "caller", "pool", or "gone"
          calls,
          dialled       \* the client that was connected last: address, domain, options, settings

builderVars == <<builder, given, owner, calls, dialled>>

ExtDefault == [arrow |-> <<>>, chunked_send |-> DefaultMode, chunked_recv |-> DefaultMode, fast_mode_size |-> <<>>]
OptionsDefault == [username |-> "default", password |-> "", database |-> "", domain |-> <<>>, ipv4_only |-> FALSE,
                   use_tls |-> FALSE, compression |-> "LZ4", ext |-> ExtDefault]
BuilderNew == [destination |-> <<>>, options |-> OptionsDefault, settings |-> <<>>, verified |-> FALSE]

\* A ClientOptions has the fields of the struct; its domain is an Option.
IsOptions(o) == /\ o = [f \in DOMAIN OptionsDefault |-> o[f]]
                /\ o.domain = <<>> \/ o.domain = <<o.domain[1]>>
                /\ o.use_tls \in BOOLEAN /\ o.ipv4_only \in BOOLEAN
ASSUME OptionAssumption == \A o \in OptionSets : IsOptions(o)
\* Addresses are a Vec<SocketAddr>, or one.
ASSUME AddrAssumption == \A d \in Destinations : /\ DOMAIN d.addrs = 1..Len(d.addrs)
                                                 /\ Len(d.addrs) \in Nat

-----------------------------------------------------------------------------
(* ClientOptions and Extension, set before they are given to a builder.    *)
options_domain(o, d) == [o EXCEPT !.domain = <<d>>]
options_ipv4_only(o, x) == [o EXCEPT !.ipv4_only = x]
options_use_tls(o, x) == [o EXCEPT !.use_tls = x]
options_compression(o, m) == [o EXCEPT !.compression = m]
options_extension(o, e) == [o EXCEPT !.ext = e]
with_chunked_modes(e, send, recv) == [e EXCEPT !.chunked_send = send, !.chunked_recv = recv]
with_fast_mode_size(e, n) == [e EXCEPT !.fast_mode_size = <<n>>]

-----------------------------------------------------------------------------
(* The setters.  Some make the next build verify again, some do not.       *)
with_destination(b, d) == [b EXCEPT !.destination = <<d>>, !.verified = FALSE]
with_options(b, o) == [b EXCEPT !.options = o, !.verified = FALSE]
with_ext(b, e) == [b EXCEPT !.options.ext = e]
with_tls(b, x) == IF b.options.use_tls = x THEN b ELSE [b EXCEPT !.options.use_tls = x, !.verified = FALSE]
with_ipv4_only(b, x) == [b EXCEPT !.options.ipv4_only = x]
with_domain(b, d) == [b EXCEPT !.options.domain = <<d>>, !.verified = FALSE]
with_username(b, u) == [b EXCEPT !.options.username = u]
with_password(b, p) == [b EXCEPT !.options.password = p]
with_database(b, d) == [b EXCEPT !.options.database = d]
with_compression(b, m) == [b EXCEPT !.options.compression = m]
builder_with_settings(b, s) == [b EXCEPT !.settings = <<s>>]
builder_with_setting(b, key, value) ==
    [b EXCEPT !.settings = <<with_setting(IF b.settings = <<>> THEN <<>> ELSE b.settings[1], key, value)>>]

-----------------------------------------------------------------------------
(* Name resolution (client/tcp.rs).                                        *)
Direct(d) == d.kind \in {"SocketAddrs", "SocketAddr"}

\* The addresses of version 4, in order: the k-th is the one up to which there are k.
OnlyV4(addrs) ==
    LET v4 == {i \in 1..Len(addrs) : addrs[i].v4}
        UpTo(i) == Cardinality({j \in v4 : j <= i})
    IN [k \in 1..Cardinality(v4) |-> addrs[CHOOSE i \in v4 : UpTo(i) = k]]
resolve(d, ipv4_only) ==
    CASE Direct(d) -> Ok(d.addrs, <<>>)
      [] ~Direct(d) /\ d.addrs = <<>> -> Fail("err", <<>>)
      [] OTHER -> Ok(IF ipv4_only THEN OnlyV4(d.addrs) ELSE d.addrs, <<>>)
domain(d) == IF Direct(d) THEN (IF d.addrs = <<>> THEN "" ELSE d.addrs[1].ip) ELSE d.text[1]

\* Mutant: the domain is taken from the destination after it was resolved.
verify_swapped(b) ==
    IF b.destination = <<>> THEN Fail("err", <<>>)
    ELSE Then(resolve(b.destination[1], b.options.ipv4_only), LAMBDA addrs, none :
         IF addrs = <<>> THEN Fail("err", <<>>)
         ELSE Ok([b EXCEPT !.options.domain = IF b.options.use_tls /\ @ = <<>> THEN <<addrs[1].ip>> ELSE @,
                           !.destination = <<[kind |-> "SocketAddrs", text |-> <<>>, addrs |-> addrs]>>,
                           !.verified = TRUE], <<>>))

verify(b) ==
    IF b.destination = <<>> THEN Fail("err", <<>>)
    ELSE Then(resolve(b.destination[1], b.options.ipv4_only), LAMBDA addrs, none :
         LET infer == b.options.use_tls /\ b.options.domain = <<>>
             inferred == domain(b.destination[1])
         IN IF addrs = <<>> \/ (infer /\ inferred = "") THEN Fail("err", <<>>)
            ELSE Ok([b EXCEPT !.options.domain = IF infer THEN <<inferred>> ELSE @,
                              !.destination = <<[kind |-> "SocketAddrs", text |-> <<>>, addrs |-> addrs]>>,
                              !.verified = TRUE], <<>>))

\* Client::connect, and the socket or TLS stream to the first address.
connect_socket(addrs) == IF addrs = <<>> THEN Fail("err", <<>>) ELSE Ok(addrs[1], <<>>)
connect_tls(addrs, dom) ==
    Then(connect_socket(addrs), LAMBDA a, none :
         Ok([addr |-> a, domain |-> <<IF dom = <<>> THEN a.ip ELSE dom[1]>>], <<>>))
connect_inner(addrs, options) ==
    IF options.use_tls THEN connect_tls(addrs, options.domain)
    ELSE Then(connect_socket(addrs), LAMBDA a, none : Ok([addr |-> a, domain |-> <<>>], <<>>))
client_connect(b) ==
    Then(resolve(b.destination[1], b.options.ipv4_only), LAMBDA addrs, none :
    Then(connect_inner(addrs, b.options), LAMBDA c, none2 :
         Ok([to |-> c, options |-> b.options, settings |-> b.settings], <<>>)))
build(b) == Then(IF b.verified THEN Ok(b, <<>>) ELSE verify(b), LAMBDA v, none : client_connect(v))

-----------------------------------------------------------------------------
BuilderInit == /\ builder = BuilderNew /\ owner = "caller" /\ calls = 0 /\ dialled = <<>>
               /\ given = [destination |-> <<>>, options |-> OptionsDefault, verified |-> FALSE, late |-> {}]

Late(setter) == given.late \union (IF given.verified THEN {setter} ELSE {})
Setter(name, b, g) ==
    /\ owner = "caller" /\ calls < MaxCalls
    /\ calls' = calls + 1 /\ builder' = b
    /\ given' = [g EXCEPT !.late = Late(name)]
    /\ UNCHANGED <<owner, dialled>>

WithDestination(d) == Setter("destination", with_destination(builder, d), [given EXCEPT !.destination = <<d>>])
WithOptions(o) == Setter("options", with_options(builder, o), [given EXCEPT !.options = o])
WithExt(e) == Setter("ext", with_ext(builder, e), [given EXCEPT !.options.ext = e])
WithTls(x) == Setter("tls", with_tls(builder, x), [given EXCEPT !.options.use_tls = x])
WithIpv4Only(x) == Setter("ipv4", with_ipv4_only(builder, x), [given EXCEPT !.options.ipv4_only = x])
WithDomain(d) == Setter("domain", with_domain(builder, d), [given EXCEPT !.options.domain = <<d>>])
WithCredentials(c) == Setter("credentials", with_database(with_password(with_username(builder, c[1]), c[2]), c[3]),
                             [given EXCEPT !.options.username = c[1], !.options.password = c[2], !.options.database = c[3]])
WithCompression(m) == Setter("compression", with_compression(builder, m), [given EXCEPT !.options.compression = m])
WithSettings(s) == Setter("settings", builder_with_settings(builder, s), given)
WithSetting(s) == Setter("settings", builder_with_setting(builder, s.key, s.value), given)

Verify == /\ owner = "caller" /\ ~builder.verified
          /\ builder' = IF verify(builder).st = "ok" THEN verify(builder).v ELSE builder
          /\ owner' = IF verify(builder).st = "ok" THEN owner ELSE "gone"
          /\ given' = [given EXCEPT !.verified = TRUE]
          /\ UNCHANGED <<calls, dialled>>

Build == /\ owner = "caller"
         /\ owner' = "gone"
         /\ dialled' = IF build(builder).st = "ok" THEN <<build(builder).v>> ELSE <<>>
         /\ UNCHANGED <<builder, given, calls>>

\* ConnectionManager::try_new_with_builder verifies, connect builds a clone.
PoolNew == /\ owner = "caller"
           /\ builder' = IF verify(builder).st = "ok" THEN verify(builder).v ELSE builder
           /\ owner' = IF verify(builder).st = "ok" THEN "pool" ELSE "gone"
           /\ UNCHANGED <<given, calls, dialled>>
PoolConnect == /\ owner = "pool"
               /\ dialled' = IF build(builder).st = "ok" THEN <<build(builder).v>> ELSE <<>>
               /\ UNCHANGED <<builder, given, owner, calls>>

BuilderNext ==
    \/ \E d \in Destinations : WithDestination(d)
    \/ \E o \in OptionSets : WithOptions(o)
    \/ \E e \in Exts : WithExt(e)
    \/ \E x \in BOOLEAN : WithTls(x) \/ WithIpv4Only(x)
    \/ \E d \in Domains : WithDomain(d)
    \/ \E c \in Credentials : WithCredentials(c)
    \/ \E m \in Methods : WithCompression(m)
    \/ \E s \in BuilderSettings : WithSettings(<<s>>) \/ WithSetting(s)
    \/ Verify \/ Build \/ PoolNew \/ PoolConnect
BuilderSpec == BuilderInit /\ [][BuilderNext]_builderVars

-----------------------------------------------------------------------------
\* A client dials an address of the destination given last, of version 4 if that was
\* asked for and the destination is a name, and under TLS names the domain given, or the
\* one of that destination, whatever was verified before: as long as the setters that
\* came after a verification are not those that build does not look at again.
DialsAsGiven == \A c \in {dialled[i] : i \in 1..Len(dialled)} :
    LET d == given.destination[1]
        o == given.options
    IN /\ c.to.addr \in Range(d.addrs)
       /\ c.options.use_tls = o.use_tls /\ c.options.compression = o.compression /\ c.options.ext = o.ext
       /\ given.late \intersect {"ipv4", "options"} = {} /\ o.ipv4_only /\ ~Direct(d) => c.to.addr.v4
       /\ given.late \intersect {"destination", "tls", "options"} = {} =>
             c.to.domain = IF ~o.use_tls THEN <<>> ELSE IF o.domain # <<>> THEN o.domain ELSE <<domain(d)>>
=============================================================================
