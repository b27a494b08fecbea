------------------------------ MODULE MCClient ------------------------------
(* The samples of the native and of the arrow client, the peers, queries    *)
(* and packets of a session, and what a builder may be given: names with    *)
(* addresses of both versions, addresses, a name that nobody knows.         *)
EXTENDS Client, MCClientSession

NativeSamples == INSTANCE SampleTables
ArrowSamples == INSTANCE SampleBatches
MCBlocks == NativeSamples!AllBlocks
MCTables == NativeSamples!AllTables
MCRawValues == NativeSamples!AllRawValues
MCDays == {-1, 0, 1, 29, 30, 31}
MCTimes == NativeSamples!AllTimes
MCMantissas == NativeSamples!AllMantissas
MCExponents == {-2, 0, 2, 5}
MCSamples == ArrowSamples!AllSamples
MCOptions == ArrowSamples!AllArrowOptions

Addr(ip, v4) == [ip |-> ip, v4 |-> v4]
Named(kind, text, addrs) == [kind |-> kind, text |-> text, addrs |-> addrs]
MCDestinations ==
    {Named("HostPort", <<"one">>, <<Addr("::1", FALSE), Addr("127.0.0.1", TRUE)>>),
     Named("Endpoint", <<"two", "9000">>, <<Addr("::2", FALSE)>>),
     Named("Endpoint", <<"nowhere", "9000">>, <<>>),
     Named("Endpoint", <<"", "9000">>, <<Addr("127.0.0.1", TRUE)>>),
     Named("SocketAddr", <<>>, <<Addr("::3", FALSE)>>),
     Named("SocketAddrs", <<>>, <<>>)}
MCExts == {with_fast_mode_size(with_chunked_modes(ExtDefault, "notchunked", "notchunked"), 9)}
MCOptionSets == {options_compression(options_extension(options_use_tls(options_ipv4_only(
                     options_domain(OptionsDefault, "three"), TRUE), TRUE), ExtDefault), "ZSTD")}
MCCredentials == { <<"u", "p", "db">> }
MCBuilderSettings == {Setting("threads", Value("Int", n)) : n \in {1, 2}}

\* Integers with digits at the first places, and at the ninth and tenth, where writers and
\* readers stop.
MCUints == {[i \in 1..10 |-> IF i \in places THEN digit ELSE 0] : places \in SUBSET {1, 2, 9, 10}, digit \in {1, 127}}
=============================================================================
