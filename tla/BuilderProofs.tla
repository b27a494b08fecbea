---------------------------- MODULE BuilderProofs ----------------------------
(***************************************************************************)
(* Proofs about module ClientBuilder, for every set of destinations,       *)
(* domains and options and any number of setters and verifications:        *)
(*                                                                         *)
(*   AlwaysAsGiven     what is dialled is what was asked for last          *)
(*                                                                         *)
(* What a builder holds is what the caller gave it (ToldTo), or what a     *)
(* verification made of that (ResolvedFrom, NamedFrom).  Setters come      *)
(* before and after verifications, and a client is built from a            *)
(* destination that may have been resolved more than once.                 *)
(***************************************************************************)
EXTENDS ClientBuilder, FiniteSetTheorems, TLAPS

USE OptionAssumption, AddrAssumption

-----------------------------------------------------------------------------
(* Types.                                                                  *)
IsBuilder(b) == /\ b = [destination |-> b.destination, options |-> b.options,
                        settings |-> b.settings, verified |-> b.verified]
                /\ IsOptions(b.options) /\ b.verified \in BOOLEAN
IsGiven(g) == /\ g = [destination |-> g.destination, options |-> g.options,
                      verified |-> g.verified, late |-> g.late]
              /\ IsOptions(g.options) /\ g.verified \in BOOLEAN
              /\ g.destination = <<>> \/ \E d \in Destinations : g.destination = <<d>>
Shapes == IsBuilder(builder) /\ IsGiven(given)

\* What setting one option leaves alone.
OtherOptions(o, p, field) ==
    /\ field # "use_tls" => p.use_tls = o.use_tls
    /\ field # "ipv4_only" => p.ipv4_only = o.ipv4_only
    /\ field # "compression" => p.compression = o.compression
    /\ field # "ext" => p.ext = o.ext
    /\ field # "domain" => p.domain = o.domain

\* ClientOptions is a struct: setting one field keeps the others.
OptionFields == {"username", "password", "database", "domain", "ipv4_only", "use_tls", "compression", "ext"}
PutsField(o, field, v, p) == p = [o EXCEPT ![field] = v]

LEMMA FieldSet ==
  ASSUME NEW o, IsOptions(o), NEW field \in OptionFields, NEW v, NEW p, PutsField(o, field, v, p),
         field = "domain" => v = <<>> \/ v = <<v[1]>>,
         field \in {"use_tls", "ipv4_only"} => v \in BOOLEAN
  PROVE  IsOptions(p) /\ p[field] = v /\ OtherOptions(o, p, field)
<1>1. DOMAIN OptionsDefault = OptionFields
  BY DEF OptionsDefault, OptionFields
<1>2. o = [f \in OptionFields |-> o[f]]
  BY <1>1 DEF IsOptions
<1>3. /\ p = [f \in OptionFields |-> p[f]] /\ p[field] = v
      /\ \A f \in OptionFields \ {field} : p[f] = o[f]
  BY <1>2 DEF PutsField
<1>4. OtherOptions(o, p, field)
  BY <1>3 DEF OtherOptions, OptionFields
<1>5. p.domain = <<>> \/ p.domain = <<p.domain[1]>>
  <2>1. CASE field = "domain"
    BY <1>3, <2>1
  <2>2. CASE field # "domain"
    BY <1>4, <2>2 DEF IsOptions, OtherOptions
  <2> QED
    BY <2>1, <2>2
<1>6. p.use_tls \in BOOLEAN /\ p.ipv4_only \in BOOLEAN
  BY <1>3, <1>4 DEF IsOptions, OtherOptions
<1>7. IsOptions(p)
  BY <1>1, <1>3, <1>5, <1>6 DEF IsOptions
<1> QED
  BY <1>3, <1>4, <1>7

\* What is known of a builder b, of what the caller gave it, and of whether a verification
\* may have changed it (seen).  The options a verification does not touch:
ToldTo(b, g) == /\ b.options.use_tls = g.options.use_tls
                /\ b.options.ipv4_only = g.options.ipv4_only
                /\ b.options.compression = g.options.compression
                /\ b.options.ext = g.options.ext

\* A destination that is not the one given is what a verification put in its place: addresses
\* of that destination, and of version 4 if that was asked for.
ResolvedFrom(b, g, seen) ==
    b.destination # g.destination =>
        LET addrs == b.destination[1].addrs
            asked == g.destination[1]
        IN /\ seen
           /\ Len(b.destination) = 1 /\ Len(g.destination) = 1 /\ Direct(b.destination[1])
           /\ addrs # <<>> /\ DOMAIN addrs = 1..Len(addrs) /\ Len(addrs) \in Nat
           /\ Range(addrs) \subseteq Range(asked.addrs)
           /\ g.late \intersect {"ipv4", "options"} = {} /\ g.options.ipv4_only /\ ~Direct(asked) =>
                 \A a \in Range(addrs) : a.v4

\* The domain is the one given, or the one that a verification took from the destination.
InTime(g) == g.late \intersect {"destination", "tls", "options"} = {}
NamedFrom(b, g, seen) ==
    InTime(g) => \/ b.options.domain = g.options.domain
                 \/ /\ seen /\ g.options.domain = <<>> /\ g.options.use_tls
                    /\ b.options.domain = <<domain(g.destination[1])>>
NamedWhenVerified(b, g, seen) ==
    /\ b.verified => /\ seen /\ b.destination # <<>>
                     /\ b.options.use_tls => b.options.domain # <<>>
    /\ b.destination # g.destination /\ b.options.use_tls /\ InTime(g) => b.options.domain # <<>>

KnownOf(b, g, seen) ==
    ToldTo(b, g) /\ ResolvedFrom(b, g, seen) /\ NamedFrom(b, g, seen) /\ NamedWhenVerified(b, g, seen)

Seen == given.verified \/ owner = "pool"
BuilderInv == KnownOf(builder, given, Seen)


-----------------------------------------------------------------------------
(* Setters.                                                                *)

LEMMA Start == BuilderInit => Shapes /\ BuilderInv
<1> SUFFICES ASSUME BuilderInit PROVE Shapes /\ BuilderInv
  OBVIOUS
<1>1. IsOptions(OptionsDefault)
  BY DEF IsOptions, OptionsDefault
<1>2. /\ builder.options = OptionsDefault /\ given.options = OptionsDefault
      /\ builder.destination = <<>> /\ given.destination = <<>>
      /\ builder.verified = FALSE /\ given.verified = FALSE
  BY DEF BuilderInit, BuilderNew
<1>3. Shapes
  BY <1>1, <1>2 DEF Shapes, IsBuilder, IsGiven, BuilderInit, BuilderNew
<1>4. BuilderInv
  BY <1>2 DEF BuilderInv, KnownOf, ToldTo, ResolvedFrom, NamedFrom, NamedWhenVerified
<1> QED
  BY <1>3, <1>4

\* What every setter does beside its own assignment: late says that it came after a
\* verification.
SetterFrame(name) ==
    /\ owner' = owner /\ dialled' = dialled /\ owner = "caller"
    /\ given'.verified = given.verified
    /\ given'.late = given.late \union (IF given.verified THEN {name} ELSE {})

\* A setter of one option gives the builder and the caller's record the same value.
SetsOption(name, field) ==
    /\ SetterFrame(name)
    /\ builder'.destination = builder.destination /\ given'.destination = given.destination
    /\ OtherOptions(builder.options, builder'.options, field)
    /\ OtherOptions(given.options, given'.options, field)
    /\ builder'.verified => builder.verified
    /\ field = "use_tls" => /\ builder'.options.use_tls = given'.options.use_tls /\ name = "tls"
                            /\ builder'.verified => builder'.options = builder.options
    /\ field = "ipv4_only" => builder'.options.ipv4_only = given'.options.ipv4_only /\ name = "ipv4"
    /\ field = "compression" => builder'.options.compression = given'.options.compression
    /\ field = "ext" => builder'.options.ext = given'.options.ext
    /\ field = "domain" => /\ builder'.options.domain = given'.options.domain
                           /\ builder'.options.domain # <<>>

LEMMA OptionKeeps ==
  ASSUME Shapes, BuilderInv, NEW name, NEW field, SetsOption(name, field)
  PROVE  BuilderInv'
<1> USE DEF SetsOption, SetterFrame, OtherOptions
<1>1. ToldTo(builder', given')
  BY DEF BuilderInv, KnownOf, ToldTo
<1>2. given.late \subseteq given'.late /\ (Seen => name \in given'.late) /\ Seen' = Seen
  BY DEF Seen
<1>3. InTime(given') => InTime(given)
  BY <1>2 DEF InTime
<1>4. ResolvedFrom(builder', given', Seen')
  <2> SUFFICES ASSUME builder.destination # given.destination
               PROVE  ResolvedFrom(builder', given', Seen')
    BY DEF ResolvedFrom
  <2>1. Seen /\ name \in given'.late
    BY <1>2 DEF BuilderInv, KnownOf, ResolvedFrom
  <2>2. given'.late \intersect {"ipv4", "options"} = {} =>
           /\ given.late \intersect {"ipv4", "options"} = {}
           /\ given'.options.ipv4_only = given.options.ipv4_only
    BY <1>2, <2>1
  <2> QED
    BY <1>2, <2>2 DEF BuilderInv, KnownOf, ResolvedFrom
<1>5. NamedFrom(builder', given', Seen')
  <2> SUFFICES ASSUME InTime(given') PROVE NamedFrom(builder', given', Seen')
    BY DEF NamedFrom
  <2>1. CASE builder.options.domain = given.options.domain
    BY <2>1 DEF NamedFrom
  <2>2. CASE builder.options.domain # given.options.domain
    <3>1. /\ Seen /\ given.options.domain = <<>> /\ given.options.use_tls
          /\ builder.options.domain = <<domain(given.destination[1])>>
      BY <1>3, <2>2 DEF BuilderInv, KnownOf, NamedFrom
    <3>2. field # "use_tls"
      BY <1>2, <3>1 DEF InTime
    <3> QED
      BY <1>2, <3>1, <3>2 DEF NamedFrom
  <2> QED
    BY <2>1, <2>2
<1>6. NamedWhenVerified(builder', given', Seen')
  <2>1. builder'.verified => /\ Seen' /\ builder'.destination # <<>>
                             /\ builder'.options.use_tls => builder'.options.domain # <<>>
    BY <1>2 DEF BuilderInv, KnownOf, NamedWhenVerified
  <2>2. ASSUME builder.destination # given.destination, builder'.options.use_tls, InTime(given')
        PROVE  builder'.options.domain # <<>>
    <3>1. Seen /\ field # "use_tls"
      BY <1>2, <2>2 DEF BuilderInv, KnownOf, ResolvedFrom, InTime
    <3> QED
      BY <1>3, <2>2, <3>1 DEF BuilderInv, KnownOf, NamedWhenVerified
  <2> QED
    BY <2>1, <2>2 DEF NamedWhenVerified
<1> QED
  BY <1>1, <1>4, <1>5, <1>6 DEF BuilderInv, KnownOf

\* with_options replaces all of them, with_destination the destination.
LEMMA ReplaceKeeps ==
  ASSUME Shapes, BuilderInv, NEW name, SetterFrame(name), builder'.verified = FALSE,
         \/ /\ name = "options" /\ builder'.options = given'.options
            /\ builder'.destination = builder.destination /\ given'.destination = given.destination
         \/ /\ name = "destination" /\ builder'.destination = given'.destination
            /\ builder'.options = builder.options /\ given'.options = given.options
  PROVE  BuilderInv'
<1>1. given.late \subseteq given'.late /\ (Seen => name \in given'.late) /\ Seen' = Seen
  BY DEF SetterFrame, Seen
<1>2. CASE name = "options"
  <2>1. builder.destination # given.destination => Seen /\ ~InTime(given')
                                                   /\ "options" \in given'.late
    BY <1>1, <1>2 DEF BuilderInv, KnownOf, ResolvedFrom, InTime
  <2>2. ResolvedFrom(builder', given', Seen')
    BY <1>1, <1>2, <2>1 DEF ResolvedFrom, BuilderInv, KnownOf
  <2>3. ToldTo(builder', given') /\ NamedFrom(builder', given', Seen')
    BY <1>2 DEF ToldTo, NamedFrom
  <2>4. NamedWhenVerified(builder', given', Seen')
    BY <1>2, <2>1 DEF NamedWhenVerified
  <2> QED
    BY <2>2, <2>3, <2>4 DEF BuilderInv, KnownOf
<1>3. CASE name = "destination"
  <2>1. /\ builder'.destination = given'.destination
        /\ builder'.options = builder.options /\ given'.options = given.options
    BY <1>3
  <2>2. /\ ToldTo(builder', given') /\ ResolvedFrom(builder', given', Seen')
        /\ NamedWhenVerified(builder', given', Seen')
    BY <2>1 DEF BuilderInv, KnownOf, ToldTo, ResolvedFrom, NamedWhenVerified
  <2>3. NamedFrom(builder', given', Seen')
    <3> SUFFICES ASSUME InTime(given') PROVE builder.options.domain = given.options.domain
      BY <2>1 DEF NamedFrom
    <3>1. ~Seen /\ InTime(given)
      BY <1>1, <1>3 DEF InTime
    <3> QED
      BY <3>1 DEF BuilderInv, KnownOf, NamedFrom
  <2> QED
    BY <2>2, <2>3 DEF BuilderInv, KnownOf
<1> QED
  BY <1>2, <1>3

\* Struct updates: c is b, or g, with one field set, and possibly without its verification.
PutsOptions(b, x, c) == c = [b EXCEPT !.options = x] \/ c = [b EXCEPT !.options = x, !.verified = FALSE]
PutsDestination(b, x, c) == c = [b EXCEPT !.destination = x, !.verified = FALSE]
PutsSettings(b, x, c) == c = [b EXCEPT !.settings = x]
PutsVerified(b, x, d, c) == c = [b EXCEPT !.options = x, !.destination = d, !.verified = TRUE]
BuilderAs(b, c, destination, options) ==
    /\ IsBuilder(c) /\ c.options = options /\ c.destination = destination
    /\ c.verified = FALSE \/ c.verified = b.verified

LEMMA BuilderSet ==
  ASSUME NEW b, IsBuilder(b), NEW x, NEW c
  PROVE  /\ PutsOptions(b, x, c) /\ IsOptions(x) => BuilderAs(b, c, b.destination, x)
         /\ PutsDestination(b, x, c) => BuilderAs(b, c, x, b.options) /\ ~c.verified
         /\ PutsSettings(b, x, c) => BuilderAs(b, c, b.destination, b.options)
<1>0. DOMAIN b = {"destination", "options", "settings", "verified"} /\ b = [f \in DOMAIN b |-> b[f]]
  BY DEF IsBuilder
<1>1. ASSUME c = [b EXCEPT !.options = x], IsOptions(x)
      PROVE  BuilderAs(b, c, b.destination, x)
  BY <1>0, <1>1 DEF IsBuilder, BuilderAs
<1>2. ASSUME c = [b EXCEPT !.options = x, !.verified = FALSE], IsOptions(x)
      PROVE  BuilderAs(b, c, b.destination, x)
  BY <1>0, <1>2 DEF IsBuilder, BuilderAs
<1>3. ASSUME PutsDestination(b, x, c)
      PROVE  BuilderAs(b, c, x, b.options) /\ ~c.verified
  BY <1>0, <1>3 DEF IsBuilder, BuilderAs, PutsDestination
<1>4. ASSUME PutsSettings(b, x, c)
      PROVE  BuilderAs(b, c, b.destination, b.options)
  BY <1>0, <1>4 DEF IsBuilder, BuilderAs, PutsSettings
<1> QED
  BY <1>1, <1>2, <1>3, <1>4 DEF PutsOptions

PutsGiven(g, x, c) == c = [g EXCEPT !.options = x]
PutsAsked(g, x, c) == c = [g EXCEPT !.destination = <<x>>]
PutsLate(g, x, c) == c = [g EXCEPT !.late = x]
PutsSeen(g, c) == c = [g EXCEPT !.verified = TRUE]
GivenAs(c, destination, options, verified, late) ==
    /\ IsGiven(c) /\ c.options = options /\ c.destination = destination
    /\ c.verified = verified /\ c.late = late

LEMMA GivenSet ==
  ASSUME NEW g, IsGiven(g), NEW x, NEW c
  PROVE  /\ PutsGiven(g, x, c) /\ IsOptions(x) => GivenAs(c, g.destination, x, g.verified, g.late)
         /\ PutsAsked(g, x, c) /\ x \in Destinations => GivenAs(c, <<x>>, g.options, g.verified, g.late)
         /\ PutsLate(g, x, c) => GivenAs(c, g.destination, g.options, g.verified, x)
         /\ PutsSeen(g, c) => GivenAs(c, g.destination, g.options, TRUE, g.late)
<1>0. DOMAIN g = {"destination", "options", "verified", "late"} /\ g = [f \in DOMAIN g |-> g[f]]
  BY DEF IsGiven
<1>1. ASSUME PutsGiven(g, x, c), IsOptions(x)
      PROVE  GivenAs(c, g.destination, x, g.verified, g.late)
  BY <1>0, <1>1 DEF IsGiven, GivenAs, PutsGiven
<1>2. ASSUME PutsAsked(g, x, c), x \in Destinations
      PROVE  GivenAs(c, <<x>>, g.options, g.verified, g.late)
  BY <1>0, <1>2 DEF IsGiven, GivenAs, PutsAsked
<1>3. ASSUME PutsLate(g, x, c)
      PROVE  GivenAs(c, g.destination, g.options, g.verified, x)
  BY <1>0, <1>3 DEF IsGiven, GivenAs, PutsLate
<1>4. ASSUME PutsSeen(g, c)
      PROVE  GivenAs(c, g.destination, g.options, TRUE, g.late)
  BY <1>0, <1>4 DEF IsGiven, GivenAs, PutsSeen
<1> QED
  BY <1>1, <1>2, <1>3, <1>4


\* A setter that gives the builder the options o, with or without asking for another
\* verification, and the caller's record the options p.
Updates(name, o, p) ==
    /\ IsOptions(o) /\ IsOptions(p) /\ PutsOptions(builder, o, builder')
    /\ \E g : PutsGiven(given, p, g) /\ PutsLate(g, Late(name), given')
    /\ owner = "caller" /\ UNCHANGED <<owner, dialled>>

Updated(name, o, p) ==
    /\ Shapes' /\ SetterFrame(name)
    /\ builder'.options = o /\ given'.options = p
    /\ builder'.destination = builder.destination /\ given'.destination = given.destination
    /\ builder'.verified = FALSE \/ builder'.verified = builder.verified

LEMMA UpdateParts ==
  ASSUME Shapes, NEW name, NEW o, NEW p, Updates(name, o, p)
  PROVE  Updated(name, o, p)
<1>1. BuilderAs(builder, builder', builder.destination, o)
  BY BuilderSet DEF Updates, Shapes
<1>2. PICK g : PutsGiven(given, p, g) /\ PutsLate(g, Late(name), given')
  BY DEF Updates
<1>3. GivenAs(g, given.destination, p, given.verified, given.late)
  BY <1>2, GivenSet DEF Updates, Shapes
<1>4. GivenAs(given', g.destination, g.options, g.verified, Late(name))
  BY <1>2, <1>3, GivenSet DEF GivenAs
<1> QED
  BY <1>1, <1>3, <1>4 DEF Updated, Shapes, SetterFrame, Late, Updates, BuilderAs, GivenAs

\* o and p are the options of the builder and of the caller with the same value in field.
SameValue(name, field, o, p) ==
    /\ OtherOptions(builder.options, o, field) /\ OtherOptions(given.options, p, field)
    /\ field = "use_tls" => o.use_tls = p.use_tls /\ name = "tls"
    /\ field = "ipv4_only" => o.ipv4_only = p.ipv4_only /\ name = "ipv4"
    /\ field = "compression" => o.compression = p.compression
    /\ field = "ext" => o.ext = p.ext
    /\ field = "domain" => o.domain = p.domain /\ o.domain # <<>>

LEMMA UpdateKeeps ==
  ASSUME Shapes, BuilderInv, NEW name, NEW field, NEW o, NEW p, Updates(name, o, p),
         SameValue(name, field, o, p),
         field = "use_tls" => ~builder'.verified \/ o = builder.options
  PROVE  Shapes' /\ BuilderInv'
<1>1. Updated(name, o, p)
  BY UpdateParts
<1>2. builder'.verified => builder.verified
  BY <1>1 DEF Updated, Shapes, IsBuilder
<1>3. SetsOption(name, field)
  BY <1>1, <1>2 DEF Updated, SetsOption, SameValue
<1> QED
  BY <1>1, <1>3, OptionKeeps DEF Updated

LEMMA BuilderVerified ==
  ASSUME NEW b, IsBuilder(b), NEW x, NEW d, NEW c, PutsVerified(b, x, d, c), IsOptions(x)
  PROVE  IsBuilder(c) /\ c.options = x /\ c.destination = d /\ c.verified
<1>1. DOMAIN b = {"destination", "options", "settings", "verified"} /\ b = [f \in DOMAIN b |-> b[f]]
  BY DEF IsBuilder
<1> QED
  BY <1>1 DEF IsBuilder, PutsVerified

\* A setter of one field of the options.
Sets(name, field, v) ==
    /\ \/ builder' = [builder EXCEPT !.options = [builder.options EXCEPT ![field] = v]]
       \/ builder' = [builder EXCEPT !.options = [builder.options EXCEPT ![field] = v], !.verified = FALSE]
    /\ given' = [[given EXCEPT !.options = [given.options EXCEPT ![field] = v]] EXCEPT !.late = Late(name)]
    /\ owner = "caller" /\ UNCHANGED <<owner, dialled>>

LEMMA FieldKeeps ==
  ASSUME Shapes, BuilderInv, NEW name, NEW field \in OptionFields, NEW v, Sets(name, field, v),
         field = "domain" => v = <<v[1]>> /\ v # <<>>,
         field = "ipv4_only" => v \in BOOLEAN /\ name = "ipv4",
         field = "use_tls" => /\ v \in BOOLEAN /\ name = "tls"
                              /\ ~builder'.verified \/ builder.options.use_tls = v
  PROVE  Shapes' /\ BuilderInv'
<1> DEFINE b == builder.options
           g == given.options
           o == [b EXCEPT ![field] = v]
           p == [g EXCEPT ![field] = v]
<1>1. IsOptions(b) /\ IsOptions(g)
  BY DEF Shapes, IsBuilder, IsGiven
<1>2. PutsField(b, field, v, o) /\ PutsField(g, field, v, p)
  BY DEF PutsField
<1>3. /\ PutsOptions(builder, o, builder')
      /\ \E h : PutsGiven(given, p, h) /\ PutsLate(h, Late(name), given')
      /\ owner = "caller" /\ UNCHANGED <<owner, dialled>>
  BY DEF Sets, PutsOptions, PutsGiven, PutsLate
<1>4. field = "use_tls" /\ b.use_tls = v => o = b
  BY <1>1 DEF IsOptions, OptionsDefault
<1> HIDE DEF o, p
<1>5. /\ IsOptions(o) /\ o[field] = v /\ OtherOptions(b, o, field)
      /\ IsOptions(p) /\ p[field] = v /\ OtherOptions(g, p, field)
  BY <1>1, <1>2, FieldSet
<1>6. Updates(name, o, p)
  BY <1>3, <1>5 DEF Updates
<1>7. SameValue(name, field, o, p)
  BY <1>5 DEF SameValue
<1> QED
  BY <1>4, <1>6, <1>7, UpdateKeeps

\* One lemma for each setter.
LEMMA ExtKeeps ==
  ASSUME Shapes, BuilderInv, NEW e, WithExt(e)
  PROVE  Shapes' /\ BuilderInv'
<1>1. Sets("ext", "ext", e)
  BY DEF WithExt, Setter, with_ext, Sets, Shapes, IsBuilder, IsGiven
<1> QED
  BY <1>1, FieldKeeps DEF OptionFields

LEMMA CompressionKeeps ==
  ASSUME Shapes, BuilderInv, NEW m, WithCompression(m)
  PROVE  Shapes' /\ BuilderInv'
<1>1. Sets("compression", "compression", m)
  BY DEF WithCompression, Setter, with_compression, Sets, Shapes, IsBuilder, IsGiven
<1> QED
  BY <1>1, FieldKeeps DEF OptionFields

LEMMA Ipv4OnlyKeeps ==
  ASSUME Shapes, BuilderInv, NEW x \in BOOLEAN, WithIpv4Only(x)
  PROVE  Shapes' /\ BuilderInv'
<1>1. Sets("ipv4", "ipv4_only", x)
  BY DEF WithIpv4Only, Setter, with_ipv4_only, Sets, Shapes, IsBuilder, IsGiven
<1> QED
  BY <1>1, FieldKeeps DEF OptionFields

LEMMA DomainKeeps ==
  ASSUME Shapes, BuilderInv, NEW d, WithDomain(d)
  PROVE  Shapes' /\ BuilderInv'
<1>1. Sets("domain", "domain", <<d>>)
  BY DEF WithDomain, Setter, with_domain, Sets, Shapes, IsBuilder, IsGiven
<1> QED
  BY <1>1, FieldKeeps DEF OptionFields

\* with_tls asks for another verification only where it changes something.
LEMMA TlsKeeps ==
  ASSUME Shapes, BuilderInv, NEW x \in BOOLEAN, WithTls(x)
  PROVE  Shapes' /\ BuilderInv'
<1> DEFINE b == builder.options
<1>1. /\ given' = [[given EXCEPT !.options = [given.options EXCEPT !.use_tls = x]] EXCEPT !.late = Late("tls")]
      /\ owner = "caller" /\ UNCHANGED <<owner, dialled>> /\ builder' = with_tls(builder, x)
  BY DEF WithTls, Setter, Shapes, IsBuilder, IsGiven
<1>2. CASE b.use_tls = x
  <2>1. [b EXCEPT !.use_tls = x] = b
    BY <1>2 DEF Shapes, IsBuilder, IsOptions, OptionsDefault
  <2>2. builder' = [builder EXCEPT !.options = b]
    BY <1>1, <1>2 DEF with_tls, Shapes, IsBuilder
  <2>3. Sets("tls", "use_tls", x)
    BY <1>1, <2>1, <2>2 DEF Sets
  <2> QED
    BY <1>2, <2>3, FieldKeeps DEF OptionFields
<1>3. CASE b.use_tls # x
  <2>1. builder' = [builder EXCEPT !.options = [b EXCEPT !.use_tls = x], !.verified = FALSE]
    BY <1>1, <1>3 DEF with_tls, Shapes, IsBuilder
  <2>2. Sets("tls", "use_tls", x)
    BY <1>1, <2>1 DEF Sets
  <2>3. ~builder'.verified
    BY <2>1 DEF Shapes, IsBuilder
  <2> QED
    BY <2>2, <2>3, FieldKeeps DEF OptionFields
<1> QED
  BY <1>2, <1>3

\* User name, password and database are not of those that the properties look at.
LEMMA NamesSet ==
  ASSUME NEW o, IsOptions(o), NEW u, NEW w, NEW d
  PROVE  LET p == [[[o EXCEPT !.username = u] EXCEPT !.password = w] EXCEPT !.database = d]
         IN IsOptions(p) /\ OtherOptions(o, p, "credentials")
<1> DEFINE o1 == [o EXCEPT !.username = u]
           o2 == [o1 EXCEPT !.password = w]
           o3 == [o2 EXCEPT !.database = d]
<1>0. ASSUME NEW q, IsOptions(q), NEW f \in {"username", "password", "database"}, NEW v
      PROVE  LET r == [q EXCEPT ![f] = v] IN IsOptions(r) /\ OtherOptions(q, r, "credentials")
  <2> DEFINE r == [q EXCEPT ![f] = v]
  <2>1. PutsField(q, f, v, r)
    BY DEF PutsField
  <2> HIDE DEF r
  <2>2. IsOptions(r) /\ OtherOptions(q, r, f)
    BY <1>0, <2>1, FieldSet DEF OptionFields
  <2>3. OtherOptions(q, r, "credentials")
    BY <2>2 DEF OtherOptions
  <2> QED
    BY <2>2, <2>3 DEF r
<1>1. IsOptions(o1) /\ OtherOptions(o, o1, "credentials")
  BY <1>0
<1> HIDE DEF o1
<1>2. IsOptions(o2) /\ OtherOptions(o1, o2, "credentials")
  BY <1>0, <1>1
<1> HIDE DEF o2
<1>3. IsOptions(o3) /\ OtherOptions(o2, o3, "credentials")
  BY <1>0, <1>2
<1> HIDE DEF o3
<1>4. IsOptions(o3) /\ OtherOptions(o, o3, "credentials")
  BY <1>1, <1>2, <1>3 DEF OtherOptions
<1> QED
  BY <1>4 DEF o1, o2, o3

LEMMA CredentialsKeep ==
  ASSUME Shapes, BuilderInv, NEW c, WithCredentials(c)
  PROVE  Shapes' /\ BuilderInv'
<1> DEFINE b == builder.options
           g == given.options
           o == [[[b EXCEPT !.username = c[1]] EXCEPT !.password = c[2]] EXCEPT !.database = c[3]]
           p == [[[g EXCEPT !.username = c[1]] EXCEPT !.password = c[2]] EXCEPT !.database = c[3]]
<1>1. IsOptions(b) /\ IsOptions(g)
  BY DEF Shapes, IsBuilder, IsGiven
<1>2. /\ IsOptions(o) /\ OtherOptions(b, o, "credentials")
      /\ IsOptions(p) /\ OtherOptions(g, p, "credentials")
  BY <1>1, NamesSet
<1>3. builder' = [builder EXCEPT !.options = o]
  BY DEF WithCredentials, Setter, with_username, with_password, with_database, Shapes, IsBuilder
<1>4. /\ given' = [[given EXCEPT !.options = p] EXCEPT !.late = Late("credentials")]
      /\ owner = "caller" /\ UNCHANGED <<owner, dialled>>
  BY DEF WithCredentials, Setter, Shapes, IsGiven
<1> HIDE DEF o, p
<1>5. Updates("credentials", o, p)
  BY <1>2, <1>3, <1>4 DEF Updates, PutsOptions, PutsGiven, PutsLate
<1>6. SameValue("credentials", "credentials", o, p)
  BY <1>2 DEF SameValue
<1> QED
  BY <1>5, <1>6, UpdateKeeps

\* Settings are not options.
LEMMA SettingsKeep ==
  ASSUME Shapes, BuilderInv, NEW s, WithSettings(s) \/ WithSetting(s)
  PROVE  Shapes' /\ BuilderInv'
<1>1. \E x : PutsSettings(builder, x, builder')
  BY DEF WithSettings, WithSetting, Setter, builder_with_settings, builder_with_setting, PutsSettings
<1>2. BuilderAs(builder, builder', builder.destination, builder.options)
  BY <1>1, BuilderSet DEF Shapes
<1>3. PutsLate(given, Late("settings"), given') /\ owner = "caller" /\ UNCHANGED <<owner, dialled>>
  BY DEF WithSettings, WithSetting, Setter, PutsLate
<1>4. GivenAs(given', given.destination, given.options, given.verified, Late("settings"))
  BY <1>3, GivenSet DEF Shapes
<1>5. SetsOption("settings", "settings")
  BY <1>2, <1>3, <1>4 DEF SetsOption, SetterFrame, OtherOptions, BuilderAs, GivenAs, Late, Shapes, IsBuilder
<1> QED
  BY <1>2, <1>4, <1>5, OptionKeeps DEF Shapes, BuilderAs, GivenAs

LEMMA OptionsKeep ==
  ASSUME Shapes, BuilderInv, NEW o \in OptionSets, WithOptions(o)
  PROVE  Shapes' /\ BuilderInv'
<1>1. /\ builder' = [builder EXCEPT !.options = o, !.verified = FALSE]
      /\ given' = [[given EXCEPT !.options = o] EXCEPT !.late = Late("options")]
      /\ owner = "caller" /\ UNCHANGED <<owner, dialled>>
  BY DEF WithOptions, Setter, with_options
<1>2. Updates("options", o, o)
  BY <1>1 DEF Updates, PutsOptions, PutsGiven, PutsLate
<1>3. Updated("options", o, o)
  BY <1>2, UpdateParts
<1>4. ~builder'.verified
  BY <1>1 DEF Shapes, IsBuilder
<1>5. builder'.verified = FALSE
  BY <1>3, <1>4 DEF Updated, Shapes, IsBuilder
<1> QED
  BY <1>3, <1>5, ReplaceKeeps DEF Updated

LEMMA DestinationKeeps ==
  ASSUME Shapes, BuilderInv, NEW d \in Destinations, WithDestination(d)
  PROVE  Shapes' /\ BuilderInv'
<1> DEFINE h == [given EXCEPT !.destination = <<d>>]
<1>1. PutsDestination(builder, <<d>>, builder')
  BY DEF WithDestination, Setter, with_destination, PutsDestination
<1>2. BuilderAs(builder, builder', <<d>>, builder.options) /\ ~builder'.verified
  BY <1>1, BuilderSet DEF Shapes
<1>3. PutsAsked(given, d, h) /\ PutsLate(h, Late("destination"), given')
      /\ owner = "caller" /\ UNCHANGED <<owner, dialled>>
  BY DEF WithDestination, Setter, PutsAsked, PutsLate
<1> HIDE DEF h
<1>4. GivenAs(h, <<d>>, given.options, given.verified, given.late)
  BY <1>3, GivenSet DEF Shapes
<1>5. GivenAs(given', <<d>>, given.options, given.verified, Late("destination"))
  <2>1. GivenAs(given', h.destination, h.options, h.verified, Late("destination"))
    BY <1>3, <1>4, GivenSet DEF GivenAs
  <2> QED
    BY <1>4, <2>1 DEF GivenAs
<1>6. /\ SetterFrame("destination") /\ builder'.verified = FALSE
      /\ builder'.destination = given'.destination
      /\ builder'.options = builder.options /\ given'.options = given.options
  BY <1>2, <1>3, <1>5 DEF SetterFrame, Late, BuilderAs, GivenAs, IsBuilder
<1>7. BuilderInv'
  BY <1>6, ReplaceKeeps
<1> QED
  BY <1>2, <1>5, <1>7 DEF Shapes, BuilderAs, GivenAs

-----------------------------------------------------------------------------
(* Resolving, verifying and connecting.                                    *)

IsAddrs(s) == DOMAIN s = 1..Len(s) /\ Len(s) \in Nat

\* Addresses of a destination that was resolved: some of its own; all of them if it is an
\* address already; of version 4 if they have to be.
ResolvesTo(d, ipv4_only, addrs) ==
    /\ IsAddrs(addrs) /\ Range(addrs) \subseteq Range(d.addrs)
    /\ Direct(d) => addrs = d.addrs
    /\ ipv4_only /\ ~Direct(d) => \A a \in Range(addrs) : a.v4

\* Members of a finite set of numbers have different ranks in it, so that every rank is
\* that of a member.
Rank(S, i) == Cardinality({j \in S : j <= i})

LEMMA RankBelow ==
  ASSUME NEW S, S \subseteq Nat, IsFiniteSet(S), NEW i \in S
  PROVE  /\ Rank(S, i) \in 1..Cardinality(S) /\ Cardinality(S) \in Nat
         /\ \A j \in S : j < i => Rank(S, j) # Rank(S, i)
<1> DEFINE U(k) == {j \in S : j <= k}
<1>1. \A k \in S : IsFiniteSet(U(k)) /\ Cardinality(U(k)) <= Cardinality(S) /\ Cardinality(U(k)) \in Nat
  <2> TAKE k \in S
  <2>1. U(k) \in SUBSET S
    OBVIOUS
  <2> HIDE DEF U
  <2> QED
    BY <2>1, FS_Subset, FS_CardinalityType
<1>2. Cardinality(S) \in Nat
  BY FS_CardinalityType
<1>3. U(i) # {}
  <2>1. i <= i
    OBVIOUS
  <2> QED
    BY <2>1
<1>4. Cardinality(U(i)) # 0
  BY <1>1, <1>3, FS_EmptySet
<1>5. ASSUME NEW j \in S, j < i
      PROVE  Cardinality(U(j)) # Cardinality(U(i))
  <2>1. \A x \in S : x <= j => x <= i
    <3> TAKE x \in S
    <3>1. x \in Nat /\ j \in Nat /\ i \in Nat
      OBVIOUS
    <3> QED
      BY <1>5, <3>1
  <2>2. U(j) \in SUBSET U(i)
    BY <2>1
  <2>3. i \in U(i) /\ i \notin U(j)
    BY <1>5
  <2> HIDE DEF U
  <2> QED
    BY <1>1, <2>2, <2>3, FS_Subset
<1>6. Cardinality(U(i)) \in 1..Cardinality(S)
  <2> HIDE DEF U
  <2> QED
    BY <1>1, <1>2, <1>4
<1> QED
  BY <1>2, <1>5, <1>6 DEF Rank

LEMMA Ranked ==
  ASSUME NEW S, S \subseteq Nat, IsFiniteSet(S), NEW k \in 1..Cardinality(S)
  PROVE  \E i \in S : Rank(S, i) = k
<1> DEFINE n == Cardinality(S)
           T == (1..n) \ {k}
           f == [i \in S |-> Rank(S, i)]
<1>1. n \in Nat
  BY FS_CardinalityType
<1>2. IsFiniteSet(1..n) /\ Cardinality(1..n) = n
  BY <1>1, FS_Interval
<1>3. IsFiniteSet(T) /\ Cardinality(T) < n
  <2>1. k \in 1..n
    OBVIOUS
  <2> HIDE DEF n
  <2>2. IsFiniteSet(T) /\ Cardinality(T) = Cardinality(1..n) - 1
    BY <1>2, <2>1, FS_RemoveElement
  <2> QED
    BY <1>1, <1>2, <2>2
<1> SUFFICES ASSUME \A i \in S : Rank(S, i) # k PROVE FALSE
  OBVIOUS
<1>4. f \in [S -> T]
  <2>1. \A i \in S : Rank(S, i) \in T
    BY RankBelow
  <2> HIDE DEF T
  <2> QED
    BY <2>1
<1>5. \E x, y \in S : x # y /\ f[x] = f[y]
  <2> HIDE DEF T, f, n
  <2>1. Cardinality(T) < Cardinality(S)
    BY <1>3 DEF n
  <2> QED
    BY <1>3, <1>4, <2>1, FS_PigeonHole
<1>6. PICK x \in S, y \in S : x # y /\ Rank(S, x) = Rank(S, y)
  BY <1>5
<1>7. x < y \/ y < x
  BY <1>6
<1> QED
  BY <1>6, <1>7, RankBelow

LEMMA OnlyVersion4 ==
  ASSUME NEW s, IsAddrs(s)
  PROVE  /\ IsAddrs(OnlyV4(s)) /\ Range(OnlyV4(s)) \subseteq Range(s)
         /\ \A a \in Range(OnlyV4(s)) : a.v4
<1> DEFINE I == {i \in 1..Len(s) : s[i].v4}
           n == Cardinality(I)
           at(k) == CHOOSE i \in I : Rank(I, i) = k
<1>1. I \subseteq Nat /\ IsFiniteSet(I) /\ n \in Nat
  <2>1. IsFiniteSet(1..Len(s)) /\ I \in SUBSET (1..Len(s)) /\ I \subseteq Nat
    BY FS_Interval DEF IsAddrs
  <2> HIDE DEF I
  <2> QED
    BY <2>1, FS_Subset, FS_CardinalityType
<1>2. OnlyV4(s) = [k \in 1..n |-> s[at(k)]]
  BY DEF OnlyV4, Rank
<1>3. \A k \in 1..n : at(k) \in I
  <2> TAKE k \in 1..n
  <2> HIDE DEF I
  <2>1. \E i \in I : Rank(I, i) = k
    BY <1>1, Ranked
  <2> QED
    BY <2>1
<1>4. \A k \in 1..n : s[at(k)] \in Range(s) /\ s[at(k)].v4
  BY <1>3 DEF Range, IsAddrs
<1> HIDE DEF at, n, I
<1>5. OnlyV4(s) \in Seq(Range(s)) /\ DOMAIN OnlyV4(s) = 1..n /\ Len(OnlyV4(s)) = n
  BY <1>1, <1>2, <1>4
<1>6. IsAddrs(OnlyV4(s))
  BY <1>1, <1>5 DEF IsAddrs
<1> QED
  BY <1>2, <1>4, <1>5, <1>6 DEF Range

LEMMA ResolveGives ==
  ASSUME NEW d, IsAddrs(d.addrs), NEW ipv4_only \in BOOLEAN, resolve(d, ipv4_only).st = "ok"
  PROVE  ResolvesTo(d, ipv4_only, resolve(d, ipv4_only).v)
<1>1. CASE Direct(d)
  BY <1>1 DEF resolve, Ok, ResolvesTo
<1>2. CASE ~Direct(d)
  <2>1. d.addrs # <<>>
    BY <1>2 DEF resolve, Fail
  <2>2. resolve(d, ipv4_only).v = IF ipv4_only THEN OnlyV4(d.addrs) ELSE d.addrs
    BY <1>2, <2>1 DEF resolve, Ok
  <2> QED
    BY <1>2, <2>2, OnlyVersion4 DEF ResolvesTo
<1> QED
  BY <1>1, <1>2

\* The addresses that a builder's destination has are those of one that was given, or of one
\* that a verification left.
LEMMA DestinationHasAddrs ==
  ASSUME NEW b, NEW g, NEW seen, IsGiven(g), KnownOf(b, g, seen), b.destination # <<>>
  PROVE  /\ IsAddrs(b.destination[1].addrs)
         /\ g.destination # <<>> /\ Len(g.destination) = 1
<1>1. CASE b.destination = g.destination
  <2>1. PICK d \in Destinations : g.destination = <<d>>
    BY <1>1 DEF IsGiven
  <2> QED
    BY <1>1, <2>1 DEF IsAddrs
<1>2. CASE b.destination # g.destination
  <2>1. IsAddrs(b.destination[1].addrs) /\ Len(g.destination) = 1
    BY <1>2 DEF KnownOf, ResolvedFrom, IsAddrs
  <2> QED
    BY <2>1 DEF IsGiven
<1> QED
  BY <1>1, <1>2

\* What connects to, or is put in the place of, a builder's destination is an address of
\* the destination given, and of version 4 where that was asked for in time.
LEMMA AddressesOfGiven ==
  ASSUME NEW b, NEW g, NEW seen, IsGiven(g), KnownOf(b, g, seen), b.destination # <<>>,
         NEW addrs, ResolvesTo(b.destination[1], b.options.ipv4_only, addrs)
  PROVE  /\ IsAddrs(addrs) /\ Range(addrs) \subseteq Range(g.destination[1].addrs)
         /\ g.late \intersect {"ipv4", "options"} = {} /\ g.options.ipv4_only /\ ~Direct(g.destination[1]) =>
               \A a \in Range(addrs) : a.v4
<1>1. CASE b.destination = g.destination
  BY <1>1 DEF ResolvesTo, KnownOf, ToldTo
<1>2. CASE b.destination # g.destination
  <2>1. addrs = b.destination[1].addrs
    BY <1>2 DEF ResolvesTo, KnownOf, ResolvedFrom
  <2> QED
    BY <1>2, <2>1 DEF ResolvesTo, KnownOf, ResolvedFrom
<1> QED
  BY <1>1, <1>2

\* What a verification makes of a builder.
Verified(b, addrs, dom, w) ==
    /\ IsBuilder(w) /\ w.verified /\ w.options.domain = dom
    /\ OtherOptions(b.options, w.options, "domain")
    /\ w.destination = <<[kind |-> "SocketAddrs", text |-> <<>>, addrs |-> addrs]>>

LEMMA VerifyGives ==
  ASSUME NEW b, IsBuilder(b), verify(b).st = "ok", b.destination # <<>> => IsAddrs(b.destination[1].addrs)
  PROVE  \E addrs, dom :
            /\ b.destination # <<>> /\ addrs # <<>>
            /\ ResolvesTo(b.destination[1], b.options.ipv4_only, addrs)
            /\ dom = IF b.options.use_tls /\ b.options.domain = <<>>
                     THEN <<domain(b.destination[1])>> ELSE b.options.domain
            /\ Verified(b, addrs, dom, verify(b).v)
<1> DEFINE d == b.destination[1]
           r == resolve(d, b.options.ipv4_only)
           dom == IF b.options.use_tls /\ b.options.domain = <<>> THEN <<domain(d)>> ELSE b.options.domain
           o == [b.options EXCEPT !.domain = dom]
           to == <<[kind |-> "SocketAddrs", text |-> <<>>, addrs |-> r.v]>>
           w == verify(b).v
<1>1. b.destination # <<>>
  BY DEF verify, Fail
<1>2. r.st = "ok"
  BY <1>1 DEF verify, Then
<1>3. r.v # <<>>
  BY <1>1, <1>2 DEF verify, Then, Fail
<1>4. verify(b) = Ok([b EXCEPT !.options.domain = dom,
                               !.destination = <<[kind |-> "SocketAddrs", text |-> <<>>, addrs |-> r.v]>>,
                               !.verified = TRUE], <<>>)
  BY <1>1, <1>2, <1>3 DEF verify, Then, Fail, Ok
<1>5. PutsVerified(b, o, to, w)
  BY <1>4 DEF Ok, PutsVerified
<1>6. ResolvesTo(d, b.options.ipv4_only, r.v)
  BY <1>1, <1>2, ResolveGives DEF IsBuilder, IsOptions
<1>7. PutsField(b.options, "domain", dom, o)
  BY DEF PutsField
<1>8. dom = <<>> \/ dom = <<dom[1]>>
  BY DEF IsBuilder, IsOptions
<1>9. IsOptions(o) /\ o.domain = dom /\ OtherOptions(b.options, o, "domain")
  <2> HIDE DEF o, dom
  <2> QED
    BY <1>7, <1>8, FieldSet DEF IsBuilder, OptionFields
<1>10. Verified(b, r.v, dom, w)
  <2> HIDE DEF o, dom, r, w
  <2>1. IsBuilder(w) /\ w.options = o /\ w.destination = to /\ w.verified
    BY <1>5, <1>9, BuilderVerified
  <2> QED
    BY <1>9, <2>1 DEF Verified
<1> QED
  BY <1>1, <1>3, <1>6, <1>10

\* A builder that a verification returns is one of which the same is known.
LEMMA VerifyKeeps ==
  ASSUME NEW b, NEW g, NEW seen, IsBuilder(b), IsGiven(g), KnownOf(b, g, seen), verify(b).st = "ok"
  PROVE  IsBuilder(verify(b).v) /\ KnownOf(verify(b).v, g, TRUE) /\ verify(b).v.verified
<1> DEFINE w == verify(b).v
<1>1. b.destination # <<>> => IsAddrs(b.destination[1].addrs)
  BY DestinationHasAddrs
<1>2. PICK addrs, dom :
            /\ b.destination # <<>> /\ addrs # <<>>
            /\ ResolvesTo(b.destination[1], b.options.ipv4_only, addrs)
            /\ dom = IF b.options.use_tls /\ b.options.domain = <<>>
                     THEN <<domain(b.destination[1])>> ELSE b.options.domain
            /\ Verified(b, addrs, dom, w)
  BY <1>1, VerifyGives
<1>3. Len(g.destination) = 1
  BY <1>2, DestinationHasAddrs
<1> HIDE DEF w
<1>4. /\ IsBuilder(w) /\ w.verified /\ w.options.domain = dom
      /\ OtherOptions(b.options, w.options, "domain")
      /\ w.destination = <<[kind |-> "SocketAddrs", text |-> <<>>, addrs |-> addrs]>>
  BY <1>2 DEF Verified
<1>5. ToldTo(w, g)
  BY <1>4 DEF KnownOf, ToldTo, OtherOptions
<1>6. /\ IsAddrs(addrs) /\ Range(addrs) \subseteq Range(g.destination[1].addrs)
      /\ g.late \intersect {"ipv4", "options"} = {} /\ g.options.ipv4_only /\ ~Direct(g.destination[1]) =>
            \A a \in Range(addrs) : a.v4
  BY <1>2, AddressesOfGiven
<1>7. ResolvedFrom(w, g, TRUE)
  <2>1. Len(w.destination) = 1 /\ w.destination[1].addrs = addrs /\ Direct(w.destination[1])
    BY <1>4 DEF Direct
  <2> QED
    BY <1>2, <1>3, <1>6, <2>1 DEF ResolvedFrom, IsAddrs
<1>8. w.options.use_tls => w.options.domain # <<>>
  <2>1. w.options.use_tls = b.options.use_tls
    BY <1>4 DEF OtherOptions
  <2>2. <<domain(b.destination[1])>> # <<>>
    OBVIOUS
  <2> QED
    BY <1>2, <1>4, <2>1, <2>2
<1>9. NamedFrom(w, g, TRUE)
  <2> SUFFICES ASSUME InTime(g) PROVE NamedFrom(w, g, TRUE)
    BY DEF NamedFrom
  <2>1. CASE b.options.use_tls /\ b.options.domain = <<>>
    <3>1. b.destination = g.destination
      BY <2>1 DEF KnownOf, NamedWhenVerified
    <3>2. g.options.domain = <<>> /\ g.options.use_tls
      BY <2>1 DEF KnownOf, NamedFrom, ToldTo
    <3> QED
      BY <1>2, <1>4, <2>1, <3>1, <3>2 DEF NamedFrom
  <2>2. CASE ~(b.options.use_tls /\ b.options.domain = <<>>)
    BY <1>2, <1>4, <2>2 DEF KnownOf, NamedFrom
  <2> QED
    BY <2>1, <2>2
<1>10. NamedWhenVerified(w, g, TRUE)
  BY <1>4, <1>8 DEF NamedWhenVerified
<1> QED
  BY <1>4, <1>5, <1>7, <1>9, <1>10 DEF KnownOf, w

\* What Client::connect connects to.
LEMMA ConnectGives ==
  ASSUME NEW b, IsBuilder(b), b.destination # <<>>, IsAddrs(b.destination[1].addrs),
         client_connect(b).st = "ok"
  PROVE  \E addrs :
            /\ addrs # <<>> /\ ResolvesTo(b.destination[1], b.options.ipv4_only, addrs)
            /\ client_connect(b).v.options = b.options
            /\ client_connect(b).v.to.addr = addrs[1]
            /\ client_connect(b).v.to.domain =
                  IF ~b.options.use_tls THEN <<>>
                  ELSE <<IF b.options.domain = <<>> THEN addrs[1].ip ELSE b.options.domain[1]>>
<1> DEFINE r == resolve(b.destination[1], b.options.ipv4_only)
           c == connect_inner(r.v, b.options)
<1>1. r.st = "ok"
  BY DEF client_connect, Then
<1>2. c.st = "ok" /\ client_connect(b).v = [to |-> c.v, options |-> b.options, settings |-> b.settings]
  BY <1>1 DEF client_connect, Then, Ok
<1>3. r.v # <<>>
  BY <1>2 DEF connect_inner, connect_tls, connect_socket, Then, Fail
<1>4. /\ c.v.addr = r.v[1]
      /\ c.v.domain = IF ~b.options.use_tls THEN <<>>
                      ELSE <<IF b.options.domain = <<>> THEN r.v[1].ip ELSE b.options.domain[1]>>
  BY <1>3 DEF connect_inner, connect_tls, connect_socket, Then, Fail, Ok
<1>5. ResolvesTo(b.destination[1], b.options.ipv4_only, r.v)
  BY <1>1, ResolveGives DEF IsBuilder, IsOptions
<1>6. client_connect(b).v.to = c.v /\ client_connect(b).v.options = b.options
  BY <1>2
<1> HIDE DEF r, c
<1> QED
  BY <1>3, <1>4, <1>5, <1>6

\* A client that was connected as the caller asked.
AsGiven(c, g) ==
    LET d == g.destination[1]
        o == g.options
    IN /\ c.to.addr \in Range(d.addrs)
       /\ c.options.use_tls = o.use_tls /\ c.options.compression = o.compression /\ c.options.ext = o.ext
       /\ g.late \intersect {"ipv4", "options"} = {} /\ o.ipv4_only /\ ~Direct(d) => c.to.addr.v4
       /\ InTime(g) =>
             c.to.domain = IF ~o.use_tls THEN <<>> ELSE IF o.domain # <<>> THEN o.domain ELSE <<domain(d)>>

LEMMA ConnectAsGiven ==
  ASSUME NEW b, NEW g, NEW seen, IsBuilder(b), IsGiven(g), KnownOf(b, g, seen), b.verified,
         client_connect(b).st = "ok"
  PROVE  AsGiven(client_connect(b).v, g)
<1> DEFINE c == client_connect(b).v
<1>1. b.destination # <<>> /\ (b.options.use_tls => b.options.domain # <<>>)
  BY DEF KnownOf, NamedWhenVerified
<1>2. IsAddrs(b.destination[1].addrs)
  BY <1>1, DestinationHasAddrs
<1>3. PICK addrs :
         /\ addrs # <<>> /\ ResolvesTo(b.destination[1], b.options.ipv4_only, addrs)
         /\ c.options = b.options /\ c.to.addr = addrs[1]
         /\ c.to.domain = IF ~b.options.use_tls THEN <<>>
                          ELSE <<IF b.options.domain = <<>> THEN addrs[1].ip ELSE b.options.domain[1]>>
  BY <1>1, <1>2, ConnectGives
<1> HIDE DEF c
<1>4. /\ IsAddrs(addrs) /\ Range(addrs) \subseteq Range(g.destination[1].addrs)
      /\ g.late \intersect {"ipv4", "options"} = {} /\ g.options.ipv4_only /\ ~Direct(g.destination[1]) =>
            \A a \in Range(addrs) : a.v4
  BY <1>1, <1>3, AddressesOfGiven
<1>5. addrs[1] \in Range(addrs)
  <2>1. 1 \in DOMAIN addrs
    BY <1>3, <1>4 DEF IsAddrs, ResolvesTo
  <2> QED
    BY <2>1 DEF Range
<1>6. /\ c.options.use_tls = g.options.use_tls /\ c.options.compression = g.options.compression
      /\ c.options.ext = g.options.ext
  BY <1>3 DEF KnownOf, ToldTo
<1>7. ASSUME InTime(g)
      PROVE  c.to.domain = IF ~g.options.use_tls THEN <<>>
                           ELSE IF g.options.domain # <<>> THEN g.options.domain
                                ELSE <<domain(g.destination[1])>>
  <2>1. b.options.use_tls = g.options.use_tls
    BY DEF KnownOf, ToldTo
  <2>2. CASE ~b.options.use_tls
    BY <1>3, <2>1, <2>2
  <2>3. CASE b.options.use_tls
    <3>1. c.to.domain = b.options.domain
      BY <1>1, <1>3, <2>3 DEF IsBuilder, IsOptions
    <3> QED
      BY <1>1, <1>7, <2>1, <2>3, <3>1 DEF KnownOf, NamedFrom
  <2> QED
    BY <2>2, <2>3 DEF IsBuilder, IsOptions
<1> QED
  BY <1>3, <1>4, <1>5, <1>6, <1>7 DEF AsGiven, c

\* build verifies what is not verified, and connects.
LEMMA BuildAsGiven ==
  ASSUME Shapes, BuilderInv, build(builder).st = "ok"
  PROVE  AsGiven(build(builder).v, given)
<1>1. CASE builder.verified
  <2>1. build(builder) = client_connect(builder)
    BY <1>1 DEF build, Then, Ok
  <2> QED
    BY <1>1, <2>1, ConnectAsGiven DEF Shapes, BuilderInv
<1>2. CASE ~builder.verified
  <2>1. verify(builder).st = "ok" /\ build(builder) = client_connect(verify(builder).v)
    BY <1>2 DEF build, Then
  <2>2. /\ IsBuilder(verify(builder).v) /\ KnownOf(verify(builder).v, given, TRUE)
        /\ verify(builder).v.verified
    BY <2>1, VerifyKeeps DEF Shapes, BuilderInv
  <2> QED
    BY <2>1, <2>2, ConnectAsGiven DEF Shapes
<1> QED
  BY <1>1, <1>2

-----------------------------------------------------------------------------
\* Only an owner that is done with its setters dials.
Dialled == dialled # <<>> => owner # "caller" /\ Len(dialled) = 1 /\ AsGiven(dialled[1], given)
IInv == Shapes /\ BuilderInv /\ Dialled

LEMMA SetterStep ==
  ASSUME IInv, Shapes' /\ BuilderInv', owner = "caller", UNCHANGED <<owner, dialled>>
  PROVE  IInv'
  BY DEF IInv, Dialled

\* Building and connecting leave the builder as it is.
LEMMA DialStep ==
  ASSUME IInv, UNCHANGED <<builder, given>>, owner' # "caller", Seen => Seen',
         dialled' = IF build(builder).st = "ok" THEN <<build(builder).v>> ELSE <<>>
  PROVE  IInv'
<1>1. Shapes' /\ BuilderInv'
  BY DEF IInv, Shapes, BuilderInv, KnownOf, ResolvedFrom, NamedFrom, NamedWhenVerified
<1>2. Dialled'
  BY BuildAsGiven DEF IInv, Dialled
<1> QED
  BY <1>1, <1>2 DEF IInv

\* A verification, by the caller or for a pool.
LEMMA VerifyStep ==
  ASSUME IInv, owner = "caller", UNCHANGED dialled,
         builder' = IF verify(builder).st = "ok" THEN verify(builder).v ELSE builder,
         given' = given \/ PutsSeen(given, given'), verify(builder).st = "ok" => Seen', Seen => Seen'
  PROVE  IInv'
<1>1. /\ IsGiven(given') /\ given'.destination = given.destination
      /\ given'.options = given.options /\ given'.late = given.late
  BY GivenSet DEF IInv, Shapes, GivenAs
<1>2. dialled' = <<>>
  BY DEF IInv, Dialled
<1>3. IsBuilder(builder') /\ KnownOf(builder', given, Seen')
  <2>1. CASE verify(builder).st = "ok"
    BY <2>1, VerifyKeeps DEF IInv, Shapes, BuilderInv, KnownOf, ResolvedFrom, NamedFrom, NamedWhenVerified
  <2>2. CASE verify(builder).st # "ok"
    BY <2>2 DEF IInv, Shapes, BuilderInv, KnownOf, ResolvedFrom, NamedFrom, NamedWhenVerified
  <2> QED
    BY <2>1, <2>2
<1>4. KnownOf(builder', given', Seen')
  BY <1>1, <1>3 DEF KnownOf, ToldTo, ResolvedFrom, NamedFrom, NamedWhenVerified, InTime
<1> QED
  BY <1>1, <1>2, <1>3, <1>4 DEF IInv, Shapes, BuilderInv, Dialled

LEMMA Step == IInv /\ [BuilderNext]_builderVars => IInv'
<1> SUFFICES ASSUME IInv, [BuilderNext]_builderVars PROVE IInv'
  OBVIOUS
<1>1. Shapes /\ BuilderInv
  BY DEF IInv
<1>2. ASSUME NEW d \in Destinations, WithDestination(d) PROVE IInv'
  BY <1>1, <1>2, DestinationKeeps, SetterStep DEF WithDestination, Setter
<1>3. ASSUME NEW o \in OptionSets, WithOptions(o) PROVE IInv'
  BY <1>1, <1>3, OptionsKeep, SetterStep DEF WithOptions, Setter
<1>4. ASSUME NEW e \in Exts, WithExt(e) PROVE IInv'
  BY <1>1, <1>4, ExtKeeps, SetterStep DEF WithExt, Setter
<1>5. ASSUME NEW x \in BOOLEAN, WithTls(x) PROVE IInv'
  BY <1>1, <1>5, TlsKeeps, SetterStep DEF WithTls, Setter
<1>6. ASSUME NEW x \in BOOLEAN, WithIpv4Only(x) PROVE IInv'
  BY <1>1, <1>6, Ipv4OnlyKeeps, SetterStep DEF WithIpv4Only, Setter
<1>7. ASSUME NEW d \in Domains, WithDomain(d) PROVE IInv'
  BY <1>1, <1>7, DomainKeeps, SetterStep DEF WithDomain, Setter
<1>8. ASSUME NEW c \in Credentials, WithCredentials(c) PROVE IInv'
  BY <1>1, <1>8, CredentialsKeep, SetterStep DEF WithCredentials, Setter
<1>9. ASSUME NEW m \in Methods, WithCompression(m) PROVE IInv'
  BY <1>1, <1>9, CompressionKeeps, SetterStep DEF WithCompression, Setter
<1>10. ASSUME NEW s, WithSettings(s) \/ WithSetting(s) PROVE IInv'
  BY <1>1, <1>10, SettingsKeep, SetterStep DEF WithSettings, WithSetting, Setter
<1>11. ASSUME Verify PROVE IInv'
  <2>1. PutsSeen(given, given')
    BY <1>11 DEF Verify, PutsSeen
  <2>2. given'.verified = TRUE
    BY <2>1, GivenSet DEF IInv, Shapes, GivenAs
  <2> QED
    BY <1>11, <2>1, <2>2, VerifyStep DEF Verify, Seen
<1>12. ASSUME PoolNew PROVE IInv'
  <2>1. verify(builder).st = "ok" => Seen'
    BY <1>12 DEF PoolNew, Seen
  <2>2. Seen => Seen'
    BY <1>12 DEF PoolNew, Seen
  <2> QED
    BY <1>12, <2>1, <2>2, VerifyStep DEF PoolNew
<1>13. ASSUME Build \/ PoolConnect PROVE IInv'
  <2>1. (Seen => Seen') /\ owner' # "caller"
    BY <1>13 DEF Build, PoolConnect, Seen
  <2> QED
    BY <1>13, <2>1, DialStep DEF Build, PoolConnect
<1>14. CASE UNCHANGED builderVars
  BY <1>14 DEF builderVars, IInv, Shapes, BuilderInv, Dialled, Seen
<1> QED
  BY <1>2, <1>3, <1>4, <1>5, <1>6, <1>7, <1>8, <1>9, <1>10, <1>11, <1>12, <1>13, <1>14 DEF BuilderNext

\* What is dialled, by a client or again and again by the manager of a pool, is the
\* destination that the caller gave last and the options given last, whatever was verified
\* in between (ClientBuilder::verify, build; ConnectionManager::try_new_with_builder, connect).
THEOREM AlwaysAsGiven == BuilderSpec => []DialsAsGiven
<1>1. BuilderInit => IInv
  BY Start DEF IInv, Dialled, BuilderInit
<1>2. IInv => DialsAsGiven
  BY DEF IInv, Dialled, DialsAsGiven, AsGiven, InTime
<1> QED
  BY <1>1, <1>2, Step, PTL DEF BuilderSpec
=============================================================================
