---------------------------- MODULE StreamProofs ----------------------------
(***************************************************************************)
(* Proofs about the response streams of module Connection.  When packets   *)
(* arrive whole:                                                           *)
(*                                                                         *)
(*   AlwaysInOrder    a stream yields blocks in the server's order, none   *)
(*                    twice, and nothing after an error                    *)
(*   NeverGap         it has no hole but the blocks of cancelled reads     *)
(*   AlwaysWhole      one that ends without an error, and was not cut      *)
(*                    short, is the whole answer but for those             *)
(*                                                                         *)
(* All three are about the query that is executing: what its caller has    *)
(* (Yielded), what the io task holds, what is on the wire, and what the    *)
(* server will still send must fit together.  The other queries have no    *)
(* stream yet (Fresh), or one that no longer changes.                      *)
(***************************************************************************)
EXTENDS ServiceProofs, Integers

USE ReqAssumption, KindAssumption, BoundAssumption

-----------------------------------------------------------------------------
(* What a step does to the items of the streams.                           *)

SameItems == \A r \in Req : Yielded(r)' = Yielded(r)

Adds(e, item) ==
    /\ Len(Yielded(e)') = Len(Yielded(e)) + 1
    /\ Yielded(e)'[Len(Yielded(e)) + 1] = item
    /\ \A k \in 1..Len(Yielded(e)) : Yielded(e)'[k] = Yielded(e)[k]
    /\ \A r \in Req \ {e} : Yielded(r)' = Yielded(r)

LEMMA YieldedType ==
  ASSUME TypeOK, NEW r \in Req
  PROVE  /\ Yielded(r) \in Seq(Items) /\ Len(Yielded(r)) \in Nat
         /\ Len(Yielded(r)) = Len(got[r]) + Len(chan[r])
         /\ Len(got[r]) \in Nat /\ Len(chan[r]) \in Nat
         /\ \A k \in 1..Len(Yielded(r)) : Yielded(r)[k] \in Items /\ Yielded(r)[k] \in Nat
<1>1. got[r] \in Seq(Items) /\ chan[r] \in Seq(Items)
  BY DEF TypeOK, CallsTypeOK, ChannelsTypeOK
<1>2. Yielded(r) \in Seq(Items) /\ Len(Yielded(r)) = Len(got[r]) + Len(chan[r])
  BY <1>1 DEF Yielded
<1>3. Items \subseteq Nat
  BY DEF Items
<1> DEFINE y == Yielded(r)
<1> HIDE DEF y
<1>4. y \in Seq(Items)
  BY <1>2 DEF y
<1>5. Len(y) \in Nat /\ \A k \in 1..Len(y) : y[k] \in Items
  BY <1>4
<1>6. \A k \in 1..Len(y) : y[k] \in Items /\ y[k] \in Nat
  BY <1>3, <1>5
<1>7. Len(got[r]) \in Nat /\ Len(chan[r]) \in Nat
  BY <1>1
<1> QED
  BY <1>2, <1>5, <1>6, <1>7 DEF y

\* Nothing is read and nothing is sent.
LEMMA StreamsSame ==
  ASSUME UNCHANGED <<got, chan>>
  PROVE  SameItems
BY DEF SameItems, Yielded

\* An item that is sent to a stream is its last one.
LEMMA StreamAdds ==
  ASSUME TypeOK, UNCHANGED got, NEW e \in Req, NEW item \in Items,
         chan' = [chan EXCEPT ![e] = Append(@, item)]
  PROVE  Adds(e, item)
<1> DEFINE g == got[e]
           c == chan[e]
<1>1. g \in Seq(Items) /\ c \in Seq(Items) /\ chan \in [Req -> Seq(Items)]
  BY DEF TypeOK, CallsTypeOK, ChannelsTypeOK
<1>2. Yielded(e) = g \o c /\ Yielded(e)' = g \o Append(c, item)
  BY <1>1 DEF Yielded
<1>3. \A r \in Req \ {e} : Yielded(r)' = Yielded(r)
  BY <1>1 DEF Yielded
<1> HIDE DEF g, c
<1>4. /\ Len(g \o Append(c, item)) = Len(g \o c) + 1
      /\ (g \o Append(c, item))[Len(g \o c) + 1] = item
      /\ \A k \in 1..Len(g \o c) : (g \o Append(c, item))[k] = (g \o c)[k]
  BY <1>1
<1> QED
  BY <1>2, <1>3, <1>4 DEF Adds

\* An item that the caller takes stays an item of its stream.
LEMMA StreamTakes ==
  ASSUME TypeOK, NEW r \in Req, PollStream(r)
  PROVE  SameItems
<1> DEFINE g == got[r]
           c == chan[r]
<1>1. /\ g \in Seq(Items) /\ c \in Seq(Items) /\ chan \in [Req -> Seq(Items)]
      /\ got \in [Req -> Seq(Items)]
  BY DEF TypeOK, CallsTypeOK, ChannelsTypeOK
<1>2. CASE c # <<>> /\ got' = [got EXCEPT ![r] = Append(@, Head(c))]
           /\ chan' = [chan EXCEPT ![r] = Tail(@)]
  <2>1. Yielded(r) = g \o c /\ Yielded(r)' = Append(g, Head(c)) \o Tail(c)
    BY <1>1, <1>2 DEF Yielded
  <2>2. \A q \in Req \ {r} : Yielded(q)' = Yielded(q)
    BY <1>1, <1>2 DEF Yielded
  <2> HIDE DEF g, c
  <2>3. c # <<>>
    BY <1>2
  <2> DEFINE a == Append(g, Head(c)) \o Tail(c)
             b == g \o c
  <2>4. /\ Len(Tail(c)) = Len(c) - 1 /\ Tail(c) \in Seq(Items) /\ Head(c) = c[1]
        /\ \A i \in 1..Len(Tail(c)) : Tail(c)[i] = c[i + 1]
        /\ Len(c) \in Nat \ {0} /\ Len(g) \in Nat /\ Head(c) \in Items
    BY <1>1, <2>3
  <2>5. /\ Append(g, Head(c)) \in Seq(Items) /\ Len(Append(g, Head(c))) = Len(g) + 1
        /\ \A i \in 1..Len(g) : Append(g, Head(c))[i] = g[i]
        /\ Append(g, Head(c))[Len(g) + 1] = Head(c)
    BY <1>1, <2>4
  <2>6. a \in Seq(Items) /\ b \in Seq(Items) /\ Len(a) = Len(b)
    BY <1>1, <2>4, <2>5
  <2>7. ASSUME NEW i \in 1..Len(a) PROVE a[i] = b[i]
    BY <1>1, <2>4, <2>5, <2>6
  <2>8. a = b
    BY <2>6, <2>7
  <2> QED
    BY <2>1, <2>2, <2>8 DEF SameItems
<1>3. CASE UNCHANGED <<got, chan>>
  BY <1>3, StreamsSame
<1> QED
  BY <1>2, <1>3 DEF PollStream


-----------------------------------------------------------------------------
(* What a step does to the query that is executing.                        *)

Live(e) == Running /\ executing = e
BlockAt(i) == wireOut[i].p = "Block"

\* The server has not sent the header yet, or has.
Early == {"tables", "plan", "start"}
Late == {"rows", "input", "finish"}

KeepsOk == \A r \in Req \ Pings : resp[r] = "ok" => resp'[r] = "ok"

\* Nothing happens to the answer; the server may read the query or data.
Rests ==
    /\ UNCHANGED <<wireOut, made, state>> /\ SameItems
    /\ ~NoLive' \/ srvPhase' \in Early => ~NoLive \/ srvPhase \in Early
    /\ srvPhase' \in Late => srvPhase \in Late
    /\ held' = held \/ held'.p # "Block"
    /\ held.p = "Block" => held' = held \/ held \in dropped' \/ ~RxOpen(executing)

\* The block that waited for room is sent.
HandsOver(e) ==
    /\ UNCHANGED <<wireOut, made, state, srvPhase>> /\ NoLive = NoLive'
    /\ held.p = "Block" /\ held'.p # "Block" /\ RxOpen(e) /\ Adds(e, held.n)

\* receive_packet takes the header, something without items, or a block.
TakesHeader == /\ BlockAt(1) /\ state = "Header" /\ state' = "InProgress"
               /\ held'.p # "Block" /\ SameItems
TakesOther == /\ ~BlockAt(1) /\ wireOut[1].p # "EndOfStream" /\ state' = state
              /\ held'.p # "Block" /\ SameItems
TakesBlock(e) ==
    /\ BlockAt(1) /\ state # "Header" /\ state' = state
    /\ \/ held'.p # "Block" /\ RxOpen(e) /\ Adds(e, wireOut[1].n)
       \/ held'.p # "Block" /\ ~RxOpen(e) /\ SameItems
       \/ held' = wireOut[1] /\ ~HasRoom(e) /\ SameItems
Takes(e) == /\ wireOut # <<>> /\ wireOut' = Tail(wireOut)
            /\ held.p # "Block" /\ NoLive' /\ UNCHANGED <<made, srvPhase>>
            /\ TakesHeader \/ TakesOther \/ TakesBlock(e)

\* The server sends a packet.
Sends(kind, e, n) == wireOut' = Append(wireOut, Packet(kind, e, n))
Answers(e) ==
    /\ NoLive' /\ UNCHANGED <<state, held>> /\ SameItems
    /\ \/ /\ Sends("Progress", e, 0) /\ srvPhase \in Early /\ srvPhase' \in Early
          /\ UNCHANGED made
       \/ /\ Sends("Block", e, 0) /\ srvPhase \in Early /\ srvPhase' \in Late
          /\ UNCHANGED made
       \/ /\ Sends("Block", e, made[e] + 1) /\ srvPhase \in Late /\ srvPhase' = srvPhase
          /\ made' = [made EXCEPT ![e] = @ + 1]
       \/ /\ \/ Sends("EndOfStream", e, 0) /\ e \in finished'
             \/ Sends("Exception", e, 0)
             \/ Sends("Fatal", e, 0)
          /\ srvPhase \in Early \cup Late /\ srvPhase' = "idle" /\ UNCHANGED made

\* The connection is lost, with some of what is on the wire.
Loses == /\ srvPhase' = "idle" /\ NoLive' /\ UNCHANGED <<made, state, held>> /\ SameItems
         /\ \E k \in 0..Len(wireOut) : wireOut' = SubSeq(wireOut, 1, k)

GoesOn(e) == Rests \/ HandsOver(e) \/ Takes(e) \/ Answers(e) \/ Loses

\* A query starts on a quiet connection.
Begins(e) ==
    /\ e \notin Pings /\ resp[e] = "open"
    /\ wireOut' = <<>> /\ srvPhase' = "idle" /\ state' = "Header" /\ held'.p # "Block"
    /\ Yielded(e)' = Yielded(e) /\ UNCHANGED made

\* What any step may do to the streams: one item for the query that is executing,
\* and nothing after an error.
StreamStep ==
    /\ \/ SameItems
       \/ \E e \in Req : /\ Live(e) /\ RxOpen(e)
                         /\ \E item \in Items : Adds(e, item) /\ (~Live(e)' => item = ErrItem)
    /\ \A e \in Req : Live(e) /\ Live(e)' => GoesOn(e)
    /\ \A e \in Req : ~Live(e) /\ Live(e)' => Begins(e)

\* A call that is over has no receiver, and never has one again.
LEMMA CallStream ==
  ASSUME TypeOK, QueriesOnce,
         \/ \E r \in Req : Call(r) \/ Abandon(r)
         \/ ShutdownSend \/ ShutdownAbort \/ DropConnection
  PROVE  StreamStep /\ KeepsOk /\ SameItems /\ Rests
<1>1. UNCH_IO
  BY DEF Call, CheckChannel, CheckStatus, SendOperation, AwaitResponse, AwaitPong, AwaitHeader,
         AwaitInsert, PollStream, Abandon, ShutdownSend, ShutdownAbort, DropConnection
<1>2. SameItems
  BY StreamsSame, StreamTakes
  DEF Call, CheckChannel, CheckStatus, SendOperation, AwaitResponse, AwaitPong, AwaitHeader,
      AwaitInsert, Abandon, ShutdownSend, ShutdownAbort, DropConnection, callVars
<1>3. KeepsOk
  <2>1. ASSUME NEW r \in Req, SendOperation(r), NEW q \in Req \ Pings, resp[q] = "ok"
        PROVE  resp'[q] = "ok"
    <3>1. pc[r] = "send" /\ r \in Req \ Pings => resp[r] = "none"
      BY DEF QueriesOnce, UnsentFresh
    <3>2. UNCHANGED resp \/ (pc[r] = "send" /\ resp' = [resp EXCEPT ![r] = "open"])
      BY <2>1 DEF SendOperation
    <3>3. DOMAIN resp = Req
      BY DEF TypeOK, CallsTypeOK
    <3> QED
      BY <2>1, <3>1, <3>2, <3>3
  <2>2. CASE UNCHANGED resp
    BY <2>2 DEF KeepsOk
  <2> QED
    BY <2>1, <2>2
    DEF KeepsOk, Call, CheckChannel, CheckStatus, AwaitResponse, AwaitPong, AwaitHeader,
        AwaitInsert, PollStream, Abandon, ShutdownSend, ShutdownAbort, DropConnection
<1>4. /\ UNCHANGED <<executing, io, held, state, wireIn, wireOut, srvPhase, made>>
  BY <1>1 DEF UNCH_IO, ioVars, srvVars
<1>5. NoLive' = NoLive /\ \A e : Live(e)' = Live(e)
  BY <1>4 DEF NoLive, Live, Running
<1>6. Rests
  BY <1>2, <1>4, <1>5 DEF Rests
<1> QED
  BY <1>2, <1>3, <1>5, <1>6 DEF StreamStep, GoesOn


\* A step that leaves the wire, the server and the streams alone.
LEMMA RestsStream ==
  ASSUME UNCHANGED <<wireOut, made, state, srvPhase, executing>>, SameItems, NoLive' = NoLive,
         held'.p # "Block", held.p = "Block" => held \in dropped', Running
  PROVE  StreamStep
BY DEF StreamStep, GoesOn, Rests, Live

\* A packet of the client that is not a request leaves the line as quiet as it was.
LEMMA DataNotLive ==
  ASSUME TypeOK, NEW r \in Req, Write(<<Packet("Data", r, 0), Packet("Delim", r, 0)>>)
  PROVE  NoLive' = NoLive
<1>1. wireIn \in Seq(ClientPackets)
  BY IoTypeParts
<1> DEFINE a == Packet("Data", r, 0)
           b == Packet("Delim", r, 0)
<1>2. a \in ClientPackets /\ b \in ClientPackets /\ a.p \notin LiveKinds /\ b.p \notin LiveKinds
  BY DEF Packet, ClientPackets, ClientKinds, LiveKinds
<1>3. wireIn' = wireIn \o <<a, b>> \/ wireIn' = wireIn
  BY DEF Write
<1> HIDE DEF a, b
<1>4. CASE wireIn' = wireIn \o <<a, b>>
  <2> DEFINE t == wireIn \o <<a, b>>
  <2>1. /\ Len(t) = Len(wireIn) + 2 /\ Len(wireIn) \in Nat
        /\ \A i \in 1..Len(wireIn) : t[i] = wireIn[i]
        /\ t[Len(wireIn) + 1] = a /\ t[Len(wireIn) + 2] = b
    BY <1>1, <1>2
  <2> HIDE DEF t
  <2>2. \A i \in 1..Len(t) : i \in 1..Len(wireIn) \/ t[i] \in {a, b}
    BY <2>1
  <2>3. wireIn' = t /\ \A i \in 1..Len(wireIn) : i \in 1..Len(t)
    BY <1>4, <2>1 DEF t
  <2>4. NoLive' => NoLive
    BY <2>1, <2>3 DEF NoLive
  <2>5. NoLive => NoLive'
    BY <1>2, <2>1, <2>2, <2>3 DEF NoLive
  <2> QED
    BY <2>4, <2>5 DEF NoLive
<1> QED
  BY <1>3, <1>4 DEF NoLive

\* What handle_operation does to the streams.
LEMMA OperationStream ==
  ASSUME TypeOK, InStep, Whole, QueriesOnce, HandleOperation
  PROVE  StreamStep /\ KeepsOk
<1> USE DEF IoUnchanged, callVars, srvVars
<1>0. /\ DOMAIN resp = Req /\ executing \in Req \cup {NoReq} /\ ops \in Seq(Messages)
      /\ io = "sending" => executing \in Req
  BY DEF TypeOK, CallsTypeOK, ChannelsTypeOK, IoTypeOK
<1>1. ASSUME NEW op, NEW r, RecvOperation(op, r)
      PROVE  /\ wireOut' = wireOut /\ Running /\ Current = executing
             /\ executing = NoReq => wireOut = <<>> /\ srvPhase = "idle"
             /\ held.p = "Block" => held \in dropped'
  <2>1. wireOut' = wireOut /\ Running /\ Current = executing
    BY <1>1 DEF RecvOperation, Whole, Running, Current
  <2>2. held.p = "Block" => held \in dropped'
    BY <1>1 DEF RecvOperation, NoPacket, Packet
  <2> QED
    BY <2>1, <2>2, IdleQuiet DEF Quiet
<1>2. NoPacket.p # "Block"
  BY DEF NoPacket, Packet
<1>3. ASSUME executing = NoReq, executing' = NoReq, SameItems PROVE StreamStep
  BY <1>3 DEF StreamStep, Live
<1>4. ASSUME NEW r \in Req, HandlePing(r) PROVE StreamStep /\ KeepsOk
  <2>1. /\ UNCHANGED <<got, chan, made, state, srvPhase, executing, resp, wireOut>> /\ Running
        /\ held' = NoPacket /\ (held.p = "Block" => held \in dropped')
    BY <1>1, <1>4 DEF HandlePing
  <2>2. executing # NoReq => NoLive' = NoLive
    BY <1>4 DEF HandlePing, NoLive
  <2> QED
    BY <1>2, <1>3, <2>1, <2>2, RestsStream, StreamsSame DEF KeepsOk
<1>5. ASSUME NEW r \in Req, HandleQuery(r) PROVE StreamStep /\ KeepsOk
  <2>1. /\ UNCHANGED <<got, chan, made, srvPhase, wireOut>> /\ Running
        /\ held' = NoPacket /\ RecvOperation("Query", r)
        /\ held.p = "Block" => held \in dropped'
    BY <1>1, <1>5 DEF HandleQuery
  <2>2. r \notin Pings /\ resp[r] = "open"
    <3>1. ops # <<>> /\ Head(ops) = Message("Query", r)
      BY <2>1 DEF RecvOperation
    <3>2. 1 \in 1..Len(ops) /\ ops[1].op = "Query" /\ ops[1].req = r
      BY <1>0, <3>1, TailElements DEF Message
    <3> QED
      BY <3>2 DEF QueriesOnce, WaitingOpen
  <2>3. CASE pending = <<>> /\ executing = NoReq
    <3>1. Sent(r) /\ (io' = "select" => state' = "Header")
      BY <1>5, <2>3, SendQuerySent DEF HandleQuery, SendQuery
    <3>2. wireOut' = <<>> /\ srvPhase' = "idle"
      BY <1>1, <2>1, <2>3
    <3>3. SameItems
      BY <2>1, StreamsSame
    <3>4. \A e \in Req : Live(e)' => e = r /\ state' = "Header"
      BY <3>1 DEF Live, Sent, Running
    <3>5. \A e \in Req : Live(e)' => Begins(e)
      BY <1>2, <2>1, <2>2, <3>2, <3>3, <3>4 DEF Begins, SameItems
    <3>6. \A e \in Req : ~Live(e)
      BY <2>3 DEF Live
    <3>7. KeepsOk
      BY <1>0, <2>2, <3>1 DEF KeepsOk, Sent
    <3> QED
      BY <3>3, <3>5, <3>6, <3>7 DEF StreamStep
  <2>4. CASE ~(pending = <<>> /\ executing = NoReq)
    <3>1. UNCHANGED <<resp, executing, state, wireIn>>
      BY <1>5, <2>4 DEF HandleQuery
    <3>2. NoLive' = NoLive
      BY <3>1 DEF NoLive
    <3> QED
      BY <1>2, <2>1, <3>1, <3>2, RestsStream, StreamsSame DEF KeepsOk
  <2> QED
    BY <2>3, <2>4
<1>6. ASSUME NEW r \in Req, HandleInsert(r) PROVE StreamStep /\ KeepsOk
  <2>1. /\ UNCHANGED <<got, chan, made, state, srvPhase, executing, resp, wireOut>> /\ Running
        /\ held' = NoPacket /\ Write(<<Packet("Data", r, 0), Packet("Delim", r, 0)>>)
        /\ held.p = "Block" => held \in dropped'
    BY <1>1, <1>6 DEF HandleInsert
  <2> QED
    BY <1>2, <2>1, DataNotLive, RestsStream, StreamsSame DEF KeepsOk
<1>7. ASSUME NEW r \in Req, HandleInsertFails(r) PROVE StreamStep /\ KeepsOk
  <2>1. /\ UNCHANGED <<got, made, state, srvPhase, executing, resp, wireIn, wireOut>> /\ Running
        /\ held.p = "Block" => held \in dropped'
    BY <1>1, <1>7 DEF HandleInsertFails
  <2>2. KeepsOk
    BY <2>1 DEF KeepsOk
  <2>3. CASE executing = NoReq
    BY <1>3, <1>7, <2>1, <2>2, <2>3, StreamsSame DEF HandleInsertFails
  <2> DEFINE pkt == Packet("InsertError", executing, ErrItem)
  <2>4. pkt.p # "Block" /\ ItemOf(pkt) = ErrItem /\ ErrItem \in Items
    BY DEF Packet, ItemOf, ErrItem, Items
  <2>5. CASE executing # NoReq /\ HasRoom(executing)
    <3>1. /\ io' = "retErr"
          /\ chan' = IF RxOpen(executing)
                       THEN [chan EXCEPT ![executing] = Append(@, ItemOf(pkt))] ELSE chan
      BY <1>7, <2>5 DEF HandleInsertFails, SendItem
    <3> HIDE DEF pkt
    <3>2. executing \in Req /\ Live(executing) /\ \A e \in Req : ~Live(e)'
      BY <1>0, <2>1, <2>5, <3>1 DEF Live, Running
    <3>3. CASE RxOpen(executing)
      <4>1. Adds(executing, ErrItem)
        BY <2>1, <2>4, <3>1, <3>2, <3>3, StreamAdds
      <4> QED
        BY <2>2, <2>4, <3>2, <3>3, <4>1 DEF StreamStep
    <3>4. CASE ~RxOpen(executing)
      <4>1. SameItems
        BY <2>1, <3>1, <3>4, StreamsSame
      <4> QED
        BY <2>2, <3>2, <4>1 DEF StreamStep
    <3> QED
      BY <3>3, <3>4
  <2>6. CASE executing # NoReq /\ ~HasRoom(executing)
    <3>1. held' = pkt /\ UNCHANGED chan
      BY <1>7, <2>6 DEF HandleInsertFails, SendItem
    <3>2. NoLive' = NoLive
      BY <2>1 DEF NoLive
    <3> QED
      BY <2>1, <2>2, <2>4, <3>1, <3>2, RestsStream, StreamsSame
  <2> QED
    BY <2>3, <2>5, <2>6
<1>8. CASE HandleShutdown
  <2>1. UNCHANGED <<got, chan, resp>> /\ ~Running'
    BY <1>8 DEF HandleShutdown, Running
  <2> QED
    BY <2>1, StreamsSame DEF StreamStep, Live, KeepsOk
<1> QED
  BY <1>4, <1>5, <1>6, <1>7, <1>8 DEF HandleOperation


\* The end of one query and the start of the next.
LEMMA NextStarts ==
  ASSUME TypeOK, QueriesOnce, NEW e \in Req, Live(e), NEW kind, NextQuery \/ AfterException(kind),
         wireOut' = <<>>, srvPhase' = "idle", UNCHANGED made, held' = NoPacket,
         \A r \in Req \ {e} : Yielded(r)' = Yielded(r)
  PROVE  ~Live(e)' /\ KeepsOk /\ \A r \in Req : Live(r)' => Begins(r)
<1>0. /\ DOMAIN resp = Req /\ pending \in Seq(Req) /\ e # NoReq /\ executing = e
      /\ resp[e] = "ok" /\ NoPacket.p # "Block"
  BY DEF TypeOK, CallsTypeOK, IoTypeOK, Live, QueriesOnce, StartedAnswered, NoPacket, Packet
<1>1. CASE executing' = NoReq /\ UNCHANGED resp
  BY <1>1 DEF Live, KeepsOk
<1>2. CASE pending # <<>> /\ SendQuery(Head(pending))
  <2> DEFINE q == Head(pending)
  <2>1. 1 \in 1..Len(pending) /\ pending[1] = q /\ q \in Req
    BY <1>0, <1>2, TailElements
  <2>2. q \notin Pings /\ resp[q] = "open" /\ q # e
    BY <1>0, <2>1 DEF QueriesOnce, WaitingOpen
  <2>3. Sent(q) /\ (io' = "select" => state' = "Header")
    BY <1>2, SendQuerySent DEF SendQuery
  <2> HIDE DEF q
  <2>4. \A r \in Req : Live(r)' => r = q /\ state' = "Header"
    BY <2>3 DEF Live, Sent, Running
  <2>5. KeepsOk
    BY <1>0, <2>2, <2>3 DEF KeepsOk, Sent
  <2>6. \A r \in Req : Live(r)' => Begins(r)
    BY <1>0, <2>1, <2>2, <2>4 DEF Begins
  <2>7. ~Live(e)'
    BY <2>2, <2>4
  <2> QED
    BY <2>5, <2>6, <2>7
<1> QED
  BY <1>1, <1>2 DEF NextQuery, AfterException

\* SendItem, when there is room.
LEMMA ItemSent ==
  ASSUME TypeOK, NEW e \in Req, Live(e), UNCHANGED got, NEW item \in Items,
         chan' = IF RxOpen(e) THEN [chan EXCEPT ![e] = Append(@, item)] ELSE chan
  PROVE  /\ (RxOpen(e) /\ Adds(e, item)) \/ (~RxOpen(e) /\ SameItems)
         /\ \A r \in Req \ {e} : Yielded(r)' = Yielded(r)
<1>1. CASE RxOpen(e)
  BY <1>1, StreamAdds DEF Adds
<1>2. CASE ~RxOpen(e)
  BY <1>2, StreamsSame DEF SameItems
<1> QED
  BY <1>1, <1>2

\* A step that sends at most one item, and ends the query.
LEMMA EndsStream ==
  ASSUME NEW e \in Req, Live(e), ~Live(e)', \A r \in Req : Live(r)' => Begins(r),
         SameItems \/ (RxOpen(e) /\ Adds(e, ErrItem))
  PROVE  StreamStep
<1>1. ErrItem \in Items
  BY DEF ErrItem, Items
<1>2. \A r \in Req : Live(r) => r = e
  BY DEF Live
<1> QED
  BY <1>1, <1>2 DEF StreamStep

\* A step that the query goes on with.
LEMMA GoesOnStream ==
  ASSUME NEW e \in Req, Live(e), UNCHANGED executing, GoesOn(e),
         SameItems \/ (RxOpen(e) /\ \E item \in Items : Adds(e, item)), Running'
  PROVE  StreamStep
BY DEF StreamStep, Live


\* What the read branch of run_inner does to the streams.
LEMMA ReadStream ==
  ASSUME TypeOK, InStep, Whole, QueriesOnce, ReadPart \/ ReceivePacket \/ SendCompletes
  PROVE  StreamStep /\ KeepsOk
<1> USE DEF IoUnchanged, callVars, srvVars
<1>e. PICK e \in Req : e = executing
  BY ReadSteps DEF TypeOK, IoTypeOK
<1>0. /\ Live(e) /\ io \in {"select", "sending"}
      /\ io = "select" => held = NoPacket
      /\ UNCHANGED <<got, made, srvPhase, finished>>
  <2>1. executing # NoReq /\ io \in {"select", "sending"}
    BY ReadSteps
  <2>2. io = "select" => held = NoPacket
    BY DEF InStep, HeldInStep
  <2>3. UNCHANGED <<got, made, srvPhase, finished>>
    BY DEF ReadPart, ReceivePacket, ReceiveHeader, ReceiveProgress, ReceiveBlock, ReceiveException,
           ReceiveEndOfStream, ReceiveTorn, ReadFails, SendCompletes
  <2> QED
    BY <1>e, <2>1, <2>2, <2>3 DEF Live, Running
<1>1. NoPacket.p # "Block" /\ ErrItem \in Items
  BY DEF NoPacket, Packet, ErrItem, Items
<1>2. ASSUME NEW kinds, ReadPacket(kinds)
      PROVE  /\ io = "select" /\ wireOut # <<>> /\ wireOut' = Tail(wireOut) /\ NoLive
             /\ Head(wireOut) = wireOut[1] /\ wireOut[1].p \in kinds
             /\ wireOut[1] \in ServerPackets
             /\ wireOut[1].p \in FinalKinds => wireOut' = <<>> /\ srvPhase = "idle"
  <2>1. wireOut \in Seq(ServerPackets)
    BY IoTypeParts
  <2>2. wireOut # <<>> /\ Head(wireOut) = wireOut[1]
    BY <1>2, <2>1, TailElements DEF ReadPacket
  <2> QED
    BY <1>2, <2>2, ReadPacketType, ReadPacketWire DEF ReadPacket, Reading
<1>3. CASE ReadPart
  <2>1. UNCHANGED <<chan, resp, executing, io, held, state, wireIn, wireOut>>
    BY <1>3 DEF ReadPart
  <2>2. Rests /\ Running' /\ SameItems
    BY <1>0, <2>1, StreamsSame DEF Rests, NoLive, Live, Running
  <2> QED
    BY <1>0, <2>1, <2>2, GoesOnStream DEF GoesOn, KeepsOk
<1>4. CASE ReceiveHeader
  <2>1. /\ UNCHANGED <<chan, resp, executing, io, held, wireIn>> /\ ReadPacket({"Block"})
        /\ state = "Header" /\ state' = "InProgress"
    BY <1>4 DEF ReceiveHeader
  <2>2. SameItems /\ Running' /\ NoLive'
    BY <1>0, <1>2, <2>1, StreamsSame DEF NoLive, Live, Running
  <2>3. Takes(e)
    BY <1>0, <1>1, <1>2, <2>1, <2>2 DEF Takes, TakesHeader, BlockAt
  <2> QED
    BY <1>0, <2>1, <2>2, <2>3, GoesOnStream DEF GoesOn, KeepsOk
<1>5. CASE ReceiveProgress
  <2>1. /\ UNCHANGED <<chan, resp, executing, io, held, wireIn, state>>
        /\ ReadPacket({"Progress"})
    BY <1>5 DEF ReceiveProgress
  <2>2. SameItems /\ Running' /\ NoLive'
    BY <1>0, <1>2, <2>1, StreamsSame DEF NoLive, Live, Running
  <2>3. Takes(e)
    BY <1>0, <1>1, <1>2, <2>1, <2>2 DEF Takes, TakesOther, BlockAt
  <2> QED
    BY <1>0, <2>1, <2>2, <2>3, GoesOnStream DEF GoesOn, KeepsOk
<1>6. CASE ReceiveBlock
  <2> DEFINE pkt == Head(wireOut)
  <2>1. /\ UNCHANGED <<resp, executing, wireIn, state>> /\ ReadPacket({"Block"})
        /\ state = "InProgress" /\ SendItem(pkt, io' = "select")
    BY <1>6 DEF ReceiveBlock
  <2>2. /\ pkt.p = "Block" /\ ItemOf(pkt) = pkt.n /\ pkt.n \in Items /\ pkt = wireOut[1]
    BY <1>2, <2>1 DEF ServerPackets, ItemOf
  <2>3. /\ io' \in {"select", "sending"} /\ Running' /\ NoLive'
    BY <1>2, <2>1 DEF SendItem, Running, NoLive
  <2> HIDE DEF pkt
  <2>4. CASE HasRoom(e)
    <3>1. /\ held' = NoPacket
          /\ chan' = IF RxOpen(e) THEN [chan EXCEPT ![e] = Append(@, pkt.n)] ELSE chan
      BY <1>e, <2>1, <2>2, <2>4 DEF SendItem
    <3>2. (RxOpen(e) /\ Adds(e, pkt.n)) \/ (~RxOpen(e) /\ SameItems)
      BY <1>0, <2>2, <3>1, ItemSent
    <3>3. Takes(e)
      BY <1>0, <1>1, <1>2, <2>1, <2>2, <2>3, <3>1, <3>2 DEF Takes, TakesBlock, BlockAt
    <3> QED
      BY <1>0, <2>1, <2>2, <2>3, <3>2, <3>3, GoesOnStream DEF GoesOn, KeepsOk
  <2>5. CASE ~HasRoom(e)
    <3>1. held' = pkt /\ UNCHANGED chan
      BY <1>e, <2>1, <2>5 DEF SendItem
    <3>2. SameItems
      BY <1>0, <3>1, StreamsSame
    <3>3. Takes(e)
      BY <1>0, <1>1, <1>2, <2>1, <2>2, <2>3, <2>5, <3>1, <3>2 DEF Takes, TakesBlock, BlockAt
    <3> QED
      BY <1>0, <2>1, <2>3, <3>2, <3>3, GoesOnStream DEF GoesOn, KeepsOk
  <2> QED
    BY <2>4, <2>5
<1>7. CASE ReceiveException
  <2> DEFINE pkt == Head(wireOut)
  <2>1. /\ ReadPacket({"Exception", "Fatal"})
        /\ \/ HasRoom(e) /\ SendItem(pkt, AfterException(pkt.p))
           \/ /\ ~HasRoom(e) /\ SendItem(pkt, TRUE)
              /\ UNCHANGED <<resp, executing, state, pending, wireIn>>
    BY <1>e, <1>7 DEF ReceiveException
  <2>2. /\ pkt.p \in {"Exception", "Fatal"} /\ ItemOf(pkt) = ErrItem /\ pkt = wireOut[1]
        /\ wireOut' = <<>> /\ srvPhase = "idle"
    BY <1>2, <2>1 DEF ServerPackets, ItemOf, FinalKinds
  <2> HIDE DEF pkt
  <2>3. CASE HasRoom(e)
    <3>1. /\ held' = NoPacket /\ AfterException(pkt.p)
          /\ chan' = IF RxOpen(e) THEN [chan EXCEPT ![e] = Append(@, ErrItem)] ELSE chan
      BY <1>e, <2>1, <2>2, <2>3 DEF SendItem
    <3>2. /\ (RxOpen(e) /\ Adds(e, ErrItem)) \/ (~RxOpen(e) /\ SameItems)
          /\ \A r \in Req \ {e} : Yielded(r)' = Yielded(r)
      BY <1>0, <1>1, <3>1, ItemSent
    <3>3. ~Live(e)' /\ KeepsOk /\ \A r \in Req : Live(r)' => Begins(r)
      BY <1>0, <2>2, <3>1, <3>2, NextStarts
    <3> QED
      BY <1>0, <3>2, <3>3, EndsStream
  <2>4. CASE ~HasRoom(e)
    <3>1. /\ held' = pkt /\ UNCHANGED chan /\ io' = "sending"
          /\ UNCHANGED <<resp, executing, state, pending, wireIn>>
      BY <1>e, <2>1, <2>4 DEF SendItem
    <3>2. SameItems /\ Running' /\ NoLive'
      BY <1>0, <1>2, <2>1, <3>1, StreamsSame DEF Running, NoLive
    <3>3. Takes(e)
      BY <1>0, <1>1, <1>2, <2>1, <2>2, <3>1, <3>2 DEF Takes, TakesOther, BlockAt
    <3> QED
      BY <1>0, <3>1, <3>2, <3>3, GoesOnStream DEF GoesOn, KeepsOk
  <2> QED
    BY <2>3, <2>4
<1>8. CASE ReceiveEndOfStream
  <2>1. /\ ReadPacket({"EndOfStream"}) /\ NextQuery /\ UNCHANGED <<chan, held>>
    BY <1>8 DEF ReceiveEndOfStream
  <2>2. wireOut' = <<>> /\ srvPhase' = "idle" /\ held' = NoPacket
    BY <1>0, <1>2, <2>1 DEF FinalKinds
  <2>3. SameItems
    BY <1>0, <2>1, StreamsSame
  <2>4. ~Live(e)' /\ KeepsOk /\ \A r \in Req : Live(r)' => Begins(r)
    BY <1>0, <2>1, <2>2, <2>3, NextStarts DEF SameItems
  <2> QED
    BY <1>0, <2>3, <2>4, EndsStream
<1>9. CASE ReceiveTorn
  <2>1. wireOut # <<>> /\ Head(wireOut).p = "Torn"
    BY <1>9 DEF ReceiveTorn, ReadPacket
  <2>2. 1 \in 1..Len(wireOut) /\ wireOut[1].p = "Torn"
    BY <2>1, IoTypeParts, TailElements
  <2> QED
    BY <2>2 DEF Whole
<1>10. CASE ReadFails
  <2>1. UNCHANGED <<chan, resp>> /\ ~Running'
    BY <1>10 DEF ReadFails, Running
  <2> QED
    BY <1>0, <2>1, StreamsSame DEF StreamStep, Live, KeepsOk
<1>11. CASE SendCompletes
  <2>1. /\ io = "sending" /\ held' = NoPacket /\ UNCHANGED wireOut /\ held \in HeldPackets
        /\ chan' = IF RxOpen(e) THEN [chan EXCEPT ![e] = Append(@, ItemOf(held))] ELSE chan
    BY <1>e, <1>11, IoTypeParts DEF SendCompletes, SendItem, IoTypeOK
  <2>2. held.p \in {"Block", "InsertError", "Exception", "Fatal"} /\ held.n \in Items
    BY <2>1 DEF HeldPackets
  <2>3. ItemOf(held) = IF held.p = "Block" THEN held.n ELSE ErrItem
    BY DEF ItemOf
  <2>4. /\ (RxOpen(e) /\ Adds(e, ItemOf(held))) \/ (~RxOpen(e) /\ SameItems)
        /\ \A r \in Req \ {e} : Yielded(r)' = Yielded(r)
    <3>1. ItemOf(held) \in Items
      BY <1>1, <2>2, <2>3
    <3> QED
      BY <1>0, <2>1, <3>1, ItemSent
  <2>5. CASE held.p = "Block"
    <3>1. io' = "select" /\ UNCHANGED <<resp, executing, state, pending, wireIn>>
      BY <1>11, <2>5 DEF SendCompletes, SendItem
    <3>2. Running' /\ NoLive' = NoLive
      BY <3>1 DEF Running, NoLive
    <3>3. HandsOver(e) \/ Rests
      BY <1>e, <1>0, <1>1, <2>1, <2>3, <2>4, <2>5, <3>1, <3>2 DEF HandsOver, Rests
    <3> QED
      BY <1>0, <2>2, <2>3, <2>4, <2>5, <3>1, <3>2, <3>3, GoesOnStream DEF GoesOn, KeepsOk
  <2>6. CASE held.p = "InsertError"
    <3>1. io' = "retErr" /\ UNCHANGED resp
      BY <1>11, <2>6 DEF SendCompletes, SendItem
    <3>2. \A r \in Req : ~Live(r)'
      BY <3>1 DEF Live, Running
    <3> QED
      BY <1>0, <2>3, <2>4, <2>6, <3>1, <3>2, EndsStream DEF KeepsOk
  <2>7. CASE held.p \in {"Exception", "Fatal"}
    <3>1. AfterException(held.p)
      BY <1>11, <2>7 DEF SendCompletes, SendItem
    <3>2. srvPhase = "idle" /\ wireOut = <<>>
      BY <2>7 DEF InStep, HeldInStep, Quiet
    <3>3. ~Live(e)' /\ KeepsOk /\ \A r \in Req : Live(r)' => Begins(r)
      BY <1>0, <2>1, <2>4, <3>1, <3>2, NextStarts
    <3> QED
      BY <1>0, <2>3, <2>4, <2>7, <3>3, EndsStream
  <2> QED
    BY <2>2, <2>5, <2>6, <2>7
<1> QED
  BY <1>3, <1>4, <1>5, <1>6, <1>7, <1>8, <1>9, <1>10, <1>11 DEF ReceivePacket


\* While the server works on a request no other is on its way to it.
LEMMA BusyNotLive ==
  ASSUME InStep, srvPhase # "idle"
  PROVE  NoLive
BY DEF InStep, RequestInStep, NoLive

\* What the server reads leaves the answer alone.
LEMMA ServerReadRests ==
  ASSUME TypeOK, InStep, NEW e \in Req, Live(e), ServerRead
  PROVE  Rests
<1> DEFINE m == Head(wireIn)
<1>1. /\ wireIn \in Seq(ClientPackets) /\ wireIn # <<>> /\ ServerUnchanged
  BY IoTypeParts DEF ServerRead
<1>2. /\ m = wireIn[1] /\ 1 \in 1..Len(wireIn) /\ Len(Tail(wireIn)) = Len(wireIn) - 1
      /\ \A i \in 1..Len(Tail(wireIn)) : i + 1 \in 1..Len(wireIn) /\ Tail(wireIn)[i] = wireIn[i + 1]
  BY <1>1, TailElements
<1> HIDE DEF m
<1>3. wireIn' = Tail(wireIn) => (NoLive => NoLive')
  BY <1>2 DEF NoLive
<1>4. wireIn' = <<>> => NoLive'
  BY DEF NoLive
<1>5. m.p \in LiveKinds => ~NoLive /\ m.p = "Query"
  <2>1. io # "pinging"
    BY DEF Live, InStep, TaskInStep
  <2> QED
    BY <1>2, <2>1 DEF NoLive, InStep, RequestInStep
<1>6. SameItems /\ UNCHANGED <<held, state>>
  BY <1>1, StreamsSame DEF ServerUnchanged, callVars, ioVars
<1>7. \/ wireIn' = Tail(wireIn) /\ UNCHANGED <<wireOut, made, srvPhase>>
      \/ /\ wireIn' = Tail(wireIn) /\ UNCHANGED <<wireOut, made>>
         /\ m.p = "Query" /\ srvPhase' = "tables"
      \/ m.p = "Ping"
      \/ wireIn' = <<>> /\ UNCHANGED <<wireOut, made>> /\ srvPhase' = "idle"
      \/ /\ wireIn' = Tail(wireIn) /\ UNCHANGED <<wireOut, made>>
         /\ srvPhase = "tables" /\ srvPhase' = "plan"
      \/ /\ wireIn' = Tail(wireIn) /\ UNCHANGED <<wireOut, made>>
         /\ srvPhase = "input" /\ srvPhase' = "finish"
  BY DEF ServerRead, Hangup, srvVars, m
<1>8. "Ping" \in LiveKinds /\ "Query" \in LiveKinds
  BY DEF LiveKinds
<1> QED
  BY <1>3, <1>4, <1>5, <1>6, <1>7, <1>8 DEF Rests, Early, Late

\* What the server does to the streams: what it sends is for the query that executes.
LEMMA ServerStream ==
  ASSUME TypeOK, InStep, Server \/ Loss
  PROVE  StreamStep /\ KeepsOk /\ SameItems
<1>1. ServerUnchanged
  BY DEF Server, ServerRead, ServerProgress, ServerHeader, ServerBlock, ServerEnd, ServerFails, Loss
<1>2. /\ UNCHANGED <<resp, executing, io, held, state>> /\ SameItems /\ KeepsOk
  BY <1>1, StreamsSame DEF ServerUnchanged, callVars, ioVars, KeepsOk
<1>3. ASSUME NEW e \in Req, Live(e)
      PROVE  GoesOn(e)
  <2>1. /\ srvPhase # "idle" => srvReq = e /\ NoLive
        /\ made \in [Req -> Items]
    BY <1>3, BusyNotLive DEF InStep, ServerInStep, Current, Live, TypeOK, ServerTypeOK
  <2>2. CASE ServerRead
    BY <1>3, <2>2, ServerReadRests DEF GoesOn
  <2>3. CASE ServerProgress
    <3>1. Sends("Progress", e, 0) /\ srvPhase = "plan" /\ srvPhase' = "start" /\ UNCHANGED <<wireIn, made>>
      BY <2>1, <2>3 DEF ServerProgress, Reply, Sends
    <3>2. NoLive'
      BY <2>1, <3>1 DEF NoLive
    <3> QED
      BY <1>2, <3>1, <3>2 DEF GoesOn, Answers, Early
  <2>4. CASE ServerHeader
    <3>1. /\ Sends("Block", e, 0) /\ srvPhase \in {"plan", "start"}
          /\ srvPhase' \in {"input", "rows"} /\ UNCHANGED <<wireIn, made>>
      BY <2>1, <2>4 DEF ServerHeader, Reply, Sends
    <3>2. NoLive'
      BY <2>1, <3>1 DEF NoLive
    <3> QED
      BY <1>2, <3>1, <3>2 DEF GoesOn, Answers, Early, Late
  <2>5. CASE ServerBlock
    <3>1. /\ Sends("Block", e, made[e] + 1) /\ srvPhase = "rows" /\ srvPhase' = srvPhase
          /\ made' = [made EXCEPT ![e] = @ + 1] /\ UNCHANGED wireIn
      BY <2>1, <2>5 DEF ServerBlock, Reply, Sends
    <3>2. NoLive'
      BY <2>1, <3>1 DEF NoLive
    <3> QED
      BY <1>2, <3>1, <3>2 DEF GoesOn, Answers, Late
  <2>6. CASE ServerEnd \/ ServerFails
    <3>1. /\ srvPhase \in Early \cup Late /\ srvPhase' = "idle" /\ UNCHANGED <<wireIn, made>>
          /\ srvReq = e
      BY <2>1, <2>6 DEF ServerEnd, ServerFails, Early, Late
    <3>2. NoLive'
      BY <2>1, <3>1 DEF NoLive, Early, Late
    <3>3. \/ Sends("EndOfStream", e, 0) /\ e \in finished'
          \/ Sends("Exception", e, 0)
          \/ Sends("Fatal", e, 0)
      BY <2>6, <3>1 DEF ServerEnd, ServerFails, Reply, Sends
    <3> QED
      BY <1>2, <3>1, <3>2, <3>3 DEF GoesOn, Answers
  <2>7. CASE Loss
    BY <1>2, <2>7 DEF Loss, Hangup, GoesOn, Loses, NoLive
  <2> QED
    BY <2>2, <2>3, <2>4, <2>5, <2>6, <2>7 DEF Server
<1>4. \A e \in Req : Live(e)' = Live(e)
  BY <1>2 DEF Live, Running
<1> QED
  BY <1>2, <1>3, <1>4 DEF StreamStep

\* Every step.
LEMMA NextStream ==
  ASSUME TypeOK, InStep, Whole, QueriesOnce, Next
  PROVE  StreamStep /\ KeepsOk
<1>1. CASE ReceivePing
  <2>1. UNCHANGED <<got, chan, executing>> /\ io = "pinging"
    BY <1>1 DEF ReceivePing, IoUnchanged, callVars
  <2>2. executing = NoReq /\ pinger \in Pings
    BY <2>1 DEF InStep, TaskInStep, QueriesOnce, StartedAnswered
  <2>3. KeepsOk
    BY <1>1, <2>2 DEF KeepsOk, ReceivePing, TypeOK, CallsTypeOK
  <2> QED
    BY <2>1, <2>2, <2>3, StreamsSame DEF StreamStep, Live
<1>2. CASE TaskEnd
  <2>1. UNCHANGED <<got, chan, resp>> /\ ~Running'
    BY <1>2 DEF TaskEnd, RunReturns, StoreStatus, DropInternal, Aborted, callVars, Running
  <2> QED
    BY <2>1, StreamsSame DEF StreamStep, Live, KeepsOk
<1> QED
  BY <1>1, <1>2, CallStream, OperationStream, ReadStream, ServerStream DEF Next, IoTask

-----------------------------------------------------------------------------
(* AlwaysInOrder: what is on its way comes after what the caller has.      *)

\* Only ServerBlock makes a block ...
LEMMA OnlyServerBlock ==
  ASSUME Next, ~ServerBlock
  PROVE  UNCHANGED made
BY DEF Next, Call, Abandon, ShutdownSend, ShutdownAbort, DropConnection, IoTask, ReadPart,
       Server, Loss, UNCH_IO, IoUnchanged, srvVars, CheckChannel, CheckStatus, SendOperation,
       AwaitResponse, AwaitPong, AwaitHeader, AwaitInsert, PollStream, HandleOperation,
       HandlePing, HandleQuery, HandleInsert, HandleInsertFails, HandleShutdown,
       ReceivePacket, ReceiveHeader, ReceiveProgress, ReceiveBlock, ReceiveException,
       ReceiveEndOfStream, ReceiveTorn, ReadFails, SendCompletes, ReceivePing, TaskEnd,
       RunReturns, StoreStatus, DropInternal, Aborted, ServerRead, ServerProgress,
       ServerHeader, ServerEnd, ServerFails

\* ... and it makes it for the query that is executing.
LEMMA MadeKept ==
  ASSUME TypeOK, InStep, Next, NEW r \in Req, r # executing
  PROVE  made'[r] = made[r]
<1>1. CASE ServerBlock
  <2>1. io # "pinging" /\ srvReq = executing /\ DOMAIN made = Req
    BY <1>1 DEF ServerBlock, InStep, ServerInStep, Current, TypeOK, ServerTypeOK
  <2> QED
    BY <1>1, <2>1 DEF ServerBlock
<1> QED
  BY <1>1, OnlyServerBlock

\* A query that has not started has no items and no blocks.
Fresh == \A r \in Req \ Pings : resp[r] # "ok" => Len(Yielded(r)) = 0 /\ made[r] = 0

LEMMA NextFresh ==
  ASSUME TypeOK, InStep, Whole, QueriesOnce, Fresh, Next
  PROVE  Fresh'
<1> SUFFICES ASSUME NEW r \in Req \ Pings, resp'[r] # "ok"
             PROVE  Len(Yielded(r)') = 0 /\ made'[r] = 0
  BY DEF Fresh
<1>1. StreamStep /\ KeepsOk
  BY NextStream
<1>2. resp[r] # "ok" /\ r # executing
  BY <1>1 DEF KeepsOk, QueriesOnce, StartedAnswered
<1>3. made'[r] = made[r]
  BY <1>2, MadeKept
<1>4. Yielded(r)' = Yielded(r)
  BY <1>1, <1>2 DEF StreamStep, SameItems, Adds, Live
<1> QED
  BY <1>2, <1>3, <1>4 DEF Fresh

\* The blocks on the wire are numbered one after the other, from the header (block 0)
\* when the client still waits for it, up to the last one the server has made.
Numbered ==
    \A i, j \in 1..Len(wireOut) :
        BlockAt(i) /\ BlockAt(j) /\ i < j => wireOut[j].n = wireOut[i].n + (j - i)
Unanswered(e) ==
    ~NoLive \/ srvPhase \in Early =>
        state = "Header" /\ made[e] = 0 /\ \A i \in 1..Len(wireOut) : ~BlockAt(i)
HeaderFirst(e) ==
    IF state = "Header"
      THEN /\ Len(Yielded(e)) = 0
           /\ \A i \in 1..Len(wireOut) :
                 BlockAt(i) /\ (\A k \in 1..(i - 1) : ~BlockAt(k)) => wireOut[i].n = 0
           /\ srvPhase \in Late => \E i \in 1..Len(wireOut) : BlockAt(i)
      ELSE \A i \in 1..Len(wireOut) : BlockAt(i) => wireOut[i].n > 0
UpToMade(e) ==
    \A i \in 1..Len(wireOut) : BlockAt(i) =>
        /\ wireOut[i].n <= made[e]
        /\ srvPhase \in Late => wireOut[i].n + (Len(wireOut) - i) = made[e]
Shape(e) == Numbered /\ Unanswered(e) /\ HeaderFirst(e) /\ UpToMade(e)

\* The caller's items come before the block the io task holds, and both before what
\* is on the wire.
Behind(e) ==
    /\ \A k \in 1..Len(Yielded(e)) :
          /\ Yielded(e)[k] # ErrItem /\ Yielded(e)[k] <= made[e]
          /\ held.p = "Block" => Yielded(e)[k] < held.n
          /\ \A i \in 1..Len(wireOut) : BlockAt(i) => Yielded(e)[k] < wireOut[i].n
    /\ held.p = "Block" =>
          /\ held.n > 0 /\ held.n <= made[e] /\ state # "Header"
          /\ \A i \in 1..Len(wireOut) : BlockAt(i) => held.n < wireOut[i].n

LEMMA WireNumbers ==
  ASSUME TypeOK, NEW e \in Req
  PROVE  /\ wireOut \in Seq(ServerPackets) /\ Len(wireOut) \in Nat
         /\ \A i \in 1..Len(wireOut) : wireOut[i].n \in Nat
         /\ made \in [Req -> Nat] /\ made[e] \in Nat
         /\ held.n \in Nat
<1>1. Items \subseteq Nat
  BY DEF Items
<1>2. wireOut \in Seq(ServerPackets)
  BY IoTypeParts
<1>3. \A i \in 1..Len(wireOut) : wireOut[i] \in ServerPackets
  BY <1>2
<1>4. \A i \in 1..Len(wireOut) : wireOut[i].n \in Nat
  BY <1>1, <1>3 DEF ServerPackets
<1>5. made \in [Req -> Nat]
  BY <1>1 DEF TypeOK, ServerTypeOK
<1>6. held.n \in Nat
  <2>1. CASE held \in HeldPackets
    BY <1>1, <2>1 DEF HeldPackets
  <2>2. CASE held = NoPacket
    BY <2>2 DEF NoPacket, Packet
  <2> QED
    BY <2>1, <2>2 DEF TypeOK, IoTypeOK
<1> QED
  BY <1>2, <1>4, <1>5, <1>6

LEMMA RestsFits ==
  ASSUME TypeOK, NEW e \in Req, Shape(e), Behind(e), Rests
  PROVE  Shape(e)' /\ Behind(e)'
<1>1. Yielded(e)' = Yielded(e)
  BY DEF Rests, SameItems
<1>2. \A i : BlockAt(i)' <=> BlockAt(i)
  BY DEF Rests, BlockAt
<1>3. Shape(e)'
  BY <1>1, <1>2 DEF Shape, Numbered, Unanswered, HeaderFirst, UpToMade, Rests
<1>4. Behind(e)'
  BY <1>1, <1>2 DEF Behind, Rests
<1> QED
  BY <1>3, <1>4

LEMMA HandsOverFits ==
  ASSUME TypeOK, NEW e \in Req, Shape(e), Behind(e), HandsOver(e)
  PROVE  Shape(e)' /\ Behind(e)'
<1>1. \A i : BlockAt(i)' <=> BlockAt(i)
  BY DEF HandsOver, BlockAt
<1>2. state # "Header" /\ held.n # ErrItem /\ Len(Yielded(e)) \in Nat /\ held.n \in Nat
  BY YieldedType, WireNumbers DEF Behind, HandsOver, ErrItem
<1>3. Shape(e)'
  BY <1>1, <1>2 DEF Shape, Numbered, Unanswered, HeaderFirst, UpToMade, HandsOver
<1>4. \A k \in 1..Len(Yielded(e)') : \/ k \in 1..Len(Yielded(e)) /\ Yielded(e)'[k] = Yielded(e)[k]
                                     \/ Yielded(e)'[k] = held.n
  BY <1>2 DEF HandsOver, Adds
<1>5. Behind(e)'
  BY <1>1, <1>2, <1>4 DEF Behind, HandsOver
<1> QED
  BY <1>3, <1>5

LEMMA TakesFits ==
  ASSUME TypeOK, NEW e \in Req, Shape(e), Behind(e), Takes(e)
  PROVE  Shape(e)' /\ Behind(e)'
<1>1. /\ wireOut # <<>> /\ wireOut' = Tail(wireOut) /\ held.p # "Block" /\ NoLive'
      /\ made' = made /\ srvPhase' = srvPhase
  BY DEF Takes
<1>2. /\ Len(wireOut') = Len(wireOut) - 1 /\ Len(wireOut) \in Nat \ {0} /\ 1 \in 1..Len(wireOut)
      /\ \A i \in 1..Len(wireOut') : i + 1 \in 1..Len(wireOut) /\ wireOut'[i] = wireOut[i + 1]
      /\ \A i \in 1..Len(wireOut) : i = 1 \/ (i - 1 \in 1..Len(wireOut') /\ wireOut'[i - 1] = wireOut[i])
  BY <1>1, TailElements, WireNumbers
<1>3. /\ \A i \in 1..Len(wireOut') : BlockAt(i)' <=> BlockAt(i + 1)
      /\ \A i \in 1..Len(wireOut) : i = 1 \/ (BlockAt(i) <=> BlockAt(i - 1)')
  BY <1>2 DEF BlockAt
<1>4. /\ \A i \in 1..Len(wireOut) : wireOut[i].n \in Nat
      /\ made[e] \in Nat /\ held.n \in Nat /\ Len(Yielded(e)) \in Nat
      /\ \A k \in 1..Len(Yielded(e)) : Yielded(e)[k] \in Nat
  BY WireNumbers, YieldedType
<1>5. Numbered'
  <2>1. ASSUME NEW i \in 1..Len(wireOut'), NEW j \in 1..Len(wireOut'),
               BlockAt(i)', BlockAt(j)', i < j
        PROVE  wireOut'[j].n = wireOut'[i].n + (j - i)
    <3>1. /\ i + 1 \in 1..Len(wireOut) /\ BlockAt(i + 1) /\ wireOut'[i] = wireOut[i + 1]
          /\ j + 1 \in 1..Len(wireOut) /\ BlockAt(j + 1) /\ wireOut'[j] = wireOut[j + 1]
      BY <1>2, <1>3, <2>1
    <3>2. i + 1 < j + 1 /\ (j + 1) - (i + 1) = j - i
      BY <2>1
    <3>3. wireOut[j + 1].n = wireOut[i + 1].n + ((j + 1) - (i + 1))
      BY <3>1, <3>2 DEF Shape, Numbered
    <3> QED
      BY <3>1, <3>2, <3>3
  <2> QED
    BY <2>1 DEF Numbered
<1>6. UpToMade(e)'
  <2>1. ASSUME NEW i \in 1..Len(wireOut'), BlockAt(i)'
        PROVE  /\ wireOut'[i].n <= made[e]
               /\ srvPhase \in Late => wireOut'[i].n + (Len(wireOut') - i) = made[e]
    <3>1. i + 1 \in 1..Len(wireOut) /\ BlockAt(i + 1) /\ wireOut'[i] = wireOut[i + 1]
      BY <1>2, <1>3, <2>1
    <3>2. /\ wireOut[i + 1].n <= made[e]
          /\ srvPhase \in Late => wireOut[i + 1].n + (Len(wireOut) - (i + 1)) = made[e]
      BY <3>1 DEF Shape, UpToMade
    <3>3. Len(wireOut) - (i + 1) = Len(wireOut') - i
      BY <1>2
    <3> QED
      BY <3>1, <3>2, <3>3
  <2> QED
    BY <1>1, <2>1 DEF UpToMade
<1>7. ASSUME BlockAt(1), NEW i \in 1..Len(wireOut'), BlockAt(i)'
      PROVE  wireOut'[i].n > wireOut[1].n
  <2>1. i + 1 \in 1..Len(wireOut) /\ BlockAt(i + 1) /\ 1 < i + 1 /\ wireOut'[i] = wireOut[i + 1]
    BY <1>2, <1>3, <1>7
  <2>2. wireOut[i + 1].n = wireOut[1].n + ((i + 1) - 1)
    BY <1>2, <1>7, <2>1 DEF Shape, Numbered
  <2> QED
    BY <1>2, <1>4, <2>1, <2>2
<1>8. CASE TakesHeader
  <2>1. /\ BlockAt(1) /\ state = "Header" /\ state' = "InProgress" /\ held'.p # "Block"
        /\ Yielded(e)' = Yielded(e)
    BY <1>8 DEF TakesHeader, SameItems
  <2>2. Unanswered(e)'
    BY <1>1, <1>2, <2>1 DEF Shape, Unanswered
  <2>3. HeaderFirst(e)'
    <3>1. wireOut[1].n \in Nat
      BY <1>2, <1>4
    <3>2. \A i \in 1..Len(wireOut') : wireOut'[i].n \in Nat
      BY <1>2, <1>4
    <3> QED
      BY <1>7, <2>1, <3>1, <3>2 DEF HeaderFirst
  <2>4. Behind(e)'
    BY <2>1 DEF Shape, HeaderFirst, Behind
  <2> QED
    BY <1>5, <1>6, <2>2, <2>3, <2>4 DEF Shape
<1>9. CASE TakesOther
  <2>1. ~BlockAt(1) /\ state' = state /\ held'.p # "Block" /\ Yielded(e)' = Yielded(e)
    BY <1>9 DEF TakesOther, SameItems
  <2>2. Unanswered(e)'
    BY <1>1, <1>2, <1>3, <2>1 DEF Shape, Unanswered
  <2>3. ASSUME state # "Header" PROVE HeaderFirst(e)'
    BY <1>2, <1>3, <2>1, <2>3 DEF Shape, HeaderFirst
  <2>4. ASSUME state = "Header" PROVE HeaderFirst(e)'
    <3>1. srvPhase' \in Late => \E i \in 1..Len(wireOut') : BlockAt(i)'
      BY <1>1, <1>2, <1>3, <2>1, <2>4 DEF Shape, HeaderFirst
    <3>2. ASSUME NEW i \in 1..Len(wireOut'), BlockAt(i)', \A k \in 1..(i - 1) : ~BlockAt(k)'
          PROVE  wireOut'[i].n = 0
      <4>1. i + 1 \in 1..Len(wireOut) /\ BlockAt(i + 1) /\ wireOut'[i] = wireOut[i + 1]
        BY <1>2, <1>3, <3>2
      <4>2. ASSUME NEW k \in 1..((i + 1) - 1) PROVE ~BlockAt(k)
        <5>1. k \in 1..Len(wireOut) /\ (k = 1 \/ k - 1 \in 1..(i - 1))
          BY <1>2, <4>1
        <5> QED
          BY <1>3, <2>1, <3>2, <5>1
      <4> QED
        BY <2>4, <4>1, <4>2 DEF Shape, HeaderFirst
    <3> QED
      BY <2>1, <2>4, <3>1, <3>2 DEF Shape, HeaderFirst
  <2>5. Behind(e)'
    BY <1>1, <1>2, <1>3, <2>1 DEF Behind
  <2> QED
    BY <1>5, <1>6, <2>2, <2>3, <2>4, <2>5 DEF Shape
<1>10. CASE TakesBlock(e)
  <2>1. BlockAt(1) /\ state # "Header" /\ state' = state
    BY <1>10 DEF TakesBlock
  <2>2. Unanswered(e)'
    BY <1>1, <1>2, <1>3, <2>1 DEF Shape, Unanswered
  <2>3. HeaderFirst(e)'
    BY <1>2, <1>3, <2>1 DEF Shape, HeaderFirst
  <2>4. wireOut[1].n \in Nat /\ wireOut[1].n > 0 /\ wireOut[1].n <= made[e]
    BY <1>2, <1>4, <2>1 DEF Shape, HeaderFirst, UpToMade
  <2>5. \A k \in 1..Len(Yielded(e)) : Yielded(e)[k] < wireOut[1].n
    BY <1>2, <2>1 DEF Behind
  <2>6. \A i \in 1..Len(wireOut') : BlockAt(i)' => wireOut'[i].n \in Nat /\ wireOut[1].n < wireOut'[i].n
    BY <1>2, <1>4, <1>7, <2>1, <2>4
  <2>7. \A k \in 1..Len(Yielded(e)) : \A i \in 1..Len(wireOut') :
           BlockAt(i)' => Yielded(e)[k] < wireOut'[i].n
    BY <1>4, <2>4, <2>5, <2>6
  <2>8. CASE held'.p # "Block" /\ Adds(e, wireOut[1].n)
    <3>1. \A k \in 1..Len(Yielded(e)') : \/ k \in 1..Len(Yielded(e)) /\ Yielded(e)'[k] = Yielded(e)[k]
                                         \/ Yielded(e)'[k] = wireOut[1].n
      BY <1>4, <2>8 DEF Adds
    <3> QED
      BY <1>1, <1>5, <1>6, <2>2, <2>3, <2>4, <2>6, <2>7, <2>8, <3>1 DEF Shape, Behind, ErrItem
  <2>9. CASE held'.p # "Block" /\ SameItems
    BY <1>1, <1>5, <1>6, <2>2, <2>3, <2>7, <2>9 DEF Shape, Behind, SameItems
  <2>10. CASE held' = wireOut[1] /\ SameItems
    BY <1>1, <1>5, <1>6, <2>1, <2>2, <2>3, <2>4, <2>5, <2>6, <2>7, <2>10 DEF Shape, Behind, SameItems
  <2> QED
    BY <1>10, <2>8, <2>9, <2>10 DEF TakesBlock
<1> QED
  BY <1>8, <1>9, <1>10 DEF Takes

LEMMA LosesFits ==
  ASSUME TypeOK, NEW e \in Req, Shape(e), Behind(e), Loses
  PROVE  Shape(e)' /\ Behind(e)'
<1>1. /\ srvPhase' = "idle" /\ NoLive' /\ made' = made /\ state' = state /\ held' = held
      /\ Yielded(e)' = Yielded(e)
  BY DEF Loses, SameItems
<1>2. /\ Len(wireOut') \in Nat /\ Len(wireOut') <= Len(wireOut) /\ Len(wireOut) \in Nat
      /\ \A i \in 1..Len(wireOut') : i \in 1..Len(wireOut) /\ wireOut'[i] = wireOut[i]
  BY WireNumbers DEF Loses
<1>3. \A i \in 1..Len(wireOut') : BlockAt(i)' <=> BlockAt(i)
  BY <1>2 DEF BlockAt
<1>4. srvPhase' \notin Early /\ srvPhase' \notin Late
  BY <1>1 DEF Early, Late
<1>5. Numbered' /\ UpToMade(e)' /\ Unanswered(e)' /\ Behind(e)'
  BY <1>1, <1>2, <1>3, <1>4 DEF Shape, Numbered, UpToMade, Unanswered, Behind
<1>6. HeaderFirst(e)'
  BY <1>1, <1>2, <1>3, <1>4 DEF Shape, HeaderFirst
<1> QED
  BY <1>5, <1>6 DEF Shape

LEMMA AnswersFits ==
  ASSUME TypeOK, NEW e \in Req, Shape(e), Behind(e), Answers(e)
  PROVE  Shape(e)' /\ Behind(e)'
<1>0. /\ NoLive' /\ state' = state /\ held' = held /\ Yielded(e)' = Yielded(e)
  BY DEF Answers, SameItems
<1>1. /\ \A i \in 1..Len(wireOut) : wireOut[i].n \in Nat
      /\ Len(wireOut) \in Nat /\ wireOut \in Seq(ServerPackets)
      /\ made \in [Req -> Nat] /\ made[e] \in Nat /\ held.n \in Nat /\ Len(Yielded(e)) \in Nat
      /\ \A k \in 1..Len(Yielded(e)) : Yielded(e)[k] \in Nat
  BY WireNumbers, YieldedType
<1>l. PICK last \in Nat : last = Len(wireOut) + 1
  BY <1>1
<1>2. ASSUME NEW pkt, wireOut' = Append(wireOut, pkt)
      PROVE  /\ Len(wireOut') = last /\ wireOut'[last] = pkt
             /\ last \in Nat /\ last \in 1..Len(wireOut') /\ last \notin 1..Len(wireOut)
             /\ \A i \in 1..Len(wireOut) : /\ i \in 1..Len(wireOut') /\ wireOut'[i] = wireOut[i]
                                           /\ BlockAt(i)' <=> BlockAt(i)
             /\ BlockAt(last)' <=> pkt.p = "Block"
             /\ \A i \in 1..Len(wireOut') : i \in 1..Len(wireOut) \/ i = last
  <2>1. /\ Len(wireOut') = last /\ wireOut'[last] = pkt
        /\ \A i \in 1..Len(wireOut) : wireOut'[i] = wireOut[i]
    BY <1>l, <1>1, <1>2
  <2> QED
    BY <1>l, <1>1, <2>1 DEF BlockAt
<1>3. ASSUME NEW pkt, wireOut' = Append(wireOut, pkt), pkt.p # "Block", made' = made
      PROVE  Numbered' /\ Behind(e)'
  <2>1. \A i \in 1..Len(wireOut') : BlockAt(i)' =>
           i \in 1..Len(wireOut) /\ BlockAt(i) /\ wireOut'[i] = wireOut[i]
    BY <1>2, <1>3
  <2>2. Numbered'
    BY <2>1 DEF Shape, Numbered
  <2>3. Behind(e)'
    BY <1>0, <1>3, <2>1 DEF Behind
  <2> QED
    BY <2>2, <2>3
<1>4. CASE /\ Sends("Progress", e, 0) /\ srvPhase \in Early /\ srvPhase' \in Early
           /\ UNCHANGED made
  <2> DEFINE pkt == Packet("Progress", e, 0)
  <2>1. wireOut' = Append(wireOut, pkt) /\ pkt.p # "Block"
    BY <1>4 DEF Sends, Packet
  <2> HIDE DEF pkt
  <2>2. state = "Header" /\ made[e] = 0 /\ \A i \in 1..Len(wireOut) : ~BlockAt(i)
    BY <1>4 DEF Shape, Unanswered
  <2>3. \A i \in 1..Len(wireOut') : ~BlockAt(i)'
    BY <1>2, <2>1, <2>2
  <2>4. srvPhase' \notin Late
    BY <1>4 DEF Early, Late
  <2>5. Unanswered(e)' /\ UpToMade(e)' /\ HeaderFirst(e)'
    BY <1>0, <1>4, <2>2, <2>3, <2>4 DEF Shape, Unanswered, UpToMade, HeaderFirst
  <2> QED
    BY <1>3, <1>4, <2>1, <2>5 DEF Shape
<1>5. CASE /\ Sends("Block", e, 0) /\ srvPhase \in Early /\ srvPhase' \in Late
           /\ UNCHANGED made
  <2> DEFINE pkt == Packet("Block", e, 0)
  <2>1. wireOut' = Append(wireOut, pkt) /\ pkt.p = "Block" /\ pkt.n = 0
    BY <1>5 DEF Sends, Packet
  <2> HIDE DEF pkt
  <2>2. state = "Header" /\ made[e] = 0 /\ \A i \in 1..Len(wireOut) : ~BlockAt(i)
    BY <1>5 DEF Shape, Unanswered
  <2>3. \A i \in 1..Len(wireOut') : BlockAt(i)' => i = last /\ wireOut'[i].n = 0
    BY <1>2, <2>1, <2>2
  <2>4. srvPhase' \notin Early /\ last - last = 0 /\ Len(wireOut') = last
    BY <1>2, <1>5, <2>1 DEF Early, Late
  <2>5. Numbered' /\ Unanswered(e)'
    BY <1>0, <2>3, <2>4, <1>1 DEF Numbered, Unanswered
  <2>6. UpToMade(e)'
    BY <1>1, <1>2, <1>5, <2>1, <2>2, <2>3, <2>4 DEF UpToMade
  <2>7. HeaderFirst(e)'
    BY <1>0, <1>2, <2>1, <2>2, <2>3 DEF Shape, HeaderFirst
  <2>8. Behind(e)'
    <3>1. Len(Yielded(e)) = 0 /\ held.p # "Block"
      BY <2>2 DEF Shape, HeaderFirst, Behind
    <3> QED
      BY <1>0, <3>1 DEF Behind
  <2> QED
    BY <2>5, <2>6, <2>7, <2>8 DEF Shape
<1>6. CASE /\ Sends("Block", e, made[e] + 1) /\ srvPhase \in Late /\ srvPhase' = srvPhase
           /\ made' = [made EXCEPT ![e] = @ + 1]
  <2> DEFINE pkt == Packet("Block", e, made[e] + 1)
  <2>1. wireOut' = Append(wireOut, pkt) /\ pkt.p = "Block" /\ pkt.n = made[e] + 1
    BY <1>6 DEF Sends, Packet
  <2> HIDE DEF pkt
  <2>2. /\ made'[e] = made[e] + 1 /\ srvPhase' \notin Early
        /\ Len(wireOut') = last /\ last = Len(wireOut) + 1
    BY <1>l, <1>1, <1>2, <1>6, <2>1 DEF Early, Late
  <2>3. \A i \in 1..Len(wireOut) : BlockAt(i) =>
           wireOut[i].n <= made[e] /\ wireOut[i].n + (Len(wireOut) - i) = made[e]
    BY <1>6 DEF Shape, UpToMade
  <2>4. ASSUME NEW i \in 1..Len(wireOut), BlockAt(i)
        PROVE  /\ wireOut'[i].n + (last - i) = made[e] + 1
               /\ wireOut'[i].n <= made[e] + 1
               /\ wireOut'[last].n = wireOut'[i].n + (last - i)
    BY <1>1, <1>2, <2>1, <2>2, <2>3, <2>4, SMTT(30)
  <2>5. Numbered'
    <3> SUFFICES ASSUME NEW i \in 1..Len(wireOut'), NEW j \in 1..Len(wireOut'),
                        BlockAt(i)', BlockAt(j)', i < j
                 PROVE  wireOut'[j].n = wireOut'[i].n + (j - i)
      BY DEF Numbered
    <3>1. i \in 1..Len(wireOut) /\ BlockAt(i) /\ wireOut'[i] = wireOut[i]
      BY <1>1, <1>2, <2>1, <2>2
    <3>2. CASE j = last
      BY <2>4, <3>1, <3>2
    <3>3. CASE j \in 1..Len(wireOut)
      BY <1>2, <2>1, <3>1, <3>3 DEF Shape, Numbered
    <3> QED
      BY <1>2, <2>1, <3>2, <3>3
  <2>6. UpToMade(e)'
    <3> SUFFICES ASSUME NEW i \in 1..Len(wireOut'), BlockAt(i)'
                 PROVE  /\ wireOut'[i].n <= made'[e]
                        /\ wireOut'[i].n + (Len(wireOut') - i) = made'[e]
      BY DEF UpToMade
    <3>1. CASE i = last
      BY <1>1, <1>2, <2>1, <2>2, <3>1
    <3>2. CASE i \in 1..Len(wireOut)
      BY <1>2, <2>1, <2>2, <2>4, <3>2
    <3> QED
      BY <1>2, <2>1, <3>1, <3>2
  <2>7. Unanswered(e)'
    BY <1>0, <2>2 DEF Unanswered
  <2>8. CASE state = "Header"
    <3>1. PICK b \in 1..Len(wireOut) : BlockAt(b)
      BY <1>6, <2>8 DEF Shape, HeaderFirst
    <3>2. /\ Len(Yielded(e)) = 0 /\ held.p # "Block"
          /\ \A i \in 1..Len(wireOut) :
                BlockAt(i) /\ (\A k \in 1..(i - 1) : ~BlockAt(k)) => wireOut[i].n = 0
      BY <2>8 DEF Shape, HeaderFirst, Behind
    <3>3. ASSUME NEW i \in 1..Len(wireOut'), BlockAt(i)', \A k \in 1..(i - 1) : ~BlockAt(k)'
          PROVE  wireOut'[i].n = 0
      <4>1. i # last
        <5>1. b \in 1..(last - 1) /\ BlockAt(b)'
          BY <1>1, <1>2, <2>1, <2>2, <3>1
        <5> QED
          BY <3>3, <5>1
      <4>2. i \in 1..Len(wireOut) /\ BlockAt(i) /\ wireOut'[i] = wireOut[i]
        BY <1>2, <2>1, <3>3, <4>1
      <4>3. \A k \in 1..(i - 1) : ~BlockAt(k)
        BY <1>1, <1>2, <2>1, <3>3, <4>2
      <4> QED
        BY <3>2, <4>2, <4>3
    <3>4. BlockAt(b)' /\ b \in 1..Len(wireOut')
      BY <1>2, <2>1, <3>1
    <3>5. HeaderFirst(e)'
      BY <1>0, <2>8, <3>2, <3>3, <3>4 DEF HeaderFirst
    <3>6. Behind(e)'
      BY <1>0, <3>2 DEF Behind
    <3> QED
      BY <2>5, <2>6, <2>7, <3>5, <3>6 DEF Shape
  <2>9. CASE state # "Header"
    <3>1. \A i \in 1..Len(wireOut') : BlockAt(i)' =>
             \/ i \in 1..Len(wireOut) /\ BlockAt(i) /\ wireOut'[i] = wireOut[i]
             \/ wireOut'[i].n = made[e] + 1
      BY <1>2, <2>1
    <3>2. HeaderFirst(e)'
      BY <1>0, <1>1, <2>9, <3>1 DEF Shape, HeaderFirst
    <3>3. \A n \in Nat : n <= made[e] => n <= made'[e] /\ n < made[e] + 1
      BY <1>1, <2>2
    <3>4. Behind(e)'
      BY <1>0, <1>1, <3>1, <3>3 DEF Behind
    <3> QED
      BY <2>5, <2>6, <2>7, <3>2, <3>4 DEF Shape
  <2> QED
    BY <2>8, <2>9
<1>7. CASE /\ \/ Sends("EndOfStream", e, 0) /\ e \in finished'
              \/ Sends("Exception", e, 0)
              \/ Sends("Fatal", e, 0)
           /\ srvPhase \in Early \cup Late /\ srvPhase' = "idle" /\ UNCHANGED made
  <2>1. PICK pkt : wireOut' = Append(wireOut, pkt) /\ pkt.p # "Block"
    BY <1>7 DEF Sends, Packet
  <2>2. srvPhase' \notin Early /\ srvPhase' \notin Late
    BY <1>7 DEF Early, Late
  <2>3. \A i \in 1..Len(wireOut') : BlockAt(i)' =>
           i \in 1..Len(wireOut) /\ BlockAt(i) /\ wireOut'[i] = wireOut[i]
    BY <1>2, <2>1
  <2>4. Unanswered(e)' /\ UpToMade(e)'
    BY <1>0, <1>7, <2>2, <2>3 DEF Shape, Unanswered, UpToMade
  <2>5. HeaderFirst(e)'
    <3>1. ASSUME NEW i \in 1..Len(wireOut'), BlockAt(i)', \A k \in 1..(i - 1) : ~BlockAt(k)'
          PROVE  \A k \in 1..(i - 1) : ~BlockAt(k)
      <4>1. i \in 1..Len(wireOut)
        BY <2>3, <3>1
      <4>2. \A k \in 1..(i - 1) : k \in 1..Len(wireOut)
        BY <1>1, <4>1
      <4> QED
        BY <1>2, <2>1, <3>1, <4>2
    <3> QED
      BY <1>0, <2>2, <2>3, <3>1 DEF Shape, HeaderFirst
  <2> QED
    BY <1>3, <1>7, <2>1, <2>4, <2>5 DEF Shape
<1> QED
  BY <1>4, <1>5, <1>6, <1>7 DEF Answers

\* A new query: nothing of it is anywhere.
LEMMA BeginsFits ==
  ASSUME TypeOK, Fresh, NEW e \in Req, Begins(e)
  PROVE  Shape(e)' /\ Behind(e)'
<1>1. Len(Yielded(e)) = 0 /\ made[e] = 0
  BY DEF Begins, Fresh
<1>2. /\ wireOut' = <<>> /\ state' = "Header" /\ held'.p # "Block" /\ made'[e] = 0
      /\ Len(Yielded(e)') = 0 /\ srvPhase' \notin Late
  BY <1>1 DEF Begins, Late
<1>3. Len(wireOut') = 0
  BY <1>2
<1>4. \A i \in 1..Len(wireOut') : FALSE
  BY <1>3
<1>5. Shape(e)'
  BY <1>2, <1>4 DEF Shape, Numbered, Unanswered, HeaderFirst, UpToMade
<1>6. Behind(e)'
  BY <1>2 DEF Behind
<1> QED
  BY <1>5, <1>6

\* The inductive invariant of AlwaysInOrder.
Fitting == \A e \in Req : Live(e) => Shape(e) /\ Behind(e)

LEMMA NextFitting ==
  ASSUME TypeOK, InStep, Whole, QueriesOnce, Fresh, Fitting, Next
  PROVE  Fitting'
<1> SUFFICES ASSUME NEW e \in Req, Live(e)'
             PROVE  Shape(e)' /\ Behind(e)'
  BY DEF Fitting
<1>1. StreamStep
  BY NextStream
<1>2. CASE ~Live(e)
  BY <1>1, <1>2, BeginsFits DEF StreamStep
<1>3. CASE Live(e)
  <2>1. GoesOn(e) /\ Shape(e) /\ Behind(e)
    BY <1>1, <1>3 DEF StreamStep, Fitting
  <2> QED
    BY <2>1, RestsFits, HandsOverFits, TakesFits, AnswersFits, LosesFits DEF GoesOn
<1> QED
  BY <1>2, <1>3

\* An item is added to a stream that has no error yet, and it comes after the others.
LEMMA NextInOrder ==
  ASSUME TypeOK, InStep, Whole, QueriesOnce, Fresh, Fitting, StreamInOrder, Next
  PROVE  StreamInOrder'
<1> SUFFICES ASSUME NEW r \in Req, NEW i \in 1..Len(Yielded(r)'), NEW j \in 1..Len(Yielded(r)'), i < j
             PROVE  /\ Yielded(r)'[i] # ErrItem
                    /\ Yielded(r)'[j] # ErrItem => Yielded(r)'[i] < Yielded(r)'[j]
  BY DEF StreamInOrder
<1>1. StreamStep
  BY NextStream
<1>2. CASE Yielded(r)' = Yielded(r)
  BY <1>2 DEF StreamInOrder
<1>3. ASSUME Live(r), NEW item \in Items, Adds(r, item), ~Live(r)' => item = ErrItem
      PROVE  /\ Yielded(r)'[i] # ErrItem
             /\ Yielded(r)'[j] # ErrItem => Yielded(r)'[i] < Yielded(r)'[j]
  <2>0. Len(Yielded(r)) \in Nat /\ Len(Yielded(r)') = Len(Yielded(r)) + 1
    BY <1>3, YieldedType DEF Adds
  <2>1. i \in 1..Len(Yielded(r)) /\ Yielded(r)'[i] = Yielded(r)[i]
    BY <1>3, <2>0 DEF Adds
  <2>2. Yielded(r)[i] # ErrItem
    BY <1>3, <2>1 DEF Fitting, Behind
  <2>3. CASE j \in 1..Len(Yielded(r))
    BY <1>3, <2>1, <2>3 DEF StreamInOrder, Adds
  <2>4. CASE j = Len(Yielded(r)) + 1 /\ item # ErrItem
    <3>1. Live(r)' /\ Fitting'
      BY <1>3, <2>4, NextFitting
    <3>2. GoesOn(r)
      BY <1>1, <1>3, <3>1 DEF StreamStep
    <3>3. item > Yielded(r)[i]
      <4>1. ~SameItems
        BY <2>0 DEF SameItems
      <4>2. HandsOver(r) \/ Takes(r)
        BY <3>2, <4>1 DEF GoesOn, Rests, Answers, Loses
      <4>3. \/ held.p = "Block" /\ Adds(r, held.n)
            \/ wireOut # <<>> /\ BlockAt(1) /\ Adds(r, wireOut[1].n)
        BY <4>1, <4>2 DEF HandsOver, Takes, TakesHeader, TakesOther, TakesBlock
      <4>4. \/ held.p = "Block" /\ item = held.n
            \/ wireOut # <<>> /\ BlockAt(1) /\ item = wireOut[1].n
        BY <1>3, <4>3 DEF Adds
      <4>5. wireOut # <<>> => 1 \in 1..Len(wireOut)
        BY WireNumbers, TailElements
      <4>6. item \in Nat /\ Yielded(r)[i] \in Nat
        <5>1. item \in Nat
          BY <1>3 DEF Items
        <5>2. Yielded(r)[i] \in Nat
          BY <2>1, YieldedType
        <5> QED
          BY <5>1, <5>2
      <4>7. Behind(r)
        BY <1>3 DEF Fitting
      <4>8. Yielded(r)[i] < item
        BY <2>1, <4>4, <4>5, <4>7 DEF Behind
      <4> QED
        BY <4>6, <4>8
    <3> QED
      BY <1>3, <2>1, <2>2, <2>4, <3>3, YieldedType DEF Adds, Items
  <2>5. CASE j = Len(Yielded(r)) + 1 /\ item = ErrItem
    BY <1>3, <2>1, <2>2, <2>5 DEF Adds
  <2> QED
    BY <2>0, <2>3, <2>4, <2>5
<1> QED
  BY <1>1, <1>2, <1>3 DEF StreamStep, SameItems, Adds

LEMMA InitFitting ==
  ASSUME ConnInit
  PROVE  Fresh /\ Fitting /\ \A r \in Req : Len(Yielded(r)) = 0
<1>1. TypeOK /\ made = [r \in Req |-> 0]
  BY InitType DEF ConnInit
<1>2. \A r \in Req : made[r] = 0
  BY <1>1, Zenon
<1>3. ASSUME NEW r \in Req PROVE Len(Yielded(r)) = 0
  <2>1. got[r] = <<>> /\ chan[r] = <<>>
    BY DEF ConnInit
  <2>2. Len(got[r]) = 0 /\ Len(chan[r]) = 0
    BY <2>1
  <2>3. Len(Yielded(r)) = Len(got[r]) + Len(chan[r])
    BY <1>1, YieldedType
  <2> QED
    BY <2>2, <2>3
<1>4. Fresh
  BY <1>2, <1>3 DEF Fresh
<1>5. Fitting
  BY DEF ConnInit, Fitting, Live
<1> QED
  BY <1>3, <1>4, <1>5

LEMMA StutterFitting ==
  ASSUME Fresh, Fitting, UNCHANGED vars
  PROVE  Fresh' /\ Fitting'
<1>1. \A r : Yielded(r)' = Yielded(r) /\ Live(r)' = Live(r) /\ BlockAt(r)' = BlockAt(r)
  BY DEF vars, callVars, ioVars, Yielded, Live, Running, BlockAt
<1>2. UNCHANGED <<resp, made, wireIn, wireOut, srvPhase, state, held>> /\ NoLive' = NoLive
  BY DEF vars, ioVars, srvVars, NoLive
<1> QED
  BY <1>1, <1>2
  DEF Fresh, Fitting, Shape, Behind, Numbered, Unanswered, HeaderFirst, UpToMade

\* Whatever is lost on the way, a stream yields blocks of its own query in the order
\* of the server, none twice, and nothing after an error: receive_packet and run_inner
\* hand over a block only after every block before it.
THEOREM AlwaysInOrder ==
  ASSUME "split" \notin Faults
  PROVE  Spec => []StreamInOrder
<1> DEFINE All == Fresh /\ Fitting /\ StreamInOrder
<1>1. ConnInit => All
  BY InitFitting DEF StreamInOrder
<1>2. ASSUME All, UNCHANGED vars PROVE All'
  <2>1. \A r : Yielded(r)' = Yielded(r)
    BY <1>2 DEF vars, callVars, Yielded
  <2> QED
    BY <1>2, <2>1, StutterFitting DEF StreamInOrder
<1>3. TypeOK /\ InStep /\ Whole /\ QueriesOnce /\ All /\ [Next]_vars => All'
  BY <1>2, NextFresh, NextFitting, NextInOrder
<1>4. Spec => []InStep /\ []Whole
  BY AlwaysInStep, NeverTorn
<1>5. All => StreamInOrder
  OBVIOUS
<1> HIDE DEF All
<1> QED
  BY <1>1, <1>3, <1>4, <1>5, TypeCorrect, AlwaysOnce, PTL DEF Spec

-----------------------------------------------------------------------------
(* NeverGap: no block is lost but by a cancelled read.                     *)

\* A call that is over stays over.
LEMMA OverStays ==
  ASSUME TypeOK, Next, NEW e \in Req, RxOpen(e)'
  PROVE  RxOpen(e)
<1>0. DOMAIN pc = Req
  BY DEF TypeOK, CallsTypeOK
<1>1. ASSUME NEW r \in Req, Call(r) \/ Abandon(r)
      PROVE  RxOpen(e)
  <2>1. UNCHANGED pc \/ \E x : pc' = [pc EXCEPT ![r] = x]
    BY <1>1 DEF Call, CheckChannel, CheckStatus, SendOperation, AwaitResponse, AwaitPong,
                AwaitHeader, AwaitInsert, PollStream, Abandon
  <2>2. pc[r] \notin Ended
    BY <1>1 DEF Call, CheckChannel, CheckStatus, SendOperation, AwaitResponse, AwaitPong,
                AwaitHeader, AwaitInsert, PollStream, Abandon, Ended
  <2>3. e = r \/ pc'[e] = pc[e]
    BY <1>0, <2>1
  <2> QED
    BY <2>2, <2>3 DEF RxOpen
<1>2. CASE ShutdownSend \/ ShutdownAbort \/ DropConnection \/ Server \/ Loss
  BY <1>2 DEF RxOpen, ShutdownSend, ShutdownAbort, DropConnection, callVars, Server, ServerRead,
              ServerProgress, ServerHeader, ServerBlock, ServerEnd, ServerFails, Loss, ServerUnchanged
<1>3. CASE HandleOperation \/ ReceivePing \/ TaskEnd
  BY <1>3 DEF RxOpen, IoUnchanged, callVars, HandleOperation, HandlePing, HandleQuery,
              HandleInsert, HandleInsertFails, HandleShutdown, ReceivePing, TaskEnd, RunReturns,
              StoreStatus, DropInternal, Aborted
<1>4. CASE ReadPart \/ ReceivePacket \/ SendCompletes
  BY <1>4, ReadSteps DEF RxOpen
<1> QED
  BY <1>1, <1>2, <1>3, <1>4 DEF Next, IoTask

\* The end of an answer is not taken back.
LEMMA FinishedKept ==
  ASSUME Next
  PROVE  finished \subseteq finished'
<1>1. CASE ServerEnd
  BY <1>1 DEF ServerEnd
<1>2. CASE ~ServerEnd
  <2>1. UNCHANGED finished
    BY <1>2
    DEF Next, Call, Abandon, ShutdownSend, ShutdownAbort, DropConnection, IoTask, ReadPart,
        Server, Loss, UNCH_IO, IoUnchanged, srvVars, CheckChannel, CheckStatus, SendOperation,
        AwaitResponse, AwaitPong, AwaitHeader, AwaitInsert, PollStream, HandleOperation,
        HandlePing, HandleQuery, HandleInsert, HandleInsertFails, HandleShutdown,
        ReceivePacket, ReceiveHeader, ReceiveProgress, ReceiveBlock, ReceiveException,
        ReceiveEndOfStream, ReceiveTorn, ReadFails, SendCompletes, ReceivePing, TaskEnd,
        RunReturns, StoreStatus, DropInternal, Aborted, ServerRead, ServerProgress,
        ServerHeader, ServerBlock, ServerFails
  <2> QED
    BY <2>1
<1> QED
  BY <1>1, <1>2

\* What was thrown away stays in the history.
LEMMA DroppedKept ==
  ASSUME Next
  PROVE  dropped \subseteq dropped'
<1>1. ASSUME NEW op, NEW r, RecvOperation(op, r) PROVE dropped \subseteq dropped'
  BY <1>1 DEF RecvOperation
<1>2. CASE HandleOperation
  BY <1>1, <1>2
  DEF HandleOperation, HandlePing, HandleQuery, HandleInsert, HandleInsertFails, HandleShutdown
<1>3. CASE TaskEnd
  BY <1>3 DEF TaskEnd, RunReturns, StoreStatus, DropInternal, Aborted, DropsRest
<1>4. CASE ~HandleOperation /\ ~TaskEnd
  <2>1. UNCHANGED dropped
    BY <1>4
    DEF Next, Call, Abandon, ShutdownSend, ShutdownAbort, DropConnection, IoTask, ReadPart,
        Server, Loss, UNCH_IO, ioVars, CheckChannel, CheckStatus, SendOperation, AwaitResponse,
        AwaitPong, AwaitHeader, AwaitInsert, PollStream, ReceivePacket, ReadPacket, ReceiveHeader,
        ReceiveProgress, ReceiveBlock, ReceiveException, ReceiveEndOfStream, ReceiveTorn,
        ReadFails, SendCompletes, ReceivePing, ServerRead, ServerProgress, ServerHeader,
        ServerBlock, ServerEnd, ServerFails, ServerUnchanged
  <2> QED
    BY <2>1
<1> QED
  BY <1>2, <1>3, <1>4

\* What is accounted for stays so: items are only added.
LEMMA AccountedKept ==
  ASSUME TypeOK, StreamStep, dropped \subseteq dropped', NEW r \in Req, NEW n, Accounted(r, n)
  PROVE  Accounted(r, n)'
<1>1. Len(Yielded(r)) \in Nat
  BY YieldedType
<1>2. ASSUME NEW i \in 1..Len(Yielded(r))
      PROVE  i \in 1..Len(Yielded(r)') /\ Yielded(r)'[i] = Yielded(r)[i]
  <2>1. CASE Yielded(r)' = Yielded(r)
    BY <2>1
  <2>2. CASE \E item \in Items : Adds(r, item)
    BY <1>1, <2>2 DEF Adds
  <2> QED
    BY <2>1, <2>2 DEF StreamStep, SameItems, Adds
<1> QED
  BY <1>2 DEF Accounted

\* Block n has come to the caller, or is on its way to it.
OnTheWay(e, n) ==
    \/ Accounted(e, n)
    \/ held.p = "Block" /\ held.n = n
    \/ \E i \in 1..Len(wireOut) : BlockAt(i) /\ wireOut[i].n = n
UpTo(e, m) == \A n \in 1..m : OnTheWay(e, n)

\* The inductive invariant of NeverGap.  Whatever is lost, what comes before a block that
\* can still reach the caller can, too; while the server answers, and once it has
\* reported the end, that is all it has made.
Ending == \E i \in 1..Len(wireOut) : wireOut[i].p = "EndOfStream"
Kept(e) ==
    /\ Ending => e \in finished
    /\ RxOpen(e) =>
          /\ srvPhase \in Late \/ Ending => UpTo(e, made[e])
          /\ held.p = "Block" => UpTo(e, held.n - 1)
          /\ \A i \in 1..Len(wireOut) : BlockAt(i) => UpTo(e, wireOut[i].n - 1)
Gapless == \A e \in Req : Live(e) => Kept(e)

\* The packet the io task holds is one of the query that is executing.
LEMMA HeldBlock ==
  ASSUME TypeOK, InStep, NEW e \in Req, Live(e), held.p = "Block"
  PROVE  held = Packet("Block", e, held.n) /\ held.n \in Nat
<1>1. held # NoPacket /\ held \in HeldPackets
  BY DEF TypeOK, IoTypeOK, NoPacket, Packet
<1>2. held.req = e
  BY <1>1 DEF InStep, HeldInStep, Live
<1> QED
  BY <1>1, <1>2, WireNumbers DEF HeldPackets, Packet

\* A block on its way to a caller that listens goes on, unless the connection is lost.
LEMMA WayKept ==
  ASSUME TypeOK, InStep, StreamStep, dropped \subseteq dropped', NEW e \in Req, Live(e), RxOpen(e),
         Shape(e), Rests \/ HandsOver(e) \/ Takes(e) \/ Answers(e),
         NEW n \in Nat \ {0}, OnTheWay(e, n)
  PROVE  OnTheWay(e, n)'
<1>1. CASE Accounted(e, n)
  BY <1>1, AccountedKept DEF OnTheWay
<1>2. /\ Len(Yielded(e)) \in Nat /\ wireOut \in Seq(ServerPackets) /\ Len(wireOut) \in Nat
  BY YieldedType, WireNumbers
<1>3. ASSUME NEW m, Adds(e, m) PROVE Accounted(e, m)'
  BY <1>2, <1>3 DEF Adds, Accounted
<1>4. CASE held.p = "Block" /\ held.n = n
  <2>1. CASE Rests
    <3>1. held' = held \/ held \in dropped'
      BY <1>4, <2>1 DEF Rests, Live
    <3>2. held = Packet("Block", e, n)
      BY <1>4, HeldBlock
    <3> QED
      BY <1>4, <3>1, <3>2 DEF OnTheWay, Accounted
  <2>2. CASE HandsOver(e)
    BY <1>3, <1>4, <2>2 DEF HandsOver, OnTheWay
  <2> QED
    BY <1>4, <2>1, <2>2 DEF Takes, Answers, OnTheWay
<1>5. ASSUME NEW i \in 1..Len(wireOut), BlockAt(i), wireOut[i].n = n
      PROVE  OnTheWay(e, n)'
  <2>1. CASE Rests \/ HandsOver(e)
    BY <1>5, <2>1 DEF Rests, HandsOver, OnTheWay, BlockAt
  <2>2. CASE Answers(e)
    <3>1. PICK pkt : wireOut' = Append(wireOut, pkt)
      BY <2>2 DEF Answers, Sends
    <3>2. i \in 1..Len(wireOut') /\ wireOut'[i] = wireOut[i]
      BY <1>2, <3>1
    <3> QED
      BY <1>5, <3>2 DEF OnTheWay, BlockAt
  <2>3. CASE Takes(e)
    <3>1. wireOut # <<>> /\ wireOut' = Tail(wireOut)
      BY <2>3 DEF Takes
    <3>2. CASE i # 1
      <4>1. i - 1 \in 1..Len(wireOut') /\ wireOut'[i - 1] = wireOut[i]
        BY <1>2, <3>1, <3>2, TailElements
      <4> QED
        BY <1>5, <4>1 DEF OnTheWay, BlockAt
    <3>3. CASE i = 1
      <4>1. state # "Header"
        BY <1>5, <3>3 DEF Shape, HeaderFirst
      <4>2. TakesBlock(e)
        BY <1>5, <2>3, <3>3, <4>1 DEF Takes, TakesHeader, TakesOther
      <4>3. Adds(e, n) \/ held' = wireOut[1]
        BY <1>5, <3>3, <4>2 DEF TakesBlock
      <4> QED
        BY <1>3, <1>5, <3>3, <4>3 DEF OnTheWay, BlockAt
    <3> QED
      BY <3>2, <3>3
  <2> QED
    BY <2>1, <2>2, <2>3
<1> QED
  BY <1>1, <1>4, <1>5 DEF OnTheWay

\* So does everything up to a block.
LEMMA UpToKept ==
  ASSUME TypeOK, InStep, StreamStep, dropped \subseteq dropped', NEW e \in Req, Live(e), RxOpen(e),
         Shape(e), Rests \/ HandsOver(e) \/ Takes(e) \/ Answers(e),
         NEW m \in Int, UpTo(e, m)
  PROVE  \A n \in 1..m : OnTheWay(e, n)'
BY WayKept DEF UpTo

LEMMA RestsKept ==
  ASSUME TypeOK, InStep, StreamStep, dropped \subseteq dropped', finished \subseteq finished',
         NEW e \in Req, Live(e), RxOpen(e)' => RxOpen(e), Shape(e), Kept(e),
         Rests \/ HandsOver(e)
  PROVE  Kept(e)'
<1>1. /\ wireOut' = wireOut /\ made' = made /\ (srvPhase' \in Late => srvPhase \in Late)
      /\ held'.p = "Block" => held' = held
  BY DEF Rests, HandsOver
<1>2. Ending' <=> Ending
  BY <1>1 DEF Ending
<1>3. /\ made[e] \in Int /\ held.n - 1 \in Int /\ \A i \in 1..Len(wireOut) : wireOut[i].n - 1 \in Int
  BY WireNumbers
<1>4. ASSUME RxOpen(e), NEW m \in Int, UpTo(e, m) PROVE UpTo(e, m)'
  BY <1>4, UpToKept DEF UpTo
<1> QED
  BY <1>1, <1>2, <1>3, <1>4 DEF Kept, BlockAt

LEMMA TakesKept ==
  ASSUME TypeOK, InStep, StreamStep, dropped \subseteq dropped', finished \subseteq finished',
         NEW e \in Req, Live(e), RxOpen(e)' => RxOpen(e), Shape(e), Kept(e), Takes(e)
  PROVE  Kept(e)'
<1>1. /\ wireOut # <<>> /\ wireOut' = Tail(wireOut) /\ made' = made /\ srvPhase' = srvPhase
  BY DEF Takes
<1>2. /\ 1 \in 1..Len(wireOut)
      /\ \A i \in 1..Len(wireOut') : i + 1 \in 1..Len(wireOut) /\ wireOut'[i] = wireOut[i + 1]
  BY <1>1, TailElements, WireNumbers
<1>3. Ending' => Ending
  BY <1>2 DEF Ending
<1>4. /\ made[e] \in Int /\ \A i \in 1..Len(wireOut) : wireOut[i].n - 1 \in Int
  BY WireNumbers
<1>5. ASSUME RxOpen(e), NEW m \in Int, UpTo(e, m) PROVE UpTo(e, m)'
  BY <1>5, UpToKept DEF UpTo
<1>6. held'.p = "Block" => held' = wireOut[1] /\ BlockAt(1)
  BY DEF Takes, TakesHeader, TakesOther, TakesBlock
<1> QED
  BY <1>1, <1>2, <1>3, <1>4, <1>5, <1>6 DEF Kept, BlockAt

LEMMA AnswersKept ==
  ASSUME TypeOK, InStep, StreamStep, dropped \subseteq dropped', finished \subseteq finished',
         NEW e \in Req, Live(e), RxOpen(e)' => RxOpen(e), Shape(e), Kept(e), Answers(e)
  PROVE  Kept(e)'
<1>1. /\ Len(wireOut) \in Nat /\ wireOut \in Seq(ServerPackets) /\ held' = held
      /\ made \in [Req -> Nat] /\ made[e] \in Nat /\ held.n - 1 \in Int
      /\ \A i \in 1..Len(wireOut) : wireOut[i].n - 1 \in Int
  BY WireNumbers DEF Answers
<1>2. ASSUME NEW pkt, wireOut' = Append(wireOut, pkt)
      PROVE  \A i \in 1..Len(wireOut') : \/ i \in 1..Len(wireOut) /\ wireOut'[i] = wireOut[i]
                                         \/ i = Len(wireOut') /\ wireOut'[i] = pkt
  BY <1>1, <1>2
<1>3. ASSUME RxOpen(e), NEW m \in Int, UpTo(e, m) PROVE UpTo(e, m)'
  BY <1>3, UpToKept DEF UpTo
<1>4. srvPhase \in Early => made[e] = 0
  BY DEF Shape, Unanswered
<1>5. RxOpen(e) /\ srvPhase \in Early \cup Late => UpTo(e, made[e])
  BY <1>4 DEF Kept, UpTo
<1>6. ASSUME NEW pkt, wireOut' = Append(wireOut, pkt), pkt.p # "Block", made' = made,
             srvPhase' \notin Late,
             pkt.p = "EndOfStream" => srvPhase \in Early \cup Late /\ e \in finished'
      PROVE  Kept(e)'
  <2>1. Ending' => Ending \/ pkt.p = "EndOfStream"
    BY <1>2, <1>6 DEF Ending
  <2>2. \A i \in 1..Len(wireOut') : BlockAt(i)' =>
           i \in 1..Len(wireOut) /\ BlockAt(i) /\ wireOut'[i] = wireOut[i]
    BY <1>2, <1>6 DEF BlockAt
  <2> QED
    BY <1>1, <1>3, <1>5, <1>6, <2>1, <2>2 DEF Kept
<1>7. CASE /\ Sends("Progress", e, 0) /\ srvPhase \in Early /\ srvPhase' \in Early
           /\ UNCHANGED made
  BY <1>6, <1>7 DEF Sends, Packet, Early, Late
<1>8. CASE /\ Sends("Block", e, 0) /\ srvPhase \in Early /\ srvPhase' \in Late
           /\ UNCHANGED made
  <2> DEFINE pkt == Packet("Block", e, 0)
  <2>1. wireOut' = Append(wireOut, pkt) /\ pkt.p = "Block" /\ pkt.n = 0
    BY <1>8 DEF Sends, Packet
  <2> HIDE DEF pkt
  <2>2. Ending' => Ending
    BY <1>2, <2>1 DEF Ending
  <2>3. UpTo(e, made[e])' /\ UpTo(e, pkt.n - 1)'
    BY <1>4, <1>8, <2>1 DEF UpTo
  <2>4. \A i \in 1..Len(wireOut') : \/ i \in 1..Len(wireOut) /\ wireOut'[i] = wireOut[i]
                                    \/ wireOut'[i] = pkt
    BY <1>2, <2>1
  <2> QED
    BY <1>1, <1>3, <2>2, <2>3, <2>4 DEF Kept, BlockAt
<1>9. CASE /\ Sends("Block", e, made[e] + 1) /\ srvPhase \in Late /\ srvPhase' = srvPhase
           /\ made' = [made EXCEPT ![e] = @ + 1]
  <2> DEFINE pkt == Packet("Block", e, made[e] + 1)
  <2>1. wireOut' = Append(wireOut, pkt) /\ pkt.p = "Block" /\ pkt.n = made[e] + 1
    BY <1>9 DEF Sends, Packet
  <2> HIDE DEF pkt
  <2>2. Ending' => Ending
    BY <1>2, <2>1 DEF Ending
  <2>3. made'[e] = made[e] + 1 /\ pkt.n - 1 = made[e]
    BY <1>1, <1>9, <2>1
  <2>4. RxOpen(e) => UpTo(e, made[e])'
    <3>1. RxOpen(e) => \A n \in 1..made[e] : OnTheWay(e, n)'
      BY <1>1, <1>5, <1>9, UpToKept
    <3>2. OnTheWay(e, made[e])'
      <4>1. Len(wireOut') \in 1..Len(wireOut') /\ wireOut'[Len(wireOut')] = pkt
        BY <1>1, <2>1
      <4> QED
        BY <2>1, <2>3, <4>1 DEF OnTheWay, BlockAt
    <3>3. \A n \in 1..made'[e] : n \in 1..made[e] \/ n = made'[e]
      BY <1>1, <2>3
    <3> QED
      BY <3>1, <3>2, <3>3 DEF UpTo
  <2>5. RxOpen(e) => \A n \in 1..(pkt.n - 1) : OnTheWay(e, n)'
    BY <1>1, <1>5, <1>9, <2>3, UpToKept
  <2>6. \A i \in 1..Len(wireOut') : \/ i \in 1..Len(wireOut) /\ wireOut'[i] = wireOut[i]
                                    \/ wireOut'[i] = pkt
    BY <1>2, <2>1
  <2>7. ASSUME RxOpen(e), NEW i \in 1..Len(wireOut'), BlockAt(i)' PROVE UpTo(e, wireOut[i].n - 1)'
    <3>1. CASE wireOut'[i] = pkt
      BY <2>5, <2>7, <3>1 DEF UpTo
    <3>2. CASE i \in 1..Len(wireOut) /\ wireOut'[i] = wireOut[i]
      <4>1. BlockAt(i)
        BY <2>7, <3>2 DEF BlockAt
      <4> QED
        BY <1>1, <2>7, <3>2, <4>1, UpToKept DEF UpTo, Kept
    <3> QED
      BY <2>6, <3>1, <3>2
  <2>8. ASSUME RxOpen(e), held'.p = "Block" PROVE UpTo(e, held.n - 1)'
    BY <1>1, <2>8, UpToKept DEF UpTo, Kept
  <2>9. Ending' => e \in finished'
    BY <2>2 DEF Kept
  <2> QED
    BY <2>4, <2>7, <2>8, <2>9 DEF Kept
<1>10. CASE /\ \/ Sends("EndOfStream", e, 0) /\ e \in finished'
               \/ Sends("Exception", e, 0)
               \/ Sends("Fatal", e, 0)
            /\ srvPhase \in Early \cup Late /\ srvPhase' = "idle" /\ UNCHANGED made
  BY <1>6, <1>10 DEF Sends, Packet, Late
<1> QED
  BY <1>7, <1>8, <1>9, <1>10 DEF Answers

LEMMA LosesKept ==
  ASSUME TypeOK, InStep, StreamStep, dropped \subseteq dropped', finished \subseteq finished',
         NEW e \in Req, Live(e), RxOpen(e)' => RxOpen(e), Shape(e), Behind(e), Kept(e), Loses
  PROVE  Kept(e)'
<1>1. /\ srvPhase' \notin Late /\ made' = made /\ held' = held
  BY DEF Loses, Late
<1>2. /\ Len(wireOut') \in Nat /\ Len(wireOut') <= Len(wireOut) /\ Len(wireOut) \in Nat
      /\ \A i \in 1..Len(wireOut') : i \in 1..Len(wireOut) /\ wireOut'[i] = wireOut[i]
      /\ Len(wireOut') = Len(wireOut) => wireOut' = wireOut
  BY WireNumbers DEF Loses
<1>3. /\ \A i \in 1..Len(wireOut) : wireOut[i].n \in Nat
      /\ made[e] \in Nat /\ held.n \in Nat
  BY WireNumbers
<1>4. ASSUME NEW n, Accounted(e, n) PROVE Accounted(e, n)'
  BY <1>4, AccountedKept
<1>5. Ending' => Ending /\ wireOut' = wireOut
  <2>1. ASSUME NEW i \in 1..Len(wireOut'), wireOut'[i].p = "EndOfStream"
        PROVE  Ending /\ wireOut' = wireOut
    <3>1. i \in 1..Len(wireOut) /\ wireOut[i].p \in FinalKinds
      BY <1>2, <2>1 DEF FinalKinds
    <3>2. i = Len(wireOut)
      BY <3>1 DEF InStep, AnswerInStep
    <3> QED
      BY <1>2, <2>1, <3>2 DEF Ending
  <2> QED
    BY <2>1 DEF Ending
<1>6. ASSUME Ending', RxOpen(e) PROVE UpTo(e, made[e])'
  <2>1. UpTo(e, made[e]) /\ wireOut' = wireOut
    BY <1>5, <1>6 DEF Kept
  <2> QED
    BY <1>1, <1>4, <2>1 DEF UpTo, OnTheWay, BlockAt
<1>7. ASSUME held.p = "Block", RxOpen(e) PROVE UpTo(e, held.n - 1)'
  <2> SUFFICES ASSUME NEW n \in 1..(held.n - 1) PROVE OnTheWay(e, n)'
    BY <1>1 DEF UpTo
  <2>1. OnTheWay(e, n)
    BY <1>7 DEF Kept, UpTo
  <2>2. n < held.n /\ \A i \in 1..Len(wireOut) : BlockAt(i) => wireOut[i].n # n
    BY <1>3, <1>7 DEF Behind
  <2>3. Accounted(e, n)
    BY <1>3, <2>1, <2>2 DEF OnTheWay
  <2> QED
    BY <1>4, <2>3 DEF OnTheWay
<1>8. ASSUME NEW i \in 1..Len(wireOut'), BlockAt(i)', RxOpen(e)
      PROVE  UpTo(e, wireOut[i].n - 1)'
  <2>0. i \in 1..Len(wireOut) /\ wireOut'[i] = wireOut[i] /\ BlockAt(i)
    BY <1>2, <1>8 DEF BlockAt
  <2> SUFFICES ASSUME NEW n \in 1..(wireOut[i].n - 1) PROVE OnTheWay(e, n)'
    BY <2>0 DEF UpTo
  <2>1. OnTheWay(e, n) /\ n < wireOut[i].n
    BY <1>3, <1>8, <2>0 DEF Kept, UpTo
  <2>2. ASSUME NEW j \in 1..Len(wireOut), BlockAt(j), wireOut[j].n = n
        PROVE  OnTheWay(e, n)'
    <3>1. ~(i < j)
      <4> SUFFICES ASSUME i < j PROVE FALSE
        OBVIOUS
      <4>1. wireOut[j].n = wireOut[i].n + (j - i)
        BY <2>0, <2>2 DEF Shape, Numbered
      <4> QED
        BY <1>2, <1>3, <2>0, <2>1, <2>2, <4>1
    <3>2. j \in 1..Len(wireOut')
      BY <1>2, <3>1
    <3> QED
      BY <1>2, <2>2, <3>2 DEF OnTheWay, BlockAt
  <2> QED
    BY <1>1, <1>4, <2>1, <2>2 DEF OnTheWay
<1>9. Ending' => e \in finished'
  BY <1>5 DEF Kept
<1> QED
  BY <1>1, <1>6, <1>7, <1>8, <1>9 DEF Kept

LEMMA NextGapless ==
  ASSUME TypeOK, InStep, Whole, QueriesOnce, Fresh, Fitting, Gapless, Next
  PROVE  Gapless'
<1>1. StreamStep /\ dropped \subseteq dropped' /\ finished \subseteq finished'
  BY NextStream, DroppedKept, FinishedKept
<1>2. ASSUME NEW e \in Req, ~Live(e), Live(e)'
      PROVE  Kept(e)'
  <2>1. /\ made[e] = 0 /\ made' = made /\ wireOut' = <<>> /\ srvPhase' \notin Late
        /\ held'.p # "Block"
    BY <1>1, <1>2 DEF StreamStep, Begins, Fresh, Late
  <2>2. Len(wireOut') = 0
    BY <2>1
  <2>3. \A i \in 1..Len(wireOut') : FALSE
    BY <2>2
  <2> QED
    BY <2>1, <2>3 DEF Kept, Ending
<1>3. ASSUME NEW e \in Req, Live(e), Live(e)'
      PROVE  Kept(e)'
  <2>1. GoesOn(e) /\ Shape(e) /\ Behind(e) /\ Kept(e) /\ (RxOpen(e)' => RxOpen(e))
    BY <1>1, <1>3, OverStays DEF StreamStep, Fitting, Gapless
  <2> QED
    BY <1>1, <1>3, <2>1, RestsKept, TakesKept, AnswersKept, LosesKept DEF GoesOn
<1> QED
  BY <1>2, <1>3 DEF Gapless

LEMMA NextNoGap ==
  ASSUME TypeOK, InStep, Whole, QueriesOnce, Fresh, Fitting, Gapless, NoGap, Next
  PROVE  NoGap'
<1> SUFFICES ASSUME NEW r \in Req, NEW i \in 1..Len(Yielded(r)'), NEW n \in 1..(Yielded(r)'[i] - 1)
             PROVE  Accounted(r, n)'
  BY DEF NoGap
<1>1. StreamStep /\ dropped \subseteq dropped'
  BY NextStream, DroppedKept
<1>2. ASSUME i \in 1..Len(Yielded(r)), Yielded(r)'[i] = Yielded(r)[i]
      PROVE  Accounted(r, n)'
  BY <1>1, <1>2, AccountedKept DEF NoGap
<1>3. ASSUME Live(r), RxOpen(r), NEW item \in Items, Adds(r, item), ~Live(r)' => item = ErrItem
      PROVE  Accounted(r, n)'
  <2>1. Len(Yielded(r)) \in Nat /\ Len(Yielded(r)') = Len(Yielded(r)) + 1
    BY <1>3, YieldedType DEF Adds
  <2>2. CASE i \in 1..Len(Yielded(r))
    BY <1>2, <1>3, <2>2 DEF Adds
  <2>3. CASE i = Len(Yielded(r)) + 1
    <3>1. Yielded(r)'[i] = item /\ item \in Nat /\ n < item /\ n \in Nat \ {0} /\ item # ErrItem
      BY <1>3, <2>3 DEF Adds, Items, ErrItem
    <3>2. GoesOn(r) /\ Kept(r) /\ Shape(r) /\ Behind(r)
      BY <1>1, <1>3, <3>1 DEF StreamStep, Gapless, Fitting
    <3>3. ~SameItems
      BY <1>3, <2>1 DEF SameItems
    <3>4. /\ \A k \in 1..Len(wireOut) : wireOut[k].n \in Nat
          /\ Len(wireOut) \in Nat /\ held.n \in Nat
      BY WireNumbers
    <3>5. CASE HandsOver(r)
      <4>1. held.p = "Block" /\ item = held.n
        BY <1>3, <3>5 DEF HandsOver, Adds
      <4>2. OnTheWay(r, n)
        BY <1>3, <3>1, <3>2, <4>1 DEF Kept, UpTo
      <4>3. \A k \in 1..Len(wireOut) : BlockAt(k) => wireOut[k].n # n
        BY <3>1, <3>2, <3>4, <4>1 DEF Behind
      <4>4. Accounted(r, n)
        BY <3>1, <3>4, <4>1, <4>2, <4>3 DEF OnTheWay
      <4> QED
        BY <1>1, <4>4, AccountedKept
    <3>6. CASE Takes(r)
      <4>1. /\ held.p # "Block" /\ BlockAt(1) /\ 1 \in 1..Len(wireOut) /\ Adds(r, wireOut[1].n)
        BY <3>3, <3>6, WireNumbers, TailElements DEF Takes, TakesHeader, TakesOther, TakesBlock
      <4>2. item = wireOut[1].n
        BY <1>3, <4>1 DEF Adds
      <4>3. OnTheWay(r, n)
        BY <1>3, <3>1, <3>2, <4>1, <4>2 DEF Kept, UpTo
      <4>4. ASSUME NEW k \in 1..Len(wireOut), BlockAt(k) PROVE wireOut[k].n # n
        <5>1. k = 1 \/ wireOut[k].n = wireOut[1].n + (k - 1)
          BY <3>2, <3>4, <4>1, <4>4 DEF Shape, Numbered
        <5> QED
          BY <3>1, <3>4, <4>2, <5>1
      <4>5. Accounted(r, n)
        BY <4>1, <4>3, <4>4 DEF OnTheWay
      <4> QED
        BY <1>1, <4>5, AccountedKept
    <3> QED
      BY <3>2, <3>3, <3>5, <3>6 DEF GoesOn, Rests, Answers, Loses
  <2> QED
    BY <2>1, <2>2, <2>3
<1> QED
  BY <1>1, <1>2, <1>3 DEF StreamStep, SameItems, Adds

LEMMA InitGapless ==
  ASSUME ConnInit
  PROVE  Gapless /\ NoGap
<1>1. \A e \in Req : ~Live(e)
  BY DEF ConnInit, Live
<1>2. \A r \in Req : Len(Yielded(r)) = 0
  BY InitFitting
<1> QED
  BY <1>1, <1>2 DEF Gapless, NoGap

LEMMA StutterGapless ==
  ASSUME Gapless, NoGap, UNCHANGED vars
  PROVE  Gapless' /\ NoGap'
<1>1. \A r : Yielded(r)' = Yielded(r) /\ Live(r)' = Live(r) /\ RxOpen(r)' = RxOpen(r)
             /\ BlockAt(r)' = BlockAt(r)
  BY DEF vars, callVars, ioVars, Yielded, Live, Running, RxOpen, BlockAt
<1>2. UNCHANGED <<made, wireOut, srvPhase, held, dropped, finished>>
  BY DEF vars, ioVars, srvVars
<1>3. \A r, n : Accounted(r, n)' = Accounted(r, n)
  BY <1>1, <1>2 DEF Accounted
<1>4. \A r, n : OnTheWay(r, n)' = OnTheWay(r, n)
  BY <1>1, <1>2, <1>3 DEF OnTheWay
<1>5. \A r, m : UpTo(r, m)' = UpTo(r, m)
  BY <1>4 DEF UpTo
<1>6. Gapless'
  BY <1>1, <1>2, <1>5 DEF Gapless, Kept, Ending
<1> QED
  BY <1>1, <1>3, <1>6 DEF NoGap

\* Whatever the capacity of the response channel and whatever is lost, a stream has no
\* hole but the blocks a cancelled read threw away: receive_packet hands over every block
\* before the next one.
THEOREM NeverGap ==
  ASSUME "split" \notin Faults
  PROVE  Spec => []NoGap
<1> DEFINE All == Fresh /\ Fitting /\ Gapless /\ NoGap
<1>1. ConnInit => All
  BY InitFitting, InitGapless
<1>2. ASSUME All, UNCHANGED vars PROVE All'
  BY <1>2, StutterFitting, StutterGapless
<1>3. TypeOK /\ InStep /\ Whole /\ QueriesOnce /\ All /\ [Next]_vars => All'
  BY <1>2, NextFresh, NextFitting, NextGapless, NextNoGap
<1>4. Spec => []InStep /\ []Whole
  BY AlwaysInStep, NeverTorn
<1>5. All => NoGap
  OBVIOUS
<1> HIDE DEF All
<1> QED
  BY <1>1, <1>3, <1>4, <1>5, TypeCorrect, AlwaysOnce, PTL DEF Spec

-----------------------------------------------------------------------------
(* AlwaysWhole: a stream ends without an error at EndOfStream, or when the *)
(* task ends under it.                                                     *)

\* A query that starts was waiting, and then it executes.
StartsFresh(r) == /\ executing' = r => executing = r \/ resp[r] = "open"
                  /\ resp'[r] = "ok" => resp[r] = "ok" \/ executing' = r

LEMMA NextStart ==
  ASSUME TypeOK, InStep, QueriesOnce, Next, NEW r \in Req \ Pings
  PROVE  StartsFresh(r)
<1>0. DOMAIN resp = Req /\ r # NoReq
  BY DEF TypeOK, CallsTypeOK
<1>1. CASE UNCHANGED resp /\ executing' \in {executing, NoReq}
  BY <1>0, <1>1 DEF StartsFresh
<1>2. ASSUME NEW q \in Req, resp[q] = "open", SendQuery(q)
      PROVE  StartsFresh(r)
  <2>1. \/ resp' = [resp EXCEPT ![q] = "ok"] /\ executing' = q
        \/ resp' = [resp EXCEPT ![q] = "err"] /\ executing' = NoReq
    BY <1>2 DEF SendQuery
  <2> QED
    BY <1>0, <1>2, <2>1 DEF StartsFresh
<1>3. ASSUME NEW kind, NextQuery \/ AfterException(kind)
      PROVE  StartsFresh(r)
  <2>1. CASE executing' = NoReq /\ UNCHANGED resp
    BY <1>1, <2>1
  <2>2. CASE pending # <<>> /\ SendQuery(Head(pending))
    <3>1. 1 \in 1..Len(pending) /\ pending[1] = Head(pending) /\ Head(pending) \in Req
      BY <2>2, TailElements DEF TypeOK, IoTypeOK
    <3>2. resp[Head(pending)] = "open"
      BY <3>1 DEF QueriesOnce, WaitingOpen
    <3> QED
      BY <1>2, <2>2, <3>1, <3>2
  <2> QED
    BY <1>3, <2>1, <2>2 DEF NextQuery, AfterException
<1>4. CASE \E q \in Req : Call(q) \/ Abandon(q)
  <2>1. PICK q \in Req : Call(q) \/ Abandon(q)
    BY <1>4
  <2>2. UNCH_IO /\ (UNCHANGED resp \/ resp' = [resp EXCEPT ![q] = "open"])
    BY <2>1 DEF Call, CheckChannel, CheckStatus, SendOperation, AwaitResponse, AwaitPong,
                AwaitHeader, AwaitInsert, PollStream, Abandon
  <2> QED
    BY <1>0, <2>2 DEF UNCH_IO, ioVars, StartsFresh
<1>5. CASE ShutdownSend \/ ShutdownAbort \/ DropConnection
  BY <1>1, <1>5 DEF ShutdownSend, ShutdownAbort, DropConnection, UNCH_IO, ioVars
<1>6. CASE HandleOperation
  <2>1. ASSUME NEW q \in Req, HandleQuery(q) PROVE StartsFresh(r)
    <3>1. ops # <<>> /\ Head(ops) = Message("Query", q)
      BY <2>1 DEF HandleQuery, RecvOperation
    <3>2. 1 \in 1..Len(ops) /\ ops[1] = Message("Query", q)
      BY <3>1, TailElements DEF TypeOK, ChannelsTypeOK
    <3>3. resp[q] = "open"
      BY <3>2 DEF QueriesOnce, WaitingOpen, Message
    <3> QED
      BY <1>1, <1>2, <2>1, <3>3 DEF HandleQuery
  <2>2. CASE ~\E q \in Req : HandleQuery(q)
    BY <1>1, <1>6, <2>2 DEF HandleOperation, HandlePing, HandleInsert, HandleInsertFails, HandleShutdown
  <2> QED
    BY <2>1, <2>2
<1>7. CASE ReadPart \/ ReadFails \/ ReceiveHeader \/ ReceiveProgress \/ ReceiveBlock
  BY <1>1, <1>7 DEF ReadPart, ReadFails, ReceiveHeader, ReceiveProgress, ReceiveBlock
<1>8. CASE ReceiveException
  BY <1>1, <1>3, <1>8 DEF ReceiveException, SendItem
<1>9. CASE ReceiveEndOfStream
  BY <1>3, <1>9 DEF ReceiveEndOfStream
<1>10. CASE ReceiveTorn
  BY <1>1, <1>3, <1>10 DEF ReceiveTorn
<1>11. CASE SendCompletes
  BY <1>1, <1>3, <1>11 DEF SendCompletes, SendItem
<1>12. CASE ReceivePing
  <2>1. pinger # r
    BY <1>12 DEF ReceivePing, QueriesOnce, StartedAnswered
  <2> QED
    BY <1>0, <1>12, <2>1 DEF ReceivePing, StartsFresh
<1>13. CASE TaskEnd
  BY <1>1, <1>13, TaskEndSteps
<1>14. CASE Server \/ Loss
  BY <1>1, <1>14 DEF Server, ServerRead, ServerProgress, ServerHeader, ServerBlock, ServerEnd,
                     ServerFails, Loss, ServerUnchanged, ioVars
<1> QED
  BY <1>4, <1>5, <1>6, <1>7, <1>8, <1>9, <1>10, <1>11, <1>12, <1>13, <1>14
  DEF Next, IoTask, ReceivePacket

\* A caller goes on only after Ok(response), and is done only when its stream ended.
Answered ==
    \A r \in Req \ Pings :
        /\ pc[r] \in {"header", "icheck", "isend", "iwait", "stream", "done"} => resp[r] = "ok"
        /\ pc[r] = "done" => executing # r /\ chan[r] = <<>>

\* The stream of a call that is over does not change.
LEMMA OverQuiet ==
  ASSUME TypeOK, Next, NEW r \in Req, ~RxOpen(r)
  PROVE  chan'[r] = chan[r]
<1>0. DOMAIN chan = Req
  BY DEF TypeOK, ChannelsTypeOK
<1>1. CASE UNCHANGED chan
  BY <1>1
<1>2. ASSUME NEW pkt, NEW Continue, SendItem(pkt, Continue) PROVE chan'[r] = chan[r]
  BY <1>0, <1>2 DEF SendItem
<1>3. CASE \E q \in Req : Call(q) \/ Abandon(q)
  <2>1. ASSUME NEW q \in Req, PollStream(q) PROVE chan'[r] = chan[r]
    BY <1>0, <2>1 DEF PollStream, RxOpen, Ended
  <2> QED
    BY <1>1, <1>3, <2>1
    DEF Call, CheckChannel, CheckStatus, SendOperation, AwaitResponse, AwaitPong, AwaitHeader,
        AwaitInsert, Abandon
<1>4. CASE ShutdownSend \/ ShutdownAbort \/ DropConnection \/ Server \/ Loss \/ TaskEnd
  BY <1>1, <1>4
  DEF ShutdownSend, ShutdownAbort, DropConnection, Server, ServerRead, ServerProgress,
      ServerHeader, ServerBlock, ServerEnd, ServerFails, Loss, ServerUnchanged, TaskEnd, RunReturns,
      StoreStatus, DropInternal, Aborted
<1>5. CASE HandleOperation \/ ReceivePing
  BY <1>1, <1>2, <1>5 DEF HandleOperation, HandlePing, HandleQuery, HandleInsert,
                          HandleInsertFails, HandleShutdown, ReceivePing
<1>6. CASE ReadPart \/ ReceivePacket \/ SendCompletes
  BY <1>1, <1>2, <1>6
  DEF ReadPart, ReceivePacket, ReceiveHeader, ReceiveProgress, ReceiveBlock, ReceiveException,
      ReceiveEndOfStream, ReceiveTorn, ReadFails, SendCompletes
<1> QED
  BY <1>3, <1>4, <1>5, <1>6 DEF Next, IoTask

\* Where a caller may come from.
LEMMA CallerSteps ==
  ASSUME TypeOK, Next, NEW r \in Req \ Pings
  PROVE  /\ pc'[r] \in {"header", "icheck", "isend", "iwait", "stream", "done"} =>
               \/ pc[r] \in {"header", "icheck", "isend", "iwait", "stream", "done"}
               \/ resp[r] = "ok"
         /\ pc'[r] = "done" => \/ pc[r] = "done"
                               \/ /\ StreamEnded(r) /\ pc[r] = "stream"
                                  /\ UNCHANGED <<chan, executing>>
<1>0. DOMAIN pc = Req
  BY DEF TypeOK, CallsTypeOK
<1>1. CASE UNCHANGED pc
  BY <1>1
<1>2. ASSUME NEW q \in Req, Call(q) \/ Abandon(q), q # r
      PROVE  pc'[r] = pc[r]
  BY <1>0, <1>2 DEF Call, CheckChannel, CheckStatus, SendOperation, AwaitResponse, AwaitPong,
                    AwaitHeader, AwaitInsert, PollStream, Abandon
<1>3. CASE CheckChannel(r) \/ CheckStatus(r) \/ SendOperation(r) \/ Abandon(r)
  BY <1>0, <1>3 DEF CheckChannel, CheckStatus, SendOperation, Abandon
<1>4. CASE AwaitResponse(r) \/ AwaitHeader(r) \/ AwaitInsert(r) \/ AwaitPong(r)
  BY <1>0, <1>4 DEF AwaitResponse, AwaitHeader, AwaitInsert, AwaitPong
<1>5. CASE PollStream(r)
  BY <1>0, <1>5 DEF PollStream, UNCH_IO, ioVars
<1>6. CASE ~\E q \in Req : Call(q) \/ Abandon(q)
  <2>1. UNCHANGED pc
    BY <1>6, ReadSteps
    DEF Next, ShutdownSend, ShutdownAbort, DropConnection, callVars, Server, ServerRead,
        ServerProgress, ServerHeader, ServerBlock, ServerEnd, ServerFails, Loss, ServerUnchanged, IoTask,
        IoUnchanged, HandleOperation, HandlePing, HandleQuery, HandleInsert, HandleInsertFails,
        HandleShutdown, ReceivePing, TaskEnd, RunReturns, StoreStatus, DropInternal, Aborted
  <2> QED
    BY <1>1, <2>1
<1>7. CASE \E q \in Req : Call(q) \/ Abandon(q)
  <2>1. PICK q \in Req : Call(q) \/ Abandon(q)
    BY <1>7
  <2>2. CASE q # r
    BY <1>2, <2>1, <2>2
  <2>3. CASE q = r
    BY <1>3, <1>4, <1>5, <2>1, <2>3 DEF Call
  <2> QED
    BY <2>2, <2>3
<1> QED
  BY <1>6, <1>7

LEMMA NextAnswered ==
  ASSUME TypeOK, InStep, Whole, QueriesOnce, Answered, Next
  PROVE  Answered'
<1> SUFFICES ASSUME NEW r \in Req \ Pings
             PROVE  /\ pc'[r] \in {"header", "icheck", "isend", "iwait", "stream", "done"}
                          => resp'[r] = "ok"
                    /\ pc'[r] = "done" => executing' # r /\ chan'[r] = <<>>
  BY DEF Answered
<1>1. resp[r] = "ok" => resp'[r] = "ok"
  BY NextStream DEF KeepsOk
<1>2. pc'[r] \in {"header", "icheck", "isend", "iwait", "stream", "done"} => resp'[r] = "ok"
  BY <1>1, CallerSteps DEF Answered
<1>3. CASE pc[r] = "done"
  <2>1. executing # r /\ chan[r] = <<>> /\ resp[r] = "ok"
    BY <1>3 DEF Answered
  <2>2. executing' # r
    BY <2>1, NextStart DEF StartsFresh
  <2>3. chan'[r] = chan[r]
    BY <1>3, OverQuiet DEF RxOpen, Ended
  <2> QED
    BY <1>2, <2>1, <2>2, <2>3
<1>4. CASE pc[r] # "done"
  BY <1>2, <1>4, CallerSteps DEF StreamEnded
<1> QED
  BY <1>3, <1>4

\* How a query that executes comes to its end: an exception is sent to its caller, the
\* end of the answer was read, or the task ends and with it, at last, what is left.
AtEnd(e) == /\ wireOut # <<>> /\ wireOut[1].p = "EndOfStream" /\ held.p # "Block"
            /\ SameItems /\ executing' # e
HowEnded(e) == Adds(e, ErrItem) \/ AtEnd(e) \/ executing' = e \/ CutShort(e)'

LEMMA HowItEnds ==
  ASSUME TypeOK, InStep, Whole, QueriesOnce, Next,
         NEW e \in Req, Live(e), ~Live(e)', RxOpen(e)
  PROVE  HowEnded(e)
<1>0. /\ Running /\ executing = e /\ e # NoReq /\ ErrItem \in Items
      /\ io # "pinging" /\ resp[e] = "ok" /\ DOMAIN resp = Req
  <2>1. io # "pinging"
    BY DEF Live, InStep, TaskInStep
  <2>2. ErrItem \in Items
    BY DEF ErrItem, Items
  <2>3. resp[e] = "ok"
    BY DEF Live, QueriesOnce, StartedAnswered
  <2> QED
    BY <2>1, <2>2, <2>3 DEF Live, TypeOK, CallsTypeOK
<1>1. CASE executing' = executing
  BY <1>0, <1>1 DEF HowEnded
<1>2. CASE (\E r \in Req : Call(r) \/ Abandon(r)) \/ ShutdownSend \/ ShutdownAbort
           \/ DropConnection \/ Server \/ Loss \/ ReadPart
  <2>1. UNCHANGED executing
    BY <1>2
    DEF Call, CheckChannel, CheckStatus, SendOperation, AwaitResponse, AwaitPong, AwaitHeader,
        AwaitInsert, PollStream, Abandon, ShutdownSend, ShutdownAbort, DropConnection, UNCH_IO,
        ioVars, Server, ServerRead, ServerProgress, ServerHeader, ServerBlock, ServerEnd,
        ServerFails, Loss, ServerUnchanged, ReadPart
  <2> QED
    BY <1>1, <2>1
<1>3. CASE HandleOperation
  BY <1>0, <1>1, <1>3 DEF HandleOperation, HandlePing, HandleQuery, HandleInsert,
                          HandleInsertFails, HandleShutdown
<1>4. CASE ReadFails \/ ReceiveHeader \/ ReceiveProgress \/ ReceiveBlock \/ ReceivePing
  BY <1>1, <1>4 DEF ReadFails, ReceiveHeader, ReceiveProgress, ReceiveBlock, ReceivePing
<1>5. ASSUME HasRoom(e), NEW pkt, ItemOf(pkt) = ErrItem, NEW Continue, SendItem(pkt, Continue),
             UNCHANGED got
      PROVE  HowEnded(e)
  <2>1. chan' = [chan EXCEPT ![e] = Append(@, ErrItem)]
    BY <1>0, <1>5 DEF SendItem
  <2> QED
    BY <1>0, <1>5, <2>1, StreamAdds DEF HowEnded
<1>6. CASE ReceiveException
  <2>1. CASE ~HasRoom(executing)
    BY <1>1, <1>6, <2>1 DEF ReceiveException
  <2>2. CASE HasRoom(executing)
    <3>1. /\ SendItem(Head(wireOut), AfterException(Head(wireOut).p)) /\ UNCHANGED got
          /\ Head(wireOut).p \in {"Exception", "Fatal"}
      BY <1>6, <2>2 DEF ReceiveException, ReadPacket, IoUnchanged, callVars
    <3>2. ItemOf(Head(wireOut)) = ErrItem
      BY <3>1 DEF ItemOf
    <3> QED
      BY <1>0, <1>5, <2>2, <3>1, <3>2
  <2> QED
    BY <2>1, <2>2
<1>7. CASE ReceiveEndOfStream
  <2>1. /\ wireOut # <<>> /\ Head(wireOut).p = "EndOfStream" /\ UNCHANGED <<got, chan>> /\ NextQuery
        /\ io = "select"
    BY <1>7 DEF ReceiveEndOfStream, ReadPacket, Reading, IoUnchanged, callVars
  <2>2. wireOut[1].p = "EndOfStream"
    BY <2>1, TailElements, IoTypeParts
  <2>3. held.p # "Block"
    BY <2>1 DEF InStep, HeldInStep, NoPacket, Packet
  <2> QED
    BY <2>1, <2>2, <2>3, StreamsSame DEF HowEnded, AtEnd
<1>8. ASSUME ReceiveTorn PROVE FALSE
  <2>1. wireOut # <<>> /\ Head(wireOut).p = "Torn"
    BY <1>8 DEF ReceiveTorn, ReadPacket
  <2> QED
    BY <2>1, TailElements, IoTypeParts DEF Whole
<1>9. CASE SendCompletes
  <2>1. CASE held.p \in {"Block", "InsertError"}
    BY <1>1, <1>9, <2>1 DEF SendCompletes, SendItem
  <2>2. CASE held.p \notin {"Block", "InsertError"}
    <3>1. HasRoom(executing) /\ ItemOf(held) = ErrItem /\ UNCHANGED got
      BY <1>9, <2>2 DEF SendCompletes, ItemOf, IoUnchanged, callVars
    <3>2. chan' = [chan EXCEPT ![e] = Append(@, ErrItem)]
      BY <1>0, <1>9, <3>1 DEF SendCompletes, SendItem
    <3> QED
      BY <1>0, <3>1, <3>2, StreamAdds DEF HowEnded
  <2> QED
    BY <2>1, <2>2
<1>10. CASE TaskEnd
  BY <1>0, <1>1, <1>10 DEF TaskEnd, RunReturns, StoreStatus, DropInternal, Aborted, DropsRest,
                           HowEnded, CutShort
<1> QED
  BY <1>2, <1>3, <1>4, <1>6, <1>7, <1>8, <1>9, <1>10 DEF Next, IoTask, ReceivePacket

\* A task that is ending keeps its query until its own end, and then cuts it short.
LEMMA EndingKeeps ==
  ASSUME TypeOK, InStep, Next, NEW r \in Req, executing = r, ~Running
  PROVE  executing' = r \/ CutShort(r)'
<1>0. io \notin {"select", "sending", "pinging"} /\ r # NoReq
  BY DEF Running
<1>1. CASE (\E q \in Req : Call(q) \/ Abandon(q)) \/ ShutdownSend \/ ShutdownAbort
           \/ DropConnection \/ Server \/ Loss
  BY <1>1
  DEF Call, CheckChannel, CheckStatus, SendOperation, AwaitResponse, AwaitPong, AwaitHeader,
      AwaitInsert, PollStream, Abandon, ShutdownSend, ShutdownAbort, DropConnection, UNCH_IO,
      ioVars, Server, ServerRead, ServerProgress, ServerHeader, ServerBlock, ServerEnd,
      ServerFails, Loss, ServerUnchanged
<1>2. ASSUME HandleOperation \/ ReceivePing PROVE FALSE
  BY <1>0, <1>2 DEF HandleOperation, HandlePing, HandleQuery, HandleInsert, HandleInsertFails,
                    HandleShutdown, RecvOperation, ReceivePing
<1>3. ASSUME ReadPart \/ ReceivePacket \/ SendCompletes PROVE FALSE
  BY <1>0, <1>3, ReadSteps
<1>4. CASE TaskEnd
  BY <1>0, <1>4 DEF TaskEnd, RunReturns, StoreStatus, DropInternal, Aborted, DropsRest, CutShort
<1> QED
  BY <1>1, <1>2, <1>3, <1>4 DEF Next, IoTask

\* The inductive invariant of AlwaysWhole, with Answered: a stream that is over has an
\* error, or the whole answer, or was cut short, or will be when the task has ended.
HasErr(r) == \E k \in 1..Len(Yielded(r)) : Yielded(r)[k] = ErrItem
Complete(r) == r \in finished /\ executing # r /\ \A n \in 1..made[r] : Accounted(r, n)
Settled ==
    \A r \in Req \ Pings :
        resp[r] = "ok" /\ pc[r] \notin {"dropped", "failed"} /\ ~Live(r) =>
            HasErr(r) \/ Complete(r) \/ CutShort(r) \/ executing = r

LEMMA NextSettled ==
  ASSUME TypeOK, InStep, Whole, QueriesOnce, Fitting, Gapless, Answered, Settled, Next
  PROVE  Settled'
<1> SUFFICES ASSUME NEW r \in Req \ Pings, resp'[r] = "ok",
                    pc'[r] \notin {"dropped", "failed"}, ~Live(r)'
             PROVE  HasErr(r)' \/ Complete(r)' \/ CutShort(r)' \/ executing' = r
  BY DEF Settled
<1>1. /\ StreamStep /\ StartsFresh(r) /\ finished \subseteq finished' /\ dropped \subseteq dropped'
  BY NextStream, FinishedKept, DroppedKept, NextStart
<1>2. pc[r] \notin {"dropped", "failed"}
  <2>1. CASE pc'[r] = "done"
    BY <2>1, CallerSteps
  <2>2. CASE pc'[r] # "done"
    <3>1. RxOpen(r)'
      BY <2>2 DEF RxOpen, Ended
    <3> QED
      BY <3>1, OverStays DEF RxOpen, Ended
  <2> QED
    BY <2>1, <2>2
<1>3. Len(Yielded(r)) \in Nat
  BY YieldedType
<1>4. CASE resp[r] # "ok"
  BY <1>1, <1>4 DEF StartsFresh
<1>5. CASE resp[r] = "ok" /\ ~Live(r)
  <2>1. HasErr(r) \/ Complete(r) \/ CutShort(r) \/ executing = r
    BY <1>2, <1>5 DEF Settled
  <2>2. Yielded(r)' = Yielded(r)
    BY <1>1, <1>5 DEF StreamStep, SameItems, Adds
  <2>3. Complete(r) => Complete(r)'
    <3>1. executing # r => executing' # r /\ made'[r] = made[r]
      BY <1>1, <1>5, MadeKept DEF StartsFresh
    <3> QED
      BY <1>1, <3>1, AccountedKept DEF Complete
  <2>4. HasErr(r) => HasErr(r)'
    BY <2>2 DEF HasErr
  <2>5. CutShort(r) => CutShort(r)'
    BY <1>1 DEF CutShort
  <2>6. executing = r => executing' = r \/ CutShort(r)'
    BY <1>5, EndingKeeps DEF Live
  <2> QED
    BY <2>1, <2>3, <2>4, <2>5, <2>6
<1>6. CASE Live(r)
  <2>1. RxOpen(r)
    BY <1>2, <1>6 DEF Answered, Live, RxOpen, Ended
  <2>2. HowEnded(r) /\ Kept(r)
    BY <1>6, <2>1, HowItEnds DEF Gapless
  <2>3. CASE Adds(r, ErrItem)
    BY <1>3, <2>3 DEF Adds, HasErr
  <2>4. CASE AtEnd(r)
    <3>1. 1 \in 1..Len(wireOut) /\ wireOut[1].p = "EndOfStream"
      BY <2>4, TailElements, WireNumbers DEF AtEnd
    <3>2. Ending /\ Len(wireOut) = 1
      BY <3>1 DEF Ending, InStep, AnswerInStep, FinalKinds
    <3>3. r \in finished /\ UpTo(r, made[r])
      BY <2>1, <2>2, <3>2 DEF Kept
    <3>4. \A n \in 1..made[r] : Accounted(r, n)
      BY <2>4, <3>1, <3>2, <3>3 DEF UpTo, OnTheWay, BlockAt, AtEnd
    <3>5. made'[r] = made[r]
      <4>1. ~ServerBlock
        BY <1>6, <2>4 DEF ServerBlock, ServerUnchanged, ioVars, Live, AtEnd
      <4> QED
        BY <4>1, OnlyServerBlock
    <3> QED
      BY <1>1, <2>4, <3>3, <3>4, <3>5, AccountedKept DEF Complete, AtEnd
  <2> QED
    BY <2>2, <2>3, <2>4 DEF HowEnded
<1> QED
  BY <1>4, <1>5, <1>6

LEMMA StutterSettled ==
  ASSUME Answered, Settled, UNCHANGED vars
  PROVE  Answered' /\ Settled'
<1>1. \A r : Yielded(r)' = Yielded(r) /\ Live(r)' = Live(r)
  BY DEF vars, callVars, ioVars, Yielded, Live, Running
<1>2. UNCHANGED <<pc, resp, chan, executing, made, finished, dropped>>
  BY DEF vars, callVars, ioVars, srvVars
<1>3. \A r, n : Accounted(r, n)' = Accounted(r, n)
  BY <1>1, <1>2 DEF Accounted
<1>4. \A r : HasErr(r)' = HasErr(r) /\ Complete(r)' = Complete(r) /\ CutShort(r)' = CutShort(r)
  BY <1>1, <1>2, <1>3 DEF HasErr, Complete, CutShort
<1> QED
  BY <1>1, <1>2, <1>4 DEF Answered, Settled

\* Whatever is lost and however the task ends: a stream that ends without an error, and
\* was not cut short by the end of the task, is the whole answer but for the blocks of
\* cancelled reads, and the server has reported the end of the query.
THEOREM AlwaysWhole ==
  ASSUME "split" \notin Faults
  PROVE  Spec => []AnswerWhole
<1> DEFINE All == Fresh /\ Fitting /\ Gapless /\ NoGap /\ Answered /\ Settled
<1>1. ConnInit => All
  <2> SUFFICES ASSUME ConnInit PROVE All
    OBVIOUS
  <2>1. Fresh /\ Fitting /\ Gapless /\ NoGap
    BY InitFitting, InitGapless
  <2>2. \A r \in Req \ Pings : pc[r] = "check" /\ resp[r] = "none"
    BY DEF ConnInit
  <2>3. Answered /\ Settled
    BY <2>2 DEF Answered, Settled
  <2> QED
    BY <2>1, <2>3
<1>2. ASSUME All, UNCHANGED vars PROVE All'
  BY <1>2, StutterFitting, StutterGapless, StutterSettled
<1>3. TypeOK /\ InStep /\ Whole /\ QueriesOnce /\ All /\ [Next]_vars => All'
  BY <1>2, NextFresh, NextFitting, NextGapless, NextNoGap, NextAnswered, NextSettled
<1>4. Spec => []InStep /\ []Whole
  BY AlwaysInStep, NeverTorn
<1>5. TypeOK /\ All => AnswerWhole
  <2> SUFFICES ASSUME TypeOK, All, NEW r \in Req \ Pings, pc[r] = "done", ~CutShort(r),
                      \A i \in 1..Len(got[r]) : got[r][i] # ErrItem
               PROVE  r \in finished /\ \A n \in 1..made[r] : Accounted(r, n)
    BY DEF AnswerWhole
  <2>1. executing # r /\ chan[r] = <<>> /\ resp[r] = "ok" /\ ~Live(r)
    BY DEF Answered, Live
  <2>2. got[r] \in Seq(Items)
    BY DEF TypeOK, CallsTypeOK
  <2>3. Yielded(r) = got[r]
    BY <2>1, <2>2 DEF Yielded
  <2>4. HasErr(r) \/ Complete(r)
    BY <2>1 DEF Settled
  <2> QED
    BY <2>3, <2>4 DEF HasErr, Complete
<1> HIDE DEF All
<1> QED
  BY <1>1, <1>3, <1>4, <1>5, TypeCorrect, AlwaysOnce, PTL DEF Spec
=============================================================================
