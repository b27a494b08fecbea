-------------------------- MODULE ConnectionProofs --------------------------
(***************************************************************************)
(* Proofs about module Connection, for every set of calls, capacity and    *)
(* number of blocks:                                                       *)
(*                                                                         *)
(*   TypeCorrect            types, and channels within their capacities    *)
(*   AlwaysInStep           the inductive invariant: one request under way *)
(*   ResponsesAlwaysBelong  every packet goes to the query it answers      *)
(*                                                                         *)
(* The last two assume that packets arrive whole (no "split").             *)
(***************************************************************************)
EXTENDS Connection, TLAPS

USE ReqAssumption, KindAssumption, BoundAssumption

\* A send on the operations channel keeps it within its type and capacity.
LEMMA OpsAppend ==
  ASSUME TypeOK, NEW m \in Messages, Len(ops) < OpsCap, ops' = Append(ops, m)
  PROVE  ops' \in Seq(Messages) /\ Len(ops') <= OpsCap
<1>1. ops \in Seq(Messages)
  BY DEF TypeOK, ChannelsTypeOK
<1>2. Len(ops) \in Nat /\ OpsCap \in Nat
  BY <1>1
<1>3. ops' \in Seq(Messages) /\ Len(ops') = Len(ops) + 1
  BY <1>1
<1> QED
  BY <1>2, <1>3

\* A step of a caller leaves the io task, the wire and the server alone.
LEMMA CallFrame ==
  ASSUME TypeOK, UNCH_IO
  PROVE  IoTypeOK' /\ WireTypeOK' /\ ServerTypeOK'
BY DEF TypeOK, UNCH_IO, ioVars, srvVars, IoTypeOK, WireTypeOK, ServerTypeOK

\* Every step of a call (client.rs, send_operation, check_connection) keeps the types.
LEMMA CallType ==
  ASSUME TypeOK, NEW r \in Req, Call(r) \/ Abandon(r)
  PROVE  TypeOK'
<1> SUFFICES UNCH_IO /\ CallsTypeOK' /\ ChannelsTypeOK'
  BY CallFrame DEF TypeOK
<1> USE DEF TypeOK, CallsTypeOK, ChannelsTypeOK, Ended
<1>1. CASE CheckChannel(r)
  BY <1>1 DEF CheckChannel
<1>2. CASE CheckStatus(r)
  BY <1>2 DEF CheckStatus
<1>3. CASE SendOperation(r)
  <2>1. UNCH_IO /\ CallsTypeOK'
    BY <1>3 DEF SendOperation
  <2>2. PICK m \in Messages : (ops' = Append(ops, m) /\ Len(ops) < OpsCap) \/ ops' = ops
    BY <1>3 DEF SendOperation, Messages, Message
  <2>3. ops' \in Seq(Messages) /\ Len(ops') <= OpsCap
    BY <2>2, OpsAppend
  <2> QED
    BY <1>3, <2>1, <2>3 DEF SendOperation
<1>4. CASE AwaitResponse(r)
  BY <1>4, ZenonT(60) DEF AwaitResponse
<1>5. CASE AwaitPong(r)
  BY <1>5 DEF AwaitPong
<1>6. CASE AwaitHeader(r)
  BY <1>6, ZenonT(60) DEF AwaitHeader
<1>7. CASE AwaitInsert(r)
  BY <1>7, ZenonT(60) DEF AwaitInsert
<1>8. CASE PollStream(r)
  <2>1. CASE chan[r] # <<>> /\ got' = [got EXCEPT ![r] = Append(@, Head(chan[r]))]
                            /\ chan' = [chan EXCEPT ![r] = Tail(@)]
    <3>1. chan[r] \in Seq(Items) /\ got[r] \in Seq(Items) /\ chan[r] # <<>>
      BY <2>1
    <3>2. /\ Head(chan[r]) \in Items /\ Tail(chan[r]) \in Seq(Items)
          /\ Len(Tail(chan[r])) <= Len(chan[r])
      BY <3>1
    <3>3. Append(got[r], Head(chan[r])) \in Seq(Items)
      BY <3>1, <3>2
    <3> QED
      BY <1>8, <2>1, <3>2, <3>3 DEF PollStream
  <2>2. CASE UNCHANGED <<got, chan>>
    BY <1>8, <2>2, ZenonT(60) DEF PollStream
  <2> QED
    BY <1>8, <2>1, <2>2 DEF PollStream
<1>9. CASE Abandon(r)
  BY <1>9 DEF Abandon
<1> QED
  BY <1>1, <1>2, <1>3, <1>4, <1>5, <1>6, <1>7, <1>8, <1>9 DEF Call

\* So do Client::shutdown and the drop of the last Client.
LEMMA ControlType ==
  ASSUME TypeOK, ShutdownSend \/ ShutdownAbort \/ DropConnection
  PROVE  TypeOK'
<1> SUFFICES UNCH_IO /\ CallsTypeOK' /\ ChannelsTypeOK'
  BY CallFrame DEF TypeOK
<1> USE DEF TypeOK, CallsTypeOK, ChannelsTypeOK
<1>1. CASE ShutdownSend
  <2>1. Message("Shutdown", NoReq) \in Messages
    BY DEF Messages
  <2>2. ops' \in Seq(Messages) /\ Len(ops') <= OpsCap
    BY <1>1, <2>1, OpsAppend DEF ShutdownSend
  <2> QED
    BY <1>1, <2>2 DEF ShutdownSend, callVars
<1>2. CASE ShutdownAbort
  BY <1>2 DEF ShutdownAbort, callVars
<1>3. CASE DropConnection
  BY <1>3 DEF DropConnection, callVars
<1> QED
  BY <1>1, <1>2, <1>3

\* What the server sends is well typed, and a broken connection leaves a prefix.
LEMMA ServerType ==
  ASSUME TypeOK, Server \/ Loss
  PROVE  TypeOK'
<1> SUFFICES ServerUnchanged /\ WireTypeOK' /\ ServerTypeOK'
  BY DEF TypeOK, ServerUnchanged, callVars, ioVars, CallsTypeOK, ChannelsTypeOK, IoTypeOK
<1> USE DEF TypeOK, WireTypeOK, ServerTypeOK
<1>1. ASSUME NEW kind \in ServerKinds, NEW n \in Items, srvPhase # "idle", Reply(kind, n)
      PROVE  wireOut' \in Seq(ServerPackets)
  BY <1>1 DEF Reply, Packet, ServerPackets
<1> USE DEF ServerKinds, Items
<1>2. CASE ServerRead
  <2> DEFINE m == Head(wireIn)
  <2>1. m \in ClientPackets /\ Tail(wireIn) \in Seq(ClientPackets) /\ <<>> \in Seq(ClientPackets)
    BY <1>2 DEF ServerRead
  <2>2. m.req \in Req /\ Packet("Pong", m.req, 0) \in ServerPackets
    BY <2>1 DEF ClientPackets, ServerPackets, Packet
  <2>3. WireTypeOK'
    <3>1. wireIn' \in {Tail(wireIn), <<>>} /\ net' \in {net, "down"}
      BY <1>2 DEF ServerRead, Hangup
    <3>2. wireOut' = wireOut \/ wireOut' = Append(wireOut, Packet("Pong", m.req, 0))
      BY <1>2 DEF ServerRead
    <3>3. Append(wireOut, Packet("Pong", m.req, 0)) \in Seq(ServerPackets)
      BY <2>2
    <3> QED
      BY <2>1, <3>1, <3>2, <3>3
  <2>4. ServerTypeOK'
    BY <1>2, <2>1, <2>2 DEF ServerRead, Hangup, srvVars
  <2> QED
    BY <1>2, <2>3, <2>4 DEF ServerRead
<1>3. CASE ServerProgress
  BY <1>1, <1>3 DEF ServerProgress
<1>4. CASE ServerHeader
  BY <1>1, <1>4 DEF ServerHeader
<1>5. CASE ServerBlock
  <2>1. srvReq \in Req /\ made[srvReq] + 1 \in Items
    BY <1>5 DEF ServerBlock
  <2> QED
    BY <1>1, <1>5, <2>1 DEF ServerBlock
<1>6. CASE ServerEnd \/ ServerFails
  BY <1>1, <1>6 DEF ServerEnd, ServerFails
<1>7. CASE Loss
  <2>1. wireOut' \in Seq(ServerPackets)
    BY <1>7 DEF Loss
  <2> QED
    BY <1>7, <2>1 DEF Loss, Hangup
<1> QED
  BY <1>2, <1>3, <1>4, <1>5, <1>6, <1>7 DEF Server

-----------------------------------------------------------------------------
(* The io task.                                                            *)

\* The operators the handlers share keep the types of what they change.
LEMMA SendQueryType ==
  ASSUME TypeOK, NEW r \in Req, SendQuery(r)
  PROVE  /\ resp' \in [Req -> {"none", "open", "ok", "err"}]
         /\ executing' \in Req \cup {NoReq} /\ state' \in {"Header", "InProgress"}
         /\ io' \in {"select", "retErr"}
         /\ wireIn' \in Seq(ClientPackets)
<1>1. /\ Packet("Query", r, 0) \in ClientPackets /\ Packet("Delim", r, 0) \in ClientPackets
  BY DEF Packet, ClientPackets, ClientKinds
<1>2. wireIn \in Seq(ClientPackets)
  BY DEF TypeOK, WireTypeOK
<1>3. wireIn \o <<Packet("Query", r, 0), Packet("Delim", r, 0)>> \in Seq(ClientPackets)
  BY <1>1, <1>2
<1>4. wireIn' \in Seq(ClientPackets)
  BY <1>2, <1>3 DEF SendQuery, Write
<1> QED
  BY <1>4 DEF SendQuery, TypeOK, CallsTypeOK

\* run_inner takes the next query off the pending queue.
LEMMA NextQueryType ==
  ASSUME TypeOK, NextQuery
  PROVE  /\ resp' \in [Req -> {"none", "open", "ok", "err"}]
         /\ executing' \in Req \cup {NoReq} /\ state' \in {"Header", "InProgress"}
         /\ io' \in {"select", "retErr"}
         /\ wireIn' \in Seq(ClientPackets)
         /\ pending' \in Seq(Req)
<1> USE DEF TypeOK, IoTypeOK, WireTypeOK, CallsTypeOK
<1>1. CASE pending = <<>>
  BY <1>1 DEF NextQuery
<1>2. CASE pending # <<>>
  <2>1. Head(pending) \in Req /\ Tail(pending) \in Seq(Req)
    BY <1>2
  <2> QED
    BY <1>2, <2>1, SendQueryType DEF NextQuery
<1> QED
  BY <1>1, <1>2

\* exec.response.send never puts more than RespCap items into a response channel.
LEMMA SendItemType ==
  ASSUME TypeOK, NEW pkt \in HeldPackets, executing \in Req,
         \/ held' = pkt /\ io' = "sending" /\ UNCHANGED chan
         \/ /\ HasRoom(executing) /\ held' = NoPacket
            /\ chan' = IF RxOpen(executing)
                         THEN [chan EXCEPT ![executing] = Append(@, ItemOf(pkt))]
                         ELSE chan
  PROVE  /\ chan' \in [Req -> Seq(Items)] /\ \A r \in Req : Len(chan'[r]) <= RespCap
         /\ held' \in HeldPackets \cup {NoPacket}
<1>1. ItemOf(pkt) \in Items
  BY DEF ItemOf, HeldPackets, ErrItem, Items
<1>2. chan \in [Req -> Seq(Items)] /\ \A r \in Req : Len(chan[r]) <= RespCap
  BY DEF TypeOK, ChannelsTypeOK
<1>3. chan[executing] \in Seq(Items) /\ Len(chan[executing]) \in Nat
  BY <1>2
<1>4. /\ Append(chan[executing], ItemOf(pkt)) \in Seq(Items)
      /\ Len(Append(chan[executing], ItemOf(pkt))) = Len(chan[executing]) + 1
  BY <1>1, <1>3
<1>5. CASE RxOpen(executing) /\ HasRoom(executing)
  <2>1. Len(chan[executing]) + 1 <= RespCap
    BY <1>3, <1>5 DEF HasRoom
  <2> QED
    BY <1>2, <1>4, <1>5, <2>1
<1> QED
  BY <1>2, <1>5

\* Taking an operation keeps the channel and, torn packet included, the wire typed.
LEMMA RecvOperationType ==
  ASSUME TypeOK, NEW op, NEW r, RecvOperation(op, r)
  PROVE  /\ ops' \in Seq(Messages) /\ Len(ops') <= OpsCap
         /\ wireOut' \in Seq(ServerPackets)
         /\ partial' = FALSE
         /\ dropped' \subseteq DroppedPackets
<1>8. dropped' \subseteq DroppedPackets
  <2>1. dropped \subseteq DroppedPackets /\ held \in HeldPackets \cup {NoPacket}
    BY DEF TypeOK, IoTypeOK
  <2>2. dropped' = dropped \/ (held # NoPacket /\ dropped' = dropped \cup {held})
    BY DEF RecvOperation
  <2>3. HeldPackets \subseteq DroppedPackets
    BY DEF DroppedPackets
  <2> QED
    BY <2>1, <2>2, <2>3
<1>1. ops \in Seq(Messages) /\ ops # <<>> /\ Len(ops) <= OpsCap
  BY DEF RecvOperation, TypeOK, ChannelsTypeOK
<1>2. ops' = Tail(ops)
  BY DEF RecvOperation
<1>3. Len(ops) \in Nat /\ Tail(ops) \in Seq(Messages) /\ Len(Tail(ops)) = Len(ops) - 1
  BY <1>1
<1>4. ops' \in Seq(Messages) /\ Len(ops') <= OpsCap
  BY <1>1, <1>2, <1>3
<1>5. wireOut \in Seq(ServerPackets)
  BY DEF TypeOK, WireTypeOK
<1>6. CASE partial /\ wireOut # <<>>
  <2> DEFINE t == [Head(wireOut) EXCEPT !.p = "Torn"]
  <2>1. Head(wireOut) \in ServerPackets /\ Tail(wireOut) \in Seq(ServerPackets)
    BY <1>5, <1>6
  <2>2. t \in ServerPackets
    BY <2>1 DEF ServerPackets, ServerKinds
  <2>3. wireOut' = <<t>> \o Tail(wireOut)
    BY <1>6 DEF RecvOperation
  <2> HIDE DEF t
  <2>4. <<t>> \o Tail(wireOut) \in Seq(ServerPackets)
    BY <2>1, <2>2
  <2> QED
    BY <1>4, <1>8, <2>3, <2>4 DEF RecvOperation
<1>7. CASE ~(partial /\ wireOut # <<>>)
  BY <1>4, <1>5, <1>7, <1>8 DEF RecvOperation
<1> QED
  BY <1>6, <1>7

\* What is left to show of a step of the io task while it runs.
IoStepTypeOK ==
    /\ resp' \in [Req -> {"none", "open", "ok", "err"}]
    /\ hdr' \in [Req -> {"none", "open", "ok"}]
    /\ ins' \in [Req -> {"none", "open", "ok"}]
    /\ chan' \in [Req -> Seq(Items)] /\ \A r \in Req : Len(chan'[r]) <= RespCap
    /\ ops' \in Seq(Messages) /\ Len(ops') <= OpsCap
    /\ IoTypeOK'
    /\ wireIn' \in Seq(ClientPackets)
    /\ wireOut' \in Seq(ServerPackets)

\* A step of the io task that keeps the types of what it may change keeps TypeOK.
LEMMA IoFrame ==
  ASSUME TypeOK, IoUnchanged, IoStepTypeOK
  PROVE  TypeOK'
BY DEF TypeOK, IoUnchanged, IoStepTypeOK, callVars, srvVars, CallsTypeOK,
       ChannelsTypeOK, WireTypeOK, ServerTypeOK

\* The same, for what a step leaves alone.
LEMMA IoTypeParts ==
  ASSUME TypeOK
  PROVE  /\ resp \in [Req -> {"none", "open", "ok", "err"}]
         /\ hdr \in [Req -> {"none", "open", "ok"}]
         /\ ins \in [Req -> {"none", "open", "ok"}]
         /\ chan \in [Req -> Seq(Items)] /\ \A r \in Req : Len(chan[r]) <= RespCap
         /\ ops \in Seq(Messages) /\ Len(ops) <= OpsCap
         /\ wireIn \in Seq(ClientPackets)
         /\ wireOut \in Seq(ServerPackets)
         /\ IoTypeOK
BY DEF TypeOK, CallsTypeOK, ChannelsTypeOK, WireTypeOK

\* handle_operation keeps the types, one step per operation.
LEMMA OperationType ==
  ASSUME TypeOK, HandleOperation
  PROVE  TypeOK'
<1> USE IoTypeParts
<1>1. ASSUME NEW r \in Req, HandlePing(r)
      PROVE  TypeOK'
  <2>1. RecvOperation("Ping", r) /\ IoUnchanged
    BY <1>1 DEF HandlePing
  <2>2. Packet("Ping", r, 0) \in ClientPackets
    BY DEF Packet, ClientPackets, ClientKinds
  <2>3. wireIn \o <<Packet("Ping", r, 0)>> \in Seq(ClientPackets)
    BY <2>2
  <2>4. wireIn' \in Seq(ClientPackets)
    BY <1>1, <2>3 DEF HandlePing, Write
  <2>5. IoTypeOK'
    BY <1>1, <2>1, RecvOperationType DEF HandlePing, IoTypeOK
  <2> QED
    BY <1>1, <2>1, <2>4, <2>5, RecvOperationType, IoFrame DEF HandlePing, IoStepTypeOK
<1>2. ASSUME NEW r \in Req, HandleQuery(r)
      PROVE  TypeOK'
  <2>1. RecvOperation("Query", r) /\ IoUnchanged
    BY <1>2 DEF HandleQuery
  <2>2. Append(pending, r) \in Seq(Req)
    BY DEF IoTypeOK
  <2>3. /\ resp' \in [Req -> {"none", "open", "ok", "err"}]
        /\ executing' \in Req \cup {NoReq} /\ state' \in {"Header", "InProgress"}
        /\ io' \in {"select", "retErr"}
        /\ wireIn' \in Seq(ClientPackets)
        /\ pending' \in Seq(Req)
    BY <1>2, <2>2, SendQueryType DEF HandleQuery, IoTypeOK
  <2>4. IoTypeOK'
    BY <1>2, <2>1, <2>3, RecvOperationType DEF HandleQuery, IoTypeOK
  <2> QED
    BY <1>2, <2>1, <2>3, <2>4, RecvOperationType, IoFrame DEF HandleQuery, IoStepTypeOK
<1>3. ASSUME NEW r \in Req, HandleInsert(r)
      PROVE  TypeOK'
  <2>1. RecvOperation("Insert", r) /\ IoUnchanged
    BY <1>3 DEF HandleInsert
  <2>2. Packet("Data", r, 0) \in ClientPackets /\ Packet("Delim", r, 0) \in ClientPackets
    BY DEF Packet, ClientPackets, ClientKinds
  <2>3. wireIn \o <<Packet("Data", r, 0), Packet("Delim", r, 0)>> \in Seq(ClientPackets)
    BY <2>2
  <2>4. wireIn' \in Seq(ClientPackets)
    BY <1>3, <2>3 DEF HandleInsert, Write
  <2>5. IoTypeOK'
    BY <1>3, <2>1, RecvOperationType DEF HandleInsert, IoTypeOK
  <2> QED
    BY <1>3, <2>1, <2>4, <2>5, RecvOperationType, IoFrame DEF HandleInsert, IoStepTypeOK
<1>4. ASSUME NEW r \in Req, HandleInsertFails(r)
      PROVE  TypeOK'
  <2>1. RecvOperation("Insert", r) /\ IoUnchanged
    BY <1>4 DEF HandleInsertFails
  <2>2. CASE executing = NoReq
    <3>1. IoTypeOK'
      BY <1>4, <2>1, <2>2, RecvOperationType DEF HandleInsertFails, IoTypeOK
    <3> QED
      BY <1>4, <2>1, <2>2, <3>1, RecvOperationType, IoFrame DEF HandleInsertFails, IoStepTypeOK
  <2>3. CASE executing # NoReq
    <3> DEFINE pkt == Packet("InsertError", executing, ErrItem)
    <3>1. executing \in Req
      BY <2>3 DEF IoTypeOK
    <3>2. pkt \in HeldPackets
      BY <3>1 DEF Packet, HeldPackets, ErrItem, Items
    <3>3. /\ SendItem(pkt, io' = "retErr")
          /\ UNCHANGED <<resp, hdr, ins, pending, executing, state, pinger, wireIn>>
      BY <1>4, <2>3 DEF HandleInsertFails
    <3> HIDE DEF pkt
    <3>4. /\ chan' \in [Req -> Seq(Items)] /\ \A q \in Req : Len(chan'[q]) <= RespCap
          /\ held' \in HeldPackets \cup {NoPacket}
      BY <3>1, <3>2, <3>3, SendItemType DEF SendItem
    <3>5. io' \in {"retErr", "sending"} /\ (io' = "sending" => held' = pkt)
      BY <3>3 DEF SendItem
    <3>6. IoTypeOK'
      BY <2>1, <3>1, <3>2, <3>3, <3>4, <3>5, RecvOperationType DEF IoTypeOK
    <3> QED
      BY <2>1, <3>3, <3>4, <3>6, RecvOperationType, IoFrame DEF IoStepTypeOK
  <2> QED
    BY <2>2, <2>3
<1>5. CASE HandleShutdown
  <2>1. RecvOperation("Shutdown", NoReq) /\ IoUnchanged
    BY <1>5 DEF HandleShutdown
  <2>2. IoTypeOK'
    BY <1>5, <2>1, RecvOperationType DEF HandleShutdown, IoTypeOK
  <2> QED
    BY <1>5, <2>1, <2>2, RecvOperationType, IoFrame DEF HandleShutdown, IoStepTypeOK
<1> QED
  BY <1>1, <1>2, <1>3, <1>4, <1>5 DEF HandleOperation

\* Taking a packet off the socket.
LEMMA ReadPacketType ==
  ASSUME TypeOK, NEW kinds, ReadPacket(kinds)
  PROVE  /\ Head(wireOut) \in ServerPackets /\ Head(wireOut).p \in kinds
         /\ wireOut' \in Seq(ServerPackets) /\ partial' = FALSE /\ dropped' = dropped
         /\ io = "select" /\ executing \in Req
<1>1. wireOut \in Seq(ServerPackets) /\ wireOut # <<>> /\ executing # NoReq
  BY IoTypeParts DEF ReadPacket, Reading
<1>2. Head(wireOut) \in ServerPackets /\ Tail(wireOut) \in Seq(ServerPackets)
  BY <1>1
<1>3. executing \in Req
  BY <1>1, IoTypeParts DEF IoTypeOK
<1> QED
  BY <1>2, <1>3 DEF ReadPacket, Reading

\* A packet with an item for the caller may wait for room in the response channel.
LEMMA HeldKinds ==
  ASSUME NEW pkt \in ServerPackets, pkt.p \in {"Block", "Exception", "Fatal"}
  PROVE  pkt \in HeldPackets
BY DEF ServerPackets, HeldPackets

\* The end of receive_packet after an exception keeps the types.
LEMMA AfterExceptionType ==
  ASSUME TypeOK, NEW kind, AfterException(kind)
  PROVE  /\ resp' \in [Req -> {"none", "open", "ok", "err"}]
         /\ executing' \in Req \cup {NoReq} /\ state' \in {"Header", "InProgress"}
         /\ io' \in {"select", "retErr"}
         /\ wireIn' \in Seq(ClientPackets)
         /\ pending' \in Seq(Req)
BY IoTypeParts, NextQueryType DEF AfterException, IoTypeOK

\* receive_packet, receive_ping and a send that completes keep the types.
LEMMA ReadType ==
  ASSUME TypeOK, ReadPart \/ ReceivePacket \/ SendCompletes \/ ReceivePing
  PROVE  TypeOK'
<1> USE IoTypeParts
<1>1. CASE ReadPart
  BY <1>1, IoFrame DEF ReadPart, IoStepTypeOK, IoTypeOK
<1>2. CASE ReceiveHeader
  <2>1. ReadPacket({"Block"}) /\ IoUnchanged
    BY <1>2 DEF ReceiveHeader
  <2>2. hdr' \in [Req -> {"none", "open", "ok"}]
    BY <1>2 DEF ReceiveHeader
  <2>3. IoTypeOK'
    BY <1>2, <2>1, ReadPacketType DEF ReceiveHeader, IoTypeOK
  <2> QED
    BY <1>2, <2>1, <2>2, <2>3, ReadPacketType, IoFrame DEF ReceiveHeader, IoStepTypeOK
<1>3. CASE ReceiveProgress
  <2>1. ReadPacket({"Progress"}) /\ IoUnchanged
    BY <1>3 DEF ReceiveProgress
  <2>2. IoTypeOK'
    BY <1>3, <2>1, ReadPacketType DEF ReceiveProgress, IoTypeOK
  <2> QED
    BY <1>3, <2>1, <2>2, ReadPacketType, IoFrame DEF ReceiveProgress, IoStepTypeOK
<1>4. CASE ReceiveBlock
  <2> DEFINE pkt == Head(wireOut)
  <2>1. ReadPacket({"Block"}) /\ IoUnchanged
    BY <1>4 DEF ReceiveBlock
  <2>2. pkt \in HeldPackets /\ executing \in Req
    BY <2>1, ReadPacketType, HeldKinds, ZenonT(60)
  <2>3. /\ SendItem(pkt, io' = "select")
        /\ UNCHANGED <<resp, hdr, ins, ops, pending, executing, state, pinger, wireIn>>
    BY <1>4 DEF ReceiveBlock
  <2> HIDE DEF pkt
  <2>4. /\ chan' \in [Req -> Seq(Items)] /\ \A q \in Req : Len(chan'[q]) <= RespCap
        /\ held' \in HeldPackets \cup {NoPacket}
    BY <2>2, <2>3, SendItemType DEF SendItem
  <2>5. io' \in {"select", "sending"} /\ (io' = "sending" => held' = pkt)
    BY <2>3 DEF SendItem
  <2>6. IoTypeOK'
    BY <2>1, <2>2, <2>3, <2>4, <2>5, ReadPacketType DEF IoTypeOK
  <2> QED
    BY <2>1, <2>3, <2>4, <2>6, ReadPacketType, IoFrame DEF IoStepTypeOK
<1>5. CASE ReceiveException
  <2> DEFINE pkt == Head(wireOut)
  <2>1. ReadPacket({"Exception", "Fatal"}) /\ IoUnchanged
    BY <1>5 DEF ReceiveException
  <2>2. pkt \in HeldPackets /\ executing \in Req
    BY <2>1, ReadPacketType, HeldKinds, ZenonT(60)
  <2>3. UNCHANGED <<hdr, ins, ops, pinger>>
    BY <1>5 DEF ReceiveException
  <2>4. \/ HasRoom(executing) /\ SendItem(pkt, AfterException(pkt.p))
        \/ /\ ~HasRoom(executing) /\ SendItem(pkt, TRUE)
           /\ UNCHANGED <<resp, executing, state, pending, wireIn>>
    BY <1>5 DEF ReceiveException
  <2> HIDE DEF pkt
  <2>5. /\ chan' \in [Req -> Seq(Items)] /\ \A q \in Req : Len(chan'[q]) <= RespCap
        /\ held' \in HeldPackets \cup {NoPacket}
    BY <2>2, <2>4, SendItemType DEF SendItem
  <2>6. /\ resp' \in [Req -> {"none", "open", "ok", "err"}]
        /\ executing' \in Req \cup {NoReq} /\ state' \in {"Header", "InProgress"}
        /\ io' \in {"select", "retErr", "sending"}
        /\ wireIn' \in Seq(ClientPackets)
        /\ pending' \in Seq(Req)
    BY <2>4, AfterExceptionType DEF SendItem, IoTypeOK
  <2>7. io' = "sending" => held' = pkt /\ executing' = executing
    BY <2>4, AfterExceptionType DEF SendItem
  <2>8. IoTypeOK'
    BY <2>1, <2>2, <2>3, <2>5, <2>6, <2>7, ReadPacketType DEF IoTypeOK
  <2> QED
    BY <2>1, <2>3, <2>5, <2>6, <2>8, ReadPacketType, IoFrame DEF IoStepTypeOK
<1>6. CASE ReceiveEndOfStream
  <2>1. ReadPacket({"EndOfStream"}) /\ IoUnchanged /\ NextQuery
    BY <1>6 DEF ReceiveEndOfStream
  <2>2. IoTypeOK'
    BY <1>6, <2>1, ReadPacketType, NextQueryType DEF ReceiveEndOfStream, IoTypeOK
  <2> QED
    BY <1>6, <2>1, <2>2, ReadPacketType, NextQueryType, IoFrame
    DEF ReceiveEndOfStream, IoStepTypeOK
<1>7. CASE ReceiveTorn
  <2>1. IoUnchanged /\ UNCHANGED <<hdr, ins, chan, ops, pinger, held>>
    BY <1>7 DEF ReceiveTorn
  <2>2. CASE /\ ReadPacket({"Torn"}) /\ io' \in {"select", "retErr"}
             /\ UNCHANGED <<resp, pending, executing, state, wireIn>>
    <3>1. IoTypeOK'
      BY <2>1, <2>2, ReadPacketType DEF IoTypeOK
    <3> QED
      BY <2>1, <2>2, <3>1, ReadPacketType, IoFrame DEF IoStepTypeOK
  <2>3. CASE Reading /\ NextQuery /\ partial' = FALSE /\ UNCHANGED <<dropped, wireOut>>
    <3>1. IoTypeOK'
      BY <2>1, <2>3, NextQueryType DEF IoTypeOK
    <3> QED
      BY <2>1, <2>3, <3>1, NextQueryType, IoFrame DEF IoStepTypeOK
  <2> QED
    BY <1>7, <2>2, <2>3 DEF ReceiveTorn
<1>8. CASE ReadFails
  BY <1>8, IoFrame DEF ReadFails, IoStepTypeOK, IoTypeOK
<1>9. CASE SendCompletes
  <2>1. executing \in Req /\ held \in HeldPackets
    BY <1>9 DEF SendCompletes, IoTypeOK
  <2>2. /\ UNCHANGED <<hdr, ins, ops, pinger, partial, dropped, wireOut>> /\ IoUnchanged
        /\ HasRoom(executing) /\ held' = NoPacket
        /\ chan' = IF RxOpen(executing)
                     THEN [chan EXCEPT ![executing] = Append(@, ItemOf(held))]
                     ELSE chan
    BY <1>9 DEF SendCompletes, SendItem
  <2>3. \/ /\ io' \in {"select", "retErr"}
           /\ UNCHANGED <<resp, executing, state, pending, wireIn>>
        \/ AfterException(held.p)
    BY <1>9 DEF SendCompletes, SendItem
  <2>4. /\ chan' \in [Req -> Seq(Items)] /\ \A q \in Req : Len(chan'[q]) <= RespCap
    BY <2>1, <2>2, SendItemType
  <2>5. /\ resp' \in [Req -> {"none", "open", "ok", "err"}]
        /\ executing' \in Req \cup {NoReq} /\ state' \in {"Header", "InProgress"}
        /\ io' \in {"select", "retErr"}
        /\ wireIn' \in Seq(ClientPackets)
        /\ pending' \in Seq(Req)
    BY <2>3, AfterExceptionType DEF IoTypeOK
  <2>6. IoTypeOK'
    BY <2>2, <2>5 DEF IoTypeOK
  <2> QED
    BY <2>2, <2>4, <2>5, <2>6, IoFrame DEF IoStepTypeOK
<1>10. CASE ReceivePing
  <2>1. IoUnchanged /\ resp' \in [Req -> {"none", "open", "ok", "err"}]
    BY <1>10 DEF ReceivePing
  <2>2. wireOut' \in Seq(ServerPackets)
    <3>1. wireOut' = wireOut \/ (wireOut # <<>> /\ wireOut' = Tail(wireOut))
      BY <1>10 DEF ReceivePing
    <3>2. wireOut # <<>> => Tail(wireOut) \in Seq(ServerPackets)
      <4> HIDE IoTypeParts
      <4>1. wireOut \in Seq(ServerPackets)
        BY IoTypeParts
      <4> QED
        BY <4>1
    <3> QED
      BY <3>1, <3>2
  <2>3. IoTypeOK'
    BY <1>10 DEF ReceivePing, IoTypeOK
  <2> QED
    BY <1>10, <2>1, <2>2, <2>3, IoFrame DEF ReceivePing, IoStepTypeOK
<1> QED
  BY <1>1, <1>2, <1>3, <1>4, <1>5, <1>6, <1>7, <1>8, <1>9, <1>10 DEF ReceivePacket

\* What is dropped with the query that executes is typed.
LEMMA DropsRestType ==
  ASSUME TypeOK, DropsRest
  PROVE  dropped' \subseteq DroppedPackets
<1>1. dropped \subseteq DroppedPackets /\ executing \in Req \cup {NoReq}
  BY DEF TypeOK, IoTypeOK
<1>2. ASSUME executing # NoReq PROVE Packet("Rest", executing, 0) \in DroppedPackets
  BY <1>1, <1>2 DEF Packet, DroppedPackets
<1> QED
  BY <1>1, <1>2 DEF DropsRest

\* run returns, the status is stored, InternalConn is dropped, the task is aborted.
LEMMA TaskEndType ==
  ASSUME TypeOK, TaskEnd
  PROVE  TypeOK'
<1>1. <<>> \in Seq(Messages) /\ <<>> \in Seq(Req) /\ Len(<<>>) = 0
      /\ <<>> \in Seq(ClientPackets) /\ <<>> \in Seq(ServerPackets)
  OBVIOUS
<1>2. CASE RunReturns
  <2>1. CallsTypeOK'
    BY <1>2 DEF RunReturns, callVars, TypeOK, CallsTypeOK
  <2>2. ChannelsTypeOK'
    BY <1>1, <1>2 DEF RunReturns, TypeOK, ChannelsTypeOK
  <2>3. IoTypeOK'
    BY <1>1, <1>2 DEF RunReturns, callVars, TypeOK, IoTypeOK
  <2>4. WireTypeOK'
    BY <1>1, <1>2 DEF RunReturns, TypeOK, WireTypeOK
  <2>5. ServerTypeOK'
    BY <1>2 DEF RunReturns, callVars, TypeOK, ServerTypeOK
  <2> QED
    BY <2>1, <2>2, <2>3, <2>4, <2>5 DEF TypeOK
<1>3. CASE StoreStatus
  <2>1. CallsTypeOK'
    BY <1>3 DEF StoreStatus, callVars, srvVars, TypeOK, CallsTypeOK
  <2>2. ChannelsTypeOK'
    BY <1>1, <1>3 DEF StoreStatus, TypeOK, ChannelsTypeOK
  <2>3. IoTypeOK'
    BY <1>1, <1>3 DEF StoreStatus, callVars, srvVars, TypeOK, IoTypeOK
  <2>4. WireTypeOK'
    BY <1>1, <1>3 DEF StoreStatus, TypeOK, WireTypeOK
  <2>5. ServerTypeOK'
    BY <1>3 DEF StoreStatus, callVars, srvVars, TypeOK, ServerTypeOK
  <2> QED
    BY <2>1, <2>2, <2>3, <2>4, <2>5 DEF TypeOK
<1>4. CASE DropInternal
  <2>1. CallsTypeOK'
    BY <1>4 DEF DropInternal, callVars, srvVars, TypeOK, CallsTypeOK
  <2>2. ChannelsTypeOK'
    BY <1>1, <1>4 DEF DropInternal, TypeOK, ChannelsTypeOK
  <2>3. IoTypeOK'
    BY <1>1, <1>4, DropsRestType DEF DropInternal, callVars, srvVars, TypeOK, IoTypeOK
  <2>4. WireTypeOK'
    BY <1>1, <1>4 DEF DropInternal, TypeOK, WireTypeOK
  <2>5. ServerTypeOK'
    BY <1>4 DEF DropInternal, callVars, srvVars, TypeOK, ServerTypeOK
  <2> QED
    BY <2>1, <2>2, <2>3, <2>4, <2>5 DEF TypeOK
<1>5. CASE Aborted
  <2>1. CallsTypeOK'
    BY <1>5 DEF Aborted, callVars, Running, TypeOK, CallsTypeOK
  <2>2. ChannelsTypeOK'
    BY <1>1, <1>5 DEF Aborted, TypeOK, ChannelsTypeOK
  <2>3. IoTypeOK'
    BY <1>1, <1>5, DropsRestType DEF Aborted, callVars, Running, TypeOK, IoTypeOK
  <2>4. WireTypeOK'
    BY <1>1, <1>5 DEF Aborted, TypeOK, WireTypeOK
  <2>5. ServerTypeOK'
    BY <1>5 DEF Aborted, callVars, Running, TypeOK, ServerTypeOK
  <2> QED
    BY <2>1, <2>2, <2>3, <2>4, <2>5 DEF TypeOK
<1> QED
  BY <1>2, <1>3, <1>4, <1>5 DEF TaskEnd

\* A connection starts well typed.
LEMMA InitType == ConnInit => TypeOK
<1> SUFFICES ASSUME ConnInit PROVE TypeOK
  OBVIOUS
<1>1. CallsTypeOK
  BY DEF ConnInit, CallsTypeOK
<1>4. ChannelsTypeOK
  BY DEF ConnInit, ChannelsTypeOK
<1>2. IoTypeOK
  <2>1. partial \in BOOLEAN /\ held \in HeldPackets \cup {NoPacket} /\ pinger \in Req \cup {NoReq}
        /\ dropped \subseteq DroppedPackets
    BY Zenon DEF ConnInit
  <2>2. /\ executing \in Req \cup {NoReq} /\ io = "select" /\ state = "Header"
        /\ pending \in Seq(Req)
    BY DEF ConnInit
  <2> QED
    BY <2>1, <2>2 DEF IoTypeOK
<1>5. WireTypeOK
  BY DEF ConnInit, WireTypeOK
<1>3. ServerTypeOK
  BY DEF ConnInit, ServerTypeOK, Items
<1> QED
  BY <1>1, <1>2, <1>3, <1>4, <1>5 DEF TypeOK

\* A step that changes nothing keeps the types.
LEMMA StutterType ==
  ASSUME TypeOK, UNCHANGED vars
  PROVE  TypeOK'
<1>1. CallsTypeOK'
  BY Zenon DEF TypeOK, CallsTypeOK, vars, callVars, ioVars, srvVars
<1>2. ChannelsTypeOK'
  BY Zenon DEF TypeOK, ChannelsTypeOK, vars, callVars, ioVars, srvVars
<1>3. IoTypeOK'
  BY Zenon DEF TypeOK, IoTypeOK, vars, callVars, ioVars, srvVars
<1>4. WireTypeOK'
  BY Zenon DEF TypeOK, WireTypeOK, vars, callVars, ioVars, srvVars
<1>5. ServerTypeOK'
  BY Zenon DEF TypeOK, ServerTypeOK, vars, callVars, ioVars, srvVars
<1> QED
  BY <1>1, <1>2, <1>3, <1>4, <1>5 DEF TypeOK

\* Every step keeps the types.
LEMMA NextType ==
  ASSUME TypeOK, Next
  PROVE  TypeOK'
BY CallType, ControlType, ServerType, OperationType, ReadType, TaskEndType
DEF Next, IoTask

\* Every variable keeps its type and no channel exceeds its capacity, whatever
\* the callers, the server and the network do.
THEOREM TypeCorrect == Spec => []TypeOK
<1>1. TypeOK /\ [Next]_vars => TypeOK'
  BY NextType, StutterType
<1> QED
  BY InitType, <1>1, PTL DEF Spec

-----------------------------------------------------------------------------
(* Client and server stay in step.                                         *)

\* Elements of a tail, of an appended and of a concatenated sequence.
LEMMA TailElements ==
  ASSUME NEW S, NEW s \in Seq(S), s # <<>>
  PROVE  /\ Len(Tail(s)) = Len(s) - 1 /\ Tail(s) \in Seq(S)
         /\ \A i \in 1..Len(Tail(s)) : i + 1 \in 1..Len(s) /\ Tail(s)[i] = s[i + 1]
         /\ Head(s) = s[1] /\ Len(s) \in Nat \ {0}
OBVIOUS

\* The elements of an appended sequence.
LEMMA AppendElements ==
  ASSUME NEW S, NEW s \in Seq(S), NEW e
  PROVE  /\ Len(Append(s, e)) = Len(s) + 1 /\ Len(s) \in Nat
         /\ \A i \in 1..Len(Append(s, e)) :
                \/ i \in 1..Len(s) /\ Append(s, e)[i] = s[i]
                \/ i = Len(s) + 1 /\ Append(s, e)[i] = e
OBVIOUS

\* The elements of a sequence with two more at its end: what Write does.
LEMMA PairElements ==
  ASSUME NEW S, NEW s \in Seq(S), NEW a \in S, NEW b \in S
  PROVE  LET t == s \o <<a, b>>
         IN  /\ Len(t) = Len(s) + 2 /\ Len(s) \in Nat
             /\ \A i \in 1..Len(t) :
                    \/ i \in 1..Len(s) /\ t[i] = s[i]
                    \/ i = Len(s) + 1 /\ t[i] = a
                    \/ i = Len(s) + 2 /\ t[i] = b
<1> DEFINE t == s \o <<a, b>>
<1>1. Len(t) = Len(s) + 2 /\ Len(s) \in Nat
  OBVIOUS
<1>2. \A i \in 1..Len(t) : t[i] = IF i <= Len(s) THEN s[i] ELSE <<a, b>>[i - Len(s)]
  OBVIOUS
<1> QED
  BY <1>1, <1>2

\* Nothing under way that the client does not know of.
LEMMA IdleQuiet ==
  ASSUME TypeOK, InStep, Current = NoReq
  PROVE  Quiet
<1>1. NoLive
  <2> SUFFICES ASSUME NEW i \in 1..Len(wireIn), wireIn[i].p \in LiveKinds
               PROVE  FALSE
    BY DEF NoLive
  <2>1. wireIn[i] \in ClientPackets
    BY IoTypeParts
  <2> QED
    BY <2>1 DEF InStep, RequestInStep, ClientPackets
<1>2. srvPhase = "idle"
  BY DEF InStep, ServerInStep, TypeOK, ServerTypeOK
<1>3. wireOut = <<>>
  <2> SUFFICES ASSUME wireOut # <<>>
               PROVE  FALSE
    OBVIOUS
  <2>1. 1 \in 1..Len(wireOut) /\ wireOut[1] \in ServerPackets
    BY IoTypeParts, TailElements
  <2> QED
    BY <2>1 DEF InStep, AnswerInStep, ServerPackets
<1> QED
  BY <1>1, <1>2, <1>3 DEF Quiet

\* From a quiet state the next query may be sent, or nothing.
LEMMA StartInStep ==
  ASSUME TypeOK, NoLive, srvPhase = "idle", net = "down" => wireIn = <<>>,
         wireOut' = <<>>, held' = NoPacket, UNCHANGED <<net, srvPhase, srvReq>>,
         \/ \E r \in Req : SendQuery(r)
         \/ executing' = NoReq /\ io' \in {"select", "retErr"} /\ UNCHANGED wireIn
  PROVE  InStep'
<1>1. io' \in {"select", "retErr"} /\ OpsOpen'
  BY DEF SendQuery, OpsOpen, Running
<1>2. Current' = executing'
  BY <1>1 DEF Current
<1>3. (ServerInStep /\ HeldInStep /\ TaskInStep)'
  BY <1>1, <1>2 DEF ServerInStep, HeldInStep, TaskInStep, SendQuery, Write, NoPacket, Packet
<1>4. AnswerInStep'
  BY DEF AnswerInStep
<1>5. RequestInStep'
  <2>1. CASE UNCHANGED wireIn
    BY <2>1 DEF RequestInStep, NoLive
  <2>2. ASSUME NEW r \in Req, executing' = r, io' = "select",
               wireIn' = wireIn \o <<Packet("Query", r, 0), Packet("Delim", r, 0)>>
        PROVE  RequestInStep'
    <3> DEFINE a == Packet("Query", r, 0)
               b == Packet("Delim", r, 0)
    <3>1. a \in ClientPackets /\ b \in ClientPackets /\ b.p \notin LiveKinds /\ a.p = "Query"
          /\ a.req = r
      BY DEF Packet, ClientPackets, ClientKinds, LiveKinds
    <3> HIDE DEF a, b
    <3>2. wireIn' = wireIn \o <<a, b>> /\ wireIn \in Seq(ClientPackets)
      BY <2>2, IoTypeParts DEF a, b
    <3>3. /\ Len(wireIn) \in Nat
          /\ \A i \in 1..Len(wireIn') :
                \/ i \in 1..Len(wireIn) /\ wireIn'[i] = wireIn[i]
                \/ i = Len(wireIn) + 1 /\ wireIn'[i] = a
                \/ i = Len(wireIn) + 2 /\ wireIn'[i] = b
      BY <3>1, <3>2, PairElements
    <3>4. \A i \in 1..Len(wireIn') : wireIn'[i].p \in LiveKinds =>
             i = Len(wireIn) + 1 /\ wireIn'[i] = a
      BY <3>1, <3>3 DEF NoLive
    <3> QED
      BY <1>2, <2>2, <3>1, <3>4 DEF RequestInStep
  <2> QED
    BY <2>1, <2>2 DEF SendQuery, Write
<1> QED
  BY <1>3, <1>4, <1>5 DEF InStep

\* What receiving an operation does to the packets still to be read: the one
\* that was half read changes its kind, nothing else.
LEMMA RecvOperationWire ==
  ASSUME TypeOK, NEW op, NEW r, RecvOperation(op, r)
  PROVE  /\ Len(wireOut') = Len(wireOut) /\ (wireOut = <<>> => wireOut' = <<>>)
         /\ \A i \in 1..Len(wireOut) :
                /\ wireOut'[i].req = wireOut[i].req
                /\ wireOut'[i].p \in {wireOut[i].p, "Torn"}
<1>1. wireOut \in Seq(ServerPackets)
  BY IoTypeParts
<1>2. CASE partial /\ wireOut # <<>>
  <2> DEFINE h == Head(wireOut)
             t == [h EXCEPT !.p = "Torn"]
             w == Tail(wireOut)
  <2>1. h \in ServerPackets
    BY <1>1, <1>2
  <2>2. t.req = h.req /\ t.p = "Torn"
    BY <2>1 DEF ServerPackets
  <2>3. wireOut' = <<t>> \o w
    BY <1>2 DEF RecvOperation
  <2>4. /\ Len(w) = Len(wireOut) - 1 /\ h = wireOut[1] /\ w \in Seq(ServerPackets)
        /\ Len(wireOut) \in Nat \ {0}
        /\ \A i \in 1..Len(w) : w[i] = wireOut[i + 1]
    BY <1>1, <1>2, TailElements
  <2> HIDE DEF h, t, w
  <2>5. /\ Len(<<t>> \o w) = 1 + Len(w)
        /\ \A i \in 1..Len(wireOut) :
              (<<t>> \o w)[i] = IF i = 1 THEN t ELSE w[i - 1]
    BY <2>4
  <2>6. \A i \in 1..Len(wireOut) : i # 1 => wireOut'[i] = wireOut[i]
    BY <2>3, <2>4, <2>5
  <2> QED
    BY <1>2, <2>2, <2>3, <2>4, <2>5, <2>6
<1>3. CASE ~(partial /\ wireOut # <<>>)
  BY <1>3 DEF RecvOperation
<1> QED
  BY <1>2, <1>3

\* An operation that leaves executing alone and writes no request keeps step.
LEMMA KeepInStep ==
  ASSUME TypeOK, InStep, NEW op, NEW r, RecvOperation(op, r),
         UNCHANGED <<executing, net, srvPhase, srvReq>>,
         io' \in {"select", "sending", "retErr", "retOk"},
         io' = "sending" => held' = Packet("InsertError", executing, ErrItem),
         io' # "sending" => held' = NoPacket,
         \/ UNCHANGED wireIn
         \/ \E q \in Req : Write(<<Packet("Data", q, 0), Packet("Delim", q, 0)>>)
  PROVE  InStep'
<1>1. io # "pinging" /\ io' # "pinging" /\ OpsOpen /\ OpsOpen'
  BY DEF RecvOperation, OpsOpen, Running
<1>2. Current = executing /\ Current' = executing
  BY <1>1 DEF Current
<1>3. net = "down" => wireIn' = <<>>
  BY DEF InStep, TaskInStep, Write
<1>4. (ServerInStep /\ TaskInStep)'
  BY <1>1, <1>2, <1>3 DEF InStep, ServerInStep, TaskInStep
<1>5. HeldInStep'
  BY DEF HeldInStep, NoPacket, Packet
<1>6. AnswerInStep'
  BY <1>1, <1>2, RecvOperationWire DEF InStep, AnswerInStep, FinalKinds
<1>7. RequestInStep'
  <2>1. \A i \in 1..Len(wireIn') : wireIn'[i].p \in LiveKinds =>
            i \in 1..Len(wireIn) /\ wireIn'[i] = wireIn[i]
    <3>1. CASE UNCHANGED wireIn
      BY <3>1
    <3>2. ASSUME NEW q \in Req, wireIn' = wireIn \o <<Packet("Data", q, 0), Packet("Delim", q, 0)>>
          PROVE  \A i \in 1..Len(wireIn') : wireIn'[i].p \in LiveKinds =>
                     i \in 1..Len(wireIn) /\ wireIn'[i] = wireIn[i]
      <4> DEFINE a == Packet("Data", q, 0)
                 b == Packet("Delim", q, 0)
      <4>1. a \in ClientPackets /\ b \in ClientPackets /\ b.p \notin LiveKinds /\ a.p \notin LiveKinds
        BY DEF Packet, ClientPackets, ClientKinds, LiveKinds
      <4> HIDE DEF a, b
      <4>2. wireIn' = wireIn \o <<a, b>> /\ wireIn \in Seq(ClientPackets)
        BY <3>2, IoTypeParts DEF a, b
      <4> QED
        BY <4>1, <4>2, PairElements
    <3> QED
      BY <3>1, <3>2 DEF Write
  <2> QED
    BY <1>1, <1>2, <2>1, RecvOperationWire DEF InStep, RequestInStep
<1> QED
  BY <1>4, <1>5, <1>6, <1>7 DEF InStep

\* handle_operation sends a request only when nothing is under way.
LEMMA OperationInStep ==
  ASSUME TypeOK, InStep, HandleOperation
  PROVE  InStep'
<1>1. ASSUME NEW op, NEW r, RecvOperation(op, r), executing = NoReq
      PROVE  Quiet /\ wireOut' = <<>> /\ io = "select"
  <2>1. io = "select"
    BY <1>1, IoTypeParts DEF RecvOperation, IoTypeOK
  <2>2. Quiet
    BY <1>1, <2>1, IdleQuiet DEF Current
  <2> QED
    BY <1>1, <2>1, <2>2, RecvOperationWire DEF Quiet
<1>2. net = "down" => wireIn = <<>>
  BY DEF InStep, TaskInStep
<1>3. ASSUME NEW r \in Req, HandlePing(r)
      PROVE  InStep'
  <2>1. RecvOperation("Ping", r)
    BY <1>3 DEF HandlePing
  <2>2. /\ held' = NoPacket
        /\ UNCHANGED <<executing, net, srvPhase, srvReq>>
    BY <1>3 DEF HandlePing, IoUnchanged, srvVars
  <2>3. CASE pending = <<>> /\ executing = NoReq
    <3>1. Quiet /\ wireOut' = <<>>
      BY <1>1, <2>1, <2>3
    <3>2. CASE io' = "retErr" /\ UNCHANGED wireIn
      BY <1>2, <2>2, <2>3, <3>1, <3>2, StartInStep DEF Quiet
    <3>3. CASE Write(<<Packet("Ping", r, 0)>>) /\ io' = "pinging" /\ pinger' = r
      <4> DEFINE a == Packet("Ping", r, 0)
      <4>1. a \in ClientPackets /\ a.p = "Ping" /\ a.req = r
        BY DEF Packet, ClientPackets, ClientKinds
      <4> HIDE DEF a
      <4>2. wireIn' = (IF net = "up" THEN wireIn \o <<a>> ELSE wireIn) /\ wireIn \in Seq(ClientPackets)
        BY <3>3, IoTypeParts DEF a, Write
      <4>3. Current' = r /\ OpsOpen'
        BY <3>3 DEF Current, OpsOpen, Running
      <4>4. /\ Len(wireIn) \in Nat
            /\ \A i \in 1..Len(wireIn \o <<a>>) :
                 \/ i \in 1..Len(wireIn) /\ (wireIn \o <<a>>)[i] = wireIn[i]
                 \/ i = Len(wireIn) + 1 /\ (wireIn \o <<a>>)[i] = a
        BY <4>1, <4>2
      <4>5. \A i \in 1..Len(wireIn') : wireIn'[i].p \in LiveKinds =>
               i = Len(wireIn) + 1 /\ wireIn'[i] = a
        BY <3>1, <4>2, <4>4 DEF Quiet, NoLive
      <4>6. RequestInStep'
        BY <2>2, <3>1, <3>3, <4>1, <4>3, <4>5 DEF RequestInStep, Quiet
      <4>7. (ServerInStep /\ AnswerInStep /\ HeldInStep)'
        BY <2>2, <3>1, <3>3 DEF ServerInStep, AnswerInStep, HeldInStep, Quiet, NoPacket, Packet
      <4>8. TaskInStep'
        BY <1>2, <2>2, <2>3, <3>1, <3>3, <4>2, <4>3 DEF TaskInStep, Quiet
      <4> QED
        BY <4>6, <4>7, <4>8 DEF InStep
    <3> QED
      BY <1>3, <2>3, <3>2, <3>3 DEF HandlePing
  <2>4. CASE ~(pending = <<>> /\ executing = NoReq)
    <3>1. io' = "select" /\ UNCHANGED wireIn
      BY <1>3, <2>4 DEF HandlePing
    <3> QED
      BY <2>1, <2>2, <3>1, KeepInStep
  <2> QED
    BY <2>3, <2>4
<1>4. ASSUME NEW r \in Req, HandleQuery(r)
      PROVE  InStep'
  <2>1. RecvOperation("Query", r)
    BY <1>4 DEF HandleQuery
  <2>2. held' = NoPacket /\ UNCHANGED <<net, srvPhase, srvReq>>
    BY <1>4 DEF HandleQuery, IoUnchanged, srvVars
  <2>3. CASE pending = <<>> /\ executing = NoReq
    <3>1. Quiet /\ wireOut' = <<>>
      BY <1>1, <2>1, <2>3
    <3> QED
      BY <1>2, <1>4, <2>2, <2>3, <3>1, StartInStep DEF Quiet, HandleQuery
  <2>4. CASE ~(pending = <<>> /\ executing = NoReq)
    <3>1. io' = "select" /\ UNCHANGED <<wireIn, executing>>
      BY <1>4, <2>4 DEF HandleQuery
    <3> QED
      BY <2>1, <2>2, <3>1, KeepInStep
  <2> QED
    BY <2>3, <2>4
<1>5. ASSUME NEW r \in Req, HandleInsert(r)
      PROVE  InStep'
  <2>1. /\ RecvOperation("Insert", r)
        /\ held' = NoPacket /\ io' = "select"
        /\ UNCHANGED <<executing, net, srvPhase, srvReq>>
        /\ Write(<<Packet("Data", r, 0), Packet("Delim", r, 0)>>)
    BY <1>5 DEF HandleInsert, IoUnchanged, srvVars
  <2> QED
    BY <2>1, KeepInStep
<1>6. ASSUME NEW r \in Req, HandleInsertFails(r)
      PROVE  InStep'
  <2>1. /\ RecvOperation("Insert", r)
        /\ UNCHANGED <<executing, net, srvPhase, srvReq, wireIn>>
        /\ \/ io' = "retErr" /\ held' = NoPacket
           \/ io' = "sending" /\ held' = Packet("InsertError", executing, ErrItem)
    BY <1>6 DEF HandleInsertFails, SendItem, IoUnchanged, srvVars
  <2> QED
    BY <2>1, KeepInStep
<1>7. CASE HandleShutdown
  <2>1. /\ RecvOperation("Shutdown", NoReq)
        /\ held' = NoPacket /\ io' = "retOk"
        /\ UNCHANGED <<executing, net, srvPhase, srvReq, wireIn>>
    BY <1>7 DEF HandleShutdown, IoUnchanged, srvVars
  <2> QED
    BY <2>1, KeepInStep
<1> QED
  BY <1>3, <1>4, <1>5, <1>6, <1>7 DEF HandleOperation

\* After a packet is read the others are the same, and after a final packet
\* everything is quiet.
LEMMA ReadPacketWire ==
  ASSUME TypeOK, InStep, NEW kinds, ReadPacket(kinds)
  PROVE  /\ wireOut' = Tail(wireOut) /\ wireOut # <<>> /\ NoLive
         /\ Len(wireOut') = Len(wireOut) - 1 /\ Len(wireOut) \in Nat \ {0}
         /\ \A i \in 1..Len(wireOut') : i + 1 \in 1..Len(wireOut) /\ wireOut'[i] = wireOut[i + 1]
         /\ Head(wireOut).req = executing /\ Current = executing
         /\ Head(wireOut).p \in FinalKinds => wireOut' = <<>> /\ srvPhase = "idle"
<1>1. wireOut \in Seq(ServerPackets) /\ wireOut # <<>> /\ wireOut' = Tail(wireOut)
  BY IoTypeParts DEF ReadPacket
<1>2. Current = executing
  BY DEF ReadPacket, Reading, Current
<1>3. NoLive
  BY <1>1 DEF InStep, RequestInStep, NoLive
<1>4. /\ Len(wireOut') = Len(wireOut) - 1 /\ Len(wireOut) \in Nat \ {0}
      /\ \A i \in 1..Len(wireOut') : i + 1 \in 1..Len(wireOut) /\ wireOut'[i] = wireOut[i + 1]
      /\ Head(wireOut) = wireOut[1] /\ wireOut' \in Seq(ServerPackets)
  BY <1>1, TailElements
<1>5. Head(wireOut).req = executing
  BY <1>2, <1>4 DEF InStep, AnswerInStep
<1>6. ASSUME Head(wireOut).p \in FinalKinds
      PROVE  wireOut' = <<>> /\ srvPhase = "idle"
  <2>1. Len(wireOut) = 1 /\ srvPhase = "idle"
    BY <1>4, <1>6 DEF InStep, AnswerInStep
  <2>2. Len(wireOut') = Len(wireOut) - 1
    BY <1>4
  <2>3. Len(wireOut') = 0
    BY <2>1, <2>2
  <2> QED
    BY <1>4, <2>1, <2>3
<1> QED
  BY <1>1, <1>2, <1>3, <1>4, <1>5, <1>6

\* A step that takes a packet off the socket and leaves the query executing.
LEMMA ReadKeepsStep ==
  ASSUME TypeOK, InStep, NEW kinds, ReadPacket(kinds),
         UNCHANGED <<executing, net, srvPhase, srvReq, wireIn>>,
         \/ io' \in {"select", "retErr"} /\ held' = NoPacket
         \/ io' = "sending" /\ held' = Head(wireOut)
  PROVE  InStep'
<1>1. io = "select" /\ io' # "pinging" /\ OpsOpen /\ OpsOpen'
  BY DEF ReadPacket, Reading, OpsOpen, Running
<1>2. Current = executing /\ Current' = executing
  BY <1>1 DEF Current
<1>3. (ServerInStep /\ TaskInStep)'
  BY <1>1, <1>2 DEF InStep, ServerInStep, TaskInStep
<1>4. NoLive' /\ RequestInStep'
  BY ReadPacketWire DEF NoLive, RequestInStep
<1>5. AnswerInStep'
  BY <1>1, <1>2, ReadPacketWire DEF InStep, AnswerInStep
<1>6. HeldInStep'
  <2>1. CASE io' = "sending" /\ held' = Head(wireOut)
    BY <1>4, <2>1, ReadPacketWire DEF HeldInStep, FinalKinds, Quiet
  <2>2. CASE io' \in {"select", "retErr"} /\ held' = NoPacket
    BY <2>2 DEF HeldInStep, NoPacket, Packet
  <2> QED
    BY <2>1, <2>2
<1> QED
  BY <1>3, <1>4, <1>5, <1>6 DEF InStep

\* The query that run_inner sends next starts from a quiet connection.
LEMMA NextQueryInStep ==
  ASSUME TypeOK, NoLive, srvPhase = "idle", net = "down" => wireIn = <<>>,
         wireOut' = <<>>, held' = NoPacket, UNCHANGED <<net, srvPhase, srvReq>>,
         NEW kind, NextQuery \/ AfterException(kind)
  PROVE  InStep'
<1>1. CASE executing' = NoReq /\ io' \in {"select", "retErr"} /\ UNCHANGED wireIn
  BY <1>1, StartInStep
<1>2. CASE pending # <<>> /\ SendQuery(Head(pending))
  <2>1. Head(pending) \in Req
    BY <1>2, IoTypeParts DEF IoTypeOK
  <2> QED
    BY <1>2, <2>1, StartInStep
<1> QED
  BY <1>1, <1>2 DEF NextQuery, AfterException

\* receive_packet, receive_ping and a send that completes keep client and server in step.
LEMMA ReadInStep ==
  ASSUME TypeOK, InStep, Whole, ReadPart \/ ReceivePacket \/ SendCompletes \/ ReceivePing
  PROVE  InStep'
<1> USE DEF IoUnchanged, srvVars
<1>0. (io = "select" => held = NoPacket) /\ (net = "down" => wireIn = <<>>)
  BY DEF InStep, HeldInStep, TaskInStep
<1>1. CASE ReadPart
  BY <1>1 DEF ReadPart, InStep, RequestInStep, ServerInStep, AnswerInStep, HeldInStep,
              TaskInStep, Current, OpsOpen, Running, Quiet, NoLive
<1>2. CASE ReceiveHeader
  <2>1. ReadPacket({"Block"})
    BY <1>2 DEF ReceiveHeader
  <2> QED
    BY <1>0, <1>2, <2>1, ReadKeepsStep DEF ReceiveHeader, ReadPacket, Reading
<1>3. CASE ReceiveProgress
  <2>1. ReadPacket({"Progress"})
    BY <1>3 DEF ReceiveProgress
  <2> QED
    BY <1>0, <1>3, <2>1, ReadKeepsStep DEF ReceiveProgress, ReadPacket, Reading
<1>4. CASE ReceiveBlock
  <2>1. ReadPacket({"Block"})
    BY <1>4 DEF ReceiveBlock
  <2> QED
    BY <1>4, <2>1, ReadKeepsStep DEF ReceiveBlock, SendItem
<1>5. CASE ReceiveException
  <2>1. ReadPacket({"Exception", "Fatal"}) /\ UNCHANGED <<net, srvPhase, srvReq>>
    BY <1>5 DEF ReceiveException
  <2>2. wireOut' = <<>> /\ srvPhase = "idle" /\ NoLive
    BY <2>1, ReadPacketType, ReadPacketWire DEF FinalKinds
  <2>3. CASE HasRoom(executing)
    <3>1. held' = NoPacket /\ AfterException(Head(wireOut).p)
      BY <1>5, <2>3 DEF ReceiveException, SendItem
    <3> QED
      BY <1>0, <2>1, <2>2, <3>1, NextQueryInStep
  <2>4. CASE ~HasRoom(executing)
    <3>1. /\ io' = "sending" /\ held' = Head(wireOut)
          /\ UNCHANGED <<executing, wireIn>>
      BY <1>5, <2>4 DEF ReceiveException, SendItem
    <3> QED
      BY <2>1, <3>1, ReadKeepsStep
  <2> QED
    BY <2>3, <2>4
<1>6. CASE ReceiveEndOfStream
  <2>1. /\ ReadPacket({"EndOfStream"}) /\ UNCHANGED <<net, srvPhase, srvReq, held>>
        /\ NextQuery /\ io = "select"
    BY <1>6 DEF ReceiveEndOfStream, ReadPacket, Reading
  <2>2. wireOut' = <<>> /\ srvPhase = "idle" /\ NoLive
    BY <2>1, ReadPacketType, ReadPacketWire DEF FinalKinds
  <2> QED
    BY <1>0, <2>1, <2>2, NextQueryInStep
<1>7. CASE ReceiveTorn
  <2>1. wireOut # <<>> /\ Head(wireOut).p = "Torn"
    BY <1>7 DEF ReceiveTorn, ReadPacket
  <2>2. 1 \in 1..Len(wireOut) /\ wireOut[1].p = "Torn"
    BY <2>1, IoTypeParts, TailElements
  <2> QED
    BY <2>2 DEF Whole
<1>8. CASE ReadFails
  BY <1>8 DEF ReadFails, Reading, InStep, RequestInStep, ServerInStep, AnswerInStep,
              HeldInStep, TaskInStep, Current, OpsOpen, Running, Quiet, NoLive
<1>9. CASE SendCompletes
  <2>1. /\ io = "sending" /\ held' = NoPacket
        /\ UNCHANGED <<net, srvPhase, srvReq, wireOut>>
    BY <1>9 DEF SendCompletes, SendItem
  <2>2. held \in HeldPackets
    BY <2>1, IoTypeParts DEF IoTypeOK
  <2>3. CASE held.p \in {"Block", "InsertError"}
    <3>1. io' \in {"select", "retErr"} /\ UNCHANGED <<executing, wireIn>>
      BY <1>9, <2>3 DEF SendCompletes, SendItem
    <3>2. OpsOpen /\ OpsOpen' /\ Current = executing /\ Current' = executing
      BY <2>1, <3>1 DEF OpsOpen, Running, Current
    <3>3. (RequestInStep /\ ServerInStep /\ AnswerInStep)'
      BY <2>1, <3>1, <3>2 DEF InStep, RequestInStep, ServerInStep, AnswerInStep
    <3>4. (HeldInStep /\ TaskInStep)'
      BY <2>1, <3>1, <3>2 DEF InStep, HeldInStep, TaskInStep, NoPacket, Packet
    <3> QED
      BY <3>3, <3>4 DEF InStep
  <2>4. CASE held.p \in {"Exception", "Fatal"}
    <3>1. AfterException(held.p)
      BY <1>9, <2>4 DEF SendCompletes, SendItem
    <3>2. Quiet
      BY <2>4 DEF InStep, HeldInStep
    <3> QED
      BY <1>0, <2>1, <3>1, <3>2, NextQueryInStep DEF Quiet
  <2> QED
    BY <2>2, <2>3, <2>4 DEF HeldPackets
<1>10. CASE ReceivePing
  <2>1. /\ io = "pinging" /\ io' = "select" /\ held = NoPacket /\ held' = NoPacket
        /\ executing = NoReq /\ executing' = NoReq
        /\ UNCHANGED <<net, srvPhase, srvReq, wireIn>>
    BY <1>10 DEF ReceivePing, InStep, HeldInStep, TaskInStep
  <2>2. srvPhase = "idle"
    BY <2>1 DEF InStep, ServerInStep
  <2>3. NoLive /\ wireOut' = <<>>
    <3>1. CASE wireOut # <<>> /\ wireOut' = Tail(wireOut)
      <4>1. NoLive
        BY <3>1 DEF InStep, RequestInStep, NoLive
      <4>2. /\ Len(Tail(wireOut)) = Len(wireOut) - 1 /\ Len(wireOut) \in Nat \ {0}
            /\ Tail(wireOut) \in Seq(ServerPackets)
        BY <3>1, IoTypeParts, TailElements
      <4>3. 1 \in 1..Len(wireOut)
        BY <4>2
      <4>4. wireOut[1].p = "Pong"
        BY <2>1, <4>3 DEF InStep, AnswerInStep
      <4>5. Len(wireOut) = 1
        BY <4>3, <4>4 DEF InStep, AnswerInStep, FinalKinds
      <4> QED
        BY <3>1, <4>1, <4>2, <4>5
    <3>2. CASE net = "down" /\ wireOut = <<>> /\ UNCHANGED wireOut
      BY <1>0, <3>2 DEF NoLive
    <3> QED
      BY <1>10, <3>1, <3>2 DEF ReceivePing
  <2> QED
    BY <1>0, <2>1, <2>2, <2>3, StartInStep
<1> QED
  BY <1>1, <1>2, <1>3, <1>4, <1>5, <1>6, <1>7, <1>8, <1>9, <1>10 DEF ReceivePacket

\* The server sends a packet for the query it works on.
LEMMA ReplyInStep ==
  ASSUME TypeOK, InStep, NEW kind \in ServerKinds \ {"Pong"}, NEW n, Reply(kind, n),
         srvPhase # "idle", srvPhase' = "idle" \/ srvReq' = srvReq,
         kind \in FinalKinds => srvPhase' = "idle",
         ServerUnchanged, UNCHANGED <<net, wireIn>>
  PROVE  InStep'
<1>1. srvReq = Current /\ io # "pinging" /\ net # "down" /\ NoLive
  BY DEF InStep, ServerInStep, TaskInStep, RequestInStep, NoLive
<1>2. /\ Current' = Current /\ OpsOpen' = OpsOpen
      /\ UNCHANGED <<io, executing, pinger, held, wireIn, net>>
  BY DEF ServerUnchanged, ioVars, Current, OpsOpen, Running
<1>3. NoLive' /\ RequestInStep'
  BY <1>1, <1>2 DEF NoLive, RequestInStep
<1>4. (ServerInStep /\ TaskInStep)'
  BY <1>1, <1>2 DEF InStep, ServerInStep, TaskInStep
<1>5. held.p \notin {"Exception", "Fatal"}
  BY DEF InStep, HeldInStep, Quiet
<1>6. HeldInStep'
  BY <1>2, <1>5 DEF InStep, HeldInStep
<1>7. AnswerInStep'
  <2> DEFINE e == Packet(kind, srvReq, n)
  <2>1. wireOut' = Append(wireOut, e) /\ wireOut \in Seq(ServerPackets)
    BY IoTypeParts DEF Reply
  <2>2. e.req = srvReq /\ e.p = kind
    BY DEF Packet
  <2> HIDE DEF e
  <2>3. /\ Len(wireOut') = Len(wireOut) + 1 /\ Len(wireOut) \in Nat
        /\ \A i \in 1..Len(wireOut') :
                \/ i \in 1..Len(wireOut) /\ wireOut'[i] = wireOut[i]
                \/ i = Len(wireOut) + 1 /\ wireOut'[i] = e
    BY <2>1, AppendElements
  <2>4. \A i \in 1..Len(wireOut) : wireOut[i].p \notin FinalKinds /\ wireOut[i].req = Current
    BY DEF InStep, AnswerInStep
  <2> QED
    BY <1>1, <1>2, <2>2, <2>3, <2>4 DEF AnswerInStep
<1> QED
  BY <1>3, <1>4, <1>6, <1>7 DEF InStep

\* The connection breaks: what the client may still read is a prefix.
LEMMA HangupInStep ==
  ASSUME TypeOK, InStep, Hangup, ServerUnchanged,
         NEW k \in 0..Len(wireOut), wireOut' = SubSeq(wireOut, 1, k)
  PROVE  InStep'
<1>1. /\ Current' = Current /\ OpsOpen' = OpsOpen
      /\ UNCHANGED <<io, executing, pinger, held>>
      /\ wireIn' = <<>> /\ srvPhase' = "idle" /\ net' = "down"
  BY DEF ServerUnchanged, ioVars, Current, OpsOpen, Running, Hangup
<1>2. /\ wireOut \in Seq(ServerPackets) /\ Len(wireOut) \in Nat /\ k \in Nat /\ k <= Len(wireOut)
  BY IoTypeParts
<1>3. /\ Len(wireOut') = k
      /\ \A i \in 1..k : i \in 1..Len(wireOut) /\ wireOut'[i] = wireOut[i]
  BY <1>2
<1>4. wireOut = <<>> => wireOut' = <<>>
  BY <1>2
<1>5. (RequestInStep /\ ServerInStep /\ NoLive)'
  BY <1>1 DEF RequestInStep, ServerInStep, NoLive
<1>6. AnswerInStep'
  BY <1>1, <1>2, <1>3 DEF InStep, AnswerInStep
<1>7. (HeldInStep /\ TaskInStep)'
  BY <1>1, <1>4, <1>5 DEF InStep, HeldInStep, TaskInStep, Quiet
<1> QED
  BY <1>5, <1>6, <1>7 DEF InStep

\* The server answers what it was asked, and a broken connection loses a suffix.
LEMMA ServerInStepPreserved ==
  ASSUME TypeOK, InStep, Server \/ Loss
  PROVE  InStep'
<1>1. CASE ServerRead
  <2> DEFINE m == Head(wireIn)
  <2>1. net = "up" /\ wireIn # <<>> /\ ServerUnchanged
    BY <1>1 DEF ServerRead
  <2>2. /\ m = wireIn[1] /\ Len(wireIn) \in Nat \ {0}
        /\ Len(Tail(wireIn)) = Len(wireIn) - 1
        /\ \A i \in 1..Len(Tail(wireIn)) : i + 1 \in 1..Len(wireIn) /\ Tail(wireIn)[i] = wireIn[i + 1]
        /\ m \in ClientPackets
    BY <2>1, IoTypeParts, TailElements
  <2>3. /\ Current' = Current /\ OpsOpen' = OpsOpen
        /\ UNCHANGED <<io, executing, pinger, held>>
    BY <2>1 DEF ServerUnchanged, ioVars, Current, OpsOpen, Running
  <2>4. CASE /\ m.p \notin LiveKinds /\ wireIn' = Tail(wireIn) /\ UNCHANGED <<net, wireOut>>
             /\ srvReq' = srvReq /\ (srvPhase' = "idle" <=> srvPhase = "idle")
    <3>1. \A i \in 1..Len(wireIn') : wireIn'[i].p \in LiveKinds =>
              i + 1 \in 1..Len(wireIn) /\ wireIn'[i] = wireIn[i + 1]
      BY <2>2, <2>4
    <3>2. RequestInStep'
      <4> SUFFICES ASSUME NEW i \in 1..Len(wireIn'), wireIn'[i].p \in LiveKinds
                   PROVE  /\ wireIn'[i].p = IF io = "pinging" THEN "Ping" ELSE "Query"
                          /\ wireIn'[i].req = Current
                          /\ srvPhase = "idle" /\ wireOut = <<>>
                          /\ \A j \in 1..Len(wireIn') : wireIn'[j].p \in LiveKinds => j = i
        BY <2>3, <2>4 DEF RequestInStep
      <4>1. i + 1 \in 1..Len(wireIn) /\ wireIn'[i] = wireIn[i + 1]
        BY <3>1
      <4>2. \A j \in 1..Len(wireIn') : wireIn'[j].p \in LiveKinds => j + 1 = i + 1
        BY <3>1, <4>1 DEF InStep, RequestInStep
      <4> QED
        BY <4>1, <4>2 DEF InStep, RequestInStep
    <3>3. NoLive => NoLive'
      BY <3>1 DEF NoLive
    <3>4. (ServerInStep /\ AnswerInStep)'
      BY <2>3, <2>4 DEF InStep, ServerInStep, AnswerInStep
    <3>5. (HeldInStep /\ TaskInStep)'
      BY <2>1, <2>3, <2>4, <3>3 DEF InStep, HeldInStep, TaskInStep, Quiet
    <3> QED
      BY <3>2, <3>4, <3>5 DEF InStep
  <2>5. CASE m.p \in LiveKinds /\ wireIn' = Tail(wireIn) /\ UNCHANGED net
    <3>1. /\ m.p = IF io = "pinging" THEN "Ping" ELSE "Query"
          /\ m.req = Current /\ srvPhase = "idle" /\ wireOut = <<>>
          /\ \A j \in 1..Len(wireIn) : wireIn[j].p \in LiveKinds => j = 1
      BY <2>2, <2>5 DEF InStep, RequestInStep
    <3>2. NoLive' /\ RequestInStep'
      <4> SUFFICES ASSUME NEW i \in 1..Len(wireIn') PROVE wireIn'[i].p \notin LiveKinds
        BY DEF NoLive, RequestInStep
      <4>1. i + 1 \in 1..Len(wireIn) /\ wireIn'[i] = wireIn[i + 1] /\ i + 1 # 1
        BY <2>2, <2>5
      <4> QED
        BY <3>1, <4>1
    <3>3. held.p \notin {"Exception", "Fatal"}
      BY <2>2, <2>5 DEF InStep, HeldInStep, Quiet, NoLive
    <3>4. CASE m.p = "Query" /\ srvReq' = m.req /\ srvPhase' = "tables" /\ UNCHANGED wireOut
      <4>1. (ServerInStep /\ AnswerInStep)'
        BY <2>3, <3>1, <3>4 DEF ServerInStep, AnswerInStep
      <4>2. (HeldInStep /\ TaskInStep)'
        BY <2>1, <2>3, <2>5, <3>3, <3>4 DEF InStep, HeldInStep, TaskInStep
      <4> QED
        BY <3>2, <4>1, <4>2 DEF InStep
    <3>5. CASE /\ m.p = "Ping" /\ wireOut' = Append(wireOut, Packet("Pong", m.req, 0))
               /\ UNCHANGED <<srvReq, srvPhase>>
      <4>1. io = "pinging"
        BY <3>1, <3>5
      <4>2. wireOut' = <<Packet("Pong", m.req, 0)>>
        BY <3>1, <3>5
      <4>3. \A i \in 1..Len(wireOut') : i = 1 /\ wireOut'[i] = Packet("Pong", m.req, 0)
        BY <4>2
      <4>4. Len(wireOut') = 1
        BY <4>2
      <4>5. AnswerInStep'
        BY <2>3, <3>1, <3>5, <4>3, <4>4 DEF AnswerInStep, Packet
      <4>6. OpsOpen
        BY <4>1 DEF OpsOpen, Running
      <4>7. (ServerInStep /\ HeldInStep /\ TaskInStep)'
        BY <2>1, <2>3, <2>5, <3>1, <3>3, <3>5, <4>6
        DEF InStep, ServerInStep, HeldInStep, TaskInStep
      <4> QED
        BY <3>2, <4>5, <4>7 DEF InStep
    <3> QED
      BY <1>1, <2>5, <3>4, <3>5 DEF ServerRead, LiveKinds, srvVars
  <2>6. CASE Hangup /\ UNCHANGED wireOut
    <3>1. Len(wireOut) \in 0..Len(wireOut) /\ wireOut' = SubSeq(wireOut, 1, Len(wireOut))
      BY <2>6, IoTypeParts
    <3> QED
      BY <2>1, <2>6, <3>1, HangupInStep
  <2> QED
    BY <1>1, <2>4, <2>5, <2>6 DEF ServerRead, LiveKinds, srvVars
<1>2. CASE ServerProgress
  BY <1>2, ReplyInStep DEF ServerProgress, FinalKinds, ServerKinds
<1>3. CASE ServerHeader
  BY <1>3, ReplyInStep DEF ServerHeader, FinalKinds, ServerKinds
<1>4. CASE ServerBlock
  BY <1>4, ReplyInStep DEF ServerBlock, FinalKinds, ServerKinds
<1>5. CASE ServerEnd \/ ServerFails
  BY <1>5, ReplyInStep DEF ServerEnd, ServerFails, FinalKinds, ServerKinds
<1>6. CASE Loss
  BY <1>6, HangupInStep DEF Loss
<1> QED
  BY <1>1, <1>2, <1>3, <1>4, <1>5, <1>6 DEF Server

\* The end of the task empties the wire.
LEMMA TaskEndInStep ==
  ASSUME TypeOK, InStep, TaskEnd
  PROVE  InStep'
<1> USE DEF InStep, RequestInStep, ServerInStep, AnswerInStep, HeldInStep, TaskInStep,
            Quiet, NoLive
<1>1. CASE RunReturns
  BY <1>1 DEF RunReturns, Current, NoPacket, Packet
<1>2. CASE Aborted
  BY <1>2 DEF Aborted, Current, NoPacket, Packet
<1>3. CASE StoreStatus
  BY <1>3 DEF StoreStatus, srvVars, Current, OpsOpen, Running
<1>4. CASE DropInternal
  BY <1>4 DEF DropInternal, srvVars, Current, OpsOpen, Running
<1> QED
  BY <1>1, <1>2, <1>3, <1>4 DEF TaskEnd

\* Steps of the callers do not matter.
LEMMA FrameInStep ==
  ASSUME InStep, UNCHANGED <<ioVars, net, wireIn, wireOut, srvVars>>
  PROVE  InStep'
BY DEF InStep, RequestInStep, ServerInStep, AnswerInStep, HeldInStep, TaskInStep, Quiet,
       NoLive, ioVars, srvVars, Current, OpsOpen, Running

\* Every step keeps client and server in step.
LEMMA NextInStep ==
  ASSUME TypeOK, InStep, Whole, Next
  PROVE  InStep'
<1>1. ASSUME NEW r \in Req, Call(r) \/ Abandon(r)
      PROVE  UNCH_IO
  BY <1>1 DEF Call, Abandon, CheckChannel, CheckStatus, SendOperation, AwaitResponse,
              AwaitPong, AwaitHeader, AwaitInsert, PollStream
<1>2. ShutdownSend \/ ShutdownAbort \/ DropConnection => UNCH_IO
  BY DEF ShutdownSend, ShutdownAbort, DropConnection
<1>3. UNCH_IO => InStep'
  BY FrameInStep DEF UNCH_IO
<1> QED
  BY <1>1, <1>2, <1>3, OperationInStep, ReadInStep, TaskEndInStep, ServerInStepPreserved
  DEF Next, IoTask

-----------------------------------------------------------------------------
(* Packets that arrive whole are never torn.                               *)

\* The ways a step changes what the client has still to read.
LEMMA WholeKept ==
  ASSUME TypeOK, Whole, ~partial',
         \/ wireOut' = wireOut
         \/ wireOut' = <<>>
         \/ wireOut # <<>> /\ wireOut' = Tail(wireOut)
         \/ \E k \in 0..Len(wireOut) : wireOut' = SubSeq(wireOut, 1, k)
         \/ \E e \in ServerPackets : e.p # "Torn" /\ wireOut' = Append(wireOut, e)
  PROVE  Whole'
<1>0. wireOut \in Seq(ServerPackets) /\ Len(wireOut) \in Nat
  BY IoTypeParts
<1>1. CASE wireOut' = wireOut \/ wireOut' = <<>>
  BY <1>1 DEF Whole
<1>2. CASE wireOut # <<>> /\ wireOut' = Tail(wireOut)
  <2>1. \A i \in 1..Len(wireOut') : i + 1 \in 1..Len(wireOut) /\ wireOut'[i] = wireOut[i + 1]
    BY <1>0, <1>2, TailElements
  <2> QED
    BY <2>1 DEF Whole
<1>3. ASSUME NEW k \in 0..Len(wireOut), wireOut' = SubSeq(wireOut, 1, k)
      PROVE  Whole'
  <2>1. Len(wireOut') = k /\ \A i \in 1..k : i \in 1..Len(wireOut) /\ wireOut'[i] = wireOut[i]
    BY <1>0, <1>3
  <2> QED
    BY <2>1 DEF Whole
<1>4. ASSUME NEW e \in ServerPackets, e.p # "Torn", wireOut' = Append(wireOut, e)
      PROVE  Whole'
  <2>1. \A i \in 1..Len(wireOut') : \/ i \in 1..Len(wireOut) /\ wireOut'[i] = wireOut[i]
                                   \/ wireOut'[i] = e
    BY <1>0, <1>4, AppendElements
  <2> QED
    BY <1>4, <2>1 DEF Whole
<1> QED
  BY <1>1, <1>2, <1>3, <1>4

\* An operation that comes in while no packet is half read tears nothing, and
\* ReadPart is the only step that leaves one half read.
LEMMA NextWhole ==
  ASSUME "split" \notin Faults, TypeOK, Whole, Next
  PROVE  Whole'
<1>0. ~partial
  BY DEF Whole
<1>1. ASSUME NEW r \in Req, Call(r) \/ Abandon(r)
      PROVE  UNCH_IO
  BY <1>1 DEF Call, Abandon, CheckChannel, CheckStatus, SendOperation, AwaitResponse,
              AwaitPong, AwaitHeader, AwaitInsert, PollStream
<1>2. ShutdownSend \/ ShutdownAbort \/ DropConnection => UNCH_IO
  BY DEF ShutdownSend, ShutdownAbort, DropConnection
<1>3. UNCH_IO => Whole'
  BY <1>0, WholeKept DEF UNCH_IO, ioVars
<1>4. ASSUME NEW op, NEW r, RecvOperation(op, r)
      PROVE  Whole'
  BY <1>0, <1>4, WholeKept DEF RecvOperation
<1>5. CASE HandleOperation
  BY <1>4, <1>5 DEF HandleOperation, HandlePing, HandleQuery, HandleInsert,
                    HandleInsertFails, HandleShutdown
<1>6. ~ReadPart
  BY DEF ReadPart
<1>7. ASSUME NEW kinds, ReadPacket(kinds)
      PROVE  Whole'
  BY <1>7, WholeKept DEF ReadPacket
<1>8. CASE ReceivePacket
  <2>1. CASE ReadFails
    BY <2>1, WholeKept DEF ReadFails
  <2>2. CASE ReceiveTorn
    BY <1>7, <2>2, WholeKept DEF ReceiveTorn
  <2> QED
    BY <1>7, <1>8, <2>1, <2>2 DEF ReceivePacket, ReceiveHeader, ReceiveProgress, ReceiveBlock,
                                  ReceiveException, ReceiveEndOfStream
<1>9. CASE SendCompletes
  BY <1>0, <1>9, WholeKept DEF SendCompletes
<1>10. CASE ReceivePing
  BY <1>0, <1>10, WholeKept DEF ReceivePing
<1>11. CASE TaskEnd
  BY <1>0, <1>11, WholeKept DEF TaskEnd, RunReturns, StoreStatus, DropInternal, Aborted
<1>12. ASSUME NEW kind \in ServerKinds \ {"Torn"}, NEW n \in Items, srvReq \in Req,
              Reply(kind, n), ServerUnchanged
       PROVE  Whole'
  <2>1. Packet(kind, srvReq, n) \in ServerPackets /\ Packet(kind, srvReq, n).p # "Torn"
    BY <1>12 DEF Packet, ServerPackets
  <2> QED
    BY <1>0, <1>12, <2>1, WholeKept DEF Reply, ServerUnchanged, ioVars
<1>13. CASE Server
  <2>1. ServerUnchanged /\ ServerTypeOK /\ 0 \in Items
    BY <1>13 DEF Server, ServerRead, ServerProgress, ServerHeader, ServerBlock, ServerEnd, ServerFails,
                 TypeOK, Items
  <2>2. CASE ServerRead
    <3>1. CASE UNCHANGED wireOut
      BY <1>0, <2>1, <3>1, WholeKept DEF ServerUnchanged, ioVars
    <3>2. CASE wireOut' = Append(wireOut, Packet("Pong", Head(wireIn).req, 0))
      <4>1. Head(wireIn) \in ClientPackets
        BY <2>2, IoTypeParts DEF ServerRead
      <4>2. /\ Packet("Pong", Head(wireIn).req, 0) \in ServerPackets
            /\ Packet("Pong", Head(wireIn).req, 0).p # "Torn"
        BY <2>1, <4>1 DEF Packet, ServerPackets, ServerKinds, ClientPackets
      <4> QED
        BY <1>0, <2>1, <3>2, <4>2, WholeKept DEF ServerUnchanged, ioVars
    <3> QED
      BY <2>2, <3>1, <3>2 DEF ServerRead
  <2>3. CASE ServerProgress
    BY <1>12, <2>1, <2>3 DEF ServerProgress, ServerTypeOK, ServerKinds
  <2>4. CASE ServerHeader
    BY <1>12, <2>1, <2>4 DEF ServerHeader, ServerTypeOK, ServerKinds
  <2>5. CASE ServerBlock
    <3>1. srvReq \in Req /\ made[srvReq] + 1 \in Items
      BY <2>1, <2>5 DEF ServerBlock, ServerTypeOK, Items
    <3> QED
      BY <1>12, <2>1, <2>5, <3>1 DEF ServerBlock, ServerKinds
  <2>6. CASE ServerEnd \/ ServerFails
    BY <1>12, <2>1, <2>6 DEF ServerEnd, ServerFails, ServerTypeOK, ServerKinds
  <2> QED
    BY <1>13, <2>2, <2>3, <2>4, <2>5, <2>6 DEF Server
<1>14. CASE Loss
  BY <1>0, <1>14, WholeKept DEF Loss, ServerUnchanged, ioVars
<1> QED
  BY <1>1, <1>2, <1>3, <1>5, <1>6, <1>8, <1>9, <1>10, <1>11, <1>13, <1>14 DEF Next, IoTask

\* When packets arrive whole, no read is ever cancelled in the middle of one.
LEMMA NeverTorn ==
  ASSUME "split" \notin Faults
  PROVE  Spec => []Whole
<1>1. ConnInit => Whole
  BY DEF ConnInit, Whole
<1>2. TypeOK /\ Whole /\ [Next]_vars => Whole'
  <2>1. ASSUME TypeOK, Whole, UNCHANGED vars PROVE Whole'
    BY <2>1, WholeKept DEF Whole, vars, ioVars
  <2> QED
    BY <2>1, NextWhole
<1> QED
  BY <1>1, <1>2, TypeCorrect, PTL DEF Spec

-----------------------------------------------------------------------------
\* As long as packets arrive whole, client and server are in step: the invariant
\* that makes a protocol without query ids work, for any number of callers,
\* under lost connections, cancelled sends, abandoned calls, bad data, fatal
\* exceptions and shutdown.
THEOREM AlwaysInStep ==
  ASSUME "split" \notin Faults
  PROVE  Spec => []InStep
<1>1. ConnInit => InStep
  BY DEF ConnInit, InStep, RequestInStep, ServerInStep, AnswerInStep, HeldInStep,
         TaskInStep, Quiet, NoLive, OpsOpen, Running, NoPacket, Packet
<1>2. TypeOK /\ InStep /\ Whole /\ [Next]_vars => InStep'
  BY NextInStep, FrameInStep DEF vars
<1>3. Spec => []Whole
  BY NeverTorn
<1> QED
  BY <1>1, <1>2, <1>3, TypeCorrect, PTL DEF Spec

\* receive_packet never credits a packet to the wrong query.
THEOREM ResponsesAlwaysBelong ==
  ASSUME "split" \notin Faults
  PROVE  Spec => []ResponsesBelong
<1>1. InStep => ResponsesBelong
  BY DEF InStep, AnswerInStep, HeldInStep, ResponsesBelong
<1>2. Spec => []InStep
  BY AlwaysInStep
<1> QED
  BY <1>1, <1>2, PTL
=============================================================================
