---------------------------- MODULE InternalConn ----------------------------
(***************************************************************************)
(* The io task of one connection: client/internal.rs, and the task body of *)
(* Connection::establish_connection around it.                             *)
(*                                                                         *)
(*   io = select    run_inner waits in tokio::select!                      *)
(*        sending   receive_packet (or the error path of handle_operation) *)
(*                  waits for room in the response channel                 *)
(*        pinging   receive_ping waits for a packet                        *)
(*        retErr, retOk   run has a result; ops is still open              *)
(*        endErr, endOk   run has returned: ops and the socket are dropped *)
(*        over      the status is stored, InternalConn still exists        *)
(*        gone      the task is over (or was aborted)                      *)
(*                                                                         *)
(* The read branch of the select! is a future: when the operation branch   *)
(* wins, the future is dropped with everything it had already taken off    *)
(* the socket (RecvOperation).                                             *)
(***************************************************************************)
EXTENDS ConnState

IoUnchanged == UNCHANGED <<callVars, status, shut, srvVars, net>>

\* Bytes reach the server only while the connection is up.
Write(packets) == wireIn' = IF net = "up" THEN wireIn \o packets ELSE wireIn

\* A write on a broken connection may fail; it may also only fill a buffer.
WriteMayFail == net = "down"

-----------------------------------------------------------------------------
(* Writing.                                                                *)

\* send_query: the query, Ok(receiver) to the caller, executing, the delimiter.
\* A failure of the first write is reported to the caller, one of the second is
\* not: both make the task return.
SendQuery(r) ==
    \/ /\ resp' = [resp EXCEPT ![r] = "ok"]
       /\ executing' = r /\ state' = "Header"
       /\ \/ Write(<<Packet("Query", r, 0), Packet("Delim", r, 0)>>) /\ io' = "select"
          \/ WriteMayFail /\ UNCHANGED wireIn /\ io' = "retErr"
    \/ /\ WriteMayFail
       /\ resp' = [resp EXCEPT ![r] = "err"]
       /\ executing' = NoReq /\ state' = "Header"
       /\ io' = "retErr"
       /\ UNCHANGED wireIn

\* exec.response.send(..).await: at once when there is room or the receiver is
\* gone, otherwise the task waits with the item in its hands.
\* Mutant: the channel is not bounded.
HasRoomAlways(r) == TRUE

HasRoom(r) == ~RxOpen(r) \/ Len(chan[r]) < RespCap

ItemOf(pkt) == IF pkt.p = "Block" THEN pkt.n ELSE ErrItem

SendItem(pkt, Continue) ==
    IF HasRoom(executing)
      THEN /\ chan' = IF RxOpen(executing)
                        THEN [chan EXCEPT ![executing] = Append(@, ItemOf(pkt))]
                        ELSE chan
           /\ held' = NoPacket
           /\ Continue
      ELSE held' = pkt /\ io' = "sending" /\ UNCHANGED chan

\* The operation branch of run_inner completes with operation op of call r.
\* The future of the read branch is dropped: a packet it had begun to read has
\* lost its first bytes, an item it was handing over is lost (dropped records which).
RecvOperation(op, r) ==
    /\ io = "select" \/ (io = "sending" /\ held.p # "InsertError")
    /\ ops # <<>> /\ Head(ops) = Message(op, r)
    /\ ops' = Tail(ops)
    /\ wireOut' = IF partial /\ wireOut # <<>>
                    THEN <<[Head(wireOut) EXCEPT !.p = "Torn"]>> \o Tail(wireOut)
                    ELSE wireOut
    /\ partial' = FALSE
    /\ dropped' = IF held = NoPacket THEN dropped ELSE dropped \cup {held}

\* Mutant: the ping is sent on a busy connection too.
HandlePingBusy(r) ==
    /\ RecvOperation("Ping", r)
    /\ \/ Write(<<Packet("Ping", r, 0)>>) /\ io' = "pinging" /\ pinger' = r
       \/ WriteMayFail /\ io' = "retErr" /\ UNCHANGED <<wireIn, pinger>>
    /\ held' = NoPacket
    /\ UNCHANGED <<resp, hdr, ins, chan, pending, executing, state>>
    /\ IoUnchanged

\* handle_operation, Operation::Ping: the response is dropped on a busy connection.
HandlePing(r) ==
    /\ RecvOperation("Ping", r)
    /\ IF pending = <<>> /\ executing = NoReq
         THEN \/ /\ Write(<<Packet("Ping", r, 0)>>)
                 /\ io' = "pinging" /\ pinger' = r
              \/ /\ WriteMayFail
                 /\ io' = "retErr" /\ UNCHANGED <<wireIn, pinger>>
         ELSE io' = "select" /\ UNCHANGED <<wireIn, pinger>>
    /\ held' = NoPacket
    /\ UNCHANGED <<resp, hdr, ins, chan, pending, executing, state>>
    /\ IoUnchanged

\* Mutant: only the pending queue is looked at.
HandleQueryPipelined(r) ==
    /\ RecvOperation("Query", r)
    /\ IF pending = <<>>
         THEN SendQuery(r) /\ UNCHANGED pending
         ELSE /\ pending' = Append(pending, r)
              /\ io' = "select"
              /\ UNCHANGED <<resp, executing, state, wireIn>>
    /\ held' = NoPacket
    /\ UNCHANGED <<hdr, ins, chan, pinger>>
    /\ IoUnchanged

\* Mutant: a query is treated like a ping, dropped on a busy connection.
HandleQueryDropped(r) ==
    /\ RecvOperation("Query", r)
    /\ IF pending = <<>> /\ executing = NoReq
         THEN SendQuery(r)
         ELSE io' = "select" /\ UNCHANGED <<resp, executing, state, wireIn>>
    /\ held' = NoPacket
    /\ UNCHANGED <<hdr, ins, chan, pending, pinger>>
    /\ IoUnchanged

\* handle_operation, Operation::Query: send it now or queue it.
HandleQuery(r) ==
    /\ RecvOperation("Query", r)
    /\ IF pending = <<>> /\ executing = NoReq
         THEN SendQuery(r) /\ UNCHANGED pending
         ELSE /\ pending' = Append(pending, r)
              /\ io' = "select"
              /\ UNCHANGED <<resp, executing, state, wireIn>>
    /\ held' = NoPacket
    /\ UNCHANGED <<hdr, ins, chan, pinger>>
    /\ IoUnchanged

\* handle_operation, Operation::Insert and InsertMany (one Data packet stands
\* for the blocks of the batch): the data is written whatever is executing.
HandleInsert(r) ==
    /\ RecvOperation("Insert", r)
    /\ Write(<<Packet("Data", r, 0), Packet("Delim", r, 0)>>)
    /\ ins' = [ins EXCEPT ![r] = "ok"]
    /\ io' = "select" /\ held' = NoPacket
    /\ UNCHANGED <<resp, hdr, chan, pending, executing, state, pinger>>
    /\ IoUnchanged

\* The error path of handle_operation: the executing query, whichever it is, is
\* told (which may wait for room), the insert's own response is dropped.
HandleInsertFails(r) ==
    /\ RecvOperation("Insert", r)
    /\ WriteMayFail \/ "baddata" \in Faults
    /\ IF executing = NoReq
         THEN io' = "retErr" /\ held' = NoPacket /\ UNCHANGED chan
         ELSE SendItem(Packet("InsertError", executing, ErrItem), io' = "retErr")
    /\ UNCHANGED <<resp, hdr, ins, pending, executing, state, pinger, wireIn>>
    /\ IoUnchanged

\* Message::Shutdown.
HandleShutdown ==
    /\ RecvOperation("Shutdown", NoReq)
    /\ io' = "retOk" /\ held' = NoPacket
    /\ UNCHANGED <<resp, hdr, ins, chan, pending, executing, state, pinger, wireIn>>
    /\ IoUnchanged

-----------------------------------------------------------------------------
(* Reading: receive_packet and the rest of the read branch of run_inner.   *)

Reading == io = "select" /\ executing # NoReq

\* The socket had only the first part of the packet: the read future keeps it
\* and waits for the rest.
ReadPart ==
    /\ Reading /\ "split" \in Faults
    /\ wireOut # <<>> /\ ~partial
    /\ Head(wireOut).p \notin {"EndOfStream", "Pong"}   \* a single byte
    /\ partial' = TRUE
    /\ UNCHANGED <<resp, hdr, ins, chan, ops, pending, executing, state, io,
                   pinger, held, dropped, wireIn, wireOut>>
    /\ IoUnchanged

ReadPacket(kinds) ==
    /\ Reading
    /\ wireOut # <<>> /\ Head(wireOut).p \in kinds
    /\ wireOut' = Tail(wireOut)
    /\ partial' = FALSE /\ UNCHANGED dropped

\* Mutant: the newest pending query goes first.
NextQueryNewest ==
    IF pending = <<>>
      THEN executing' = NoReq /\ io' = "select" /\ UNCHANGED <<resp, state, pending, wireIn>>
      ELSE SendQuery(pending[Len(pending)]) /\ pending' = SubSeq(pending, 1, Len(pending) - 1)

\* Mutant: the query that is sent stays in the queue.
NextQueryKept ==
    IF pending = <<>>
      THEN executing' = NoReq /\ io' = "select" /\ UNCHANGED <<resp, state, pending, wireIn>>
      ELSE SendQuery(Head(pending)) /\ UNCHANGED pending

\* The query is over: executing is dropped and the next pending query is sent.
NextQuery ==
    IF pending = <<>>
      THEN executing' = NoReq /\ io' = "select" /\ UNCHANGED <<resp, state, pending, wireIn>>
      ELSE SendQuery(Head(pending)) /\ pending' = Tail(pending)

\* The first Data packet of a query is its header, the ones after it are blocks.
ReceiveHeader ==
    /\ state = "Header" /\ ReadPacket({"Block"})
    /\ state' = "InProgress"
    /\ hdr' = [hdr EXCEPT ![executing] = IF @ = "open" THEN "ok" ELSE @]
    /\ UNCHANGED <<resp, ins, chan, ops, pending, executing, io, pinger, held, wireIn>>
    /\ IoUnchanged

\* Broadcast to the subscribers of events; nothing changes in the connection.
ReceiveProgress ==
    /\ ReadPacket({"Progress"})
    /\ UNCHANGED <<resp, hdr, ins, chan, ops, pending, executing, state, io,
                   pinger, held, wireIn>>
    /\ IoUnchanged

\* Mutant: the block is sent with try_send, a full channel discards it.
ReceiveBlockTry ==
    /\ state = "InProgress" /\ ReadPacket({"Block"})
    /\ chan' = [chan EXCEPT ![executing] = IF RxOpen(executing) /\ Len(@) < RespCap
                                             THEN Append(@, ItemOf(Head(wireOut))) ELSE @]
    /\ io' = "select" /\ held' = NoPacket
    /\ UNCHANGED <<resp, hdr, ins, ops, pending, executing, state, pinger, wireIn>>
    /\ IoUnchanged

ReceiveBlock ==
    /\ state = "InProgress" /\ ReadPacket({"Block"})
    /\ SendItem(Head(wireOut), io' = "select")
    /\ UNCHANGED <<resp, hdr, ins, ops, pending, executing, state, pinger, wireIn>>
    /\ IoUnchanged

\* After an exception executing is dropped; a fatal one ends the task.
AfterException(kind) ==
    IF kind = "Fatal"
      THEN executing' = NoReq /\ io' = "retErr" /\ UNCHANGED <<resp, state, pending, wireIn>>
      ELSE NextQuery

\* Mutant: the exception is not sent to the caller.
ReceiveExceptionQuiet ==
    /\ ReadPacket({"Exception", "Fatal"})
    /\ AfterException(Head(wireOut).p)
    /\ UNCHANGED <<hdr, ins, chan, ops, pinger, held>>
    /\ IoUnchanged

ReceiveException ==
    /\ ReadPacket({"Exception", "Fatal"})
    /\ \/ HasRoom(executing) /\ SendItem(Head(wireOut), AfterException(Head(wireOut).p))
       \/ /\ ~HasRoom(executing) /\ SendItem(Head(wireOut), TRUE)
          /\ UNCHANGED <<resp, executing, state, pending, wireIn>>
    /\ UNCHANGED <<hdr, ins, ops, pinger>>
    /\ IoUnchanged

\* Mutant: the task does not leave the send once it is done.
SendCompletesAgain ==
    /\ io = "sending" /\ HasRoom(executing) /\ RxOpen(executing)
    /\ chan' = [chan EXCEPT ![executing] = Append(@, ItemOf(held))]
    /\ UNCHANGED <<resp, hdr, ins, ops, pending, executing, state, io, pinger, held,
                   partial, dropped, wireIn, wireOut>>
    /\ IoUnchanged

\* There is room again (or nobody listens): the send that waited completes and
\* receive_packet, or handle_operation, goes on.
SendCompletes ==
    /\ io = "sending" /\ HasRoom(executing)
    /\ SendItem(held, CASE held.p = "Block"        -> io' = "select" /\ UNCHANGED <<resp, executing, state, pending, wireIn>>
                        [] held.p = "InsertError"  -> io' = "retErr" /\ UNCHANGED <<resp, executing, state, pending, wireIn>>
                        [] OTHER                   -> AfterException(held.p))
    /\ UNCHANGED <<hdr, ins, ops, pinger, partial, dropped, wireOut>>
    /\ IoUnchanged

ReceiveEndOfStream ==
    /\ ReadPacket({"EndOfStream"})
    /\ NextQuery
    /\ UNCHANGED <<hdr, ins, chan, ops, pinger, held>>
    /\ IoUnchanged

\* What is left of a torn packet is decoded from its middle.  The next byte is a
\* packet id by accident: an error, something that is ignored, or EndOfStream, a
\* packet of one byte, with the rest of the torn packet still to be read.  (The
\* longer packets need a well-formed body to be mistaken for one.)
ReceiveTorn ==
    /\ \/ /\ ReadPacket({"Torn"})
          /\ io' \in {"select", "retErr"}
          /\ UNCHANGED <<resp, pending, executing, state, wireIn>>
       \/ /\ Reading /\ wireOut # <<>> /\ Head(wireOut).p = "Torn"
          /\ NextQuery
          /\ partial' = FALSE /\ UNCHANGED <<dropped, wireOut>>
    /\ UNCHANGED <<hdr, ins, chan, ops, pinger, held>>
    /\ IoUnchanged

\* The read fails (end of file, reset): the error leaves run with `?`.
ReadFails ==
    /\ Reading /\ net = "down" /\ wireOut = <<>>
    /\ io' = "retErr" /\ partial' = FALSE
    /\ UNCHANGED <<resp, hdr, ins, chan, ops, pending, executing, state, pinger,
                   held, dropped, wireIn, wireOut>>
    /\ IoUnchanged

\* receive_ping: anything but Pong is an error, told to the caller only.
ReceivePing ==
    /\ io = "pinging"
    /\ \/ /\ wireOut # <<>>
          /\ wireOut' = Tail(wireOut)
          /\ resp' = [resp EXCEPT ![pinger] = IF Head(wireOut).p = "Pong" THEN "ok" ELSE "err"]
       \/ /\ net = "down" /\ wireOut = <<>>
          /\ resp' = [resp EXCEPT ![pinger] = "err"]
          /\ UNCHANGED wireOut
    /\ io' = "select" /\ pinger' = NoReq
    /\ UNCHANGED <<hdr, ins, chan, ops, pending, executing, state, held, partial, dropped, wireIn>>
    /\ IoUnchanged

-----------------------------------------------------------------------------
(* The end of the task.                                                    *)

\* run returns: it owned the receiver of ops and both halves of the socket.
RunReturns ==
    /\ io \in {"retErr", "retOk"}
    /\ io' = IF io = "retErr" THEN "endErr" ELSE "endOk"
    /\ ops' = <<>>
    /\ net' = "down" /\ wireIn' = <<>> /\ wireOut' = <<>>
    /\ srvPhase' = "idle" /\ srvReq' = NoReq
    /\ held' = NoPacket /\ partial' = FALSE
    /\ UNCHANGED <<callVars, resp, hdr, ins, chan, status, pending, executing,
                   state, pinger, dropped, shut, made, finished, stored>>

StoreStatus ==
    /\ io \in {"endErr", "endOk"}
    /\ status' = IF io = "endErr" THEN "Error" ELSE "Closed"
    /\ io' = "over"
    /\ UNCHANGED <<callVars, resp, hdr, ins, chan, ops, pending, executing, state,
                   pinger, held, partial, dropped, shut, net, wireIn, wireOut, srvVars>>

\* Mutant: InternalConn outlives the task.
DropInternalKept ==
    /\ io = "over"
    /\ io' = "gone"
    /\ UNCHANGED <<callVars, resp, hdr, ins, chan, ops, status, pending, executing,
                   state, pinger, held, partial, dropped, shut, net, wireIn, wireOut, srvVars>>

\* The query that executes loses the rest of its answer (history).
DropsRest ==
    dropped' = IF executing = NoReq THEN dropped
                                    ELSE dropped \cup {Packet("Rest", executing, 0)}

\* InternalConn goes out of scope: the responses of pending queries and the
\* response channel of the executing one are dropped ("TODO: Drain inner").
DropInternal ==
    /\ io = "over"
    /\ io' = "gone"
    /\ pending' = <<>> /\ executing' = NoReq
    /\ DropsRest
    /\ UNCHANGED <<callVars, resp, hdr, ins, chan, ops, status, state, pinger, held,
                   partial, shut, net, wireIn, wireOut, srvVars>>

\* abort_all drops the task's future at an await point; nothing stores a status.
Aborted ==
    /\ shut = "abort" /\ Running
    /\ io' = "gone"
    /\ ops' = <<>> /\ pending' = <<>> /\ executing' = NoReq
    /\ pinger' = NoReq /\ held' = NoPacket /\ partial' = FALSE /\ DropsRest
    /\ net' = "down" /\ wireIn' = <<>> /\ wireOut' = <<>>
    /\ srvPhase' = "idle" /\ srvReq' = NoReq
    /\ UNCHANGED <<callVars, resp, hdr, ins, chan, status, state, shut, made, finished, stored>>

HandleOperation == \/ \E r \in Req : \/ HandlePing(r) \/ HandleQuery(r)
                                     \/ HandleInsert(r) \/ HandleInsertFails(r)
                   \/ HandleShutdown

ReceivePacket == \/ ReceiveHeader \/ ReceiveProgress \/ ReceiveBlock \/ ReceiveException
                 \/ ReceiveEndOfStream \/ ReceiveTorn \/ ReadFails

TaskEnd == RunReturns \/ StoreStatus \/ DropInternal \/ Aborted
=============================================================================
