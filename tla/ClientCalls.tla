---------------------------- MODULE ClientCalls ----------------------------
(***************************************************************************)
(* The callers: the methods of client.rs that use a connection, and the    *)
(* parts of connection.rs that run in the caller's task (send_operation,   *)
(* check_connection, shutdown).  A call r goes through                     *)
(*                                                                         *)
(*   channel   check_channel (health_check only)                           *)
(*   check     send_operation reads the status      (query or ping)        *)
(*   send      send_operation sends on the channel                         *)
(*   wait      rx.await: the response oneshot                              *)
(*   header    header_rx.await           (insert_rows, query_rows)         *)
(*   icheck, isend, iwait                the same for the insert operation *)
(*   stream    the caller reads the response stream                        *)
(*   done, failed, dropped               it is over                        *)
(*                                                                         *)
(* The status is read and the message sent in two steps: other tasks run   *)
(* in between.                                                             *)
(***************************************************************************)
EXTENDS ConnState

UNCH_IO == UNCHANGED <<ioVars, net, wireIn, wireOut, srvVars>>

\* check_channel, the first thing check_connection does.
CheckChannel(r) ==
    /\ pc[r] = "channel"
    /\ IF OpsOpen
         THEN pc' = [pc EXCEPT ![r] = "check"] /\ UNCHANGED status
         ELSE pc' = [pc EXCEPT ![r] = "failed"] /\ status' = "Closed"
    /\ UNCHANGED <<got, resp, hdr, ins, chan, ops, shut>>
    /\ UNCH_IO

\* send_operation, up to the status check.
CheckStatus(r) ==
    /\ pc[r] \in {"check", "icheck"}
    /\ pc' = [pc EXCEPT ![r] = CASE status # "Open"   -> "failed"
                                 [] pc[r] = "check"   -> "send"
                                 [] OTHER             -> "isend"]
    /\ UNCHANGED <<got, resp, hdr, ins, chan, ops, status, shut>>
    /\ UNCH_IO

\* Mutant: a full channel counts as a closed one.
SendOperationTry(r) ==
    /\ pc[r] \in {"send", "isend"}
    /\ IF OpsOpen /\ Len(ops) < OpsCap
         THEN /\ ops' = Append(ops, Message(IF pc[r] = "isend" THEN "Insert"
                                            ELSE IF r \in Pings THEN "Ping" ELSE "Query", r))
              /\ resp' = IF pc[r] = "send" THEN [resp EXCEPT ![r] = "open"] ELSE resp
              /\ hdr' = IF pc[r] = "send" /\ r \in Hdr THEN [hdr EXCEPT ![r] = "open"] ELSE hdr
              /\ ins' = IF pc[r] = "isend" THEN [ins EXCEPT ![r] = "open"] ELSE ins
              /\ pc' = [pc EXCEPT ![r] = IF @ = "send" THEN "wait" ELSE "iwait"]
              /\ UNCHANGED status
         ELSE /\ status' = "Closed"
              /\ pc' = [pc EXCEPT ![r] = "failed"]
              /\ UNCHANGED <<resp, hdr, ins, ops>>
    /\ UNCHANGED <<got, chan, shut>>
    /\ UNCH_IO

\* send_operation, the send: waits for room, fails when the receiver is gone.
SendOperation(r) ==
    /\ pc[r] \in {"send", "isend"}
    /\ \/ /\ OpsOpen /\ Len(ops) < OpsCap
          /\ IF pc[r] = "send"
               THEN /\ ops' = Append(ops, Message(IF r \in Pings THEN "Ping" ELSE "Query", r))
                    /\ resp' = [resp EXCEPT ![r] = "open"]
                    /\ hdr' = [hdr EXCEPT ![r] = IF r \in Hdr THEN "open" ELSE @]
                    /\ pc' = [pc EXCEPT ![r] = "wait"]
                    /\ UNCHANGED ins
               ELSE /\ ops' = Append(ops, Message("Insert", r))
                    /\ ins' = [ins EXCEPT ![r] = "open"]
                    /\ pc' = [pc EXCEPT ![r] = "iwait"]
                    /\ UNCHANGED <<resp, hdr>>
          /\ UNCHANGED status
       \/ /\ ~OpsOpen
          /\ status' = "Closed"
          /\ pc' = [pc EXCEPT ![r] = "failed"]
          /\ UNCHANGED <<resp, hdr, ins, ops>>
    /\ UNCHANGED <<got, chan, shut>>
    /\ UNCH_IO

\* rx.await of query_raw, insert, insert_many, insert_rows and query_rows.
AwaitResponse(r) ==
    /\ pc[r] = "wait" /\ r \notin Pings
    /\ \/ /\ resp[r] = "ok"
          /\ pc' = [pc EXCEPT ![r] = CASE r \in Hdr -> "header"
                                       [] r \in Ins \ Hdr -> "icheck"
                                       [] OTHER -> "stream"]
       \/ /\ resp[r] = "err" \/ RespDropped(r)
          /\ pc' = [pc EXCEPT ![r] = "failed"]
    /\ UNCHANGED <<got, resp, hdr, ins, chan, ops, status, shut>>
    /\ UNCH_IO

\* rx.await of check_connection: a failed ping also marks the connection.
AwaitPong(r) ==
    /\ pc[r] = "wait" /\ r \in Pings
    /\ \/ resp[r] = "ok" /\ pc' = [pc EXCEPT ![r] = "done"] /\ UNCHANGED status
       \/ resp[r] = "err" /\ pc' = [pc EXCEPT ![r] = "failed"] /\ status' = "Error"
       \/ RespDropped(r) /\ pc' = [pc EXCEPT ![r] = "failed"] /\ status' = "Closed"
    /\ UNCHANGED <<got, resp, hdr, ins, chan, ops, shut>>
    /\ UNCH_IO

\* header_rx.await; insert_rows then builds its block with Block::from_rows.
AwaitHeader(r) ==
    /\ pc[r] = "header"
    /\ \/ /\ hdr[r] = "ok"
          /\ pc' = [pc EXCEPT ![r] = IF r \in Ins THEN "icheck" ELSE "stream"]
       \/ /\ hdr[r] = "ok" /\ r \in Ins /\ "rows" \in Faults
          /\ pc' = [pc EXCEPT ![r] = "failed"]
       \/ /\ HdrDropped(r)
          /\ pc' = [pc EXCEPT ![r] = "failed"]
    /\ UNCHANGED <<got, resp, hdr, ins, chan, ops, status, shut>>
    /\ UNCH_IO

\* rx.await of the Insert or InsertMany operation.
AwaitInsert(r) ==
    /\ pc[r] = "iwait"
    /\ \/ ins[r] = "ok" /\ pc' = [pc EXCEPT ![r] = "stream"]
       \/ InsDropped(r) /\ pc' = [pc EXCEPT ![r] = "failed"]
    /\ UNCHANGED <<got, resp, hdr, ins, chan, ops, status, shut>>
    /\ UNCH_IO

\* create_response_stream / handle_insert_response: the stream yields an item,
\* or ends once the channel is empty and its sender gone.
PollStream(r) ==
    /\ pc[r] = "stream"
    /\ \/ /\ chan[r] # <<>>
          /\ got' = [got EXCEPT ![r] = Append(@, Head(chan[r]))]
          /\ chan' = [chan EXCEPT ![r] = Tail(@)]
          /\ UNCHANGED pc
       \/ /\ StreamEnded(r)
          /\ pc' = [pc EXCEPT ![r] = "done"]
          /\ UNCHANGED <<got, chan>>
    /\ UNCHANGED <<resp, hdr, ins, ops, status, shut>>
    /\ UNCH_IO

\* query_one, query_column, execute_now, a timeout or a dropped future: the
\* call ends at an await point and its receivers are dropped.
Abandon(r) ==
    /\ "abandon" \in Faults
    /\ pc[r] \in {"send", "wait", "header", "isend", "iwait", "stream"}
    /\ pc' = [pc EXCEPT ![r] = "dropped"]
    /\ UNCHANGED <<got, resp, hdr, ins, chan, ops, status, shut>>
    /\ UNCH_IO

\* Connection::shutdown: a Shutdown message, then abort_all.
ShutdownSend ==
    /\ "shutdown" \in Faults /\ shut = "no"
    /\ \/ OpsOpen /\ Len(ops) < OpsCap /\ ops' = Append(ops, Message("Shutdown", NoReq))
       \/ ~OpsOpen /\ UNCHANGED ops
    /\ shut' = "sent"
    /\ UNCHANGED <<callVars, resp, hdr, ins, chan, status>>
    /\ UNCH_IO

ShutdownAbort ==
    /\ shut = "sent"
    /\ shut' = "abort"
    /\ UNCHANGED <<callVars, resp, hdr, ins, chan, ops, status>>
    /\ UNCH_IO

\* impl Drop for Connection: no call borrows the client any more, streams may live.
DropConnection ==
    /\ "shutdown" \in Faults /\ shut = "no"
    /\ \A r \in Req : pc[r] \in Ended \cup {"stream"}
    /\ shut' = "abort"
    /\ UNCHANGED <<callVars, resp, hdr, ins, chan, ops, status>>
    /\ UNCH_IO

Call(r) == \/ CheckChannel(r) \/ CheckStatus(r) \/ SendOperation(r)
           \/ AwaitResponse(r) \/ AwaitPong(r) \/ AwaitHeader(r)
           \/ AwaitInsert(r) \/ PollStream(r)
=============================================================================
