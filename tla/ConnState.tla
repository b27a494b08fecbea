----------------------------- MODULE ConnState -----------------------------
(***************************************************************************)
(* The state shared by the parts of ONE connection of clickhouse-arrow:    *)
(*                                                                         *)
(*   ClientCalls       the tasks that call Client::query, insert, ...      *)
(*   InternalConn      the io task that owns the socket                    *)
(*   ClickHouseServer  the peer (external)                                 *)
(*                                                                         *)
(* and composed by module Connection.  Rust ownership does half of the     *)
(* work in this code: a oneshot whose sender is dropped resolves with an   *)
(* error, a response channel whose sender is dropped ends the stream.  The *)
(* model therefore never stores "dropped": it is derived from who still    *)
(* holds the sender (RespDropped, HdrDropped, InsDropped, StreamEnded).    *)
(***************************************************************************)
EXTENDS Naturals, Sequences

CONSTANTS
    Req,        \* the calls made on this connection, one element per call
    NoReq,      \* "no request": None of Option<ExecutingQuery>
    Ins,        \* calls that send data after the query (insert, insert_many, insert_rows)
    Hdr,        \* calls that wait for the header block (insert_rows, query_rows)
    Pings,      \* calls of health_check(true)
    OpsCap,     \* InternalConn::CAPACITY, 1024 in the code
    RespCap,    \* capacity of the response channel, 32 in the code
    MaxBlocks,  \* bound: data blocks the server produces for one query
    Faults      \* what the environment may do, a subset of AllFaults

AllFaults ==
    { "loss",      \* the TCP connection breaks
      "split",     \* a packet arrives in two pieces
      "fatal",     \* the server raises an exception of severity Server
      "abandon",   \* a caller drops its future or its stream
      "rows",      \* Block::from_rows fails between the header and the data
      "baddata",   \* the data of an insert cannot be serialized
      "shutdown" } \* Client::shutdown, or the last Client is dropped

ASSUME ReqAssumption == NoReq \notin Req
ASSUME KindAssumption == /\ Ins \subseteq Req /\ Hdr \subseteq Req
                         /\ Pings \subseteq Req \ (Ins \cup Hdr)
ASSUME BoundAssumption == /\ OpsCap \in Nat \ {0} /\ RespCap \in Nat \ {0}
                          /\ MaxBlocks \in Nat
ASSUME FaultAssumption == Faults \subseteq AllFaults

VARIABLES
    pc,         \* where each call is in its client.rs method
    got,        \* what each call's stream has yielded
    resp,       \* oneshot of Operation::Query / Operation::Ping, per call
    hdr,        \* oneshot for the header
    ins,        \* oneshot of Operation::Insert / InsertMany
    chan,       \* the response channel (mpsc) of each query
    ops,        \* the operations channel (mpsc) to the io task
    status,     \* ConnectState.status, an AtomicU8
    pending,    \* InternalConn.pending
    executing,  \* InternalConn.executing (its qid), or NoReq
    state,      \* ExecutingQuery.state
    io,         \* where the io task is
    pinger,     \* the call whose Pong receive_ping is waiting for
    held,       \* the packet whose content waits for room in the response channel
    partial,    \* the read future has consumed part of Head(wireOut)
    dropped,    \* history, read by no action: what was thrown away of the answers
    shut,       \* progress of Client::shutdown
    net,        \* the TCP connection
    wireIn,     \* packets from the client to the server
    wireOut,    \* packets from the server to the client
    srvReq,     \* the query the server is working on
    srvPhase,   \* what it is doing for it
    made,       \* data blocks it has produced for each query
    finished,   \* the queries it has answered to the end (EndOfStream)
    stored      \* <<q, d>>: the data of call d was stored by query q

callVars == <<pc, got>>
ioVars   == <<pending, executing, state, io, pinger, held, partial, dropped>>
srvVars  == <<srvReq, srvPhase, made, finished, stored>>
vars     == <<callVars, resp, hdr, ins, chan, ops, status, ioVars, shut,
              net, wireIn, wireOut, srvVars>>

-----------------------------------------------------------------------------
(* Packets, items and messages.                                            *)

\* A packet on the wire.  Responses carry no query id: req is there to state
\* properties, no action of the client reads it from a packet of the server.
Packet(kind, r, n) == [p |-> kind, req |-> r, n |-> n]
NoPacket == Packet("None", NoReq, 0)

ClientKinds == {"Query", "Data", "Delim", "Ping"}
ServerKinds == {"Progress", "Block", "EndOfStream", "Exception",
                "Fatal", "Pong", "Torn"}
\* Block 0 is the header of the answer, an empty block.
\* After one of these the server has nothing more to say about the request.
FinalKinds  == {"EndOfStream", "Exception", "Fatal", "Pong"}

\* The content of the response channel: block n is Ok(block), 0 is Err(_).
ErrItem == 0
Items   == 0..MaxBlocks

ClientPackets == [p : ClientKinds, req : Req, n : {0}]
ServerPackets == [p : ServerKinds, req : Req, n : Items]
\* What the io task may hold while the response channel is full.
HeldPackets == [p : {"Block", "Exception", "Fatal", "InsertError"}, req : Req, n : Items]

\* Message: an operation with the call that sent it, or Shutdown.
Message(op, r) == [op |-> op, req |-> r]
Messages == [op : {"Query", "Insert", "Ping"}, req : Req] \cup {Message("Shutdown", NoReq)}

\* What may be thrown away: what was held when a read was cancelled, and the rest of
\* an answer ("Rest") when the task ends while its query executes.
DroppedPackets == HeldPackets \cup [p : {"Rest"}, req : Req, n : {0}]

-----------------------------------------------------------------------------
(* Who holds what.                                                         *)

Ended == {"done", "failed", "dropped"}

\* run is being polled at one of its await points ...
Running == io \in {"select", "sending", "pinging"}
\* ... or is returning; until it has returned it owns the receiver of ops.
OpsOpen == Running \/ io \in {"retErr", "retOk"}

InOps(op, r) == \E i \in 1..Len(ops) : ops[i] = Message(op, r)
InPending(r) == \E i \in 1..Len(pending) : pending[i] = r

\* The sender of the oneshot is in a queued operation, in a pending query, or
\* with the task that waits for Pong.
RespHeld(r) == \/ InOps("Query", r) \/ InOps("Ping", r)
               \/ InPending(r)
               \/ io = "pinging" /\ pinger = r
RespDropped(r) == resp[r] = "open" /\ ~RespHeld(r)

HdrHeld(r) == InOps("Query", r) \/ InPending(r) \/ executing = r
HdrDropped(r) == hdr[r] = "open" /\ ~HdrHeld(r)

InsDropped(r) == ins[r] = "open" /\ ~InOps("Insert", r)

\* The receiver of the response channel lives in the call (or in the oneshot
\* the call has not read yet).
RxOpen(r) == pc[r] \notin Ended

\* The sender lives in ExecutingQuery only.
StreamEnded(r) == chan[r] = <<>> /\ executing # r

\* The request whose answer the client would read next.
Current == IF io = "pinging" THEN pinger ELSE executing

-----------------------------------------------------------------------------
ConnInit ==
    /\ pc = [r \in Req |-> IF r \in Pings THEN "channel" ELSE "check"]
    /\ got = [r \in Req |-> <<>>]
    /\ resp = [r \in Req |-> "none"]
    /\ hdr = [r \in Req |-> "none"]
    /\ ins = [r \in Req |-> "none"]
    /\ chan = [r \in Req |-> <<>>]
    /\ ops = <<>>
    /\ status = "Open"
    /\ pending = <<>> /\ executing = NoReq /\ state = "Header"
    /\ io = "select" /\ pinger = NoReq /\ held = NoPacket /\ partial = FALSE
    /\ dropped = {}
    /\ shut = "no"
    /\ net = "up" /\ wireIn = <<>> /\ wireOut = <<>>
    /\ srvReq = NoReq /\ srvPhase = "idle" /\ made = [r \in Req |-> 0]
    /\ finished = {} /\ stored = {}
=============================================================================
