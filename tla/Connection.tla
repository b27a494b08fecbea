----------------------------- MODULE Connection -----------------------------
(***************************************************************************)
(* One connection: callers, io task and server composed, with the          *)
(* properties of the whole.                                                *)
(***************************************************************************)
EXTENDS ClientCalls, InternalConn, ClickHouseServer

IoTask == \/ HandleOperation \/ ReceivePacket \/ SendCompletes \/ ReceivePing
          \/ TaskEnd

Next == \/ \E r \in Req : Call(r) \/ Abandon(r)
        \/ ShutdownSend \/ ShutdownAbort \/ DropConnection
        \/ IoTask \/ ReadPart
        \/ Server \/ Loss

Spec == ConnInit /\ [][Next]_vars

\* The runtime polls every task that can make progress, and the server goes on with
\* what it has begun (it sends at most MaxBlocks blocks before it ends an answer).
\* Nothing obliges the environment to break, split, abandon or shut down, and nothing
\* obliges the server to fail a query: an insert whose data never comes waits for
\* ever.  A shutdown that has begun goes on.
Fairness == /\ \A r \in Req : WF_vars(Call(r))
            /\ WF_vars(IoTask)
            /\ WF_vars(ShutdownAbort)
            /\ WF_vars(ServerAnswers)

FairSpec == Spec /\ Fairness

-----------------------------------------------------------------------------
(* Safety.                                                                 *)

CallsTypeOK ==
    /\ pc \in [Req -> {"channel", "check", "send", "wait", "header", "icheck",
                       "isend", "iwait", "stream"} \cup Ended]
    /\ got \in [Req -> Seq(Items)]
    /\ resp \in [Req -> {"none", "open", "ok", "err"}]
    /\ hdr \in [Req -> {"none", "open", "ok"}]
    /\ ins \in [Req -> {"none", "open", "ok"}]

ChannelsTypeOK ==
    /\ chan \in [Req -> Seq(Items)] /\ \A r \in Req : Len(chan[r]) <= RespCap
    /\ ops \in Seq(Messages) /\ Len(ops) <= OpsCap
    /\ status \in {"Open", "Closed", "Error"}
    /\ shut \in {"no", "sent", "abort"}

IoTypeOK ==
    /\ pending \in Seq(Req)
    /\ executing \in Req \cup {NoReq}
    /\ state \in {"Header", "InProgress"}
    /\ io \in {"select", "sending", "pinging", "retErr", "retOk", "endErr",
               "endOk", "over", "gone"}
    /\ pinger \in Req \cup {NoReq}
    /\ held \in HeldPackets \cup {NoPacket}
    /\ partial \in BOOLEAN
    /\ dropped \subseteq DroppedPackets
    /\ io = "sending" => executing \in Req /\ held \in HeldPackets

WireTypeOK ==
    /\ net \in {"up", "down"}
    /\ wireIn \in Seq(ClientPackets)
    /\ wireOut \in Seq(ServerPackets)

ServerTypeOK ==
    /\ srvReq \in Req \cup {NoReq}
    /\ srvPhase \in {"idle", "tables", "plan", "start", "rows", "input", "finish"}
    /\ srvPhase # "idle" => srvReq \in Req
    /\ made \in [Req -> Items]
    /\ finished \subseteq Req
    /\ stored \subseteq (Req \X Req)

\* Every variable has its type, and no channel holds more than its capacity.
TypeOK == /\ CallsTypeOK /\ ChannelsTypeOK /\ IoTypeOK /\ WireTypeOK /\ ServerTypeOK

\* Responses carry no query id, so receive_packet credits whatever it reads to
\* the executing query.  It is never wrong as long as packets arrive whole: every
\* packet the server has sent and the client has not read answers the query that is
\* executing, or the ping that is awaited; and so does the item that waits for room
\* in a response channel.
ResponsesBelong ==
    /\ \A i \in 1..Len(wireOut) : wireOut[i].req = Current
    /\ held # NoPacket => held.req = executing

\* What the server still has to read and to answer.
LiveKinds == {"Query", "Ping"}
NoLive == \A i \in 1..Len(wireIn) : wireIn[i].p \notin LiveKinds
Quiet == NoLive /\ srvPhase = "idle" /\ wireOut = <<>>

\* Client and server are in step.  At most one request is under way, it is the
\* one the io task thinks it is, and it is in exactly one place: on its way to
\* the server, with the server, or being answered; a final packet is the last
\* one.  This is the inductive form of ResponsesBelong: the io task may send the
\* next query when it has read a final packet because nothing of the old one is
\* left anywhere.
RequestInStep ==
    \A i \in 1..Len(wireIn) : wireIn[i].p \in LiveKinds =>
        /\ wireIn[i].p = IF io = "pinging" THEN "Ping" ELSE "Query"
        /\ wireIn[i].req = Current
        /\ srvPhase = "idle" /\ wireOut = <<>>
        /\ \A j \in 1..Len(wireIn) : wireIn[j].p \in LiveKinds => j = i

ServerInStep == srvPhase # "idle" => srvReq = Current /\ io # "pinging"

AnswerInStep ==
    \A i \in 1..Len(wireOut) :
        /\ wireOut[i].req = Current
        /\ wireOut[i].p \in FinalKinds => i = Len(wireOut) /\ srvPhase = "idle"
        /\ io = "pinging" => wireOut[i].p = "Pong"

HeldInStep ==
    /\ io = "sending" => held.req = executing
    /\ io # "sending" => held = NoPacket
    /\ held.p \in {"Exception", "Fatal"} => Quiet

TaskInStep ==
    /\ io = "pinging" => executing = NoReq /\ pinger # NoReq
    /\ net = "down" => wireIn = <<>> /\ srvPhase = "idle"
    /\ ~OpsOpen => wireOut = <<>> /\ net = "down"

InStep == RequestInStep /\ ServerInStep /\ AnswerInStep /\ HeldInStep /\ TaskInStep

\* No packet is half read when an operation comes in: what InStep rests on.  It
\* is lost when packets arrive in pieces ("split"), see RecvOperation.
Whole == /\ ~partial
         /\ \A i \in 1..Len(wireOut) : wireOut[i].p # "Torn"

\* handle_operation and run_inner never lose a query: while the task runs, a
\* caller that waits for the response of its query is in the operations channel
\* or in the pending queue.
NotForgotten ==
    \A r \in Req \ Pings :
        Running /\ resp[r] = "open" => InOps("Query", r) \/ InPending(r)

\* A query is in one place at a time.  Its response tells which: none before it is
\* sent, open while it waits in the operations channel or in the pending queue (once
\* and in one of them only), something else from its start on; and a ping is never
\* taken for a query.  This is what makes handle_operation and run_inner, which only
\* move queries about, run none of them twice.
UnsentFresh ==
    \A r \in Req \ Pings : pc[r] \in {"channel", "check", "send"} => resp[r] = "none"

WaitingOpen ==
    /\ \A i \in 1..Len(ops) :
          /\ ops[i].op = "Query" => ops[i].req \notin Pings /\ resp[ops[i].req] = "open"
          /\ ops[i].op = "Ping" => ops[i].req \in Pings
    /\ \A i \in 1..Len(pending) : pending[i] \notin Pings /\ resp[pending[i]] = "open"

WaitingOnce ==
    /\ \A i, j \in 1..Len(ops) :
          ops[i].op = "Query" /\ ops[j].op = "Query" /\ ops[i].req = ops[j].req => i = j
    /\ \A i, j \in 1..Len(pending) : pending[i] = pending[j] => i = j
    /\ \A i \in 1..Len(pending), j \in 1..Len(ops) :
          ops[j].op = "Query" => ops[j].req # pending[i]

StartedAnswered ==
    /\ executing # NoReq => executing \notin Pings /\ resp[executing] = "ok"
    /\ io = "pinging" => pinger \in Pings

QueriesOnce == UnsentFresh /\ WaitingOpen /\ WaitingOnce /\ StartedAnswered

\* The items of a stream, those read and those still in the channel.
Yielded(r) == got[r] \o chan[r]

\* Whatever is lost on the way (a cancelled read, a broken connection), a stream
\* yields blocks of its own query in the order the server made them, never one
\* twice, and nothing after an error.
StreamInOrder ==
    \A r \in Req :
        \A i, j \in 1..Len(Yielded(r)) :
            i < j => /\ Yielded(r)[i] # ErrItem
                     /\ Yielded(r)[j] # ErrItem => Yielded(r)[i] < Yielded(r)[j]

\* Block n of r has reached the stream, or it is one that a cancelled read threw away
\* while it waited for room in the response channel (RecvOperation).
Accounted(r, n) == \/ \E i \in 1..Len(Yielded(r)) : Yielded(r)[i] = n
                   \/ Packet("Block", r, n) \in dropped

\* A stream has no hole but those of cancelled reads: when it yields a block, every
\* block the server made before it was yielded too, or thrown away by RecvOperation.
\* However full the channel is and whatever else goes wrong, receive_packet skips none.
NoGap ==
    \A r \in Req : \A i \in 1..Len(Yielded(r)) :
        \A n \in 1..(Yielded(r)[i] - 1) : Accounted(r, n)

\* A stream that ends without an error is the whole answer, and the server has reported
\* the end of the query.  The exceptions are what the code loses without a word: blocks
\* of cancelled reads, and the rest of an answer whose query was executing when the task
\* ended (run_inner, shutdown, another call's insert).
CutShort(r) == Packet("Rest", r, 0) \in dropped
AnswerWhole ==
    \A r \in Req \ Pings :
        /\ pc[r] = "done" /\ ~CutShort(r)
        /\ \A i \in 1..Len(got[r]) : got[r][i] # ErrItem
        => r \in finished /\ \A n \in 1..made[r] : Accounted(r, n)

\* What callers are told (client.rs: a stream of the query's results): a stream starts
\* with the first block the server made, and a block is followed by the next one.
NoHole ==
    \A r \in Req : \A i \in 1..Len(Yielded(r)) : Yielded(r)[i] \in {i, ErrItem}

\* What callers are told (client.rs: execute fails if the connection is interrupted): a
\* stream that ends without an error has yielded the whole answer, and the server has
\* reported the end of the query.
StreamComplete ==
    \A r \in Req \ Pings :
        /\ pc[r] = "done"
        /\ \A i \in 1..Len(got[r]) : got[r][i] # ErrItem
        => r \in finished /\ Len(got[r]) = made[r]

\* Data is stored by the query of the call that sent it.
OwnData == \A e \in stored : e[1] = e[2]

\* The status of a connection that works is Open: send_operation and
\* check_connection give a connection up only when it is really gone.
ClosedMeansDead == status # "Open" => ~OpsOpen \/ net = "down"

-----------------------------------------------------------------------------
(* Refinement: a connection implements QueryService.                       *)

Precedes(s, a, b) == \E i, j \in 1..Len(s) : i < j /\ s[i] = a /\ s[j] = b

\* q was accepted before r: the ops channel and the pending queue are one FIFO.
AheadOf(q, r) ==
    \/ Precedes(pending, q, r)
    \/ InPending(q) /\ InOps("Query", r)
    \/ Precedes(ops, Message("Query", q), Message("Query", r))

Known == {r \in Req \ Pings : resp[r] # "none"}
Waiting == {r \in Req : InPending(r) \/ InOps("Query", r)}
Ahead == {e \in Req \X Req : AheadOf(e[1], e[2])}
Phase == CASE Running -> "open"
           [] io \in {"retErr", "retOk"} -> "failing"
           [] OTHER -> "closed"

Service == INSTANCE QueryService WITH
    known <- Known, waiting <- Waiting, before <- Ahead, running <- executing, phase <- Phase

\* Queries run one at a time, each at most once, in the order the callers' sends
\* were accepted, and never after the task has a result.
ServiceSpec == Service!Spec

-----------------------------------------------------------------------------
(* Liveness.                                                               *)

\* The two ways a connection that works is stuck for good.  The exception that ends the
\* executing query was thrown away by a cancelled read: executing is never taken.
ExceptionLost ==
    Running /\ \E pkt \in dropped : pkt.p \in {"Exception", "Fatal"} /\ pkt.req = executing

\* The server waits for the data of an insert whose call is over (insert_rows failed
\* between the header and the data, or its caller went away; send_cancel is unused).
DataNeverComes ==
    /\ srvPhase = "input" /\ pc[srvReq] \in Ended /\ ~InOps("Insert", srvReq)
    /\ \A i \in 1..Len(wireIn) : wireIn[i].p \notin {"Data", "Delim"}

\* Who hangs then: the executing query's caller and those whose queries are pending.
Hangs(r) == (ExceptionLost \/ DataNeverComes) /\ (executing = r \/ InPending(r))

\* Every call comes to an end, its futures resolve and its stream ends, unless it hangs
\* in one of these two ways; there is no third one.  (An ended call stays ended.)
EveryCallEnds == <>[](\A r \in Req : pc[r] \in Ended \/ Hangs(r))
=============================================================================
