-------------------------- MODULE ClickHouseServer --------------------------
(***************************************************************************)
(* The ClickHouse server as this client relies on it (external): one query *)
(* at a time per connection, answers in order, an answer ends with exactly *)
(* one EndOfStream or Exception.  A query is followed by an empty block    *)
(* (no external tables); an insert answers with a header block, then reads *)
(* data up to an empty block.  Data nobody asked for is skipped, or makes  *)
(* the server close the connection.                                        *)
(***************************************************************************)
EXTENDS ConnState

Reply(kind, n) == wireOut' = Append(wireOut, Packet(kind, srvReq, n))

Hangup == net' = "down" /\ wireIn' = <<>> /\ srvPhase' = "idle" /\ srvReq' = NoReq

ServerUnchanged == UNCHANGED <<callVars, resp, hdr, ins, chan, ops, status, ioVars, shut>>

\* The server reads the next packet of the client.
ServerRead ==
    /\ net = "up" /\ wireIn # <<>>
    /\ LET m == Head(wireIn) IN
       \/ /\ srvPhase = "idle" /\ m.p = "Query"
          /\ srvReq' = m.req /\ srvPhase' = "tables"
          /\ wireIn' = Tail(wireIn)
          /\ UNCHANGED <<net, wireOut, made, finished, stored>>
       \/ /\ srvPhase = "idle" /\ m.p = "Ping"
          /\ wireOut' = Append(wireOut, Packet("Pong", m.req, 0))
          /\ wireIn' = Tail(wireIn)
          /\ UNCHANGED <<net, srvVars>>
       \/ /\ srvPhase = "idle" /\ m.p \in {"Data", "Delim"}
          /\ wireIn' = Tail(wireIn)
          /\ UNCHANGED <<net, wireOut, srvVars>>
       \/ /\ srvPhase = "idle" /\ m.p \in {"Data", "Delim"}
          /\ "loss" \in Faults /\ Hangup
          /\ UNCHANGED <<wireOut, made, finished, stored>>
       \/ /\ srvPhase = "tables" /\ m.p = "Delim"
          /\ srvPhase' = "plan"
          /\ wireIn' = Tail(wireIn)
          /\ UNCHANGED <<net, wireOut, srvReq, made, finished, stored>>
       \/ /\ srvPhase = "input" /\ m.p = "Data"
          /\ stored' = stored \cup {<<srvReq, m.req>>}
          /\ wireIn' = Tail(wireIn)
          /\ UNCHANGED <<net, wireOut, srvReq, srvPhase, made, finished>>
       \/ /\ srvPhase = "input" /\ m.p = "Delim"
          /\ srvPhase' = "finish"
          /\ wireIn' = Tail(wireIn)
          /\ UNCHANGED <<net, wireOut, srvReq, made, finished, stored>>
    /\ ServerUnchanged

\* Progress may come before the header.
ServerProgress ==
    /\ net = "up" /\ srvPhase = "plan"
    /\ Reply("Progress", 0) /\ srvPhase' = "start"
    /\ UNCHANGED <<net, wireIn, srvReq, made, finished, stored>>
    /\ ServerUnchanged

ServerHeader ==
    /\ net = "up" /\ srvPhase \in {"plan", "start"}
    /\ Reply("Block", 0)
    /\ srvPhase' = IF srvReq \in Ins THEN "input" ELSE "rows"
    /\ UNCHANGED <<net, wireIn, srvReq, made, finished, stored>>
    /\ ServerUnchanged

ServerBlock ==
    /\ net = "up" /\ srvPhase = "rows" /\ made[srvReq] < MaxBlocks
    /\ Reply("Block", made[srvReq] + 1)
    /\ made' = [made EXCEPT ![srvReq] = @ + 1]
    /\ UNCHANGED <<net, wireIn, srvReq, srvPhase, finished, stored>>
    /\ ServerUnchanged

\* The end of the answer: a DDL query has no header, an insert ends after its data.
ServerEnd ==
    /\ net = "up"
    /\ \/ srvPhase \in {"rows", "finish"}
       \/ srvPhase \in {"plan", "start"} /\ srvReq \notin Ins
    /\ Reply("EndOfStream", 0)
    /\ finished' = finished \cup {srvReq}
    /\ srvPhase' = "idle" /\ srvReq' = NoReq
    /\ UNCHANGED <<net, wireIn, made, stored>>
    /\ ServerUnchanged

\* A query may fail at any point of its answer, also while the server waits for the
\* data of an insert.
ServerFails ==
    /\ net = "up" /\ srvPhase \in {"plan", "start", "rows", "input", "finish"}
    /\ Reply("Exception", 0) \/ ("fatal" \in Faults /\ Reply("Fatal", 0))
    /\ srvPhase' = "idle" /\ srvReq' = NoReq
    /\ UNCHANGED <<net, wireIn, made, finished, stored>>
    /\ ServerUnchanged

\* The connection breaks; the client may still read what had arrived.
Loss ==
    /\ "loss" \in Faults /\ net = "up"
    /\ Hangup
    /\ \E k \in 0..Len(wireOut) : wireOut' = SubSeq(wireOut, 1, k)
    /\ UNCHANGED <<made, finished, stored>>
    /\ ServerUnchanged

\* What a server that works goes on with: it reads, answers and ends its answers.
\* Waiting for the data of an insert it goes on with nothing but reading.
ServerAnswers == ServerRead \/ ServerProgress \/ ServerHeader \/ ServerBlock \/ ServerEnd

Server == \/ ServerRead \/ ServerProgress \/ ServerHeader \/ ServerBlock
          \/ ServerEnd \/ ServerFails
=============================================================================
