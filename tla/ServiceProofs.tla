---------------------------- MODULE ServiceProofs ----------------------------
(***************************************************************************)
(* Proofs about module Connection, for every set of calls and every fault: *)
(*                                                                         *)
(*   AlwaysOnce        a query is in one place, and run at most once       *)
(*   NeverForgotten    a waiting query is in the channel or the queue      *)
(*   ServiceProvided   a connection implements QueryService                *)
(*   ClosedIsDead      without pings Closed means that the task has ended  *)
(***************************************************************************)
EXTENDS ConnectionProofs

USE ReqAssumption, KindAssumption, BoundAssumption

Occurs(s, a) == \E i \in 1..Len(s) : s[i] = a

\* What an append does to the members of a sequence and to their order.
LEMMA AppendOrder ==
  ASSUME NEW S, NEW s \in Seq(S), NEW e
  PROVE  /\ \A a : Occurs(Append(s, e), a) <=> Occurs(s, a) \/ a = e
         /\ \A a, b : Precedes(Append(s, e), a, b) <=>
                         Precedes(s, a, b) \/ (Occurs(s, a) /\ b = e)
<1> DEFINE t == Append(s, e)
<1>1. /\ Len(t) = Len(s) + 1 /\ Len(s) \in Nat
      /\ \A i \in 1..Len(s) : i \in 1..Len(t) /\ t[i] = s[i]
      /\ Len(t) \in 1..Len(t) /\ t[Len(t)] = e
      /\ \A i \in 1..Len(t) : i \in 1..Len(s) \/ i = Len(t)
  OBVIOUS
<1> HIDE DEF t
<1>2. \A a : Occurs(t, a) <=> Occurs(s, a) \/ a = e
  BY <1>1 DEF Occurs
<1>3. ASSUME NEW a, NEW b, Precedes(t, a, b)
      PROVE  Precedes(s, a, b) \/ (Occurs(s, a) /\ b = e)
  BY <1>1, <1>3 DEF Precedes, Occurs
<1>4. ASSUME NEW a, NEW b, Precedes(s, a, b) \/ (Occurs(s, a) /\ b = e)
      PROVE  Precedes(t, a, b)
  BY <1>1, <1>4 DEF Precedes, Occurs
<1> QED
  BY <1>2, <1>3, <1>4 DEF t

\* The same for the removal of the first element.
LEMMA TailOrder ==
  ASSUME NEW S, NEW s \in Seq(S), s # <<>>
  PROVE  /\ \A a : Occurs(s, a) <=> Occurs(Tail(s), a) \/ a = Head(s)
         /\ \A a, b : Precedes(s, a, b) <=>
                         Precedes(Tail(s), a, b) \/ (a = Head(s) /\ Occurs(Tail(s), b))
<1> DEFINE t == Tail(s)
<1>1. /\ Len(t) = Len(s) - 1 /\ Len(s) \in Nat \ {0}
      /\ \A i \in 1..Len(t) : i + 1 \in 1..Len(s) /\ t[i] = s[i + 1]
      /\ \A i \in 1..Len(s) : i = 1 \/ (i - 1 \in 1..Len(t) /\ t[i - 1] = s[i])
      /\ Head(s) = s[1] /\ 1 \in 1..Len(s)
  BY TailElements
<1> HIDE DEF t
<1>2. \A a : Occurs(s, a) <=> Occurs(t, a) \/ a = Head(s)
  <2>1. ASSUME NEW a, Occurs(s, a) PROVE Occurs(t, a) \/ a = Head(s)
    BY <1>1, <2>1 DEF Occurs
  <2>2. ASSUME NEW a, Occurs(t, a) \/ a = Head(s) PROVE Occurs(s, a)
    BY <1>1, <2>2 DEF Occurs
  <2> QED
    BY <2>1, <2>2
<1>3. ASSUME NEW a, NEW b, Precedes(s, a, b)
      PROVE  Precedes(t, a, b) \/ (a = Head(s) /\ Occurs(t, b))
  <2>1. PICK i, j \in 1..Len(s) : i < j /\ s[i] = a /\ s[j] = b
    BY <1>3 DEF Precedes
  <2>2. j - 1 \in 1..Len(t) /\ t[j - 1] = b
    BY <1>1, <2>1
  <2>3. CASE i = 1
    BY <1>1, <2>1, <2>2, <2>3 DEF Occurs
  <2>4. CASE i # 1
    <3>1. i - 1 \in 1..Len(t) /\ t[i - 1] = a /\ i - 1 < j - 1
      BY <1>1, <2>1, <2>4
    <3> QED
      BY <2>2, <3>1 DEF Precedes
  <2> QED
    BY <2>3, <2>4
<1>4. ASSUME NEW a, NEW b, Precedes(t, a, b) \/ (a = Head(s) /\ Occurs(t, b))
      PROVE  Precedes(s, a, b)
  <2>1. CASE Precedes(t, a, b)
    <3>1. PICK i, j \in 1..Len(t) : i < j /\ t[i] = a /\ t[j] = b
      BY <2>1 DEF Precedes
    <3>2. i + 1 \in 1..Len(s) /\ j + 1 \in 1..Len(s) /\ i + 1 < j + 1
          /\ s[i + 1] = a /\ s[j + 1] = b
      BY <1>1, <3>1
    <3> QED
      BY <3>2 DEF Precedes
  <2>2. CASE a = Head(s) /\ Occurs(t, b)
    <3>1. PICK j \in 1..Len(t) : t[j] = b
      BY <2>2 DEF Occurs
    <3>2. j + 1 \in 1..Len(s) /\ 1 < j + 1 /\ s[j + 1] = b /\ s[1] = a
      BY <1>1, <2>2, <3>1
    <3> QED
      BY <1>1, <3>2 DEF Precedes
  <2> QED
    BY <1>4, <2>1, <2>2
<1> QED
  BY <1>2, <1>3, <1>4 DEF t

-----------------------------------------------------------------------------
(* The line of waiting queries: the pending queue, then the ops channel.   *)

\* The line in terms of members and order of the two sequences.
LEMMA LineParts ==
  /\ \A op, r : InOps(op, r) <=> Occurs(ops, Message(op, r))
  /\ \A r : InPending(r) <=> Occurs(pending, r)
  /\ \A op, r : InOps(op, r)' <=> Occurs(ops', Message(op, r))
  /\ \A r : InPending(r)' <=> Occurs(pending', r)
BY DEF InOps, InPending, Occurs

\* Messages are told apart by operation and call.
LEMMA MessageParts ==
  /\ \A a, b, q, r : Message(a, q) = Message(b, r) <=> a = b /\ q = r
  /\ \A m \in Messages : m = Message(m.op, m.req)
  /\ \A m \in Messages : m.op = "Query" => m.req \in Req
BY DEF Message, Messages

\* send_operation: a query joins the line at its end.
LEMMA QueryJoins ==
  ASSUME TypeOK, NEW r \in Req, ops' = Append(ops, Message("Query", r)), pending' = pending
  PROVE  /\ Waiting' = Waiting \cup {r}
         /\ Ahead' = Ahead \cup (Waiting \X {r})
<1>1. ops \in Seq(Messages)
  BY IoTypeParts
<1>2. \A q : Occurs(ops', Message("Query", q)) <=> Occurs(ops, Message("Query", q)) \/ q = r
  BY <1>1, AppendOrder, MessageParts
<1>3. \A p, q : Precedes(ops', Message("Query", p), Message("Query", q)) <=>
                   \/ Precedes(ops, Message("Query", p), Message("Query", q))
                   \/ Occurs(ops, Message("Query", p)) /\ q = r
  BY <1>1, AppendOrder, MessageParts
<1>4. Waiting' = Waiting \cup {r}
  BY <1>2, LineParts DEF Waiting
<1>5. ASSUME NEW p \in Req, NEW q \in Req
      PROVE  AheadOf(p, q)' <=> AheadOf(p, q) \/ (p \in Waiting /\ q = r)
  BY <1>2, <1>3, LineParts DEF AheadOf, Waiting
<1>6. Waiting \subseteq Req
  BY DEF Waiting
<1> QED
  BY <1>4, <1>5, <1>6 DEF Ahead

\* Other messages join and leave the channel without moving the line.
LEMMA OtherJoins ==
  ASSUME TypeOK, NEW m \in Messages, m.op # "Query",
         ops' = Append(ops, m), pending' = pending
  PROVE  Waiting' = Waiting /\ Ahead' = Ahead
<1>1. ops \in Seq(Messages) /\ \A q : m # Message("Query", q)
  BY IoTypeParts DEF Message
<1>2. \A q : Occurs(ops', Message("Query", q)) <=> Occurs(ops, Message("Query", q))
  BY <1>1, AppendOrder
<1>3. \A p, q : Precedes(ops', Message("Query", p), Message("Query", q)) <=>
                   Precedes(ops, Message("Query", p), Message("Query", q))
  BY <1>1, AppendOrder
<1> QED
  BY <1>2, <1>3, LineParts DEF Waiting, Ahead, AheadOf

LEMMA OtherLeaves ==
  ASSUME TypeOK, ops # <<>>, Head(ops).op # "Query",
         ops' = Tail(ops), pending' = pending
  PROVE  Waiting' = Waiting /\ Ahead' = Ahead
<1>1. ops \in Seq(Messages) /\ \A q : Head(ops) # Message("Query", q)
  BY IoTypeParts DEF Message
<1>2. \A q : Occurs(ops', Message("Query", q)) <=> Occurs(ops, Message("Query", q))
  BY <1>1, TailOrder
<1>3. \A p, q : Precedes(ops', Message("Query", p), Message("Query", q)) <=>
                   Precedes(ops, Message("Query", p), Message("Query", q))
  BY <1>1, TailOrder
<1> QED
  BY <1>2, <1>3, LineParts DEF Waiting, Ahead, AheadOf

\* handle_operation on a busy connection: the query moves from the channel to
\* the queue, its place in the line is the same.
LEMMA QueryQueued ==
  ASSUME TypeOK, NEW r \in Req, ops # <<>>, Head(ops) = Message("Query", r),
         ops' = Tail(ops), pending' = Append(pending, r)
  PROVE  Waiting' = Waiting /\ Ahead' = Ahead
<1>1. ops \in Seq(Messages) /\ pending \in Seq(Req)
  BY IoTypeParts DEF IoTypeOK
<1>2. \A q : Occurs(ops, Message("Query", q)) <=> Occurs(ops', Message("Query", q)) \/ q = r
  BY <1>1, TailOrder, MessageParts
<1>3. \A p, q : Precedes(ops, Message("Query", p), Message("Query", q)) <=>
                   \/ Precedes(ops', Message("Query", p), Message("Query", q))
                   \/ p = r /\ Occurs(ops', Message("Query", q))
  BY <1>1, TailOrder, MessageParts
<1>4. \A q : Occurs(pending', q) <=> Occurs(pending, q) \/ q = r
  BY <1>1, AppendOrder
<1>5. \A p, q : Precedes(pending', p, q) <=> Precedes(pending, p, q) \/ (Occurs(pending, p) /\ q = r)
  BY <1>1, AppendOrder
<1>6. Waiting' = Waiting
  BY <1>2, <1>4, LineParts DEF Waiting
<1>7. \A p, q : AheadOf(p, q)' <=> AheadOf(p, q)
  BY <1>2, <1>3, <1>4, <1>5, LineParts DEF AheadOf
<1> QED
  BY <1>6, <1>7 DEF Ahead

\* A query that starts straight from the channel is the first in line.
LEMMA ChannelHeadStarts ==
  ASSUME TypeOK, QueriesOnce, NEW r \in Req, ops # <<>>, Head(ops) = Message("Query", r),
         ops' = Tail(ops), pending = <<>>, pending' = pending
  PROVE  Service!First(r) /\ Service!Leave({r})
<1>1. ops \in Seq(Messages)
  BY IoTypeParts
<1>2. \A q : Occurs(ops, Message("Query", q)) <=> Occurs(ops', Message("Query", q)) \/ q = r
  BY <1>1, TailOrder, MessageParts
<1>3. \A p, q : Precedes(ops, Message("Query", p), Message("Query", q)) <=>
                   \/ Precedes(ops', Message("Query", p), Message("Query", q))
                   \/ p = r /\ Occurs(ops', Message("Query", q))
  BY <1>1, TailOrder, MessageParts
<1>4. \A q : ~Occurs(pending, q) /\ ~Occurs(pending', q)
  BY DEF Occurs
<1>5. \A p, q : ~Precedes(pending, p, q) /\ ~Precedes(pending', p, q)
  BY DEF Precedes
<1>6. ~Occurs(ops', Message("Query", r))
  <2> SUFFICES ASSUME NEW i \in 1..Len(ops'), ops'[i] = Message("Query", r)
               PROVE  FALSE
    BY DEF Occurs
  <2>1. i + 1 \in 1..Len(ops) /\ ops[i + 1] = Message("Query", r) /\ 1 \in 1..Len(ops)
        /\ ops[1] = Message("Query", r) /\ i + 1 # 1
    BY <1>1, TailElements
  <2> QED
    BY <2>1 DEF QueriesOnce, WaitingOnce, Message
<1>7. \A p, q : Precedes(ops', p, q) => Occurs(ops', p) /\ Occurs(ops', q)
  BY DEF Precedes, Occurs
<1>8. \A q \in Req : q \in Waiting <=> Occurs(ops', Message("Query", q)) \/ q = r
  BY <1>2, <1>4, LineParts DEF Waiting
<1>9. \A q \in Req : q \in Waiting' <=> Occurs(ops', Message("Query", q))
  BY <1>4, LineParts DEF Waiting
<1>10. \A p, q \in Req : AheadOf(p, q)' <=> AheadOf(p, q) /\ p # r /\ q # r
  BY <1>2, <1>3, <1>4, <1>5, <1>6, <1>7, LineParts DEF AheadOf
<1>11. \A q \in Req : q \in Waiting \ {r} => AheadOf(r, q)
  BY <1>3, <1>8 DEF AheadOf
<1>12. Service!First(r)
  BY <1>8, <1>11 DEF Service!First, Waiting, Ahead
<1>13. Service!Leave({r})
  <2>1. Waiting' = Waiting \ {r}
    BY <1>6, <1>8, <1>9 DEF Waiting
  <2> QED
    BY <1>10, <2>1 DEF Service!Leave, Ahead
<1> QED
  BY <1>12, <1>13

\* So is the one run_inner takes off the pending queue.
LEMMA QueueHeadStarts ==
  ASSUME TypeOK, QueriesOnce, pending # <<>>, pending' = Tail(pending), ops' = ops,
         NEW r, r = Head(pending)
  PROVE  r \in Req /\ Service!First(r) /\ Service!Leave({r})
<1>1. pending \in Seq(Req) /\ ops \in Seq(Messages) /\ r \in Req
  BY IoTypeParts DEF IoTypeOK
<1>2. \A q : Occurs(pending, q) <=> Occurs(pending', q) \/ q = r
  BY <1>1, TailOrder
<1>3. \A p, q : Precedes(pending, p, q) <=> Precedes(pending', p, q) \/ (p = r /\ Occurs(pending', q))
  BY <1>1, TailOrder
<1>4. ~Occurs(pending', r)
  <2> SUFFICES ASSUME NEW i \in 1..Len(pending'), pending'[i] = r
               PROVE  FALSE
    BY DEF Occurs
  <2>1. i + 1 \in 1..Len(pending) /\ pending[i + 1] = r /\ 1 \in 1..Len(pending)
        /\ pending[1] = r /\ i + 1 # 1
    BY <1>1, TailElements
  <2> QED
    BY <2>1 DEF QueriesOnce, WaitingOnce
<1>5. ~Occurs(ops, Message("Query", r))
  <2> SUFFICES ASSUME NEW j \in 1..Len(ops), ops[j] = Message("Query", r)
               PROVE  FALSE
    BY DEF Occurs
  <2>1. 1 \in 1..Len(pending) /\ pending[1] = r
    BY <1>1, TailElements
  <2> QED
    BY <2>1 DEF QueriesOnce, WaitingOnce, Message
<1>6. \A s, p, q : Precedes(s, p, q) => Occurs(s, p) /\ Occurs(s, q)
  BY DEF Precedes, Occurs
<1>7. \A p, q \in Req : AheadOf(p, q)' <=> AheadOf(p, q) /\ p # r /\ q # r
  BY <1>2, <1>3, <1>4, <1>5, <1>6, LineParts DEF AheadOf
<1>8. \A q \in Req : q \in Waiting \ {r} => AheadOf(r, q)
  BY <1>2, <1>3, LineParts DEF AheadOf, Waiting
<1>9. Waiting' = Waiting \ {r} /\ r \in Waiting
  BY <1>1, <1>2, <1>4, <1>5, LineParts DEF Waiting
<1>10. Service!First(r)
  BY <1>1, <1>8, <1>9 DEF Service!First, Waiting, Ahead
<1>11. Service!Leave({r})
  BY <1>7, <1>9 DEF Service!Leave, Ahead
<1> QED
  BY <1>1, <1>10, <1>11

-----------------------------------------------------------------------------
(* A query is in one place at a time.                                      *)

\* Steps that leave the line, the responses and the executing query alone.
LEMMA OnceFrame ==
  ASSUME QueriesOnce, UNCHANGED <<resp, ops, pending, executing>>,
         \A r \in Req : pc'[r] \in {"channel", "check", "send"} =>
                         pc[r] \in {"channel", "check", "send"},
         io' = "pinging" => io = "pinging" /\ pinger' = pinger
  PROVE  QueriesOnce'
BY DEF QueriesOnce, UnsentFresh, WaitingOpen, WaitingOnce, StartedAnswered

\* A message that is not a query joins the channel.
LEMMA OnceOtherJoins ==
  ASSUME TypeOK, QueriesOnce, NEW m \in Messages, m.op # "Query",
         m.op = "Ping" => m.req \in Pings,
         ops' = Append(ops, m), UNCHANGED <<pending, executing, io, pinger>>,
         \A r \in Req : resp'[r] = resp[r] \/ (r \in Pings /\ pc'[r] = "wait"),
         \A r \in Req : pc'[r] \in {"channel", "check", "send"} =>
                         pc[r] \in {"channel", "check", "send"}
  PROVE  QueriesOnce'
<1>0. ops \in Seq(Messages) /\ pending \in Seq(Req) /\ executing \in Req \cup {NoReq}
  BY IoTypeParts DEF IoTypeOK
<1>1. \A i \in 1..Len(ops') : \/ i \in 1..Len(ops) /\ ops'[i] = ops[i]
                              \/ i = Len(ops) + 1 /\ ops'[i] = m
  BY <1>0, AppendElements
<1>2. \A i \in 1..Len(ops) : ops[i] \in Messages
  BY <1>0
<1>3. \A i \in 1..Len(pending) : pending[i] \in Req
  BY <1>0
<1>4. UnsentFresh'
  BY DEF QueriesOnce, UnsentFresh
<1>5. WaitingOpen'
  BY <1>1, <1>2, <1>3, MessageParts DEF QueriesOnce, WaitingOpen
<1>6. WaitingOnce'
  BY <1>1 DEF QueriesOnce, WaitingOnce
<1>7. StartedAnswered'
  BY <1>0 DEF QueriesOnce, StartedAnswered
<1> QED
  BY <1>4, <1>5, <1>6, <1>7 DEF QueriesOnce

\* A query joins the channel: it was in no other place.
LEMMA OnceQueryJoins ==
  ASSUME TypeOK, QueriesOnce, NEW r \in Req \ Pings, pc[r] = "send",
         ops' = Append(ops, Message("Query", r)), UNCHANGED <<pending, executing, io, pinger>>,
         resp' = [resp EXCEPT ![r] = "open"], pc' = [pc EXCEPT ![r] = "wait"]
  PROVE  QueriesOnce'
<1>0. /\ ops \in Seq(Messages) /\ pending \in Seq(Req) /\ executing \in Req \cup {NoReq}
      /\ resp \in [Req -> {"none", "open", "ok", "err"}] /\ DOMAIN pc = Req
  BY IoTypeParts DEF IoTypeOK, TypeOK, CallsTypeOK
<1>1. \A i \in 1..Len(ops') : \/ i \in 1..Len(ops) /\ ops'[i] = ops[i]
                              \/ i = Len(ops) + 1 /\ ops'[i] = Message("Query", r)
  BY <1>0, AppendElements
<1>2. \A i \in 1..Len(ops) : ops[i].op = "Query" => ops[i].req # r /\ ops[i].req \in Req
  <2>1. resp[r] = "none"
    BY DEF QueriesOnce, UnsentFresh
  <2>2. \A i \in 1..Len(ops) : ops[i] \in Messages
    BY <1>0
  <2> QED
    BY <2>1, <2>2, MessageParts DEF QueriesOnce, WaitingOpen
<1>3. \A i \in 1..Len(pending) : pending[i] # r /\ pending[i] \in Req
  BY <1>0 DEF QueriesOnce, UnsentFresh, WaitingOpen
<1>4. UnsentFresh'
  BY <1>0 DEF QueriesOnce, UnsentFresh
<1>5. WaitingOpen'
  BY <1>0, <1>1, <1>2, <1>3 DEF QueriesOnce, WaitingOpen, Message
<1>6. WaitingOnce'
  BY <1>1, <1>2, <1>3 DEF QueriesOnce, WaitingOnce, Message
<1>7. StartedAnswered'
  BY <1>0 DEF QueriesOnce, UnsentFresh, StartedAnswered
<1> QED
  BY <1>4, <1>5, <1>6, <1>7 DEF QueriesOnce

\* Callers and shutdown.
LEMMA OnceCall ==
  ASSUME TypeOK, QueriesOnce,
         \/ \E r \in Req : Call(r) \/ Abandon(r)
         \/ ShutdownSend \/ ShutdownAbort \/ DropConnection
  PROVE  QueriesOnce'
<1> USE DEF UNCH_IO, ioVars, callVars
<1>0. pc \in [Req -> {"channel", "check", "send", "wait", "header", "icheck",
                      "isend", "iwait", "stream"} \cup Ended]
  BY DEF TypeOK, CallsTypeOK
<1>1. ASSUME NEW r \in Req, SendOperation(r)
      PROVE  QueriesOnce'
  <2>1. CASE ~OpsOpen
    BY <1>0, <1>1, <2>1, OnceFrame DEF SendOperation
  <2>2. CASE OpsOpen /\ pc[r] = "send" /\ r \in Pings
    <3> DEFINE m == Message("Ping", r)
    <3>1. m \in Messages /\ m.op = "Ping" /\ m.req = r
      BY DEF Message, Messages
    <3>2. /\ ops' = Append(ops, m) /\ UNCHANGED <<pending, executing, io, pinger>>
          /\ resp' = [resp EXCEPT ![r] = "open"] /\ pc' = [pc EXCEPT ![r] = "wait"]
      BY <1>1, <2>2 DEF SendOperation
    <3>3. \A q \in Req : resp'[q] = resp[q] \/ (q \in Pings /\ pc'[q] = "wait")
      BY <1>0, <2>2, <3>2 DEF TypeOK, CallsTypeOK
    <3>4. \A q \in Req : pc'[q] \in {"channel", "check", "send"} =>
                         pc[q] \in {"channel", "check", "send"}
      BY <1>0, <3>2
    <3> HIDE DEF UNCH_IO, ioVars, callVars, m
    <3> QED
      BY <2>2, <3>1, <3>2, <3>3, <3>4, OnceOtherJoins
  <2>3. CASE OpsOpen /\ pc[r] = "send" /\ r \notin Pings
    <3>1. /\ ops' = Append(ops, Message("Query", r)) /\ UNCHANGED <<pending, executing, io, pinger>>
          /\ resp' = [resp EXCEPT ![r] = "open"] /\ pc' = [pc EXCEPT ![r] = "wait"]
      BY <1>1, <2>3 DEF SendOperation
    <3> HIDE DEF UNCH_IO, ioVars, callVars
    <3> QED
      BY <2>3, <3>1, OnceQueryJoins
  <2>4. CASE OpsOpen /\ pc[r] = "isend"
    <3>1. Message("Insert", r) \in Messages /\ Message("Insert", r).op = "Insert"
      BY DEF Message, Messages
    <3>2. /\ ops' = Append(ops, Message("Insert", r)) /\ UNCHANGED <<pending, executing, io, pinger>>
          /\ resp' = resp /\ pc' = [pc EXCEPT ![r] = "iwait"]
      BY <1>1, <2>4 DEF SendOperation
    <3>3. \A q \in Req : pc'[q] \in {"channel", "check", "send"} =>
                         pc[q] \in {"channel", "check", "send"}
      BY <1>0, <3>2
    <3> QED
      BY <3>1, <3>2, <3>3, OnceOtherJoins
  <2> QED
    BY <1>1, <2>1, <2>2, <2>3, <2>4 DEF SendOperation
<1>2. ASSUME NEW r \in Req,
             \/ CheckChannel(r) \/ CheckStatus(r) \/ AwaitResponse(r) \/ AwaitPong(r)
             \/ AwaitHeader(r) \/ AwaitInsert(r) \/ PollStream(r) \/ Abandon(r)
      PROVE  QueriesOnce'
  <2>1. UNCHANGED <<resp, ops, pending, executing, io, pinger>>
    BY <1>2 DEF CheckChannel, CheckStatus, AwaitResponse, AwaitPong, AwaitHeader, AwaitInsert,
                PollStream, Abandon
  <2>2. \A q \in Req : pc'[q] \in {"channel", "check", "send"} =>
                       pc[q] \in {"channel", "check", "send"}
    BY <1>0, <1>2 DEF CheckChannel, CheckStatus, AwaitResponse, AwaitPong, AwaitHeader,
                      AwaitInsert, PollStream, Abandon
  <2> QED
    BY <2>1, <2>2, OnceFrame
<1>3. CASE ShutdownSend
  <2>1. Message("Shutdown", NoReq) \in Messages /\ Message("Shutdown", NoReq).op = "Shutdown"
    BY DEF Message, Messages
  <2>2. CASE ops' = Append(ops, Message("Shutdown", NoReq))
    BY <1>3, <2>1, <2>2, OnceOtherJoins DEF ShutdownSend
  <2>3. CASE ops' = ops
    BY <1>3, <2>3, OnceFrame DEF ShutdownSend
  <2> QED
    BY <1>3, <2>2, <2>3 DEF ShutdownSend
<1>4. CASE ShutdownAbort \/ DropConnection
  BY <1>4, OnceFrame DEF ShutdownAbort, DropConnection
<1> QED
  BY <1>1, <1>2, <1>3, <1>4 DEF Call

\* handle_operation takes a message that is not a query.
LEMMA OnceOtherLeaves ==
  ASSUME TypeOK, QueriesOnce, ops # <<>>, Head(ops).op # "Query", ops' = Tail(ops),
         UNCHANGED <<pc, resp, pending, executing>>, io' = "pinging" => pinger' \in Pings
  PROVE  QueriesOnce'
<1>1. /\ ops \in Seq(Messages)
      /\ \A i \in 1..Len(ops') : i + 1 \in 1..Len(ops) /\ ops'[i] = ops[i + 1]
      /\ Len(ops) \in Nat
  BY IoTypeParts, TailElements
<1>2. UnsentFresh' /\ StartedAnswered'
  BY DEF QueriesOnce, UnsentFresh, StartedAnswered
<1>3. WaitingOpen'
  BY <1>1 DEF QueriesOnce, WaitingOpen
<1>4. WaitingOnce'
  <2>1. ASSUME NEW i \in 1..Len(ops'), NEW j \in 1..Len(ops'),
               ops'[i].op = "Query", ops'[j].op = "Query", ops'[i].req = ops'[j].req
        PROVE  i = j
    <3>1. i + 1 = j + 1
      BY <1>1, <2>1 DEF QueriesOnce, WaitingOnce
    <3> QED
      BY <3>1
  <2> QED
    BY <1>1, <2>1 DEF QueriesOnce, WaitingOnce
<1> QED
  BY <1>2, <1>3, <1>4 DEF QueriesOnce

\* A query moves from the channel to the queue.
LEMMA OnceQueued ==
  ASSUME TypeOK, QueriesOnce, NEW r \in Req, ops # <<>>, Head(ops) = Message("Query", r),
         ops' = Tail(ops), pending' = Append(pending, r),
         UNCHANGED <<pc, resp, executing>>, io' # "pinging"
  PROVE  QueriesOnce'
<1>1. /\ ops \in Seq(Messages)
      /\ \A i \in 1..Len(ops') : i + 1 \in 1..Len(ops) /\ ops'[i] = ops[i + 1] /\ i + 1 # 1
      /\ Len(ops) \in Nat /\ 1 \in 1..Len(ops) /\ ops[1] = Message("Query", r)
  BY IoTypeParts, TailElements
<1>2. /\ pending \in Seq(Req)
      /\ \A i \in 1..Len(pending') : \/ i \in 1..Len(pending) /\ pending'[i] = pending[i]
                                     \/ i = Len(pending) + 1 /\ pending'[i] = r
  BY AppendElements, IoTypeParts DEF IoTypeOK
<1>3. UnsentFresh' /\ StartedAnswered'
  BY DEF QueriesOnce, UnsentFresh, StartedAnswered
<1>4. ops[1].op = "Query" /\ ops[1].req = r
  BY <1>1 DEF Message
<1>5. r \notin Pings /\ resp[r] = "open" /\ \A i \in 1..Len(pending) : pending[i] # r
  BY <1>1, <1>4 DEF QueriesOnce, WaitingOpen, WaitingOnce
<1>6. WaitingOpen'
  BY <1>1, <1>2, <1>5 DEF QueriesOnce, WaitingOpen
<1>7. \A i \in 1..Len(ops') : ops'[i].op = "Query" => ops'[i].req # r
  BY <1>1, <1>4, SMTT(30) DEF QueriesOnce, WaitingOnce
<1>8. WaitingOnce'
  <2>1. ASSUME NEW i \in 1..Len(ops'), NEW j \in 1..Len(ops'),
               ops'[i].op = "Query", ops'[j].op = "Query", ops'[i].req = ops'[j].req
        PROVE  i = j
    <3>1. i + 1 = j + 1
      BY <1>1, <2>1 DEF QueriesOnce, WaitingOnce
    <3> QED
      BY <3>1
  <2>2. \A i, j \in 1..Len(pending') : pending'[i] = pending'[j] => i = j
    BY <1>2, <1>5 DEF QueriesOnce, WaitingOnce
  <2>3. \A i \in 1..Len(pending'), j \in 1..Len(ops') :
           ops'[j].op = "Query" => ops'[j].req # pending'[i]
    BY <1>1, <1>2, <1>7 DEF QueriesOnce, WaitingOnce
  <2> QED
    BY <2>1, <2>2, <2>3 DEF WaitingOnce
<1> QED
  BY <1>3, <1>6, <1>8 DEF QueriesOnce

\* What send_query does to the response of the query and to executing.
Sent(r) ==
    \/ /\ resp' = [resp EXCEPT ![r] = "ok"] /\ executing' = r
       /\ io' \in {"select", "retErr"}
    \/ resp' = [resp EXCEPT ![r] = "err"] /\ executing' = NoReq /\ io' = "retErr"

LEMMA SendQuerySent ==
  ASSUME NEW r, SendQuery(r)
  PROVE  Sent(r)
BY DEF SendQuery, Sent

\* A query that starts has left the line; the others keep their places.
LEMMA OnceStarts ==
  ASSUME TypeOK, QueriesOnce, NEW r \in Req, Sent(r), UNCHANGED pc,
         \/ /\ ops # <<>> /\ Head(ops) = Message("Query", r) /\ ops' = Tail(ops)
            /\ pending' = pending
         \/ /\ pending # <<>> /\ Head(pending) = r /\ pending' = Tail(pending)
            /\ ops' = ops
  PROVE  QueriesOnce'
<1>0. /\ ops \in Seq(Messages) /\ pending \in Seq(Req)
      /\ resp \in [Req -> {"none", "open", "ok", "err"}]
  BY IoTypeParts DEF IoTypeOK
<1>1. r \notin Pings /\ resp[r] = "open"
  <2>1. CASE ops # <<>> /\ Head(ops) = Message("Query", r)
    <3>1. 1 \in 1..Len(ops) /\ ops[1].op = "Query" /\ ops[1].req = r
      BY <1>0, <2>1, TailElements DEF Message
    <3> QED
      BY <3>1 DEF QueriesOnce, WaitingOpen
  <2>2. CASE pending # <<>> /\ Head(pending) = r
    <3>1. 1 \in 1..Len(pending) /\ pending[1] = r
      BY <1>0, <2>2, TailElements
    <3> QED
      BY <3>1 DEF QueriesOnce, WaitingOpen
  <2> QED
    BY <2>1, <2>2
<1>2. /\ \A i \in 1..Len(ops') : ops'[i].op = "Query" => ops'[i].req # r
      /\ \A i \in 1..Len(pending') : pending'[i] # r
      /\ WaitingOnce'
      /\ \A i \in 1..Len(ops') : \E j \in 1..Len(ops) : ops'[i] = ops[j]
      /\ \A i \in 1..Len(pending') : \E j \in 1..Len(pending) : pending'[i] = pending[j]
  <2>1. CASE /\ ops # <<>> /\ Head(ops) = Message("Query", r) /\ ops' = Tail(ops)
             /\ pending' = pending
    <3>1. /\ \A i \in 1..Len(ops') : i + 1 \in 1..Len(ops) /\ ops'[i] = ops[i + 1] /\ i + 1 # 1
          /\ 1 \in 1..Len(ops) /\ ops[1].op = "Query" /\ ops[1].req = r
      BY <1>0, <2>1, TailElements DEF Message
    <3>2. ASSUME NEW i \in 1..Len(ops'), NEW j \in 1..Len(ops'),
                 ops'[i].op = "Query", ops'[j].op = "Query", ops'[i].req = ops'[j].req
          PROVE  i = j
      <4>0. /\ i + 1 \in 1..Len(ops) /\ j + 1 \in 1..Len(ops)
            /\ ops[i + 1].op = "Query" /\ ops[j + 1].op = "Query"
            /\ ops[i + 1].req = ops[j + 1].req
        BY <3>1, <3>2
      <4>1. i + 1 = j + 1
        BY <4>0 DEF QueriesOnce, WaitingOnce
      <4> QED
        BY <4>1
    <3>3. WaitingOnce'
      BY <2>1, <3>1, <3>2 DEF QueriesOnce, WaitingOnce
    <3> QED
      BY <2>1, <3>1, <3>3 DEF QueriesOnce, WaitingOnce
  <2>2. CASE /\ pending # <<>> /\ Head(pending) = r /\ pending' = Tail(pending)
             /\ ops' = ops
    <3>1. /\ \A i \in 1..Len(pending') : /\ i + 1 \in 1..Len(pending) /\ i + 1 # 1
                                          /\ pending'[i] = pending[i + 1]
          /\ 1 \in 1..Len(pending) /\ pending[1] = r
      BY <1>0, <2>2, TailElements
    <3>2. ASSUME NEW i \in 1..Len(pending'), NEW j \in 1..Len(pending'), pending'[i] = pending'[j]
          PROVE  i = j
      <4>1. i + 1 = j + 1
        BY <3>1, <3>2 DEF QueriesOnce, WaitingOnce
      <4> QED
        BY <4>1
    <3>3. WaitingOnce'
      BY <2>2, <3>1, <3>2 DEF QueriesOnce, WaitingOnce
    <3> QED
      BY <2>2, <3>1, <3>3 DEF QueriesOnce, WaitingOnce
  <2> QED
    BY <2>1, <2>2
<1>3. UnsentFresh'
  BY <1>0, <1>1 DEF QueriesOnce, UnsentFresh, Sent
<1>4. WaitingOpen'
  <2>1. \A i \in 1..Len(ops) : ops[i] \in Messages
    BY <1>0
  <2>2. \A i \in 1..Len(pending) : pending[i] \in Req
    BY <1>0
  <2>3. \A q \in Req : q # r => resp'[q] = resp[q]
    BY <1>0 DEF Sent
  <2>4. ASSUME NEW i \in 1..Len(ops')
        PROVE  /\ ops'[i].op = "Query" => ops'[i].req \notin Pings /\ resp'[ops'[i].req] = "open"
               /\ ops'[i].op = "Ping" => ops'[i].req \in Pings
    <3>1. PICK j \in 1..Len(ops) : ops'[i] = ops[j]
      BY <1>2
    <3>2. ops'[i] \in Messages
      BY <2>1, <3>1
    <3>3. /\ ops'[i].op = "Query" => ops'[i].req \notin Pings /\ resp[ops'[i].req] = "open"
          /\ ops'[i].op = "Ping" => ops'[i].req \in Pings
      BY <3>1 DEF QueriesOnce, WaitingOpen
    <3>4. ops'[i].op = "Query" => ops'[i].req \in Req /\ ops'[i].req # r
      BY <1>2, <3>2, MessageParts
    <3> QED
      BY <2>3, <3>3, <3>4
  <2>5. ASSUME NEW i \in 1..Len(pending')
        PROVE  pending'[i] \notin Pings /\ resp'[pending'[i]] = "open"
    <3>1. PICK j \in 1..Len(pending) : pending'[i] = pending[j]
      BY <1>2
    <3> QED
      BY <1>2, <2>2, <2>3, <3>1 DEF QueriesOnce, WaitingOpen
  <2> QED
    BY <2>4, <2>5 DEF WaitingOpen
<1>5. StartedAnswered'
  BY <1>0, <1>1 DEF StartedAnswered, Sent
<1> QED
  BY <1>2, <1>3, <1>4, <1>5 DEF QueriesOnce

\* handle_operation keeps every query in one place.
LEMMA OnceOperation ==
  ASSUME TypeOK, QueriesOnce, HandleOperation
  PROVE  QueriesOnce'
<1> USE DEF IoUnchanged, callVars
<1>0. ops \in Seq(Messages)
  BY IoTypeParts
<1>1. ASSUME NEW r \in Req, HandlePing(r)
      PROVE  QueriesOnce'
  <2>1. /\ ops # <<>> /\ Head(ops) = Message("Ping", r) /\ ops' = Tail(ops)
        /\ UNCHANGED <<pc, resp, pending, executing>>
        /\ io' = "pinging" => pinger' = r
    BY <1>1 DEF HandlePing, RecvOperation
  <2>2. Head(ops).op = "Ping" /\ Head(ops).req = r /\ ops[1] = Head(ops) /\ 1 \in 1..Len(ops)
    BY <1>0, <2>1, TailElements DEF Message
  <2>3. r \in Pings
    BY <2>2 DEF QueriesOnce, WaitingOpen
  <2> QED
    BY <2>1, <2>2, <2>3, OnceOtherLeaves
<1>2. ASSUME NEW r \in Req, HandleQuery(r)
      PROVE  QueriesOnce'
  <2>1. /\ ops # <<>> /\ Head(ops) = Message("Query", r) /\ ops' = Tail(ops) /\ UNCHANGED pc
    BY <1>2 DEF HandleQuery, RecvOperation
  <2>2. CASE pending = <<>> /\ executing = NoReq
    <3>1. Sent(r) /\ UNCHANGED pending
      BY <1>2, <2>2, SendQuerySent DEF HandleQuery
    <3> QED
      BY <2>1, <3>1, OnceStarts
  <2>3. CASE ~(pending = <<>> /\ executing = NoReq)
    <3>1. pending' = Append(pending, r) /\ io' = "select" /\ UNCHANGED <<resp, executing>>
      BY <1>2, <2>3 DEF HandleQuery
    <3> QED
      BY <2>1, <3>1, OnceQueued
  <2> QED
    BY <2>2, <2>3
<1>3. ASSUME NEW op \in {"Insert", "Shutdown"}, NEW r, RecvOperation(op, r),
             UNCHANGED <<pc, resp, pending, executing>>, io' # "pinging"
      PROVE  QueriesOnce'
  <2>1. ops # <<>> /\ Head(ops).op # "Query" /\ ops' = Tail(ops)
    BY <1>3 DEF RecvOperation, Message
  <2> QED
    BY <1>3, <2>1, OnceOtherLeaves
<1>4. ASSUME NEW r \in Req, HandleInsert(r) \/ HandleInsertFails(r)
      PROVE  QueriesOnce'
  BY <1>3, <1>4 DEF HandleInsert, HandleInsertFails, SendItem
<1>5. CASE HandleShutdown
  BY <1>3, <1>5 DEF HandleShutdown
<1> QED
  BY <1>1, <1>2, <1>4, <1>5 DEF HandleOperation

\* What a step of the read branch does to the line: nothing, or the executing query
\* is over, and perhaps the first pending one is sent.
ReadEffect ==
    \/ UNCHANGED <<resp, pending, executing>>
    \/ UNCHANGED <<resp, pending>> /\ executing' = NoReq
    \/ pending # <<>> /\ pending' = Tail(pending) /\ Sent(Head(pending))

LEMMA AfterExceptionEffect ==
  ASSUME NEW kind, NextQuery \/ AfterException(kind)
  PROVE  ReadEffect /\ io' \in {"select", "retErr"}
BY SendQuerySent DEF NextQuery, AfterException, ReadEffect, Sent

\* Every step of the read branch has one of these effects.
LEMMA ReadSteps ==
  ASSUME TypeOK, ReadPart \/ ReceivePacket \/ SendCompletes
  PROVE  /\ UNCHANGED <<pc, ops, pinger>>
         /\ io \in {"select", "sending"} /\ io' \in {"select", "sending", "retErr"}
         /\ executing # NoReq
         /\ ReadEffect
<1> USE DEF IoUnchanged, callVars, ReadPacket, Reading
<1>0. io = "sending" => executing # NoReq
  BY DEF TypeOK, IoTypeOK
<1>1. CASE ReadPart \/ ReadFails \/ ReceiveHeader \/ ReceiveProgress
  BY <1>1 DEF ReadPart, ReadFails, ReceiveHeader, ReceiveProgress, ReadEffect
<1>2. CASE ReceiveBlock
  BY <1>2 DEF ReceiveBlock, SendItem, ReadEffect
<1>3. CASE ReceiveException
  <2>1. UNCHANGED <<pc, ops, pinger>> /\ io = "select" /\ executing # NoReq
    BY <1>3 DEF ReceiveException
  <2>2. CASE HasRoom(executing)
    <3>1. AfterException(Head(wireOut).p)
      BY <1>3, <2>2 DEF ReceiveException, SendItem
    <3> QED
      BY <2>1, <3>1, AfterExceptionEffect
  <2>3. CASE ~HasRoom(executing)
    BY <1>3, <2>1, <2>3 DEF ReceiveException, SendItem, ReadEffect
  <2> QED
    BY <2>2, <2>3
<1>4. CASE ReceiveEndOfStream
  BY <1>4, AfterExceptionEffect DEF ReceiveEndOfStream
<1>5. CASE ReceiveTorn
  <2>1. UNCHANGED <<pc, ops, pinger>> /\ io = "select" /\ executing # NoReq
    BY <1>5 DEF ReceiveTorn
  <2>2. CASE NextQuery
    BY <2>1, <2>2, AfterExceptionEffect
  <2>3. CASE io' \in {"select", "retErr"} /\ UNCHANGED <<resp, pending, executing>>
    BY <2>1, <2>3 DEF ReadEffect
  <2> QED
    BY <1>5, <2>2, <2>3 DEF ReceiveTorn
<1>6. CASE SendCompletes
  <2>1. UNCHANGED <<pc, ops, pinger>> /\ io = "sending" /\ executing # NoReq
    BY <1>0, <1>6 DEF SendCompletes
  <2>2. CASE held.p \in {"Block", "InsertError"}
    BY <1>6, <2>1, <2>2 DEF SendCompletes, SendItem, ReadEffect
  <2>3. CASE held.p \notin {"Block", "InsertError"}
    <3>1. AfterException(held.p)
      BY <1>6, <2>3 DEF SendCompletes, SendItem
    <3> QED
      BY <2>1, <3>1, AfterExceptionEffect
  <2> QED
    BY <2>2, <2>3
<1> QED
  BY <1>1, <1>2, <1>3, <1>4, <1>5, <1>6 DEF ReceivePacket

\* The task that ends empties what it owns; the server does not know the line.
LEMMA TaskEndSteps ==
  ASSUME TaskEnd
  PROVE  /\ UNCHANGED <<pc, resp>>
         /\ ops' \in {ops, <<>>} /\ pending' \in {pending, <<>>}
         /\ executing' \in {executing, NoReq}
         /\ io' \in {"endErr", "endOk", "over", "gone"}
BY DEF TaskEnd, RunReturns, StoreStatus, DropInternal, Aborted, callVars

\* Every step keeps every query in one place.
LEMMA NextOnce ==
  ASSUME TypeOK, QueriesOnce, Next
  PROVE  QueriesOnce'
<1>1. CASE ReadPart \/ ReceivePacket \/ SendCompletes
  <2>1. /\ UNCHANGED <<pc, ops, pinger>> /\ io' # "pinging" /\ ReadEffect
    BY <1>1, ReadSteps
  <2>2. CASE UNCHANGED <<resp, pending, executing>>
    BY <2>1, <2>2, OnceFrame
  <2>3. CASE UNCHANGED <<resp, pending>> /\ executing' = NoReq
    BY <2>1, <2>3
    DEF QueriesOnce, UnsentFresh, WaitingOpen, WaitingOnce, StartedAnswered
  <2>4. CASE pending # <<>> /\ pending' = Tail(pending) /\ Sent(Head(pending))
    <3>1. Head(pending) \in Req
      BY <2>4, IoTypeParts DEF IoTypeOK
    <3> QED
      BY <2>1, <2>4, <3>1, OnceStarts
  <2> QED
    BY <2>1, <2>2, <2>3, <2>4 DEF ReadEffect
<1>2. CASE ReceivePing
  <2>1. /\ UNCHANGED <<pc, ops, pending, executing>> /\ io = "pinging" /\ io' = "select"
        /\ \A r \in Req : resp'[r] = IF r = pinger THEN resp'[pinger] ELSE resp[r]
    BY <1>2 DEF ReceivePing, IoUnchanged, callVars, TypeOK, CallsTypeOK
  <2>2. pinger \in Pings
    BY <2>1 DEF QueriesOnce, StartedAnswered
  <2>3. pending \in Seq(Req) /\ ops \in Seq(Messages) /\ executing \in Req \cup {NoReq}
    BY IoTypeParts DEF IoTypeOK
  <2>4. /\ \A i \in 1..Len(ops) : ops[i] \in Messages
        /\ \A i \in 1..Len(pending) : pending[i] \in Req
    BY <2>3
  <2>5. \A r \in Req \ Pings : resp'[r] = resp[r]
    BY <2>1, <2>2
  <2>6. UnsentFresh' /\ WaitingOnce' /\ StartedAnswered'
    BY <2>1, <2>3, <2>5 DEF QueriesOnce, UnsentFresh, WaitingOnce, StartedAnswered
  <2>7. WaitingOpen'
    BY <2>1, <2>4, <2>5, MessageParts DEF QueriesOnce, WaitingOpen
  <2> QED
    BY <2>6, <2>7 DEF QueriesOnce
<1>3. CASE TaskEnd
  BY <1>3, TaskEndSteps
  DEF QueriesOnce, UnsentFresh, WaitingOpen, WaitingOnce, StartedAnswered
<1>4. CASE Server \/ Loss
  <2>1. ServerUnchanged
    BY <1>4 DEF Server, ServerRead, ServerProgress, ServerHeader, ServerBlock, ServerEnd, ServerFails, Loss
  <2> QED
    BY <2>1, OnceFrame DEF ServerUnchanged, callVars, ioVars
<1> QED
  BY <1>1, <1>2, <1>3, <1>4, OnceCall, OnceOperation DEF Next, IoTask


LEMMA InitOnce == ConnInit => QueriesOnce
BY DEF ConnInit, QueriesOnce, UnsentFresh, WaitingOpen, WaitingOnce, StartedAnswered

\* handle_operation and run_inner only move queries about: none of them is in two
\* places, none is run twice, whatever breaks, is split, abandoned or shut down.
THEOREM AlwaysOnce == Spec => []QueriesOnce
<1>1. TypeOK /\ QueriesOnce /\ [Next]_vars => QueriesOnce'
  <2>1. ASSUME QueriesOnce, UNCHANGED vars PROVE QueriesOnce'
    BY <2>1, OnceFrame DEF vars, callVars, ioVars
  <2> QED
    BY <2>1, NextOnce
<1> QED
  BY InitOnce, <1>1, TypeCorrect, PTL DEF Spec

-----------------------------------------------------------------------------
(* What a step does to the line of waiting queries.                        *)

\* Nobody sends to a task that is over.
ClosedEmpty == ~OpsOpen => ops = <<>>

LEMMA NextClosedEmpty ==
  ASSUME TypeOK, ClosedEmpty, Next
  PROVE  ClosedEmpty'
<1> USE DEF UNCH_IO, ioVars, callVars, IoUnchanged, OpsOpen, Running, ClosedEmpty
<1>1. CASE \E r \in Req : Call(r) \/ Abandon(r)
  BY <1>1 DEF Call, CheckChannel, CheckStatus, SendOperation, AwaitResponse, AwaitPong,
              AwaitHeader, AwaitInsert, PollStream, Abandon
<1>2. CASE ShutdownSend \/ ShutdownAbort \/ DropConnection
  BY <1>2 DEF ShutdownSend, ShutdownAbort, DropConnection
<1>3. CASE HandleOperation
  <2>1. io \in {"select", "sending"}
    BY <1>3 DEF HandleOperation, HandlePing, HandleQuery, HandleInsert, HandleInsertFails,
                HandleShutdown, RecvOperation
  <2>2. io' \in {"select", "sending", "pinging", "retErr", "retOk"}
    BY <1>3, <2>1 DEF HandleOperation, HandlePing, HandleQuery, HandleInsert,
       HandleInsertFails, HandleShutdown, RecvOperation, SendQuery, SendItem
  <2> QED
    BY <2>1, <2>2
<1>4. CASE ReadPart \/ ReceivePacket \/ SendCompletes
  <2>1. io' \in {"select", "sending", "retErr"}
    BY <1>4, ReadSteps
  <2> QED
    BY <2>1
<1>5. CASE ReceivePing
  BY <1>5 DEF ReceivePing
<1>6. CASE TaskEnd
  BY <1>6 DEF TaskEnd, RunReturns, StoreStatus, DropInternal, Aborted
<1>7. CASE Server \/ Loss
  BY <1>7 DEF Server, ServerRead, ServerProgress, ServerHeader, ServerBlock, ServerEnd, ServerFails, Loss,
              ServerUnchanged
<1> QED
  BY <1>1, <1>2, <1>3, <1>4, <1>5, <1>6, <1>7 DEF Next, IoTask

\* When the io task ends it drops its receiver: nothing stays in the operations channel.
THEOREM AlwaysClosedEmpty == Spec => []ClosedEmpty
<1>1. ConnInit => ClosedEmpty
  BY DEF ConnInit, ClosedEmpty
<1>2. TypeOK /\ ClosedEmpty /\ [Next]_vars => ClosedEmpty'
  <2>1. ASSUME ClosedEmpty, UNCHANGED vars PROVE ClosedEmpty'
    BY <2>1 DEF ClosedEmpty, OpsOpen, Running, vars, ioVars
  <2> QED
    BY <2>1, NextClosedEmpty
<1> QED
  BY <1>1, <1>2, TypeCorrect, PTL DEF Spec

QueriesKept == \A r \in Req \ Pings : resp'[r] = resp[r]
LineKept == Waiting' = Waiting /\ Ahead' = Ahead

\* Nothing, or the task stops taking operations.
Idles == /\ LineKept /\ QueriesKept /\ UNCHANGED executing
         /\ \/ Phase' = Phase
            \/ Running /\ Phase' = "failing"

\* A query is sent to the task.
Joins == \E r \in Req \ Pings :
           /\ OpsOpen /\ resp[r] = "none" /\ resp' = [resp EXCEPT ![r] = "open"]
           /\ Waiting' = Waiting \cup {r} /\ Ahead' = Ahead \cup (Waiting \X {r})
           /\ UNCHANGED <<executing, io>>

\* The first in line is sent to the server, or the attempt ends the task.
Starts == \E r \in Req : /\ Running /\ Service!First(r) /\ Service!Leave({r})
                         /\ Sent(r)

\* The executing query is over and nobody waits, or its error ends the task.
Ends == /\ Running /\ io' \in {"select", "sending", "retErr"}
        /\ executing # NoReq /\ executing' = NoReq
        /\ LineKept /\ QueriesKept

\* The task drops the channel, the queue or both.
Drops == /\ ~OpsOpen' /\ executing' \in {executing, NoReq} /\ QueriesKept
         /\ \E R \in SUBSET Waiting : /\ \A q \in R, r \in Waiting \ R : <<r, q>> \in Ahead
                                      /\ Service!Leave(R)

LineStep == Idles \/ Joins \/ Starts \/ Ends \/ Drops


LEMMA CallLine ==
  ASSUME TypeOK, QueriesOnce,
         \/ \E r \in Req : Call(r) \/ Abandon(r)
         \/ ShutdownSend \/ ShutdownAbort \/ DropConnection
  PROVE  LineStep
<1> USE DEF UNCH_IO, ioVars, callVars
<1>0. UNCHANGED <<executing, io, pending>> /\ Phase' = Phase
  BY DEF Call, CheckChannel, CheckStatus, SendOperation, AwaitResponse, AwaitPong,
         AwaitHeader, AwaitInsert, PollStream, Abandon, ShutdownSend, ShutdownAbort,
         DropConnection, Phase, Running
<1>1. ASSUME UNCHANGED <<ops, pending>> PROVE LineKept
  BY <1>1 DEF LineKept, Waiting, Ahead, AheadOf, InOps, InPending
<1>2. ASSUME LineKept, QueriesKept PROVE LineStep
  BY <1>0, <1>2 DEF LineStep, Idles
<1>3. DOMAIN resp = Req
  BY DEF TypeOK, CallsTypeOK
<1>4. ASSUME NEW r \in Req, SendOperation(r)
      PROVE  LineStep
  <2>1. CASE ~OpsOpen
    BY <1>1, <1>2, <1>4, <2>1 DEF SendOperation, QueriesKept
  <2>2. CASE OpsOpen /\ pc[r] = "send" /\ r \in Pings
    <3> DEFINE m == Message("Ping", r)
    <3>1. m \in Messages /\ m.op = "Ping" /\ ops' = Append(ops, m)
          /\ resp' = [resp EXCEPT ![r] = "open"]
      BY <1>4, <2>2 DEF SendOperation, Message, Messages
    <3>2. QueriesKept
      BY <1>3, <2>2, <3>1 DEF QueriesKept
    <3> HIDE DEF m
    <3>3. LineKept
      BY <1>0, <3>1, OtherJoins DEF LineKept
    <3> QED
      BY <1>2, <3>2, <3>3
  <2>3. CASE OpsOpen /\ pc[r] = "send" /\ r \notin Pings
    <3>1. /\ ops' = Append(ops, Message("Query", r)) /\ resp[r] = "none"
          /\ resp' = [resp EXCEPT ![r] = "open"]
      BY <1>4, <2>3 DEF SendOperation, QueriesOnce, UnsentFresh
    <3>2. Waiting' = Waiting \cup {r} /\ Ahead' = Ahead \cup (Waiting \X {r})
      BY <1>0, <3>1, QueryJoins
    <3> QED
      BY <1>0, <2>3, <3>1, <3>2 DEF LineStep, Joins
  <2>4. CASE OpsOpen /\ pc[r] = "isend"
    <3> DEFINE m == Message("Insert", r)
    <3>1. m \in Messages /\ m.op = "Insert" /\ ops' = Append(ops, m) /\ resp' = resp
      BY <1>4, <2>4 DEF SendOperation, Message, Messages
    <3> HIDE DEF m
    <3>2. LineKept
      BY <1>0, <3>1, OtherJoins DEF LineKept
    <3> QED
      BY <1>2, <3>1, <3>2 DEF QueriesKept
  <2> QED
    BY <1>4, <2>1, <2>2, <2>3, <2>4 DEF SendOperation
<1>5. ASSUME NEW r \in Req,
             \/ CheckChannel(r) \/ CheckStatus(r) \/ AwaitResponse(r) \/ AwaitPong(r)
             \/ AwaitHeader(r) \/ AwaitInsert(r) \/ PollStream(r) \/ Abandon(r)
      PROVE  LineStep
  <2>1. UNCHANGED <<resp, ops>>
    BY <1>5 DEF CheckChannel, CheckStatus, AwaitResponse, AwaitPong, AwaitHeader, AwaitInsert,
                PollStream, Abandon
  <2> QED
    BY <1>0, <1>1, <1>2, <2>1 DEF QueriesKept
<1>6. CASE ShutdownSend
  <2>1. resp' = resp
    BY <1>6 DEF ShutdownSend
  <2>2. CASE ops' = ops
    BY <1>0, <1>1, <1>2, <2>1, <2>2 DEF QueriesKept
  <2>3. CASE ops' = Append(ops, Message("Shutdown", NoReq))
    <3> DEFINE m == Message("Shutdown", NoReq)
    <3>1. m \in Messages /\ m.op = "Shutdown" /\ ops' = Append(ops, m)
      BY <2>3 DEF Message, Messages
    <3> HIDE DEF m
    <3>2. LineKept
      BY <1>0, <3>1, OtherJoins DEF LineKept
    <3> QED
      BY <1>2, <2>1, <3>2 DEF QueriesKept
  <2> QED
    BY <1>6, <2>2, <2>3 DEF ShutdownSend
<1>7. CASE ShutdownAbort \/ DropConnection
  <2>1. UNCHANGED <<resp, ops>>
    BY <1>7 DEF ShutdownAbort, DropConnection
  <2> QED
    BY <1>0, <1>1, <1>2, <2>1 DEF QueriesKept
<1> QED
  BY <1>4, <1>5, <1>6, <1>7 DEF Call

LEMMA OperationLine ==
  ASSUME TypeOK, QueriesOnce, HandleOperation
  PROVE  LineStep
<1> USE DEF IoUnchanged, callVars
<1>0. Running /\ Phase = "open"
  BY DEF HandleOperation, HandlePing, HandleQuery, HandleInsert, HandleInsertFails,
         HandleShutdown, RecvOperation, Running, Phase
<1>1. ASSUME NEW op \in {"Insert", "Ping", "Shutdown"}, NEW r, RecvOperation(op, r),
             UNCHANGED <<resp, pending, executing>>,
             io' \in {"select", "sending", "pinging", "retErr", "retOk"}
      PROVE  LineStep
  <2>1. ops # <<>> /\ Head(ops).op # "Query" /\ ops' = Tail(ops)
    BY <1>1 DEF RecvOperation, Message
  <2>2. LineKept
    BY <1>1, <2>1, OtherLeaves DEF LineKept
  <2>3. Phase' = Phase \/ Phase' = "failing"
    BY <1>0, <1>1 DEF Phase, Running
  <2> QED
    BY <1>0, <1>1, <2>2, <2>3 DEF LineStep, Idles, QueriesKept
<1>2. ASSUME NEW r \in Req, HandlePing(r) \/ HandleInsert(r) \/ HandleInsertFails(r)
      PROVE  LineStep
  BY <1>1, <1>2 DEF HandlePing, HandleInsert, HandleInsertFails, SendItem
<1>3. CASE HandleShutdown
  BY <1>1, <1>3 DEF HandleShutdown
<1>4. ASSUME NEW r \in Req, HandleQuery(r)
      PROVE  LineStep
  <2>1. ops # <<>> /\ Head(ops) = Message("Query", r) /\ ops' = Tail(ops)
    BY <1>4 DEF HandleQuery, RecvOperation
  <2>2. CASE pending = <<>> /\ executing = NoReq
    <3>1. Sent(r) /\ UNCHANGED pending
      BY <1>4, <2>2, SendQuerySent DEF HandleQuery
    <3>2. Service!First(r) /\ Service!Leave({r})
      BY <2>1, <2>2, <3>1, ChannelHeadStarts
    <3> QED
      BY <1>0, <3>1, <3>2 DEF LineStep, Starts
  <2>3. CASE ~(pending = <<>> /\ executing = NoReq)
    <3>1. pending' = Append(pending, r) /\ io' = "select" /\ UNCHANGED <<resp, executing>>
      BY <1>4, <2>3 DEF HandleQuery
    <3>2. LineKept
      BY <2>1, <3>1, QueryQueued DEF LineKept
    <3>3. Phase' = "open"
      BY <3>1 DEF Phase, Running
    <3> QED
      BY <1>0, <3>1, <3>2, <3>3 DEF LineStep, Idles, QueriesKept
  <2> QED
    BY <2>2, <2>3
<1> QED
  BY <1>2, <1>3, <1>4 DEF HandleOperation

LEMMA ReadLine ==
  ASSUME TypeOK, QueriesOnce, ReadPart \/ ReceivePacket \/ SendCompletes
  PROVE  LineStep
<1>1. /\ UNCHANGED ops /\ Running /\ Phase = "open" /\ executing # NoReq
      /\ io' \in {"select", "sending", "retErr"} /\ ReadEffect
  BY ReadSteps DEF Running, Phase
<1>2. Phase' = Phase \/ Phase' = "failing"
  BY <1>1 DEF Phase, Running
<1>3. ASSUME UNCHANGED pending PROVE LineKept
  BY <1>1, <1>3 DEF LineKept, Waiting, Ahead, AheadOf, InOps, InPending
<1>4. CASE UNCHANGED <<resp, pending, executing>>
  BY <1>1, <1>2, <1>3, <1>4 DEF LineStep, Idles, QueriesKept
<1>5. CASE UNCHANGED <<resp, pending>> /\ executing' = NoReq
  BY <1>1, <1>3, <1>5 DEF LineStep, Ends, QueriesKept
<1>6. CASE pending # <<>> /\ pending' = Tail(pending) /\ Sent(Head(pending))
  BY <1>1, <1>6, QueueHeadStarts DEF LineStep, Starts
<1> QED
  BY <1>1, <1>4, <1>5, <1>6 DEF ReadEffect


LEMMA TaskEndLine ==
  ASSUME TypeOK, QueriesOnce, ClosedEmpty, TaskEnd
  PROVE  LineStep
<1> USE DEF callVars
<1>1. QueriesKept /\ executing' \in {executing, NoReq} /\ ~OpsOpen'
  BY DEF TaskEnd, RunReturns, StoreStatus, DropInternal, Aborted, OpsOpen, Running, QueriesKept
<1>2. ASSUME NEW R \in SUBSET Waiting, \A q \in R, r \in Waiting \ R : <<r, q>> \in Ahead,
             Service!Leave(R)
      PROVE  LineStep
  BY <1>1, <1>2 DEF LineStep, Drops
<1>3. CASE RunReturns
  <2> DEFINE R == {r \in Waiting : ~InPending(r)}
  <2>1. ops' = <<>> /\ pending' = pending
    BY <1>3 DEF RunReturns
  <2>2. \A r : ~InOps("Query", r)' /\ (InPending(r)' <=> InPending(r))
    BY <2>1 DEF InOps, InPending
  <2>3. \A p, q \in Req : ~Precedes(ops', p, q) /\ (Precedes(pending', p, q) => Precedes(pending, p, q))
    BY <2>1 DEF Precedes
  <2>4. \A p, q : Precedes(pending, p, q) => InPending(p) /\ InPending(q)
    BY DEF Precedes, InPending
  <2>5. \A p, q \in Req : AheadOf(p, q)' <=> Precedes(pending, p, q)
    BY <2>1, <2>2 DEF AheadOf, Precedes
  <2>6. \A p, q : ~(InPending(p) /\ InOps("Query", p))
    BY DEF QueriesOnce, WaitingOnce, InPending, InOps, Message
  <2>7. \A p, q : Precedes(ops, Message("Query", p), Message("Query", q)) =>
                    InOps("Query", p) /\ InOps("Query", q)
    BY DEF Precedes, InOps
  <2>8. \A q \in R, r \in Waiting \ R : <<r, q>> \in Ahead
    BY DEF Waiting, Ahead, AheadOf
  <2>9. Waiting' = Waiting \ R
    BY <2>2 DEF Waiting
  <2>10. Ahead' = Ahead \ ((R \X Req) \cup (Req \X R))
    BY <2>4, <2>5, <2>6, <2>7 DEF Ahead, AheadOf, Waiting
  <2> QED
    BY <1>2, <2>8, <2>9, <2>10 DEF Service!Leave
<1>4. CASE StoreStatus
  <2>1. UNCHANGED <<ops, pending, executing>> /\ Phase' = Phase
    BY <1>4 DEF StoreStatus, Phase, Running
  <2>2. LineKept
    BY <2>1 DEF LineKept, Waiting, Ahead, AheadOf, InOps, InPending
  <2> QED
    BY <1>1, <2>1, <2>2 DEF LineStep, Idles
<1>5. CASE DropInternal \/ Aborted
  <2>1. ops' = <<>> /\ pending' = <<>>
    BY <1>5 DEF DropInternal, Aborted, ClosedEmpty, OpsOpen, Running
  <2>2. Waiting' = {} /\ Ahead' = {}
    BY <2>1 DEF Waiting, Ahead, AheadOf, InOps, InPending, Precedes
  <2>3. Ahead \subseteq Waiting \X Req
    BY DEF Ahead, AheadOf, Waiting, InPending, InOps, Precedes
  <2>4. Service!Leave(Waiting)
    BY <2>2, <2>3 DEF Service!Leave
  <2> QED
    BY <1>2, <2>4
<1> QED
  BY <1>3, <1>4, <1>5 DEF TaskEnd

\* Every step of the connection is one of the five.
LEMMA NextLine ==
  ASSUME TypeOK, QueriesOnce, ClosedEmpty, Next
  PROVE  LineStep
<1>1. CASE ReceivePing
  <2>1. UNCHANGED <<ops, pending, executing>> /\ Phase' = Phase
    BY <1>1 DEF ReceivePing, IoUnchanged, Phase, Running
  <2>2. LineKept
    BY <2>1 DEF LineKept, Waiting, Ahead, AheadOf, InOps, InPending
  <2>3. pinger \in Pings
    BY <1>1 DEF ReceivePing, QueriesOnce, StartedAnswered
  <2>4. QueriesKept
    BY <1>1, <2>3 DEF ReceivePing, QueriesKept, TypeOK, CallsTypeOK
  <2> QED
    BY <2>1, <2>2, <2>4 DEF LineStep, Idles
<1>2. CASE Server \/ Loss
  <2>1. UNCHANGED <<ops, pending, executing, resp>> /\ Phase' = Phase
    BY <1>2 DEF Server, ServerRead, ServerProgress, ServerHeader, ServerBlock, ServerEnd, ServerFails, Loss,
                ServerUnchanged, Phase, Running, ioVars
  <2>2. LineKept
    BY <2>1 DEF LineKept, Waiting, Ahead, AheadOf, InOps, InPending
  <2> QED
    BY <2>1, <2>2 DEF LineStep, Idles, QueriesKept
<1> QED
  BY <1>1, <1>2, CallLine, OperationLine, ReadLine, TaskEndLine DEF Next, IoTask

-----------------------------------------------------------------------------
\* Two things happen to a query that waits, nothing else: it starts, or the task
\* ends.  No query is lost between the channel, the queue and the server.
THEOREM NeverForgotten == Spec => []NotForgotten
<1>1. ConnInit => NotForgotten
  BY DEF ConnInit, NotForgotten
<1>2. TypeOK /\ QueriesOnce /\ ClosedEmpty /\ NotForgotten /\ [Next]_vars => NotForgotten'
  <2>1. ASSUME NotForgotten, UNCHANGED vars PROVE NotForgotten'
    BY <2>1 DEF NotForgotten, Running, InOps, InPending, vars, ioVars
  <2>2. ASSUME TypeOK, NotForgotten, LineStep PROVE NotForgotten'
    <3>1. NotForgotten <=> (Running => \A r \in Req \ Pings : resp[r] = "open" => r \in Waiting)
      BY DEF NotForgotten, Waiting
    <3>2. NotForgotten' <=> (Running' => \A r \in Req \ Pings : resp'[r] = "open" => r \in Waiting')
      BY DEF NotForgotten, Waiting
    <3>3. DOMAIN resp = Req
      BY <2>2 DEF TypeOK, CallsTypeOK
    <3>4. CASE Idles
      <4>1. Running' => Running
        BY <3>4 DEF Idles, Phase, Running
      <4> QED
        BY <2>2, <3>1, <3>2, <3>4, <4>1 DEF Idles, LineKept, QueriesKept
    <3>5. CASE Joins
      <4>1. Running' => Running
        BY <3>5 DEF Joins, Running
      <4> QED
        BY <2>2, <3>1, <3>2, <3>3, <3>5, <4>1 DEF Joins
    <3>6. CASE Starts
      BY <2>2, <3>1, <3>2, <3>3, <3>6 DEF Starts, Sent, Service!Leave
    <3>7. CASE Ends
      BY <2>2, <3>1, <3>2, <3>7 DEF Ends, LineKept, QueriesKept
    <3>8. CASE Drops
      BY <3>2, <3>8 DEF Drops, OpsOpen
    <3> QED
      BY <2>2, <3>4, <3>5, <3>6, <3>7, <3>8 DEF LineStep
  <2> QED
    BY <2>1, <2>2, NextLine
<1> QED
  BY <1>1, <1>2, TypeCorrect, AlwaysOnce, AlwaysClosedEmpty, PTL DEF Spec

\* A step of the connection is a step of the service or changes nothing of it.
LEMMA LineRefines ==
  ASSUME TypeOK, QueriesOnce, LineStep
  PROVE  [Service!Next]_(Service!svars)
<1>0. DOMAIN resp = Req /\ executing \in Req \cup {NoReq}
  BY DEF TypeOK, CallsTypeOK, IoTypeOK
<1>1. QueriesKept => UNCHANGED Known
  BY DEF QueriesKept, Known
<1>2. CASE Idles
  <2>1. Running => Phase = "open"
    BY DEF Phase, Running
  <2>2. CASE Phase' = Phase
    BY <1>1, <1>2, <2>2 DEF Idles, LineKept, Service!svars
  <2>3. CASE Running /\ Phase' = "failing"
    <3>1. Service!Fail
      BY <1>1, <1>2, <2>1, <2>3 DEF Idles, LineKept, Service!Fail
    <3> QED
      BY <3>1 DEF Service!Next
  <2> QED
    BY <1>2, <2>2, <2>3 DEF Idles
<1>3. CASE Joins
  <2>1. PICK r \in Req \ Pings :
           /\ OpsOpen /\ resp[r] = "none" /\ resp' = [resp EXCEPT ![r] = "open"]
           /\ Waiting' = Waiting \cup {r} /\ Ahead' = Ahead \cup (Waiting \X {r})
           /\ UNCHANGED <<executing, io>>
    BY <1>3 DEF Joins
  <2>2. Phase # "closed" /\ Phase' = Phase
    BY <2>1 DEF Phase, OpsOpen, Running
  <2>3. r \notin Known /\ Known' = Known \cup {r}
    BY <1>0, <2>1 DEF Known
  <2>4. Service!Accept(r)
    BY <2>1, <2>2, <2>3 DEF Service!Accept
  <2> QED
    BY <2>4 DEF Service!Next
<1>4. CASE Starts
  <2>1. PICK r \in Req : Running /\ Service!First(r) /\ Service!Leave({r}) /\ Sent(r)
    BY <1>4 DEF Starts
  <2>2. Phase = "open" /\ r \in Waiting
    BY <2>1 DEF Phase, Running, Service!First
  <2>3. resp[r] = "open"
    BY <2>2 DEF Waiting, InPending, InOps, Message, QueriesOnce, WaitingOpen
  <2>4. UNCHANGED Known
    BY <1>0, <2>1, <2>3 DEF Known, Sent
  <2>5. CASE io' = "select" /\ executing' = r
    <3>1. Phase' = "open"
      BY <2>5 DEF Phase, Running
    <3>2. Service!Start(r) \/ Service!FinishStart(r)
      BY <2>1, <2>2, <2>4, <2>5, <3>1 DEF Service!Start, Service!FinishStart
    <3> QED
      BY <3>2 DEF Service!Next
  <2>6. CASE io' = "retErr" /\ executing' \in {NoReq, r}
    <3>1. Phase' = "failing"
      BY <2>6 DEF Phase, Running
    <3>2. Service!Fail
      BY <2>1, <2>2, <2>4, <2>6, <3>1 DEF Service!Fail
    <3> QED
      BY <3>2 DEF Service!Next
  <2> QED
    BY <2>1, <2>5, <2>6 DEF Sent
<1>5. CASE Ends
  <2>1. Phase = "open" /\ Phase' \in {"open", "failing"}
    BY <1>5 DEF Ends, Phase, Running
  <2>2. Service!Finish \/ Service!Fail
    BY <1>1, <1>5, <2>1 DEF Ends, LineKept, Service!Finish, Service!Fail
  <2> QED
    BY <2>2 DEF Service!Next
<1>6. CASE Drops
  <2>1. Phase' = "closed"
    BY <1>6 DEF Drops, Phase, OpsOpen, Running
  <2>2. Service!Close
    BY <1>1, <1>6, <2>1 DEF Drops, Service!Close
  <2> QED
    BY <2>2 DEF Service!Next
<1> QED
  BY <1>2, <1>3, <1>4, <1>5, <1>6 DEF LineStep

\* A connection is a first-come first-served service for one query at a time:
\* the channel, the pending queue and the executing query are one line.
THEOREM ServiceProvided == Spec => ServiceSpec
<1>1. ConnInit => Service!Init
  BY DEF ConnInit, Service!Init, Known, Waiting, Ahead, AheadOf, InPending, InOps, Precedes,
         Phase, Running
<1>2. TypeOK /\ QueriesOnce /\ ClosedEmpty /\ [Next]_vars => [Service!Next]_(Service!svars)
  <2>1. ASSUME UNCHANGED vars PROVE UNCHANGED (Service!svars)
    BY <2>1 DEF Service!svars, Known, Waiting, Ahead, AheadOf, InPending, InOps, Phase, Running,
                vars, ioVars
  <2> QED
    BY <2>1, NextLine, LineRefines
<1> QED
  BY <1>1, <1>2, TypeCorrect, AlwaysOnce, AlwaysClosedEmpty, PTL DEF Spec, ServiceSpec, Service!Spec


-----------------------------------------------------------------------------
(* The status of the connection.                                           *)

\* Without pings a status other than Open means that the task has returned.
OpenWhileOpen == status # "Open" => ~OpsOpen

LEMMA NextOpen ==
  ASSUME TypeOK, OpenWhileOpen, Pings = {}, Next
  PROVE  OpenWhileOpen'
<1> USE DEF UNCH_IO, ioVars, callVars, IoUnchanged, OpsOpen, Running, OpenWhileOpen
<1>1. CASE \E r \in Req : Call(r) \/ Abandon(r)
  BY <1>1 DEF Call, CheckChannel, CheckStatus, SendOperation, AwaitResponse, AwaitPong,
              AwaitHeader, AwaitInsert, PollStream, Abandon
<1>2. CASE ShutdownSend \/ ShutdownAbort \/ DropConnection
  BY <1>2 DEF ShutdownSend, ShutdownAbort, DropConnection
<1>3. CASE HandleOperation
  BY <1>3 DEF HandleOperation, HandlePing, HandleQuery, HandleInsert, HandleInsertFails,
              HandleShutdown, RecvOperation
<1>4. CASE ReadPart \/ ReceivePacket \/ SendCompletes \/ ReceivePing
  <2>1. io \in {"select", "sending", "pinging"} /\ UNCHANGED status
    BY <1>4, ReadSteps DEF ReadPart, ReceivePacket, ReceiveHeader, ReceiveProgress, ReceiveBlock,
       ReceiveException, ReceiveEndOfStream, ReceiveTorn, ReadFails, SendCompletes, ReceivePing
  <2> QED
    BY <2>1
<1>5. CASE TaskEnd
  BY <1>5 DEF TaskEnd, RunReturns, StoreStatus, DropInternal, Aborted
<1>6. CASE Server \/ Loss
  BY <1>6 DEF Server, ServerRead, ServerProgress, ServerHeader, ServerBlock, ServerEnd, ServerFails, Loss,
              ServerUnchanged
<1> QED
  BY <1>1, <1>2, <1>3, <1>4, <1>5, <1>6 DEF Next, IoTask

\* send_operation gives a connection up only when its task has returned.  (With a
\* ping it is not so: a ping that meets a busy connection is dropped, and
\* check_connection takes that for a closed one.)
THEOREM ClosedIsDead ==
  ASSUME Pings = {}
  PROVE  Spec => []ClosedMeansDead
<1>1. ConnInit => OpenWhileOpen
  BY DEF ConnInit, OpenWhileOpen
<1>2. TypeOK /\ OpenWhileOpen /\ [Next]_vars => OpenWhileOpen'
  <2>1. ASSUME OpenWhileOpen, UNCHANGED vars PROVE OpenWhileOpen'
    BY <2>1 DEF OpenWhileOpen, OpsOpen, Running, vars, ioVars
  <2> QED
    BY <2>1, NextOpen
<1>3. OpenWhileOpen => ClosedMeansDead
  BY DEF OpenWhileOpen, ClosedMeansDead
<1> QED
  BY <1>1, <1>2, <1>3, TypeCorrect, PTL DEF Spec
=============================================================================
