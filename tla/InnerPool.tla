----------------------------- MODULE InnerPool -----------------------------
(***************************************************************************)
(* The connections inside one Client (feature inner_pool, on by default)   *)
(* and the load balancer that chooses among them: connection.rs, with the  *)
(* weights of internal.rs and the calls of client.rs that use them.        *)
(*                                                                         *)
(* AtomicLoad packs one lane of 8 bits per connection into one usize.  A   *)
(* call reads the counter, picks a connection, adds its weight to the lane *)
(* (three steps: other calls run in between), sends, and subtracts a       *)
(* weight when it is done.  A connection is only up or down here: module   *)
(* Connection is about what happens inside one.                            *)
(***************************************************************************)
EXTENDS Integers, FiniteSets

CONSTANTS
    Calls,        \* the calls made on the client
    Kind,         \* Kind[r]: the client.rs method
    Key,          \* Key[r]: qid.key(), the sum of the bytes of the query id
    MaxConns,     \* max_connections of AtomicLoad, 2 in the code
    FastModeSize, \* options.ext.fast_mode_size, 0 for None
    LaneSize,     \* 2^8 in the code
    Lanes,        \* lanes of a usize, 8 in the code
    MayBreak      \* connections may break and calls be given up

Kinds == {"query", "query_rows", "insert", "insert_many", "insert_rows", "health_check"}
Inserts == {"insert", "insert_many", "insert_rows"}

ASSUME CallsAssumption == Kind \in [Calls -> Kinds] /\ Key \in [Calls -> Nat]
ASSUME PoolAssumption == /\ MaxConns \in 1..4 /\ FastModeSize \in 0..255
                         /\ Lanes \in Nat /\ Lanes >= MaxConns
                         /\ LaneSize \in Nat \ {0} /\ MayBreak \in BOOLEAN
\* What the provers do not know of `^`: units of lanes are products, inside the word.
ASSUME UnitAssumption == /\ LaneSize ^ 0 = 1
                         /\ \A i \in 0..(Lanes - 1) : LaneSize ^ (i + 1) = LaneSize * LaneSize ^ i
                         /\ \A i \in 0..Lanes : LaneSize ^ i \in 1..(LaneSize ^ Lanes)

VARIABLES
    pool,     \* "connecting", "ready", or "failed": Connection::connect
    opened,   \* connections established
    up,       \* those whose io task runs (their status is Open)
    load,     \* AtomicLoad.load_counter
    pc,       \* where each call is
    idx,      \* conn_idx of each call's first operation
    dest      \* index of the operation being sent

vars == <<pool, opened, up, load, pc, idx, dest>>

Conns == 0..(MaxConns - 1)
Word == LaneSize ^ Lanes
Lane(i) == (load \div LaneSize ^ i) % LaneSize

Clamp(n, lo, hi) == IF n < lo THEN lo ELSE IF n > hi THEN hi ELSE n

\* The loop of connect runs this often after the first connection: connection.rs:158
\* speaks of two connections and options.rs:178 of four at most, and the code opens
\* three by default and five at most.
Extra == IF FastModeSize = 0 THEN 2 ELSE Clamp(FastModeSize, 2, 4)

-----------------------------------------------------------------------------
(* Weights.                                                                *)

\* Operation::weight of the query operation (finished is FALSE for inserts).
WeightQueryOp(r) == CASE Kind[r] = "health_check" -> 0
                      [] Kind[r] \in Inserts      -> 3
                      [] OTHER                    -> 1

\* Operation::weight of the insert operation.
WeightInsertOp(r) == IF Kind[r] = "insert_many" THEN 3 ELSE 2

\* The weight each method gives back: weight_query, weight_insert, weight_insert_many.
WeightFinish(r) == CASE Kind[r] \in {"query", "insert_rows"}      -> 1
                     [] Kind[r] = "insert"                        -> 5
                     [] Kind[r] \in {"insert_many", "query_rows"} -> 6
                     [] OTHER                                     -> 0

FetchAdd(w, i) == load' = (load + w * LaneSize ^ i) % Word

\* Mutant: only the lane of the connection is changed.
FetchSubLane(w, i) ==
    load' = load + (((Lane(i) - w) % LaneSize) - Lane(i)) * LaneSize ^ i

FetchSub(w, i) == load' = (load - w * LaneSize ^ i) % Word

-----------------------------------------------------------------------------
Init ==
    /\ pool = "connecting" /\ opened = 0 /\ up = {}
    /\ load = 0
    /\ pc = [r \in Calls |-> "start"]
    /\ idx = [r \in Calls |-> 0] /\ dest = [r \in Calls |-> 0]

Goto(r, l) == pc' = [pc EXCEPT ![r] = l]

\* Mutant: without a fast_mode_size nothing is opened after the first connection.
ConnectInnerNone ==
    /\ pool = "connecting"
    /\ opened' = opened + 1 /\ up' = up \cup {opened}
    /\ pool' = IF opened = FastModeSize THEN "ready" ELSE pool
    /\ UNCHANGED <<load, pc, idx, dest>>

\* connect_inner, once and then Extra times; `?` gives everything up.
ConnectInner ==
    /\ pool = "connecting"
    /\ opened' = opened + 1 /\ up' = up \cup {opened}
    /\ pool' = IF opened = Extra THEN "ready" ELSE pool
    /\ UNCHANGED <<load, pc, idx, dest>>

ConnectFails ==
    /\ pool = "connecting" /\ MayBreak
    /\ pool' = "failed" /\ up' = {}
    /\ UNCHANGED <<opened, load, pc, idx, dest>>

\* The io task of connection i ends.
Break(i) ==
    /\ MayBreak /\ pool = "ready"
    /\ up' = up \ {i}
    /\ UNCHANGED <<pool, opened, load, pc, idx, dest>>

\* A call begins; health_check looks at the channel of connection 0 first.
Start(r) ==
    /\ pool = "ready" /\ pc[r] = "start"
    /\ Goto(r, IF Kind[r] = "health_check" /\ 0 \notin up THEN "failed" ELSE "assign")
    /\ UNCHANGED <<pool, opened, up, load, idx, dest>>

\* The first connection with the smallest lane.
LeastLoaded ==
    CHOOSE i \in Conns : /\ \A j \in Conns : Lane(i) <= Lane(j)
                         /\ \A j \in Conns : Lane(j) = Lane(i) => i <= j

\* AtomicLoad::assign for the query operation (or the ping), up to the choice:
\* by key for inserts, by load otherwise.
Assign(r) ==
    /\ pc[r] = "assign"
    /\ dest' = [dest EXCEPT ![r] = IF Kind[r] \in Inserts THEN Key[r] % MaxConns ELSE LeastLoaded]
    /\ Goto(r, IF WeightQueryOp(r) = 0 THEN "send" ELSE "add")
    /\ UNCHANGED <<pool, opened, up, load, idx>>

\* ... and the increment.
AddLoad(r) ==
    /\ pc[r] = "add"
    /\ FetchAdd(WeightQueryOp(r), dest[r])
    /\ Goto(r, "send")
    /\ UNCHANGED <<pool, opened, up, idx, dest>>

\* send_operation reads the status of the connection and sends.
Send(r) ==
    /\ pc[r] = "send" /\ dest[r] \in up
    /\ idx' = [idx EXCEPT ![r] = dest[r]]
    /\ Goto(r, "wait")
    /\ UNCHANGED <<pool, opened, up, load, dest>>

\* The answer: Pong ends a health check, the response of a query leads to its
\* data or to finish.
Answer(r) ==
    /\ pc[r] = "wait" /\ dest[r] \in up
    /\ Goto(r, CASE Kind[r] = "health_check" -> "done"
                 [] Kind[r] \in Inserts      -> "iassign"
                 [] OTHER                    -> "finish")
    /\ UNCHANGED <<pool, opened, up, load, idx, dest>>

\* Mutant: the data goes to the least loaded connection.
AssignInsertByLoad(r) ==
    /\ pc[r] = "iassign"
    /\ dest' = [dest EXCEPT ![r] = LeastLoaded]
    /\ FetchAdd(WeightInsertOp(r), LeastLoaded)
    /\ Goto(r, "isend")
    /\ UNCHANGED <<pool, opened, up, idx>>

\* AtomicLoad::assign for Insert and InsertMany: by key, no load is read.
AssignInsert(r) ==
    /\ pc[r] = "iassign"
    /\ dest' = [dest EXCEPT ![r] = Key[r] % MaxConns]
    /\ FetchAdd(WeightInsertOp(r), Key[r] % MaxConns)
    /\ Goto(r, "isend")
    /\ UNCHANGED <<pool, opened, up, idx>>

SendInsert(r) ==
    /\ pc[r] = "isend" /\ dest[r] \in up
    /\ Goto(r, "finish")
    /\ UNCHANGED <<pool, opened, up, load, idx, dest>>

\* connection.finish(conn_idx, ..)
Finish(r) ==
    /\ pc[r] = "finish"
    /\ FetchSub(WeightFinish(r), idx[r])
    /\ Goto(r, "done")
    /\ UNCHANGED <<pool, opened, up, idx, dest>>

\* A call that ends early leaves behind what it has taken: the weight of its
\* query, and also that of its data once that was assigned.
LeaveEarly(r) == Goto(r, IF pc[r] = "isend" THEN "ifailed" ELSE "failed")

\* The connection is down: every `?` leaves the method, and finish with it.
Fail(r) ==
    /\ pc[r] \in {"send", "wait", "isend"}
    /\ dest[r] \notin up
    /\ LeaveEarly(r)
    /\ UNCHANGED <<pool, opened, up, load, idx, dest>>

\* The caller drops the future at an await point.
GiveUp(r) ==
    /\ MayBreak /\ pc[r] \in {"send", "wait", "isend"}
    /\ LeaveEarly(r)
    /\ UNCHANGED <<pool, opened, up, load, idx, dest>>

Call(r) == \/ Start(r) \/ Assign(r) \/ AddLoad(r) \/ Send(r) \/ Answer(r)
           \/ AssignInsert(r) \/ SendInsert(r) \/ Finish(r) \/ Fail(r)

Next == \/ ConnectInner \/ ConnectFails
        \/ \E i \in up : Break(i)
        \/ \E r \in Calls : Call(r) \/ GiveUp(r)

Spec == Init /\ [][Next]_vars

-----------------------------------------------------------------------------
(* Properties.                                                             *)

\* Every variable has its type, and every operation is addressed to a lane.
TypeOK ==
    /\ pool \in {"connecting", "ready", "failed"}
    /\ opened \in Nat /\ up \subseteq 0..(opened - 1)
    /\ load \in 0..(Word - 1)
    /\ pc \in [Calls -> {"start", "assign", "add", "send", "wait", "iassign", "isend",
                         "finish", "done", "failed", "ifailed"}]
    /\ idx \in [Calls -> Conns] /\ dest \in [Calls -> Conns]

\* The lanes and the connections are counted in two places, AtomicLoad::new(2) and the
\* loop of connect, and nothing but their numbers ties them together: every index that
\* send_operation, update_status and check_channel look up in `state` is that of a
\* connection that was opened (`self.state[idx]` panics otherwise).
IndexInBounds ==
    \A r \in Calls : pc[r] # "start" => {0, idx[r], dest[r]} \subseteq 0..(opened - 1)

\* The data of an insert reaches the connection its query was sent on: the
\* server would otherwise see data without a query, and the query no data.
InsertFollowsQuery ==
    \A r \in Calls : pc[r] \in {"isend", "finish"} => dest[r] = idx[r]

\* The inductive form: an operation that is addressed by key stays with its key,
\* and from its send on a call's index is the one of its latest operation.
Pinned ==
    \A r \in Calls :
        /\ Kind[r] \in Inserts /\ pc[r] \in {"add", "send", "wait", "iassign", "isend"}
           => dest[r] = Key[r] % MaxConns
        /\ pc[r] \in {"wait", "iassign", "isend", "finish"} => idx[r] = dest[r]
        /\ pc[r] \in {"iassign", "isend"} => Kind[r] \in Inserts

\* The weight a call has taken and not given back.
Taken(r) ==
    CASE pc[r] \in {"send", "wait", "iassign", "failed"} -> WeightQueryOp(r)
      [] pc[r] \in {"isend", "finish", "ifailed"} ->
             WeightQueryOp(r) + (IF Kind[r] \in Inserts THEN WeightInsertOp(r) ELSE 0)
      [] OTHER -> 0

\* The units of load on a connection, each with the call that took it (at most six).
Held(i) == {u \in Calls \X (1..6) : dest[u[1]] = i /\ u[2] <= Taken(u[1])}

LoadOn(i) == Cardinality(Held(i))

\* The balancer sees the truth: each lane is the weight of what is under way on its
\* connection and of what calls that failed or were dropped have left there for
\* good, whenever that weight fits into the lanes.  A lane that has overflowed into
\* the next one is right again once the load is back.
LoadExact ==
    (\A i \in Conns : LoadOn(i) < LaneSize) => \A i \in Conns : Lane(i) = LoadOn(i)
=============================================================================
