---------------------------- MODULE QueryService ----------------------------
(***************************************************************************)
(* What one connection promises its callers, without channels, sockets or  *)
(* futures: a first-come first-served service for one query at a time.     *)
(* A query is accepted once, runs after every query accepted before it,    *)
(* and is never run twice.  Once the service fails no other query starts.  *)
(***************************************************************************)
CONSTANTS Req, NoReq

VARIABLES
    known,     \* the queries that were ever accepted
    waiting,   \* those of them that have neither been started nor given up
    before,    \* <<q, r>>: q and r wait, and q was accepted before r
    running,   \* the query the server works on, or NoReq
    phase      \* "open", "failing" (no query starts) or "closed"

svars == <<known, waiting, before, running, phase>>

Init == /\ known = {} /\ waiting = {} /\ before = {}
        /\ running = NoReq /\ phase = "open"

Accept(r) == /\ phase # "closed" /\ r \notin known
             /\ known' = known \cup {r}
             /\ waiting' = waiting \cup {r}
             /\ before' = before \cup (waiting \X {r})
             /\ UNCHANGED <<running, phase>>

\* The queries of R wait no longer.
Leave(R) == /\ waiting' = waiting \ R
            /\ before' = before \ ((R \X Req) \cup (Req \X R))

\* Of those that wait, r was accepted first.
First(r) == r \in waiting /\ \A q \in waiting \ {r} : <<r, q>> \in before

Start(r) == /\ phase = "open" /\ running = NoReq
            /\ First(r) /\ Leave({r}) /\ running' = r
            /\ UNCHANGED <<known, phase>>

Finish == /\ phase = "open" /\ running # NoReq
          /\ running' = NoReq
          /\ UNCHANGED <<known, waiting, before, phase>>

\* The end of one query starts the next one in the same step.
FinishStart(r) == /\ phase = "open" /\ running # NoReq
                  /\ First(r) /\ Leave({r}) /\ running' = r
                  /\ UNCHANGED <<known, phase>>

\* The service fails, perhaps while it starts the next query.
Fail == /\ phase = "open" /\ phase' = "failing"
        /\ \/ running' \in {running, NoReq} /\ UNCHANGED <<waiting, before>>
           \/ \E r \in waiting : First(r) /\ Leave({r}) /\ running' \in {NoReq, r}
        /\ UNCHANGED known

\* Queries are given up, and never one without those accepted after it.
Close == /\ phase' = "closed"
         /\ running' \in {running, NoReq}
         /\ \E R \in SUBSET waiting :
               /\ \A q \in R, r \in waiting \ R : <<r, q>> \in before
               /\ Leave(R)
         /\ UNCHANGED known

Next == \/ \E r \in Req : Accept(r) \/ Start(r) \/ FinishStart(r)
        \/ Finish \/ Fail \/ Close

Spec == Init /\ [][Next]_svars
=============================================================================
