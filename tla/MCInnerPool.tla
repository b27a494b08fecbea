---------------------------- MODULE MCInnerPool ----------------------------
(* Instances of InnerPool: which calls are made, and with which query ids. *)
EXTENDS InnerPool

\* Calls "i1" and "i2" have keys that fall on the same connection.
MCKey == [r \in Calls |-> CASE r = "m1" -> 3 [] OTHER -> 2]

KindOf == [q1 |-> "query", q2 |-> "query", i1 |-> "insert", i2 |-> "insert",
           m1 |-> "insert_many", ir |-> "insert_rows", qr |-> "query_rows",
           h1 |-> "health_check"]

MCKind == [r \in Calls |-> KindOf[r]]
=============================================================================
