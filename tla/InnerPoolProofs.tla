-------------------------- MODULE InnerPoolProofs --------------------------
(***************************************************************************)
(* The inner pool for any number of calls, keys, lanes and failures:       *)
(* InsertAlwaysFollows (the data of an insert is never separated from its  *)
(* query), AlwaysInBounds (no index misses the connections that were       *)
(* opened) and AlwaysExact (the lanes are the load, whatever interleaves   *)
(* between the read of the counter and the addition).  AlwaysExact needs   *)
(* that LoadSum is invariant, the counter being the sum of all units       *)
(* modulo the word, and then reads its digits.                             *)
(***************************************************************************)
EXTENDS InnerPool, FiniteSetTheorems, TLAPS

\* The variables that belong to calls are functions on Calls; which values they
\* take does not matter here.
Fields == /\ pc = [r \in Calls |-> pc[r]]
          /\ idx = [r \in Calls |-> idx[r]]
          /\ dest = [r \in Calls |-> dest[r]]

PinnedInv == Fields /\ Pinned

\* No call has begun: connect (connection.rs) has not returned yet.
LEMMA PinnedInit == Init => PinnedInv
  BY DEF Init, PinnedInv, Fields, Pinned

\* A step of one call moves only that call, and an insert takes both its indices
\* from its key (AtomicLoad::assign with Some(key)).
LEMMA PinnedCall ==
    ASSUME PinnedInv, NEW r \in Calls, Call(r) \/ GiveUp(r)
    PROVE  PinnedInv'
<1> USE DEF PinnedInv, Fields, Pinned, Goto
<1>1. CASE Start(r)
  BY <1>1 DEF Start
<1>2. CASE Assign(r)
  BY <1>2 DEF Assign
<1>3. CASE AddLoad(r)
  BY <1>3 DEF AddLoad
<1>4. CASE Send(r)
  BY <1>4 DEF Send
<1>5. CASE Answer(r)
  BY <1>5 DEF Answer, Inserts
<1>6. CASE AssignInsert(r)
  BY <1>6 DEF AssignInsert
<1>7. CASE SendInsert(r)
  BY <1>7 DEF SendInsert
<1>8. CASE Finish(r)
  BY <1>8 DEF Finish
<1>9. CASE Fail(r)
  BY <1>9 DEF Fail, LeaveEarly
<1>10. CASE GiveUp(r)
  BY <1>10 DEF GiveUp, LeaveEarly
<1> QED
  BY <1>1, <1>2, <1>3, <1>4, <1>5, <1>6, <1>7, <1>8, <1>9, <1>10 DEF Call

\* Connections that open or break do not move any call.
LEMMA PinnedNext == PinnedInv /\ [Next]_vars => PinnedInv'
<1> SUFFICES ASSUME PinnedInv, [Next]_vars PROVE PinnedInv'
  OBVIOUS
<1>1. CASE ConnectInner \/ ConnectFails \/ UNCHANGED vars
  BY <1>1 DEF ConnectInner, ConnectFails, vars, PinnedInv, Fields, Pinned
<1>2. ASSUME NEW i \in up, Break(i) PROVE PinnedInv'
  BY <1>2 DEF Break, PinnedInv, Fields, Pinned
<1>3. ASSUME NEW r \in Calls, Call(r) \/ GiveUp(r) PROVE PinnedInv'
  BY <1>3, PinnedCall
<1> QED
  BY <1>1, <1>2, <1>3 DEF Next

\* The data of every insert goes to the connection its query was sent on: the
\* two calls of send_operation in Client::insert choose the same index.
THEOREM InsertAlwaysFollows == Spec => []InsertFollowsQuery
<1>1. PinnedInv => InsertFollowsQuery
  BY DEF PinnedInv, Pinned, InsertFollowsQuery
<1> QED
  BY PinnedInit, PinnedNext, <1>1, PTL DEF Spec

-----------------------------------------------------------------------------
(* Types and bounds: the counter stays a word, and every operation is      *)
(* addressed to a connection that connect (connection.rs) has opened.      *)

LEMMA ModRange ==
    ASSUME NEW a \in Int, NEW b \in Nat \ {0}
    PROVE  a % b \in 0..(b - 1)
  OBVIOUS

\* The lanes are inside the word.
LEMMA Units == /\ Word \in Nat \ {0}
               /\ \A i \in Conns : i \in 0..Lanes /\ LaneSize ^ i \in Nat \ {0}
<1>1. Lanes \in 0..Lanes
  BY PoolAssumption
<1>2. Word \in Nat \ {0}
  BY <1>1, UnitAssumption DEF Word
<1>3. \A i \in Conns : i \in 0..Lanes
  BY PoolAssumption DEF Conns
<1> QED
  BY <1>2, <1>3, UnitAssumption

\* connect opens three to five connections, at least as many as there are lanes.
LEMMA ExtraRange == Extra \in 2..4
  BY PoolAssumption DEF Extra, Clamp

\* AtomicLoad::assign finds a connection whatever the counter is: the first of the
\* smallest lanes exists, as there are at most four.
LEMMA LeastLoadedExists ==
    ASSUME \A i \in Conns : Lane(i) \in Int
    PROVE  LeastLoaded \in Conns
<1>1. ASSUME NEW S, NEW f, \A i \in S : f[i] \in Int, S \in {0..0, 0..1, 0..2, 0..3}
      PROVE  \E i \in S : /\ \A j \in S : f[i] <= f[j]
                          /\ \A j \in S : f[j] = f[i] => i <= j
  BY <1>1
<1> DEFINE f == [i \in Conns |-> Lane(i)]
<1>2. Conns \in {0..0, 0..1, 0..2, 0..3}
  BY PoolAssumption DEF Conns
<1>3. \A i \in Conns : f[i] = Lane(i)
  OBVIOUS
<1>4. \E i \in Conns : /\ \A j \in Conns : f[i] <= f[j]
                       /\ \A j \in Conns : f[j] = f[i] => i <= j
  <2> HIDE DEF f
  <2> QED
    BY <1>1, <1>2, <1>3
<1>5. \E i \in Conns : /\ \A j \in Conns : Lane(i) <= Lane(j)
                       /\ \A j \in Conns : Lane(j) = Lane(i) => i <= j
  <2> HIDE DEF f
  <2> QED
    BY <1>3, <1>4
<1> QED
  BY <1>5 DEF LeastLoaded

\* What connect has opened so far and in the end; no call begins before.
Opening == /\ pool = "connecting" => opened <= Extra
           /\ pool = "ready" => opened = Extra + 1
           /\ \A r \in Calls : pc[r] # "start" => pool = "ready"

TypeInv == TypeOK /\ Opening

LEMMA TypeInit == Init => TypeInv
<1> SUFFICES ASSUME Init PROVE TypeInv
  OBVIOUS
<1> USE DEF Init
<1>1. 0 \in Conns
  BY PoolAssumption DEF Conns
<1>2. 0 \in 0..(Word - 1)
  BY Units
<1>3. 0 <= Extra
  BY ExtraRange
<1> QED
  BY <1>1, <1>2, <1>3 DEF TypeInv, TypeOK, Opening

\* Neither fetch_add nor fetch_sub leaves the word: both wrap around.
LEMMA LoadStaysWord ==
    ASSUME TypeOK, NEW i \in Conns, NEW w \in Nat, FetchAdd(w, i) \/ FetchSub(w, i)
    PROVE  load' \in 0..(Word - 1)
<1> DEFINE u == LaneSize ^ i
<1>1. u \in Nat
  BY Units
<1>2. load \in Int
  BY Units DEF TypeOK
<1>3. load' = (load + w * u) % Word \/ load' = (load - w * u) % Word
  BY DEF FetchAdd, FetchSub
<1> HIDE DEF u
<1>4. w * u \in Int
  BY <1>1
<1>5. load + w * u \in Int /\ load - w * u \in Int
  BY <1>2, <1>4
<1> QED
  BY <1>3, <1>5, Units, ModRange

LEMMA WeightsAreNat ==
    ASSUME NEW r \in Calls
    PROVE  WeightQueryOp(r) \in Nat /\ WeightInsertOp(r) \in Nat /\ WeightFinish(r) \in Nat
  BY DEF WeightQueryOp, WeightInsertOp, WeightFinish

\* Both ways to choose a connection choose one that has a lane.
LEMMA ChosenHasLane ==
    ASSUME TypeOK, NEW r \in Calls
    PROVE  Key[r] % MaxConns \in Conns /\ LeastLoaded \in Conns
<1>1. Key[r] \in Int /\ MaxConns \in Nat \ {0}
  BY CallsAssumption, PoolAssumption
<1>2. Key[r] % MaxConns \in Conns
  BY <1>1, ModRange DEF Conns
<1>3. \A i \in Conns : Lane(i) \in Int
  <2> SUFFICES ASSUME NEW i \in Conns PROVE Lane(i) \in Int
    OBVIOUS
  <2> DEFINE u == LaneSize ^ i
  <2>1. u \in Nat \ {0} /\ load \in Int /\ LaneSize \in Nat \ {0}
    BY Units, PoolAssumption DEF TypeOK
  <2>2. Lane(i) = (load \div u) % LaneSize
    BY DEF Lane
  <2> HIDE DEF u
  <2>3. load \div u \in Int
    BY <2>1
  <2> QED
    BY <2>1, <2>2, <2>3, ModRange
<1> QED
  BY <1>2, <1>3, LeastLoadedExists

\* No step of a call, early ends included, leaves the types.
LEMMA TypeCall ==
    ASSUME TypeInv, NEW r \in Calls, Call(r) \/ GiveUp(r)
    PROVE  TypeInv'
<1> USE DEF TypeInv, TypeOK, Opening, Goto
<1>1. CASE Start(r)
  BY <1>1 DEF Start
<1>2. CASE Assign(r)
  BY <1>2, ChosenHasLane DEF Assign
<1>3. CASE AddLoad(r)
  <2>1. load' \in 0..(Word - 1)
    BY <1>3, LoadStaysWord, WeightsAreNat DEF AddLoad
  <2> QED
    BY <1>3, <2>1 DEF AddLoad
<1>4. CASE Send(r)
  BY <1>4 DEF Send
<1>5. CASE Answer(r)
  BY <1>5 DEF Answer
<1>6. CASE AssignInsert(r)
  <2>1. load' \in 0..(Word - 1)
    BY <1>6, LoadStaysWord, WeightsAreNat, ChosenHasLane DEF AssignInsert
  <2> QED
    BY <1>6, <2>1, ChosenHasLane DEF AssignInsert
<1>7. CASE SendInsert(r)
  BY <1>7 DEF SendInsert
<1>8. CASE Finish(r)
  <2>1. load' \in 0..(Word - 1)
    BY <1>8, LoadStaysWord, WeightsAreNat DEF Finish
  <2> QED
    BY <1>8, <2>1 DEF Finish
<1>9. CASE Fail(r)
  BY <1>9 DEF Fail, LeaveEarly
<1>10. CASE GiveUp(r)
  BY <1>10 DEF GiveUp, LeaveEarly
<1> QED
  BY <1>1, <1>2, <1>3, <1>4, <1>5, <1>6, <1>7, <1>8, <1>9, <1>10 DEF Call

LEMMA TypeNext == TypeInv /\ [Next]_vars => TypeInv'
<1> SUFFICES ASSUME TypeInv, [Next]_vars PROVE TypeInv'
  OBVIOUS
<1> USE DEF TypeInv, TypeOK, Opening
<1>1. CASE ConnectInner
  BY <1>1, ExtraRange DEF ConnectInner
<1>2. CASE ConnectFails
  BY <1>2 DEF ConnectFails
<1>3. ASSUME NEW i \in up, Break(i) PROVE TypeInv'
  BY <1>3 DEF Break
<1>4. ASSUME NEW r \in Calls, Call(r) \/ GiveUp(r) PROVE TypeInv'
  BY <1>4, TypeCall
<1>5. CASE UNCHANGED vars
  BY <1>5 DEF vars
<1> QED
  BY <1>1, <1>2, <1>3, <1>4, <1>5 DEF Next

\* No lookup of a connection by index ever misses (send_operation, update_status and
\* check_channel would panic), for any calls and keys, as long as AtomicLoad is made
\* for no more lanes than connect opens connections: two and at least three in the
\* code, while four lanes, which its note allows, need a fast_mode_size above two.
THEOREM AlwaysInBounds == ASSUME MaxConns <= Extra + 1 PROVE Spec => []IndexInBounds
<1>1. TypeInv => IndexInBounds
  <2> SUFFICES ASSUME TypeInv, NEW r \in Calls, pc[r] # "start"
               PROVE  {0, idx[r], dest[r]} \subseteq 0..(opened - 1)
    BY DEF IndexInBounds
  <2>1. opened = Extra + 1
    BY DEF TypeInv, Opening
  <2>2. 0 \in Conns /\ idx[r] \in Conns /\ dest[r] \in Conns
    BY PoolAssumption DEF TypeInv, TypeOK, Conns
  <2>3. Conns \subseteq 0..(opened - 1)
    BY <2>1, ExtraRange, PoolAssumption DEF Conns
  <2> QED
    BY <2>2, <2>3
<1> QED
  BY TypeInit, TypeNext, <1>1, PTL DEF Spec

-----------------------------------------------------------------------------
(* Load: the counter is the sum of what each lane should hold, modulo the  *)
(* word, in flight and after any failure.                                  *)

\* The weight of call r on connection j, and the units there that others hold.
Share(r, j) == IF dest[r] = j THEN Taken(r) ELSE 0
Others(r, j) == {u \in Held(j) : u[1] # r}

LEMMA TakenRange ==
    ASSUME NEW r \in Calls
    PROVE  Taken(r) \in 0..6
<1>1. WeightQueryOp(r) \in 0..3 /\ WeightInsertOp(r) \in 0..3
  BY DEF WeightQueryOp, WeightInsertOp
<1> QED
  BY <1>1 DEF Taken

\* n units of one call are n elements.
LEMMA OwnUnits ==
    ASSUME NEW r, NEW n \in Nat
    PROVE  IsFiniteSet({r} \X (1..n)) /\ Cardinality({r} \X (1..n)) = n
<1>1. IsFiniteSet({r}) /\ Cardinality({r}) = 1
  BY FS_Singleton
<1>2. IsFiniteSet(1..n) /\ Cardinality(1..n) = IF 1 > n THEN 0 ELSE n - 1 + 1
  <2>1. 1 \in Int /\ n \in Int
    OBVIOUS
  <2> QED
    BY <2>1, FS_Interval, Zenon
<1>3. Cardinality(1..n) = n
  <2> HIDE <1>1
  <2> QED
    BY <1>2
<1>4. /\ IsFiniteSet({r} \X (1..n))
      /\ Cardinality({r} \X (1..n)) = Cardinality({r}) * Cardinality(1..n)
  BY <1>1, <1>2, FS_Product, Zenon
<1> QED
  BY <1>1, <1>3, <1>4

\* What a connection should hold is what one call has there and what the others have.
Splits(r, j) == /\ Share(r, j) \in 0..6
                /\ Held(j) = Others(r, j) \cup ({r} \X (1..Share(r, j)))
                /\ Others(r, j) \cap ({r} \X (1..Share(r, j))) = {}

LEMMA HeldSplits == ASSUME NEW r \in Calls, NEW j PROVE Splits(r, j)
<1> DEFINE own == {r} \X (1..Share(r, j))
<1>1. Share(r, j) \in 0..6
  BY TakenRange DEF Share
<1>2. Held(j) = Others(r, j) \cup own
  <2>1. ASSUME NEW u \in Held(j), u[1] = r PROVE u \in own
    BY <2>1, <1>1 DEF Held, Share
  <2>2. ASSUME NEW u \in own PROVE u \in Held(j)
    <3>1. u = <<r, u[2]>> /\ u[2] \in 1..Share(r, j)
      OBVIOUS
    <3>2. dest[r] = j /\ u[2] \in 1..6 /\ u[2] <= Taken(r)
      BY <3>1, <1>1, TakenRange DEF Share
    <3> QED
      BY <3>1, <3>2 DEF Held
  <2> QED
    BY <2>1, <2>2 DEF Others
<1>3. Others(r, j) \cap own = {}
  BY DEF Others
<1> QED
  BY <1>1, <1>2, <1>3 DEF Splits

LEMMA HeldSplitsNext == ASSUME NEW r \in Calls, NEW j PROVE Splits(r, j)'
<1>1. Splits(r, j)
  BY HeldSplits
<1> QED
  BY <1>1, PTL

\* The units of one call are counted beside those of the others.
LEMMA UnitsAdd ==
    ASSUME NEW r, NEW n \in Nat, NEW O, IsFiniteSet(O), O \cap ({r} \X (1..n)) = {}
    PROVE  /\ IsFiniteSet(O \cup ({r} \X (1..n)))
           /\ Cardinality(O \cup ({r} \X (1..n))) = Cardinality(O) + n
<1> DEFINE own == {r} \X (1..n)
<1>1. IsFiniteSet(own) /\ Cardinality(own) = n
  BY OwnUnits
<1>2. Cardinality(O \cap own) = 0
  <2>1. O \cap own = {} /\ Cardinality({}) = 0
    BY FS_EmptySet
  <2> QED
    BY <2>1, Zenon
<1> HIDE DEF own
<1>3. /\ IsFiniteSet(O \cup own)
      /\ Cardinality(O \cup own) = Cardinality(O) + Cardinality(own) - Cardinality(O \cap own)
  BY <1>1, FS_Union, Zenon
<1>4. Cardinality(O) \in Nat
  BY FS_CardinalityType
<1>5. Cardinality(O \cup own) = Cardinality(O) + n
  BY <1>1, <1>2, <1>3, <1>4
<1> QED
  BY <1>3, <1>5 DEF own

AllFinite == \A j : IsFiniteSet(Held(j))

\* A step of call r changes the load by what the call takes or gives back.
LEMMA LoadMoves ==
    ASSUME NEW r \in Calls, AllFinite,
           \A q \in Calls \ {r} : pc'[q] = pc[q] /\ dest'[q] = dest[q]
    PROVE  /\ AllFinite'
           /\ \A j : /\ LoadOn(j) \in Nat /\ LoadOn(j)' \in Nat
                     /\ LoadOn(j)' = LoadOn(j) - Share(r, j) + Share(r, j)'
<1>1. \A q \in Calls \ {r} : Taken(q)' = Taken(q)
  BY DEF Taken, WeightQueryOp, WeightInsertOp
<1> SUFFICES ASSUME NEW j
             PROVE  /\ IsFiniteSet(Held(j)')
                    /\ LoadOn(j) \in Nat /\ LoadOn(j)' \in Nat
                    /\ LoadOn(j)' = LoadOn(j) - Share(r, j) + Share(r, j)'
  BY DEF AllFinite
<1>2. Others(r, j)' = Others(r, j)
  BY <1>1 DEF Others, Held
<1>3. IsFiniteSet(Held(j)) /\ Others(r, j) \in SUBSET Held(j)
  BY DEF AllFinite, Others
<1>4. IsFiniteSet(Others(r, j)) /\ Cardinality(Others(r, j)) \in Nat
  BY <1>3, FS_Subset, FS_CardinalityType
<1>5. Splits(r, j) /\ Splits(r, j)'
  BY HeldSplits, HeldSplitsNext
<1>6. Share(r, j) \in Nat /\ Share(r, j)' \in Nat
  BY <1>5 DEF Splits
<1>7. ASSUME NEW n \in Nat, Others(r, j) \cap ({r} \X (1..n)) = {}
      PROVE  /\ IsFiniteSet(Others(r, j) \cup ({r} \X (1..n)))
             /\ Cardinality(Others(r, j) \cup ({r} \X (1..n))) = Cardinality(Others(r, j)) + n
  BY <1>4, <1>7, UnitsAdd
<1>8. LoadOn(j) = Cardinality(Others(r, j)) + Share(r, j)
  <2>1. Cardinality(Held(j)) = Cardinality(Others(r, j)) + Share(r, j)
    BY <1>5, <1>6, <1>7, Zenon DEF Splits
  <2> QED
    BY <2>1 DEF LoadOn
<1>9. /\ IsFiniteSet(Held(j)')
      /\ LoadOn(j)' = Cardinality(Others(r, j)) + Share(r, j)'
  <2>1. /\ Held(j)' = Others(r, j) \cup ({r} \X (1..Share(r, j)'))
        /\ Others(r, j) \cap ({r} \X (1..Share(r, j)')) = {}
    BY <1>2, <1>5 DEF Splits
  <2>2. /\ IsFiniteSet(Held(j)')
        /\ Cardinality(Held(j)') = Cardinality(Others(r, j)) + Share(r, j)'
    BY <1>6, <1>7, <2>1, Zenon
  <2> QED
    BY <2>2 DEF LoadOn
<1> QED
  BY <1>4, <1>6, <1>8, <1>9


\* The counter when every lane is what is under way on it: lanes carry into the next
\* ones, and the word drops what leaves it.
Part(j) == IF j \in Conns THEN LoadOn(j) * LaneSize ^ j ELSE 0
Total == Part(0) + Part(1) + Part(2) + Part(3)
LoadSum == load = Total % Word

LoadInv == TypeInv /\ PinnedInv /\ AllFinite /\ LoadSum

LEMMA DivMod ==
    ASSUME NEW q \in Int, NEW r \in Int, NEW b \in Nat \ {0}, 0 <= r, r < b
    PROVE  (r + b * q) \div b = q /\ (r + b * q) % b = r
  OBVIOUS

LEMMA Remainder ==
    ASSUME NEW a \in Int, NEW b \in Nat \ {0}
    PROVE  \E r, q \in Int : a % b = r /\ 0 <= r /\ r < b /\ a = r + b * q
<1>1. a = (a % b) + b * (a \div b) /\ a \div b \in Int
  OBVIOUS
<1>2. a % b \in Int /\ 0 <= a % b /\ a % b < b
  BY ModRange
<1> QED
  BY <1>1, <1>2

LEMMA ModAdd ==
    ASSUME NEW a \in Int, NEW x \in Int, NEW b \in Nat \ {0}
    PROVE  ((a % b) + x) % b = (a + x) % b
<1>1. PICK r, q \in Int : a % b = r /\ 0 <= r /\ r < b /\ a = r + b * q
  BY Remainder
<1>2. PICK s, p \in Int : (r + x) % b = s /\ 0 <= s /\ s < b /\ r + x = s + b * p
  <2>1. r + x \in Int
    OBVIOUS
  <2> QED
    BY <2>1, Remainder
<1>3. a + x = s + b * (p + q)
  <2>1. b * (p + q) = b * p + b * q
    OBVIOUS
  <2> QED
    BY <1>1, <1>2, <2>1
<1>4. (s + b * (p + q)) % b = s
  BY <1>2, DivMod
<1> QED
  BY <1>1, <1>2, <1>3, <1>4

LEMMA ConnsAre == Conns \subseteq {0, 1, 2, 3}
  BY PoolAssumption DEF Conns

LEMMA PartsAreInt ==
    ASSUME \A j : LoadOn(j) \in Nat
    PROVE  /\ Part(0) \in Nat /\ Part(1) \in Nat /\ Part(2) \in Nat /\ Part(3) \in Nat
           /\ Total \in Nat
<1>1. ASSUME NEW j PROVE Part(j) \in Nat
  <2> DEFINE u == LaneSize ^ j
  <2>1. CASE j \in Conns
    <3>1. u \in Nat /\ LoadOn(j) \in Nat
      BY <2>1, Units
    <3> HIDE DEF u
    <3>2. LoadOn(j) * u \in Nat
      BY <3>1
    <3> QED
      BY <2>1, <3>2 DEF Part, u
  <2>2. CASE j \notin Conns
    BY <2>2 DEF Part
  <2> QED
    BY <2>1, <2>2
<1> QED
  BY <1>1 DEF Total

\* Adding w units to lane i adds w of its units to the total.
LEMMA TotalMoves ==
    ASSUME \A j : LoadOn(j) \in Nat /\ LoadOn(j)' \in Nat,
           NEW i \in Conns, NEW w \in Int,
           \A j : LoadOn(j)' = LoadOn(j) + (IF j = i THEN w ELSE 0)
    PROVE  Total' = Total + w * LaneSize ^ i
<1> DEFINE u == LaneSize ^ i
<1>1. u \in Nat
  BY Units
<1>2. Part(i)' = Part(i) + w * u
  <2>1. Part(i) = LoadOn(i) * u /\ Part(i)' = LoadOn(i)' * u
    BY DEF Part, Conns
  <2>2. LoadOn(i)' = LoadOn(i) + w /\ LoadOn(i) \in Int
    OBVIOUS
  <2> HIDE DEF u
  <2>3. (LoadOn(i) + w) * u = LoadOn(i) * u + w * u
    BY <1>1, <2>2
  <2> QED
    BY <2>1, <2>2, <2>3
<1>3. \A j : j # i => Part(j)' = Part(j)
  <2> SUFFICES ASSUME NEW j, j # i PROVE Part(j)' = Part(j)
    OBVIOUS
  <2>1. LoadOn(j)' = LoadOn(j)
    OBVIOUS
  <2> QED
    BY <2>1 DEF Part, Conns
<1>4. /\ Part(0) \in Int /\ Part(1) \in Int /\ Part(2) \in Int /\ Part(3) \in Int
  BY PartsAreInt
<1>5. w * u \in Int
  <2> HIDE DEF u
  <2> QED
    BY <1>1
<1> HIDE DEF u
<1>6. i \in {0, 1, 2, 3}
  BY ConnsAre
<1>7. Total' = Total + w * u
  BY <1>2, <1>3, <1>4, <1>5, <1>6 DEF Total
<1> QED
  BY <1>7 DEF u

\* fetch_add and fetch_sub keep the counter the sum of the lanes: w may be negative.
LEMMA SumChanges ==
    ASSUME NEW r \in Calls, AllFinite, LoadSum, NEW i \in Conns, NEW w \in Int,
           \A q \in Calls \ {r} : pc'[q] = pc[q] /\ dest'[q] = dest[q],
           \A j : Share(r, j)' = Share(r, j) + (IF j = i THEN w ELSE 0),
           load' = (load + w * LaneSize ^ i) % Word
    PROVE  AllFinite' /\ LoadSum'
<1> DEFINE x == w * LaneSize ^ i
<1>1. /\ AllFinite'
      /\ \A j : /\ LoadOn(j) \in Nat /\ LoadOn(j)' \in Nat
                /\ LoadOn(j)' = LoadOn(j) - Share(r, j) + Share(r, j)'
  BY LoadMoves
<1>2. \A j : Share(r, j) \in Int
  BY HeldSplits DEF Splits
<1>3. \A j : LoadOn(j)' = LoadOn(j) + (IF j = i THEN w ELSE 0)
  <2> SUFFICES ASSUME NEW j PROVE LoadOn(j)' = LoadOn(j) + (IF j = i THEN w ELSE 0)
    OBVIOUS
  <2>1. LoadOn(j) \in Int /\ Share(r, j) \in Int
    BY <1>1, <1>2
  <2>2. LoadOn(j)' = LoadOn(j) - Share(r, j) + (Share(r, j) + (IF j = i THEN w ELSE 0))
    BY <1>1
  <2> QED
    BY <2>1, <2>2
<1>4. Total' = Total + x
  BY <1>1, <1>3, TotalMoves
<1>5. Total \in Int
  BY <1>1, PartsAreInt
<1>6. x \in Int
  <2> DEFINE u == LaneSize ^ i
  <2>1. u \in Int
    BY Units
  <2> HIDE DEF u
  <2>2. w * u \in Int
    BY <2>1
  <2> QED
    BY <2>2 DEF u
<1>7. load' = ((Total % Word) + x) % Word
  BY DEF LoadSum
<1> HIDE DEF x
<1>8. load' = (Total + x) % Word
  BY <1>5, <1>6, <1>7, Units, ModAdd
<1>9. Word' = Word
  BY DEF Word
<1> QED
  BY <1>1, <1>4, <1>8, <1>9 DEF LoadSum

\* A step that moves no weight leaves the sum alone.
LEMMA SumStays ==
    ASSUME NEW r \in Calls, AllFinite, LoadSum,
           \A q \in Calls \ {r} : pc'[q] = pc[q] /\ dest'[q] = dest[q],
           \A j : Share(r, j)' = Share(r, j),
           load' = load
    PROVE  AllFinite' /\ LoadSum'
<1>1. /\ AllFinite'
      /\ \A j : /\ LoadOn(j) \in Nat /\ LoadOn(j)' \in Nat
                /\ LoadOn(j)' = LoadOn(j) - Share(r, j) + Share(r, j)'
  BY LoadMoves
<1>2. \A j : Share(r, j) \in Int
  BY HeldSplits DEF Splits
<1>3. \A j : LoadOn(j)' = LoadOn(j)
  BY <1>1, <1>2
<1>4. Total' = Total
  BY <1>3 DEF Total, Part, Conns
<1>5. Word' = Word
  BY DEF Word
<1> QED
  BY <1>1, <1>4, <1>5 DEF LoadSum

\* What the methods give back is what they took, except insert_rows (weight_query for
\* weights 3 and 2, client.rs) and query_rows (weight_insert_many for weight 1).
Balanced == \A r \in Calls : Kind[r] \notin {"insert_rows", "query_rows"}

LEMMA LoadCall ==
    ASSUME Balanced, LoadInv, NEW r \in Calls, Call(r) \/ GiveUp(r)
    PROVE  AllFinite' /\ LoadSum'
<1>1. /\ AllFinite /\ LoadSum /\ Kind[r] \in Kinds
      /\ pc \in [Calls -> {"start", "assign", "add", "send", "wait", "iassign", "isend",
                           "finish", "done", "failed", "ifailed"}]
      /\ idx \in [Calls -> Conns] /\ dest \in [Calls -> Conns]
  BY CallsAssumption DEF LoadInv, TypeInv, TypeOK
<1>2. Pinned
  BY DEF LoadInv, PinnedInv
<1>3. \A q \in Calls \ {r} : pc'[q] = pc[q] /\ dest'[q] = dest[q]
  BY <1>1 DEF Call, Start, Assign, AddLoad, Send, Answer, AssignInsert, SendInsert, Finish,
              Fail, GiveUp, LeaveEarly, Goto
<1>4. WeightQueryOp(r) \in Nat /\ WeightInsertOp(r) \in Nat /\ WeightFinish(r) \in Nat
  BY WeightsAreNat
<1> USE DEF Share, Taken, Goto, WeightQueryOp, WeightInsertOp
<1>5. CASE Start(r)
  <2>1. \A j : Share(r, j) = 0 /\ Share(r, j)' = 0
    BY <1>1, <1>5 DEF Start, Inserts
  <2> QED
    BY <1>1, <1>3, <1>5, <2>1, SumStays DEF Start
<1>6. CASE Assign(r)
  BY <1>1, <1>3, <1>6, SumStays DEF Assign
<1>7. CASE AddLoad(r)
  BY <1>1, <1>3, <1>4, <1>7, SumChanges DEF AddLoad, FetchAdd
<1>8. CASE Send(r)
  BY <1>1, <1>3, <1>8, SumStays DEF Send
<1>9. CASE Answer(r)
  BY <1>1, <1>3, <1>9, SumStays DEF Answer, Inserts
<1>10. CASE AssignInsert(r)
  BY <1>1, <1>2, <1>3, <1>4, <1>10, SumChanges DEF AssignInsert, FetchAdd, Pinned
<1>11. CASE SendInsert(r)
  BY <1>1, <1>3, <1>11, SumStays DEF SendInsert
<1>12. CASE Finish(r)
  <2>1. idx[r] = dest[r] /\ idx[r] \in Conns
    BY <1>1, <1>2, <1>12 DEF Finish, Pinned
  <2>2. WeightFinish(r) = Taken(r)
    BY <1>1, <1>12 DEF Finish, Inserts, Kinds, Balanced, WeightFinish
  <2>3. PICK w \in Int : w = -WeightFinish(r)
    BY <1>4
  <2>4. \A j : Share(r, j)' = Share(r, j) + (IF j = idx[r] THEN w ELSE 0)
    BY <1>1, <1>4, <1>12, <2>1, <2>2, <2>3 DEF Finish
  <2>5. load' = (load + w * LaneSize ^ idx[r]) % Word
    <3>1. PICK u \in Int : u = LaneSize ^ idx[r]
      BY <2>1, Units
    <3>2. load \in Int
      BY Units DEF LoadInv, TypeInv, TypeOK
    <3>3. load' = (load - WeightFinish(r) * u) % Word
      BY <1>12, <3>1 DEF Finish, FetchSub
    <3>4. load - WeightFinish(r) * u = load + w * u
      <4> HIDE DEF WeightFinish
      <4> QED
        BY <1>4, <2>3, <3>1, <3>2
    <3> QED
      BY <3>1, <3>3, <3>4
  <2>6. load' = (load + w * LaneSize ^ idx[r]) % Word /\ idx[r] \in Conns
    BY <2>1, <2>5
  <2> HIDE DEF Share
  <2> QED
    BY <1>1, <1>3, <2>4, <2>6, SumChanges
<1>13. CASE Fail(r)
  BY <1>1, <1>3, <1>13, SumStays DEF Fail, LeaveEarly
<1>14. CASE GiveUp(r)
  BY <1>1, <1>3, <1>14, SumStays DEF GiveUp, LeaveEarly
<1> QED
  BY <1>5, <1>6, <1>7, <1>8, <1>9, <1>10, <1>11, <1>12, <1>13, <1>14 DEF Call

\* Before connect returns nothing is under way.
LEMMA LoadInit == Init => LoadInv
<1> SUFFICES ASSUME Init PROVE LoadInv
  OBVIOUS
<1>1. \A j : Held(j) = {}
  BY DEF Init, Held, Taken
<1>2. AllFinite /\ \A j : LoadOn(j) = 0
  BY <1>1, FS_EmptySet DEF AllFinite, LoadOn
<1>3. \A j : Part(j) = 0
  <2> SUFFICES ASSUME NEW j \in Conns PROVE 0 * LaneSize ^ j = 0
    BY <1>2 DEF Part
  <2>1. PICK u \in Int : u = LaneSize ^ j
    BY Units
  <2> QED
    BY <2>1
<1>4. Total = 0
  BY <1>3 DEF Total
<1>5. 0 % Word = 0
  <2>1. PICK b \in Nat \ {0} : b = Word
    BY Units
  <2> QED
    BY <2>1
<1>6. LoadSum
  BY <1>4, <1>5 DEF LoadSum, Init
<1> QED
  BY <1>2, <1>6, TypeInit, PinnedInit DEF LoadInv

LEMMA LoadNext == Balanced /\ LoadInv /\ [Next]_vars => LoadInv'
<1> SUFFICES ASSUME Balanced, LoadInv, [Next]_vars PROVE LoadInv'
  OBVIOUS
<1>1. TypeInv' /\ PinnedInv'
  BY TypeNext, PinnedNext DEF LoadInv
<1>2. ASSUME NEW r \in Calls, Call(r) \/ GiveUp(r) PROVE AllFinite' /\ LoadSum'
  BY <1>2, LoadCall
<1>3. ASSUME UNCHANGED <<load, pc, dest>> PROVE AllFinite' /\ LoadSum'
  <2>1. \A j : Held(j)' = Held(j)
    BY <1>3 DEF Held, Taken, WeightQueryOp, WeightInsertOp
  <2>2. AllFinite' /\ \A j : LoadOn(j)' = LoadOn(j)
    BY <2>1 DEF AllFinite, LoadOn, LoadInv
  <2>3. Total' = Total /\ Word' = Word
    BY <2>2 DEF Total, Part, Conns, Word
  <2>4. LoadSum
    BY DEF LoadInv
  <2> QED
    BY <1>3, <2>2, <2>3, <2>4 DEF LoadSum
<1>4. AllFinite' /\ LoadSum'
  <2>1. CASE ConnectInner \/ ConnectFails \/ UNCHANGED vars
    BY <1>3, <2>1 DEF ConnectInner, ConnectFails, vars
  <2>2. ASSUME NEW i \in up, Break(i) PROVE AllFinite' /\ LoadSum'
    BY <1>3, <2>2 DEF Break
  <2> QED
    BY <1>2, <2>1, <2>2 DEF Next
<1> QED
  BY <1>1, <1>4 DEF LoadInv

-----------------------------------------------------------------------------
(* Reading the lanes: digits of the counter in base LaneSize.              *)

LEMMA Horner ==
    ASSUME NEW a \in Nat, NEW t \in Nat, NEW b \in Nat, NEW p \in Nat, a < b, t < p
    PROVE  a + b * t \in Nat /\ a + b * t < b * p
<1>1. b * (t + 1) <= b * p
  OBVIOUS
<1>2. b * (t + 1) = b * t + b
  OBVIOUS
<1> QED
  BY <1>1, <1>2

\* The number that four digits make, and its digits read one by one.
Number(b, a0, a1, a2, a3) == a0 + a1 * b + a2 * (b * b) + a3 * (b * (b * b))
Reads(n, b, a0, a1, a2, a3) == /\ (n \div 1) % b = a0
                               /\ (n \div b) % b = a1
                               /\ (n \div (b * b)) % b = a2
                               /\ (n \div (b * (b * b))) % b = a3

LEMMA Digits ==
    ASSUME NEW b \in Nat \ {0}, NEW a0 \in Nat, NEW a1 \in Nat, NEW a2 \in Nat, NEW a3 \in Nat,
           a0 < b, a1 < b, a2 < b, a3 < b
    PROVE  Reads(Number(b, a0, a1, a2, a3), b, a0, a1, a2, a3)
<1> DEFINE n == Number(b, a0, a1, a2, a3)
<1>0. n = a0 + a1 * b + a2 * (b * b) + a3 * (b * (b * b))
  BY DEF Number
<1> HIDE DEF n
<1>1. n = a0 + b * (a1 + b * (a2 + b * a3))
  BY <1>0
<1>2. n \div b = a1 + b * (a2 + b * a3) /\ n % b = a0
  <2>1. a1 + b * (a2 + b * a3) \in Int
    OBVIOUS
  <2> QED
    BY <1>1, <2>1, DivMod
<1>3. (n \div b) % b = a1
  <2>1. a2 + b * a3 \in Int
    OBVIOUS
  <2>2. (a1 + b * (a2 + b * a3)) % b = a1
    BY <2>1, DivMod
  <2> QED
    BY <1>2, <2>2
<1>4. n \div (b * b) = a2 + b * a3
  <2>1. a0 + b * a1 \in Nat /\ a0 + b * a1 < b * b
    BY Horner
  <2>2. n = (a0 + b * a1) + (b * b) * (a2 + b * a3)
    BY <1>0
  <2>3. a2 + b * a3 \in Int /\ b * b \in Nat \ {0}
    OBVIOUS
  <2> QED
    BY <2>1, <2>2, <2>3, DivMod
<1>5. (n \div (b * b)) % b = a2
  <2>1. (a2 + b * a3) % b = a2
    BY DivMod
  <2> QED
    BY <1>4, <2>1
<1>6. n \div (b * (b * b)) = a3
  <2>1. a1 + b * a2 \in Nat /\ a1 + b * a2 < b * b
    BY Horner
  <2>2. b * b \in Nat
    OBVIOUS
  <2>3. a0 + b * (a1 + b * a2) \in Nat /\ a0 + b * (a1 + b * a2) < b * (b * b)
    BY <2>1, <2>2, Horner
  <2>4. n = (a0 + b * (a1 + b * a2)) + (b * (b * b)) * a3
    BY <1>0
  <2>5. b * (b * b) \in Nat \ {0}
    OBVIOUS
  <2> QED
    BY <2>3, <2>4, <2>5, DivMod
<1>7. a3 % b = a3
  OBVIOUS
<1>8. n \div 1 = n
  BY <1>0
<1> QED
  BY <1>2, <1>3, <1>5, <1>6, <1>7, <1>8 DEF Reads, n


LEMMA PowersAre ==
    /\ LaneSize ^ 0 = 1
    /\ 1 \in Conns => LaneSize ^ 1 = LaneSize
    /\ 2 \in Conns => LaneSize ^ 2 = LaneSize * LaneSize
    /\ 3 \in Conns => LaneSize ^ 3 = LaneSize * (LaneSize * LaneSize)
    /\ LaneSize ^ MaxConns <= Word
    /\ LaneSize ^ MaxConns = LaneSize * LaneSize ^ (MaxConns - 1)
<1>1. /\ \A i \in 0..(Lanes - 1) : LaneSize ^ (i + 1) = LaneSize * LaneSize ^ i
      /\ LaneSize ^ 0 = 1
  BY UnitAssumption
<1>2. \A i \in 0..3 : i \in Conns => i \in 0..(Lanes - 1)
  BY PoolAssumption DEF Conns
<1>3. LaneSize ^ 1 = LaneSize
  <2>1. LaneSize ^ (0 + 1) = LaneSize * LaneSize ^ 0
    BY <1>1, PoolAssumption
  <2> QED
    BY <1>1, <2>1, PoolAssumption
<1>4. 2 \in Conns => LaneSize ^ 2 = LaneSize * LaneSize
  <2> SUFFICES ASSUME 2 \in Conns PROVE LaneSize ^ 2 = LaneSize * LaneSize
    OBVIOUS
  <2>1. 1 \in 0..(Lanes - 1) /\ 1 + 1 = 2
    BY PoolAssumption DEF Conns
  <2> QED
    BY <1>1, <1>3, <2>1
<1>5. 3 \in Conns => LaneSize ^ 3 = LaneSize * (LaneSize * LaneSize)
  <2> SUFFICES ASSUME 3 \in Conns PROVE LaneSize ^ 3 = LaneSize * (LaneSize * LaneSize)
    OBVIOUS
  <2>1. 2 \in Conns /\ 2 \in 0..(Lanes - 1) /\ 2 + 1 = 3
    BY PoolAssumption DEF Conns
  <2> QED
    BY <1>1, <1>4, <2>1
<1>6. LaneSize ^ MaxConns <= Word
  <2>1. MaxConns \in 0..Lanes
    BY PoolAssumption
  <2>2. LaneSize ^ MaxConns \in 1..Word
    BY <2>1, UnitAssumption DEF Word
  <2> QED
    BY <2>2, Units
<1>7. LaneSize ^ MaxConns = LaneSize * LaneSize ^ (MaxConns - 1)
  <2>1. MaxConns - 1 \in 0..(Lanes - 1) /\ (MaxConns - 1) + 1 = MaxConns
    BY PoolAssumption
  <2> QED
    BY <1>1, <2>1
<1> QED
  BY <1>1, <1>3, <1>4, <1>5, <1>6, <1>7

\* Each lane reads as its digit when no digit is too large: the lanes that are not
\* used count as zero.
LEMMA LanesRead ==
    ASSUME LoadSum, \A j : LoadOn(j) \in Nat, \A i \in Conns : LoadOn(i) < LaneSize
    PROVE  \A i \in Conns : Lane(i) = LoadOn(i)
<1>1. PICK b \in Nat \ {0} : b = LaneSize
  BY PoolAssumption
<1>2. PICK a0, a1, a2, a3 \in Nat :
        /\ a0 < b /\ a1 < b /\ a2 < b /\ a3 < b
        /\ a0 = LoadOn(0)
        /\ a1 = IF 1 \in Conns THEN LoadOn(1) ELSE 0
        /\ a2 = IF 2 \in Conns THEN LoadOn(2) ELSE 0
        /\ a3 = IF 3 \in Conns THEN LoadOn(3) ELSE 0
  <2>1. 0 \in Conns
    BY PoolAssumption DEF Conns
  <2> QED
    BY <1>1, <2>1
<1>3. Total = a0 + a1 * b + a2 * (b * b) + a3 * (b * (b * b))
  <2>1. Part(0) = a0
    <3>1. 0 \in Conns /\ LaneSize ^ 0 = 1
      BY PoolAssumption, PowersAre DEF Conns
    <3> QED
      BY <1>2, <3>1 DEF Part
  <2>2. Part(1) = a1 * b
    BY <1>1, <1>2, PowersAre DEF Part
  <2>3. Part(2) = a2 * (b * b)
    <3>1. CASE 2 \in Conns
      BY <1>1, <1>2, <3>1, PowersAre DEF Part
    <3>2. CASE 2 \notin Conns
      <4>1. Part(2) = 0 /\ a2 = 0 /\ 0 * (b * b) = 0
        BY <1>2, <3>2 DEF Part
      <4> QED
        BY <4>1
    <3> QED
      BY <3>1, <3>2
  <2>4. Part(3) = a3 * (b * (b * b))
    <3>1. CASE 3 \in Conns
      BY <1>1, <1>2, <3>1, PowersAre DEF Part
    <3>2. CASE 3 \notin Conns
      <4>1. Part(3) = 0 /\ a3 = 0 /\ 0 * (b * (b * b)) = 0
        BY <1>2, <3>2 DEF Part
      <4> QED
        BY <4>1
    <3> QED
      BY <3>1, <3>2
  <2> QED
    BY <2>1, <2>2, <2>3, <2>4 DEF Total
<1>4. PICK n \in Nat : n = Total
  BY PartsAreInt
<1>5. n = a0 + a1 * b + a2 * (b * b) + a3 * (b * (b * b))
  BY <1>3, <1>4
<1>6. n < LaneSize ^ MaxConns
  <2>1. CASE MaxConns = 1
    BY <1>1, <1>2, <1>5, <2>1, PowersAre DEF Conns
  <2>2. CASE MaxConns = 2
    BY <1>1, <1>2, <1>5, <2>2, PowersAre DEF Conns
  <2>3. CASE MaxConns = 3
    BY <1>1, <1>2, <1>5, <2>3, PowersAre DEF Conns
  <2>4. CASE MaxConns = 4
    BY <1>1, <1>2, <1>5, <2>4, PowersAre DEF Conns
  <2> QED
    BY <2>1, <2>2, <2>3, <2>4, PoolAssumption
<1>7. load = n
  <2>1. n < Word
    <3>1. LaneSize ^ MaxConns \in Nat /\ Word \in Nat
      BY Units, UnitAssumption, PoolAssumption DEF Word
    <3> QED
      BY <1>6, <3>1, PowersAre
  <2>2. PICK w \in Nat \ {0} : w = Word
    BY Units
  <2>3. n % w = n
    BY <2>1, <2>2
  <2> QED
    BY <1>4, <2>2, <2>3 DEF LoadSum
<1>8. Reads(n, b, a0, a1, a2, a3)
  <2>1. n = Number(b, a0, a1, a2, a3)
    BY <1>5 DEF Number
  <2>2. a0 < b /\ a1 < b /\ a2 < b /\ a3 < b
    BY <1>2
  <2> QED
    BY <2>1, <2>2, Digits
<1> SUFFICES ASSUME NEW i \in Conns PROVE Lane(i) = LoadOn(i)
  OBVIOUS
<1>9. i \in {0, 1, 2, 3}
  BY ConnsAre
<1> QED
  BY <1>1, <1>2, <1>7, <1>8, <1>9, PowersAre DEF Lane, Reads

\* Every lane is the load of its connection, for any calls, keys, loads and failures:
\* the unsynchronised read, fetch_add and fetch_sub of AtomicLoad lose nothing, and
\* carries into other lanes undo themselves.  Methods must give back what they took.
THEOREM AlwaysExact == ASSUME Balanced PROVE Spec => []LoadExact
<1>1. LoadInv => LoadExact
  <2> SUFFICES ASSUME LoadInv, \A i \in Conns : LoadOn(i) < LaneSize
               PROVE  \A i \in Conns : Lane(i) = LoadOn(i)
    BY DEF LoadExact
  <2>1. \A j : LoadOn(j) \in Nat
    BY FS_CardinalityType DEF LoadInv, AllFinite, LoadOn
  <2> QED
    BY <2>1, LanesRead DEF LoadInv
<1>2. LoadInv /\ [Next]_vars => LoadInv'
  BY LoadNext
<1> QED
  BY LoadInit, <1>1, <1>2, PTL DEF Spec
=============================================================================
