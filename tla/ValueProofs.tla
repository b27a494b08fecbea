---------------------------- MODULE ValueProofs ----------------------------
(***************************************************************************)
(* Proofs about module ValueMaker: dates and times mean what they were     *)
(* made from, 256-bit and fixed point numbers are exact, variable length   *)
(* integers are read back, for every width of the integers, every input    *)
(* and any number of trips through serde.                                  *)
(*                                                                         *)
(* Powers of ten and repeated multiplication are recursive functions on    *)
(* the natural numbers.  The first part proves what it takes to reason     *)
(* about one: induction over a set of numbers, from the well-foundedness   *)
(* of <, and that a recursion defines a function at all.                   *)
(***************************************************************************)
EXTENDS ValueMaker, SequenceTheorems, WellFoundedInduction, TLAPS

\* Of the numbers that are not in a set one is the least: what a counterexample to an
\* induction over the natural numbers is.
LEMMA LeastNot ==
  ASSUME NEW T, NEW a \in Nat, a \notin T
  PROVE  \E n \in Nat : n \notin T /\ (n > 0 => n - 1 \in T)
<1> DEFINE R == {ss \in Nat \X Nat : ss[1] < ss[2]}
           C == {n \in Nat : n \notin T}
<1>1. IsWellFoundedOn(R, Nat)
  BY NatLessThanWellFounded DEF OpToRel
<1>2. a \in C /\ C \subseteq Nat
  OBVIOUS
<1>3. \A x, y \in Nat : y < x => <<y, x>> \in R
  OBVIOUS
<1> HIDE DEF R, C
<1>4. PICK x \in C : \A y \in C : ~(<<y, x>> \in R)
  BY <1>1, <1>2, WFMin
<1>5. x \in Nat /\ x \notin T
  BY <1>2 DEF C
<1>6. x > 0 => x - 1 \in T
  <2> SUFFICES ASSUME x > 0, x - 1 \notin T PROVE FALSE
    OBVIOUS
  <2>1. x - 1 \in Nat /\ x - 1 < x
    BY <1>5
  <2>2. x - 1 \in C
    BY <2>1 DEF C
  <2> QED
    BY <1>3, <1>4, <1>5, <2>1, <2>2
<1> QED
  BY <1>5, <1>6

\* Induction over the natural numbers, for a set.
LEMMA Inductive ==
  ASSUME NEW T, 0 \in T, \A n \in Nat : n \in T => n + 1 \in T
  PROVE  Nat \subseteq T
<1> SUFFICES ASSUME NEW a \in Nat, a \notin T PROVE FALSE
  OBVIOUS
<1>1. PICK n \in Nat : n \notin T /\ (n > 0 => n - 1 \in T)
  BY LeastNot
<1>2. n > 0
  BY <1>1
<1>3. n - 1 \in Nat /\ (n - 1) + 1 = n
  BY <1>2
<1> QED
  BY <1>1, <1>2, <1>3

\* The functions that a recursion over the natural numbers defines up to n.
UpTo(S, base, step, n) == {g \in [0..n -> S] : g[0] = base /\ \A i \in 0..n - 1 : g[i + 1] = step[i][g[i]]}

\* There is such a function up to every n: by induction.
LEMMA UpToExists ==
  ASSUME NEW S, NEW base \in S, NEW step \in [Nat -> [S -> S]]
  PROVE  \A n \in Nat : UpTo(S, base, step, n) # {}
<1> DEFINE T == {n \in Nat : UpTo(S, base, step, n) # {}}
<1>1. 0 \in T
  <2> DEFINE g == [i \in 0..0 |-> base]
  <2>1. g \in [0..0 -> S] /\ g[0] = base /\ 0..0 - 1 = {}
    OBVIOUS
  <2>2. g \in UpTo(S, base, step, 0)
    BY <2>1 DEF UpTo
  <2> QED
    BY <2>2
<1>2. ASSUME NEW n \in Nat, n \in T
      PROVE  n + 1 \in T
  <2>1. PICK g : g \in UpTo(S, base, step, n)
    BY <1>2
  <2>2. g \in [0..n -> S] /\ g[0] = base /\ \A i \in 0..n - 1 : g[i + 1] = step[i][g[i]]
    BY <2>1 DEF UpTo
  <2> DEFINE h == [i \in 0..n + 1 |-> IF i <= n THEN g[i] ELSE step[n][g[n]]]
  <2>3. g[n] \in S /\ step[n][g[n]] \in S
    BY <2>2
  <2>4. h \in [0..n + 1 -> S]
    BY <2>2, <2>3
  <2>5. \A i \in 0..n : h[i] = g[i]
    OBVIOUS
  <2>6. h[n + 1] = step[n][g[n]]
    OBVIOUS
  <2> HIDE DEF h
  <2>7. h[0] = base
    BY <2>2, <2>5
  <2>8. ASSUME NEW i \in 0..(n + 1) - 1
        PROVE  h[i + 1] = step[i][h[i]]
    <3>1. CASE i = n
      BY <2>5, <2>6, <3>1
    <3>2. CASE i # n
      <4>1. i \in 0..n - 1 /\ i \in 0..n /\ i + 1 \in 0..n
        BY <3>2
      <4>2. h[i + 1] = g[i + 1] /\ h[i] = g[i]
        BY <2>5, <4>1
      <4> QED
        BY <2>2, <4>1, <4>2
    <3> QED
      BY <3>1, <3>2
  <2>9. h \in UpTo(S, base, step, n + 1)
    BY <2>4, <2>7, <2>8 DEF UpTo
  <2> QED
    BY <2>9
<1>3. Nat \subseteq T
  <2> HIDE DEF T
  <2> QED
    BY <1>1, <1>2, Inductive
<1> QED
  BY <1>3

\* Two of them agree as far as both go.
LEMMA UpToAgree ==
  ASSUME NEW S, NEW base \in S, NEW step \in [Nat -> [S -> S]],
         NEW m \in Nat, NEW n \in Nat, m <= n,
         NEW g \in UpTo(S, base, step, m), NEW h \in UpTo(S, base, step, n)
  PROVE  g[m] = h[m]
<1> DEFINE T == {i \in Nat : i <= m => g[i] = h[i]}
<1>1. /\ g[0] = base /\ \A i \in 0..m - 1 : g[i + 1] = step[i][g[i]]
      /\ h[0] = base /\ \A i \in 0..n - 1 : h[i + 1] = step[i][h[i]]
  BY DEF UpTo
<1>2. 0 \in T
  BY <1>1
<1>3. ASSUME NEW i \in Nat, i \in T
      PROVE  i + 1 \in T
  <2> SUFFICES ASSUME i + 1 <= m PROVE g[i + 1] = h[i + 1]
    OBVIOUS
  <2>1. i \in 0..m - 1 /\ i \in 0..n - 1 /\ g[i] = h[i]
    BY <1>3
  <2> QED
    BY <1>1, <2>1
<1>4. Nat \subseteq T
  <2> HIDE DEF T
  <2> QED
    BY <1>2, <1>3, Inductive
<1> QED
  BY <1>4

\* A recursion over the natural numbers defines a function.
Recursive(S, base, step, f) ==
    f \in [Nat -> S] /\ f[0] = base /\ \A n \in Nat : f[n + 1] = step[n][f[n]]

\* There is a function that does as the recursion says.
LEMMA Recursion ==
  ASSUME NEW S, NEW base \in S, NEW step \in [Nat -> [S -> S]]
  PROVE  \E f : Recursive(S, base, step, f)
<1> DEFINE G(n) == CHOOSE g \in UpTo(S, base, step, n) : TRUE
           f == [n \in Nat |-> G(n)[n]]
<1>1. \A n \in Nat : G(n) \in UpTo(S, base, step, n)
  BY UpToExists
<1> HIDE DEF G
<1>2. \A n \in Nat : /\ G(n) \in [0..n -> S] /\ G(n)[0] = base
                     /\ \A i \in 0..n - 1 : G(n)[i + 1] = step[i][G(n)[i]]
  BY <1>1 DEF UpTo
<1>3. f \in [Nat -> S]
  BY <1>2
<1>4. f[0] = base
  BY <1>2
<1>5. ASSUME NEW n \in Nat
      PROVE  f[n + 1] = step[n][f[n]]
  <2>1. n + 1 \in Nat /\ n <= n + 1 /\ n \in 0..(n + 1) - 1
    OBVIOUS
  <2>2. G(n)[n] = G(n + 1)[n]
    BY <1>1, <2>1, UpToAgree
  <2>3. G(n + 1)[n + 1] = step[n][G(n + 1)[n]]
    BY <1>2, <2>1
  <2> QED
    BY <2>1, <2>2, <2>3
<1> HIDE DEF f
<1> QED
  BY <1>3, <1>4, <1>5 DEF Recursive

\* What TenTo is: its definition says so once there is such a function.
LEMMA TenToIs == TenTo \in [Nat -> Nat] /\ TenTo[0] = 1 /\ \A n \in Nat : TenTo[n + 1] = 10 * TenTo[n]
<1> DEFINE step == [n \in Nat |-> [m \in Nat |-> 10 * m]]
<1>1. step \in [Nat -> [Nat -> Nat]] /\ \A n, m \in Nat : step[n][m] = 10 * m
  OBVIOUS
<1> HIDE DEF step
<1>2. PICK f : Recursive(Nat, 1, step, f)
  BY <1>1, Recursion, 1 \in Nat
<1>2a. f \in [Nat -> Nat] /\ f[0] = 1 /\ \A n \in Nat : f[n + 1] = step[n][f[n]]
  BY <1>2 DEF Recursive
<1>3. \A n \in Nat : f[n] = IF n = 0 THEN 1 ELSE 10 * f[n - 1]
  <2> TAKE n \in Nat
  <2>1. CASE n = 0
    BY <1>2a, <2>1
  <2>2. CASE n # 0
    <3>1. n - 1 \in Nat /\ (n - 1) + 1 = n
      BY <2>2
    <3>2. f[n] = step[n - 1][f[n - 1]]
      BY <1>2a, <3>1
    <3> QED
      BY <1>1, <1>2a, <2>2, <3>1, <3>2
  <2> QED
    BY <2>1, <2>2
<1>4. f = [n \in Nat |-> IF n = 0 THEN 1 ELSE 10 * f[n - 1]]
  BY <1>2a, <1>3
<1>5. TenTo = [n \in Nat |-> IF n = 0 THEN 1 ELSE 10 * TenTo[n - 1]]
  BY <1>4 DEF TenTo
<1>6. TenTo[0] = 1 /\ \A n \in Nat : TenTo[n + 1] = 10 * TenTo[n]
  <2>1. \A n \in Nat : TenTo[n] = IF n = 0 THEN 1 ELSE 10 * TenTo[n - 1]
    BY <1>5
  <2>2. \A n \in Nat : n + 1 \in Nat /\ n + 1 # 0 /\ (n + 1) - 1 = n
    OBVIOUS
  <2> QED
    BY <2>1, <2>2
<1>7. \A n \in Nat : TenTo[n] \in Nat
  <2> DEFINE T == {n \in Nat : TenTo[n] \in Nat}
  <2>1. 0 \in T
    BY <1>6
  <2>2. \A n \in Nat : n \in T => n + 1 \in T
    BY <1>6
  <2> HIDE DEF T
  <2>3. Nat \subseteq T
    BY <2>1, <2>2, Inductive
  <2> QED
    BY <2>3 DEF T
<1> QED
  BY <1>5, <1>6, <1>7

-----------------------------------------------------------------------------
(* Powers of ten, and division.                                            *)
\* Powers of ten are positive and grow.
LEMMA Powers == \A n \in Nat : TenTo[n] \in Nat \ {0} /\ TenTo[n] <= TenTo[n + 1]
<1> DEFINE T == {n \in Nat : TenTo[n] \in Nat \ {0}}
<1>1. 0 \in T
  BY TenToIs
<1>2. \A n \in Nat : n \in T => n + 1 \in T
  BY TenToIs
<1> HIDE DEF T
<1>3. Nat \subseteq T
  BY <1>1, <1>2, Inductive
<1> QED
  BY <1>3, TenToIs DEF T

\* The exponents of a product are added.
LEMMA PowersAdd ==
  ASSUME NEW m \in Nat, NEW n \in Nat
  PROVE  TenTo[m + n] = TenTo[m] * TenTo[n]
<1> DEFINE T == {k \in Nat : TenTo[m + k] = TenTo[m] * TenTo[k]}
<1>1. 0 \in T
  BY TenToIs, TenTo[m] \in Nat, m + 0 = m
<1>2. ASSUME NEW k \in Nat, k \in T
      PROVE  k + 1 \in T
  <2>1. TenTo[m + k] = TenTo[m] * TenTo[k]
    BY <1>2
  <2>2. m + (k + 1) = (m + k) + 1 /\ m + k \in Nat /\ k + 1 \in Nat
    OBVIOUS
  <2>3. TenTo[m + (k + 1)] = 10 * TenTo[m + k] /\ TenTo[k + 1] = 10 * TenTo[k]
    BY <2>2, TenToIs
  <2>4. \A a, b \in Nat : 10 * (a * b) = a * (10 * b)
    OBVIOUS
  <2>5. TenTo[m] \in Nat /\ TenTo[k] \in Nat
    BY TenToIs
  <2>6. TenTo[m + (k + 1)] = TenTo[m] * TenTo[k + 1]
    BY <2>1, <2>3, <2>4, <2>5
  <2> QED
    BY <2>2, <2>6
<1> HIDE DEF T
<1>3. Nat \subseteq T
  BY <1>1, <1>2, Inductive
<1> QED
  BY <1>3 DEF T

\* Quotient and remainder of a division are unique.
LEMMA Division ==
  ASSUME NEW s \in Int, NEW m \in Nat \ {0}, NEW r \in 0..m - 1
  PROVE  (s * m + r) \div m = s /\ (s * m + r) % m = r
OBVIOUS

LEMMA Divides ==
  ASSUME NEW d \in Int, NEW a \in Nat \ {0}
  PROVE  d = a * (d \div a) + (d % a) /\ d % a \in 0..a - 1 /\ d \div a \in Int
OBVIOUS

\* What is left of a fraction f of a second with a * b parts when there are only a.
LEMMA Parts ==
  ASSUME NEW a \in Nat \ {0}, NEW b \in Nat \ {0}, NEW f \in 0..a * b - 1
  PROVE  /\ f \div b \in 0..a - 1
         /\ (f \div b) * b \in 0..a * b - 1
         /\ ((f \div b) * b) \div b = f \div b
<1> DEFINE q == f \div b
<1>1. f = b * q + (f % b) /\ f % b \in 0..b - 1 /\ q \in Int /\ a * b \in Nat /\ f >= 0
  OBVIOUS
<1> HIDE DEF q
<1>2. q >= 0
  <2> SUFFICES ASSUME q < 0 PROVE FALSE
    BY <1>1
  <2>1. b * q <= -b
    BY <1>1
  <2> QED
    BY <1>1, <2>1
<1>3. q < a
  <2> SUFFICES ASSUME q >= a PROVE FALSE
    BY <1>1
  <2>1. b * q >= b * a /\ b * a = a * b
    BY <1>1
  <2> QED
    BY <1>1, <2>1
<1>4. q * b \in Int /\ q * b >= 0 /\ q * b <= f /\ q * b = b * q
  BY <1>1, <1>2
<1>5. (q * b) \div b = q
  <2>1. q * b + 0 = q * b /\ 0 \in 0..b - 1
    BY <1>4
  <2> QED
    BY <1>1, <2>1, Division
<1> QED
  BY <1>1, <1>2, <1>3, <1>4, <1>5 DEF q

Precisions == {0, 2, 3, 6, 9}

\* The ticks of a second and the nanoseconds of a tick make a second.
LEMMA PrecisionIs ==
  ASSUME NEW p \in Precisions
  PROVE  /\ p \in Nat /\ 9 - p \in Nat
         /\ TenTo[p] \in Nat \ {0} /\ TenTo[9 - p] \in Nat \ {0}
         /\ Nanos = 0..TenTo[p] * TenTo[9 - p] - 1
<1>1. p \in Nat /\ 9 - p \in Nat /\ p + (9 - p) = 9
  BY DEF Precisions
<1>2. TenTo[9] = TenTo[p] * TenTo[9 - p]
  BY <1>1, PowersAdd
<1> QED
  BY <1>1, <1>2, Powers DEF Nanos

\* An instant becomes ticks and comes back as what is left of it at its precision.
LEMMA TicksMean ==
  ASSUME NEW p \in Precisions, NEW s \in Nat, NEW f \in Nanos
  PROVE  LET n == s * TenTo[p] + f \div TenTo[9 - p]
             back == (n % TenTo[p]) * TenTo[9 - p]
         IN /\ n \in Nat /\ n \div TenTo[p] = s
            /\ back = (f \div TenTo[9 - p]) * TenTo[9 - p]
            /\ back \in Nanos
            /\ back = (back \div TenTo[9 - p]) * TenTo[9 - p]
<1> DEFINE a == TenTo[p]
           b == TenTo[9 - p]
           q == f \div b
           n == s * a + q
<1>1. a \in Nat \ {0} /\ b \in Nat \ {0} /\ Nanos = 0..a * b - 1
  BY PrecisionIs
<1> HIDE DEF a, b
<1>2. q \in 0..a - 1 /\ q * b \in Nanos /\ (q * b) \div b = q
  BY <1>1, Parts
<1> HIDE DEF q
<1>3. n \div a = s /\ n % a = q
  BY <1>1, <1>2, Division
<1>4. n \in Nat
  BY <1>1, <1>2
<1> QED
  BY <1>2, <1>3, <1>4 DEF a, b, q

\* Ticks counted by a caller: none before 1970, and division towards zero takes the last
\* second before it for its first.
LEMMA TicksSplit ==
  ASSUME NEW p \in Precisions, NEW s \in Int, NEW f \in Nanos
  PROVE  LET n == s * TenTo[p] + f \div TenTo[9 - p]
             q == TDiv(n, TenTo[p])
         IN /\ n \in Int /\ q \in Int
            /\ n >= 0 <=> s >= 0
            /\ s >= 0 => q = s
            /\ s < 0 /\ q >= 0 => s = -1 /\ q = 0
<1> DEFINE a == TenTo[p]
           b == TenTo[9 - p]
           r == f \div b
           n == s * a + r
           q == TDiv(n, a)
<1>1. a \in Nat \ {0} /\ b \in Nat \ {0} /\ Nanos = 0..a * b - 1
  BY PrecisionIs
<1> HIDE DEF a, b
<1>2. r \in 0..a - 1
  BY <1>1, Parts
<1> HIDE DEF r
<1>3. n \in Int /\ s * a \in Int
  BY <1>1, <1>2
<1>4. CASE s >= 0
  <2>1. s * a >= 0
    BY <1>1, <1>4
  <2>2. n >= 0
    BY <1>2, <1>3, <2>1
  <2>3. n \div a = s
    BY <1>1, <1>2, Division
  <2>4. q = s
    BY <2>2, <2>3 DEF TDiv
  <2> QED
    BY <1>3, <1>4, <2>2, <2>4 DEF a, b, r
<1>5. CASE s < 0
  <2> DEFINE k == -s - 1
             d == -n
             u == d \div a
  <2>1. k \in Nat /\ s = -k - 1
    BY <1>5
  <2>2. s * a = -(k * a) - a /\ k * a \in Nat
    BY <1>1, <2>1
  <2>3. n < 0 /\ d = k * a + (a - r) /\ d > k * a
    BY <1>1, <1>2, <2>2
  <2>4. d = a * u + (d % a) /\ d % a \in 0..a - 1 /\ u \in Int
    <3>1. d \in Int
      BY <1>3
    <3> HIDE DEF d
    <3> QED
      BY <1>1, <3>1, Divides
  <2> HIDE DEF d, u
  <2>5. u >= k
    <3> SUFFICES ASSUME u <= k - 1 PROVE FALSE
      BY <2>1, <2>4
    <3>1. a * u <= a * (k - 1)
      BY <1>1, <2>1, <2>4
    <3>2. a * (k - 1) = k * a - a /\ a * u \in Int
      BY <1>1, <2>1, <2>4
    <3>3. \A x, y, z, w \in Int : x = y + z /\ z <= a - 1 /\ y <= w - a /\ x > w => FALSE
      BY <1>1
    <3>4. d = a * u + (d % a) /\ d % a <= a - 1 /\ a * u <= k * a - a /\ d > k * a
      BY <1>1, <2>3, <2>4, <3>1, <3>2
    <3>5. d \in Int /\ d % a \in Int /\ a * u \in Int /\ k * a \in Int
      BY <1>1, <1>3, <2>2, <2>4, <3>2 DEF d
    <3> HIDE DEF k
    <3> QED
      BY <3>3, <3>4, <3>5
  <2>6. q = -u
    BY <1>3, <2>3 DEF TDiv, d, u
  <2>7. q >= 0 => s = -1 /\ q = 0
    BY <2>1, <2>4, <2>5, <2>6
  <2> QED
    BY <1>3, <1>5, <2>3, <2>4, <2>6, <2>7 DEF a, b, r
<1> QED
  BY <1>4, <1>5

\* Milliseconds to the end of a day are the day, but the last day before 1970 is the first.
LEMMA Millis ==
  ASSUME NEW d \in Int, NEW m \in Nat \ {0}
  PROVE  TDiv(d * m + m - 1, m) = IF d >= 0 \/ m = 1 THEN d ELSE d + 1
<1>1. CASE d >= 0
  BY <1>1, Division, m - 1 \in 0..m - 1, d * m + m - 1 >= 0 DEF TDiv
<1>2. CASE d < 0 /\ m = 1
  BY <1>2 DEF TDiv
<1>3. CASE d < 0 /\ m # 1
  <2>1. -(d * m + m - 1) = (-d - 1) * m + 1
    OBVIOUS
  <2>2. d * m <= -m
    BY <1>3
  <2>3. d * m + m - 1 < 0 /\ d * m \in Int
    BY <2>2
  <2>4. ((-d - 1) * m + 1) \div m = -d - 1
    BY <1>3, Division, 1 \in 0..m - 1, -d - 1 \in Int
  <2> QED
    BY <1>3, <2>1, <2>3, <2>4 DEF TDiv
<1> QED
  BY <1>1, <1>2, <1>3

\* Division towards zero leaves a remainder of the sign of the number.
LEMMA Remainder ==
  ASSUME NEW v \in Int, NEW m \in Nat \ {0}
  PROVE  LET q == TDiv(v, m)
             f == v - q * m
         IN q \in Int /\ f \in Int /\ -m < f /\ f < m /\ (f = 0 \/ (f < 0) = (v < 0))
<1>1. CASE v >= 0
  <2>1. v = m * (v \div m) + (v % m) /\ v % m \in 0..m - 1 /\ v \div m \in Int
    OBVIOUS
  <2> QED
   BY <1>1, <2>1 DEF TDiv
<1>2. CASE v < 0
  <2> DEFINE n == -v
  <2>1. n = m * (n \div m) + (n % m) /\ n % m \in 0..m - 1 /\ n \div m \in Int
    OBVIOUS
  <2> DEFINE q == n \div m
  <2>2. (-q) * m = -(m * q)
    BY <2>1
  <2> QED
   BY <1>2, <2>1, <2>2 DEF TDiv
<1> QED
  BY <1>1, <1>2

-----------------------------------------------------------------------------
(* Variable length integers, for every integer of 64 bits and everything   *)
(* that may follow it on the stream.                                       *)
Septets == 0..127

\* The highest digit of an integer is one of its ten, and no digit above it counts.
LEMMA HighestIs ==
  ASSUME NEW digits \in [1..10 -> Septets]
  PROVE  Highest(digits) \in 1..10
<1> DEFINE S == {i \in 1..Len(digits) : digits[i] > 0}
<1>1. Len(digits) = 10
  OBVIOUS
<1>2. CASE S = {}
  BY <1>2 DEF Highest
<1>3. CASE S # {}
  <2>1. S \subseteq 1..10
    BY <1>1
  <2>2. \E x \in S : \A y \in S : x >= y
    <3> HIDE DEF S
    <3>1. \A y \in S : y \in {1, 2, 3, 4, 5, 6, 7, 8, 9, 10}
      BY <2>1
    <3> QED
      BY <1>3, <3>1, SMTT(60)
  <2> HIDE DEF S
  <2>3. Max(S) \in S
    BY <2>2 DEF Max
  <2> QED
    BY <1>3, <2>1, <2>3 DEF Highest, S
<1> QED
  BY <1>2, <1>3

\* Writers put as many octets as there are digits, but nine at most.
LEMMA Octets ==
  ASSUME NEW h \in 1..10
  PROVE  Min({h, MAX_OCTETS}) = IF h = 10 THEN 9 ELSE h
<1>1. CASE h = 10
  BY <1>1 DEF Min, MAX_OCTETS
<1>2. CASE h # 10
  BY <1>2 DEF Min, MAX_OCTETS
<1> QED
  BY <1>1, <1>2

\* A digit with or without the bit is an octet; taking the bit off gives the digit back.
LEMMA DigitOf ==
  ASSUME NEW d \in 0..127
  PROVE  /\ d \in Nat /\ d < 128 /\ d \in 0..255 /\ d + 128 \in 0..255
         /\ d % 128 = d /\ (d + 128) % 128 = d
  OBVIOUS

\* The end of a concatenation is what was appended.
LEMMA Appended ==
  ASSUME NEW S, NEW s \in Seq(S), NEW t \in Seq(S)
  PROVE  SubSeq(s \o t, Len(s) + 1, Len(s \o t)) = t
<1> DEFINE c == s \o t
           e == SubSeq(c, Len(s) + 1, Len(c))
<1>1. Len(s) \in Nat /\ Len(t) \in Nat
  OBVIOUS
<1>2. /\ c \in Seq(S) /\ Len(c) = Len(s) + Len(t)
      /\ \A i \in 1..Len(s) + Len(t) : c[i] = IF i <= Len(s) THEN s[i] ELSE t[i - Len(s)]
  BY ConcatProperties
<1> HIDE DEF c
<1>3. \A i \in 1..Len(t) : c[Len(s) + i] = t[i]
  <2> TAKE i \in 1..Len(t)
  <2>1. Len(s) + i \in 1..Len(s) + Len(t) /\ ~ (Len(s) + i <= Len(s)) /\ (Len(s) + i) - Len(s) = i
    BY <1>1
  <2> QED
    BY <1>2, <2>1, Zenon
<1>4. \A i \in Len(s) + 1..Len(c) : c[i] \in S
  BY <1>1, <1>2, ElementOfSeq
<1>5. /\ e \in Seq(S) /\ Len(e) = Len(t)
      /\ \A i \in 1..Len(t) : e[i] = c[Len(s) + i]
  <2>1. /\ e \in Seq(S) /\ Len(e) = IF Len(s) + 1 <= Len(c) THEN Len(c) - (Len(s) + 1) + 1 ELSE 0
        /\ \A i \in 1..Len(c) - (Len(s) + 1) + 1 : e[i] = c[Len(s) + 1 + i - 1]
    BY <1>1, <1>2, <1>4, SubSeqProperties
  <2> HIDE DEF e
  <2>2. Len(e) = Len(t)
    BY <1>1, <1>2, <2>1
  <2>3. \A i \in 1..Len(t) : i \in 1..Len(c) - (Len(s) + 1) + 1 /\ Len(s) + 1 + i - 1 = Len(s) + i
    BY <1>1, <1>2
  <2> QED
    BY <2>1, <2>2, <2>3, Zenon
<1> HIDE DEF e
<1>6. e = t
  BY <1>3, <1>5, SeqEqual
<1> QED
  BY <1>6 DEF e, c

\* What write_var_uint or put_var_uint writes, read_var_uint and try_get_var_uint read: up
\* to the ninth digit, and whatever follows is left on the stream.
LEMMA UintReadsBack ==
  ASSUME NEW digits \in [1..10 -> Septets], NEW rest \in Seq(0..255)
  PROVE  try_get_var_uint(put_var_uint(digits) \o rest) = Ok(Kept(digits), rest)
<1> DEFINE h == Highest(digits)
           n == Min({h, MAX_OCTETS})
           w == put_var_uint(digits)
           s == w \o rest
           ends == {i \in 1..Len(s) : s[i] < 128 \/ i = MAX_OCTETS}
<1>1. h \in 1..10 /\ n = (IF h = 10 THEN 9 ELSE h)
  BY HighestIs, Octets
<1>2. w = [i \in 1..n |-> digits[i] + (IF i < h THEN 128 ELSE 0)]
  BY DEF put_var_uint
<1> HIDE DEF h, n, w
<1>3. n \in 1..9 /\ n \in Nat /\ h \in Nat /\ n <= h /\ (n = 9 \/ n = h)
  BY <1>1
<1>4. \A i \in 1..n : /\ digits[i] \in 0..127 /\ digits[i] \in Nat /\ digits[i] < 128
                      /\ w[i] = digits[i] + (IF i < h THEN 128 ELSE 0)
  <2> TAKE i \in 1..n
  <2>1. i \in 1..10
    BY <1>3
  <2>2. digits[i] \in 0..127
    BY <2>1 DEF Septets
  <2>3. w[i] = digits[i] + (IF i < h THEN 128 ELSE 0)
    BY <1>2
  <2>4. digits[i] \in Nat /\ digits[i] < 128
    BY <2>2, DigitOf, Zenon
  <2> QED
    BY <2>2, <2>3, <2>4, Zenon
<1>5. \A i \in 1..n : w[i] \in 0..255
  <2> TAKE i \in 1..n
  <2>1. digits[i] \in 0..127 /\ (w[i] = digits[i] \/ w[i] = digits[i] + 128)
    BY <1>4
  <2>2. \A d \in 0..127 : d \in 0..255 /\ d + 128 \in 0..255
    OBVIOUS
  <2>3. digits[i] \in 0..255 /\ digits[i] + 128 \in 0..255
    BY <2>1, <2>2, Zenon
  <2> QED
    BY <2>1, <2>3, Zenon
<1>6. w \in Seq(0..255) /\ Len(w) = n
  <2>1. w \in [1..n -> 0..255]
    BY <1>2, <1>5
  <2> QED
    BY <1>3, <2>1
<1>7. /\ s \in Seq(0..255) /\ Len(s) = n + Len(rest) /\ Len(rest) \in Nat
      /\ \A i \in 1..n : s[i] = w[i]
  BY <1>3, <1>6
<1>8. SubSeq(s, n + 1, Len(s)) = rest
  BY <1>6, Appended
<1> HIDE DEF s
<1>9. \A i \in 1..n : i < n => ~ (s[i] < 128 \/ i = 9)
  <2> TAKE i \in 1..n
  <2> SUFFICES ASSUME i < n PROVE ~ (s[i] < 128 \/ i = 9)
    OBVIOUS
  <2>1. i < h /\ i # 9
    BY <1>3
  <2>2. s[i] = digits[i] + 128 /\ digits[i] \in Nat
    BY <1>4, <1>7, <2>1
  <2> QED
    BY <2>1, <2>2
<1>10. n = 9 \/ s[n] < 128
  <2> SUFFICES ASSUME n = h PROVE s[n] < 128
    BY <1>3
  <2>1. n \in 1..n /\ ~ (n < h)
    BY <1>3
  <2>2. s[n] = digits[n] + 0 /\ digits[n] \in Nat /\ digits[n] < 128
    BY <1>4, <1>7, <2>1
  <2> QED
    BY <2>2
<1>11. Min(ends) = n /\ ends # {}
  <2>1. n \in ends
    <3>1. n \in 1..Len(s)
      BY <1>3, <1>7
    <3> QED
      BY <1>10, <3>1 DEF MAX_OCTETS
  <2>2. \A i \in ends : i \in Nat /\ n <= i
    <3> TAKE i \in ends
    <3>1. i \in 1..Len(s) /\ (s[i] < 128 \/ i = 9)
      BY DEF MAX_OCTETS
    <3>2. i \in Nat /\ 1 <= i
      BY <1>3, <1>7, <3>1
    <3>3. ~ (i < n)
      BY <1>3, <1>9, <3>1, <3>2
    <3> QED
      BY <1>3, <3>2, <3>3
  <2> HIDE DEF ends
  <2>3. \A m \in ends : (\A y \in ends : m <= y) => m = n
    BY <1>3, <2>1, <2>2
  <2> QED
    BY <2>1, <2>2, <2>3 DEF Min
<1>12. try_get_var_uint(s) = Ok([i \in 1..n |-> s[i] % 128], SubSeq(s, n + 1, Len(s)))
  BY <1>11 DEF try_get_var_uint
<1>13. [i \in 1..n |-> s[i] % 128] = [i \in 1..n |-> digits[i]]
  <2>1. \A i \in 1..n : s[i] % 128 = digits[i]
    <3> TAKE i \in 1..n
    <3>1. digits[i] \in 0..127
      BY <1>4
    <3>2. s[i] = digits[i] \/ s[i] = digits[i] + 128
      BY <1>4, <1>7
    <3>3. digits[i] % 128 = digits[i] /\ (digits[i] + 128) % 128 = digits[i]
      BY <3>1, DigitOf, Zenon
    <3> QED
      BY <3>2, <3>3
  <2> QED
    BY <2>1
<1>14. SubSeq(digits, 1, n) = [i \in 1..n |-> digits[i]]
  <2>1. \A i \in 1..n : digits[i] \in Septets
    BY <1>3
  <2> DEFINE head == SubSeq(digits, 1, n)
  <2>2. head \in Seq(Septets) /\ Len(head) = n /\ \A i \in 1..n : head[i] = digits[i]
    <3>1. /\ head \in Seq(Septets) /\ Len(head) = IF 1 <= n THEN n - 1 + 1 ELSE 0
          /\ \A i \in 1..n - 1 + 1 : head[i] = digits[1 + i - 1]
      BY <1>3, <2>1, SubSeqProperties
    <3> HIDE DEF head
    <3> QED
      BY <1>3, <3>1
  <2> HIDE DEF head
  <2>3. head = [i \in 1..n |-> digits[i]]
    BY <1>3, <2>2
  <2> QED
    BY <2>3 DEF head
<1> QED
  BY <1>8, <1>12, <1>13, <1>14 DEF Kept, h, n, s, w

-----------------------------------------------------------------------------
(* What is made, by its kind: its value, and that it means what it should. *)
DateHeld(m) ==
    m.what \in {"days", "millis", "naive"} /\ m.out.st = "ok" =>
        LET n == m.out.v.x[1]
        IN /\ m.out.v.v = "Date" /\ n \in 0..U16 - 1
           /\ m.what = "days" => n = m.meant[1]
           /\ m.what = "millis" => n = IF m.meant[1] = -1 THEN 0 ELSE m.meant[1]
           /\ m.what = "naive" /\ m.meant[1] \in 0..U16 - 1 => n = m.meant[1]
Date32Held(m) ==
    m.what \in {"days32", "naive32"} /\ m.out.st = "ok" =>
        m.out.v.v = "Date32" /\ m.out.v.x[1] \in Int /\ m.meant[1] = m.out.v.x[1] - DAYS_1900_TO_1970
TimeHeld(m) ==
    m.what = "time" /\ m.out.st = "ok" =>
        /\ m.out.v.x[1] \in 0..U32 - 1
        /\ <<m.out.v.x[1], 0>> = IF m.meant[1] = -1 THEN <<0, 0>> ELSE Cut(m.meant, 0)
CastHeld(m) ==
    m.what = "cast" /\ m.out.st = "ok" /\ m.meant[1] \in 0..U32 - 1 => <<m.out.v.x[1], 0>> = Cut(m.meant, 0)
Time64Held(m) ==
    m.what = "time64" /\ m.out.st = "ok" =>
        /\ m.out.v.x[2] \in Precisions
        /\ chrono_of_datetime64(m.out.v) = m.meant
        /\ m.meant[1] \in Nat /\ m.meant[2] \in Nanos
        /\ Cut(m.meant, m.out.v.x[2]) = m.meant

Made(m) == m = [what |-> m.what, meant |-> m.meant, out |-> m.out]
DatesHeld(m) == DateHeld(m) /\ Date32Held(m) /\ TimeHeld(m) /\ CastHeld(m) /\ Time64Held(m)

\* What is not a date or a time holds nothing.
LEMMA NotDate ==
  ASSUME NEW m, m.what \in {"none", "number", "parts", "uint"}
  PROVE  DatesHeld(m)
BY DEF DatesHeld, DateHeld, Date32Held, TimeHeld, CastHeld, Time64Held

\* The instants of module Dates: what an instant of a precision is made of.
LEMMA DateTime64Is ==
  ASSUME NEW p \in Precisions, NEW s \in Nat, NEW f \in Nanos, NEW tz
  PROVE  LET m == s * TenTo[p] + f \div TenTo[9 - p]
             v == Zoned(Val("DateTime64", <<m, p>>), tz)
         IN /\ v.x[1] = m /\ v.x[2] = p
            /\ chrono_of_datetime64(v) = Cut(<<s, f>>, p)
            /\ Cut(<<s, f>>, p)[1] = s /\ Cut(<<s, f>>, p)[2] \in Nanos
            /\ Cut(Cut(<<s, f>>, p), p) = Cut(<<s, f>>, p)
<1> DEFINE m == s * TenTo[p] + f \div TenTo[9 - p]
           v == Zoned(Val("DateTime64", <<m, p>>), tz)
           back == (m % TenTo[p]) * TenTo[9 - p]
<1>1. /\ m \div TenTo[p] = s
      /\ back = (f \div TenTo[9 - p]) * TenTo[9 - p]
      /\ back \in Nanos
      /\ back = (back \div TenTo[9 - p]) * TenTo[9 - p]
  BY TicksMean
<1> HIDE DEF m
<1>2. v.x[1] = m /\ v.x[2] = p
  BY DEF Zoned, Val
<1> HIDE DEF v
<1>3. chrono_of_datetime64(v) = <<s, back>>
  BY <1>1, <1>2 DEF chrono_of_datetime64
<1>4. Cut(<<s, f>>, p) = <<s, back>> /\ Cut(<<s, back>>, p) = <<s, back>>
  BY <1>1 DEF Cut
<1> HIDE DEF back
<1> QED
  BY <1>1, <1>2, <1>3, <1>4 DEF m, v

\* What datetime64_try_from makes of an instant is the instant, cut to its digits.
LEMMA MadeFrom ==
  ASSUME NEW p \in Precisions, NEW at \in Int \X Nanos, NEW tz, datetime64_try_from(at, p, tz).st = "ok"
  PROVE  LET v == datetime64_try_from(at, p, tz).v
         IN /\ at[1] \in Nat /\ v.x[2] = p
            /\ chrono_of_datetime64(v) = Cut(at, p)
            /\ Cut(at, p)[1] = at[1] /\ Cut(at, p)[2] \in Nanos
            /\ Cut(Cut(at, p), p) = Cut(at, p)
<1>1. PICK s \in Int, f \in Nanos : at = <<s, f>>
  OBVIOUS
<1>2a. at[1] = s /\ at[2] = f
  BY <1>1
<1>3. ~ (p > 9)
  BY DEF Precisions
<1>2. s >= 0 /\ at[1] = s /\ at[2] = f
  <2>1. at[1] < 0 => datetime64_try_from(at, p, tz) = Bad
    BY <1>3 DEF datetime64_try_from
  <2>2. Bad.st = "err"
    BY DEF Bad, Fail
  <2> QED
    BY <1>2a, <2>1, <2>2
<1>4. datetime64_try_from(at, p, tz).v = Zoned(Val("DateTime64", <<s * TenTo[p] + f \div TenTo[9 - p], p>>), tz)
  BY <1>2, <1>3 DEF datetime64_try_from, Done, Ok
<1> QED
  BY <1>1, <1>2, <1>4, DateTime64Is

\* A day is what its constructor was given.
LEMMA DateIs ==
  ASSUME NEW d \in Int
  PROVE  /\ date_from_days(d).st = "ok" => d \in 0..U16 - 1
         /\ date_from_days(d).st = "ok" => date_from_days(d).v.v = "Date" /\ date_from_days(d).v.x[1] = d
         /\ date_from_naive(d).v.v = "Date" /\ date_from_naive(d).v.x[1] \in 0..U16 - 1
         /\ d \in 0..U16 - 1 => date_from_naive(d).v.x[1] = d
<1>1. U16 \in Nat \ {0}
  BY DateAssumption
<1>2. d % U16 \in 0..U16 - 1
  BY <1>1
<1>3. d \in 0..U16 - 1 => d % U16 = d
  <2>1. 0 * U16 + d = d
    BY <1>1
  <2> QED
    BY <1>1, <2>1, Division
<1> QED
  BY <1>1, <1>2, <1>3 DEF date_from_days, date_from_naive, Done, Panics, Val, Ok, Fail

\* The constructors of Date and Date32.
LEMMA DateHolds ==
  ASSUME NEW c \in DateMakers, c # "millis32", NEW day \in Days, MakeDate(c, day)
  PROVE  Made(made') /\ DatesHeld(made')
<1> DEFINE r == CASE c = "days" -> date_from_days(day)
                  [] c = "millis" -> date_from_millis(day * DAY_MS + DAY_MS - 1)
                  [] c = "naive" -> date_from_naive(day)
                  [] c = "days32" -> date32_from_days(day + DAYS_1900_TO_1970)
                  [] c = "millis32" -> date32_from_millis(day * DAY_MS)
                  [] c = "naive32" -> date32_from_naive(day)
<1>1. made' = [what |-> c, meant |-> <<day>>, out |-> r]
  BY DEF MakeDate
<1>2. day \in Int /\ c \in {"days", "millis", "naive", "days32", "naive32"} /\ DAY_MS \in Nat \ {0}
  BY MakerAssumption, DateAssumption
<1>3. c = "days" => r = date_from_days(day)
  OBVIOUS
<1>4. c = "millis" => r = date_from_millis(day * DAY_MS + DAY_MS - 1)
  OBVIOUS
<1>5. c = "naive" => r = date_from_naive(day)
  OBVIOUS
<1>6. c = "days32" => r = date32_from_days(day + DAYS_1900_TO_1970)
  OBVIOUS
<1>7. c = "naive32" => r = date32_from_naive(day)
  OBVIOUS
<1> HIDE DEF r
<1>8. /\ made'.what = c /\ made'.meant[1] = day /\ made'.out = r /\ Made(made')
  BY <1>1 DEF Made
<1>9. DateHeld(made')
  <2>1. CASE c = "days"
    BY <1>2, <1>3, <1>8, <2>1, DateIs DEF DateHeld
  <2>2. CASE c = "millis"
    <3> DEFINE n == TDiv(day * DAY_MS + DAY_MS - 1, DAY_MS)
    <3>1. n = IF day >= 0 \/ DAY_MS = 1 THEN day ELSE day + 1
      BY <1>2, Millis
    <3>2. r = date_from_days(n)
      BY <1>4, <2>2 DEF date_from_millis
    <3> HIDE DEF n
    <3>3. n \in Int
      BY <1>2, <3>1
    <3>4. r.st = "ok" => n \in 0..U16 - 1 /\ r.v.v = "Date" /\ r.v.x[1] = n
      BY <3>2, <3>3, DateIs
    <3>5. n \in 0..U16 - 1 => n = IF day = -1 THEN 0 ELSE day
      BY <1>2, <3>1
    <3> QED
      BY <1>8, <2>2, <3>4, <3>5 DEF DateHeld
  <2>3. CASE c = "naive"
    BY <1>2, <1>5, <1>8, <2>3, DateIs DEF DateHeld
  <2>4. CASE c \in {"days32", "naive32"}
    BY <1>8, <2>4 DEF DateHeld
  <2> QED
    BY <1>2, <2>1, <2>2, <2>3, <2>4
<1>10. Date32Held(made')
  <2>1. c \in {"days32", "naive32"} =>
           r.v.v = "Date32" /\ r.v.x[1] = day + DAYS_1900_TO_1970
    BY <1>6, <1>7 DEF date32_from_days, date32_from_naive, Done, Ok, Val
  <2> QED
    BY <1>2, <1>8, <2>1 DEF Date32Held, DAYS_1900_TO_1970
<1> QED
  BY <1>2, <1>8, <1>9, <1>10 DEF DatesHeld, TimeHeld, CastHeld, Time64Held

\* Seconds that a DateTime holds.
LEMMA SecondsIs ==
  ASSUME NEW s \in Int, NEW tz
  PROVE  /\ datetime_from_seconds(s, tz).st = "ok" => s \in 0..U32 - 1 /\ datetime_from_seconds(s, tz).v.x[1] = s
         /\ datetime_try_from(s, tz).st = "ok" => s \in 0..U32 - 1 /\ datetime_try_from(s, tz).v.x[1] = s
         /\ s \in 0..U32 - 1 => datetime_try_from(s, tz).v.x[1] = s /\ datetime_infallible(s, tz).v.x[1] = s
<1>1. U32 \in Nat \ {0}
  BY DateAssumption
<1>2. s \in 0..U32 - 1 => s % U32 = s
  <2>1. 0 * U32 + s = s
    BY <1>1
  <2> QED
    BY <1>1, <2>1, Division
<1> QED
  BY <1>1, <1>2 DEF datetime_from_seconds, datetime_try_from, datetime_infallible, Done, Bad, Panics, Zoned, Val, Ok, Fail

\* Without its fraction an instant is its seconds.
LEMMA Seconds ==
  ASSUME NEW at \in Int \X Nanos
  PROVE  Cut(at, 0) = <<at[1], 0>> /\ Cut(Cut(at, 0), 0) = Cut(at, 0)
<1>1. 0 \in Precisions /\ at[2] \in Nanos /\ 9 - 0 = 9
  BY DEF Precisions
<1>2. TenTo[9] \in Nat \ {0}
  BY Powers, 9 \in Nat
<1>3. at[2] \div TenTo[9] = 0 /\ 0 \div TenTo[9] = 0
  <2>1. at[2] = 0 * TenTo[9] + at[2] /\ 0 = 0 * TenTo[9] + 0 /\ 0 \in 0..TenTo[9] - 1
    BY <1>1, <1>2 DEF Nanos
  <2> QED
    BY <1>1, <1>2, <2>1, Division DEF Nanos
<1>4. 0 * TenTo[9] = 0
  BY <1>2
<1> QED
  BY <1>1, <1>3, <1>4 DEF Cut

\* A DateTime of seconds counted at any precision.
LEMMA TimeCounted ==
  ASSUME NEW at \in Int \X Nanos, NEW q \in Int, NEW tz,
         at[1] >= 0 => q = at[1],
         at[1] < 0 /\ q >= 0 => at[1] = -1 /\ q = 0,
         datetime_from_seconds(q, tz).st = "ok"
  PROVE  LET n == datetime_from_seconds(q, tz).v.x[1]
         IN n \in 0..U32 - 1 /\ <<n, 0>> = IF at[1] = -1 THEN <<0, 0>> ELSE Cut(at, 0)
<1>1. q \in 0..U32 - 1 /\ datetime_from_seconds(q, tz).v.x[1] = q
  BY SecondsIs
<1>2. at[1] \in Int /\ q >= 0
  BY <1>1, DateAssumption
<1>3. at[1] = -1 => q = 0
  BY <1>2
<1>4. at[1] # -1 => q = at[1]
  BY <1>2
<1> QED
  BY <1>1, <1>3, <1>4, Seconds

\* The constructors of DateTime.
LEMMA TimeHolds ==
  ASSUME NEW p \in Digits, NEW at \in Times, MakeTime(p, at, FALSE)
  PROVE  Made(made') /\ DatesHeld(made')
<1> DEFINE r == made'.out
<1>1. p \in {0, 3, 6, 9} /\ p \in Precisions /\ at \in Int \X Nanos /\ at[1] \in Int /\ at[2] \in Nanos
  BY MakerAssumption DEF Precisions
<1>2. made'.what = "time" /\ made'.meant = Cut(at, 0) /\ Made(made')
  BY DEF MakeTime, Made
<1>3. /\ p = 0 => r = datetime_from_seconds(at[1], "Europe/Paris")
      /\ p = 3 => r = datetime_from_seconds(TDiv(Ticks(at, 3), TenTo[3]), "UTC")
      /\ p = 6 => r = datetime_from_seconds(TDiv(Ticks(at, 6), TenTo[6]), "UTC")
      /\ p = 9 => r = datetime_from_seconds(TDiv(Ticks(at, 9), TenTo[9]), "UTC")
  BY <1>1 DEF MakeTime, datetime_from_millis, datetime_from_micros, datetime_from_nanos
<1> HIDE DEF r
<1> DEFINE q == TDiv(Ticks(at, p), TenTo[p])
<1>4. q \in Int /\ (at[1] >= 0 => q = at[1]) /\ (at[1] < 0 /\ q >= 0 => at[1] = -1 /\ q = 0)
  BY <1>1, TicksSplit DEF Ticks
<1>5. p # 0 => r = datetime_from_seconds(q, "UTC")
  BY <1>1, <1>3
<1> HIDE DEF q
<1>6. r.st = "ok" => r.v.x[1] \in 0..U32 - 1 /\ <<r.v.x[1], 0>> = IF at[1] = -1 THEN <<0, 0>> ELSE Cut(at, 0)
  <2>1. CASE p = 0
    <3>1. r = datetime_from_seconds(at[1], "Europe/Paris")
      BY <1>3, <2>1
    <3>2. r.st = "ok" => at[1] \in 0..U32 - 1
      BY <1>1, <3>1, SecondsIs
    <3>3. r.st = "ok" => at[1] >= 0
      BY <1>1, <3>2, DateAssumption
    <3> QED
      BY <1>1, <3>1, <3>3, TimeCounted
  <2>2. CASE p # 0
    BY <1>1, <1>4, <1>5, <2>2, TimeCounted
  <2> QED
    BY <2>1, <2>2
<1>7. Cut(made'.meant, 0) = Cut(at, 0) /\ made'.meant[1] = at[1]
  BY <1>1, <1>2, Seconds DEF Cut
<1> QED
  BY <1>2, <1>6, <1>7 DEF r, DatesHeld, DateHeld, Date32Held, TimeHeld, CastHeld, Time64Held

\* The constructors of DynDateTime64.
LEMMA Time64Holds ==
  ASSUME NEW p \in Digits, NEW at \in Times, MakeTime(p, at, TRUE)
  PROVE  Made(made') /\ DatesHeld(made')
<1> DEFINE r == made'.out
           n == Ticks(at, p)
<1>1. p \in {0, 3, 6, 9} /\ p \in Precisions /\ at \in Int \X Nanos /\ at[1] \in Int /\ at[2] \in Nanos
  BY MakerAssumption DEF Precisions
<1>2. made'.what = "time64" /\ made'.meant = Cut(at, p) /\ Made(made')
  BY DEF MakeTime, Made
<1>3. /\ p = 0 => r = dyn_from_ticks(at[1], 0, "UTC")
      /\ p = 3 => r = dyn_from_ticks(Ticks(at, 3), 3, "UTC")
      /\ p = 6 => r = dyn_from_ticks(Ticks(at, 6), 6, "UTC")
      /\ p = 9 => r = dyn_from_ticks(Ticks(at, 9), 9, "UTC")
  BY <1>1 DEF MakeTime, dyn_from_seconds, dyn_from_millis, dyn_from_micros, dyn_from_nanos
<1> HIDE DEF r
<1>4. n = at[1] * TenTo[p] + at[2] \div TenTo[9 - p] /\ n \in Int /\ (n >= 0 <=> at[1] >= 0)
  BY <1>1, TicksSplit DEF Ticks
<1>5. p = 0 => n = at[1]
  <2>1. TenTo[0] = 1 /\ 9 - 0 = 9 /\ TenTo[9] \in Nat \ {0}
    BY Powers, TenToIs, 9 \in Nat
  <2>2. at[2] \div TenTo[9] = 0
    <3>1. at[2] = 0 * TenTo[9] + at[2]
      BY <1>1, <2>1 DEF Nanos
    <3> QED
      BY <1>1, <2>1, <3>1, Division DEF Nanos
  <2> QED
    BY <1>1, <1>4, <2>1, <2>2
<1>6. r = dyn_from_ticks(n, p, "UTC")
  BY <1>1, <1>3, <1>5
<1> HIDE DEF n
<1>7. r.st = "ok" => n >= 0 /\ r.v = Zoned(Val("DateTime64", <<n, p>>), "UTC")
  BY <1>4, <1>6 DEF dyn_from_ticks, Done, Panics, Ok, Fail
<1>8. r.st = "ok" =>
         /\ r.v.x[2] = p /\ chrono_of_datetime64(r.v) = Cut(at, p)
         /\ Cut(at, p)[1] \in Nat /\ Cut(at, p)[2] \in Nanos /\ Cut(Cut(at, p), p) = Cut(at, p)
  <2> SUFFICES ASSUME r.st = "ok"
               PROVE  /\ r.v.x[2] = p /\ chrono_of_datetime64(r.v) = Cut(at, p)
                      /\ Cut(at, p)[1] \in Nat /\ Cut(at, p)[2] \in Nanos /\ Cut(Cut(at, p), p) = Cut(at, p)
    OBVIOUS
  <2>1. PICK s \in Int, f \in Nanos : at = <<s, f>>
    BY <1>1
  <2>2. at[1] = s /\ at[2] = f /\ s \in Nat
    BY <1>4, <1>7, <2>1
  <2> QED
    BY <1>1, <1>4, <1>7, <2>1, <2>2, DateTime64Is
<1> QED
  BY <1>1, <1>2, <1>8 DEF r, DatesHeld, DateHeld, Date32Held, TimeHeld, CastHeld, Time64Held

\* What is made from a chrono DateTime.
LEMMA ChronoHolds ==
  ASSUME NEW p \in Digits \union {2}, NEW at \in Times, NEW c \in {"time", "cast", "time64"}, MakeFromChrono(c, p, at)
  PROVE  Made(made') /\ DatesHeld(made')
<1> DEFINE r == made'.out
<1>1. p \in {0, 2, 3, 6, 9} /\ p \in Precisions /\ at \in Int \X Nanos /\ at[1] \in Int /\ at[2] \in Nanos
  BY MakerAssumption DEF Precisions
<1>2. made'.what = c /\ made'.meant = Cut(at, p) /\ Made(made')
  BY DEF MakeFromChrono, Made
<1>3. /\ c = "time" /\ p = 0 => r = datetime_try_from(at[1], "UTC")
      /\ c = "cast" /\ p = 0 => r = datetime_infallible(at[1], "UTC")
      /\ c = "time64" /\ p # 6 => r = datetime64_try_from(at, p, "Europe/Paris")
      /\ c = "time64" /\ p = 6 => r = micros_of_chrono(at, "Europe/Paris")
      /\ c # "time64" /\ p # 0 => r = Bad
  BY DEF MakeFromChrono
<1> HIDE DEF r
<1>4. Bad.st # "ok"
  BY DEF Bad, Fail
<1>5. CASE c = "time"
  <2> SUFFICES ASSUME r.st = "ok"
               PROVE  /\ r.v.x[1] \in 0..U32 - 1
                      /\ <<r.v.x[1], 0>> = IF Cut(at, p)[1] = -1 THEN <<0, 0>> ELSE Cut(Cut(at, p), 0)
    BY <1>2, <1>5 DEF r, DatesHeld, DateHeld, Date32Held, TimeHeld, CastHeld, Time64Held
  <2>1. p = 0 /\ r = datetime_try_from(at[1], "UTC")
    BY <1>3, <1>4, <1>5
  <2>2. at[1] \in 0..U32 - 1 /\ r.v.x[1] = at[1]
    BY <1>1, <2>1, SecondsIs
  <2>3. at[1] # -1
    BY <2>2, DateAssumption
  <2>4. Cut(at, 0) = <<at[1], 0>> /\ Cut(Cut(at, 0), 0) = Cut(at, 0)
    BY <1>1, Seconds
  <2> QED
    BY <2>1, <2>2, <2>3, <2>4
<1>6. CASE c = "cast"
  <2> SUFFICES ASSUME r.st = "ok", Cut(at, p)[1] \in 0..U32 - 1
               PROVE  <<r.v.x[1], 0>> = Cut(Cut(at, p), 0)
    BY <1>2, <1>6 DEF r, DatesHeld, DateHeld, Date32Held, TimeHeld, CastHeld, Time64Held
  <2>1. p = 0 /\ r = datetime_infallible(at[1], "UTC")
    BY <1>3, <1>4, <1>6
  <2>2. Cut(at, 0) = <<at[1], 0>> /\ Cut(Cut(at, 0), 0) = Cut(at, 0)
    BY <1>1, Seconds
  <2>3. at[1] \in 0..U32 - 1
    BY <2>1, <2>2
  <2> QED
    BY <1>1, <2>1, <2>2, <2>3, SecondsIs
<1>7. CASE c = "time64"
  <2>1. p = 6 => micros_of_chrono(at, "Europe/Paris") = datetime64_try_from(at, p, "Europe/Paris")
    <3>1. 9 - 6 = 3 /\ ~ (6 > 9)
      OBVIOUS
    <3> QED
      BY <3>1 DEF micros_of_chrono, datetime64_try_from
  <2>2. r = datetime64_try_from(at, p, "Europe/Paris")
    BY <1>3, <1>7, <2>1
  <2>3. r.st = "ok" =>
           /\ r.v.x[2] = p /\ chrono_of_datetime64(r.v) = Cut(at, p)
           /\ Cut(at, p)[1] \in Nat /\ Cut(at, p)[2] \in Nanos /\ Cut(Cut(at, p), p) = Cut(at, p)
    BY <1>1, <2>2, MadeFrom
  <2> QED
    BY <1>1, <1>2, <1>7, <2>3 DEF r, DatesHeld, DateHeld, Date32Held, TimeHeld, CastHeld, Time64Held
<1> QED
  BY <1>2, <1>5, <1>6, <1>7

\* A trip through serde gives the same day, and the same instant at the digits that are kept.
LEMMA SerdeHolds ==
  ASSUME Serde, Made(made), DatesHeld(made), "millis32" \notin DateMakers
  PROVE  /\ Made(made') /\ DatesHeld(made')
         /\ made'.what = made.what /\ made.what \notin {"none", "number", "parts", "uint"}
<1>1. made.out.st = "ok" /\ made = [what |-> made.what, meant |-> made.meant, out |-> made.out]
  BY DEF Serde, Made
<1>2. DateMakers \subseteq {"days", "millis", "naive", "days32", "naive32"}
  BY MakerAssumption
<1>3. CASE made.what \in DateMakers /\ made.out.v.v = "Date" /\ made' = [made EXCEPT !.out = date_serde(made.out.v)]
  <2>1. made' = [what |-> made.what, meant |-> made.meant, out |-> date_serde(made.out.v)]
    BY <1>1, <1>3
  <2>2. made.what \in {"days", "millis", "naive"}
    <3>1. made.what \in {"days32", "naive32"} => made.out.v.v = "Date32"
      BY <1>1 DEF DatesHeld, Date32Held
    <3> QED
      BY <1>2, <1>3, <3>1
  <2> DEFINE n == made.out.v.x[1]
             r == date_serde(made.out.v)
  <2>3. /\ n \in 0..U16 - 1
        /\ made.what = "days" => n = made.meant[1]
        /\ made.what = "millis" => n = IF made.meant[1] = -1 THEN 0 ELSE made.meant[1]
        /\ made.what = "naive" /\ made.meant[1] \in 0..U16 - 1 => n = made.meant[1]
    BY <1>1, <2>2 DEF DatesHeld, DateHeld
  <2>4. r = date_from_naive(n)
    BY DEF date_serde, naive_of_date
  <2> HIDE DEF n, r
  <2>5. n \in Int
    BY <2>3, DateAssumption
  <2>6. r.v.v = "Date" /\ r.v.x[1] = n
    BY <2>3, <2>4, <2>5, DateIs
  <2>7. made'.what = made.what /\ made'.meant = made.meant /\ made'.out = r /\ Made(made')
    BY <2>1 DEF Made, r
  <2> QED
    BY <2>2, <2>3, <2>6, <2>7 DEF DatesHeld, DateHeld, Date32Held, TimeHeld, CastHeld, Time64Held
<1>4. CASE made.what \in DateMakers /\ made.out.v.v = "Date32" /\ made' = [made EXCEPT !.out = date32_serde(made.out.v)]
  <2>1. made' = [what |-> made.what, meant |-> made.meant, out |-> date32_serde(made.out.v)]
    BY <1>1, <1>4
  <2>2. made.what \in {"days32", "naive32"}
    <3>1. made.what \in {"days", "millis", "naive"} => made.out.v.v = "Date"
      BY <1>1 DEF DatesHeld, DateHeld
    <3> QED
      BY <1>2, <1>4, <3>1
  <2> DEFINE n == made.out.v.x[1]
             r == date32_serde(made.out.v)
  <2>3. n \in Int /\ made.meant[1] = n - DAYS_1900_TO_1970
    BY <1>1, <2>2 DEF DatesHeld, Date32Held
  <2>4. r.v.v = "Date32" /\ r.v.x[1] = (n - DAYS_1900_TO_1970) + DAYS_1900_TO_1970
    BY DEF date32_serde, naive_of_date32, date32_from_naive, Done, Ok, Val
  <2> HIDE DEF n, r
  <2>5. r.v.v = "Date32" /\ r.v.x[1] = n
    BY <2>3, <2>4 DEF DAYS_1900_TO_1970
  <2>6. made'.what = made.what /\ made'.meant = made.meant /\ made'.out = r /\ Made(made')
    BY <2>1 DEF Made, r
  <2> QED
    BY <2>2, <2>3, <2>5, <2>6 DEF DatesHeld, DateHeld, Date32Held, TimeHeld, CastHeld, Time64Held
<1>5. CASE made.what = "time" /\ made' = [made EXCEPT !.out = datetime_serde(made.out.v)]
  <2>1. made' = [what |-> made.what, meant |-> made.meant, out |-> datetime_serde(made.out.v)]
    BY <1>1, <1>5
  <2> DEFINE n == made.out.v.x[1]
             r == datetime_serde(made.out.v)
  <2>2. n \in 0..U32 - 1 /\ <<n, 0>> = IF made.meant[1] = -1 THEN <<0, 0>> ELSE Cut(made.meant, 0)
    BY <1>1, <1>5 DEF DatesHeld, TimeHeld
  <2>3. r = datetime_try_from(n, "UTC")
    BY DEF datetime_serde, chrono_of_datetime
  <2> HIDE DEF n, r
  <2>4. n \in Int
    BY <2>2, DateAssumption
  <2>5. r.v.x[1] = n
    BY <2>2, <2>3, <2>4, SecondsIs
  <2>6. made'.what = made.what /\ made'.meant = made.meant /\ made'.out = r /\ Made(made')
    BY <2>1 DEF Made, r
  <2> QED
    BY <1>5, <2>2, <2>5, <2>6 DEF DatesHeld, DateHeld, Date32Held, TimeHeld, CastHeld, Time64Held
<1>6. CASE /\ made.what = "time64"
           /\ \/ made' = [made EXCEPT !.out = datetime64_serde(made.out.v)]
              \/ made' = [made EXCEPT !.out = dyn_serde(made.out.v), !.meant = Cut(made.meant, 6)]
  <2> DEFINE p == made.out.v.x[2]
             at == made.meant
  <2>1. /\ p \in Precisions /\ chrono_of_datetime64(made.out.v) = at
        /\ at[1] \in Nat /\ at[2] \in Nanos /\ Cut(at, p) = at
    BY <1>1, <1>6 DEF DatesHeld, Time64Held
  <2>2. at \in Int \X Nanos
    <3>1. chrono_of_datetime64(made.out.v) = <<at[1], at[2]>>
      BY <2>1 DEF chrono_of_datetime64
    <3> QED
      BY <2>1, <3>1
  <2>3. PICK k \in Precisions : /\ k = 6 \/ k = p
                                /\ made' = [what |-> made.what, meant |-> Cut(at, k), out |-> datetime64_try_from(at, k, "UTC")]
    <3>1. 6 \in Precisions
      BY DEF Precisions
    <3>2. CASE made' = [made EXCEPT !.out = datetime64_serde(made.out.v)]
      <4>1. made' = [what |-> made.what, meant |-> made.meant, out |-> datetime64_serde(made.out.v)]
        BY <1>1, <3>2
      <4> QED
        BY <2>1, <4>1 DEF datetime64_serde
    <3>3. CASE made' = [made EXCEPT !.out = dyn_serde(made.out.v), !.meant = Cut(made.meant, 6)]
      <4>1. made' = [what |-> made.what, meant |-> Cut(at, 6), out |-> dyn_serde(made.out.v)]
        BY <1>1, <3>3
      <4> QED
        BY <2>1, <3>1, <4>1 DEF dyn_serde
    <3> QED
      BY <1>6, <3>2, <3>3
  <2> DEFINE r == datetime64_try_from(at, k, "UTC")
  <2>4. made'.what = "time64" /\ made'.meant = Cut(at, k) /\ made'.out = r /\ Made(made')
    BY <1>6, <2>3 DEF Made
  <2> HIDE DEF p, at
  <2>5. r.st = "ok" =>
           /\ at[1] \in Nat /\ r.v.x[2] = k /\ chrono_of_datetime64(r.v) = Cut(at, k)
           /\ Cut(at, k)[1] = at[1] /\ Cut(at, k)[2] \in Nanos /\ Cut(Cut(at, k), k) = Cut(at, k)
    BY <2>2, MadeFrom
  <2> HIDE DEF r
  <2> QED
    BY <1>6, <2>4, <2>5 DEF DatesHeld, DateHeld, Date32Held, TimeHeld, CastHeld, Time64Held
<1> QED
  BY <1>2, <1>3, <1>4, <1>5, <1>6 DEF Serde

-----------------------------------------------------------------------------
(* Numbers of 256 bits and of a fixed point.                                 *)
\* Half of a word: the sign of its highest bit.
LEMMA HalfWord == /\ WORD \in Nat /\ WORD \div 2 \in Nat /\ WORD = 2 * (WORD \div 2) /\ WORD \div 2 > 10
                  /\ \A n \in 0..WORD - 1 : n % WORD = n
<1>1. WORD \in Nat /\ WORD > 20 /\ WORD % 2 = 0
  BY NumberAssumption
<1>2. WORD = 2 * (WORD \div 2) + (WORD % 2) /\ WORD \div 2 \in Nat
  BY <1>1
<1>3. ASSUME NEW n \in 0..WORD - 1
      PROVE  n % WORD = n
  <2>1. (0 * WORD + n) % WORD = n
    BY <1>1, Division
  <2> QED
    BY <1>1, <2>1
<1> QED
  BY <1>1, <1>2, <1>3

Magnitude(i) == IF is_negative(i) THEN Negated(i)[2] ELSE i[2]

\* An i128 as an i256: its sign, its absolute value, and its negative.
LEMMA SignAndMagnitude ==
  ASSUME NEW n \in Int, FitsI128(n)
  PROVE  LET i == i256_from_i128(n)
         IN /\ i \in (0..WORD - 1) \X (0..WORD - 1)
            /\ is_negative(i) <=> n < 0
            /\ Magnitude(i) = Abs(n) /\ Abs(n) \in 0..WORD \div 2
            /\ n < 0 => Negated(i) = <<0, -n>>
<1> DEFINE H == WORD \div 2
           i == i256_from_i128(n)
<1>1. H \in Nat /\ WORD = 2 * H /\ H > 10 /\ -H <= n /\ n < H
  BY HalfWord DEF FitsI128
<1>2. CASE n >= 0
  <2>1. i = <<0, n>>
    BY <1>2 DEF i256_from_i128
  <2>2. ~ is_negative(i) /\ i[2] = n
    BY <1>1, <2>1 DEF is_negative
  <2>3. i \in (0..WORD - 1) \X (0..WORD - 1)
    BY <1>1, <1>2, <2>1
  <2>4. Magnitude(i) = n /\ Abs(n) = n
    BY <1>2, <2>2 DEF Magnitude, Abs
  <2> HIDE DEF i
  <2> QED
    BY <1>1, <1>2, <2>2, <2>3, <2>4 DEF i
<1>3. CASE n < 0
  <2>1. i = <<WORD - 1, WORD + n>>
    BY <1>3 DEF i256_from_i128
  <2>2. is_negative(i)
    BY <1>1, <2>1 DEF is_negative
  <2>3. WORD - (WORD + n) = -n /\ -n \in 0..WORD - 1 /\ 0 \in 0..WORD - 1
    BY <1>1, <1>3
  <2>4. (WORD - (WORD + n)) % WORD = -n /\ 0 % WORD = 0
    BY <2>3, HalfWord
  <2>5. WORD - 1 - (WORD - 1) + 0 = 0 /\ -n # 0
    BY <1>1, <1>3
  <2>6. Negated(i) = <<0, -n>>
    BY <2>1, <2>4, <2>5 DEF Negated
  <2>7. i \in (0..WORD - 1) \X (0..WORD - 1)
    BY <1>1, <1>3, <2>1
  <2>8. Magnitude(i) = -n /\ Abs(n) = -n
    BY <1>3, <2>2, <2>6 DEF Magnitude, Abs
  <2> HIDE DEF i
  <2> QED
    BY <1>1, <1>3, <2>2, <2>6, <2>7, <2>8 DEF i
<1> QED
  BY <1>1, <1>2, <1>3

\* The product of two numbers that an i128 holds is itself if one holds it, but that of
\* zero and a negative number.
LEMMA Product ==
  ASSUME NEW v \in Int, NEW w \in Int, FitsI128(v), FitsI128(w), FitsI128(v * w)
  PROVE  LET p == i256_mul(i256_from_i128(v), i256_from_i128(w))
         IN p = i256_from_i128(v * w) \/ (v * w = 0 /\ p = <<WORD - 1, 0>>)
<1> DEFINE a == i256_from_i128(v)
           b == i256_from_i128(w)
           low == (Magnitude(a) * Magnitude(b)) % WORD
           p == i256_mul(a, b)
<1>1. /\ (is_negative(a) <=> v < 0) /\ Magnitude(a) = Abs(v)
      /\ (is_negative(b) <=> w < 0) /\ Magnitude(b) = Abs(w)
  BY SignAndMagnitude
<1>2. p = IF is_negative(a) # is_negative(b) THEN <<WORD - 1, (WORD - low) % WORD>> ELSE <<0, low>>
  BY DEF i256_mul, Magnitude
<1>3. v * w \in Int /\ Abs(v) * Abs(w) = Abs(v * w)
  <2>1. CASE v < 0 /\ w < 0
    <3>1. v * w > 0 /\ (-v) * (-w) = v * w
      BY <2>1
    <3> QED
      BY <2>1, <3>1 DEF Abs
  <2>2. CASE v < 0 /\ w >= 0
    <3>1. v * w <= 0 /\ (-v) * w = -(v * w)
      BY <2>2
    <3> QED
      BY <2>2, <3>1 DEF Abs
  <2>3. CASE v >= 0 /\ w < 0
    <3>1. v * w <= 0 /\ v * (-w) = -(v * w)
      BY <2>3
    <3> QED
      BY <2>3, <3>1 DEF Abs
  <2>4. CASE v >= 0 /\ w >= 0
    <3>1. v * w >= 0
      BY <2>4
    <3> QED
      BY <2>4, <3>1 DEF Abs
  <2> QED
    BY <2>1, <2>2, <2>3, <2>4
<1>4. Abs(v * w) \in 0..WORD - 1 /\ Abs(v * w) <= WORD \div 2
  BY <1>3, SignAndMagnitude, HalfWord
<1>5. low = Abs(v * w)
  BY <1>1, <1>3, <1>4, HalfWord
<1> HIDE DEF low, a, b, p
<1>6. CASE (v < 0) = (w < 0)
  <2>1. v * w >= 0
    <3>1. CASE v < 0 /\ w < 0
      BY <3>1
    <3>2. CASE v >= 0 /\ w >= 0
      BY <3>2
    <3> QED
      BY <1>6, <3>1, <3>2
  <2>2. p = <<0, low>>
    BY <1>1, <1>2, <1>6 DEF is_negative
  <2>3. p = <<0, v * w>>
    BY <1>3, <1>5, <2>1, <2>2 DEF Abs
  <2> QED
    BY <1>3, <2>1, <2>3 DEF p, a, b, i256_from_i128
<1>7. CASE (v < 0) # (w < 0)
  <2>1. v * w <= 0
    <3>1. CASE v < 0 /\ w >= 0
      BY <3>1
    <3>2. CASE v >= 0 /\ w < 0
      BY <3>2
    <3> QED
      BY <1>7, <3>1, <3>2
  <2>2. p = <<WORD - 1, (WORD - low) % WORD>>
    BY <1>1, <1>2, <1>7 DEF is_negative
  <2>3. CASE v * w = 0
    <3>1. low = 0 /\ (1 * WORD + 0) % WORD = 0
      BY <1>5, <2>3, HalfWord, Division DEF Abs
    <3>2. (WORD - low) % WORD = 0
      BY <3>1, HalfWord
    <3> QED
      BY <2>2, <2>3, <3>2 DEF p, a, b
  <2>4. CASE v * w < 0
    <3>1. WORD - low = WORD + v * w /\ WORD + v * w \in 0..WORD - 1
      BY <1>3, <1>4, <1>5, <2>4, HalfWord DEF Abs
    <3>2. (WORD - low) % WORD = WORD + v * w
      BY <3>1, HalfWord
    <3> QED
      BY <2>2, <2>4, <3>2 DEF p, a, b, i256_from_i128
  <2> QED
    BY <1>3, <2>1, <2>3, <2>4
<1> QED
  BY <1>6, <1>7

\* Only the sign bits and the low half of a product are set.
LEMMA ProductType ==
  ASSUME NEW a \in (0..WORD - 1) \X (0..WORD - 1), NEW b \in (0..WORD - 1) \X (0..WORD - 1)
  PROVE  i256_mul(a, b) \in (0..WORD - 1) \X (0..WORD - 1)
<1>1. WORD \in Nat \ {0} /\ \A n \in Int : n % WORD \in 0..WORD - 1
  <2>1. WORD \in Nat \ {0}
    BY HalfWord
  <2> QED
    BY <2>1
<1>2. ASSUME NEW i \in (0..WORD - 1) \X (0..WORD - 1)
      PROVE  Magnitude(i) \in Int
  <2>1. i[2] \in Int
    OBVIOUS
  <2>2. Negated(i)[2] = (WORD - i[2]) % WORD /\ WORD - i[2] \in Int
    BY <1>1, <2>1 DEF Negated
  <2> QED
    BY <1>1, <2>1, <2>2 DEF Magnitude
<1> DEFINE low == (Magnitude(a) * Magnitude(b)) % WORD
<1>3. low \in 0..WORD - 1
  BY <1>1, <1>2
<1>4. i256_mul(a, b) = IF is_negative(a) # is_negative(b) THEN <<WORD - 1, (WORD - low) % WORD>> ELSE <<0, low>>
  BY DEF i256_mul, Magnitude
<1> HIDE DEF low
<1>5. (WORD - low) % WORD \in 0..WORD - 1 /\ WORD - 1 \in 0..WORD - 1 /\ 0 \in 0..WORD - 1
  BY <1>1, <1>3
<1> QED
  BY <1>3, <1>4, <1>5

\* Ten times and again: exact as long as an i128 holds what comes out.
LEMMA WidenedIs ==
  ASSUME NEW v \in Int, FitsI128(v), NEW n \in Nat, FitsI128(v * TenTo[n])
  PROVE  Widened(v, n) = i256_from_i128(v * TenTo[n])
<1> DEFINE S == (0..WORD - 1) \X (0..WORD - 1)
           ten == i256_from_i128(10)
           step == [k \in Nat |-> [i \in S |-> i256_mul(i, ten)]]
<1>1. /\ 10 \in Int /\ FitsI128(10) /\ WORD \div 2 \in Nat
  BY HalfWord DEF FitsI128
<1>2. i256_from_i128(v) \in S /\ ten \in S
  BY <1>1, SignAndMagnitude
<1> HIDE DEF ten
<1>3. step \in [Nat -> [S -> S]] /\ \A k \in Nat, i \in S : step[k][i] = i256_mul(i, ten)
  BY <1>2, ProductType
<1> HIDE DEF step, S
<1>4. PICK f : Recursive(S, i256_from_i128(v), step, f)
  BY <1>2, <1>3, Recursion
<1>5. f \in [Nat -> S] /\ f[0] = i256_from_i128(v) /\ \A k \in Nat : f[k + 1] = i256_mul(f[k], ten)
  BY <1>3, <1>4 DEF Recursive
<1> DEFINE wide[k \in Nat] == IF k = 0 THEN i256_from_i128(v) ELSE i256_mul(wide[k - 1], ten)
<1>6. \A k \in Nat : f[k] = IF k = 0 THEN i256_from_i128(v) ELSE i256_mul(f[k - 1], ten)
  <2> TAKE k \in Nat
  <2>1. CASE k = 0
    BY <1>5, <2>1
  <2>2. CASE k # 0
    <3>1. k - 1 \in Nat /\ (k - 1) + 1 = k
      BY <2>2
    <3> QED
      BY <1>5, <2>2, <3>1
  <2> QED
    BY <2>1, <2>2
<1>7. f = [k \in Nat |-> IF k = 0 THEN i256_from_i128(v) ELSE i256_mul(f[k - 1], ten)]
  BY <1>5, <1>6
<1>8. wide = [k \in Nat |-> IF k = 0 THEN i256_from_i128(v) ELSE i256_mul(wide[k - 1], ten)]
  BY <1>7
<1>9. Widened(v, n) = wide[n]
  BY DEF Widened, ten
<1> HIDE DEF wide
<1>10. wide[0] = i256_from_i128(v) /\ \A k \in Nat : wide[k + 1] = i256_mul(wide[k], ten)
  <2>1. \A k \in Nat : wide[k] = IF k = 0 THEN i256_from_i128(v) ELSE i256_mul(wide[k - 1], ten)
    BY <1>8
  <2>2. \A k \in Nat : k + 1 \in Nat /\ k + 1 # 0 /\ (k + 1) - 1 = k
    OBVIOUS
  <2> QED
    BY <2>1, <2>2
<1> DEFINE T == {k \in Nat : FitsI128(v * TenTo[k]) => wide[k] = i256_from_i128(v * TenTo[k])}
<1>11. 0 \in T
  <2>1. v * TenTo[0] = v
    BY TenToIs
  <2> QED
    BY <1>10, <2>1
<1>12. ASSUME NEW k \in Nat, k \in T
       PROVE  k + 1 \in T
  <2> SUFFICES ASSUME FitsI128(v * TenTo[k + 1]) PROVE wide[k + 1] = i256_from_i128(v * TenTo[k + 1])
    OBVIOUS
  <2> DEFINE x == v * TenTo[k]
  <2>1. TenTo[k] \in Nat \ {0} /\ TenTo[k + 1] = 10 * TenTo[k]
    BY TenToIs, Powers
  <2>2. \A u \in Int, t \in Nat : u * t \in Int /\ u * (10 * t) = (u * t) * 10 /\ (u * t = 0 => u = 0 \/ t = 0)
    OBVIOUS
  <2>3. x \in Int /\ v * TenTo[k + 1] = x * 10 /\ (x = 0 => v = 0)
    BY <2>1, <2>2
  <2> HIDE DEF x
  <2>4. FitsI128(x * 10) /\ FitsI128(x)
    BY <1>1, <2>3 DEF FitsI128
  <2>5. wide[k] = i256_from_i128(x)
    BY <1>12, <2>4 DEF x
  <2>6. wide[k + 1] = i256_mul(i256_from_i128(x), ten)
    BY <1>10, <2>5
  <2>7. CASE x = 0
    <3>1. i256_from_i128(0) = <<0, 0>> /\ ten = <<0, 10>>
      BY DEF ten, i256_from_i128
    <3>2. ~ is_negative(<<0, 0>>) /\ ~ is_negative(<<0, 10>>)
      BY HalfWord DEF is_negative
    <3>3. (0 * 10) % WORD = 0
      BY HalfWord
    <3>4. Magnitude(<<0, 0>>) = 0 /\ Magnitude(<<0, 10>>) = 10
      BY <3>2 DEF Magnitude
    <3>5. i256_mul(<<0, 0>>, <<0, 10>>) = <<0, (Magnitude(<<0, 0>>) * Magnitude(<<0, 10>>)) % WORD>>
      <4> DEFINE a == <<0, 0>>
                 b == <<0, 10>>
                 low == (Magnitude(a) * Magnitude(b)) % WORD
      <4>1. i256_mul(a, b) = IF is_negative(a) # is_negative(b) THEN <<WORD - 1, (WORD - low) % WORD>> ELSE <<0, low>>
        BY DEF i256_mul, Magnitude
      <4> HIDE DEF low, a, b
      <4> QED
        BY <3>2, <4>1 DEF is_negative, low, a, b
    <3>6. i256_mul(<<0, 0>>, <<0, 10>>) = <<0, 0>>
      BY <3>3, <3>4, <3>5
    <3> QED
      BY <2>3, <2>6, <2>7, <3>1, <3>6
  <2>8. CASE x # 0
    <3>1. x * 10 # 0
      BY <2>3, <2>8
    <3> QED
      BY <1>1, <2>3, <2>4, <2>6, <3>1, Product DEF ten
  <2> QED
    BY <2>7, <2>8
<1> HIDE DEF T
<1>13. Nat \subseteq T
  BY <1>11, <1>12, Inductive
<1> QED
  BY <1>9, <1>13 DEF T

NumberHeld(m) ==
    /\ m.what = "number" /\ m.out.st = "ok"
    /\ FitsI128(m.meant[1]) /\ m.meant[3] <= MAX_POW /\ m.out.v # <<WORD - 1, 0>>
    => m.meant[1] \in Int /\ m.out.v = i256_from_i128(m.meant[1])
FixedHeld(m) ==
    m.what = "parts" => LET v == m.out.v
                        IN /\ v[1] * modulus(m.meant[2]) + v[2] = m.meant[1]
                           /\ Abs(v[2]) < modulus(m.meant[2])
                           /\ v[2] = 0 \/ (v[2] < 0) = (m.meant[1] < 0)
UintHeld(m) == m.what = "uint" => m.out = Ok(Kept(m.meant[1]), m.meant[2])

\* What is not a number holds nothing of one.
LEMMA NotNumber ==
  ASSUME NEW m, m.what \notin {"number", "parts", "uint"}
  PROVE  NumberHeld(m) /\ FixedHeld(m) /\ UintHeld(m)
BY DEF NumberHeld, FixedHeld, UintHeld

\* FixedPoint256::from_parts, in its three cases.
LEMMA NumberHolds ==
  ASSUME NEW scale \in Scales, NEW e \in Exponents, NEW v \in Mantissas, NEW checks \in BOOLEAN,
         MakeNumber(scale, v, e, checks)
  PROVE  Made(made') /\ DatesHeld(made') /\ NumberHeld(made') /\ FixedHeld(made') /\ UintHeld(made')
<1> DEFINE n == IF scale >= e THEN v * TenTo[scale - e] ELSE TDiv(v, TenTo[e - scale])
           cut == IF scale >= e THEN 0 ELSE e - scale
           r == from_decimal(scale, <<v, e>>, checks)
           power == I128(TenTo[-(scale - e)], checks)
           scaled == IF scale - e >= 0 THEN I128(v * TenTo[scale - e], checks)
                     ELSE IF power.st # "ok" THEN power ELSE DivI128(v, power.v)
<1>1. made' = [what |-> "number", meant |-> <<n, scale, cut>>, out |-> r]
  BY DEF MakeNumber
<1>2. v \in Int /\ FitsI128(v) /\ scale \in Nat /\ e \in Int /\ MAX_POW \in Nat
  BY MakerAssumption, NumberAssumption
<1>3. r = IF scale - e > MAX_POW THEN Done(Widened(v, scale - e))
          ELSE IF scaled.st # "ok" THEN scaled ELSE Done(i256_from_i128(scaled.v))
  BY DEF from_decimal, from_parts
<1>4. n \in Int /\ (r.st = "ok" /\ FitsI128(n) /\ cut <= MAX_POW => r.v = i256_from_i128(n))
  <2>1. CASE scale - e > MAX_POW
    <3>1. scale - e \in Nat /\ scale >= e /\ TenTo[scale - e] \in Nat
      BY <1>2, <2>1, TenToIs
    <3>2. n = v * TenTo[scale - e]
      BY <3>1
    <3>3. r = Done(Widened(v, scale - e))
      BY <1>3, <2>1
    <3> HIDE DEF n, r, cut
    <3>4. FitsI128(n) => Widened(v, scale - e) = i256_from_i128(n)
      BY <1>2, <3>1, <3>2, WidenedIs
    <3> QED
      BY <1>2, <3>1, <3>2, <3>3, <3>4 DEF Done, Ok
  <2>2. CASE scale - e >= 0 /\ ~ (scale - e > MAX_POW)
    <3>1. scale - e \in Nat /\ scale >= e /\ TenTo[scale - e] \in Nat
      BY <1>2, <2>2, TenToIs
    <3>2. n = v * TenTo[scale - e]
      BY <3>1
    <3>3. scaled = I128(n, checks)
      BY <2>2, <3>2
    <3> HIDE DEF n, r, cut, scaled
    <3>4. FitsI128(n) => scaled = Done(n)
      BY <3>3 DEF I128
    <3>5. n \in Int
      BY <1>2, <3>1, <3>2
    <3> QED
      BY <1>3, <2>2, <3>4, <3>5 DEF Done, Ok
  <2>3. CASE ~ (scale - e >= 0)
    <3>1. e - scale \in Nat /\ ~ (scale >= e) /\ -(scale - e) = e - scale /\ ~ (scale - e > MAX_POW)
      BY <1>2, <2>3
    <3>2. n = TDiv(v, TenTo[e - scale]) /\ cut = e - scale
      BY <3>1
    <3>3. TenTo[e - scale] \in Nat \ {0}
      BY <3>1, Powers
    <3>4. power = I128(TenTo[e - scale], checks)
      BY <3>1
    <3>5. scaled = IF power.st # "ok" THEN power ELSE DivI128(v, power.v)
      BY <2>3
    <3> HIDE DEF n, r, cut, scaled, power
    <3>6. n \in Int
      BY <1>2, <3>2, <3>3, Remainder
    <3>7. ASSUME cut <= MAX_POW PROVE scaled = Done(n)
      <4>1. e - scale \in 0..MAX_POW
        BY <1>2, <3>1, <3>2, <3>7
      <4>2. TenTo[e - scale] < WORD \div 2
        BY <4>1, NumberAssumption
      <4>3. FitsI128(TenTo[e - scale])
        BY <3>3, <4>2, HalfWord DEF FitsI128
      <4>4. power.st = "ok" /\ power.v = TenTo[e - scale]
        BY <3>4, <4>3 DEF I128, Done, Ok
      <4>5. DivI128(v, power.v) = Done(n)
        BY <3>2, <3>3, <4>4 DEF DivI128
      <4> QED
        BY <3>5, <4>4, <4>5
    <3> QED
      BY <1>3, <3>1, <3>6, <3>7 DEF Done, Ok
  <2> QED
    BY <2>1, <2>2, <2>3
<1> HIDE DEF n, r, cut
<1>5. /\ made'.what = "number" /\ made'.meant[1] = n /\ made'.meant[2] = scale /\ made'.meant[3] = cut
      /\ made'.out = r
  BY <1>1
<1>6. Made(made')
  BY <1>1, <1>5 DEF Made
<1>7. NumberHeld(made')
  BY <1>4, <1>5 DEF NumberHeld
<1> QED
  BY <1>5, <1>6, <1>7, NotDate DEF FixedHeld, UintHeld

\* Mul of two numbers of scale 0.
LEMMA ProductHolds ==
  ASSUME NEW v \in Mantissas, NEW w \in Mantissas, MakeProduct(v, w)
  PROVE  Made(made') /\ DatesHeld(made') /\ NumberHeld(made') /\ FixedHeld(made') /\ UintHeld(made')
<1> DEFINE p == i256_mul(i256_from_i128(v), i256_from_i128(w))
<1>1. v \in Int /\ w \in Int /\ FitsI128(v) /\ FitsI128(w)
  BY MakerAssumption
<1>2. i256_from_scaled(w, 0) = i256_from_i128(w)
  <2>1. w * TenTo[0] = w
    BY <1>1, TenToIs
  <2> QED
    BY <2>1 DEF i256_from_scaled
<1>3. made' = [what |-> "number", meant |-> <<v * w, 0, 0>>, out |-> Done(p)]
  BY <1>2 DEF MakeProduct
<1>4. v * w \in Int /\ (FitsI128(v * w) /\ p # <<WORD - 1, 0>> => p = i256_from_i128(v * w))
  BY <1>1, Product
<1> HIDE DEF p
<1>5. made'.what = "number" /\ made'.meant[1] = v * w /\ made'.meant[2] = 0 /\ made'.out.v = p
  BY <1>3 DEF Done, Ok
<1>6. Made(made')
  BY <1>3, <1>5 DEF Made
<1>7. NumberHeld(made')
  BY <1>4, <1>5 DEF NumberHeld
<1> QED
  BY <1>5, <1>6, <1>7, NotDate DEF FixedHeld, UintHeld

\* The parts of a fixed point number.
LEMMA FixedHolds ==
  ASSUME NEW scale \in Scales, NEW v \in Mantissas, MakeFixed(scale, v)
  PROVE  Made(made') /\ DatesHeld(made') /\ NumberHeld(made') /\ FixedHeld(made') /\ UintHeld(made')
<1> DEFINE q == integer(scale, v)
           f == fraction(scale, v)
           m == TenTo[scale]
<1>1. made' = [what |-> "parts", meant |-> <<v, scale>>, out |-> Done(<<q, f>>)]
  BY DEF MakeFixed
<1>2. v \in Int /\ scale \in Nat /\ m \in Nat \ {0}
  BY MakerAssumption, Powers
<1>3. q = TDiv(v, m) /\ f = v - q * m
  BY DEF integer, fraction, modulus
<1> HIDE DEF q, f, m
<1>4. q \in Int /\ f \in Int /\ -m < f /\ f < m /\ (f = 0 \/ (f < 0) = (v < 0))
  BY <1>2, <1>3, Remainder
<1>5. q * m + f = v /\ Abs(f) < m
  <2>1. q * m \in Int
    BY <1>2, <1>4
  <2> QED
    BY <1>2, <1>3, <1>4, <2>1 DEF Abs
<1>6. /\ made'.what = "parts" /\ made'.meant[1] = v /\ made'.meant[2] = scale
      /\ made'.out.v[1] = q /\ made'.out.v[2] = f
  BY <1>1 DEF Done, Ok
<1>7. Made(made')
  <2>1. made'.meant = <<v, scale>> /\ made'.out = Done(<<q, f>>)
    BY <1>1
  <2> QED
    BY <1>1, <1>6, <2>1 DEF Made
<1>8. FixedHeld(made')
  BY <1>4, <1>5, <1>6 DEF FixedHeld, modulus, m
<1> QED
  BY <1>6, <1>7, <1>8, NotDate DEF NumberHeld, UintHeld

\* A variable length integer on its way over the stream.
LEMMA UintHolds ==
  ASSUME NEW digits \in Uints, NEW rest \in Following, SendUint(digits, rest)
  PROVE  Made(made') /\ DatesHeld(made') /\ NumberHeld(made') /\ FixedHeld(made') /\ UintHeld(made')
<1>0. Following \subseteq Seq(0..255)
  BY DEF Following
<1>1. digits \in [1..10 -> 0..127] /\ rest \in Seq(0..255)
  BY <1>0, MakerAssumption
<1>2. made' = [what |-> "uint", meant |-> <<digits, rest>>, out |-> Ok(Kept(digits), rest)]
  BY <1>1, UintReadsBack DEF SendUint, Septets
<1>3. made'.what = "uint" /\ made'.meant = <<digits, rest>> /\ made'.out = Ok(Kept(digits), rest)
  BY <1>2
<1>4. Made(made')
  BY <1>2, <1>3 DEF Made
<1> QED
  BY <1>3, <1>4, NotDate DEF NumberHeld, FixedHeld, UintHeld

-----------------------------------------------------------------------------
\* A trip through serde changes no number.
LEMMA SerdeKeeps ==
  ASSUME Serde, Made(made)
  PROVE  Made(made') /\ made'.what = made.what /\ made.what \in DateMakers \union {"time", "time64"}
<1>1. made.what \in DateMakers \union {"time", "time64"}
  BY DEF Serde
<1>2. ASSUME NEW out, made' = [made EXCEPT !.out = out]
      PROVE  Made(made') /\ made'.what = made.what
  <2>1. made' = [what |-> made.what, meant |-> made.meant, out |-> out]
    BY <1>2 DEF Made
  <2> QED
    BY <2>1 DEF Made
<1>3. ASSUME NEW out, NEW meant, made' = [made EXCEPT !.out = out, !.meant = meant]
      PROVE  Made(made') /\ made'.what = made.what
  <2>1. made' = [what |-> made.what, meant |-> meant, out |-> out]
    BY <1>3 DEF Made
  <2> QED
    BY <2>1 DEF Made
<1>4. CASE made' = [made EXCEPT !.out = dyn_serde(made.out.v), !.meant = Cut(made.meant, 6)]
  BY <1>1, <1>3, <1>4
<1>5. CASE made' # [made EXCEPT !.out = dyn_serde(made.out.v), !.meant = Cut(made.meant, 6)]
  <2>1. \E out : made' = [made EXCEPT !.out = out]
    BY <1>5 DEF Serde
  <2> QED
    BY <1>1, <1>2, <2>1
<1> QED
  BY <1>4, <1>5

\* Whatever is made holds what its kind says, and serde takes nothing of it away.
NumberInv == /\ Made(made) /\ made.what \in DateMakers \union {"none", "time", "cast", "time64", "number", "parts", "uint"}
             /\ NumberHeld(made) /\ FixedHeld(made) /\ UintHeld(made)
DateInv == DatesHeld(made) /\ made.what # "millis32"

\* Nothing is made at first.
LEMMA ValueInit == MakerInit => NumberInv /\ DateInv
<1> SUFFICES ASSUME MakerInit PROVE NumberInv /\ DateInv
  OBVIOUS
<1>1. made.what = "none" /\ Made(made)
  BY DEF MakerInit, Nothing, Made
<1> QED
  BY <1>1, NotDate, NotNumber DEF NumberInv, DateInv

\* Every step keeps what numbers and variable length integers hold.
LEMMA NumberStep ==
  ASSUME NumberInv, [MakerNext]_made
  PROVE  NumberInv'
<1>0. DateMakers \subseteq {"days", "millis", "naive", "days32", "millis32", "naive32"}
  BY MakerAssumption
<1>1. ASSUME NEW c \in DateMakers \union {"time", "cast", "time64"}, NEW meant, NEW out,
             made' = [what |-> c, meant |-> meant, out |-> out]
      PROVE  NumberInv'
  <2>1. made'.what = c /\ Made(made') /\ c \notin {"number", "parts", "uint"}
    BY <1>0, <1>1 DEF Made
  <2> QED
    BY <2>1, NotNumber DEF NumberInv
<1>2. ASSUME NEW c \in DateMakers, NEW d \in Days, MakeDate(c, d)
      PROVE  NumberInv'
  BY <1>1, <1>2 DEF MakeDate
<1>3. ASSUME NEW p \in Digits, NEW at \in Times, NEW dyn \in BOOLEAN, MakeTime(p, at, dyn)
      PROVE  NumberInv'
  <2>1. "time" \in DateMakers \union {"time", "cast", "time64"} /\ "time64" \in DateMakers \union {"time", "cast", "time64"}
    OBVIOUS
  <2>2. CASE dyn
    BY <1>1, <1>3, <2>1, <2>2 DEF MakeTime
  <2>3. CASE ~dyn
    BY <1>1, <1>3, <2>1, <2>3 DEF MakeTime
  <2> QED
    BY <2>2, <2>3
<1>4. ASSUME NEW p \in Digits \union {2}, NEW at \in Times, NEW c \in {"time", "cast", "time64"},
             MakeFromChrono(c, p, at)
      PROVE  NumberInv'
  BY <1>1, <1>4 DEF MakeFromChrono
<1>5. CASE Serde
  <2>1. Made(made') /\ made'.what = made.what /\ made.what \in DateMakers \union {"time", "time64"}
    BY <1>5, SerdeKeeps DEF NumberInv
  <2>2. made.what \notin {"number", "parts", "uint"}
    BY <1>0, <2>1
  <2> QED
    BY <2>1, <2>2, NotNumber DEF NumberInv
<1>6. ASSUME NEW s \in Scales, NEW e \in Exponents, NEW v \in Mantissas, NEW checks \in BOOLEAN,
             MakeNumber(s, v, e, checks)
      PROVE  NumberInv'
  <2>1. made'.what = "number"
    BY <1>6 DEF MakeNumber
  <2> QED
    BY <1>6, <2>1, NumberHolds DEF NumberInv
<1>7. ASSUME NEW v \in Mantissas, NEW w \in Mantissas, MakeProduct(v, w)
      PROVE  NumberInv'
  <2>1. made'.what = "number"
    BY <1>7 DEF MakeProduct
  <2> QED
    BY <1>7, <2>1, ProductHolds DEF NumberInv
<1>8. ASSUME NEW s \in Scales, NEW v \in Mantissas, MakeFixed(s, v)
      PROVE  NumberInv'
  <2>1. made'.what = "parts"
    BY <1>8 DEF MakeFixed
  <2> QED
    BY <1>8, <2>1, FixedHolds DEF NumberInv
<1>9. ASSUME NEW digits \in Uints, NEW rest \in Following, SendUint(digits, rest)
      PROVE  NumberInv'
  <2>1. made'.what = "uint"
    BY <1>9 DEF SendUint
  <2> QED
    BY <1>9, <2>1, UintHolds DEF NumberInv
<1>10. CASE UNCHANGED made
  BY <1>10 DEF NumberInv, Made, NumberHeld, FixedHeld, UintHeld
<1> QED
  BY <1>2, <1>3, <1>4, <1>5, <1>6, <1>7, <1>8, <1>9, <1>10 DEF MakerNext

\* Every step keeps what dates and times hold.
LEMMA DateStep ==
  ASSUME NumberInv, DateInv, [MakerNext]_made, "millis32" \notin DateMakers
  PROVE  DateInv'
<1>1. ASSUME NEW c \in DateMakers, NEW d \in Days, MakeDate(c, d)
      PROVE  DateInv'
  <2>1. made'.what = c /\ c # "millis32"
    BY <1>1 DEF MakeDate
  <2> QED
    BY <1>1, <2>1, DateHolds DEF DateInv
<1>2. ASSUME NEW p \in Digits, NEW at \in Times, NEW dyn \in BOOLEAN, MakeTime(p, at, dyn)
      PROVE  DateInv'
  <2>1. made'.what \in {"time", "time64"}
    BY <1>2 DEF MakeTime
  <2>2. CASE dyn
    BY <1>2, <2>1, <2>2, Time64Holds DEF DateInv
  <2>3. CASE ~dyn
    BY <1>2, <2>1, <2>3, TimeHolds DEF DateInv
  <2> QED
    BY <2>2, <2>3
<1>3. ASSUME NEW p \in Digits \union {2}, NEW at \in Times, NEW c \in {"time", "cast", "time64"},
             MakeFromChrono(c, p, at)
      PROVE  DateInv'
  <2>1. made'.what = c
    BY <1>3 DEF MakeFromChrono
  <2> QED
    BY <1>3, <2>1, ChronoHolds DEF DateInv
<1>4. CASE Serde
  BY <1>4, SerdeHolds DEF NumberInv, DateInv
<1>5. CASE made'.what \in {"number", "parts", "uint"}
  BY <1>5, NotDate DEF DateInv
<1>6. CASE UNCHANGED made
  BY <1>6 DEF DateInv, DatesHeld, DateHeld, Date32Held, TimeHeld, CastHeld, Time64Held
<1>7. \/ \E s \in Scales, e \in Exponents, v \in Mantissas, checks \in BOOLEAN : MakeNumber(s, v, e, checks)
      \/ \E v, w \in Mantissas : MakeProduct(v, w)
      \/ \E s \in Scales, v \in Mantissas : MakeFixed(s, v)
      \/ \E digits \in Uints, rest \in Following : SendUint(digits, rest)
      => made'.what \in {"number", "parts", "uint"}
  <2>1. \A c, meant, out : made' = [what |-> c, meant |-> meant, out |-> out] => made'.what = c
    OBVIOUS
  <2>2. (\E s \in Scales, e \in Exponents, v \in Mantissas, checks \in BOOLEAN : MakeNumber(s, v, e, checks)) => made'.what = "number"
    BY <2>1 DEF MakeNumber
  <2>3. (\E v, w \in Mantissas : MakeProduct(v, w)) => made'.what = "number"
    BY <2>1 DEF MakeProduct
  <2>4. (\E s \in Scales, v \in Mantissas : MakeFixed(s, v)) => made'.what = "parts"
    BY <2>1 DEF MakeFixed
  <2>5. (\E digits \in Uints, rest \in Following : SendUint(digits, rest)) => made'.what = "uint"
    BY <2>1 DEF SendUint
  <2> QED
    BY <2>2, <2>3, <2>4, <2>5
<1> QED
  BY <1>1, <1>2, <1>3, <1>4, <1>5, <1>6, <1>7 DEF MakerNext

\* The invariant of numbers, for all constructors.
LEMMA NumberInvariant == MakerSpec => []NumberInv
<1>1. MakerInit => NumberInv
  BY ValueInit
<1>2. NumberInv /\ [MakerNext]_made => NumberInv'
  BY NumberStep
<1> QED
  BY <1>1, <1>2, PTL DEF MakerSpec

\* The one of dates, without the constructor that miscounts.
LEMMA DateInvariant ==
  ASSUME "millis32" \notin DateMakers
  PROVE  MakerSpec => []DateInv
<1>1. MakerInit => DateInv
  BY ValueInit
<1>2. NumberInv /\ DateInv /\ [MakerNext]_made => DateInv'
  BY DateStep
<1>3. MakerSpec => []NumberInv
  BY NumberInvariant
<1> QED
  BY <1>1, <1>2, <1>3, PTL DEF MakerSpec

\* What it says of dates and times.
LEMMA DatesFollow ==
  ASSUME DateInv
  PROVE  DatesMean
<1>1. DateHeld(made) /\ Date32Held(made) /\ TimeHeld(made) /\ CastHeld(made) /\ Time64Held(made)
  BY DEF DateInv, DatesHeld
<1>2. made.what # "millis32"
  BY DEF DateInv
<1> SUFFICES ASSUME made.out.st = "ok"
             PROVE  LET v == made.out.v
                    IN /\ made.what = "days" => naive_of_date(v) = made.meant[1]
                       /\ made.what = "millis" => naive_of_date(v) = IF made.meant[1] = -1 THEN 0 ELSE made.meant[1]
                       /\ made.what = "naive" /\ made.meant[1] \in 0..U16 - 1 => naive_of_date(v) = made.meant[1]
                       /\ made.what \in {"days32", "millis32", "naive32"} => naive_of_date32(v) = made.meant[1]
                       /\ made.what = "time" => chrono_of_datetime(v) = IF made.meant[1] = -1 THEN <<0, 0>> ELSE Cut(made.meant, 0)
                       /\ made.what = "cast" /\ made.meant[1] \in 0..U32 - 1 => chrono_of_datetime(v) = Cut(made.meant, 0)
                       /\ made.what = "time64" => chrono_of_datetime64(v) = made.meant
  BY DEF DatesMean
<1> DEFINE v == made.out.v
<1>3. made.what = "days" => naive_of_date(v) = made.meant[1]
  BY <1>1 DEF DateHeld, naive_of_date
<1>4. made.what = "millis" => naive_of_date(v) = IF made.meant[1] = -1 THEN 0 ELSE made.meant[1]
  BY <1>1 DEF DateHeld, naive_of_date
<1>5. made.what = "naive" /\ made.meant[1] \in 0..U16 - 1 => naive_of_date(v) = made.meant[1]
  BY <1>1 DEF DateHeld, naive_of_date
<1>6. made.what \in {"days32", "millis32", "naive32"} => naive_of_date32(v) = made.meant[1]
  BY <1>1, <1>2 DEF Date32Held, naive_of_date32
<1>7. made.what = "time" => chrono_of_datetime(v) = IF made.meant[1] = -1 THEN <<0, 0>> ELSE Cut(made.meant, 0)
  BY <1>1 DEF TimeHeld, chrono_of_datetime
<1>8. made.what = "cast" /\ made.meant[1] \in 0..U32 - 1 => chrono_of_datetime(v) = Cut(made.meant, 0)
  BY <1>1 DEF CastHeld, chrono_of_datetime
<1>9. made.what = "time64" => chrono_of_datetime64(v) = made.meant
  BY <1>1 DEF Time64Held
<1> QED
  BY <1>3, <1>4, <1>5, <1>6, <1>7, <1>8, <1>9

\* What it says of numbers: to_decimal gives back what the words of an i256 stand for.
LEMMA NumbersFollow ==
  ASSUME NumberInv
  PROVE  NumbersExact
<1> DEFINE v == made.out.v
           n == made.meant[1]
           scale == made.meant[2]
           raw256 == to_decimal(scale, v)
<1>1. NumberHeld(made) /\ FixedHeld(made)
  BY DEF NumberInv
<1>2. ASSUME made.what = "number", made.out.st = "ok", FitsI128(n), made.meant[3] <= MAX_POW, v # <<WORD - 1, 0>>
      PROVE  (raw256.st = "ok" => raw256.v = <<n, scale>>) /\ is_negative(v) = (n < 0)
  <2>1. n \in Int /\ v = i256_from_i128(n)
    BY <1>1, <1>2 DEF NumberHeld
  <2>2. is_negative(v) <=> n < 0
    BY <1>2, <2>1, SignAndMagnitude
  <2>3. decimal_of(n, scale).st = "ok" => decimal_of(n, scale).v = <<n, scale>>
    BY DEF decimal_of, Bad, Fail, Done, Ok
  <2>4. raw256.st = "ok" => raw256 = decimal_of(n, scale)
    <3> DEFINE H == WORD \div 2
    <3>0. H \in Nat /\ WORD = 2 * H /\ H > 10 /\ -H <= n /\ n < H /\ MAX_I128_REPR \in Nat /\ MAX_I128_REPR < H
      BY <1>2, <2>1, HalfWord, NumberAssumption DEF FitsI128
    <3>1. CASE n >= 0
      <4>1. v = <<0, n>>
        BY <2>1, <3>1 DEF i256_from_i128
      <4>2. v[1] = 0 /\ v[2] = n /\ v[1] \in {0, WORD - 1} /\ ~ is_negative(v) /\ ~ (n >= H)
        <5>1. v[1] = 0 /\ v[2] = n
          BY <4>1
        <5> HIDE DEF v
        <5> QED
          BY <2>1, <2>2, <3>0, <3>1, <5>1
      <4> HIDE DEF v, n, scale
      <4> QED
        BY <4>2 DEF to_decimal, FromWord
    <3>2. CASE n < 0
      <4>1. v = <<WORD - 1, WORD + n>> /\ Negated(v) = <<0, -n>>
        BY <1>2, <2>1, <3>2, SignAndMagnitude DEF i256_from_i128
      <4>2. v[1] \in {0, WORD - 1} /\ is_negative(v) /\ Negated(v)[1] = 0 /\ Negated(v)[2] = -n
        BY <2>2, <3>2, <4>1
      <4> HIDE DEF v
      <4>3. raw256 = decimal_of(-(IF -n >= H THEN -n - WORD ELSE -n), scale)
        BY <4>2 DEF to_decimal, FromWord
      <4>4. CASE -n >= H
        <5>1. n = -H /\ -(-n - WORD) = H
          BY <2>1, <3>0, <4>4
        <5>2. decimal_of(H, scale) = Bad
          BY <3>0 DEF decimal_of
        <5>3. Bad.st # "ok"
          BY DEF Bad, Fail
        <5>4. raw256 = decimal_of(-(-n - WORD), scale)
          BY <4>3, <4>4
        <5> QED
          BY <5>1, <5>2, <5>3, <5>4
      <4>5. CASE ~ (-n >= H)
        <5>1. -(-n) = n
          BY <2>1
        <5> QED
          BY <4>3, <4>5, <5>1
      <4> QED
        BY <4>4, <4>5
    <3> QED
      BY <2>1, <3>1, <3>2
  <2> HIDE DEF raw256
  <2> QED
    BY <2>1, <2>2, <2>3, <2>4 DEF is_negative
<1> QED
  BY <1>1, <1>2 DEF NumbersExact, FixedHeld

\* Dates and times mean what they were made from: for every width of the integers that
\* hold them, every day and every instant, through the constructors, the conversions of
\* chrono and any number of trips through serde.  The constructor of a Date32 from
\* milliseconds is left out: it counts from 1970 what it should count from 1900.
THEOREM DatesMeanAlways ==
  ASSUME "millis32" \notin DateMakers
  PROVE  MakerSpec => []DatesMean
<1>1. MakerSpec => []DateInv
  BY DateInvariant
<1>2. DateInv => DatesMean
  BY DatesFollow
<1> QED
  BY <1>1, <1>2, PTL

\* 256-bit numbers made by from_parts, From<i128> and Mul, and the integer and the
\* fraction of a fixed point number, are exact: for every word, scale and mantissa, with
\* overflow checks or without, and for exponents of either sign as the code takes them,
\* up to MAX_POW digits cut off: beyond, 10i128.pow overflows.
THEOREM NumbersExactAlways == MakerSpec => []NumbersExact
<1>1. MakerSpec => []NumberInv
  BY NumberInvariant
<1>2. NumberInv => NumbersExact
  BY NumbersFollow
<1> QED
  BY <1>1, <1>2, PTL

\* What write_var_uint or put_var_uint writes, read_var_uint and try_get_var_uint read,
\* for every integer of 64 bits.
THEOREM UintsReadBackAlways == MakerSpec => []UintsReadBack
<1>1. MakerSpec => []NumberInv
  BY NumberInvariant
<1>2. NumberInv => UintsReadBack
  BY DEF NumberInv, UintHeld, UintsReadBack
<1> QED
  BY <1>1, <1>2, PTL
=============================================================================
