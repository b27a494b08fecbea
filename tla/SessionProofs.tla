--------------------------- MODULE SessionProofs ---------------------------
(***************************************************************************)
(* The stream from the client to the server, for every pair of peers and   *)
(* every sequence of queries.                                              *)
(*                                                                         *)
(*    Meeting     the hellos and the addendum: both frame alike            *)
(*    Reading     the queries not yet run are what is on the stream        *)
(*    Effective   a query runs with its settings, those the client left    *)
(*                out among them                                           *)
(*                                                                         *)
(* The lemmas in front of them say what is read of what is written, layout *)
(* by layout: a span of cells that has a layout's widths is read as its    *)
(* fields and leaves what follows.  Lists of settings have no bound, so    *)
(* their readers and writers are followed step by step, by induction over  *)
(* the steps.  That a reader of blocks reads the empty block that ends a   *)
(* query is taken as a hypothesis: which reader and writer of blocks there *)
(* are is a parameter of the session.                                      *)
(***************************************************************************)
EXTENDS ClientSession, NaturalsInduction, SequenceTheorems, WellFoundedInduction, TLAPS

-----------------------------------------------------------------------------
(* Induction.                                                              *)
\* Of the numbers that are not in a set one is the least: what a counterexample to an
\* induction over the natural numbers is.
LEMMA LeastNot ==
  ASSUME NEW T, NEW a \in Nat, a \notin T
  PROVE  \E n \in Nat : n \notin T /\ (n > 0 => n - 1 \in T)
<1> DEFINE R == {ss \in Nat \X Nat : ss[1] < ss[2]}
           C == {n \in Nat : n \notin T}
<1>1. IsWellFoundedOn(R, Nat)
  BY NatLessThanWellFounded DEF OpToRel
<1>2. a \in C /\ C \subseteq Nat
  OBVIOUS
<1>3. \A x, y \in Nat : y < x => <<y, x>> \in R
  OBVIOUS
<1> HIDE DEF R, C
<1>4. PICK x \in C : \A y \in C : ~(<<y, x>> \in R)
  BY <1>1, <1>2, WFMin
<1>5. x \in Nat /\ x \notin T
  BY <1>2 DEF C
<1>6. x > 0 => x - 1 \in T
  <2> SUFFICES ASSUME x > 0, x - 1 \notin T PROVE FALSE
    OBVIOUS
  <2>1. x - 1 \in Nat /\ x - 1 < x
    BY <1>5
  <2>2. x - 1 \in C
    BY <2>1 DEF C
  <2> QED
    BY <1>3, <1>4, <1>5, <2>1, <2>2
<1> QED
  BY <1>5, <1>6

\* Induction over the natural numbers, for a set.
LEMMA Inductive ==
  ASSUME NEW T, 0 \in T, \A n \in Nat : n \in T => n + 1 \in T
  PROVE  Nat \subseteq T
<1> SUFFICES ASSUME NEW a \in Nat, a \notin T PROVE FALSE
  OBVIOUS
<1>1. PICK n \in Nat : n \notin T /\ (n > 0 => n - 1 \in T)
  BY LeastNot
<1>2. n > 0
  BY <1>1
<1>3. n - 1 \in Nat /\ (n - 1) + 1 = n
  BY <1>2
<1> QED
  BY <1>1, <1>2, <1>3

-----------------------------------------------------------------------------
(* Sequences, and a reader's place in one.                                 *)
\* A sequence of some set.
IsSeq(s) == \E S : s \in Seq(S)

\* A concatenation is one sequence after the other.
LEMMA Concatenation ==
  ASSUME NEW a, NEW b, IsSeq(a), IsSeq(b)
  PROVE  /\ IsSeq(a \o b) /\ Len(a) \in Nat /\ Len(b) \in Nat
         /\ Len(a \o b) = Len(a) + Len(b)
         /\ \A i \in 1..Len(a) : (a \o b)[i] = a[i]
         /\ \A i \in 1..Len(b) : (a \o b)[Len(a) + i] = b[i]
<1>1. PICK S, T : a \in Seq(S) /\ b \in Seq(T)
  BY DEF IsSeq
<1> DEFINE U == S \union T
<1>2. a \in Seq(U) /\ b \in Seq(U)
  BY <1>1
<1> HIDE DEF U
<1>3. Len(a) \in Nat /\ Len(b) \in Nat
  BY <1>2
<1> DEFINE c == a \o b
<1>4. /\ c \in Seq(U) /\ Len(c) = Len(a) + Len(b)
      /\ \A i \in 1..Len(a) + Len(b) : c[i] = IF i <= Len(a) THEN a[i] ELSE b[i - Len(a)]
  BY <1>2, ConcatProperties
<1> HIDE DEF c
<1>5. \A i \in 1..Len(a) : c[i] = a[i]
  BY <1>3, <1>4
<1>6. ASSUME NEW i \in 1..Len(b)
      PROVE  c[Len(a) + i] = b[i]
  <2>1. Len(a) + i \in 1..Len(a) + Len(b) /\ ~ (Len(a) + i <= Len(a)) /\ (Len(a) + i) - Len(a) = i
    BY <1>3
  <2> QED
    BY <1>4, <2>1, Zenon
<1>7. IsSeq(c)
  BY <1>4 DEF IsSeq
<1> QED
  BY <1>3, <1>4, <1>5, <1>6, <1>7 DEF c

\* What is left of a sequence from a place on.
At(s, k) == SubSeq(s, k, Len(s))

\* Where a reader is in a sequence: at its cells, one after another, and then at its end.
LEMMA Place ==
  ASSUME NEW s, IsSeq(s)
  PROVE  /\ At(s, 1) = s /\ At(s, Len(s) + 1) = <<>>
         /\ \A k \in 1..Len(s) : At(s, k) # <<>> /\ Head(At(s, k)) = s[k] /\ Tail(At(s, k)) = At(s, k + 1)
         /\ \A k \in 1..Len(s) + 1 : IsSeq(At(s, k)) /\ Len(At(s, k)) = Len(s) + 1 - k
<1>1. PICK S : s \in Seq(S)
  BY DEF IsSeq
<1>2. Len(s) \in Nat /\ \A i \in 1..Len(s) : s[i] \in S
  BY <1>1
<1>3. ASSUME NEW k \in 1..Len(s) + 1
      PROVE  /\ At(s, k) \in Seq(S) /\ Len(At(s, k)) = Len(s) + 1 - k
             /\ \A i \in 1..Len(s) + 1 - k : At(s, k)[i] = s[k + i - 1]
  <2>1. \A i \in k..Len(s) : s[i] \in S
    BY <1>2
  <2> DEFINE e == At(s, k)
  <2>2. /\ e \in Seq(S) /\ Len(e) = IF k <= Len(s) THEN Len(s) - k + 1 ELSE 0
        /\ \A i \in 1..Len(s) - k + 1 : e[i] = s[k + i - 1]
    BY <1>2, <2>1, SubSeqProperties DEF At
  <2> HIDE DEF e
  <2>3. Len(s) - k + 1 = Len(s) + 1 - k /\ k \in Nat
    BY <1>2
  <2>4. Len(e) = Len(s) + 1 - k
    BY <1>2, <2>2, <2>3
  <2>5. \A i \in 1..Len(s) + 1 - k : e[i] = s[k + i - 1]
    BY <2>2, <2>3
  <2> QED
    BY <2>2, <2>4, <2>5 DEF e
<1>4. At(s, 1) = s
  <2> DEFINE e == At(s, 1)
  <2>1. e \in Seq(S) /\ Len(e) = Len(s) /\ \A i \in 1..Len(s) : e[i] = s[i]
    BY <1>2, <1>3
  <2> HIDE DEF e
  <2>2. e = s
    BY <1>1, <2>1, SeqEqual
  <2> QED
    BY <2>2 DEF e
<1>5. At(s, Len(s) + 1) = <<>>
  <2> DEFINE e == At(s, Len(s) + 1)
  <2>1. e \in Seq(S) /\ Len(e) = 0
    BY <1>2, <1>3
  <2> HIDE DEF e
  <2>2. e = <<>>
    BY <2>1
  <2> QED
    BY <2>2 DEF e
<1>6. ASSUME NEW k \in 1..Len(s)
      PROVE  At(s, k) # <<>> /\ Head(At(s, k)) = s[k] /\ Tail(At(s, k)) = At(s, k + 1)
  <2> DEFINE e == At(s, k)
             f == At(s, k + 1)
  <2>1. k \in 1..Len(s) + 1 /\ k + 1 \in 1..Len(s) + 1 /\ k \in Nat
    BY <1>2
  <2>2. /\ e \in Seq(S) /\ Len(e) = Len(s) + 1 - k
        /\ \A i \in 1..Len(s) + 1 - k : e[i] = s[k + i - 1]
    BY <1>3, <2>1
  <2>3. /\ f \in Seq(S) /\ Len(f) = Len(s) + 1 - (k + 1)
        /\ \A i \in 1..Len(s) + 1 - (k + 1) : f[i] = s[(k + 1) + i - 1]
    BY <1>3, <2>1
  <2> HIDE DEF e, f
  <2>4. Len(e) >= 1 /\ 1 \in 1..Len(s) + 1 - k /\ k + 1 - 1 = k
    BY <1>2, <2>2
  <2>5. e # <<>> /\ Head(e) = e[1] /\ e[1] = s[k]
    BY <2>2, <2>4
  <2> DEFINE t == Tail(e)
  <2>6. t \in Seq(S) /\ Len(t) = Len(e) - 1 /\ \A i \in 1..Len(t) : t[i] = e[i + 1]
    BY <2>2, <2>5, HeadTailProperties
  <2> HIDE DEF t
  <2>7. Len(t) = Len(f)
    BY <1>2, <2>1, <2>2, <2>3, <2>6
  <2>8. ASSUME NEW i \in 1..Len(t)
        PROVE  t[i] = f[i]
    <3>1. /\ i \in Nat /\ i + 1 \in 1..Len(s) + 1 - k /\ i \in 1..Len(s) + 1 - (k + 1)
          /\ k + (i + 1) - 1 = (k + 1) + i - 1
      BY <1>2, <2>1, <2>2, <2>3, <2>6, <2>7
    <3> QED
      BY <2>2, <2>3, <2>6, <3>1
  <2>9. t = f
    BY <2>3, <2>6, <2>7, <2>8, SeqEqual
  <2> QED
    BY <2>5, <2>9 DEF e, f, t
<1> QED
  BY <1>3, <1>4, <1>5, <1>6 DEF IsSeq

\* The end of a concatenation is what was appended.
LEMMA PlaceAfter ==
  ASSUME NEW a, NEW b, IsSeq(a), IsSeq(b)
  PROVE  At(a \o b, Len(a) + 1) = b
<1> DEFINE c == a \o b
           e == At(c, Len(a) + 1)
<1>1. /\ IsSeq(c) /\ Len(a) \in Nat /\ Len(b) \in Nat /\ Len(c) = Len(a) + Len(b)
      /\ \A i \in 1..Len(b) : c[Len(a) + i] = b[i]
  BY Concatenation
<1>2. PICK S, T : c \in Seq(S) /\ b \in Seq(T)
  BY <1>1 DEF IsSeq
<1> HIDE DEF c
<1>3. /\ e \in Seq(S) /\ Len(e) = IF Len(a) + 1 <= Len(c) THEN Len(c) - (Len(a) + 1) + 1 ELSE 0
      /\ \A i \in 1..Len(c) - (Len(a) + 1) + 1 : e[i] = c[(Len(a) + 1) + i - 1]
  <2>1. \A i \in Len(a) + 1..Len(c) : c[i] \in S
    BY <1>1, <1>2
  <2> QED
    BY <1>1, <2>1, SubSeqProperties DEF At
<1> HIDE DEF e
<1>4. Len(e) = Len(b)
  BY <1>1, <1>3
<1>5. ASSUME NEW i \in 1..Len(b)
      PROVE  e[i] = b[i]
  <2>1. i \in 1..Len(c) - (Len(a) + 1) + 1 /\ (Len(a) + 1) + i - 1 = Len(a) + i
    BY <1>1
  <2> QED
    BY <1>1, <1>3, <2>1, Zenon
<1>6. e = b
  BY <1>2, <1>3, <1>4, <1>5, SeqEqual
<1> QED
  BY <1>6 DEF e, c

\* Reading a cell in its place.
LEMMA CellRead ==
  ASSUME NEW s, IsSeq(s), NEW k \in 1..Len(s), NEW w
  PROVE  /\ s[k].w = w => ReadCell(w, At(s, k)) = Ok(s[k].x, At(s, k + 1))
         /\ s[k].w # w => ReadCell(w, At(s, k)).st # "ok"
<1>1. At(s, k) # <<>> /\ Head(At(s, k)) = s[k] /\ Tail(At(s, k)) = At(s, k + 1)
  BY Place
<1> QED
  BY <1>1 DEF ReadCell, Fail

-----------------------------------------------------------------------------
(* Layouts.                                                                *)
\* One field of a layout, after what was read of those before it.
LayoutStep(layout, revision, r, n) ==
    Then(r, LAMBDA fields, rest :
         IF revision < layout[n][3] THEN Ok(fields, rest)
         ELSE Then(ReadCell(layout[n][2], rest), LAMBDA x, rest2 : Ok(WithField(fields, layout[n][1], x), rest2)))

\* The results after every field, up to the N-th.
LayoutRun(layout, revision, wire, N, f) ==
    /\ f = [n \in 0..N |-> f[n]]
    /\ f[0] = Ok(<<>>, wire)
    /\ \A n \in 0..N - 1 : f[n + 1] = LayoutStep(layout, revision, f[n], n + 1)

\* Reading a layout has its steps, as many as wanted.
LEMMA LayoutRunExists ==
  ASSUME NEW layout, NEW revision, NEW wire
  PROVE  \A N \in Nat : \E f : LayoutRun(layout, revision, wire, N, f)
<1> DEFINE T == {N \in Nat : \E f : LayoutRun(layout, revision, wire, N, f)}
<1>1. 0 \in T
  <2> DEFINE g == [n \in 0..0 |-> Ok(<<>>, wire)]
  <2>1. g = [n \in 0..0 |-> g[n]] /\ g[0] = Ok(<<>>, wire) /\ 0..0 - 1 = {}
    OBVIOUS
  <2> HIDE DEF g
  <2>2. LayoutRun(layout, revision, wire, 0, g)
    BY <2>1 DEF LayoutRun
  <2> QED
    BY <2>2
<1>2. ASSUME NEW N \in Nat, N \in T
      PROVE  N + 1 \in T
  <2>1. PICK g : LayoutRun(layout, revision, wire, N, g)
    BY <1>2
  <2>2. /\ g[0] = Ok(<<>>, wire)
        /\ \A n \in 0..N - 1 : g[n + 1] = LayoutStep(layout, revision, g[n], n + 1)
    BY <2>1 DEF LayoutRun
  <2> DEFINE next == LayoutStep(layout, revision, g[N], N + 1)
             h == [n \in 0..N + 1 |-> IF n <= N THEN g[n] ELSE next]
  <2> HIDE DEF next
  <2>3. /\ h = [n \in 0..N + 1 |-> h[n]] /\ \A n \in 0..N : h[n] = g[n]
        /\ h[N + 1] = next
    OBVIOUS
  <2> HIDE DEF h
  <2>4. h[0] = Ok(<<>>, wire)
    BY <2>2, <2>3
  <2>5. ASSUME NEW n \in 0..(N + 1) - 1
        PROVE  h[n + 1] = LayoutStep(layout, revision, h[n], n + 1)
    <3>1. CASE n = N
      <4>1. h[n] = g[N] /\ h[n + 1] = next
        BY <2>3, <3>1
      <4> QED
        BY <3>1, <4>1 DEF next
    <3>2. CASE n # N
      <4>1. n \in 0..N - 1 /\ n \in 0..N /\ n + 1 \in 0..N
        BY <3>2
      <4>2. h[n] = g[n] /\ h[n + 1] = g[n + 1]
        BY <2>3, <4>1
      <4> QED
        BY <2>2, <4>1, <4>2
    <3> QED
      BY <3>1, <3>2
  <2>6. LayoutRun(layout, revision, wire, N + 1, h)
    BY <2>3, <2>4, <2>5 DEF LayoutRun
  <2> QED
    BY <2>6
<1>3. Nat \subseteq T
  <2> HIDE DEF T
  <2> QED
    BY <1>1, <1>2, Inductive
<1> QED
  BY <1>3

\* What ReadLayout is: the last of the results.
LEMMA LayoutIs ==
  ASSUME NEW layout, NEW revision, NEW wire, Len(layout) \in Nat
  PROVE  \E f : LayoutRun(layout, revision, wire, Len(layout), f) /\ ReadLayout(layout, revision, wire) = f[Len(layout)]
<1> DEFINE N == Len(layout)
           rule(r) == [n \in 0..N |-> IF n = 0 THEN Ok(<<>>, wire) ELSE LayoutStep(layout, revision, r[n - 1], n)]
           read == CHOOSE r : r = rule(r)
<1>1. PICK f : LayoutRun(layout, revision, wire, N, f)
  BY LayoutRunExists
<1>2. f = rule(f)
  <2>1. f = [n \in 0..N |-> f[n]] /\ f[0] = Ok(<<>>, wire)
        /\ \A n \in 0..N - 1 : f[n + 1] = LayoutStep(layout, revision, f[n], n + 1)
    BY <1>1 DEF LayoutRun
  <2>2. ASSUME NEW n \in 0..N
        PROVE  f[n] = IF n = 0 THEN Ok(<<>>, wire) ELSE LayoutStep(layout, revision, f[n - 1], n)
    <3>1. CASE n = 0
      BY <2>1, <3>1
    <3>2. CASE n # 0
      <4>1. n - 1 \in 0..N - 1 /\ (n - 1) + 1 = n
        BY <3>2
      <4>2. f[(n - 1) + 1] = LayoutStep(layout, revision, f[n - 1], (n - 1) + 1)
        BY <2>1, <4>1
      <4> QED
        BY <3>2, <4>1, <4>2
    <3> QED
      BY <3>1, <3>2
  <2> QED
    BY <2>1, <2>2, Zenon
<1>3. read = rule(read)
  <2> HIDE DEF rule
  <2> QED
    BY <1>2, Zenon
<1>4. ReadLayout(layout, revision, wire) = read[N]
  BY Zenon DEF ReadLayout, LayoutStep
<1> HIDE DEF read
<1>5. LayoutRun(layout, revision, wire, N, read)
  <2>1. read = [n \in 0..N |-> read[n]]
    BY <1>3
  <2>2. \A n \in 0..N : read[n] = IF n = 0 THEN Ok(<<>>, wire) ELSE LayoutStep(layout, revision, read[n - 1], n)
    BY <1>3
  <2>3. read[0] = Ok(<<>>, wire)
    BY <2>2
  <2>4. ASSUME NEW n \in 0..N - 1
        PROVE  read[n + 1] = LayoutStep(layout, revision, read[n], n + 1)
    <3>1. n + 1 \in 0..N /\ n + 1 # 0 /\ (n + 1) - 1 = n
      OBVIOUS
    <3> QED
      BY <2>2, <3>1
  <2> QED
    BY <2>1, <2>3, <2>4 DEF LayoutRun
<1> QED
  BY <1>4, <1>5

\* The revision does not have the n-th field of a layout.
Lacks(layout, revision, n) == revision < layout[n][3]

\* A sequence has the fields of a layout that a revision has: the n-th at pos[n].
Lays(layout, revision, a, pos) ==
    /\ pos \in [0..Len(layout) -> Nat] /\ pos[0] = 0 /\ pos[Len(layout)] = Len(a)
    /\ \A n \in 1..Len(layout) :
          IF Lacks(layout, revision, n) THEN pos[n] = pos[n - 1]
          ELSE pos[n] = pos[n - 1] + 1 /\ pos[n] <= Len(a) /\ a[pos[n]].w = layout[n][2]
\* No field of a layout has the name of another.
Distinct(layout) == \A i, j \in 1..Len(layout) : layout[i][1] = layout[j][1] => i = j

\* A field joins a record of fields.
LEMMA FieldIs ==
  ASSUME NEW fields, NEW name, NEW x
  PROVE  LET v == WithField(fields, name, x)
         IN /\ name \in DOMAIN v /\ v[name] = x
            /\ \A y \in DOMAIN fields : y \in DOMAIN v /\ (y # name => v[y] = fields[y])
BY DEF WithField

\* They are read, under their names, and what comes after them is left.
LEMMA LayoutReads ==
  ASSUME NEW layout, NEW revision, NEW a, NEW b, NEW pos, IsSeq(a), IsSeq(b), Len(layout) \in Nat,
         Lays(layout, revision, a, pos), Distinct(layout)
  PROVE  LET r == ReadLayout(layout, revision, a \o b)
         IN /\ r.st = "ok" /\ r.rest = b
            /\ \A n \in 1..Len(layout) : ~(Lacks(layout, revision, n)) => r.v[layout[n][1]] = a[pos[n]].x
<1> DEFINE W == a \o b
           N == Len(layout)
<1>1. /\ IsSeq(W) /\ Len(a) \in Nat /\ Len(b) \in Nat /\ Len(W) = Len(a) + Len(b)
      /\ \A i \in 1..Len(a) : W[i] = a[i]
  BY Concatenation
<1>2. At(W, Len(a) + 1) = b
  BY PlaceAfter
<1>3. PICK f : LayoutRun(layout, revision, W, N, f) /\ ReadLayout(layout, revision, W) = f[N]
  BY LayoutIs
<1>4. /\ f[0] = Ok(<<>>, W)
      /\ \A n \in 0..N - 1 : f[n + 1] = LayoutStep(layout, revision, f[n], n + 1)
  BY <1>3 DEF LayoutRun
<1>5. /\ pos \in [0..N -> Nat] /\ pos[0] = 0 /\ pos[N] = Len(a)
      /\ \A n \in 1..N : IF Lacks(layout, revision, n) THEN pos[n] = pos[n - 1]
                         ELSE pos[n] = pos[n - 1] + 1 /\ pos[n] <= Len(a) /\ a[pos[n]].w = layout[n][2]
  BY DEF Lays
<1> HIDE DEF W
<1> DEFINE Has(n) == \A i \in 1..n : ~(Lacks(layout, revision, i)) =>
                        layout[i][1] \in DOMAIN f[n].v /\ f[n].v[layout[i][1]] = a[pos[i]].x
           Good(n) == f[n].st = "ok" /\ f[n].rest = At(W, pos[n] + 1) /\ Has(n)
           T == {n \in Nat : n <= N => Good(n)}
<1>6. 0 \in T
  <2>1. f[0].st = "ok" /\ f[0].rest = At(W, pos[0] + 1)
    <3>1. At(W, 1) = W
      BY <1>1, Place
    <3> QED
      BY <1>4, <1>5, <3>1 DEF Ok
  <2> QED
    BY <2>1
<1>7. ASSUME NEW n \in Nat, n \in T
      PROVE  n + 1 \in T
  <2> SUFFICES ASSUME n + 1 <= N PROVE Good(n + 1)
    OBVIOUS
  <2>1. n \in 0..N - 1 /\ n + 1 \in 1..N /\ n + 1 \in 0..N /\ n \in 0..N /\ (n + 1) - 1 = n /\ n <= N
    OBVIOUS
  <2>2. Good(n)
    BY <1>7, <2>1
  <2>3. f[n + 1] = LayoutStep(layout, revision, f[n], n + 1)
    BY <1>4, <2>1
  <2> DEFINE m == n + 1
  <2>3a. f[m] = LayoutStep(layout, revision, f[n], m) /\ m - 1 = n /\ m \in 1..N
    BY <2>1, <2>3
  <2>3b. \A i \in 1..m : i # m => i \in 1..n
    OBVIOUS
  <2> HIDE DEF m
  <2>4. CASE Lacks(layout, revision, m)
    <3>1. f[m] = Ok(f[n].v, f[n].rest)
      BY <2>2, <2>3a, <2>4 DEF LayoutStep, Lacks, Then
    <3>2. f[m].st = "ok" /\ f[m].v = f[n].v /\ f[m].rest = f[n].rest
      BY <3>1 DEF Ok
    <3>3. pos[m] = pos[n]
      BY <1>5, <2>3a, <2>4
    <3>4. Has(m)
      BY <2>2, <2>3b, <2>4, <3>2
    <3> QED
      BY <2>2, <3>2, <3>3, <3>4 DEF m
  <2>5. CASE ~(Lacks(layout, revision, m))
    <3>1. pos[m] = pos[n] + 1 /\ pos[m] <= Len(a) /\ a[pos[m]].w = layout[m][2] /\ pos[n] \in Nat
      BY <1>5, <2>1, <2>3a, <2>5
    <3>2. pos[m] \in 1..Len(a) /\ pos[m] \in 1..Len(W)
      BY <1>1, <3>1
    <3>3. W[pos[m]] = a[pos[m]]
      BY <1>1, <3>2
    <3>4. ReadCell(layout[m][2], At(W, pos[m])) = Ok(W[pos[m]].x, At(W, pos[m] + 1))
      BY <1>1, <3>1, <3>2, <3>3, CellRead
    <3>5. f[n].st = "ok" /\ f[n].rest = At(W, pos[m])
      BY <2>2, <3>1
    <3> DEFINE v == WithField(f[n].v, layout[m][1], a[pos[m]].x)
    <3>6. f[m] = Ok(v, At(W, pos[m] + 1))
      BY <2>3a, <2>5, <3>3, <3>4, <3>5 DEF LayoutStep, Lacks, Then, Ok
    <3>7. /\ layout[m][1] \in DOMAIN v /\ v[layout[m][1]] = a[pos[m]].x
          /\ \A y \in DOMAIN f[n].v : y \in DOMAIN v /\ (y # layout[m][1] => v[y] = f[n].v[y])
      BY FieldIs
    <3> HIDE DEF v
    <3>8. f[m].st = "ok" /\ f[m].v = v /\ f[m].rest = At(W, pos[m] + 1)
      BY <3>6 DEF Ok
    <3>9. ASSUME NEW i \in 1..m, ~(Lacks(layout, revision, i))
          PROVE  layout[i][1] \in DOMAIN f[m].v /\ f[m].v[layout[i][1]] = a[pos[i]].x
      <4>1. CASE i = m
        BY <3>7, <3>8, <4>1
      <4>2. CASE i # m
        <5>1. i \in 1..n /\ i \in 1..N
          BY <2>1, <2>3b, <4>2
        <5>2. layout[i][1] # layout[m][1]
          BY <2>3a, <4>2, <5>1 DEF Distinct
        <5>3. layout[i][1] \in DOMAIN f[n].v /\ f[n].v[layout[i][1]] = a[pos[i]].x
          BY <2>2, <3>9, <5>1
        <5> QED
          BY <3>7, <3>8, <5>2, <5>3
      <4> QED
        BY <4>1, <4>2
    <3> QED
      BY <3>8, <3>9 DEF m
  <2> QED
    BY <2>4, <2>5
<1>8. Nat \subseteq T
  <2> HIDE DEF T
  <2> QED
    BY <1>6, <1>7, Inductive
<1>9. Good(N)
  BY <1>8
<1> QED
  BY <1>2, <1>3, <1>5, <1>9 DEF W

\* A layout of which a revision has the fields after the lo-th up to the hi-th.
Spans(layout, revision, a, lo, hi) ==
    /\ lo \in Nat /\ hi \in Nat /\ lo <= hi /\ hi <= Len(layout) /\ Len(a) = hi - lo
    /\ \A n \in 1..Len(layout) : IF lo < n /\ n <= hi THEN ~Lacks(layout, revision, n) /\ a[n - lo].w = layout[n][2]
                               ELSE Lacks(layout, revision, n)

\* The cells of a span are read as its fields, and what follows them is left.
LEMMA SpanReads ==
  ASSUME NEW layout, NEW revision, NEW a, NEW b, NEW lo, NEW hi, IsSeq(a), IsSeq(b),
         Len(layout) \in Nat, Spans(layout, revision, a, lo, hi), Distinct(layout)
  PROVE  LET r == ReadLayout(layout, revision, a \o b)
         IN /\ r.st = "ok" /\ r.rest = b
            /\ \A n \in 1..Len(layout) : lo < n /\ n <= hi => r.v[layout[n][1]] = a[n - lo].x
<1> DEFINE N == Len(layout)
           pos == [n \in 0..N |-> IF n <= lo THEN 0 ELSE IF n <= hi THEN n - lo ELSE hi - lo]
<1>1. /\ lo \in Nat /\ hi \in Nat /\ lo <= hi /\ hi <= N /\ Len(a) = hi - lo
      /\ \A n \in 1..N : IF lo < n /\ n <= hi THEN ~Lacks(layout, revision, n) /\ a[n - lo].w = layout[n][2]
                         ELSE Lacks(layout, revision, n)
  BY DEF Spans
<1>2. \A n \in 0..N : pos[n] = IF n <= lo THEN 0 ELSE IF n <= hi THEN n - lo ELSE hi - lo
  OBVIOUS
<1>3. pos \in [0..N -> Nat]
  BY <1>1
<1> HIDE DEF pos
<1>4. pos[0] = 0 /\ pos[N] = Len(a)
  BY <1>1, <1>2
<1>5. ASSUME NEW n \in 1..N
      PROVE  IF Lacks(layout, revision, n) THEN pos[n] = pos[n - 1]
             ELSE pos[n] = pos[n - 1] + 1 /\ pos[n] <= Len(a) /\ a[pos[n]].w = layout[n][2]
  <2>1. n \in 0..N /\ n - 1 \in 0..N
    OBVIOUS
  <2>2. CASE lo < n /\ n <= hi
    <3>0. ~(n <= lo) /\ n <= hi /\ n - 1 <= hi /\ n \in Int
      BY <1>1, <2>2
    <3>1. pos[n] = n - lo
      BY <1>2, <2>1, <3>0
    <3>1a. pos[n - 1] = IF n - 1 <= lo THEN 0 ELSE n - 1 - lo
      BY <1>2, <2>1, <3>0
    <3>2. ~Lacks(layout, revision, n) /\ a[n - lo].w = layout[n][2]
      BY <1>1, <2>2
    <3> QED
      BY <1>1, <2>2, <3>0, <3>1, <3>1a, <3>2
  <2>3. CASE ~(lo < n /\ n <= hi)
    <3>1. Lacks(layout, revision, n)
      BY <1>1, <2>3
    <3>2. pos[n] = pos[n - 1]
      BY <1>1, <1>2, <2>1, <2>3
    <3> QED
      BY <3>1, <3>2
  <2> QED
    BY <2>2, <2>3
<1>6. Lays(layout, revision, a, pos)
  BY <1>3, <1>4, <1>5 DEF Lays
<1>7. LET r == ReadLayout(layout, revision, a \o b)
      IN /\ r.st = "ok" /\ r.rest = b
         /\ \A n \in 1..N : ~Lacks(layout, revision, n) => r.v[layout[n][1]] = a[pos[n]].x
  BY <1>6, LayoutReads
<1>8. ASSUME NEW n \in 1..N, lo < n, n <= hi
      PROVE  ~Lacks(layout, revision, n) /\ pos[n] = n - lo
  <2>1. n \in 0..N /\ n \in Int /\ ~(n <= lo)
    BY <1>1, <1>8
  <2>2. pos[n] = n - lo
    BY <1>2, <1>8, <2>1
  <2> QED
    BY <1>1, <1>8, <2>2
<1> QED
  BY <1>7, <1>8

\* The client's hello is read with its fields.
LEMMA HelloReads ==
  ASSUME NEW o, NEW b, IsSeq(b)
  PROVE  LET r == ReadLayout(ClientHelloLayout, 0, send_hello(o) \o b)
         IN /\ r.st = "ok" /\ r.rest = b
            /\ r.v["database"] = Text(o.database).x /\ r.v["username"] = Text(o.username).x
            /\ r.v["password"] = Text(o.password).x
<1> DEFINE L == ClientHelloLayout
           a == send_hello(o)
<1>1. Len(L) = 8 /\ \A n \in 1..8 : ~Lacks(L, 0, n)
  BY DEF ClientHelloLayout, Lacks
<1>2. Len(a) = 8 /\ IsSeq(a)
  <2>1. Len(a) = 8
    BY DEF send_hello
  <2>2. a \in Seq({Var(0), Text("ClickHouseArrow Rust"), Var(1), Var(DBMS_TCP_PROTOCOL_VERSION),
      Text(o.database), Text(o.username), Text(o.password)})
    BY DEF send_hello
  <2> QED
    BY <2>1, <2>2 DEF IsSeq
<1>3. \A n \in 1..8 : a[n].w = L[n][2]
  <2>1. /\ L[1][2] = VAR /\ L[2][2] = STR /\ L[3][2] = VAR /\ L[4][2] = VAR /\ L[5][2] = VAR
        /\ L[6][2] = STR /\ L[7][2] = STR /\ L[8][2] = STR
    BY DEF ClientHelloLayout
  <2>2. /\ a[1].w = VAR /\ a[2].w = STR /\ a[3].w = VAR /\ a[4].w = VAR /\ a[5].w = VAR
        /\ a[6].w = STR /\ a[7].w = STR /\ a[8].w = STR
    BY DEF send_hello, Var, Num, Text, Cell
  <2> QED
    BY <2>1, <2>2
<1>4. Distinct(L)
  BY <1>1 DEF ClientHelloLayout, Distinct
<1>5. /\ L[6][1] = "database" /\ L[7][1] = "username" /\ L[8][1] = "password"
      /\ a[6] = Text(o.database) /\ a[7] = Text(o.username) /\ a[8] = Text(o.password)
  BY DEF send_hello, ClientHelloLayout
<1> HIDE DEF L, a
<1> DEFINE r == ReadLayout(L, 0, a \o b)
<1>6. r.st = "ok" /\ r.rest = b /\ \A n \in 1..8 : r.v[L[n][1]] = a[n].x
  <2>1. Spans(L, 0, a, 0, 8)
    BY <1>1, <1>2, <1>3 DEF Spans
  <2>2. Len(L) \in Nat /\ IsSeq(a)
    BY <1>1, <1>2
  <2>3. r.st = "ok" /\ r.rest = b /\ \A n \in 1..Len(L) : 0 < n /\ n <= 8 => r.v[L[n][1]] = a[n - 0].x
    BY <1>4, <2>1, <2>2, SpanReads
  <2> QED
    BY <1>1, <2>3
<1> HIDE DEF r
<1>7. r.v[L[6][1]] = a[6].x /\ r.v[L[7][1]] = a[7].x /\ r.v[L[8][1]] = a[8].x
  BY <1>6
<1>8. /\ r.v["database"] = Text(o.database).x /\ r.v["username"] = Text(o.username).x
      /\ r.v["password"] = Text(o.password).x
  BY <1>5, <1>7
<1> QED
  BY <1>6, <1>8 DEF L, a, r

\* The addendum is read with its fields.
LEMMA AddendumReads ==
  ASSUME NEW h, h.revision \in Nat, h.revision >= CHUNKED_PACKETS, NEW b, IsSeq(b)
  PROVE  LET r == ReadLayout(AddendumLayout, h.revision, send_addendum(h) \o b)
         IN /\ IsSeq(send_addendum(h)) /\ r.st = "ok" /\ r.rest = b
            /\ r.v["send"] = Text(h.chunked_send).x /\ r.v["recv"] = Text(h.chunked_recv).x
<1> DEFINE L == AddendumLayout
           a == send_addendum(h)
           R == h.revision
           hi == IF R < VERSIONED_PARALLEL_REPLICAS THEN 3 ELSE 4
           c1 == Text("")
           c2 == Text(h.chunked_send)
           c3 == Text(h.chunked_recv)
           c4 == Var(4)
<1>1. /\ Len(L) = 4 /\ L[2][1] = "send" /\ L[3][1] = "recv" /\ Distinct(L)
      /\ L[1][2] = STR /\ L[2][2] = STR /\ L[3][2] = STR /\ L[4][2] = VAR
      /\ L[1][3] = QUOTA_KEY /\ L[2][3] = CHUNKED_PACKETS /\ L[3][3] = CHUNKED_PACKETS
      /\ L[4][3] = VERSIONED_PARALLEL_REPLICAS
  BY DEF AddendumLayout, Distinct
<1>2. ~(R < QUOTA_KEY) /\ ~(R < CHUNKED_PACKETS) /\ R >= QUOTA_KEY
  BY DEF QUOTA_KEY, CHUNKED_PACKETS
<1>2a. R >= VERSIONED_PARALLEL_REPLICAS <=> ~(R < VERSIONED_PARALLEL_REPLICAS)
  BY DEF VERSIONED_PARALLEL_REPLICAS
<1>3. c1.w = STR /\ c2.w = STR /\ c3.w = STR /\ c4.w = VAR
  BY DEF Text, Var, Num, Cell
<1>3a. ~Lacks(L, R, 1) /\ ~Lacks(L, R, 2) /\ ~Lacks(L, R, 3) /\ (Lacks(L, R, 4) <=> hi = 3)
  BY <1>1, <1>2, <1>2a DEF Lacks
<1>4. a = (<<c1>> \o <<c2, c3>>) \o (IF R < VERSIONED_PARALLEL_REPLICAS THEN <<>> ELSE <<c4>>)
  <2>1. Since(R, QUOTA_KEY, <<c1>>) = <<c1>> /\ Since(R, CHUNKED_PACKETS, <<c2, c3>>) = <<c2, c3>>
    BY <1>2 DEF Since
  <2>2. Since(R, VERSIONED_PARALLEL_REPLICAS, <<c4>>) = IF R < VERSIONED_PARALLEL_REPLICAS THEN <<>> ELSE <<c4>>
    BY <1>2a DEF Since
  <2> QED
    BY <2>1, <2>2 DEF send_addendum
<1> HIDE DEF c1, c2, c3, c4, L, a
<1>5. /\ a \in Seq({c1, c2, c3, c4}) /\ Len(a) = hi /\ hi \in {3, 4}
      /\ a[1] = c1 /\ a[2] = c2 /\ a[3] = c3 /\ (hi = 4 => a[4] = c4)
  <2>1. CASE R < VERSIONED_PARALLEL_REPLICAS
    <3>1. a = (<<c1>> \o <<c2, c3>>) \o <<>>
      BY <1>4, <2>1
    <3> QED
      BY <2>1, <3>1
  <2>2. CASE ~(R < VERSIONED_PARALLEL_REPLICAS)
    <3>1. a = (<<c1>> \o <<c2, c3>>) \o <<c4>>
      BY <1>4, <2>2
    <3> QED
      BY <2>2, <3>1
  <2> QED
    BY <2>1, <2>2
<1>9. IsSeq(a)
  BY <1>5 DEF IsSeq
<1>10. Spans(L, R, a, 0, hi)
  <2>1. /\ a[1].w = L[1][2] /\ a[2].w = L[2][2] /\ a[3].w = L[3][2]
        /\ hi = 4 => a[4].w = L[4][2]
    BY <1>1, <1>3, <1>5
  <2> QED
    BY <1>1, <1>3a, <1>5, <2>1 DEF Spans
<1> DEFINE r == ReadLayout(L, R, a \o b)
<1>11. r.st = "ok" /\ r.rest = b /\ \A n \in 1..Len(L) : 0 < n /\ n <= hi => r.v[L[n][1]] = a[n - 0].x
  <2>1. Distinct(L) /\ Len(L) \in Nat /\ IsSeq(a)
    BY <1>1, <1>9
  <2> QED
    BY <1>10, <2>1, SpanReads
<1> HIDE DEF r
<1>12. r.v["send"] = c2.x /\ r.v["recv"] = c3.x
  <2>1. r.v[L[2][1]] = a[2].x /\ r.v[L[3][1]] = a[3].x
    BY <1>1, <1>5, <1>11
  <2> QED
    BY <1>1, <1>5, <2>1
<1> QED
  BY <1>9, <1>11, <1>12 DEF L, a, r, c2, c3

\* Concatenation is associative.
LEMMA Associates ==
  ASSUME NEW a, NEW b, NEW c, IsSeq(a), IsSeq(b), IsSeq(c)
  PROVE  (a \o b) \o c = a \o (b \o c) /\ IsSeq(a \o b) /\ IsSeq(b \o c) /\ a \o <<>> = a /\ <<>> \o a = a
<1>1. PICK S, T, V : a \in Seq(S) /\ b \in Seq(T) /\ c \in Seq(V)
  BY DEF IsSeq
<1> DEFINE U == S \union T \union V
<1>2. a \in Seq(U) /\ b \in Seq(U) /\ c \in Seq(U)
  BY <1>1
<1> HIDE DEF U
<1>3. (a \o b) \o c = a \o (b \o c) /\ a \o <<>> = a /\ <<>> \o a = a
  BY <1>2
<1> QED
  BY <1>3, Concatenation

\* The same for pieces that have names.
Cat(a, b, ab) == IsSeq(a) /\ IsSeq(b) /\ IsSeq(ab) /\ ab = a \o b

\* How concatenations are grouped does not matter, said of their results.
LEMMA Regroup ==
  ASSUME NEW a, NEW b, NEW c, NEW ab, NEW bc, NEW abc, Cat(a, b, ab), Cat(b, c, bc), Cat(ab, c, abc)
  PROVE  Cat(a, bc, abc)
<1>1. IsSeq(a) /\ IsSeq(b) /\ IsSeq(c) /\ IsSeq(bc) /\ IsSeq(abc)
  BY DEF Cat
<1>2. ab = a \o b /\ bc = b \o c /\ abc = ab \o c
  BY DEF Cat
<1>3. (a \o b) \o c = a \o (b \o c)
  BY <1>1, Associates
<1>4. abc = a \o bc
  BY <1>2, <1>3
<1> QED
  BY <1>1, <1>4 DEF Cat

\* What Cat says of a concatenation.
LEMMA CatIs ==
  ASSUME NEW a, NEW b, IsSeq(a), IsSeq(b)
  PROVE  Cat(a, b, a \o b) /\ IsSeq(a \o b)
BY Concatenation DEF Cat

\* Functions on an interval are sequences.
LEMMA ListIsSeq ==
  ASSUME NEW n \in Nat, NEW f, f = [i \in 1..n |-> f[i]]
  PROVE  IsSeq(f) /\ Len(f) = n
<1> DEFINE S == {f[i] : i \in 1..n}
<1>1. f \in [1..n -> S]
  BY Zenon
<1> HIDE DEF S
<1>2. f \in Seq(S)
  BY <1>1
<1>3. Len(f) = n
  BY <1>1
<1> QED
  BY <1>2, <1>3 DEF IsSeq

\* What layouts are written of are sequences.
LEMMA PiecesAreSeqs ==
  ASSUME NEW revision, NEW r, NEW x
  PROVE  IsSeq(<<>>) /\ IsSeq(<<x>>) /\ (\A s : IsSeq(s) => IsSeq(Since(revision, r, s)))
<1>1. <<>> \in Seq({}) /\ <<x>> \in Seq({x})
  OBVIOUS
<1> QED
  BY <1>1 DEF IsSeq, Since

\* The first cell of a wire.
LEMMA FirstRead ==
  ASSUME NEW x, NEW s, IsSeq(s), NEW w, x.w = w
  PROVE  ReadCell(w, <<x>> \o s) = Ok(x.x, s)
<1> DEFINE c == <<x>> \o s
<1>1. IsSeq(<<x>>) /\ Len(<<x>>) = 1 /\ <<x>>[1] = x
  BY PiecesAreSeqs
<1>2. IsSeq(c) /\ Len(c) = 1 + Len(s) /\ Len(s) \in Nat /\ c[1] = x
  <2>1. 1 \in 1..1
    OBVIOUS
  <2> QED
    BY <1>1, <2>1, Concatenation
<1>3. At(c, 2) = s
  <2> DEFINE a == <<x>>
  <2>1. IsSeq(a) /\ Len(a) = 1
    BY <1>1
  <2> HIDE DEF a
  <2>2. At(a \o s, Len(a) + 1) = s
    BY <2>1, PlaceAfter
  <2> QED
    BY <2>1, <2>2 DEF a
<1>4. At(c, 1) = c
  BY <1>2, Place
<1> HIDE DEF c
<1>5. ReadCell(w, At(c, 1)) = Ok(c[1].x, At(c, 2))
  <2>1. 1 \in 1..Len(c) /\ 1 + 1 = 2
    BY <1>2
  <2> QED
    BY <1>2, <2>1, CellRead
<1> QED
  BY <1>2, <1>3, <1>4, <1>5 DEF c

-----------------------------------------------------------------------------
(* The server's hello.                                                     *)
\* A mode that is negotiated is the one of each side that insists on one.
LEMMA Negotiates ==
  ASSUME NEW s \in Modes, NEW c \in Modes
  PROVE  LET n == negotiate(s, c)
         IN /\ n.st \in {"ok", "err"}
            /\ n.st = "ok" => /\ n.v \in {"chunked", "notchunked"}
                              /\ ~IsOptional(s) => IsChunked(n.v) = IsChunked(s)
                              /\ ~IsOptional(c) => IsChunked(n.v) = IsChunked(c)
            /\ n.st = "err" => ~Suits(s, c) /\ ~Suits(c, s)
BY DEF negotiate, Suits, Modes, IsOptional, IsChunked, Ok, Fail

\* The peers are what they are all the time.
PeersMeet == \E p \in Peers : options = p[1] /\ server = p[2]

\* What the two sides are.
LEMMA PeerIs ==
  ASSUME PeersMeet
  PROVE  /\ options.compression \in Methods /\ options.ext.chunked_send \in Modes /\ options.ext.chunked_recv \in Modes
         /\ server.revision \in Nat /\ server.revision >= CHUNKED_PACKETS
         /\ server.send \in Modes /\ server.recv \in Modes /\ server.rules \in Nat
         /\ server.settings \in Seq(SettingNames \X SettingTexts)
         /\ \A i, j \in 1..Len(server.settings) : server.settings[i][1] = server.settings[j][1] => i = j
<1>1. PICK p \in Peers : options = p[1] /\ server = p[2]
  BY DEF PeersMeet
<1> QED
  BY <1>1, PeerAssumption, Zenon

\* The agreed revision knows chunking, and is one the client knows.
LEMMA AgreedIs ==
  ASSUME PeersMeet
  PROVE  Agreed \in Nat /\ Agreed >= CHUNKED_PACKETS /\ Agreed <= DBMS_TCP_PROTOCOL_VERSION
BY PeerIs DEF Agreed, Smaller, CHUNKED_PACKETS, DBMS_TCP_PROTOCOL_VERSION, VERSIONED_CLUSTER_FUNCTION

\* The first fields.
HelloStart == <<Text("ClickHouse"), Var(25), Var(3), Var(server.revision)>>

\* The client reads the first part of the hello, with the server's revision.
LEMMA StartReads ==
  ASSUME NEW b, IsSeq(b)
  PROVE  LET r == ReadLayout(ServerHelloStart, 0, HelloStart \o b)
         IN r.st = "ok" /\ r.rest = b /\ r.v["revision"] = <<server.revision>>
<1> DEFINE L == ServerHelloStart
           a == HelloStart
<1>1. /\ Len(L) = 4 /\ (\A n \in 1..4 : ~Lacks(L, 0, n)) /\ Distinct(L) /\ L[4][1] = "revision"
      /\ L[1][2] = STR /\ L[2][2] = VAR /\ L[3][2] = VAR /\ L[4][2] = VAR
  BY DEF ServerHelloStart, Lacks, Distinct
<1>2. /\ a \in Seq({Text("ClickHouse"), Var(25), Var(3), Var(server.revision)}) /\ Len(a) = 4
      /\ a[4] = Var(server.revision)
  BY DEF HelloStart
<1>3. a[1].w = STR /\ a[2].w = VAR /\ a[3].w = VAR /\ a[4].w = VAR
  BY DEF HelloStart, Var, Num, Text, Cell
<1>4. Var(server.revision).x = <<server.revision>>
  BY DEF Var, Num, Cell
<1>5. IsSeq(a)
  BY <1>2 DEF IsSeq
<1> HIDE DEF L, a
<1> DEFINE r == ReadLayout(L, 0, a \o b)
<1>6. Spans(L, 0, a, 0, 4)
  BY <1>1, <1>2, <1>3 DEF Spans
<1>7. Distinct(L) /\ Len(L) \in Nat
  BY <1>1
<1>8. r.st = "ok" /\ r.rest = b /\ \A n \in 1..Len(L) : 0 < n /\ n <= 4 => r.v[L[n][1]] = a[n - 0].x
  BY <1>5, <1>6, <1>7, SpanReads
<1> HIDE DEF r
<1>9. r.v[L[4][1]] = a[4].x
  BY <1>1, <1>8
<1> QED
  BY <1>1, <1>2, <1>4, <1>8, <1>9 DEF L, a, r

\* The fields that depend on the revision: replicas, if it has them, and five more.
HelloVersion == Since(Agreed, VERSIONED_PARALLEL_REPLICAS, <<Var(4)>>)
                \o <<Text("UTC"), Text("host"), Var(1), Text(server.send), Text(server.recv)>>

\* And the second, with the modes that the server asks for.
LEMMA VersionReads ==
  ASSUME PeersMeet, NEW b, IsSeq(b)
  PROVE  LET r == ReadLayout(ServerHelloVersion, Agreed, HelloVersion \o b)
         IN r.st = "ok" /\ r.rest = b /\ r.v["send"] = Text(server.send).x /\ r.v["recv"] = Text(server.recv).x
<1> DEFINE L == ServerHelloVersion
           a == HelloVersion
           R == Agreed
           lo == IF R < VERSIONED_PARALLEL_REPLICAS THEN 1 ELSE 0
           c0 == Var(4)
           c1 == Text("UTC")
           c2 == Text("host")
           c3 == Var(1)
           c4 == Text(server.send)
           c5 == Text(server.recv)
<1>1. /\ Len(L) = 6 /\ L[5][1] = "send" /\ L[6][1] = "recv" /\ Distinct(L)
      /\ L[1][2] = VAR /\ L[2][2] = STR /\ L[3][2] = STR /\ L[4][2] = VAR /\ L[5][2] = STR /\ L[6][2] = STR
      /\ L[1][3] = VERSIONED_PARALLEL_REPLICAS /\ L[2][3] = SERVER_TIMEZONE /\ L[3][3] = DISPLAY_NAME
      /\ L[4][3] = VERSION_PATCH /\ L[5][3] = CHUNKED_PACKETS /\ L[6][3] = CHUNKED_PACKETS
  BY DEF ServerHelloVersion, Distinct
<1>2. ~(R < SERVER_TIMEZONE) /\ ~(R < DISPLAY_NAME) /\ ~(R < VERSION_PATCH) /\ ~(R < CHUNKED_PACKETS)
  BY AgreedIs DEF SERVER_TIMEZONE, DISPLAY_NAME, VERSION_PATCH, CHUNKED_PACKETS
<1>3. R >= VERSIONED_PARALLEL_REPLICAS <=> ~(R < VERSIONED_PARALLEL_REPLICAS)
  BY AgreedIs DEF VERSIONED_PARALLEL_REPLICAS
<1>4. c0.w = VAR /\ c1.w = STR /\ c2.w = STR /\ c3.w = VAR /\ c4.w = STR /\ c5.w = STR
  BY DEF Text, Var, Num, Cell
<1>5. a = (IF R < VERSIONED_PARALLEL_REPLICAS THEN <<>> ELSE <<c0>>) \o <<c1, c2, c3, c4, c5>>
  <2>1. Since(R, VERSIONED_PARALLEL_REPLICAS, <<c0>>) = IF R < VERSIONED_PARALLEL_REPLICAS THEN <<>> ELSE <<c0>>
    BY <1>3 DEF Since
  <2> QED
    BY <2>1 DEF HelloVersion
<1>6. /\ Lacks(L, R, 1) <=> lo = 1
      /\ ~Lacks(L, R, 2) /\ ~Lacks(L, R, 3) /\ ~Lacks(L, R, 4) /\ ~Lacks(L, R, 5) /\ ~Lacks(L, R, 6)
  BY <1>1, <1>2 DEF Lacks
<1> HIDE DEF c0, c1, c2, c3, c4, c5, L, a
<1>7. /\ a \in Seq({c0, c1, c2, c3, c4, c5}) /\ Len(a) = 6 - lo /\ lo \in {0, 1}
      /\ a[2 - lo] = c1 /\ a[3 - lo] = c2 /\ a[4 - lo] = c3 /\ a[5 - lo] = c4 /\ a[6 - lo] = c5
      /\ lo = 0 => a[1] = c0
  <2>1. CASE R < VERSIONED_PARALLEL_REPLICAS
    <3>1. a = <<>> \o <<c1, c2, c3, c4, c5>>
      BY <1>5, <2>1
    <3>2. /\ a \in Seq({c0, c1, c2, c3, c4, c5}) /\ Len(a) = 5
          /\ a[1] = c1 /\ a[2] = c2 /\ a[3] = c3 /\ a[4] = c4 /\ a[5] = c5
      BY <3>1
    <3>3. lo = 1
      BY <2>1
    <3> HIDE DEF lo
    <3> QED
      BY <3>2, <3>3
  <2>2. CASE ~(R < VERSIONED_PARALLEL_REPLICAS)
    <3>1. a = <<c0>> \o <<c1, c2, c3, c4, c5>>
      BY <1>5, <2>2
    <3>2. /\ a \in Seq({c0, c1, c2, c3, c4, c5}) /\ Len(a) = 6
          /\ a[1] = c0 /\ a[2] = c1 /\ a[3] = c2 /\ a[4] = c3 /\ a[5] = c4 /\ a[6] = c5
      BY <3>1
    <3>3. lo = 0
      BY <2>2
    <3> HIDE DEF lo
    <3> QED
      BY <3>2, <3>3
  <2> QED
    BY <2>1, <2>2
<1> HIDE DEF lo
<1>8. IsSeq(a)
  BY <1>7 DEF IsSeq
<1>9. Spans(L, R, a, lo, 6)
  <2>1. /\ a[2 - lo].w = L[2][2] /\ a[3 - lo].w = L[3][2] /\ a[4 - lo].w = L[4][2]
        /\ a[5 - lo].w = L[5][2] /\ a[6 - lo].w = L[6][2] /\ (lo = 0 => a[1 - lo].w = L[1][2])
    BY <1>1, <1>4, <1>7
  <2> QED
    BY <1>1, <1>6, <1>7, <2>1 DEF Spans
<1> DEFINE r == ReadLayout(L, R, a \o b)
<1>10. r.st = "ok" /\ r.rest = b /\ \A n \in 1..Len(L) : lo < n /\ n <= 6 => r.v[L[n][1]] = a[n - lo].x
  <2>1. Distinct(L) /\ Len(L) \in Nat /\ IsSeq(a)
    BY <1>1, <1>8
  <2> QED
    BY <1>9, <2>1, SpanReads
<1> HIDE DEF r
<1>11. r.v["send"] = c4.x /\ r.v["recv"] = c5.x
  <2>1. r.v[L[5][1]] = a[5 - lo].x /\ r.v[L[6][1]] = a[6 - lo].x
    BY <1>1, <1>7, <1>10
  <2> QED
    BY <1>1, <1>7, <2>1
<1> QED
  BY <1>10, <1>11 DEF L, a, r, c4, c5

\* What follows in the hello of a server: its rules, a nonce, its settings, two versions.
HelloRules == [i \in 1..2 * server.rules |-> Text("rule")]
\* The rest of the hello: password rules, a nonce, settings, flags of later revisions.
HelloSettings == Since(Agreed, SERVER_SETTINGS, ServerSettings \o <<Text("")>>)
HelloEnd == Since(Agreed, QUERY_PLAN_SERIALIZATION, <<Var(1)>>) \o Since(Agreed, VERSIONED_CLUSTER_FUNCTION, <<Var(1)>>)
HelloRest == <<Var(server.rules)>> \o (HelloRules \o (<<Num(8, 0)>> \o (HelloSettings \o HelloEnd)))

\* The parts of the hello are sequences.
LEMMA HelloParts ==
  ASSUME PeersMeet
  PROVE  /\ IsSeq(HelloRules) /\ Len(HelloRules) = 2 * server.rules
         /\ IsSeq(ServerSettings) /\ Len(ServerSettings) = 3 * Len(server.settings)
         /\ IsSeq(HelloStart) /\ IsSeq(HelloVersion) /\ IsSeq(HelloSettings) /\ IsSeq(HelloEnd)
         /\ IsSeq(<<Num(8, 0)>> \o (HelloSettings \o HelloEnd)) /\ IsSeq(HelloRest)
<1>1. IsSeq(HelloRules) /\ Len(HelloRules) = 2 * server.rules
  <2>1. 2 * server.rules \in Nat
    BY PeerIs
  <2> DEFINE f == HelloRules
  <2>2. f = [i \in 1..2 * server.rules |-> f[i]]
    BY DEF HelloRules
  <2> HIDE DEF f
  <2>3. IsSeq(f) /\ Len(f) = 2 * server.rules
    BY <2>1, <2>2, ListIsSeq
  <2> QED
    BY <2>3 DEF f
<1>2. IsSeq(ServerSettings) /\ Len(ServerSettings) = 3 * Len(server.settings)
  <2> DEFINE n == 3 * Len(server.settings)
  <2>1. n \in Nat
    BY PeerIs
  <2> DEFINE f == ServerSettings
  <2>2. f = [i \in 1..n |-> f[i]]
    BY DEF ServerSettings
  <2> HIDE DEF f, n
  <2>3. IsSeq(f) /\ Len(f) = n
    BY <2>1, <2>2, ListIsSeq
  <2> QED
    BY <2>3 DEF f, n
<1>3. IsSeq(HelloStart)
  <2>1. HelloStart \in Seq({Text("ClickHouse"), Var(25), Var(3), Var(server.revision)})
    BY DEF HelloStart
  <2> QED
    BY <2>1 DEF IsSeq
<1>4. IsSeq(HelloVersion)
  <2> DEFINE five == <<Text("UTC"), Text("host"), Var(1), Text(server.send), Text(server.recv)>>
             one == Since(Agreed, VERSIONED_PARALLEL_REPLICAS, <<Var(4)>>)
  <2>1. five \in Seq({Text("UTC"), Text("host"), Var(1), Text(server.send), Text(server.recv)})
    OBVIOUS
  <2>2. IsSeq(five) /\ IsSeq(one)
    BY <2>1, PiecesAreSeqs DEF IsSeq
  <2> HIDE DEF five, one
  <2>3. IsSeq(one \o five)
    BY <2>2, Concatenation
  <2> QED
    BY <2>3 DEF HelloVersion, five, one
<1>5. IsSeq(HelloSettings) /\ IsSeq(HelloEnd)
  BY <1>2, PiecesAreSeqs, Concatenation DEF HelloSettings, HelloEnd
<1>6. IsSeq(<<Num(8, 0)>>) /\ IsSeq(<<Var(server.rules)>>)
  BY PiecesAreSeqs
<1>7. IsSeq(<<Num(8, 0)>> \o (HelloSettings \o HelloEnd))
  BY <1>5, <1>6, Concatenation
<1>8. IsSeq(HelloRest)
  BY <1>1, <1>6, <1>7, Concatenation DEF HelloRest
<1> QED
  BY <1>1, <1>2, <1>3, <1>4, <1>5, <1>7, <1>8

\* The server's hello is its parts, one behind another.
LEMMA ServerHelloIs ==
  ASSUME PeersMeet
  PROVE  ServerHello = <<Var(0)>> \o (HelloStart \o (HelloVersion \o HelloRest))
<1> DEFINE id == <<Var(0)>>
           s == HelloStart
           v1 == Since(Agreed, VERSIONED_PARALLEL_REPLICAS, <<Var(4)>>)
           v2 == <<Text("UTC"), Text("host"), Var(1), Text(server.send), Text(server.recv)>>
           t1 == <<Var(server.rules)>>
           t2 == HelloRules
           t3 == <<Num(8, 0)>>
           t4 == HelloSettings
           t5 == Since(Agreed, QUERY_PLAN_SERIALIZATION, <<Var(1)>>)
           t6 == Since(Agreed, VERSIONED_CLUSTER_FUNCTION, <<Var(1)>>)
<1>1. ServerHello = (((((((((id \o s) \o v1) \o v2) \o t1) \o t2) \o t3) \o t4) \o t5) \o t6)
  BY DEF ServerHello, HelloStart, HelloRules, HelloSettings
<1>2. IsSeq(v2)
  <2>1. v2 \in Seq({Text("UTC"), Text("host"), Var(1), Text(server.send), Text(server.recv)})
    OBVIOUS
  <2> QED
    BY <2>1 DEF IsSeq
<1>3. IsSeq(id) /\ IsSeq(v1) /\ IsSeq(t1) /\ IsSeq(t3) /\ IsSeq(t5) /\ IsSeq(t6)
  BY PiecesAreSeqs
<1>4. IsSeq(s) /\ IsSeq(t2) /\ IsSeq(t4)
  BY HelloParts
<1>5. HelloVersion = v1 \o v2 /\ HelloRest = t1 \o (t2 \o (t3 \o (t4 \o (t5 \o t6))))
  BY DEF HelloVersion, HelloRest, HelloEnd
<1> HIDE DEF id, s, v1, v2, t1, t2, t3, t4, t5, t6
<1> DEFINE v == v1 \o v2
           x0 == id \o s
           x1 == x0 \o v
           x2 == x1 \o t1
           x3 == x2 \o t2
           x4 == x3 \o t3
           x5 == x4 \o t4
           y5 == t5 \o t6
           y4 == t4 \o y5
           y3 == t3 \o y4
           y2 == t2 \o y3
           y1 == t1 \o y2
           y0 == v \o y1
           all == x5 \o t5
           whole == all \o t6
<1>6. Cat(v1, v2, v) /\ Cat(id, s, x0) /\ IsSeq(v) /\ IsSeq(x0)
  BY <1>2, <1>3, <1>4, CatIs
<1>7. /\ Cat(x0, v, x1) /\ Cat(x1, t1, x2) /\ Cat(x2, t2, x3) /\ Cat(x3, t3, x4) /\ Cat(x4, t4, x5)
      /\ Cat(x5, t5, all) /\ Cat(all, t6, whole)
  <2> HIDE DEF v, x0
  <2>1. Cat(x0, v, x1) /\ IsSeq(x1)
    BY <1>6, CatIs
  <2> HIDE DEF x1
  <2>2. Cat(x1, t1, x2) /\ IsSeq(x2)
    BY <1>3, <2>1, CatIs
  <2> HIDE DEF x2
  <2>3. Cat(x2, t2, x3) /\ IsSeq(x3)
    BY <1>4, <2>2, CatIs
  <2> HIDE DEF x3
  <2>4. Cat(x3, t3, x4) /\ IsSeq(x4)
    BY <1>3, <2>3, CatIs
  <2> HIDE DEF x4
  <2>5. Cat(x4, t4, x5) /\ IsSeq(x5)
    BY <1>4, <2>4, CatIs
  <2> HIDE DEF x5
  <2>6. Cat(x5, t5, all) /\ IsSeq(all)
    BY <1>3, <2>5, CatIs
  <2> HIDE DEF all
  <2>7. Cat(all, t6, whole)
    BY <1>3, <2>6, CatIs
  <2> QED
    BY <2>1, <2>2, <2>3, <2>4, <2>5, <2>6, <2>7
<1>8. Cat(t5, t6, y5) /\ Cat(t4, y5, y4) /\ Cat(t3, y4, y3) /\ Cat(t2, y3, y2) /\ Cat(t1, y2, y1) /\ Cat(v, y1, y0)
  <2>1. Cat(t5, t6, y5) /\ IsSeq(y5)
    BY <1>3, CatIs
  <2> HIDE DEF y5
  <2>2. Cat(t4, y5, y4) /\ IsSeq(y4)
    BY <1>4, <2>1, CatIs
  <2> HIDE DEF y4
  <2>3. Cat(t3, y4, y3) /\ IsSeq(y3)
    BY <1>3, <2>2, CatIs
  <2> HIDE DEF y3
  <2>4. Cat(t2, y3, y2) /\ IsSeq(y2)
    BY <1>4, <2>3, CatIs
  <2> HIDE DEF y2
  <2>5. Cat(t1, y2, y1) /\ IsSeq(y1)
    BY <1>3, <2>4, CatIs
  <2> HIDE DEF v, y1
  <2>6. Cat(v, y1, y0)
    BY <1>6, <2>5, CatIs
  <2> QED
    BY <2>1, <2>2, <2>3, <2>4, <2>5, <2>6
<1>9. (x0 \o v1) \o v2 = x1
  <2> HIDE DEF x0
  <2> QED
    BY <1>2, <1>3, <1>6, Associates
<1>10. ServerHello = whole /\ HelloVersion = v /\ HelloRest = y1
  <2>1. HelloVersion = v /\ HelloRest = y1
    BY <1>5
  <2>2. ServerHello = ((((((((x0 \o v1) \o v2) \o t1) \o t2) \o t3) \o t4) \o t5) \o t6)
    BY <1>1
  <2>3. whole = ((((((x1 \o t1) \o t2) \o t3) \o t4) \o t5) \o t6)
    OBVIOUS
  <2> HIDE DEF x0, x1, whole, v, y1
  <2>4. ServerHello = whole
    BY <1>9, <2>2, <2>3
  <2> QED
    BY <2>1, <2>4
<1> HIDE DEF v, x0, x1, x2, x3, x4, x5, y0, y1, y2, y3, y4, y5, all, whole
<1>11. Cat(x5, y5, whole)
  BY <1>7, <1>8, Regroup
<1>12. Cat(x4, y4, whole)
  BY <1>7, <1>8, <1>11, Regroup
<1>13. Cat(x3, y3, whole)
  BY <1>7, <1>8, <1>12, Regroup
<1>14. Cat(x2, y2, whole)
  BY <1>7, <1>8, <1>13, Regroup
<1>15. Cat(x1, y1, whole)
  BY <1>7, <1>8, <1>14, Regroup
<1>16. Cat(x0, y0, whole)
  BY <1>7, <1>8, <1>15, Regroup
<1>17. Cat(s, y0, s \o y0)
  BY <1>4, <1>8, CatIs DEF Cat
<1>18. Cat(id, s \o y0, whole)
  BY <1>6, <1>16, <1>17, Regroup
<1>19. whole = id \o (s \o (v \o y1))
  BY <1>8, <1>18 DEF Cat
<1>20. ServerHello = id \o (s \o (HelloVersion \o HelloRest))
  BY <1>10, <1>19
<1> QED
  BY <1>20 DEF id, s

\* What the client reads of the hello once the modes are settled.
HelloTail(agreed, wire) ==
    Then(read_rules(Agreed, wire), LAMBDA rules, r3 :
    Then(ReadLayout(<< <<"nonce", 8, INTERSERVER_SECRET_V2>> >>, Agreed, r3), LAMBDA nonce, r4 :
    Then(IF Agreed >= SERVER_SETTINGS THEN decode_settings(r4) ELSE Ok(<<>>, r4), LAMBDA settings, r5 :
    Then(ReadLayout(ServerHelloEnd, Agreed, r5), LAMBDA last, r6 :
         Ok([revision |-> Agreed, chunked_send |-> agreed[1], chunked_recv |-> agreed[2],
             settings |-> IF Agreed >= SERVER_SETTINGS THEN <<settings>> ELSE <<>>], r6)))))

\* The modes that the client asks for, and whether and on what the sides settle.
OwnModes == <<options.ext.chunked_send, options.ext.chunked_recv>>
Settled == negotiate(server.send, options.ext.chunked_send).st = "ok" /\ negotiate(server.recv, options.ext.chunked_recv).st = "ok"
SettledModes == <<negotiate(server.send, options.ext.chunked_send).v, negotiate(server.recv, options.ext.chunked_recv).v>>

\* A mode is read as it was written.
LEMMA ModeRead == \A m \in Modes : Text(m).x = <<m>> /\ ModeFromStr(m) = m /\ ModeFromStr(Text(m).x[1]) = m
BY DEF Modes, Text, Cell, ModeFromStr

\* There is an agreement, and the rest of the hello is read, or the client gives up.
LEMMA HelloReceived ==
  ASSUME PeersMeet
  PROVE  LET r == receive_hello(OwnModes, ServerHello)
         IN IF Settled THEN r = HelloTail(SettledModes, HelloRest) ELSE r.st = "err"
<1> DEFINE A == HelloStart
           V == HelloVersion
           T == HelloRest
           W1 == V \o T
           W2 == A \o W1
           W == <<Var(0)>> \o W2
           m == OwnModes
           q1 == ReadLayout(ServerHelloStart, 0, W2)
           q2 == ReadLayout(ServerHelloVersion, Agreed, W1)
<1>1. ServerHello = W
  BY ServerHelloIs
<1>2. IsSeq(A) /\ IsSeq(V) /\ IsSeq(T)
  BY HelloParts
<1>3. IsSeq(W1) /\ IsSeq(W2)
  BY <1>2, Concatenation
<1>4. q1.st = "ok" /\ q1.rest = W1 /\ q1.v["revision"] = <<server.revision>>
  <2> HIDE DEF W1
  <2> QED
    BY <1>3, StartReads
<1>5. q2.st = "ok" /\ q2.rest = T /\ q2.v["send"] = Text(server.send).x /\ q2.v["recv"] = Text(server.recv).x
  <2> HIDE DEF T
  <2> QED
    BY <1>2, VersionReads
<1>6. ReadCell(VAR, W) = Ok(<<0>>, W2)
  <2>1. Var(0).w = VAR /\ Var(0).x = <<0>>
    BY DEF Var, Num, Cell
  <2> HIDE DEF W2
  <2> QED
    BY <1>3, <2>1, FirstRead
<1> HIDE DEF A, V, T, W1, W2, W
<1>7. ReadNum(VAR, W) = Ok(0, W2)
  BY <1>6 DEF ReadNum, Then, Ok
<1>8. receive_hello(m, W) = read_hello(m, W2)
  BY <1>7 DEF receive_hello, Then, Ok
<1> DEFINE n == Negotiated(Agreed, q2.v, m)
<1>9. read_hello(m, W2) = Then(n, LAMBDA agreed, none : HelloTail(agreed, T))
  <2>1. Smaller(q1.v["revision"][1], DBMS_TCP_PROTOCOL_VERSION) = Agreed
    BY <1>4 DEF Agreed
  <2> HIDE DEF m, n
  <2>2. read_hello(m, W2) =
          Then(q2, LAMBDA fields, r2 :
            Then(Negotiated(Agreed, fields, m), LAMBDA agreed, none : HelloTail(agreed, r2)))
    <3> HIDE DEF q2
    <3>1. q1 = ReadLayout(ServerHelloStart, 0, W2) /\ q2 = ReadLayout(ServerHelloVersion, Agreed, W1)
      BY DEF q2
    <3> HIDE DEF q1
    <3>2. q1.rest = W1 /\ q1.st = "ok"
      BY <1>4
    <3> QED
      BY <2>1, <3>1, <3>2 DEF read_hello, Then, HelloTail
  <2> HIDE DEF q2
  <2> QED
    BY <1>5, <2>2 DEF Then, n
<1>10. /\ m[1] = options.ext.chunked_send /\ m[2] = options.ext.chunked_recv
       /\ ModeFromStr(q2.v["send"][1]) = server.send /\ ModeFromStr(q2.v["recv"][1]) = server.recv
  <2>1. m[1] = options.ext.chunked_send /\ m[2] = options.ext.chunked_recv
    BY DEF OwnModes
  <2> HIDE DEF q2
  <2> QED
    BY <1>5, <2>1, PeerIs, ModeRead
<1>11. ~(Agreed < CHUNKED_PACKETS)
  BY AgreedIs DEF CHUNKED_PACKETS
<1> DEFINE s == negotiate(server.send, options.ext.chunked_send)
           c == negotiate(server.recv, options.ext.chunked_recv)
<1>12. n = Then(s, LAMBDA x, none : Then(c, LAMBDA y, none2 : Ok(<<x, y>>, <<>>)))
  <2> HIDE DEF q2
  <2> QED
    BY <1>10, <1>11 DEF Negotiated, OwnModes
<1>13. s.st \in {"ok", "err"} /\ c.st \in {"ok", "err"}
  BY PeerIs, Negotiates
<1> HIDE DEF q1, q2
<1>14. CASE Settled
  <2>1. s.st = "ok" /\ c.st = "ok"
    BY <1>14 DEF Settled
  <2> HIDE DEF n
  <2>2. n = Ok(SettledModes, <<>>)
    BY <1>12, <2>1 DEF Then, SettledModes
  <2>3. n.st = "ok" /\ n.v = SettledModes
    BY <2>2 DEF Ok
  <2>4. read_hello(m, W2) = HelloTail(SettledModes, T)
    BY <1>9, <2>3 DEF Then
  <2> QED
    BY <1>1, <1>8, <1>14, <2>4 DEF T
<1>15. CASE ~Settled
  <2>1. s.st = "err" \/ (s.st = "ok" /\ c.st = "err")
    BY <1>13, <1>15 DEF Settled
  <2> HIDE DEF n, s, c
  <2>2. n.st = "err"
    BY <1>12, <2>1 DEF Then
  <2>3. read_hello(m, W2).st = "err"
    BY <1>9, <2>2 DEF Then
  <2> QED
    BY <1>1, <1>8, <1>15, <2>3
<1> QED
  BY <1>14, <1>15

\* What it holds then.
LEMMA HelloHolds ==
  ASSUME NEW agreed, NEW wire
  PROVE  LET r == HelloTail(agreed, wire)
         IN r.st = "ok" => /\ r.v.revision = Agreed /\ r.v.chunked_send = agreed[1] /\ r.v.chunked_recv = agreed[2]
                           /\ r.v # <<>>
BY DEF HelloTail, Then, Ok

-----------------------------------------------------------------------------
(* Settings on the stream.                                                 *)
\* The results of writing some pieces one after another.
Puts(e, N, f) ==
    /\ f = [n \in 0..N |-> f[n]]
    /\ f[0] = Wrote(<<>>)
    /\ \A n \in 0..N - 1 : f[n + 1] = WThen(f[n], e[n + 1])

\* Writing settings one after another has its steps.
LEMMA PutsExist ==
  ASSUME NEW e
  PROVE  \A N \in Nat : \E f : Puts(e, N, f)
<1> DEFINE T == {N \in Nat : \E f : Puts(e, N, f)}
<1>1. 0 \in T
  <2> DEFINE g == [n \in 0..0 |-> Wrote(<<>>)]
  <2>1. g = [n \in 0..0 |-> g[n]] /\ g[0] = Wrote(<<>>) /\ 0..0 - 1 = {}
    OBVIOUS
  <2> HIDE DEF g
  <2>2. Puts(e, 0, g)
    BY <2>1 DEF Puts
  <2> QED
    BY <2>2
<1>2. ASSUME NEW N \in Nat, N \in T
      PROVE  N + 1 \in T
  <2>1. PICK g : Puts(e, N, g)
    BY <1>2
  <2>2. g[0] = Wrote(<<>>) /\ \A n \in 0..N - 1 : g[n + 1] = WThen(g[n], e[n + 1])
    BY <2>1 DEF Puts
  <2> DEFINE next == WThen(g[N], e[N + 1])
             h == [n \in 0..N + 1 |-> IF n <= N THEN g[n] ELSE next]
  <2> HIDE DEF next
  <2>3. /\ h = [n \in 0..N + 1 |-> h[n]] /\ \A n \in 0..N : h[n] = g[n]
        /\ h[N + 1] = next
    OBVIOUS
  <2> HIDE DEF h
  <2>4. h[0] = Wrote(<<>>)
    <3>1. 0 \in 0..N
      OBVIOUS
    <3> QED
      BY <2>2, <2>3, <3>1, Zenon
  <2>5. ASSUME NEW n \in 0..(N + 1) - 1
        PROVE  h[n + 1] = WThen(h[n], e[n + 1])
    <3>1. CASE n = N
      <4>1. h[n] = g[N] /\ h[n + 1] = next
        BY <2>3, <3>1
      <4> QED
        BY <3>1, <4>1 DEF next
    <3>2. CASE n # N
      <4>1. n \in 0..N - 1 /\ n \in 0..N /\ n + 1 \in 0..N
        BY <3>2
      <4>2. h[n] = g[n] /\ h[n + 1] = g[n + 1]
        BY <2>3, <4>1
      <4> QED
        BY <2>2, <4>1, <4>2
    <3> QED
      BY <3>1, <3>2
  <2>6. Puts(e, N + 1, h)
    BY <2>3, <2>4, <2>5 DEF Puts
  <2> QED
    BY <2>6
<1>3. Nat \subseteq T
  <2> HIDE DEF T
  <2> QED
    BY <1>1, <1>2, Inductive
<1> QED
  BY <1>3

\* They are what a recursive function that puts them is.
LEMMA PutsAre ==
  ASSUME NEW e, NEW N \in Nat, NEW f
  PROVE  Puts(e, N, f) <=> f = [n \in 0..N |-> IF n = 0 THEN Wrote(<<>>) ELSE WThen(f[n - 1], e[n])]
<1>1. ASSUME Puts(e, N, f)
      PROVE  f = [n \in 0..N |-> IF n = 0 THEN Wrote(<<>>) ELSE WThen(f[n - 1], e[n])]
  <2>1. f = [n \in 0..N |-> f[n]] /\ f[0] = Wrote(<<>>) /\ \A n \in 0..N - 1 : f[n + 1] = WThen(f[n], e[n + 1])
    BY <1>1 DEF Puts
  <2>2. ASSUME NEW n \in 0..N
        PROVE  f[n] = IF n = 0 THEN Wrote(<<>>) ELSE WThen(f[n - 1], e[n])
    <3>1. CASE n = 0
      BY <2>1, <3>1
    <3>2. CASE n # 0
      <4>1. n - 1 \in 0..N - 1 /\ (n - 1) + 1 = n
        BY <3>2
      <4>2. f[(n - 1) + 1] = WThen(f[n - 1], e[(n - 1) + 1])
        BY <2>1, <4>1
      <4> QED
        BY <3>2, <4>1, <4>2
    <3> QED
      BY <3>1, <3>2
  <2> QED
    BY <2>1, <2>2, Zenon
<1>2. ASSUME f = [n \in 0..N |-> IF n = 0 THEN Wrote(<<>>) ELSE WThen(f[n - 1], e[n])]
      PROVE  Puts(e, N, f)
  <2>1. f = [n \in 0..N |-> f[n]]
    BY <1>2
  <2>2. \A n \in 0..N : f[n] = IF n = 0 THEN Wrote(<<>>) ELSE WThen(f[n - 1], e[n])
    BY <1>2
  <2>3. f[0] = Wrote(<<>>)
    BY <2>2
  <2>4. ASSUME NEW n \in 0..N - 1
        PROVE  f[n + 1] = WThen(f[n], e[n + 1])
    <3>1. n + 1 \in 0..N /\ n + 1 # 0 /\ (n + 1) - 1 = n
      OBVIOUS
    <3> QED
      BY <2>2, <3>1
  <2> QED
    BY <2>1, <2>3, <2>4 DEF Puts
<1> QED
  BY <1>1, <1>2

\* Settings, of which some may be left out.
Pieces(settings, skips, revision) ==
    [n \in 1..Len(settings) |-> IF n \in skips THEN Wrote(<<>>) ELSE encode_setting(settings[n], revision)]
\* The settings that the client leaves out since the server has told them.
Skipped(settings, ignore) == {n \in 1..Len(settings) : Ignored(settings[n], ignore)}

\* encode_settings writes them one after another.
LEMMA EncodeIs ==
  ASSUME NEW settings, NEW revision, Len(settings) \in Nat
  PROVE  \E f : Puts(Pieces(settings, {}, revision), Len(settings), f) /\ encode_settings(settings, revision) = f[Len(settings)]
<1> DEFINE N == Len(settings)
           e == Pieces(settings, {}, revision)
           rule(r) == [n \in 0..N |-> IF n = 0 THEN Wrote(<<>>) ELSE WThen(r[n - 1], encode_setting(settings[n], revision))]
           put == CHOOSE r : r = rule(r)
<1>1. encode_settings(settings, revision) = put[N]
  BY Zenon DEF encode_settings, WEach
<1>2. \A n \in 1..N : e[n] = encode_setting(settings[n], revision)
  BY DEF Pieces
<1> HIDE DEF e
<1>3. ASSUME NEW r
      PROVE  rule(r) = [n \in 0..N |-> IF n = 0 THEN Wrote(<<>>) ELSE WThen(r[n - 1], e[n])]
  <2>1. \A n \in 0..N : n # 0 => n \in 1..N
    OBVIOUS
  <2>2. \A n \in 0..N : (IF n = 0 THEN Wrote(<<>>) ELSE WThen(r[n - 1], encode_setting(settings[n], revision)))
                        = (IF n = 0 THEN Wrote(<<>>) ELSE WThen(r[n - 1], e[n]))
    BY <1>2, <2>1
  <2> QED
    BY <2>2, Zenon
<1>4. \E f : f = rule(f)
  <2>1. PICK f : Puts(e, N, f)
    BY PutsExist
  <2>2. f = [n \in 0..N |-> IF n = 0 THEN Wrote(<<>>) ELSE WThen(f[n - 1], e[n])]
    BY <2>1, PutsAre
  <2> HIDE DEF rule
  <2> QED
    BY <1>3, <2>2
<1>5. put = rule(put)
  <2> HIDE DEF rule
  <2> QED
    BY <1>4, Zenon
<1> HIDE DEF put
<1>6. put = [n \in 0..N |-> IF n = 0 THEN Wrote(<<>>) ELSE WThen(put[n - 1], e[n])]
  <2> HIDE DEF rule
  <2> QED
    BY <1>3, <1>5
<1>7. Puts(e, N, put)
  BY <1>6, PutsAre
<1> QED
  BY <1>1, <1>7 DEF e

\* So does encode_with_ignore, without those that it skips.
LEMMA EncodeWithIgnoreIs ==
  ASSUME NEW settings, NEW revision, NEW ignore, Len(settings) \in Nat
  PROVE  \E f : /\ Puts(Pieces(settings, Skipped(settings, ignore), revision), Len(settings), f)
                /\ encode_with_ignore(settings, revision, ignore) = f[Len(settings)]
<1> DEFINE N == Len(settings)
           skips == Skipped(settings, ignore)
           e == Pieces(settings, skips, revision)
           piece(n) == IF Ignored(settings[n], ignore) THEN Wrote(<<>>) ELSE encode_setting(settings[n], revision)
           rule(r) == [n \in 0..N |-> IF n = 0 THEN Wrote(<<>>) ELSE WThen(r[n - 1], piece(n))]
           put == CHOOSE r : r = rule(r)
<1>1. encode_with_ignore(settings, revision, ignore) = put[N]
  BY Zenon DEF encode_with_ignore, WEach
<1>2. \A n \in 1..N : e[n] = piece(n)
  BY DEF Pieces, Skipped
<1> HIDE DEF e, piece
<1>3. ASSUME NEW r
      PROVE  rule(r) = [n \in 0..N |-> IF n = 0 THEN Wrote(<<>>) ELSE WThen(r[n - 1], e[n])]
  <2>1. \A n \in 0..N : n # 0 => n \in 1..N
    OBVIOUS
  <2>2. \A n \in 0..N : (IF n = 0 THEN Wrote(<<>>) ELSE WThen(r[n - 1], piece(n)))
                        = (IF n = 0 THEN Wrote(<<>>) ELSE WThen(r[n - 1], e[n]))
    BY <1>2, <2>1
  <2> QED
    BY <2>2, Zenon
<1>4. \E f : f = rule(f)
  <2>1. PICK f : Puts(e, N, f)
    BY PutsExist
  <2>2. f = [n \in 0..N |-> IF n = 0 THEN Wrote(<<>>) ELSE WThen(f[n - 1], e[n])]
    BY <2>1, PutsAre
  <2> HIDE DEF rule
  <2> QED
    BY <1>3, <2>2
<1>5. put = rule(put)
  <2> HIDE DEF rule
  <2> QED
    BY <1>4, Zenon
<1> HIDE DEF put
<1>6. put = [n \in 0..N |-> IF n = 0 THEN Wrote(<<>>) ELSE WThen(put[n - 1], e[n])]
  <2> HIDE DEF rule
  <2> QED
    BY <1>3, <1>5
<1>7. Puts(e, N, put)
  BY <1>6, PutsAre
<1> QED
  BY <1>1, <1>7 DEF e

\* A sequence has the cells of some pairs, a key, flags and a text for every pair.
KeyCell(out, m) == out[3 * m - 2]
\* Every setting is three cells: its name, flags, and its value as text.
FlagCell(out, m) == out[3 * m - 1]
TextCell(out, m) == out[3 * m]
CarriesAt(out, pairs, m) ==
    /\ KeyCell(out, m).w = STR /\ KeyCell(out, m).x # <<>> /\ FlagCell(out, m).w = VAR /\ TextCell(out, m).w = STR
    /\ pairs[m] = <<TextOf(KeyCell(out, m).x), Meaning(TextOf(TextCell(out, m).x))>>
Carries(out, pairs) ==
    /\ IsSeq(out) /\ IsSeq(pairs) /\ Len(out) = 3 * Len(pairs)
    /\ \A m \in 1..Len(pairs) : CarriesAt(out, pairs, m)

\* No cells carry no settings.
LEMMA CarriesNone == Carries(<<>>, <<>>)
<1>1. Len(<<>>) = 0 /\ 1..0 = {} /\ 3 * 0 = 0
  OBVIOUS
<1>2. IsSeq(<<>>)
  BY PiecesAreSeqs
<1> QED
  BY <1>1, <1>2 DEF Carries

\* Cells behind cells carry settings behind settings.
LEMMA CarriesBoth ==
  ASSUME NEW a, NEW p, Carries(a, p), NEW b, NEW q, Carries(b, q)
  PROVE  Carries(a \o b, p \o q)
<1> DEFINE c == a \o b
           r == p \o q
<1>1. IsSeq(a) /\ IsSeq(b) /\ IsSeq(p) /\ IsSeq(q) /\ Len(a) = 3 * Len(p) /\ Len(b) = 3 * Len(q)
  BY DEF Carries
<1>2. /\ IsSeq(c) /\ Len(c) = Len(a) + Len(b) /\ Len(a) \in Nat /\ Len(b) \in Nat
      /\ \A i \in 1..Len(a) : c[i] = a[i]
      /\ \A i \in 1..Len(b) : c[Len(a) + i] = b[i]
  BY <1>1, Concatenation
<1>3. /\ IsSeq(r) /\ Len(r) = Len(p) + Len(q) /\ Len(p) \in Nat /\ Len(q) \in Nat
      /\ \A i \in 1..Len(p) : r[i] = p[i]
      /\ \A i \in 1..Len(q) : r[Len(p) + i] = q[i]
  BY <1>1, Concatenation
<1> HIDE DEF c, r
<1>4. Len(c) = 3 * Len(r)
  BY <1>1, <1>2, <1>3
<1>5. ASSUME NEW m \in 1..Len(r)
      PROVE  CarriesAt(c, r, m)
  <2>1. CASE m <= Len(p)
    <3>1. m \in 1..Len(p) /\ 3 * m - 2 \in 1..Len(a) /\ 3 * m - 1 \in 1..Len(a) /\ 3 * m \in 1..Len(a)
      BY <1>1, <1>3, <2>1
    <3>2. CarriesAt(a, p, m)
      BY <3>1 DEF Carries
    <3>3. KeyCell(c, m) = KeyCell(a, m) /\ FlagCell(c, m) = FlagCell(a, m) /\ TextCell(c, m) = TextCell(a, m)
      BY <1>2, <3>1 DEF KeyCell, FlagCell, TextCell
    <3>4. r[m] = p[m]
      BY <1>3, <3>1
    <3> QED
      BY <3>2, <3>3, <3>4 DEF CarriesAt
  <2>2. CASE ~(m <= Len(p))
    <3> DEFINE n == m - Len(p)
    <3>1. n \in 1..Len(q) /\ m = Len(p) + n
      BY <1>3, <2>2
    <3> HIDE DEF n
    <3>2. /\ 3 * n - 2 \in 1..Len(b) /\ 3 * n - 1 \in 1..Len(b) /\ 3 * n \in 1..Len(b)
          /\ 3 * m - 2 = Len(a) + (3 * n - 2) /\ 3 * m - 1 = Len(a) + (3 * n - 1) /\ 3 * m = Len(a) + 3 * n
      BY <1>1, <1>3, <3>1
    <3>3. CarriesAt(b, q, n)
      BY <3>1 DEF Carries
    <3>4. KeyCell(c, m) = KeyCell(b, n) /\ FlagCell(c, m) = FlagCell(b, n) /\ TextCell(c, m) = TextCell(b, n)
      BY <1>2, <3>2 DEF KeyCell, FlagCell, TextCell
    <3>5. r[m] = q[n]
      BY <1>3, <3>1
    <3> QED
      BY <3>3, <3>4, <3>5 DEF CarriesAt
  <2> QED
    BY <2>1, <2>2
<1>6. Carries(c, r)
  BY <1>2, <1>3, <1>4, <1>5 DEF Carries
<1> QED
  BY <1>6 DEF c, r

\* What one setting is on the stream.
PairOf(s) == <<s.key, Meaning(to_string(s.value))>>

\* A text is read as it was written, and only the empty one is an empty cell.
LEMMA TextIs ==
  ASSUME NEW t
  PROVE  Text(t).w = STR /\ TextOf(Text(t).x) = t /\ (t # "" => Text(t).x # <<>>)
BY DEF Text, TextOf, Cell

\* A setting that can be written is written as its name and what its value means.
LEMMA EncodeOne ==
  ASSUME NEW s, NEW revision \in Nat, revision > SETTINGS_AS_STRINGS
  PROVE  LET w == encode_setting(s, revision)
         IN /\ IsSeq(w.out)
            /\ w.st = "ok" /\ s.key # "" => Carries(w.out, <<PairOf(s)>>)
<1> DEFINE flags == (IF s.important THEN SETTING_FLAG_IMPORTANT ELSE 0) + (IF s.custom THEN SETTING_FLAG_CUSTOM ELSE 0)
           k == Text(s.key)
           g == Num(VAR, flags)
           t == Text(to_string(s.value))
           o == Append(<<k, g>>, t)
           w == encode_setting(s, revision)
<1>1. \/ w = WErr(<<k, g>>)
      \/ w = Wrote(o)
  <2>1. ~(revision <= SETTINGS_AS_STRINGS)
    BY DEF SETTINGS_AS_STRINGS
  <2> HIDE DEF flags
  <2>2. w = IF s.custom /\ s.value.k # "String" THEN WErr(<<k, g>>) ELSE Wrote(Append(<<k, g>>, t))
    BY <2>1 DEF encode_setting, flags
  <2> QED
    BY <2>2
<1>2. k.w = STR /\ TextOf(k.x) = s.key /\ (s.key # "" => k.x # <<>>) /\ t.w = STR /\ TextOf(t.x) = to_string(s.value) /\ g.w = VAR
  BY TextIs DEF Num, Cell
<1> HIDE DEF k, g, t, w
<1>3. /\ <<k, g>> \in Seq({k, g}) /\ o \in Seq({k, g, t})
      /\ Len(o) = 3 /\ o[1] = k /\ o[2] = g /\ o[3] = t
  OBVIOUS
<1> HIDE DEF o
<1>4. IsSeq(<<k, g>>) /\ IsSeq(o)
  BY <1>3 DEF IsSeq
<1>5. IsSeq(w.out)
  BY <1>1, <1>4 DEF WErr, Wrote
<1>6. ASSUME w.st = "ok", s.key # ""
      PROVE  Carries(w.out, <<PairOf(s)>>)
  <2> DEFINE p == <<PairOf(s)>>
  <2>1. w.out = o
    <3>1. WErr(<<k, g>>).st = "err" /\ Wrote(o).out = o
      BY DEF WErr, Wrote
    <3>2. w = Wrote(o)
      BY <1>1, <1>6, <3>1
    <3> QED
      BY <3>1, <3>2
  <2>2. Len(p) = 1 /\ p[1] = <<s.key, Meaning(to_string(s.value))>>
    BY DEF PairOf
  <2>3. IsSeq(o) /\ IsSeq(p)
    BY <1>4, PiecesAreSeqs
  <2> HIDE DEF p
  <2>4. KeyCell(o, 1) = k /\ FlagCell(o, 1) = g /\ TextCell(o, 1) = t
    BY <1>3 DEF KeyCell, FlagCell, TextCell
  <2>5. CarriesAt(o, p, 1)
    BY <1>2, <1>6, <2>2, <2>4 DEF CarriesAt
  <2>6. Carries(o, p)
    <3>1. \A m \in 1..Len(p) : m = 1
      BY <2>2
    <3> QED
      BY <1>3, <2>2, <2>3, <2>5, <3>1 DEF Carries
  <2> QED
    BY <2>1, <2>6 DEF p
<1> QED
  BY <1>5, <1>6 DEF w

\* The pairs of those of some settings that are not left out.
PairsOf(settings, skips, N, pairs) ==
    /\ \A m \in 1..Len(pairs) : \E n \in 1..N : n \notin skips /\ pairs[m] = PairOf(settings[n])
    /\ \A n \in 1..N : n \notin skips => \E m \in 1..Len(pairs) : pairs[m] = PairOf(settings[n])

\* What a write leaves behind another: both outputs, or what the first left.
LEMMA AfterIs ==
  ASSUME NEW a, NEW b
  PROVE  /\ a.st = "ok" => WThen(a, b).st = b.st /\ WThen(a, b).out = a.out \o b.out
         /\ a.st # "ok" => WThen(a, b) = a
<1> DEFINE x == a.out \o b.out
<1>1. a.st = "ok" => WThen(a, b) = [st |-> b.st, out |-> x]
  BY DEF WThen
<1> HIDE DEF x
<1>2. a.st = "ok" => WThen(a, b).st = b.st /\ WThen(a, b).out = x
  BY <1>1
<1> QED
  BY <1>2 DEF WThen, x

\* One more setting is one more pair, unless it is skipped.
LEMMA PairsJoin ==
  ASSUME NEW settings, NEW skips, NEW n \in Nat, NEW p, IsSeq(p), PairsOf(settings, skips, n, p)
  PROVE  /\ n + 1 \in skips => PairsOf(settings, skips, n + 1, p)
         /\ n + 1 \notin skips => PairsOf(settings, skips, n + 1, p \o <<PairOf(settings[n + 1])>>)
<1> DEFINE one == PairOf(settings[n + 1])
           q == <<one>>
           r == p \o q
<1>1. /\ \A m \in 1..Len(p) : \E i \in 1..n : i \notin skips /\ p[m] = PairOf(settings[i])
      /\ \A i \in 1..n : i \notin skips => \E m \in 1..Len(p) : p[m] = PairOf(settings[i])
  BY DEF PairsOf
<1>2. \A i \in 1..n + 1 : i \in 1..n \/ i = n + 1
  OBVIOUS
<1>3. \A i \in 1..n : i \in 1..n + 1
  OBVIOUS
<1>4. ASSUME n + 1 \in skips
      PROVE  PairsOf(settings, skips, n + 1, p)
  BY <1>1, <1>2, <1>3, <1>4, Zenon DEF PairsOf
<1>5. ASSUME n + 1 \notin skips
      PROVE  PairsOf(settings, skips, n + 1, r)
  <2>1. IsSeq(q) /\ Len(q) = 1 /\ q[1] = one
    BY PiecesAreSeqs
  <2> HIDE DEF one, q
  <2>2. /\ Len(r) = Len(p) + 1 /\ Len(p) \in Nat
        /\ \A i \in 1..Len(p) : r[i] = p[i]
        /\ r[Len(p) + 1] = one
    <3>2. \A i \in 1..Len(p) : r[i] = p[i]
      BY <2>1, Concatenation
    <3>3. 1 \in 1..Len(q)
      BY <2>1
    <3>4. r[Len(p) + 1] = q[1]
      BY <2>1, <3>3, Concatenation
    <3>5. Len(r) = Len(p) + Len(q) /\ Len(p) \in Nat
      BY <2>1, Concatenation
    <3> QED
      BY <2>1, <3>2, <3>4, <3>5
  <2> HIDE DEF r
  <2>3. ASSUME NEW m \in 1..Len(r)
        PROVE  \E i \in 1..n + 1 : i \notin skips /\ r[m] = PairOf(settings[i])
    <3>1. CASE m \in 1..Len(p)
      BY <1>1, <1>3, <2>2, <3>1
    <3>2. CASE m \notin 1..Len(p)
      <4>1. m = Len(p) + 1
        BY <2>2, <3>2
      <4>2. n + 1 \in 1..n + 1 /\ r[m] = PairOf(settings[n + 1])
        BY <2>2, <4>1 DEF one
      <4> QED
        BY <1>5, <4>2
    <3> QED
      BY <3>1, <3>2
  <2>4. ASSUME NEW i \in 1..n + 1, i \notin skips
        PROVE  \E m \in 1..Len(r) : r[m] = PairOf(settings[i])
    <3>1. CASE i \in 1..n
      <4>1. PICK m \in 1..Len(p) : p[m] = PairOf(settings[i])
        BY <1>1, <2>4, <3>1
      <4>2. m \in 1..Len(r) /\ r[m] = p[m]
        BY <2>2
      <4> QED
        BY <4>1, <4>2
    <3>2. CASE i = n + 1
      <4>1. Len(p) + 1 \in 1..Len(r) /\ r[Len(p) + 1] = PairOf(settings[i])
        BY <2>2, <3>2 DEF one
      <4> QED
        BY <4>1
    <3> QED
      BY <1>2, <3>1, <3>2
  <2> QED
    BY <2>3, <2>4 DEF PairsOf
<1> QED
  BY <1>4, <1>5

\* What is written of some settings is a sequence, which carries the pairs of those that
\* are not left out.
LEMMA PutsCarry ==
  ASSUME NEW settings, NEW skips, NEW revision \in Nat, revision > SETTINGS_AS_STRINGS, Len(settings) \in Nat,
         NEW f, Puts(Pieces(settings, skips, revision), Len(settings), f)
  PROVE  LET w == f[Len(settings)]
         IN /\ IsSeq(w.out)
            /\ w.st = "ok" /\ (\A i \in 1..Len(settings) : settings[i].key # "") =>
                  \E pairs : Carries(w.out, pairs) /\ PairsOf(settings, skips, Len(settings), pairs)
<1> DEFINE N == Len(settings)
           e == Pieces(settings, skips, revision)
           Named == \A i \in 1..N : settings[i].key # ""
           Good(n) == /\ IsSeq(f[n].out)
                      /\ f[n].st = "ok" /\ Named => \E pairs : Carries(f[n].out, pairs) /\ PairsOf(settings, skips, n, pairs)
           T == {n \in Nat : n <= N => Good(n)}
<1>1. f[0] = Wrote(<<>>) /\ \A n \in 0..N - 1 : f[n + 1] = WThen(f[n], e[n + 1])
  BY DEF Puts
<1>2. \A n \in 1..N : e[n] = IF n \in skips THEN Wrote(<<>>) ELSE encode_setting(settings[n], revision)
  BY DEF Pieces
<1> HIDE DEF e, Named
<1>3. 0 \in T
  <2>1. f[0].out = <<>> /\ IsSeq(<<>>)
    <3>1. f[0] = Wrote(<<>>) /\ Wrote(<<>>).out = <<>>
      BY <1>1 DEF Wrote
    <3> QED
      BY <3>1, PiecesAreSeqs
  <2>2. PairsOf(settings, skips, 0, <<>>)
    <3>1. Len(<<>>) = 0 /\ 1..0 = {}
      OBVIOUS
    <3> QED
      BY <3>1 DEF PairsOf
  <2>3. Good(0)
    BY <2>1, <2>2, CarriesNone
  <2> QED
    BY <2>3
<1>4. ASSUME NEW n \in Nat, n \in T
      PROVE  n + 1 \in T
  <2> SUFFICES ASSUME n + 1 <= N PROVE Good(n + 1)
    OBVIOUS
  <2>1. n \in 0..N - 1 /\ n + 1 \in 1..N /\ n <= N
    OBVIOUS
  <2>2. Good(n)
    BY <1>4, <2>1
  <2>3. f[n + 1] = WThen(f[n], e[n + 1])
    BY <1>1, <2>1
  <2> DEFINE m == n + 1
  <2>4. m \in 1..N /\ f[m] = WThen(f[n], e[m])
    BY <2>1, <2>3
  <2>5. ASSUME NEW p, Carries(f[n].out, p), PairsOf(settings, skips, n, p)
        PROVE  /\ m \in skips => PairsOf(settings, skips, m, p)
               /\ m \notin skips => PairsOf(settings, skips, m, p \o <<PairOf(settings[m])>>)
    <3>1. IsSeq(p)
      BY <2>5 DEF Carries
    <3> QED
      BY <2>5, <3>1, PairsJoin
  <2> HIDE DEF m
  <2>6. CASE m \in skips
    <3>1. e[m] = Wrote(<<>>)
      BY <1>2, <2>4, <2>6
    <3>2. f[n].out \o <<>> = f[n].out
      BY <2>2, Associates
    <3>3. f[m].st = f[n].st /\ f[m].out = f[n].out
      BY <2>4, <3>1, <3>2 DEF WThen, Wrote
    <3> QED
      BY <2>2, <2>5, <2>6, <3>3 DEF m
  <2>7. CASE m \notin skips
    <3> DEFINE w == encode_setting(settings[m], revision)
    <3>1. e[m] = w
      BY <1>2, <2>4, <2>7
    <3>2. IsSeq(w.out) /\ (w.st = "ok" /\ settings[m].key # "" => Carries(w.out, <<PairOf(settings[m])>>))
      BY EncodeOne
    <3> HIDE DEF w
    <3>3. CASE f[n].st = "ok"
      <4>1. f[m].st = w.st /\ f[m].out = f[n].out \o w.out
        <5>1. f[m] = WThen(f[n], w)
          BY <2>4, <3>1
        <5>2. WThen(f[n], w).st = w.st /\ WThen(f[n], w).out = f[n].out \o w.out
          BY <3>3, AfterIs, Zenon
        <5> QED
          BY <5>1, <5>2, Zenon
      <4>2. IsSeq(f[m].out)
        <5>1. IsSeq(f[n].out) /\ IsSeq(w.out)
          BY <2>2, <3>2
        <5> QED
          BY <4>1, <5>1, Concatenation
      <4>3. ASSUME w.st = "ok", Named
            PROVE  \E pairs : Carries(f[m].out, pairs) /\ PairsOf(settings, skips, m, pairs)
        <5>1. PICK p : Carries(f[n].out, p) /\ PairsOf(settings, skips, n, p)
          BY <2>2, <3>3, <4>3
        <5>2. settings[m].key # ""
          BY <2>4, <4>3 DEF Named
        <5>3. Carries(w.out, <<PairOf(settings[m])>>)
          BY <3>2, <4>3, <5>2
        <5>4. Carries(f[m].out, p \o <<PairOf(settings[m])>>)
          BY <4>1, <5>1, <5>3, CarriesBoth
        <5>5. PairsOf(settings, skips, m, p \o <<PairOf(settings[m])>>)
          BY <2>5, <2>7, <5>1
        <5> QED
          BY <5>4, <5>5
      <4>4. Good(m)
        BY <4>1, <4>2, <4>3
      <4> QED
        BY <4>4 DEF m
    <3>4. CASE f[n].st # "ok"
      <4>1. f[m] = f[n]
        BY <2>4, <3>4 DEF WThen
      <4>2. Good(m)
        BY <2>2, <3>4, <4>1
      <4> QED
        BY <4>2 DEF m
    <3> QED
      BY <3>3, <3>4
  <2> QED
    BY <2>6, <2>7
<1>5. Nat \subseteq T
  <2> HIDE DEF T
  <2> QED
    BY <1>3, <1>4, Inductive
<1>6. Good(N)
  BY <1>5
<1> QED
  BY <1>6 DEF Named

\* What a query is.
LEMMA AskIs ==
  ASSUME NEW q \in Asks
  PROVE  /\ q.set \in Seq(SettingNames \X STRING)
         /\ q.settings # <<>> => /\ Len(q.settings[1]) \in Nat
                                 /\ \A i \in 1..Len(q.settings[1]) : q.settings[1][i].key \in SettingNames /\ q.settings[1][i].key # ""
                                 /\ \A i, j \in 1..Len(q.settings[1]) : q.settings[1][i].key = q.settings[1][j].key => i = j
BY AskAssumption DEF SettingNames

\* Written settings.
Skips(settings, ignore) == IF ignore = <<>> THEN {} ELSE Skipped(settings, ignore[1])

\* Settings that can be written are written as pairs, in their order.
LEMMA SettingsWritten ==
  ASSUME NEW settings, NEW revision \in Nat, revision > SETTINGS_AS_STRINGS, Len(settings) \in Nat, NEW ignore, NEW w,
         w = IF ignore = <<>> THEN encode_settings(settings, revision) ELSE encode_with_ignore(settings, revision, ignore[1])
  PROVE  /\ IsSeq(w.out)
         /\ w.st = "ok" /\ (\A i \in 1..Len(settings) : settings[i].key # "") =>
               \E pairs : Carries(w.out, pairs) /\ PairsOf(settings, Skips(settings, ignore), Len(settings), pairs)
<1> DEFINE skips == Skips(settings, ignore)
<1>1. \E f : Puts(Pieces(settings, skips, revision), Len(settings), f) /\ w = f[Len(settings)]
  <2>1. CASE ignore = <<>>
    <3>1. skips = {} /\ w = encode_settings(settings, revision)
      BY <2>1 DEF Skips
    <3> QED
      BY <3>1, EncodeIs
  <2>2. CASE ignore # <<>>
    <3>1. skips = Skipped(settings, ignore[1]) /\ w = encode_with_ignore(settings, revision, ignore[1])
      BY <2>2 DEF Skips
    <3> QED
      BY <3>1, EncodeWithIgnoreIs
  <2> QED
    BY <2>1, <2>2
<1> HIDE DEF skips
<1>2. PICK f : Puts(Pieces(settings, skips, revision), Len(settings), f) /\ w = f[Len(settings)]
  BY <1>1
<1>3. /\ IsSeq(w.out)
      /\ w.st = "ok" /\ (\A i \in 1..Len(settings) : settings[i].key # "") =>
               \E pairs : Carries(w.out, pairs) /\ PairsOf(settings, skips, Len(settings), pairs)
  BY <1>2, PutsCarry
<1> QED
  BY <1>3 DEF skips

\* A client that compresses by ZSTD tells the server so, another tells nothing.
LEMMA CompressionIs ==
  ASSUME NEW m \in Methods
  PROVE  LET s == compression_settings(m)
         IN /\ m # "ZSTD" => s = <<>> /\ Len(s) = 0
            /\ m = "ZSTD" => /\ Len(s) = 2
                             /\ s[1].key = "network_compression_method" /\ s[1].value = Value("String", "zstd")
                             /\ s[2].key = "network_zstd_compression_level"
<1>1. CASE m # "ZSTD"
  BY <1>1 DEF compression_settings
<1>2. CASE m = "ZSTD"
  <2> DEFINE p == << <<"network_compression_method", Value("String", "zstd")>>,
                     <<"network_zstd_compression_level", Value("String", "1")>> >>
  <2>1. Len(p) = 2 /\ p[1][1] = "network_compression_method" /\ p[1][2] = Value("String", "zstd")
        /\ p[2][1] = "network_zstd_compression_level"
    OBVIOUS
  <2>2. compression_settings(m) = SettingsFrom(p)
    BY <1>2 DEF compression_settings
  <2> HIDE DEF p
  <2> DEFINE s == SettingsFrom(p)
  <2>3. s = [i \in 1..2 |-> Setting(p[i][1], p[i][2])]
    BY <2>1 DEF SettingsFrom
  <2> HIDE DEF s
  <2>4. Len(s) = 2 /\ s[1] = Setting(p[1][1], p[1][2]) /\ s[2] = Setting(p[2][1], p[2][2])
    <3>1. s = [i \in 1..2 |-> s[i]]
      BY <2>3
    <3>2. Len(s) = 2
      BY <3>1, ListIsSeq
    <3> QED
      BY <2>3, <3>2
  <2>5. \A k, v : Setting(k, v).key = k /\ Setting(k, v).value = v
    BY DEF Setting
  <2>6. s[1].key = p[1][1] /\ s[1].value = p[1][2] /\ s[2].key = p[2][1]
    BY <2>4, <2>5
  <2> QED
    BY <1>2, <2>1, <2>2, <2>4, <2>6 DEF s
<1> QED
  BY <1>1, <1>2

\* The settings of a query: how it is compressed, and its own.
OwnSettings(q, revision, ignore) ==
    CASE q.settings = <<>> -> Wrote(<<>>)
      [] q.settings # <<>> /\ ignore # <<>> -> encode_with_ignore(q.settings[1], revision, ignore[1])
      [] OTHER -> encode_settings(q.settings[1], revision)
\* The settings that say how to compress, and those of a query, as pairs.
CompressionPairs(m, pairs) == PairsOf(compression_settings(m), {}, Len(compression_settings(m)), pairs)
OwnPairs(q, ignore, pairs) ==
    IF q.settings = <<>> THEN pairs = <<>>
    ELSE PairsOf(q.settings[1], Skips(q.settings[1], ignore), Len(q.settings[1]), pairs)

\* Those of the compression are written so.
LEMMA CompressionWritten ==
  ASSUME NEW m \in Methods, NEW revision \in Nat, revision > SETTINGS_AS_STRINGS
  PROVE  LET w == encode_settings(compression_settings(m), revision)
         IN IsSeq(w.out) /\ (w.st = "ok" => \E pairs : Carries(w.out, pairs) /\ CompressionPairs(m, pairs))
<1> DEFINE s == compression_settings(m)
           w == encode_settings(s, revision)
<1>1. Len(s) \in Nat /\ \A i \in 1..Len(s) : s[i].key # ""
  <2>1. CASE m = "ZSTD"
    <3>1. Len(s) = 2 /\ s[1].key = "network_compression_method" /\ s[2].key = "network_zstd_compression_level"
      BY <2>1, CompressionIs
    <3> HIDE DEF s
    <3>2. Len(s) \in Nat /\ \A i \in 1..Len(s) : i = 1 \/ i = 2
      BY <3>1
    <3>3. s[1].key # "" /\ s[2].key # ""
      BY <3>1
    <3> QED
      BY <3>2, <3>3, Zenon
  <2>2. CASE m # "ZSTD"
    <3>1. Len(s) = 0
      BY <2>2, CompressionIs
    <3> HIDE DEF s
    <3> QED
      BY <3>1
  <2> QED
    BY <2>1, <2>2
<1> HIDE DEF s
<1>2. Skips(s, <<>>) = {}
  BY DEF Skips
<1>3. /\ IsSeq(w.out)
      /\ w.st = "ok" /\ (\A i \in 1..Len(s) : s[i].key # "") =>
               \E pairs : Carries(w.out, pairs) /\ PairsOf(s, Skips(s, <<>>), Len(s), pairs)
  BY <1>1, SettingsWritten
<1> QED
  BY <1>1, <1>2, <1>3 DEF CompressionPairs, s

\* And those of a query.
LEMMA OwnWritten ==
  ASSUME NEW q \in Asks, NEW revision \in Nat, revision > SETTINGS_AS_STRINGS, NEW ignore
  PROVE  LET w == OwnSettings(q, revision, ignore)
         IN IsSeq(w.out) /\ (w.st = "ok" => \E pairs : Carries(w.out, pairs) /\ OwnPairs(q, ignore, pairs))
<1> DEFINE w == OwnSettings(q, revision, ignore)
<1>1. CASE q.settings = <<>>
  <2>1. w = Wrote(<<>>)
    BY <1>1 DEF OwnSettings
  <2>2. Wrote(<<>>).out = <<>>
    BY DEF Wrote
  <2> HIDE DEF w
  <2>3. w.out = <<>> /\ IsSeq(w.out) /\ Carries(w.out, <<>>)
    BY <2>1, <2>2, CarriesNone DEF Carries
  <2>4. OwnPairs(q, ignore, <<>>)
    BY <1>1 DEF OwnPairs
  <2> QED
    BY <2>3, <2>4 DEF w
<1>2. CASE q.settings # <<>>
  <2> DEFINE s == q.settings[1]
  <2>1. Len(s) \in Nat /\ \A i \in 1..Len(s) : s[i].key # ""
    BY <1>2, AskIs
  <2>2. w = IF ignore = <<>> THEN encode_settings(s, revision) ELSE encode_with_ignore(s, revision, ignore[1])
    BY <1>2 DEF OwnSettings
  <2> HIDE DEF w, s
  <2>3. /\ IsSeq(w.out)
        /\ w.st = "ok" /\ (\A i \in 1..Len(s) : s[i].key # "") =>
               \E pairs : Carries(w.out, pairs) /\ PairsOf(s, Skips(s, ignore), Len(s), pairs)
    BY <2>1, <2>2, SettingsWritten
  <2> QED
    BY <1>2, <2>1, <2>3 DEF OwnPairs, w, s
<1> QED
  BY <1>1, <1>2

-----------------------------------------------------------------------------
(* A query on the stream.                                                  *)
\* The end of a query: what its text is, before the parameters.
QueryText(q, revision, by) ==
    Since(revision, EXTERNALLY_GRANTED_ROLES, <<Text("")>>)
    \o <<Text(""), Var(2), U8(IF by = "None" THEN 0 ELSE 1), Text(q.query)>>

\* The server reads what follows the settings: the query, and whether it is compressed.
LEMMA TextReads ==
  ASSUME NEW q, NEW by, NEW revision \in Nat, revision >= CHUNKED_PACKETS, NEW b, IsSeq(b)
  PROVE  LET a == QueryText(q, revision, by)
             r == ReadLayout(QueryTextLayout, revision, a \o b)
         IN /\ IsSeq(a) /\ r.st = "ok" /\ r.rest = b
            /\ r.v["query"] = Text(q.query).x /\ r.v["compression"] = <<IF by = "None" THEN 0 ELSE 1>>
<1> DEFINE L == QueryTextLayout
           a == QueryText(q, revision, by)
           R == revision
           lo == IF R < EXTERNALLY_GRANTED_ROLES THEN 1 ELSE 0
           roles == Since(R, EXTERNALLY_GRANTED_ROLES, <<Text("")>>)
           flag == IF by = "None" THEN 0 ELSE 1
           c1 == Text("")
           c3 == Var(2)
           c4 == U8(flag)
           c5 == Text(q.query)
<1> HIDE DEF flag
<1>1. /\ Len(L) = 5 /\ L[4][1] = "compression" /\ L[5][1] = "query" /\ Distinct(L)
      /\ L[1][2] = STR /\ L[2][2] = STR /\ L[3][2] = VAR /\ L[4][2] = 1 /\ L[5][2] = STR
      /\ L[1][3] = EXTERNALLY_GRANTED_ROLES /\ L[2][3] = INTERSERVER_SECRET /\ L[3][3] = 0 /\ L[4][3] = 0 /\ L[5][3] = 0
  BY DEF QueryTextLayout, Distinct
<1>2. ~(R < INTERSERVER_SECRET) /\ ~(R < 0)
  BY DEF INTERSERVER_SECRET, CHUNKED_PACKETS
<1>3. R >= EXTERNALLY_GRANTED_ROLES <=> ~(R < EXTERNALLY_GRANTED_ROLES)
  BY DEF EXTERNALLY_GRANTED_ROLES
<1>4. c1.w = STR /\ c3.w = VAR /\ c4.w = 1 /\ c5.w = STR /\ c4.x = <<flag>>
  BY DEF Text, Var, Num, U8, Cell
<1>5. a = (IF R < EXTERNALLY_GRANTED_ROLES THEN <<>> ELSE <<c1>>) \o <<c1, c3, c4, c5>>
  <2>1. roles = IF R < EXTERNALLY_GRANTED_ROLES THEN <<>> ELSE <<c1>>
    BY <1>3 DEF Since
  <2> QED
    BY <2>1 DEF QueryText, flag
<1>6. /\ Lacks(L, R, 1) <=> lo = 1
      /\ ~Lacks(L, R, 2) /\ ~Lacks(L, R, 3) /\ ~Lacks(L, R, 4) /\ ~Lacks(L, R, 5)
  BY <1>1, <1>2 DEF Lacks
<1> HIDE DEF c1, c3, c4, c5, L, a
<1>7. /\ a \in Seq({c1, c3, c4, c5}) /\ Len(a) = 5 - lo /\ lo \in {0, 1}
      /\ a[2 - lo] = c1 /\ a[3 - lo] = c3 /\ a[4 - lo] = c4 /\ a[5 - lo] = c5
      /\ lo = 0 => a[1] = c1
  <2>1. CASE R < EXTERNALLY_GRANTED_ROLES
    <3>1. a = <<>> \o <<c1, c3, c4, c5>>
      BY <1>5, <2>1
    <3>2. /\ a \in Seq({c1, c3, c4, c5}) /\ Len(a) = 4
          /\ a[1] = c1 /\ a[2] = c3 /\ a[3] = c4 /\ a[4] = c5
      BY <3>1
    <3>3. lo = 1
      BY <2>1
    <3> HIDE DEF lo
    <3> QED
      BY <3>2, <3>3
  <2>2. CASE ~(R < EXTERNALLY_GRANTED_ROLES)
    <3>1. a = <<c1>> \o <<c1, c3, c4, c5>>
      BY <1>5, <2>2
    <3>2. /\ a \in Seq({c1, c3, c4, c5}) /\ Len(a) = 5
          /\ a[1] = c1 /\ a[2] = c1 /\ a[3] = c3 /\ a[4] = c4 /\ a[5] = c5
      BY <3>1
    <3>3. lo = 0
      BY <2>2
    <3> HIDE DEF lo
    <3> QED
      BY <3>2, <3>3
  <2> QED
    BY <2>1, <2>2
<1> HIDE DEF lo
<1>8. IsSeq(a)
  BY <1>7 DEF IsSeq
<1>9. Spans(L, R, a, lo, 5)
  <2>1. /\ a[2 - lo].w = L[2][2] /\ a[3 - lo].w = L[3][2] /\ a[4 - lo].w = L[4][2]
        /\ a[5 - lo].w = L[5][2] /\ (lo = 0 => a[1 - lo].w = L[1][2])
    BY <1>1, <1>4, <1>7
  <2> QED
    BY <1>1, <1>6, <1>7, <2>1 DEF Spans
<1> DEFINE r == ReadLayout(L, R, a \o b)
<1>10. r.st = "ok" /\ r.rest = b /\ \A n \in 1..Len(L) : lo < n /\ n <= 5 => r.v[L[n][1]] = a[n - lo].x
  <2>1. Distinct(L) /\ Len(L) \in Nat /\ IsSeq(a)
    BY <1>1, <1>8
  <2> QED
    BY <1>9, <2>1, SpanReads
<1> HIDE DEF r
<1>11. r.v["compression"] = c4.x /\ r.v["query"] = c5.x
  <2>1. r.v[L[4][1]] = a[4 - lo].x /\ r.v[L[5][1]] = a[5 - lo].x
    BY <1>1, <1>7, <1>10
  <2> QED
    BY <1>1, <1>7, <2>1
<1> QED
  BY <1>4, <1>8, <1>10, <1>11 DEF L, a, r, c5, flag

\* The cells of a sequence are those of a layout after the k-th.
Widths(layout, s, k, n) == IsSeq(s) /\ Len(s) = n /\ \A i \in 1..n : s[i].w = layout[k + i][2]

\* The widths of cells behind cells.
LEMMA WidthsJoin ==
  ASSUME NEW layout, NEW a, NEW b, NEW n \in Nat, NEW m \in Nat, Widths(layout, a, 0, n), Widths(layout, b, n, m)
  PROVE  Widths(layout, a \o b, 0, n + m)
<1> DEFINE c == a \o b
<1>1. /\ IsSeq(a) /\ Len(a) = n /\ IsSeq(b) /\ Len(b) = m
      /\ \A i \in 1..n : a[i].w = layout[0 + i][2]
      /\ \A i \in 1..m : b[i].w = layout[n + i][2]
  BY DEF Widths
<1>2. /\ IsSeq(c) /\ Len(c) = Len(a) + Len(b)
      /\ \A i \in 1..Len(a) : c[i] = a[i]
      /\ \A i \in 1..Len(b) : c[Len(a) + i] = b[i]
  <2>1. IsSeq(a) /\ IsSeq(b)
    BY <1>1
  <2> QED
    BY <2>1, Concatenation
<1> HIDE DEF c
<1>3. ASSUME NEW i \in 1..n + m
      PROVE  c[i].w = layout[0 + i][2]
  <2>1. CASE i \in 1..n
    BY <1>1, <1>2, <2>1
  <2>2. CASE i \notin 1..n
    <3> DEFINE j == i - n
    <3>1. j \in 1..m /\ i = n + j /\ 0 + i = n + j
      BY <2>2
    <3> HIDE DEF j
    <3> QED
      BY <1>1, <1>2, <3>1
  <2> QED
    BY <2>1, <2>2
<1> QED
  BY <1>1, <1>2, <1>3 DEF Widths, c

\* The fields of the client's info, and since when there are the last ones.
LEMMA InfoIs ==
  /\ Len(ClientInfoLayout) = 22 /\ Distinct(ClientInfoLayout)
  /\ \A i \in 1..19 : ClientInfoLayout[i][3] <= CHUNKED_PACKETS
  /\ ClientInfoLayout[20][3] = QUERY_AND_LINE_NUMBERS /\ ClientInfoLayout[21][3] = QUERY_AND_LINE_NUMBERS
  /\ ClientInfoLayout[22][3] = JWT_IN_INTERSERVER
<1> DEFINE L == ClientInfoLayout
<1>1. Len(L) = 22
  BY DEF ClientInfoLayout
<1>2. /\ L[1][1] = "kind" /\ L[2][1] = "user" /\ L[3][1] = "initial" /\ L[4][1] = "address" /\ L[5][1] = "time"
      /\ L[6][1] = "interface" /\ L[7][1] = "os" /\ L[8][1] = "host" /\ L[9][1] = "client" /\ L[10][1] = "major"
      /\ L[11][1] = "minor" /\ L[12][1] = "tcp" /\ L[13][1] = "quota" /\ L[14][1] = "depth" /\ L[15][1] = "patch"
      /\ L[16][1] = "telemetry" /\ L[17][1] = "collaborate" /\ L[18][1] = "replicas" /\ L[19][1] = "replica"
      /\ L[20][1] = "number" /\ L[21][1] = "line" /\ L[22][1] = "jwt"
  BY DEF ClientInfoLayout
<1>3. /\ L[1][3] = 0 /\ L[2][3] = 0 /\ L[3][3] = 0 /\ L[4][3] = 0 /\ L[5][3] = QUERY_START_TIME
      /\ L[6][3] = 0 /\ L[7][3] = 0 /\ L[8][3] = 0 /\ L[9][3] = 0 /\ L[10][3] = 0
      /\ L[11][3] = 0 /\ L[12][3] = 0 /\ L[13][3] = QUOTA_KEY_IN_CLIENT_INFO /\ L[14][3] = DISTRIBUTED_DEPTH /\ L[15][3] = VERSION_PATCH
      /\ L[16][3] = OPENTELEMETRY /\ L[17][3] = PARALLEL_REPLICAS /\ L[18][3] = PARALLEL_REPLICAS /\ L[19][3] = PARALLEL_REPLICAS
      /\ L[20][3] = QUERY_AND_LINE_NUMBERS /\ L[21][3] = QUERY_AND_LINE_NUMBERS /\ L[22][3] = JWT_IN_INTERSERVER
  BY DEF ClientInfoLayout
<1> HIDE DEF L
<1>4. Distinct(L)
  <2>1. \A i \in 1..22 : \/ i = 1 \/ i = 2 \/ i = 3 \/ i = 4 \/ i = 5 \/ i = 6 \/ i = 7 \/ i = 8 \/ i = 9 \/ i = 10 \/ i = 11
                         \/ i = 12 \/ i = 13 \/ i = 14 \/ i = 15 \/ i = 16 \/ i = 17 \/ i = 18 \/ i = 19 \/ i = 20
                         \/ i = 21 \/ i = 22
    OBVIOUS
  <2> SUFFICES ASSUME NEW i \in 1..22, NEW j \in 1..22, i < j PROVE L[i][1] # L[j][1]
    BY <1>1 DEF Distinct
  <2> QED
    BY <1>2
<1>5. \A i \in 1..19 : L[i][3] <= CHUNKED_PACKETS
  <2>1. /\ 0 <= CHUNKED_PACKETS /\ QUERY_START_TIME <= CHUNKED_PACKETS /\ QUOTA_KEY_IN_CLIENT_INFO <= CHUNKED_PACKETS
        /\ DISTRIBUTED_DEPTH <= CHUNKED_PACKETS /\ VERSION_PATCH <= CHUNKED_PACKETS /\ OPENTELEMETRY <= CHUNKED_PACKETS
        /\ PARALLEL_REPLICAS <= CHUNKED_PACKETS
    BY DEF CHUNKED_PACKETS, QUERY_START_TIME, QUOTA_KEY_IN_CLIENT_INFO, DISTRIBUTED_DEPTH, VERSION_PATCH, OPENTELEMETRY, PARALLEL_REPLICAS
  <2> QED
    BY <1>3, <2>1
<1> QED
  BY <1>1, <1>3, <1>4, <1>5 DEF L

\* The server reads the client's info, of every revision.
LEMMA InfoReads ==
  ASSUME NEW revision \in Nat, revision >= CHUNKED_PACKETS, NEW b, IsSeq(b)
  PROVE  LET a == write_client_info(revision)
             r == ReadLayout(ClientInfoLayout, revision, a \o b)
         IN IsSeq(a) /\ r.st = "ok" /\ r.rest = b
<1> DEFINE L == ClientInfoLayout
           R == revision
           a == write_client_info(R)
           p1 == <<U8(1), Text(""), Text(""), Text("0.0.0.0:0")>>
           p2 == <<Num(8, 0)>>
           p3 == <<U8(1), Text(""), Text("localhost"), Text("ClickHouseArrow"), Var(0), Var(1), Var(DBMS_TCP_PROTOCOL_VERSION)>>
           p4 == <<Text("")>>
           p5 == <<Var(1)>>
           p6 == <<Var(0)>>
           p7 == <<U8(0)>>
           p8 == <<Var(0), Var(0), Var(0)>>
           p9 == Since(R, QUERY_AND_LINE_NUMBERS, <<Var(0), Var(0)>>)
           p10 == Since(R, JWT_IN_INTERSERVER, <<U8(0)>>)
           n9 == IF R < QUERY_AND_LINE_NUMBERS THEN 0 ELSE 2
           n10 == IF R < JWT_IN_INTERSERVER THEN 0 ELSE 1
<1>1. a = ((((((((p1 \o p2) \o p3) \o p4) \o p5) \o p6) \o p7) \o p8) \o p9) \o p10
  <2>1. /\ R >= QUERY_START_TIME /\ R >= QUOTA_KEY_IN_CLIENT_INFO /\ R >= DISTRIBUTED_DEPTH /\ R >= VERSION_PATCH
        /\ R >= OPENTELEMETRY /\ R >= PARALLEL_REPLICAS
    BY DEF CHUNKED_PACKETS, QUERY_START_TIME, QUOTA_KEY_IN_CLIENT_INFO, DISTRIBUTED_DEPTH, VERSION_PATCH, OPENTELEMETRY, PARALLEL_REPLICAS
  <2>2. /\ Since(R, QUERY_START_TIME, p2) = p2 /\ Since(R, QUOTA_KEY_IN_CLIENT_INFO, p4) = p4
        /\ Since(R, DISTRIBUTED_DEPTH, p5) = p5 /\ Since(R, VERSION_PATCH, p6) = p6
        /\ Since(R, OPENTELEMETRY, p7) = p7 /\ Since(R, PARALLEL_REPLICAS, p8) = p8
    <3> HIDE DEF p2, p4, p5, p6, p7, p8
    <3> QED
      BY <2>1, Zenon DEF Since
  <2> QED
    BY <2>2, Zenon DEF write_client_info
<1>2. /\ L[1][2] = 1 /\ L[2][2] = STR /\ L[3][2] = STR /\ L[4][2] = STR /\ L[5][2] = 8 /\ L[6][2] = 1 /\ L[7][2] = STR
      /\ L[8][2] = STR /\ L[9][2] = STR /\ L[10][2] = VAR /\ L[11][2] = VAR /\ L[12][2] = VAR /\ L[13][2] = STR
      /\ L[14][2] = VAR /\ L[15][2] = VAR /\ L[16][2] = 1 /\ L[17][2] = VAR /\ L[18][2] = VAR /\ L[19][2] = VAR
      /\ L[20][2] = VAR /\ L[21][2] = VAR /\ L[22][2] = 1
  BY DEF ClientInfoLayout
<1> HIDE DEF L
<1>3. \A n : U8(n).w = 1 /\ Var(n).w = VAR /\ Text(n).w = STR /\ Num(8, n).w = 8
  BY DEF U8, Var, Text, Num, Cell
<1>4. IsSeq(p1) /\ IsSeq(p2) /\ IsSeq(p3) /\ IsSeq(p4) /\ IsSeq(p5) /\ IsSeq(p6) /\ IsSeq(p7) /\ IsSeq(p8) /\ IsSeq(p9) /\ IsSeq(p10)
  <2>1. /\ p1 \in Seq({U8(1), Text(""), Text("0.0.0.0:0")})
        /\ p3 \in Seq({U8(1), Text(""), Text("localhost"), Text("ClickHouseArrow"), Var(0), Var(1), Var(DBMS_TCP_PROTOCOL_VERSION)})
        /\ p8 \in Seq({Var(0)}) /\ <<Var(0), Var(0)>> \in Seq({Var(0)})
    OBVIOUS
  <2> QED
    BY <2>1, PiecesAreSeqs DEF IsSeq, Since
<1>5. Widths(L, p1, 0, 4)
  <2>1. Len(p1) = 4 /\ p1[1].w = 1 /\ p1[2].w = STR /\ p1[3].w = STR /\ p1[4].w = STR
    BY <1>3
  <2> HIDE DEF p1
  <2>2. p1[1].w = L[0 + 1][2] /\ p1[2].w = L[0 + 2][2] /\ p1[3].w = L[0 + 3][2] /\ p1[4].w = L[0 + 4][2]
    BY <1>2, <2>1
  <2>3. \A i \in 1..4 : i = 1 \/ i = 2 \/ i = 3 \/ i = 4
    OBVIOUS
  <2>4. \A i \in 1..4 : p1[i].w = L[0 + i][2]
    BY <2>2, <2>3, Zenon
  <2> QED
    BY <1>4, <2>1, <2>4 DEF Widths
<1>6. Widths(L, p2, 4, 1)
  <2>1. Len(p2) = 1 /\ p2[1].w = 8
    BY <1>3
  <2> HIDE DEF p2
  <2>2. p2[1].w = L[4 + 1][2]
    BY <1>2, <2>1
  <2>3. \A i \in 1..1 : i = 1
    OBVIOUS
  <2>4. \A i \in 1..1 : p2[i].w = L[4 + i][2]
    BY <2>2, <2>3, Zenon
  <2> QED
    BY <1>4, <2>1, <2>4 DEF Widths
<1>7. Widths(L, p3, 5, 7)
  <2>1. Len(p3) = 7 /\ p3[1].w = 1 /\ p3[2].w = STR /\ p3[3].w = STR /\ p3[4].w = STR /\ p3[5].w = VAR /\ p3[6].w = VAR /\ p3[7].w = VAR
    BY <1>3
  <2> HIDE DEF p3
  <2>2. p3[1].w = L[5 + 1][2] /\ p3[2].w = L[5 + 2][2] /\ p3[3].w = L[5 + 3][2] /\ p3[4].w = L[5 + 4][2] /\ p3[5].w = L[5 + 5][2] /\ p3[6].w = L[5 + 6][2] /\ p3[7].w = L[5 + 7][2]
    BY <1>2, <2>1
  <2>3. \A i \in 1..7 : i = 1 \/ i = 2 \/ i = 3 \/ i = 4 \/ i = 5 \/ i = 6 \/ i = 7
    OBVIOUS
  <2>4. \A i \in 1..7 : p3[i].w = L[5 + i][2]
    BY <2>2, <2>3, Zenon
  <2> QED
    BY <1>4, <2>1, <2>4 DEF Widths
<1>8. Widths(L, p4, 12, 1) /\ Widths(L, p5, 13, 1) /\ Widths(L, p6, 14, 1) /\ Widths(L, p7, 15, 1)
  <2>1. Len(p4) = 1 /\ p4[1].w = STR /\ Len(p5) = 1 /\ p5[1].w = VAR /\ Len(p6) = 1 /\ p6[1].w = VAR /\ Len(p7) = 1 /\ p7[1].w = 1
    BY <1>3
  <2> HIDE DEF p4, p5, p6, p7
  <2>2. p4[1].w = L[12 + 1][2]
    BY <1>2, <2>1
  <2>3. \A i \in 1..1 : i = 1
    OBVIOUS
  <2>4. \A i \in 1..1 : p4[i].w = L[12 + i][2]
    BY <2>2, <2>3, Zenon
  <2>5. p5[1].w = L[13 + 1][2]
    BY <1>2, <2>1
  <2>6. \A i \in 1..1 : i = 1
    OBVIOUS
  <2>7. \A i \in 1..1 : p5[i].w = L[13 + i][2]
    BY <2>5, <2>6, Zenon
  <2>8. p6[1].w = L[14 + 1][2]
    BY <1>2, <2>1
  <2>9. \A i \in 1..1 : i = 1
    OBVIOUS
  <2>10. \A i \in 1..1 : p6[i].w = L[14 + i][2]
    BY <2>8, <2>9, Zenon
  <2>11. p7[1].w = L[15 + 1][2]
    BY <1>2, <2>1
  <2>12. \A i \in 1..1 : i = 1
    OBVIOUS
  <2>13. \A i \in 1..1 : p7[i].w = L[15 + i][2]
    BY <2>11, <2>12, Zenon
  <2> QED
    BY <1>4, <2>1, <2>4, <2>7, <2>10, <2>13 DEF Widths
<1>9. Widths(L, p8, 16, 3)
  <2>1. Len(p8) = 3 /\ p8[1].w = VAR /\ p8[2].w = VAR /\ p8[3].w = VAR
    BY <1>3
  <2> HIDE DEF p8
  <2>2. p8[1].w = L[16 + 1][2] /\ p8[2].w = L[16 + 2][2] /\ p8[3].w = L[16 + 3][2]
    BY <1>2, <2>1
  <2>3. \A i \in 1..3 : i = 1 \/ i = 2 \/ i = 3
    OBVIOUS
  <2>4. \A i \in 1..3 : p8[i].w = L[16 + i][2]
    BY <2>2, <2>3, Zenon
  <2> QED
    BY <1>4, <2>1, <2>4 DEF Widths
<1>10. Widths(L, p9, 19, n9) /\ Widths(L, p10, 19 + n9, n10)
  <2>1. CASE R < QUERY_AND_LINE_NUMBERS
    <3>1. /\ ~(R >= QUERY_AND_LINE_NUMBERS) /\ ~(R >= JWT_IN_INTERSERVER) /\ R < JWT_IN_INTERSERVER
      BY <2>1 DEF QUERY_AND_LINE_NUMBERS, JWT_IN_INTERSERVER
    <3>2. p9 = <<>> /\ p10 = <<>> /\ n9 = 0 /\ n10 = 0
      BY <2>1, <3>1 DEF Since
    <3> HIDE DEF p9, p10, n9, n10
    <3>3. Len(p9) = n9 /\ Len(p10) = n10 /\ 1..n9 = {} /\ 1..n10 = {}
      BY <3>2
    <3> QED
      BY <1>4, <3>3 DEF Widths
  <2>2. CASE ~(R < QUERY_AND_LINE_NUMBERS)
    <3>1. R >= QUERY_AND_LINE_NUMBERS
      BY <2>2 DEF QUERY_AND_LINE_NUMBERS
    <3>2. Len(p9) = 2 /\ p9[1].w = VAR /\ p9[2].w = VAR /\ n9 = 2
      <4>1. p9 = <<Var(0), Var(0)>>
        BY <3>1 DEF Since
      <4> QED
        BY <1>3, <2>2, <4>1
    <3>3. \A i \in 1..2 : p9[i].w = L[19 + i][2]
      <4> HIDE DEF p9
      <4>1. p9[1].w = L[19 + 1][2] /\ p9[2].w = L[19 + 2][2]
        BY <1>2, <3>2
      <4>2. \A i \in 1..2 : i = 1 \/ i = 2
        OBVIOUS
      <4> QED
        BY <4>1, <4>2, Zenon
    <3>4. Widths(L, p10, 21, n10)
      <4>1. CASE R < JWT_IN_INTERSERVER
        <5>1. ~(R >= JWT_IN_INTERSERVER) /\ n10 = 0
          BY <4>1 DEF JWT_IN_INTERSERVER
        <5>2. p10 = <<>>
          BY <5>1 DEF Since
        <5> HIDE DEF p10, n10
        <5>3. Len(p10) = n10 /\ 1..n10 = {}
          BY <5>1, <5>2
        <5> QED
          BY <1>4, <5>3 DEF Widths
      <4>2. CASE ~(R < JWT_IN_INTERSERVER)
        <5>1. R >= JWT_IN_INTERSERVER /\ n10 = 1
          BY <4>2 DEF JWT_IN_INTERSERVER
        <5>2. p10 = <<U8(0)>>
          BY <5>1 DEF Since
        <5>3. Len(p10) = 1 /\ p10[1].w = 1
          BY <1>3, <5>2
        <5> HIDE DEF p10, n10
        <5>4. p10[1].w = L[21 + 1][2]
          BY <1>2, <5>3
        <5>5. \A i \in 1..1 : i = 1
          OBVIOUS
        <5>6. \A i \in 1..1 : p10[i].w = L[21 + i][2]
          BY <5>4, <5>5, Zenon
        <5> QED
          BY <1>4, <5>1, <5>3, <5>6 DEF Widths
      <4> QED
        BY <4>1, <4>2
    <3> HIDE DEF p9, p10, n9, n10
    <3>5. Widths(L, p9, 19, n9)
      BY <1>4, <3>2, <3>3 DEF Widths
    <3>6. 19 + n9 = 21
      BY <3>2
    <3> QED
      BY <3>4, <3>5, <3>6
  <2> QED
    BY <2>1, <2>2
<1> HIDE DEF a, p1, p2, p3, p4, p5, p6, p7, p8, p9, p10
<1>11. Widths(L, p1 \o p2, 0, 5)
  <2>1. Widths(L, p1 \o p2, 0, 4 + 1)
    BY <1>5, <1>6, WidthsJoin
  <2> QED
    BY <2>1
<1> DEFINE x2 == p1 \o p2
           x3 == x2 \o p3
           x4 == x3 \o p4
           x5 == x4 \o p5
           x6 == x5 \o p6
           x7 == x6 \o p7
           x8 == x7 \o p8
           x9 == x8 \o p9
           x10 == x9 \o p10
<1>12. Widths(L, x2, 0, 5)
  BY <1>11
<1> HIDE DEF x2
<1>13. Widths(L, x3, 0, 5 + 7)
  BY <1>7, <1>12, WidthsJoin
<1>14. Widths(L, x3, 0, 12)
  BY <1>13
<1> HIDE DEF x3
<1>15. Widths(L, x4, 0, 12 + 1)
  BY <1>8, <1>14, WidthsJoin
<1>16. Widths(L, x4, 0, 13)
  BY <1>15
<1> HIDE DEF x4
<1>17. Widths(L, x5, 0, 13 + 1)
  BY <1>8, <1>16, WidthsJoin
<1>18. Widths(L, x5, 0, 14)
  BY <1>17
<1> HIDE DEF x5
<1>19. Widths(L, x6, 0, 14 + 1)
  BY <1>8, <1>18, WidthsJoin
<1>20. Widths(L, x6, 0, 15)
  BY <1>19
<1> HIDE DEF x6
<1>21. Widths(L, x7, 0, 15 + 1)
  BY <1>8, <1>20, WidthsJoin
<1>22. Widths(L, x7, 0, 16)
  BY <1>21
<1> HIDE DEF x7
<1>23. Widths(L, x8, 0, 16 + 3)
  BY <1>9, <1>22, WidthsJoin
<1>24. Widths(L, x8, 0, 19)
  BY <1>23
<1> HIDE DEF x8
<1>25. n9 \in Nat /\ n10 \in Nat
  OBVIOUS
<1>26. Widths(L, x9, 0, 19 + n9) /\ 19 + n9 \in Nat
  BY <1>10, <1>24, <1>25, WidthsJoin
<1> HIDE DEF x9
<1>27. Widths(L, x10, 0, (19 + n9) + n10)
  BY <1>10, <1>25, <1>26, WidthsJoin
<1>28. a = x10
  BY <1>1 DEF x2, x3, x4, x5, x6, x7, x8, x9
<1> DEFINE hi == (19 + n9) + n10
<1>29. IsSeq(a) /\ Len(a) = hi /\ \A i \in 1..hi : a[i].w = L[0 + i][2]
  BY <1>27, <1>28 DEF Widths
<1>30. \A n \in 1..22 : Lacks(L, R, n) <=> n > hi
  <2>1. \A n \in 1..19 : ~Lacks(L, R, n)
    <3>1. \A n \in 1..19 : L[n][3] <= CHUNKED_PACKETS /\ L[n][3] \in Nat
      BY InfoIs DEF L, ClientInfoLayout, QUERY_START_TIME, QUOTA_KEY_IN_CLIENT_INFO, DISTRIBUTED_DEPTH, VERSION_PATCH, OPENTELEMETRY, PARALLEL_REPLICAS
    <3> QED
      BY <3>1 DEF Lacks, CHUNKED_PACKETS
  <2>2. (Lacks(L, R, 20) <=> n9 = 0) /\ (Lacks(L, R, 21) <=> n9 = 0) /\ (Lacks(L, R, 22) <=> n10 = 0)
    BY InfoIs DEF Lacks, L
  <2>3. n9 = 0 => n10 = 0
    BY DEF QUERY_AND_LINE_NUMBERS, JWT_IN_INTERSERVER
  <2>4. n9 \in {0, 2} /\ n10 \in {0, 1}
    OBVIOUS
  <2> HIDE DEF n9, n10
  <2> QED
    BY <2>1, <2>2, <2>3, <2>4
<1>31. hi \in Nat /\ hi <= 22
  OBVIOUS
<1> HIDE DEF hi
<1>32. Len(L) = 22 /\ Len(L) \in Nat /\ Distinct(L)
  BY InfoIs DEF L
<1>33. Spans(L, R, a, 0, hi)
  <2>1. \A n \in 1..22 : IF 0 < n /\ n <= hi THEN ~Lacks(L, R, n) /\ a[n - 0].w = L[n][2] ELSE Lacks(L, R, n)
    <3> SUFFICES ASSUME NEW n \in 1..22 PROVE IF 0 < n /\ n <= hi THEN ~Lacks(L, R, n) /\ a[n - 0].w = L[n][2] ELSE Lacks(L, R, n)
      OBVIOUS
    <3>1. CASE n <= hi
      <4>1. n \in 1..hi /\ 0 + n = n /\ n - 0 = n /\ ~(n > hi)
        BY <1>31, <3>1
      <4>2. a[0 + n].w = L[0 + n][2]
        BY <1>29, <4>1, Zenon
      <4>3. a[n - 0].w = L[n][2]
        BY <4>1, <4>2
      <4>4. ~Lacks(L, R, n)
        BY <1>30, <4>1
      <4> QED
        BY <3>1, <4>3, <4>4
    <3>2. CASE ~(n <= hi)
      <4>1. n > hi
        BY <1>31, <3>2
      <4> QED
        BY <1>30, <3>2, <4>1
    <3> QED
      BY <3>1, <3>2
  <2>2. Len(a) = hi - 0
    BY <1>29, <1>31
  <2> QED
    BY <1>31, <1>32, <2>1, <2>2 DEF Spans
<1> DEFINE r == ReadLayout(L, R, a \o b)
<1>34. r.st = "ok" /\ r.rest = b
  BY <1>29, <1>32, <1>33, SpanReads
<1> QED
  BY <1>29, <1>34 DEF L, a

\* The pairs of a query: how it is compressed, then its own settings.
AskedPairs(q, m, ignore, pairs) ==
    \E cp, sp : /\ IsSeq(cp) /\ IsSeq(sp) /\ pairs = cp \o sp
                /\ CompressionPairs(m, cp) /\ OwnPairs(q, ignore, sp)

\* A query whose settings are SET, and what follows it.
QueryWire(q, m, revision, set, b) ==
    <<Var(1), Text(q.qid)>>
    \o (write_client_info(revision)
        \o (set \o (<<Text("")>> \o (QueryText(q, revision, m) \o (<<Text("")>> \o b)))))

\* The pieces of a query as they are put together, and as they are read one by one.
Joined(a, b) == a \o b
\* A query on the stream, as the client puts it together and as the server takes it apart.
Piecewise(q, i, s, t, e, x, f) == Joined(Joined(q, i), Joined(s, Joined(t, Joined(Joined(e, x), f))))
Nested(q, i, s, e, x, f, b) == Joined(q, Joined(i, Joined(s, Joined(e, Joined(x, Joined(f, b))))))

\* Its pieces are sequences.
AreSeqs(q, i, s, t, e, x, f) == IsSeq(q) /\ IsSeq(i) /\ IsSeq(s) /\ IsSeq(t) /\ IsSeq(e) /\ IsSeq(x) /\ IsSeq(f)

\* Both are the same cells.
LEMMA Chain ==
  ASSUME NEW q, NEW i, NEW s, NEW t, NEW e, NEW x, NEW f, NEW b, AreSeqs(q, i, s, t, e, x, f), IsSeq(b)
  PROVE  /\ IsSeq(Piecewise(q, i, s, t, e, x, f))
         /\ Joined(Piecewise(q, i, s, t, e, x, f), b) = Nested(q, i, Joined(s, t), e, x, f, b)
<1>1. \A a, c : IsSeq(a) /\ IsSeq(c) => IsSeq(Joined(a, c))
  BY Concatenation DEF Joined
<1>2. \A a, c, d : IsSeq(a) /\ IsSeq(c) /\ IsSeq(d) => Joined(Joined(a, c), d) = Joined(a, Joined(c, d))
  BY Associates DEF Joined
<1>0. IsSeq(q) /\ IsSeq(i) /\ IsSeq(s) /\ IsSeq(t) /\ IsSeq(e) /\ IsSeq(x) /\ IsSeq(f)
  BY DEF AreSeqs
<1> DEFINE V == Joined(Joined(e, x), f)
           Z == Joined(t, V)
           Y == Joined(s, Z)
<1>3. IsSeq(V) /\ Joined(V, b) = Joined(e, Joined(x, Joined(f, b)))
  BY <1>0, <1>1, <1>2
<1> HIDE DEF V
<1>4. IsSeq(Z) /\ Joined(Z, b) = Joined(t, Joined(V, b))
  BY <1>0, <1>1, <1>2, <1>3
<1> HIDE DEF Z
<1>5. IsSeq(Y) /\ Joined(Y, b) = Joined(s, Joined(Z, b))
  BY <1>0, <1>1, <1>2, <1>4
<1>6. Joined(s, Joined(t, Joined(V, b))) = Joined(Joined(s, t), Joined(V, b))
  BY <1>0, <1>1, <1>2, <1>3
<1> HIDE DEF Y
<1>7. IsSeq(Joined(Joined(q, i), Y)) /\ Joined(Joined(Joined(q, i), Y), b) = Joined(q, Joined(i, Joined(Y, b)))
  BY <1>0, <1>1, <1>2, <1>5
<1>8. Joined(Y, b) = Joined(Joined(s, t), Joined(e, Joined(x, Joined(f, b))))
  BY <1>3, <1>4, <1>5, <1>6
<1> QED
  BY <1>7, <1>8 DEF Piecewise, Nested, Y, Z, V

\* What is sent of a query, if it is.
LEMMA QuerySent ==
  ASSUME NEW q \in Asks, NEW m \in Methods, NEW revision \in Nat, revision >= CHUNKED_PACKETS, NEW ignore,
         send_query(q, revision, m, ignore).st = "ok"
  PROVE  LET w == send_query(q, revision, m, ignore)
         IN /\ IsSeq(w.out)
            /\ \E set, pairs : /\ Carries(set, pairs) /\ AskedPairs(q, m, ignore, pairs)
                               /\ \A b : IsSeq(b) => w.out \o b = QueryWire(q, m, revision, set, b)
<1> DEFINE R == revision
           w == send_query(q, R, m, ignore)
           id == <<Var(1), Text(q.qid)>>
           info == write_client_info(R)
           roles == Since(R, EXTERNALLY_GRANTED_ROLES, <<Text("")>>)
           three == <<Var(2), U8(IF m = "None" THEN 0 ELSE 1), Text(q.query)>>
           four == <<Text(""), Var(2), U8(IF m = "None" THEN 0 ELSE 1), Text(q.query)>>
           empty == <<Text("")>>
           text == QueryText(q, R, m)
           w1 == Wrote(id \o info)
           w2 == encode_settings(compression_settings(m), R)
           w3 == OwnSettings(q, R, ignore)
           w4 == Wrote(((empty \o roles) \o empty) \o three)
           w5 == WThen(IF q.params = <<>> THEN Wrote(<<>>) ELSE settings_from_params(q.params[1]), Wrote(empty))
           v4 == WThen(w4, w5)
           v3 == WThen(w3, v4)
           v2 == WThen(w2, v3)
<1>1. w = WThen(w1, v2)
  <2>1. R >= CLIENT_INFO /\ R >= INTERSERVER_SECRET /\ ~(R < PARAMETERS)
    BY DEF CHUNKED_PACKETS, CLIENT_INFO, INTERSERVER_SECRET, PARAMETERS
  <2>2. Since(R, CLIENT_INFO, info) = info /\ Since(R, INTERSERVER_SECRET, empty) = empty
    <3> HIDE DEF info, empty
    <3> QED
      BY <2>1 DEF Since
  <2> QED
    BY <2>1, <2>2, Zenon DEF send_query, OwnSettings
<1>2. IsSeq(id) /\ IsSeq(info) /\ IsSeq(roles) /\ IsSeq(three) /\ IsSeq(four) /\ IsSeq(empty) /\ IsSeq(text)
  <2>1. /\ id \in Seq({Var(1), Text(q.qid)})
        /\ three \in Seq({Var(2), U8(IF m = "None" THEN 0 ELSE 1), Text(q.query)})
        /\ four \in Seq({Text(""), Var(2), U8(IF m = "None" THEN 0 ELSE 1), Text(q.query)})
    OBVIOUS
  <2>2. IsSeq(empty) /\ IsSeq(roles)
    BY PiecesAreSeqs
  <2>3. IsSeq(info) /\ IsSeq(text)
    BY <2>2, InfoReads, TextReads
  <2> QED
    BY <2>1, <2>2, <2>3 DEF IsSeq
<1>3. ((empty \o roles) \o empty) \o three = empty \o text
  <2>1. empty \o three = four
    <3> DEFINE a == empty \o three
               S == {Text(""), Var(2), U8(IF m = "None" THEN 0 ELSE 1), Text(q.query)}
    <3>1. /\ a \in Seq(S) /\ four \in Seq(S) /\ Len(a) = 4 /\ Len(four) = 4
          /\ a[1] = four[1] /\ a[2] = four[2] /\ a[3] = four[3] /\ a[4] = four[4]
      OBVIOUS
    <3> HIDE DEF a, S, four
    <3>2. \A n \in 1..Len(a) : n = 1 \/ n = 2 \/ n = 3 \/ n = 4
      BY <3>1
    <3>3. \A n \in 1..Len(a) : a[n] = four[n]
      BY <3>1, <3>2, Zenon
    <3>4. a = four
      BY <3>1, <3>3, SeqEqual
    <3> QED
      BY <3>4 DEF a
  <2>2. text = roles \o four
    BY DEF QueryText
  <2> HIDE DEF empty, roles, three, four, text
  <2>3. IsSeq(empty \o roles)
    BY <1>2, Concatenation
  <2> DEFINE er == empty \o roles
  <2>4. (er \o empty) \o three = er \o (empty \o three)
    <3>1. IsSeq(er)
      BY <2>3
    <3> HIDE DEF er
    <3> QED
      BY <1>2, <3>1, Associates
  <2>5. (empty \o roles) \o four = empty \o (roles \o four)
    BY <1>2, Associates
  <2> QED
    BY <2>1, <2>2, <2>4, <2>5
<1>4. ~(R <= SETTINGS_AS_STRINGS) /\ R > SETTINGS_AS_STRINGS
  BY DEF CHUNKED_PACKETS, SETTINGS_AS_STRINGS
<1>5. IsSeq(w2.out) /\ (w2.st = "ok" => \E pairs : Carries(w2.out, pairs) /\ CompressionPairs(m, pairs))
  BY <1>4, CompressionWritten
<1>6. IsSeq(w3.out) /\ (w3.st = "ok" => \E pairs : Carries(w3.out, pairs) /\ OwnPairs(q, ignore, pairs))
  BY <1>4, OwnWritten
<1>7. w1.st = "ok" /\ w1.out = id \o info /\ w4.st = "ok" /\ w4.out = empty \o text
  <2> HIDE DEF id, info, text
  <2>1. \A s : Wrote(s).st = "ok" /\ Wrote(s).out = s
    BY DEF Wrote
  <2> QED
    BY <1>3, <2>1
<1>8. w5.st = "ok" => w5.out = empty
  <2>1. Wrote(<<>>).st = "ok" /\ Wrote(<<>>).out = <<>> /\ Wrote(empty).st = "ok" /\ Wrote(empty).out = empty
    BY DEF Wrote
  <2>2. \A p : settings_from_params(p).st = "panic"
    BY DEF settings_from_params, WPanic
  <2> HIDE DEF empty
  <2>3. CASE q.params = <<>>
    <3>1. w5.out = <<>> \o empty
      <4>1. w5 = WThen(Wrote(<<>>), Wrote(empty))
        BY <2>3
      <4>2. WThen(Wrote(<<>>), Wrote(empty)).out = Wrote(<<>>).out \o Wrote(empty).out
        BY <2>1, AfterIs, Zenon
      <4> HIDE DEF w5
      <4> QED
        BY <2>1, <4>1, <4>2
    <3>2. <<>> \o empty = empty
      BY <1>2, Associates
    <3> QED
      BY <3>1, <3>2
  <2>4. CASE q.params # <<>>
    <3>1. w5 = WThen(settings_from_params(q.params[1]), Wrote(empty))
      BY <2>4
    <3>2. w5 = settings_from_params(q.params[1])
      <4>1. settings_from_params(q.params[1]).st # "ok"
        BY <2>2
      <4> QED
        BY <3>1, <4>1, AfterIs, Zenon
    <3>3. w5.st # "ok"
      BY <2>2, <3>2
    <3> QED
      BY <3>3
  <2> QED
    BY <2>3, <2>4
<1>9. \A a, b : WThen(a, b).st = "ok" => a.st = "ok" /\ b.st = "ok" /\ WThen(a, b).out = a.out \o b.out
  BY AfterIs, Zenon
<1> HIDE DEF w, w1, w2, w3, w4, w5
<1>10. w.st = "ok"
  BY DEF w
<1>11. /\ w2.st = "ok" /\ w3.st = "ok" /\ w5.st = "ok"
       /\ w.out = w1.out \o (w2.out \o (w3.out \o (w4.out \o w5.out)))
  <2>1. w1.st = "ok" /\ v2.st = "ok" /\ w.out = w1.out \o v2.out
    BY <1>1, <1>9, <1>10, Zenon
  <2>2. w2.st = "ok" /\ v3.st = "ok" /\ v2.out = w2.out \o v3.out
    <3> HIDE DEF v3
    <3> QED
      BY <1>9, <2>1, Zenon
  <2>3. w3.st = "ok" /\ v4.st = "ok" /\ v3.out = w3.out \o v4.out
    <3> HIDE DEF v4
    <3> QED
      BY <1>9, <2>2, Zenon
  <2>4. w4.st = "ok" /\ w5.st = "ok" /\ v4.out = w4.out \o w5.out
    BY <1>9, <2>3, Zenon
  <2> QED
    BY <2>1, <2>2, <2>3, <2>4, Zenon
<1> DEFINE s == w2.out
           t == w3.out
<1>12. w.out = Piecewise(id, info, s, t, empty, text, empty)
  <2>1. w.out = (id \o info) \o (s \o (t \o ((empty \o text) \o empty)))
    <3> HIDE DEF id, info, empty, text
    <3> QED
      BY <1>7, <1>8, <1>11, Zenon
  <2> HIDE DEF id, info, empty, text, s, t
  <2> QED
    BY <2>1 DEF Piecewise, Joined
<1>13. IsSeq(s) /\ IsSeq(t)
  BY <1>5, <1>6
<1>14. IsSeq(w.out) /\ \A b : IsSeq(b) => Joined(w.out, b) = Nested(id, info, Joined(s, t), empty, text, empty, b)
  <2> HIDE DEF id, info, empty, text, s, t
  <2> DEFINE p == Piecewise(id, info, s, t, empty, text, empty)
  <2>1. AreSeqs(id, info, s, t, empty, text, empty)
    BY <1>2, <1>13 DEF AreSeqs
  <2>2. ASSUME NEW b, IsSeq(b)
        PROVE  IsSeq(p) /\ Joined(p, b) = Nested(id, info, Joined(s, t), empty, text, empty, b)
    <3>1. IsSeq(Piecewise(id, info, s, t, empty, text, empty))
      BY <2>1, <2>2, Chain
    <3>2. Joined(Piecewise(id, info, s, t, empty, text, empty), b) = Nested(id, info, Joined(s, t), empty, text, empty, b)
      BY <2>1, <2>2, Chain
    <3> QED
      BY <3>1, <3>2
  <2>3. IsSeq(p)
    BY <1>2, <2>2
  <2> HIDE DEF p
  <2>4. w.out = p
    BY <1>12 DEF p
  <2> QED
    BY <2>2, <2>3, <2>4
<1>15. ASSUME NEW b, IsSeq(b)
       PROVE  w.out \o b = QueryWire(q, m, R, s \o t, b)
  <2>1. Nested(id, info, Joined(s, t), empty, text, empty, b) = QueryWire(q, m, R, s \o t, b)
    BY DEF Nested, Joined, QueryWire
  <2> HIDE DEF id, info, empty, text, s, t
  <2>2. Joined(w.out, b) = Nested(id, info, Joined(s, t), empty, text, empty, b)
    BY <1>14, <1>15
  <2> QED
    BY <2>1, <2>2 DEF Joined
<1>16. \E set, pairs : /\ Carries(set, pairs) /\ AskedPairs(q, m, ignore, pairs)
                       /\ \A b : IsSeq(b) => w.out \o b = QueryWire(q, m, R, set, b)
  <2>1. PICK cp : Carries(w2.out, cp) /\ CompressionPairs(m, cp)
    BY <1>5, <1>11
  <2>2. PICK sp : Carries(w3.out, sp) /\ OwnPairs(q, ignore, sp)
    BY <1>6, <1>11
  <2>3. Carries(s \o t, cp \o sp)
    BY <2>1, <2>2, CarriesBoth
  <2>4. IsSeq(cp) /\ IsSeq(sp)
    BY <2>1, <2>2 DEF Carries
  <2>5. AskedPairs(q, m, ignore, cp \o sp)
    BY <2>1, <2>2, <2>4 DEF AskedPairs
  <2> QED
    BY <1>15, <2>3, <2>5
<1> QED
  BY <1>14, <1>16 DEF w

-----------------------------------------------------------------------------
(* Reading settings, up to an empty key.                                   *)
\* The first elements of a sequence.
Begin(p, n) == [i \in 1..n |-> p[i]]

\* The front of a sequence grows by its cells, from nothing to all of it.
LEMMA FrontGrows ==
  ASSUME NEW p, IsSeq(p)
  PROVE  /\ Begin(p, 0) = <<>> /\ Begin(p, Len(p)) = p
         /\ \A n \in Nat : Append(Begin(p, n), p[n + 1]) = Begin(p, n + 1)
<1>1. PICK S : p \in Seq(S)
  BY DEF IsSeq
<1>2. Begin(p, 0) = <<>>
  BY DEF Begin
<1>3. Begin(p, Len(p)) = p
  BY <1>1 DEF Begin
<1>4. ASSUME NEW n \in Nat
      PROVE  Append(Begin(p, n), p[n + 1]) = Begin(p, n + 1)
  <2> DEFINE f == Begin(p, n)
             g == Begin(p, n + 1)
             U == {p[i] : i \in 1..n + 1}
             a == Append(f, p[n + 1])
  <2>1. f \in Seq(U) /\ g \in Seq(U) /\ p[n + 1] \in U /\ Len(f) = n /\ Len(g) = n + 1
    <3>1. \A i \in 1..n + 1 : p[i] \in U
      OBVIOUS
    <3>2. \A i \in 1..n : i \in 1..n + 1
      OBVIOUS
    <3> HIDE DEF U
    <3>3. f \in [1..n -> U] /\ g \in [1..n + 1 -> U]
      BY <3>1, <3>2 DEF Begin
    <3>4. f = [i \in 1..n |-> f[i]] /\ g = [i \in 1..n + 1 |-> g[i]]
      BY DEF Begin
    <3> HIDE DEF f, g
    <3>5. Len(f) = n /\ Len(g) = n + 1
      BY <3>4, ListIsSeq
    <3>6. n + 1 \in 1..n + 1
      OBVIOUS
    <3> QED
      BY <3>1, <3>3, <3>5, <3>6
  <2>2. (\A i \in 1..n : f[i] = p[i]) /\ \A i \in 1..n + 1 : g[i] = p[i]
    BY DEF Begin
  <2> HIDE DEF f, g, U
  <2>3. /\ a \in Seq(U) /\ Len(a) = n + 1 /\ a[n + 1] = p[n + 1]
        /\ \A i \in 1..n : a[i] = f[i]
    BY <2>1, AppendProperties
  <2> HIDE DEF a
  <2>4. \A i \in 1..Len(a) : a[i] = g[i]
    <3>1. \A i \in 1..Len(a) : i \in 1..n + 1 /\ (i \in 1..n \/ i = n + 1)
      BY <2>3
    <3> QED
      BY <2>2, <2>3, <3>1
  <2>5. a = g
    BY <2>1, <2>3, <2>4, SeqEqual
  <2> QED
    BY <2>5 DEF a, f, g
<1> QED
  BY <1>2, <1>3, <1>4

\* The server reads one setting.
LEMMA OneSettingRead ==
  ASSUME NEW W, IsSeq(W), NEW k \in Nat, k \in 1..Len(W), k + 1 \in 1..Len(W), k + 2 \in 1..Len(W),
         W[k].w = STR, W[k + 1].w = VAR, W[k + 2].w = STR,
         NEW revision \in Nat, revision > SETTINGS_AS_STRINGS
  PROVE  ServerReadsSetting(At(W, k), revision) = Ok(<<TextOf(W[k].x), Meaning(TextOf(W[k + 2].x))>>, At(W, k + 3))
<1>1. (k + 1) + 1 = k + 2 /\ (k + 2) + 1 = k + 3
  OBVIOUS
<1>2. ReadCell(STR, At(W, k)) = Ok(W[k].x, At(W, k + 1))
  BY CellRead
<1>3. ReadCell(VAR, At(W, k + 1)) = Ok(W[k + 1].x, At(W, k + 2))
  BY <1>1, CellRead
<1>4. ReadCell(STR, At(W, k + 2)) = Ok(W[k + 2].x, At(W, k + 3))
  BY <1>1, CellRead
<1> DEFINE a == At(W, k)
           b == At(W, k + 1)
           c == At(W, k + 2)
           d == At(W, k + 3)
<1> HIDE DEF a, b, c, d
<1>5. ReadNum(VAR, b) = Ok(W[k + 1].x[1], c)
  BY <1>3 DEF ReadNum, Then, Ok, b, c
<1>6. ReadCell(STR, a) = Ok(W[k].x, b) /\ ReadCell(STR, c) = Ok(W[k + 2].x, d)
  BY <1>2, <1>4 DEF a, b, c, d
<1>7. ServerReadsSetting(a, revision) = Ok(<<TextOf(W[k].x), Meaning(TextOf(W[k + 2].x))>>, d)
  BY <1>5, <1>6 DEF ServerReadsSetting, Then, Ok
<1> QED
  BY <1>7 DEF a, d

\* The empty key.
EmptyKey == Text("")
\* The cell behind the last setting.
Ending == <<EmptyKey>>

\* A concatenation, without what a sequence is.
LEMMA JoinedIs ==
  ASSUME NEW a, NEW c, IsSeq(a), IsSeq(c)
  PROVE  /\ IsSeq(Joined(a, c)) /\ Len(a) \in Nat /\ Len(c) \in Nat
         /\ Len(Joined(a, c)) = Len(a) + Len(c)
         /\ \A i \in 1..Len(a) : Joined(a, c)[i] = a[i]
         /\ \A i \in 1..Len(c) : Joined(a, c)[Len(a) + i] = c[i]
         /\ At(Joined(a, c), Len(a) + 1) = c
<1>1. At(Joined(a, c), Len(a) + 1) = c
  BY PlaceAfter DEF Joined
<1>2. /\ IsSeq(Joined(a, c)) /\ Len(a) \in Nat /\ Len(c) \in Nat
      /\ Len(Joined(a, c)) = Len(a) + Len(c)
      /\ \A i \in 1..Len(a) : Joined(a, c)[i] = a[i]
      /\ \A i \in 1..Len(c) : Joined(a, c)[Len(a) + i] = c[i]
  BY Concatenation DEF Joined
<1> QED
  BY <1>1, <1>2

\* Where the cells are in a wire that starts with them, and what is next.
LEMMA EndedCells ==
  ASSUME NEW out, IsSeq(out), NEW b, IsSeq(b), NEW W, W = Joined(out, Joined(Ending, b))
  PROVE  /\ IsSeq(W) /\ Len(out) \in Nat /\ Len(W) \in Nat /\ Len(W) >= Len(out) + 1
         /\ \A i \in 1..Len(out) : W[i] = out[i]
         /\ W[Len(out) + 1] = EmptyKey /\ At(W, Len(out) + 2) = b
<1> DEFINE e == Ending
           T == Joined(e, b)
<1>1. IsSeq(out) /\ IsSeq(b)
  OBVIOUS
<1>2. IsSeq(e) /\ Len(e) = 1 /\ e[1] = EmptyKey
  BY PiecesAreSeqs DEF Ending
<1> HIDE DEF e
<1>3. IsSeq(T) /\ Len(T) = 1 + Len(b) /\ Len(b) \in Nat /\ T[1] = EmptyKey /\ At(T, 2) = b
  <2>1. IsSeq(e) /\ IsSeq(b)
    BY <1>2
  <2>2. IsSeq(T) /\ Len(T) = Len(e) + Len(b) /\ Len(b) \in Nat /\ \A i \in 1..Len(e) : T[i] = e[i]
    BY <2>1, JoinedIs, Zenon
  <2>3. At(T, Len(e) + 1) = b
    BY <2>1, JoinedIs, Zenon
  <2> HIDE DEF T
  <2>4. 1 \in 1..Len(e) /\ Len(e) + 1 = 2
    BY <1>2
  <2> QED
    BY <1>2, <2>2, <2>3, <2>4
<1>4. W = Joined(out, T)
  BY DEF e
<1> HIDE DEF T
<1>5. /\ IsSeq(W) /\ Len(W) = Len(out) + Len(T) /\ Len(out) \in Nat /\ Len(T) \in Nat
      /\ (\A i \in 1..Len(out) : W[i] = out[i]) /\ \A i \in 1..Len(T) : W[Len(out) + i] = T[i]
  <2>1. IsSeq(out) /\ IsSeq(T)
    BY <1>1, <1>3
  <2> DEFINE X == Joined(out, T)
  <2>2. /\ IsSeq(X) /\ Len(X) = Len(out) + Len(T) /\ Len(out) \in Nat /\ Len(T) \in Nat
        /\ (\A i \in 1..Len(out) : X[i] = out[i]) /\ \A i \in 1..Len(T) : X[Len(out) + i] = T[i]
    BY <2>1, JoinedIs, Zenon
  <2>3. W = X
    BY <1>4
  <2> HIDE DEF X
  <2> QED
    BY <2>2, <2>3, Zenon
<1>6. W[Len(out) + 1] = EmptyKey
  <2>1. 1 \in 1..Len(T)
    BY <1>3
  <2>2. W[Len(out) + 1] = T[1]
    BY <1>5, <2>1
  <2> QED
    BY <1>3, <2>2
<1>7. At(W, Len(out) + 2) = b
  <2>1. At(W, Len(out) + 1) = T
    <3>1. IsSeq(out) /\ IsSeq(T)
      BY <1>1, <1>3
    <3>2. At(Joined(out, T), Len(out) + 1) = T
      BY <3>1, JoinedIs, Zenon
    <3> QED
      BY <1>4, <3>2, Zenon
  <2>2. Len(out) + 1 \in 1..Len(W) /\ (Len(out) + 1) + 1 = Len(out) + 2
    BY <1>3, <1>5
  <2>3. Tail(At(W, Len(out) + 1)) = At(W, Len(out) + 2)
    BY <1>5, <2>2, Place
  <2>4. Tail(T) = At(T, 2)
    <3>1. 1 \in 1..Len(T) /\ 1 + 1 = 2
      BY <1>3
    <3>2. At(T, 1) = T
      BY <1>3, Place
    <3>3. Tail(At(T, 1)) = At(T, 1 + 1)
      BY <1>3, <3>1, Place
    <3> QED
      BY <3>1, <3>2, <3>3
  <2> QED
    BY <1>3, <2>1, <2>3, <2>4
<1>8. Len(W) \in Nat /\ Len(W) >= Len(out) + 1
  BY <1>3, <1>5
<1> QED
  BY <1>5, <1>6, <1>7, <1>8

\* The same for the cells of some pairs.
LEMMA CarriedCells ==
  ASSUME NEW out, NEW pairs, Carries(out, pairs), NEW b, IsSeq(b), NEW W, W = Joined(out, Joined(Ending, b))
  PROVE  /\ IsSeq(W) /\ Len(pairs) \in Nat /\ Len(W) \in Nat /\ Len(W) >= 3 * Len(pairs) + 1
         /\ \A m \in 1..Len(pairs) : CarriesAt(W, pairs, m)
         /\ W[3 * Len(pairs) + 1] = EmptyKey /\ At(W, 3 * Len(pairs) + 2) = b
<1> DEFINE k == Len(pairs)
<1>1. IsSeq(out) /\ IsSeq(pairs) /\ Len(out) = 3 * k /\ \A m \in 1..k : CarriesAt(out, pairs, m)
  BY DEF Carries
<1>2. k \in Nat
  <2>1. PICK S : pairs \in Seq(S)
    BY <1>1 DEF IsSeq
  <2> QED
    BY <2>1
<1>3. /\ IsSeq(W) /\ Len(W) \in Nat /\ Len(W) >= Len(out) + 1
      /\ \A i \in 1..Len(out) : W[i] = out[i]
      /\ W[Len(out) + 1] = EmptyKey /\ At(W, Len(out) + 2) = b
  <2> HIDE DEF k
  <2> QED
    BY <1>1, EndedCells
<1> HIDE DEF k
<1>4. ASSUME NEW m \in 1..k
      PROVE  CarriesAt(W, pairs, m)
  <2>1. 3 * m - 2 \in 1..Len(out) /\ 3 * m - 1 \in 1..Len(out) /\ 3 * m \in 1..Len(out)
    BY <1>1, <1>2
  <2>2. KeyCell(W, m) = KeyCell(out, m) /\ FlagCell(W, m) = FlagCell(out, m) /\ TextCell(W, m) = TextCell(out, m)
    BY <1>3, <2>1 DEF KeyCell, FlagCell, TextCell
  <2>3. CarriesAt(out, pairs, m)
    BY <1>1
  <2> QED
    BY <2>2, <2>3 DEF CarriesAt
<1> QED
  BY <1>1, <1>2, <1>3, <1>4 DEF k

\* One more setting, for the server and for the client.
ReadsSetting(side, revision, wire) == IF side = "server" THEN ServerReadsSetting(wire, revision) ELSE decode_setting(wire)
\* One step of a reader of settings, which either side is.
CollectStep(side, revision, r) ==
    Then(r, LAMBDA all, rest :
         IF AtEmptyKey(rest) THEN Ok(all, rest)
         ELSE Then(ReadsSetting(side, revision, rest), LAMBDA one, rest2 : Ok(Append(all, one), rest2)))

\* Its steps, one after another.
CollectRun(side, revision, W, f) ==
    f[0] = Ok(<<>>, W) /\ \A n \in 0..Len(W) : n # 0 => f[n] = CollectStep(side, revision, f[n - 1])

\* The settings of a list can be read in their places, and an empty key follows.
Placed(side, revision, W, list) ==
    /\ IsSeq(W) /\ IsSeq(list) /\ Len(W) \in Nat /\ Len(W) >= 3 * Len(list) + 1
    /\ \A m \in 1..Len(list) :
          W[3 * m - 2].x # <<>> /\ ReadsSetting(side, revision, At(W, 3 * m - 2)) = Ok(list[m], At(W, 3 * m + 1))
    /\ W[3 * Len(list) + 1] = EmptyKey

\* Then the steps read the list.
LEMMA CollectsAll ==
  ASSUME NEW side, NEW revision, NEW W, NEW list, Placed(side, revision, W, list)
  PROVE  /\ \E f : f = [n \in 0..Len(W) |-> f[n]] /\ CollectRun(side, revision, W, f)
         /\ \A read : CollectRun(side, revision, W, read) => read[Len(W)] = Ok(list, At(W, 3 * Len(list) + 1))
         /\ ReadCell(STR, At(W, 3 * Len(list) + 1)) = Ok(<<>>, At(W, 3 * Len(list) + 2))
<1> DEFINE k == Len(list)
           N == Len(W)
           state(n) == IF n <= k THEN Ok(Begin(list, n), At(W, 3 * n + 1)) ELSE Ok(list, At(W, 3 * k + 1))
           f == [n \in 0..N |-> state(n)]
<1>0. IsSeq(W) /\ IsSeq(list)
  BY DEF Placed
<1>1. k \in Nat
  <2>1. PICK S : list \in Seq(S)
    BY <1>0 DEF IsSeq
  <2> QED
    BY <2>1
<1>2. /\ N \in Nat /\ N >= 3 * k + 1 /\ W[3 * k + 1] = EmptyKey
      /\ \A m \in 1..k : W[3 * m - 2].x # <<>> /\ ReadsSetting(side, revision, At(W, 3 * m - 2)) = Ok(list[m], At(W, 3 * m + 1))
  BY DEF Placed
<1> HIDE DEF k, N
<1>3. state(0) = Ok(<<>>, W)
  <2>1. Begin(list, 0) = <<>> /\ At(W, 1) = W /\ 3 * 0 + 1 = 1
    BY <1>0, FrontGrows, Place
  <2> QED
    BY <1>1, <2>1
<1>4. ASSUME NEW n \in Nat
      PROVE  CollectStep(side, revision, state(n)) = state(n + 1)
  <2>1. CASE n < k
    <3> DEFINE m == n + 1
               p == 3 * n + 1
    <3>1. m \in 1..k /\ 3 * m - 2 = p /\ 3 * m + 1 = p + 3 /\ 3 * (n + 1) + 1 = p + 3
          /\ p \in Nat /\ p \in 1..Len(W) /\ n <= k /\ n + 1 <= k
      BY <1>1, <1>2, <2>1 DEF N
    <3>2. state(n) = Ok(Begin(list, n), At(W, p)) /\ state(n + 1) = Ok(Begin(list, n + 1), At(W, p + 3))
      BY <3>1
    <3> HIDE DEF p, m
    <3>3. W[p].x # <<>> /\ ReadsSetting(side, revision, At(W, p)) = Ok(list[m], At(W, p + 3))
      BY <1>2, <3>1
    <3>4. ~AtEmptyKey(At(W, p))
      <4>1. Head(At(W, p)) = W[p]
        BY <1>0, <3>1, Place
      <4> QED
        BY <3>3, <4>1 DEF AtEmptyKey
    <3>5. Append(Begin(list, n), list[m]) = Begin(list, n + 1)
      BY <1>0, FrontGrows DEF m
    <3> HIDE DEF state
    <3> DEFINE wire == At(W, p)
               after == At(W, p + 3)
               front == Begin(list, n)
               more == Append(front, list[m])
    <3>6. ReadsSetting(side, revision, wire) = Ok(list[m], after) /\ ~AtEmptyKey(wire)
      BY <3>3, <3>4
    <3>7. state(n) = Ok(front, wire) /\ state(n + 1) = Ok(more, after)
      BY <3>2, <3>5
    <3> HIDE DEF wire, after, front
    <3>8. CollectStep(side, revision, Ok(front, wire)) = Ok(more, after)
      BY <3>6 DEF CollectStep, Then, Ok
    <3> QED
      BY <3>7, <3>8
  <2>2. CASE ~(n < k)
    <3> DEFINE wire == At(W, 3 * k + 1)
               all == IF n <= k THEN Begin(list, n) ELSE list
    <3>1. all = list
      <4>1. n <= k => n = Len(list)
        BY <1>1, <2>2 DEF k
      <4>2. Begin(list, Len(list)) = list
        BY <1>0, FrontGrows
      <4> QED
        BY <4>1, <4>2
    <3>2. state(n) = Ok(all, wire) /\ state(n + 1) = Ok(list, wire)
      BY <1>1, <2>2
    <3>3. AtEmptyKey(wire)
      <4>1. 3 * k + 1 \in 1..Len(W)
        BY <1>1, <1>2 DEF N
      <4>2. wire # <<>> /\ Head(wire) = EmptyKey
        BY <1>0, <1>2, <4>1, Place
      <4>3. EmptyKey.w = STR /\ EmptyKey.x = <<>>
        BY DEF EmptyKey, Text, Cell
      <4> QED
        BY <4>2, <4>3 DEF AtEmptyKey
    <3> HIDE DEF wire, all, state
    <3>4. CollectStep(side, revision, Ok(list, wire)) = Ok(list, wire)
      BY <3>3 DEF CollectStep, Then, Ok
    <3> QED
      BY <3>1, <3>2, <3>4
  <2> QED
    BY <2>1, <2>2
<1>5. N \in Nat /\ ~(N <= k) /\ state(N) = Ok(list, At(W, 3 * k + 1))
  BY <1>1, <1>2
<1> HIDE DEF state
<1>6. /\ f = [n \in 0..N |-> f[n]] /\ f[0] = Ok(<<>>, W)
      /\ \A n \in 0..N : n # 0 => f[n] = CollectStep(side, revision, f[n - 1])
  <2>1. f = [n \in 0..N |-> f[n]] /\ f[0] = Ok(<<>>, W)
    BY <1>3, <1>5
  <2>2. ASSUME NEW n \in 0..N, n # 0
        PROVE  f[n] = CollectStep(side, revision, f[n - 1])
    <3>1. n - 1 \in Nat /\ n - 1 \in 0..N /\ (n - 1) + 1 = n
      BY <1>5, <2>2
    <3>2. f[n] = state(n) /\ f[n - 1] = state(n - 1)
      BY <3>1
    <3>3. CollectStep(side, revision, state(n - 1)) = state((n - 1) + 1)
      BY <1>4, <3>1
    <3> HIDE DEF f
    <3> QED
      BY <3>1, <3>2, <3>3
  <2> QED
    BY <2>1, <2>2
<1> HIDE DEF f
<1>7. ASSUME NEW read, read[0] = Ok(<<>>, W), \A n \in 0..N : n # 0 => read[n] = CollectStep(side, revision, read[n - 1])
      PROVE  read[N] = Ok(list, At(W, 3 * k + 1))
  <2> DEFINE T == {n \in Nat : n <= N => read[n] = state(n)}
  <2>1. 0 \in T
    BY <1>3, <1>7
  <2>2. ASSUME NEW n \in Nat, n \in T
        PROVE  n + 1 \in T
    <3> SUFFICES ASSUME n + 1 <= N PROVE read[n + 1] = state(n + 1)
      OBVIOUS
    <3>1. n + 1 \in 0..N /\ n + 1 # 0 /\ (n + 1) - 1 = n /\ n <= N
      BY <1>5
    <3>2. read[n + 1] = CollectStep(side, revision, read[n])
      BY <1>7, <3>1
    <3> QED
      BY <1>4, <2>2, <3>1, <3>2
  <2>3. N \in T
    <3> HIDE DEF T
    <3> QED
      BY <1>5, <2>1, <2>2, Inductive
  <2> QED
    BY <1>5, <2>3
<1>8. ReadCell(STR, At(W, 3 * k + 1)) = Ok(<<>>, At(W, 3 * k + 2))
  <2>1. 3 * k + 1 \in 1..Len(W) /\ (3 * k + 1) + 1 = 3 * k + 2
    BY <1>1, <1>2 DEF N
  <2>2. W[3 * k + 1].w = STR /\ W[3 * k + 1].x = <<>>
    BY <1>2 DEF EmptyKey, Text, Cell
  <2> QED
    BY <1>0, <2>1, <2>2, CellRead
<1> QED
  BY <1>6, <1>7, <1>8 DEF CollectRun, k, N

\* The server reads the pairs, and the empty key after them.
LEMMA Collects ==
  ASSUME NEW out, NEW pairs, Carries(out, pairs), NEW b, IsSeq(b), NEW revision \in Nat, revision > SETTINGS_AS_STRINGS
  PROVE  ServerReadsSettings(Joined(out, Joined(Ending, b)), revision) = Ok(pairs, b)
<1> DEFINE W == Joined(out, Joined(Ending, b))
           k == Len(pairs)
           N == Len(W)
           step(r) == Then(r, LAMBDA all, rest :
                           IF AtEmptyKey(rest) THEN Ok(all, rest)
                           ELSE Then(ServerReadsSetting(rest, revision), LAMBDA one, rest2 : Ok(Append(all, one), rest2)))
           rule(r) == [n \in 0..N |-> IF n = 0 THEN Ok(<<>>, W) ELSE step(r[n - 1])]
           read == CHOOSE r : r = rule(r)
<1>1. ServerReadsSettings(W, revision)
        = Then(read[N], LAMBDA all, rest : Then(ReadCell(STR, rest), LAMBDA key, rest2 : Ok(all, rest2)))
  BY Zenon DEF ServerReadsSettings, UpToEmptyKey
<1>2. /\ IsSeq(W) /\ k \in Nat /\ N \in Nat /\ N >= 3 * k + 1
      /\ \A m \in 1..k : CarriesAt(W, pairs, m)
      /\ W[3 * k + 1] = EmptyKey /\ At(W, 3 * k + 2) = b
  BY CarriedCells
<1>3. IsSeq(pairs)
  BY DEF Carries
<1> HIDE DEF W, k, N
<1>4. ASSUME NEW m \in 1..k
      PROVE  W[3 * m - 2].x # <<>> /\ ReadsSetting("server", revision, At(W, 3 * m - 2)) = Ok(pairs[m], At(W, 3 * m + 1))
  <2> DEFINE p == 3 * m - 2
  <2>1. 3 * m - 1 = p + 1 /\ 3 * m = p + 2 /\ 3 * m + 1 = p + 3 /\ p \in Nat
        /\ p \in 1..Len(W) /\ p + 1 \in 1..Len(W) /\ p + 2 \in 1..Len(W)
    BY <1>2 DEF N
  <2>2. CarriesAt(W, pairs, m)
    BY <1>2
  <2> HIDE DEF p
  <2>3. /\ W[p].w = STR /\ W[p].x # <<>> /\ W[p + 1].w = VAR /\ W[p + 2].w = STR
        /\ pairs[m] = <<TextOf(W[p].x), Meaning(TextOf(W[p + 2].x))>>
    BY <2>1, <2>2 DEF CarriesAt, KeyCell, FlagCell, TextCell, p
  <2>4. ServerReadsSetting(At(W, p), revision) = Ok(<<TextOf(W[p].x), Meaning(TextOf(W[p + 2].x))>>, At(W, p + 3))
    BY <1>2, <2>1, <2>3, OneSettingRead
  <2>5. ReadsSetting("server", revision, At(W, p)) = Ok(pairs[m], At(W, p + 3))
    BY <2>3, <2>4 DEF ReadsSetting
  <2> QED
    BY <2>1, <2>3, <2>5 DEF p
<1>5. ASSUME NEW r
      PROVE  step(r) = CollectStep("server", revision, r)
  BY DEF CollectStep, ReadsSetting, Then
<1> HIDE DEF step
<1>6. /\ \E f : f = [n \in 0..N |-> f[n]] /\ CollectRun("server", revision, W, f)
      /\ \A g : CollectRun("server", revision, W, g) => g[N] = Ok(pairs, At(W, 3 * k + 1))
      /\ ReadCell(STR, At(W, 3 * k + 1)) = Ok(<<>>, b)
  <2> DEFINE side == "server"
  <2>1. \A m \in 1..Len(pairs) :
           W[3 * m - 2].x # <<>> /\ ReadsSetting(side, revision, At(W, 3 * m - 2)) = Ok(pairs[m], At(W, 3 * m + 1))
    BY <1>4 DEF k
  <2>2. Len(W) \in Nat /\ Len(W) >= 3 * Len(pairs) + 1 /\ W[3 * Len(pairs) + 1] = EmptyKey
    BY <1>2 DEF k, N
  <2> HIDE DEF side
  <2>3. Placed(side, revision, W, pairs)
    BY <1>2, <1>3, <2>1, <2>2 DEF Placed
  <2>4. /\ \E f : f = [n \in 0..Len(W) |-> f[n]] /\ CollectRun(side, revision, W, f)
        /\ \A g : CollectRun(side, revision, W, g) => g[Len(W)] = Ok(pairs, At(W, 3 * Len(pairs) + 1))
        /\ ReadCell(STR, At(W, 3 * Len(pairs) + 1)) = Ok(<<>>, At(W, 3 * Len(pairs) + 2))
    BY <2>3, CollectsAll
  <2> QED
    BY <1>2, <2>4 DEF side, k, N
<1>7. read = rule(read)
  <2>1. PICK f : f = [n \in 0..N |-> f[n]] /\ CollectRun("server", revision, W, f)
    BY <1>6
  <2>2. \A n \in 0..N : f[n] = IF n = 0 THEN Ok(<<>>, W) ELSE step(f[n - 1])
    BY <1>5, <2>1 DEF CollectRun, N
  <2>3. f = rule(f)
    BY <2>1, <2>2, Zenon
  <2> HIDE DEF rule
  <2> QED
    BY <2>3, Zenon
<1> HIDE DEF read
<1>8. read[N] = Ok(pairs, At(W, 3 * k + 1))
  <2>1. \A n \in 0..N : read[n] = IF n = 0 THEN Ok(<<>>, W) ELSE step(read[n - 1])
    BY <1>7
  <2>2. 0 \in 0..N
    BY <1>2
  <2>3. CollectRun("server", revision, W, read)
    BY <1>5, <2>1, <2>2 DEF CollectRun, N
  <2> QED
    BY <1>6, <2>3
<1> DEFINE wire == At(W, 3 * k + 1)
<1> HIDE DEF wire
<1>9. ServerReadsSettings(W, revision) = Ok(pairs, b)
  <2>1. read[N] = Ok(pairs, wire) /\ ReadCell(STR, wire) = Ok(<<>>, b)
    BY <1>6, <1>8 DEF wire
  <2> HIDE DEF rule
  <2> QED
    BY <1>1, <2>1 DEF Then, Ok
<1> QED
  BY <1>9 DEF W

-----------------------------------------------------------------------------
(* Reading a query.                                                        *)
\* What a query begins with.
QueryStart == << <<"id", VAR, 0>>, <<"qid", STR, 0>> >>

\* The number of the packet and the name of the query.
LEMMA QueryStartReads ==
  ASSUME NEW q, NEW revision \in Nat, NEW b, IsSeq(b)
  PROVE  LET a == <<Var(1), Text(q.qid)>>
             r == ReadLayout(QueryStart, revision, Joined(a, b))
         IN IsSeq(a) /\ r.st = "ok" /\ r.rest = b
<1> DEFINE L == QueryStart
           c1 == Var(1)
           c2 == Text(q.qid)
           a == <<c1, c2>>
<1>1. /\ Len(L) = 2 /\ Distinct(L) /\ L[1][2] = VAR /\ L[2][2] = STR /\ L[1][3] = 0 /\ L[2][3] = 0
  BY DEF QueryStart, Distinct
<1>2. ~Lacks(L, revision, 1) /\ ~Lacks(L, revision, 2)
  BY <1>1 DEF Lacks
<1>3. c1.w = VAR /\ c2.w = STR
  BY DEF Text, Var, Num, Cell
<1> HIDE DEF c1, c2, L
<1>4. a \in Seq({c1, c2}) /\ Len(a) = 2 /\ a[1] = c1 /\ a[2] = c2
  OBVIOUS
<1>5. IsSeq(a)
  BY <1>4 DEF IsSeq
<1> HIDE DEF a
<1>6. Spans(L, revision, a, 0, 2)
  <2>1. a[1].w = L[1][2] /\ a[2].w = L[2][2]
    BY <1>1, <1>3, <1>4
  <2> QED
    BY <1>1, <1>2, <1>4, <2>1 DEF Spans
<1>7. LET r == ReadLayout(L, revision, a \o b) IN r.st = "ok" /\ r.rest = b
  <2>1. Distinct(L) /\ Len(L) \in Nat
    BY <1>1
  <2> QED
    BY <1>5, <1>6, <2>1, SpanReads
<1> QED
  BY <1>5, <1>7, Zenon DEF L, a, c1, c2, Joined

\* What the server takes a query to be.
QueryMeant(q, m, pairs) == [query |-> q.query, compression |-> (m # "None"), settings |-> pairs, params |-> <<>>]

\* What the server makes of a query.
ReadText(settings, params, text) == 
    [query |-> TextOf(text["query"]), compression |-> text["compression"][1] = 1, settings |-> settings, params |-> params]

\* The server reads a query with the settings that its cells carry.
LEMMA QueryReads ==
  ASSUME NEW q, NEW m, PeersMeet, NEW set, NEW pairs, Carries(set, pairs), NEW b, IsSeq(b)
  PROVE  ServerReadsQuery(QueryWire(q, m, Agreed, set, b)) = Ok(QueryMeant(q, m, pairs), b)
<1> DEFINE A == Agreed
           a0 == <<Var(1), Text(q.qid)>>
           a1 == write_client_info(A)
           a4 == QueryText(q, A, m)
           X5 == Joined(Ending, b)
           X4 == Joined(a4, X5)
           X3 == Joined(Ending, X4)
           X2 == Joined(set, X3)
           X1 == Joined(a1, X2)
           W == Joined(a0, X1)
           l0 == ReadLayout(QueryStart, A, W)
           l1 == ReadLayout(ClientInfoLayout, A, X1)
           l4 == ReadLayout(QueryTextLayout, A, X4)
<1>1. QueryWire(q, m, A, set, b) = W
  BY Zenon DEF QueryWire, Joined, Ending, EmptyKey
<1>2. A \in Nat /\ A >= CHUNKED_PACKETS /\ A > SETTINGS_AS_STRINGS
  BY AgreedIs DEF CHUNKED_PACKETS, SETTINGS_AS_STRINGS
<1> HIDE DEF A
<1>3. IsSeq(Ending) /\ IsSeq(set) /\ IsSeq(<<>>)
  <2>1. IsSeq(Ending)
    BY PiecesAreSeqs, Zenon DEF Ending
  <2>2. IsSeq(set)
    BY DEF Carries
  <2>3. IsSeq(<<>>)
    BY CarriesNone, Zenon DEF Carries
  <2> QED
    BY <2>1, <2>2, <2>3
<1>4. IsSeq(X5)
  BY <1>3, JoinedIs, Zenon
<1>5. IsSeq(X4) /\ l4.st = "ok" /\ l4.rest = X5 /\ l4.v["query"] = Text(q.query).x
      /\ l4.v["compression"] = <<IF m = "None" THEN 0 ELSE 1>>
  <2> HIDE DEF X5
  <2>1. LET r == ReadLayout(QueryTextLayout, A, a4 \o X5)
        IN IsSeq(a4) /\ r.st = "ok" /\ r.rest = X5 /\ r.v["query"] = Text(q.query).x
           /\ r.v["compression"] = <<IF m = "None" THEN 0 ELSE 1>>
    BY <1>2, <1>4, TextReads
  <2>2. IsSeq(a4) /\ l4.st = "ok" /\ l4.rest = X5 /\ l4.v["query"] = Text(q.query).x
        /\ l4.v["compression"] = <<IF m = "None" THEN 0 ELSE 1>>
    BY <2>1, Zenon DEF Joined
  <2> HIDE DEF a4, l4
  <2>3. IsSeq(X4)
    BY <1>4, <2>2, JoinedIs, Zenon
  <2> QED
    BY <2>2, <2>3
<1>6. IsSeq(X2)
  <2> HIDE DEF X4
  <2>1. IsSeq(X3)
    BY <1>3, <1>5, JoinedIs, Zenon
  <2> HIDE DEF X3
  <2> QED
    BY <1>3, <2>1, JoinedIs, Zenon
<1>7. IsSeq(X1) /\ l1.st = "ok" /\ l1.rest = X2
  <2> HIDE DEF X2
  <2>1. LET r == ReadLayout(ClientInfoLayout, A, a1 \o X2)
        IN IsSeq(a1) /\ r.st = "ok" /\ r.rest = X2
    BY <1>2, <1>6, InfoReads
  <2>2. IsSeq(a1) /\ l1.st = "ok" /\ l1.rest = X2
    BY <2>1, Zenon DEF Joined
  <2> HIDE DEF a1, l1
  <2>3. IsSeq(X1)
    BY <1>6, <2>2, JoinedIs, Zenon
  <2> QED
    BY <2>2, <2>3
<1>8. l0.st = "ok" /\ l0.rest = X1
  <2> HIDE DEF X1
  <2>1. LET r == ReadLayout(QueryStart, A, Joined(<<Var(1), Text(q.qid)>>, X1))
        IN r.st = "ok" /\ r.rest = X1
    BY <1>2, <1>7, QueryStartReads
  <2> QED
    BY <2>1
<1>9. ServerReadsSettings(X2, A) = Ok(pairs, X4)
  <2> HIDE DEF X4
  <2> QED
    BY <1>2, <1>5, Collects, Zenon
<1>10. ServerReadsSettings(X5, A) = Ok(<<>>, b)
  <2>1. ServerReadsSettings(Joined(<<>>, X5), A) = Ok(<<>>, b)
    BY <1>2, CarriesNone, Collects, Zenon
  <2> HIDE DEF X5
  <2>2. Joined(<<>>, X5) = X5
    <3>1. PICK S : X5 \in Seq(S)
      BY <1>4 DEF IsSeq
    <3> QED
      BY <3>1 DEF Joined
  <2> QED
    BY <2>1, <2>2, Zenon
<1> DEFINE k3(settings, text, r3) == Then(ServerReadsSettings(r3, A), LAMBDA params, r4 : Ok(ReadText(settings, params, text), r4))
           k2(settings, r2) == Then(ReadLayout(QueryTextLayout, A, r2), LAMBDA text, r3 : k3(settings, text, r3))
           k1(r1) == Then(ServerReadsSettings(r1, A), LAMBDA settings, r2 : k2(settings, r2))
           k0(r0) == Then(ReadLayout(ClientInfoLayout, A, r0), LAMBDA info, r1 : k1(r1))
<1>11. ServerReadsQuery(W) = Then(ReadLayout(QueryStart, A, W), LAMBDA start, r0 : k0(r0))
  BY Zenon DEF ServerReadsQuery, QueryStart, ReadText, A
<1> DEFINE r1 == ServerReadsSettings(X2, A)
           r5 == ServerReadsSettings(X5, A)
<1>12. k3(pairs, l4.v, X5) = Ok(ReadText(pairs, <<>>, l4.v), b)
  <2>1. r5 = Ok(<<>>, b)
    BY <1>10
  <2> HIDE DEF r5, l4
  <2>2. Then(r5, LAMBDA params, r4 : Ok(ReadText(pairs, params, l4.v), r4)) = Ok(ReadText(pairs, <<>>, l4.v), b)
    BY <2>1 DEF Then, Ok
  <2> QED
    BY <2>2 DEF r5
<1>13. k2(pairs, X4) = Ok(ReadText(pairs, <<>>, l4.v), b)
  <2> HIDE DEF k3
  <2>1. k2(pairs, X4) = Then(l4, LAMBDA text, r3 : k3(pairs, text, r3))
    OBVIOUS
  <2> HIDE DEF l4, X5
  <2>2. Then(l4, LAMBDA text, r3 : k3(pairs, text, r3)) = k3(pairs, l4.v, X5)
    BY <1>5 DEF Then
  <2> QED
    BY <1>12, <2>1, <2>2
<1> HIDE DEF k3
<1>14. k1(X2) = Ok(ReadText(pairs, <<>>, l4.v), b)
  <2> HIDE DEF k2
  <2>1. k1(X2) = Then(r1, LAMBDA settings, r2 : k2(settings, r2))
    OBVIOUS
  <2>2. r1 = Ok(pairs, X4)
    BY <1>9
  <2> HIDE DEF r1, X4, l4
  <2>3. Then(r1, LAMBDA settings, r2 : k2(settings, r2)) = k2(pairs, X4)
    BY <2>2 DEF Then, Ok
  <2> QED
    BY <1>13, <2>1, <2>3
<1> HIDE DEF k2
<1>15. k0(X1) = k1(X2)
  <2> HIDE DEF k1
  <2>1. k0(X1) = Then(l1, LAMBDA info, r0 : k1(r0))
    OBVIOUS
  <2> HIDE DEF l1, X2
  <2>2. Then(l1, LAMBDA info, r0 : k1(r0)) = k1(X2)
    BY <1>7 DEF Then
  <2> QED
    BY <2>1, <2>2
<1> HIDE DEF k1
<1>16. ServerReadsQuery(W) = k0(X1)
  <2> HIDE DEF k0
  <2>1. ServerReadsQuery(W) = Then(l0, LAMBDA start, r0 : k0(r0))
    BY <1>11
  <2> HIDE DEF l0, X1, W
  <2>2. Then(l0, LAMBDA start, r0 : k0(r0)) = k0(X1)
    BY <1>8 DEF Then
  <2> QED
    BY <2>1, <2>2
<1>17. ReadText(pairs, <<>>, l4.v) = QueryMeant(q, m, pairs)
  <2>1. TextOf(Text(q.query).x) = q.query
    BY TextIs
  <2> DEFINE v == l4.v
             t == Text(q.query).x
  <2>2. v["query"] = t /\ v["compression"] = <<IF m = "None" THEN 0 ELSE 1>> /\ TextOf(t) = q.query
    BY <1>5, <2>1
  <2> HIDE DEF v, t
  <2>3. v["compression"][1] = 1 <=> m # "None"
    BY <2>2
  <2>4. (v["compression"][1] = 1) = (m # "None")
    BY <2>3
  <2>5. ReadText(pairs, <<>>, v) = QueryMeant(q, m, pairs)
    BY <2>2, <2>4 DEF ReadText, QueryMeant
  <2> QED
    BY <2>5 DEF v
<1> HIDE DEF k0, W, l4
<1>18. ServerReadsQuery(W) = Ok(QueryMeant(q, m, pairs), b)
  BY <1>14, <1>15, <1>16, <1>17
<1> QED
  BY <1>1, <1>18, Zenon DEF A

-----------------------------------------------------------------------------
(* Settings in force.                                                      *)
\* The maximum of a set of places is one of them.
LEMMA MaxIn ==
  ASSUME NEW n \in Nat, NEW S, S \subseteq 1..n, S # {}
  PROVE  Max(S) \in S
<1> DEFINE T == {k \in Nat : \A U : U \subseteq 1..k /\ U # {} => \E x \in U : \A y \in U : x >= y}
<1>1. 0 \in T
  <2>1. 1..0 = {}
    OBVIOUS
  <2> QED
    BY <2>1
<1>2. ASSUME NEW k \in Nat, k \in T
      PROVE  k + 1 \in T
  <2> SUFFICES ASSUME NEW U, U \subseteq 1..k + 1, U # {}
               PROVE  \E x \in U : \A y \in U : x >= y
    OBVIOUS
  <2>1. CASE k + 1 \in U
    <3>1. \A y \in U : k + 1 >= y
      OBVIOUS
    <3> QED
      BY <2>1, <3>1
  <2>2. CASE k + 1 \notin U
    <3>1. U \subseteq 1..k
      <4>1. \A y \in 1..k + 1 : y = k + 1 \/ y \in 1..k
        OBVIOUS
      <4> QED
        BY <2>2, <4>1
    <3> QED
      BY <1>2, <3>1
  <2> QED
    BY <2>1, <2>2
<1>3. n \in T
  <2> HIDE DEF T
  <2> QED
    BY <1>1, <1>2, Inductive
<1>4. \E x \in S : \A y \in S : x >= y
  BY <1>3
<1> QED
  BY <1>4 DEF Max

\* The pairs that name a setting.
Names(pairs) == {pairs[i][1] : i \in 1..Len(pairs)}

\* A name that is applied has the value of one of its pairs.
LEMMA OneNamed ==
  ASSUME NEW settings, NEW pairs, IsSeq(pairs), NEW k \in Names(pairs)
  PROVE  \E i \in 1..Len(pairs) : pairs[i][1] = k /\ Apply(settings, pairs)[k] = pairs[i][2]
<1>1. PICK S : pairs \in Seq(S)
  BY DEF IsSeq
<1>2. DOMAIN pairs = 1..Len(pairs) /\ Len(pairs) \in Nat
  BY <1>1
<1> DEFINE named(key) == {i \in DOMAIN pairs : pairs[i][1] = key}
           dom == DOMAIN settings \union {pairs[i][1] : i \in DOMAIN pairs}
           a == Apply(settings, pairs)
           N == named(k)
           i == Max(N)
<1>3. a = [key \in dom |-> IF named(key) = {} THEN settings[key] ELSE pairs[Max(named(key))][2]]
  BY Zenon DEF Apply
<1>4. dom = DOMAIN settings \union Names(pairs)
  BY <1>2 DEF Names
<1>5. N \subseteq 1..Len(pairs) /\ N # {}
  BY <1>2 DEF Names
<1> HIDE DEF dom, a
<1>6. a[k] = IF named(k) = {} THEN settings[k] ELSE pairs[Max(named(k))][2]
  BY <1>3, <1>4
<1> HIDE DEF N
<1>7. i \in N
  BY <1>2, <1>5, MaxIn
<1>8. i \in 1..Len(pairs)
  BY <1>5, <1>7
<1>9. pairs[i][1] = k
  BY <1>7 DEF N
<1>10. a[k] = pairs[i][2]
  BY <1>5, <1>6 DEF N
<1>11. \E n \in 1..Len(pairs) : pairs[n][1] = k /\ a[k] = pairs[n][2]
  BY <1>8, <1>9, <1>10
<1> QED
  BY <1>11 DEF a

\* A setting that the pairs name has the value of one of them, another keeps its own.
LEMMA ApplyGives ==
  ASSUME NEW settings, NEW pairs, IsSeq(pairs)
  PROVE  /\ DOMAIN Apply(settings, pairs) = DOMAIN settings \union Names(pairs)
         /\ \A k \in Names(pairs) : \E i \in 1..Len(pairs) : pairs[i][1] = k /\ Apply(settings, pairs)[k] = pairs[i][2]
         /\ \A k \in DOMAIN settings : k \notin Names(pairs) => Apply(settings, pairs)[k] = settings[k]
<1>1. PICK S : pairs \in Seq(S)
  BY DEF IsSeq
<1>2. DOMAIN pairs = 1..Len(pairs) /\ Len(pairs) \in Nat
  BY <1>1
<1> DEFINE named(k) == {i \in DOMAIN pairs : pairs[i][1] = k}
           dom == DOMAIN settings \union {pairs[i][1] : i \in DOMAIN pairs}
           a == Apply(settings, pairs)
<1>3. a = [k \in dom |-> IF named(k) = {} THEN settings[k] ELSE pairs[Max(named(k))][2]]
  BY Zenon DEF Apply
<1>4. dom = DOMAIN settings \union Names(pairs)
  BY <1>2 DEF Names
<1> HIDE DEF dom, a
<1>5. DOMAIN a = dom /\ \A k \in dom : a[k] = IF named(k) = {} THEN settings[k] ELSE pairs[Max(named(k))][2]
  BY <1>3
<1>6. ASSUME NEW k \in Names(pairs)
      PROVE  \E i \in 1..Len(pairs) : pairs[i][1] = k /\ a[k] = pairs[i][2]
  BY OneNamed DEF a
<1>7. ASSUME NEW k \in DOMAIN settings, k \notin Names(pairs)
      PROVE  a[k] = settings[k]
  <2>1. named(k) = {}
    BY <1>2, <1>7 DEF Names
  <2> QED
    BY <1>4, <1>5, <2>1
<1> QED
  BY <1>4, <1>5, <1>6, <1>7 DEF a

\* The pairs of some settings say what the settings say.
LEMMA PairsTell ==
  ASSUME NEW s, NEW skips, NEW N \in Nat, NEW pairs, IsSeq(pairs), PairsOf(s, skips, N, pairs)
  PROVE  /\ \A m \in 1..Len(pairs) : \E i \in 1..N : /\ i \notin skips /\ pairs[m][1] = s[i].key
                                                     /\ pairs[m][2] = Meaning(to_string(s[i].value))
         /\ \A i \in 1..N : i \notin skips => \E m \in 1..Len(pairs) : pairs[m][1] = s[i].key
<1>1. /\ \A m \in 1..Len(pairs) : \E i \in 1..N : i \notin skips /\ pairs[m] = PairOf(s[i])
      /\ \A i \in 1..N : i \notin skips => \E m \in 1..Len(pairs) : pairs[m] = PairOf(s[i])
  BY DEF PairsOf
<1>2. \A x : PairOf(x)[1] = x.key /\ PairOf(x)[2] = Meaning(to_string(x.value))
  BY DEF PairOf
<1>3. ASSUME NEW m \in 1..Len(pairs)
      PROVE  \E i \in 1..N : /\ i \notin skips /\ pairs[m][1] = s[i].key
                            /\ pairs[m][2] = Meaning(to_string(s[i].value))
  <2>1. PICK i \in 1..N : i \notin skips /\ pairs[m] = PairOf(s[i])
    BY <1>1
  <2>2. PairOf(s[i])[1] = s[i].key /\ PairOf(s[i])[2] = Meaning(to_string(s[i].value))
    BY <1>2
  <2> QED
    BY <2>1, <2>2, Zenon
<1>4. ASSUME NEW i \in 1..N, i \notin skips
      PROVE  \E m \in 1..Len(pairs) : pairs[m][1] = s[i].key
  <2>1. PICK m \in 1..Len(pairs) : pairs[m] = PairOf(s[i])
    BY <1>1, <1>4
  <2>2. PairOf(s[i])[1] = s[i].key
    BY <1>2
  <2> QED
    BY <2>1, <2>2, Zenon
<1> QED
  BY <1>3, <1>4

\* The setting by which a server knows ZSTD.
Zipped == "network_compression_method"

\* How the blocks are compressed is told by pairs of that name, unless it is as usual.
LEMMA CompressionTold ==
  ASSUME NEW m \in Methods, NEW cp, IsSeq(cp), CompressionPairs(m, cp)
  PROVE  /\ m # "ZSTD" => Len(cp) = 0
         /\ m = "ZSTD" => /\ \E i \in 1..Len(cp) : cp[i][1] = Zipped
                          /\ \A i \in 1..Len(cp) : cp[i][1] = Zipped => cp[i][2] = "zstd"
         /\ \A i \in 1..Len(cp) : cp[i][1] \in Compressing
<1> DEFINE s == compression_settings(m)
           N == Len(s)
<1>1. PairsOf(s, {}, N, cp)
  BY DEF CompressionPairs
<1>2. Len(cp) \in Nat
  <2>1. PICK S : cp \in Seq(S)
    BY DEF IsSeq
  <2> QED
    BY <2>1
<1>3. CASE m # "ZSTD"
  <2>1. N = 0
    BY <1>3, CompressionIs
  <2> HIDE DEF N, s
  <2>2. \A i \in 1..Len(cp) : \E j \in 1..N : j \notin {}
    <3>1. N \in Nat
      BY <2>1
    <3>2. \A i \in 1..Len(cp) : \E j \in 1..N : /\ j \notin {} /\ cp[i][1] = s[j].key
                                                 /\ cp[i][2] = Meaning(to_string(s[j].value))
      BY <1>1, <3>1, PairsTell
    <3> QED
      BY <3>2, Zenon
  <2>3. 1..Len(cp) = {}
    BY <2>1, <2>2
  <2>4. Len(cp) = 0
    BY <1>2, <2>3
  <2> QED
    BY <1>3, <2>3, <2>4
<1>4. CASE m = "ZSTD"
  <2>1. N = 2 /\ s[1].key = Zipped /\ s[1].value = Value("String", "zstd") /\ s[2].key = "network_zstd_compression_level"
    BY <1>4, CompressionIs DEF Zipped
  <2>2. Meaning(to_string(Value("String", "zstd"))) = "zstd"
    BY DEF Meaning, to_string, Value
  <2> HIDE DEF N, s
  <2>3. /\ \A i \in 1..Len(cp) : \E j \in 1..N : cp[i][1] = s[j].key /\ cp[i][2] = Meaning(to_string(s[j].value))
        /\ \A j \in 1..N : j \notin {} => \E i \in 1..Len(cp) : cp[i][1] = s[j].key
    <3>1. N \in Nat
      BY <2>1
    <3> QED
      <4>1. \A i \in 1..Len(cp) : \E j \in 1..N : /\ j \notin {} /\ cp[i][1] = s[j].key
                                                   /\ cp[i][2] = Meaning(to_string(s[j].value))
        BY <1>1, <3>1, PairsTell
      <4> DEFINE none == {}
      <4>2. PairsOf(s, none, N, cp)
        BY <1>1
      <4>3. \A j : j \notin none
        OBVIOUS
      <4> HIDE DEF none
      <4>4. \A j \in 1..N : j \notin none => \E i \in 1..Len(cp) : cp[i][1] = s[j].key
        <5>1. \A j \in 1..N : j \notin none => \E i \in 1..Len(cp) : cp[i] = PairOf(s[j])
          BY <4>2 DEF PairsOf
        <5>2. ASSUME NEW j \in 1..N, j \notin none
              PROVE  \E i \in 1..Len(cp) : cp[i][1] = s[j].key
          <6>1. PICK i \in 1..Len(cp) : cp[i] = PairOf(s[j])
            BY <5>1, <5>2
          <6>2. PairOf(s[j])[1] = s[j].key
            BY DEF PairOf
          <6> QED
            BY <6>1, <6>2, Zenon
        <5> QED
          BY <5>2
      <4> QED
        BY <4>1, <4>3, <4>4, Zenon
  <2>4. \A j \in 1..N : j = 1 \/ j = 2
    BY <2>1
  <2>5. 1 \in 1..N
    BY <2>1
  <2>6. Zipped # "network_zstd_compression_level" /\ Zipped \in Compressing /\ "network_zstd_compression_level" \in Compressing
    BY DEF Zipped, Compressing
  <2>7. \E i \in 1..Len(cp) : cp[i][1] = Zipped
    BY <2>1, <2>3, <2>5, Zenon
  <2>8. ASSUME NEW i \in 1..Len(cp)
        PROVE  cp[i][1] \in Compressing /\ (cp[i][1] = Zipped => cp[i][2] = "zstd")
    <3>1. PICK j \in 1..N : cp[i][1] = s[j].key /\ cp[i][2] = Meaning(to_string(s[j].value))
      BY <2>3
    <3>2. CASE j = 1
      BY <2>1, <2>2, <2>6, <3>1, <3>2, Zenon
    <3>3. CASE j = 2
      BY <2>1, <2>6, <3>1, <3>3, Zenon
    <3> QED
      BY <2>4, <3>2, <3>3
  <2> QED
    BY <1>4, <2>7, <2>8
<1> QED
  BY <1>3, <1>4

\* The pairs of a query: how it is compressed, and the settings that are not left out.
OwnTold(q, ignore, pairs) ==
    q.settings # <<>> =>
       \A j \in 1..Len(q.settings[1]) :
          LET s == q.settings[1][j]
          IN IF j \in Skips(q.settings[1], ignore) THEN s.key \notin Names(pairs)
             ELSE s.key \in Names(pairs) /\ \A i \in 1..Len(pairs) : pairs[i][1] = s.key => pairs[i][2] = Meaning(to_string(s.value))

\* What a query carries of its own settings is what they say, each named once.
LEMMA OwnAreTold ==
  ASSUME NEW q \in Asks, NEW ignore, NEW sp, IsSeq(sp), OwnPairs(q, ignore, sp)
  PROVE  /\ OwnTold(q, ignore, sp)
         /\ \A i \in 1..Len(sp) : sp[i][1] \in SettingNames
<1>1. CASE q.settings = <<>>
  <2>1. sp = <<>> /\ Len(sp) = 0
    BY <1>1 DEF OwnPairs
  <2> QED
    BY <1>1, <2>1 DEF OwnTold
<1>2. CASE q.settings # <<>>
  <2> DEFINE s == q.settings[1]
             N == Len(s)
             skips == Skips(s, ignore)
  <2>1. N \in Nat /\ (\A i \in 1..N : s[i].key \in SettingNames) /\ \A i, j \in 1..N : s[i].key = s[j].key => i = j
    BY <1>2, AskIs
  <2>2. PairsOf(s, skips, N, sp)
    BY <1>2 DEF OwnPairs
  <2> HIDE DEF s, skips, N
  <2>3. /\ \A i \in 1..Len(sp) : \E j \in 1..N : j \notin skips /\ sp[i][1] = s[j].key
                                                 /\ sp[i][2] = Meaning(to_string(s[j].value))
        /\ \A j \in 1..N : j \notin skips => \E i \in 1..Len(sp) : sp[i][1] = s[j].key
    BY <2>1, <2>2, PairsTell
  <2>4. \A i \in 1..Len(sp) : sp[i][1] \in SettingNames
    BY <2>1, <2>3
  <2>5. ASSUME NEW j \in 1..N
        PROVE  IF j \in skips THEN s[j].key \notin Names(sp)
               ELSE s[j].key \in Names(sp) /\ \A i \in 1..Len(sp) : sp[i][1] = s[j].key => sp[i][2] = Meaning(to_string(s[j].value))
    <3>1. ASSUME NEW i \in 1..Len(sp), sp[i][1] = s[j].key
          PROVE  j \notin skips /\ sp[i][2] = Meaning(to_string(s[j].value))
      <4>1. PICK k \in 1..N : k \notin skips /\ sp[i][1] = s[k].key /\ sp[i][2] = Meaning(to_string(s[k].value))
        BY <2>3
      <4>2. k = j
        BY <2>1, <3>1, <4>1
      <4> QED
        BY <4>1, <4>2, Zenon
    <3>2. j \in skips => s[j].key \notin Names(sp)
      BY <3>1 DEF Names
    <3>3. j \notin skips => s[j].key \in Names(sp)
      <4> SUFFICES ASSUME j \notin skips PROVE s[j].key \in Names(sp)
        OBVIOUS
      <4>1. PICK i \in 1..Len(sp) : sp[i][1] = s[j].key
        BY <2>3
      <4> QED
        BY <4>1, Zenon DEF Names
    <3> QED
      BY <3>1, <3>2, <3>3
  <2> QED
    BY <2>4, <2>5 DEF OwnTold, s, N, skips
<1> QED
  BY <1>1, <1>2

\* So is what it carries in all, and it names the compression only for ZSTD.
LEMMA AskedTold ==
  ASSUME NEW q \in Asks, NEW m \in Methods, NEW ignore, NEW pairs, AskedPairs(q, m, ignore, pairs)
  PROVE  /\ IsSeq(pairs) /\ OwnTold(q, ignore, pairs)
         /\ m # "ZSTD" => Zipped \notin Names(pairs)
         /\ m = "ZSTD" => Zipped \in Names(pairs) /\ \A i \in 1..Len(pairs) : pairs[i][1] = Zipped => pairs[i][2] = "zstd"
<1>1. PICK cp, sp : IsSeq(cp) /\ IsSeq(sp) /\ pairs = cp \o sp /\ CompressionPairs(m, cp) /\ OwnPairs(q, ignore, sp)
  BY DEF AskedPairs
<1>2. /\ m # "ZSTD" => Len(cp) = 0
      /\ m = "ZSTD" => /\ \E i \in 1..Len(cp) : cp[i][1] = Zipped
                       /\ \A i \in 1..Len(cp) : cp[i][1] = Zipped => cp[i][2] = "zstd"
      /\ \A i \in 1..Len(cp) : cp[i][1] \in Compressing
  BY <1>1, CompressionTold
<1>3. OwnTold(q, ignore, sp) /\ \A i \in 1..Len(sp) : sp[i][1] \in SettingNames
  BY <1>1, OwnAreTold
<1>4. Zipped \in Compressing /\ (\A k \in SettingNames : k \notin Compressing)
  BY DEF Zipped, Compressing, SettingNames
<1>5. IsSeq(cp) /\ IsSeq(sp)
  BY <1>1
<1>6. /\ IsSeq(pairs) /\ Len(cp) \in Nat /\ Len(sp) \in Nat /\ Len(pairs) = Len(cp) + Len(sp)
      /\ (\A i \in 1..Len(cp) : pairs[i] = cp[i]) /\ \A i \in 1..Len(sp) : pairs[Len(cp) + i] = sp[i]
  <2> DEFINE c == cp \o sp
  <2>1. /\ IsSeq(c) /\ Len(cp) \in Nat /\ Len(sp) \in Nat /\ Len(c) = Len(cp) + Len(sp)
        /\ (\A i \in 1..Len(cp) : c[i] = cp[i]) /\ \A i \in 1..Len(sp) : c[Len(cp) + i] = sp[i]
    BY <1>5, Concatenation
  <2> QED
    BY <1>1, <2>1, Zenon
<1>7. /\ \A i \in 1..Len(cp) : i \in 1..Len(pairs) 
      /\ \A i \in 1..Len(sp) : Len(cp) + i \in 1..Len(pairs)
      /\ \A i \in 1..Len(pairs) : i \in 1..Len(cp) \/ \E j \in 1..Len(sp) : i = Len(cp) + j
  <2>1. ASSUME NEW i \in 1..Len(pairs), i \notin 1..Len(cp)
        PROVE  \E j \in 1..Len(sp) : i = Len(cp) + j
    <3>1. i - Len(cp) \in 1..Len(sp) /\ i = Len(cp) + (i - Len(cp))
      BY <1>6, <2>1
    <3> QED
      BY <3>1
  <2> QED
    BY <1>6, <2>1
<1>8. \A i \in 1..Len(pairs) : \/ i \in 1..Len(cp) /\ pairs[i] = cp[i]
                               \/ \E j \in 1..Len(sp) : pairs[i] = sp[j]
  BY <1>6, <1>7, Zenon
<1>9. Names(pairs) = Names(cp) \union Names(sp)
  <2>1. ASSUME NEW x \in Names(pairs)
        PROVE  x \in Names(cp) \union Names(sp)
    BY <1>8 DEF Names
  <2>2. ASSUME NEW x \in Names(cp)
        PROVE  x \in Names(pairs)
    BY <1>6, <1>7 DEF Names
  <2>3. ASSUME NEW x \in Names(sp)
        PROVE  x \in Names(pairs)
    <3>1. PICK i \in 1..Len(sp) : x = sp[i][1]
      BY DEF Names
    <3>2. Len(cp) + i \in 1..Len(pairs) /\ pairs[Len(cp) + i][1] = x
      BY <1>6, <1>7, <3>1
    <3> QED
      BY <3>2 DEF Names
  <2> QED
    BY <2>1, <2>2, <2>3
<1>10. /\ \A x \in Names(cp) : x \in Compressing
       /\ \A x \in Names(sp) : x \in SettingNames
  BY <1>2, <1>3 DEF Names
<1>11. Zipped \notin Names(sp)
  BY <1>4, <1>10
<1>12. m # "ZSTD" => Zipped \notin Names(pairs)
  <2>1. m # "ZSTD" => Names(cp) = {}
    BY <1>2 DEF Names
  <2> QED
    BY <1>9, <1>11, <2>1
<1>13. m = "ZSTD" => Zipped \in Names(pairs) /\ \A i \in 1..Len(pairs) : pairs[i][1] = Zipped => pairs[i][2] = "zstd"
  <2> SUFFICES ASSUME m = "ZSTD"
               PROVE  Zipped \in Names(pairs) /\ \A i \in 1..Len(pairs) : pairs[i][1] = Zipped => pairs[i][2] = "zstd"
    OBVIOUS
  <2>1. Zipped \in Names(cp)
    BY <1>2 DEF Names
  <2>2. ASSUME NEW i \in 1..Len(pairs), pairs[i][1] = Zipped
        PROVE  pairs[i][2] = "zstd"
    <3>1. CASE i \in 1..Len(cp) /\ pairs[i] = cp[i]
      BY <1>2, <2>2, <3>1, Zenon
    <3>2. CASE \E j \in 1..Len(sp) : pairs[i] = sp[j]
      <4>1. pairs[i][1] \in SettingNames
        BY <1>3, <3>2, Zenon
      <4> QED
        BY <1>4, <2>2, <4>1, Zenon
    <3> QED
      BY <1>8, <3>1, <3>2, Zenon
  <2> QED
    BY <1>9, <2>1, <2>2
<1>14. OwnTold(q, ignore, pairs)
  <2> SUFFICES ASSUME q.settings # <<>>, NEW j \in 1..Len(q.settings[1])
               PROVE  LET s == q.settings[1][j]
                      IN IF j \in Skips(q.settings[1], ignore) THEN s.key \notin Names(pairs)
                         ELSE s.key \in Names(pairs) /\ \A i \in 1..Len(pairs) : pairs[i][1] = s.key => pairs[i][2] = Meaning(to_string(s.value))
    BY Zenon DEF OwnTold
  <2> DEFINE s == q.settings[1][j]
             t == Meaning(to_string(s.value))
             skip == j \in Skips(q.settings[1], ignore)
  <2>1. s.key \in SettingNames
    BY AskIs
  <2>2. IF skip THEN s.key \notin Names(sp)
        ELSE s.key \in Names(sp) /\ \A i \in 1..Len(sp) : sp[i][1] = s.key => sp[i][2] = t
    BY <1>3, Zenon DEF OwnTold
  <2> HIDE DEF s, t, skip
  <2>3. s.key \notin Names(cp)
    BY <1>4, <1>10, <2>1
  <2>4. ASSUME NEW i \in 1..Len(pairs), pairs[i][1] = s.key, ~skip
        PROVE  pairs[i][2] = t
    <3>1. CASE i \in 1..Len(cp) /\ pairs[i] = cp[i]
      <4>1. s.key \in Names(cp)
        BY <2>4, <3>1 DEF Names
      <4> QED
        BY <2>3, <4>1
    <3>2. CASE \E k \in 1..Len(sp) : pairs[i] = sp[k]
      BY <2>2, <2>4, <3>2, Zenon
    <3> QED
      BY <1>8, <3>1, <3>2, Zenon
  <2>5. IF skip THEN s.key \notin Names(pairs)
        ELSE s.key \in Names(pairs) /\ \A i \in 1..Len(pairs) : pairs[i][1] = s.key => pairs[i][2] = t
    BY <1>9, <2>2, <2>3, <2>4
  <2> QED
    BY <2>5 DEF s, t, skip
<1> QED
  BY <1>6, <1>12, <1>13, <1>14

\* A server compresses as the client does.
LEMMA MethodAgrees ==
  ASSUME NEW q \in Asks, NEW m \in Methods, NEW ignore, NEW pairs, AskedPairs(q, m, ignore, pairs),
         NEW settings, Zipped \notin DOMAIN settings
  PROVE  ServerMethod(m # "None", Apply(settings, pairs)) = m
<1> DEFINE a == Apply(settings, pairs)
<1>1. /\ IsSeq(pairs)
      /\ m # "ZSTD" => Zipped \notin Names(pairs)
      /\ m = "ZSTD" => Zipped \in Names(pairs) /\ \A i \in 1..Len(pairs) : pairs[i][1] = Zipped => pairs[i][2] = "zstd"
  BY AskedTold
<1>2. /\ DOMAIN a = DOMAIN settings \union Names(pairs)
      /\ \A k \in Names(pairs) : \E i \in 1..Len(pairs) : pairs[i][1] = k /\ a[k] = pairs[i][2]
  BY <1>1, ApplyGives
<1> HIDE DEF a
<1>3. m = "ZSTD" => Zipped \in DOMAIN a /\ a[Zipped] = "zstd"
  BY <1>1, <1>2
<1>4. m # "ZSTD" => Zipped \notin DOMAIN a
  BY <1>1, <1>2
<1>5. m \in {"None", "LZ4", "ZSTD"}
  BY DEF Methods
<1>6. ServerMethod(m # "None", a) = m
  BY <1>3, <1>4, <1>5 DEF ServerMethod, Zipped
<1> QED
  BY <1>6 DEF a

\* A block without data is read as one, and what follows it is left.
DelimiterReads == \A rest : IsSeq(rest) => ReadsEmptyBlock(rest)

\* The delimiter is the block's packet in front of the block, or there is none.
LEMMA DelimiterIs ==
  ASSUME PeersMeet, hello.revision = Agreed
  PROVE  LET w == WriteNative(EmptyBlock, Agreed, options.compression)
         IN /\ IsSeq(w.out) /\ Delimiter.st = w.st /\ Delimiter.out = <<Var(2), Text("")>> \o w.out
            /\ IsSeq(Delimiter.out)
<1> DEFINE w == WriteNative(EmptyBlock, Agreed, options.compression)
           s == <<Var(2), Text("")>>
           o == w.out
<1>1. Agreed \in CHUNKED_PACKETS..DBMS_TCP_PROTOCOL_VERSION /\ options.compression \in Methods
  <2>1. CHUNKED_PACKETS \in Int /\ DBMS_TCP_PROTOCOL_VERSION \in Int
    BY DEF CHUNKED_PACKETS, DBMS_TCP_PROTOCOL_VERSION, VERSIONED_CLUSTER_FUNCTION
  <2> QED
    BY <2>1, AgreedIs, PeerIs
<1>2. Len(o) \in Nat /\ o = [i \in 1..Len(o) |-> o[i]]
  BY <1>1, WriterAssumption, Zenon
<1>3. IsSeq(o)
  <2> HIDE DEF o
  <2> QED
    BY <1>2, ListIsSeq
<1>4. Delimiter = WThen(Wrote(s), w)
  BY Zenon DEF Delimiter, send_data
<1>5. s \in Seq({Var(2), Text("")})
  OBVIOUS
<1>6. IsSeq(s)
  BY <1>5 DEF IsSeq
<1> HIDE DEF s, w
<1>7. Wrote(s).st = "ok" /\ Wrote(s).out = s
  BY DEF Wrote
<1>8. Delimiter.st = w.st /\ Delimiter.out = s \o o
  BY <1>4, <1>7, AfterIs
<1>9. IsSeq(s \o o)
  <2> HIDE DEF o
  <2> QED
    BY <1>3, <1>6, Concatenation
<1> QED
  BY <1>3, <1>8, <1>9 DEF s, w

\* The server reads the delimiter.
LEMMA DelimiterRead ==
  ASSUME PeersMeet, hello.revision = Agreed, Delimiter.st = "ok", DelimiterReads, NEW rest, IsSeq(rest)
  PROVE  \E wire : /\ ReadNum(VAR, Delimiter.out \o rest) = Ok(2, wire)
                   /\ read_data(Agreed, options.compression, wire) = Ok(<<>>, rest)
<1> DEFINE m == options.compression
           w == WriteNative(EmptyBlock, Agreed, m)
           o == w.out
           c1 == Var(2)
           c2 == Text("")
           W2 == o \o rest
           W1 == <<c2>> \o W2
           W == <<c1>> \o W1
<1>1. IsSeq(o) /\ w.st = "ok" /\ Delimiter.out = <<c1, c2>> \o o
  BY DelimiterIs
<1>2. Agreed \in CHUNKED_PACKETS..DBMS_TCP_PROTOCOL_VERSION /\ m \in Methods
  <2>1. CHUNKED_PACKETS \in Int /\ DBMS_TCP_PROTOCOL_VERSION \in Int
    BY DEF CHUNKED_PACKETS, DBMS_TCP_PROTOCOL_VERSION, VERSIONED_CLUSTER_FUNCTION
  <2> QED
    BY <2>1, AgreedIs, PeerIs
<1>3. ReadNative(Agreed, m, W2) = Ok(<<>>, rest)
  BY <1>1, <1>2, Zenon DEF DelimiterReads, ReadsEmptyBlock
<1>4. c1.w = VAR /\ c1.x = <<2>> /\ c2.w = STR
  BY DEF Var, Num, Text, Cell
<1>5. IsSeq(<<c1>>) /\ IsSeq(<<c2>>)
  BY PiecesAreSeqs
<1> HIDE DEF c1, c2
<1>6. Delimiter.out \o rest = W
  <2>1. <<c1, c2>> = <<c1>> \o <<c2>>
    <3> DEFINE s == <<c1, c2>>
               t == <<c1>> \o <<c2>>
    <3>1. /\ s \in Seq({c1, c2}) /\ t \in Seq({c1, c2}) /\ Len(s) = 2 /\ Len(t) = 2
          /\ s[1] = t[1] /\ s[2] = t[2]
      OBVIOUS
    <3> HIDE DEF s, t
    <3>2. \A i \in 1..Len(s) : i = 1 \/ i = 2
      BY <3>1
    <3>3. \A i \in 1..Len(s) : s[i] = t[i]
      BY <3>1, <3>2, Zenon
    <3>4. s = t
      BY <3>1, <3>3, SeqEqual
    <3> QED
      BY <3>4 DEF s, t
  <2> DEFINE a == <<c1>>
             b == <<c2>>
  <2>2. IsSeq(a) /\ IsSeq(b)
    BY <1>5
  <2>3. Delimiter.out = (a \o b) \o o
    BY <1>1, <2>1
  <2> HIDE DEF a, b, o
  <2>4. IsSeq(a \o b) /\ IsSeq(o)
    BY <1>1, <2>2, Concatenation
  <2> DEFINE ab == a \o b
  <2> HIDE DEF ab
  <2>5. (ab \o o) \o rest = ab \o W2
    BY <1>1, <2>4, Associates DEF ab
  <2>6. IsSeq(W2)
    BY <1>1, Concatenation
  <2> HIDE DEF W2
  <2>7. (a \o b) \o W2 = a \o (b \o W2)
    BY <2>2, <2>6, Associates
  <2> QED
    BY <2>3, <2>5, <2>7 DEF a, b, ab
<1>7. IsSeq(W2)
  <2> HIDE DEF o
  <2> QED
    BY <1>1, Concatenation
<1> HIDE DEF W2
<1>8. IsSeq(W1)
  <2> DEFINE b == <<c2>>
  <2>1. IsSeq(b)
    BY <1>5
  <2> HIDE DEF b
  <2>2. IsSeq(b \o W2)
    BY <1>7, <2>1, Concatenation
  <2> QED
    BY <2>2 DEF b
<1>9. ReadCell(STR, W1) = Ok(c2.x, W2)
  BY <1>4, <1>7, FirstRead
<1> HIDE DEF W1
<1>10. ReadCell(VAR, W) = Ok(<<2>>, W1)
  BY <1>4, <1>8, FirstRead
<1> HIDE DEF W
<1>11. ReadNum(VAR, W) = Ok(2, W1)
  BY <1>10 DEF ReadNum, Then, Ok
<1>12. read_data(Agreed, m, W1) = Ok(<<>>, rest)
  <2> DEFINE x == c2.x
  <2>1. ReadCell(STR, W1) = Ok(x, W2)
    BY <1>9
  <2> HIDE DEF x, m
  <2> QED
    BY <1>3, <2>1 DEF read_data, Then, Ok
<1> QED
  BY <1>6, <1>11, <1>12

\* What the two sides have settled about queries, and what comes after one.
Talk == [method |-> options.compression, ignore |-> hello.settings, revision |-> Agreed,
         out |-> Delimiter.out, st |-> Delimiter.st]

\* A query as it is on the stream, with the delimiter after it.
Sends(talk, q, cells) ==
    /\ IsSeq(cells) /\ q \in Asks
    /\ \E set, pairs : /\ Carries(set, pairs) /\ AskedPairs(q, talk.method, talk.ignore, pairs)
                       /\ \A b : IsSeq(b) => cells \o b = QueryWire(q, talk.method, talk.revision, set, talk.out \o b)

\* What the client talks by.
LEMMA TalkIs ==
  /\ Talk.method = options.compression /\ Talk.ignore = hello.settings /\ Talk.revision = Agreed
  /\ Talk.out = Delimiter.out /\ Talk.st = Delimiter.st
<1> DEFINE a == options.compression
           b == hello.settings
           c == Agreed
           d == Delimiter.out
           e == Delimiter.st
<1>1. Talk = [method |-> a, ignore |-> b, revision |-> c, out |-> d, st |-> e]
  BY Zenon DEF Talk
<1> HIDE DEF a, b, c, d, e
<1>2. Talk.method = a /\ Talk.ignore = b /\ Talk.revision = c /\ Talk.out = d /\ Talk.st = e
  BY <1>1
<1> QED
  BY <1>2 DEF a, b, c, d, e

\* A query that the client could write is on the stream as the server expects it.
LEMMA QuerySends ==
  ASSUME PeersMeet, hello.revision = Agreed, NEW q \in Asks,
         WThen(send_query(q, hello.revision, options.compression, hello.settings), Delimiter).st = "ok"
  PROVE  LET w == WThen(send_query(q, hello.revision, options.compression, hello.settings), Delimiter)
         IN Sends(Talk, q, w.out) /\ Delimiter.st = "ok"
<1> DEFINE m == options.compression
           s == send_query(q, Agreed, m, hello.settings)
           w == WThen(s, Delimiter)
           d == Delimiter.out
<1>1. w = WThen(send_query(q, hello.revision, options.compression, hello.settings), Delimiter)
  BY Zenon
<1>2. s.st = "ok" /\ Delimiter.st = "ok" /\ w.out = s.out \o d
  <2> HIDE DEF s
  <2> QED
    BY AfterIs DEF s
<1>3. m \in Methods /\ Agreed \in Nat /\ Agreed >= CHUNKED_PACKETS /\ IsSeq(d)
  BY PeerIs, AgreedIs, DelimiterIs
<1>4. IsSeq(s.out) /\ \E set, pairs : /\ Carries(set, pairs) /\ AskedPairs(q, m, hello.settings, pairs)
                                      /\ \A b : IsSeq(b) => s.out \o b = QueryWire(q, m, Agreed, set, b)
  <2> DEFINE ignore == hello.settings
             R == Agreed
  <2>1. send_query(q, R, m, ignore).st = "ok" /\ m \in Methods /\ R \in Nat /\ R >= CHUNKED_PACKETS
    BY <1>2, <1>3
  <2>2. /\ IsSeq(send_query(q, R, m, ignore).out)
        /\ \E set, pairs : /\ Carries(set, pairs) /\ AskedPairs(q, m, ignore, pairs)
                           /\ \A b : IsSeq(b) => send_query(q, R, m, ignore).out \o b = QueryWire(q, m, R, set, b)
    <3> HIDE DEF ignore, R, m
    <3> QED
      BY <2>1, QuerySent
  <2> QED
    BY <2>2
<1> HIDE DEF m, s
<1>5. PICK set, pairs : /\ Carries(set, pairs) /\ AskedPairs(q, m, hello.settings, pairs)
                        /\ \A b : IsSeq(b) => s.out \o b = QueryWire(q, m, Agreed, set, b)
  BY <1>4
<1> DEFINE o == s.out
<1>6. IsSeq(o) /\ \A b : IsSeq(b) => o \o b = QueryWire(q, m, Agreed, set, b)
  BY <1>4, <1>5
<1>7. w.out = o \o d
  BY <1>2
<1> HIDE DEF o, d
<1>8. IsSeq(o \o d)
  BY <1>3, <1>6, Concatenation
<1>9. ASSUME NEW b, IsSeq(b)
      PROVE  (o \o d) \o b = QueryWire(q, m, Agreed, set, d \o b)
  <2>1. (o \o d) \o b = o \o (d \o b)
    BY <1>3, <1>6, <1>9, Associates
  <2> DEFINE e == d \o b
  <2>2. IsSeq(e)
    BY <1>3, <1>9, Concatenation
  <2> HIDE DEF e
  <2>3. o \o e = QueryWire(q, m, Agreed, set, e)
    BY <1>6, <2>2, Zenon
  <2> QED
    BY <2>1, <2>3 DEF e
<1> DEFINE c == o \o d
<1>10. IsSeq(c) /\ \A b : IsSeq(b) => c \o b = QueryWire(q, m, Agreed, set, d \o b)
  BY <1>8, <1>9
<1> HIDE DEF c
<1>11. Sends(Talk, q, c)
  BY <1>5, <1>10, TalkIs DEF Sends, m, d
<1>12. Sends(Talk, q, w.out)
  BY <1>7, <1>11 DEF c
<1> QED
  BY <1>1, <1>2, <1>12

\* What the server runs is the query, with its settings in force.
Runs(q, settings, rest) ==
    Ok([method |-> options.compression, empty |-> TRUE, query |-> [query |-> q.query, settings |-> settings, params |-> <<>>]], rest)

\* The server reads it, with its delimiter, and what follows is left.
LEMMA QueryRuns ==
  ASSUME PeersMeet, hello.revision = Agreed, Delimiter.st = "ok", DelimiterReads, Zipped \notin DOMAIN session,
         NEW q, NEW cells, Sends(Talk, q, cells), NEW rest, IsSeq(rest)
  PROVE  \E pairs : /\ AskedPairs(q, options.compression, hello.settings, pairs)
                    /\ Then(ServerReadsQuery(cells \o rest), Delimited) = Runs(q, Apply(session, pairs), rest)
<1> DEFINE m == options.compression
           d == Delimiter.out
           D == d \o rest
<1>1. PICK set, pairs : /\ Carries(set, pairs) /\ AskedPairs(q, m, hello.settings, pairs)
                        /\ \A b : IsSeq(b) => cells \o b = QueryWire(q, m, Agreed, set, d \o b)
  <2> HIDE DEF m, d
  <2> QED
    BY TalkIs DEF Sends, m, d
<1>2. cells \o rest = QueryWire(q, m, Agreed, set, D)
  BY <1>1
<1>3. IsSeq(D)
  <2>1. IsSeq(d)
    BY DelimiterIs
  <2> HIDE DEF d
  <2> QED
    BY <2>1, Concatenation
<1>4. PICK wire : ReadNum(VAR, D) = Ok(2, wire) /\ read_data(Agreed, m, wire) = Ok(<<>>, rest)
  BY DelimiterRead
<1> HIDE DEF D
<1> DEFINE x == QueryMeant(q, m, pairs)
           W == cells \o rest
<1>5. ServerReadsQuery(W) = Ok(x, D)
  BY <1>1, <1>2, <1>3, QueryReads
<1>6. x.query = q.query /\ x.compression = (m # "None") /\ x.settings = pairs /\ x.params = <<>>
  BY DEF QueryMeant
<1>7. q \in Asks /\ m \in Methods
  BY PeerIs DEF Sends
<1>8. ServerMethod(x.compression, Apply(session, x.settings)) = m
  BY <1>1, <1>6, <1>7, MethodAgrees
<1> HIDE DEF m, x
<1> DEFINE force == Apply(session, x.settings)
           sm == ServerMethod(x.compression, force)
           F(b) == [method |-> m, empty |-> b = <<>>, query |-> [query |-> x.query, settings |-> force, params |-> x.params]]
           G(r1) == Then(read_data(Agreed, m, r1), LAMBDA b, r2 : Ok(F(b), r2))
<1>9. Delimited(x, D) = Then(ReadNum(VAR, D), LAMBDA id, r1 : G(r1))
  <2>1. Delimited(x, D) = Then(ReadNum(VAR, D), LAMBDA id, r1 :
                            Then(read_data(Agreed, sm, r1), LAMBDA b, r2 :
                              Ok([method |-> sm, empty |-> b = <<>>, query |-> [query |-> x.query, settings |-> force, params |-> x.params]], r2)))
    BY Zenon DEF Delimited
  <2> DEFINE H(k) == Then(ReadNum(VAR, D), LAMBDA id, r1 :
                       Then(read_data(Agreed, k, r1), LAMBDA b, r2 :
                         Ok([method |-> k, empty |-> b = <<>>, query |-> [query |-> x.query, settings |-> force, params |-> x.params]], r2)))
  <2>2. Delimited(x, D) = H(sm)
    BY <2>1, Zenon
  <2>3. sm = m
    BY <1>8
  <2>4. H(sm) = H(m)
    <3> HIDE DEF H, sm
    <3> QED
      BY <2>3
  <2>5. H(m) = Then(ReadNum(VAR, D), LAMBDA id, r1 : G(r1))
    BY Zenon
  <2> HIDE DEF H, G
  <2> QED
    BY <2>2, <2>4, <2>5
<1>10. G(wire) = Ok(F(<<>>), rest)
  <2> DEFINE r == read_data(Agreed, m, wire)
  <2>1. r = Ok(<<>>, rest)
    BY <1>4
  <2> HIDE DEF r, F
  <2>2. Then(r, LAMBDA b, r2 : Ok(F(b), r2)) = Ok(F(<<>>), rest)
    BY <2>1 DEF Then, Ok
  <2> QED
    BY <2>2 DEF r
<1>11. Delimited(x, D) = Ok(F(<<>>), rest)
  <2> DEFINE r == ReadNum(VAR, D)
  <2>1. r = Ok(2, wire)
    BY <1>4
  <2> HIDE DEF r, G, F
  <2>2. Then(r, LAMBDA id, r1 : G(r1)) = G(wire)
    BY <2>1 DEF Then, Ok
  <2> QED
    BY <1>9, <1>10, <2>2 DEF r
<1>12. Then(ServerReadsQuery(W), Delimited) = Delimited(x, D)
  <2> HIDE DEF W
  <2> QED
    BY <1>5 DEF Then, Ok
<1>13. Ok(F(<<>>), rest) = Runs(q, Apply(session, pairs), rest)
  <2>1. F(<<>>) = [method |-> m, empty |-> TRUE, query |-> [query |-> q.query, settings |-> Apply(session, pairs), params |-> <<>>]]
    BY <1>6
  <2> HIDE DEF F
  <2> QED
    BY <2>1 DEF Runs, m
<1> QED
  BY <1>1, <1>11, <1>12, <1>13 DEF m

-----------------------------------------------------------------------------
(* How far the two sides are with each other.                              *)
\* Before the server has read the client's hello.
Apart ==
    /\ link = "start" => srv = "hello"
    /\ srv = "hello" => /\ link \in {"start", "hello"} /\ hello = <<>> /\ toClient = <<>>
                        /\ toServer = IF link = "start" THEN <<>> ELSE send_hello(options)

\* Before the client has read the server's.
Answered ==
    link = "hello" /\ srv # "hello" =>
       /\ srv = (IF server.refuses THEN "refused" ELSE "addendum")
       /\ toClient = (IF server.refuses THEN Denied ELSE ServerHello)

\* A client without the server's hello asks nothing.
Unmet ==
    hello = <<>> => /\ link \notin {"idle", "header", "progress"} /\ asked = <<>> /\ framed = <<>>
                    /\ srv \in {"hello", "refused", "addendum"} /\ (srv # "hello" => toServer = <<>>)

\* With it the modes are settled, and the addendum is the first that the server reads: only
\* one that sends otherwise than it receives may refuse it.
Met ==
    hello # <<>> =>
       /\ Settled /\ hello.revision = Agreed
       /\ hello.chunked_send = SettledModes[1] /\ hello.chunked_recv = SettledModes[2]
       /\ link \notin {"start", "hello"} /\ srv \in {"addendum", "refused", "ready", "running", "torn"}
       /\ srv = "addendum" => framed = <<>> /\ \E tail : IsSeq(tail) /\ toServer = send_addendum(hello) \o tail
       /\ srv = "refused" => framed = <<>> /\ server.send # server.recv
       /\ srv \in {"ready", "running", "torn"} =>
             framed = [in |-> supports_chunked_send(hello), out |-> supports_chunked_recv(hello)]

\* The invariant of the handshake.
Meeting == PeersMeet /\ Apart /\ Answered /\ Unmet /\ Met

\* It holds at the start.
LEMMA InitMeeting == SessionInit => Meeting
<1> SUFFICES ASSUME SessionInit PROVE Meeting
  OBVIOUS
<1>1. PeersMeet
  BY Zenon DEF SessionInit, PeersMeet
<1>2. link = "start" /\ srv = "hello" /\ hello = <<>> /\ toClient = <<>> /\ toServer = <<>> /\ asked = <<>> /\ framed = <<>>
  BY DEF SessionInit
<1> QED
  BY <1>1, <1>2 DEF Meeting, Apart, Answered, Unmet, Met

\* The peers stay who they are.
LEMMA PeersStay ==
  ASSUME PeersMeet, UNCHANGED <<options, server>>
  PROVE  PeersMeet' /\ Agreed' = Agreed /\ (Settled' <=> Settled) /\ SettledModes' = SettledModes
BY DEF PeersMeet, Agreed, Settled, SettledModes

\* The modes that are settled are not optional, and keep to what either side insists on.
LEMMA SettledKeep ==
  ASSUME PeersMeet, Settled
  PROVE  /\ SettledModes[1] \in {"chunked", "notchunked"} /\ SettledModes[2] \in {"chunked", "notchunked"}
         /\ ~IsOptional(server.send) => IsChunked(SettledModes[1]) = IsChunked(server.send)
         /\ ~IsOptional(server.recv) => IsChunked(SettledModes[2]) = IsChunked(server.recv)
         /\ ~IsOptional(options.ext.chunked_send) => IsChunked(SettledModes[1]) = IsChunked(options.ext.chunked_send)
         /\ ~IsOptional(options.ext.chunked_recv) => IsChunked(SettledModes[2]) = IsChunked(options.ext.chunked_recv)
<1> DEFINE s == negotiate(server.send, options.ext.chunked_send)
           c == negotiate(server.recv, options.ext.chunked_recv)
<1>1. s.st = "ok" /\ c.st = "ok" /\ SettledModes = <<s.v, c.v>>
  BY DEF Settled, SettledModes
<1>2. /\ s.st = "ok" => /\ s.v \in {"chunked", "notchunked"}
                        /\ ~IsOptional(server.send) => IsChunked(s.v) = IsChunked(server.send)
                        /\ ~IsOptional(options.ext.chunked_send) => IsChunked(s.v) = IsChunked(options.ext.chunked_send)
      /\ c.st = "ok" => /\ c.v \in {"chunked", "notchunked"}
                        /\ ~IsOptional(server.recv) => IsChunked(c.v) = IsChunked(server.recv)
                        /\ ~IsOptional(options.ext.chunked_recv) => IsChunked(c.v) = IsChunked(options.ext.chunked_recv)
  BY PeerIs, Negotiates
<1> HIDE DEF s, c
<1>3. SettledModes[1] = s.v /\ SettledModes[2] = c.v
  BY <1>1
<1> QED
  BY <1>1, <1>2, <1>3

\* An exception is not a hello.
LEMMA DeniedRead == \A m : receive_hello(m, Denied).st # "ok"
<1> SUFFICES ASSUME NEW m PROVE receive_hello(m, Denied).st # "ok"
  OBVIOUS
<1> DEFINE c == Var(2)
           s == <<Num(4, 516), Text("E"), Text("denied"), Text("trace"), U8(0)>>
           d == <<Var(2), Num(4, 516), Text("E"), Text("denied"), Text("trace"), U8(0)>>
<1>1. ReadNum(VAR, d) = Ok(2, Tail(d))
  <2>1. d # <<>> /\ Head(d) = c
    OBVIOUS
  <2>2. c.w = VAR /\ c.x = <<2>>
    BY DEF Var, Num, Cell
  <2> HIDE DEF c, d
  <2>3. ReadCell(VAR, d) = Ok(<<2>>, Tail(d))
    BY <2>1, <2>2 DEF ReadCell
  <2> QED
    BY <2>3 DEF ReadNum, Then, Ok
<1> DEFINE rest == Tail(d)
           e == read_exception(rest)
<1> HIDE DEF rest
<1>2. receive_hello(m, d) = Then(e, LAMBDA v, rest2 : Fail("err", rest2))
  <2> HIDE DEF d, e
  <2>1. ReadNum(VAR, d) = Ok(2, rest)
    BY <1>1 DEF rest
  <2> QED
    BY <2>1 DEF receive_hello, Then, Ok, e
<1>3. Then(e, LAMBDA v, rest2 : Fail("err", rest2)).st # "ok"
  <2> HIDE DEF e
  <2> QED
    BY DEF Then, Fail
<1> QED
  BY <1>2, <1>3, Zenon DEF Denied

\* What a client has when it read a hello.
LEMMA HelloAnswered ==
  ASSUME PeersMeet, NEW r, r = receive_hello(OwnModes, IF server.refuses THEN Denied ELSE ServerHello), r.st = "ok"
  PROVE  /\ ~server.refuses /\ Settled /\ r.v # <<>> /\ r.v.revision = Agreed
         /\ r.v.chunked_send = SettledModes[1] /\ r.v.chunked_recv = SettledModes[2]
<1>1. ~server.refuses /\ r = receive_hello(OwnModes, ServerHello)
  BY DeniedRead
<1>2. IF Settled THEN r = HelloTail(SettledModes, HelloRest) ELSE r.st = "err"
  BY <1>1, HelloReceived, Zenon
<1>3. Settled /\ r = HelloTail(SettledModes, HelloRest)
  BY <1>2
<1> QED
  BY <1>1, <1>3, HelloHolds, Zenon

\* The addendum says what was settled, and a server with one mode accepts it.
LEMMA AddendumTaken ==
  ASSUME Meeting, SrvAddendum, NEW tail, IsSeq(tail), toServer = send_addendum(hello) \o tail
  PROVE  /\ srv' \in {"ready", "refused"} /\ toServer' = tail
         /\ srv' = "refused" => framed' = framed /\ server.send # server.recv
         /\ srv' = "ready" => framed' = [in |-> supports_chunked_send(hello), out |-> supports_chunked_recv(hello)]
<1>1. PeersMeet /\ srv = "addendum" /\ toServer # <<>>
  BY DEF Meeting, SrvAddendum
<1>2. hello # <<>>
  BY <1>1 DEF Meeting, Unmet
<1>3. Settled /\ hello.revision = Agreed /\ hello.chunked_send = SettledModes[1] /\ hello.chunked_recv = SettledModes[2]
  BY <1>2 DEF Meeting, Met
<1> DEFINE r == ReadLayout(AddendumLayout, Agreed, toServer)
           s == hello.chunked_send
           c == hello.chunked_recv
           takes(own, asks) == IF IsOptional(own) THEN IsChunked(asks) ELSE IsChunked(own)
           clash(own, asks) == ~IsOptional(own) /\ IsChunked(own) # IsChunked(asks)
<1>5. r.st = "ok" /\ r.rest = tail /\ r.v["send"] = Text(s).x /\ r.v["recv"] = Text(c).x
  <2> DEFINE x == ReadLayout(AddendumLayout, hello.revision, send_addendum(hello) \o tail)
  <2>1. hello.revision \in Nat /\ hello.revision >= CHUNKED_PACKETS
    BY <1>1, <1>3, AgreedIs
  <2>2. x.st = "ok" /\ x.rest = tail /\ x.v["send"] = Text(s).x /\ x.v["recv"] = Text(c).x
    BY <2>1, AddendumReads
  <2>3. x = r
    BY <1>3, Zenon
  <2> HIDE DEF x, r
  <2> QED
    BY <2>2, <2>3
<1>6. s \in Modes /\ c \in Modes
  BY <1>1, <1>3, SettledKeep DEF Modes
<1>7. r.v["send"][1] = s /\ r.v["recv"][1] = c
  BY <1>5, <1>6, ModeRead
<1>8. /\ ~IsOptional(server.send) => IsChunked(s) = IsChunked(server.send)
      /\ ~IsOptional(server.recv) => IsChunked(c) = IsChunked(server.recv)
  BY <1>1, <1>3, SettledKeep
<1>9. /\ ~clash(server.recv, s) => takes(server.recv, s) = IsChunked(s)
      /\ ~clash(server.send, c) => takes(server.send, c) = IsChunked(c)
      /\ clash(server.recv, s) \/ clash(server.send, c) => server.send # server.recv
  BY <1>8
<1>10. /\ IF r.st = "ok"
          THEN IF clash(server.recv, r.v["send"][1]) \/ clash(server.send, r.v["recv"][1])
               THEN srv' = "refused" /\ UNCHANGED framed
               ELSE /\ srv' = "ready"
                    /\ framed' = [in |-> takes(server.recv, r.v["send"][1]), out |-> takes(server.send, r.v["recv"][1])]
          ELSE srv' = "torn" /\ UNCHANGED framed
       /\ toServer' = r.rest
  BY Zenon DEF SrvAddendum
<1> HIDE DEF r, takes, clash
<1>11. CASE clash(server.recv, s) \/ clash(server.send, c)
  BY <1>5, <1>7, <1>9, <1>10, <1>11
<1>12. CASE ~(clash(server.recv, s) \/ clash(server.send, c))
  <2>1. srv' = "ready" /\ framed' = [in |-> IsChunked(s), out |-> IsChunked(c)] /\ toServer' = tail
    BY <1>5, <1>7, <1>9, <1>10, <1>12
  <2> QED
    BY <2>1 DEF supports_chunked_send, supports_chunked_recv
<1> QED
  BY <1>11, <1>12

\* Nothing joins a sequence.
LEMMA JoinsNothing ==
  ASSUME NEW a, IsSeq(a)
  PROVE  <<>> \o a = a /\ a \o <<>> = a
<1>1. PICK S : a \in Seq(S)
  BY DEF IsSeq
<1> QED
  BY <1>1

\* The client's hello is a sequence.
LEMMA HelloIsSeq == \A o : IsSeq(send_hello(o))
<1> SUFFICES ASSUME NEW o PROVE IsSeq(send_hello(o))
  OBVIOUS
<1>1. send_hello(o) \in Seq({Var(0), Text("ClickHouseArrow Rust"), Var(1), Var(DBMS_TCP_PROTOCOL_VERSION),
                             Text(o.database), Text(o.username), Text(o.password)})
  BY DEF send_hello
<1> QED
  BY <1>1 DEF IsSeq

\* The client says hello.
LEMMA SendHelloMeeting ==
  ASSUME Meeting, SendHello
  PROVE  Meeting'
<1>1. /\ link = "start" /\ link' = "hello" /\ toServer' = toServer \o send_hello(options)
      /\ UNCHANGED <<options, server, hello, asked, srv, framed, toClient>>
  BY DEF SendHello, srvVars
<1>2. PeersMeet' /\ srv = "hello" /\ toServer = <<>> /\ hello = <<>> /\ toClient = <<>>
  BY <1>1, PeersStay DEF Meeting, Apart
<1>3. toServer' = send_hello(options)
  <2> DEFINE a == send_hello(options)
  <2>1. toServer' = <<>> \o a
    BY <1>1, <1>2
  <2>2. IsSeq(a)
    BY HelloIsSeq
  <2> HIDE DEF a
  <2>3. <<>> \o a = a
    BY <2>2, JoinsNothing
  <2> QED
    BY <2>1, <2>3 DEF a
<1>4. send_hello(options)' = send_hello(options)
  BY <1>1 DEF send_hello
<1>5. Apart'
  BY <1>1, <1>2, <1>3, <1>4 DEF Apart
<1>6. Answered' /\ Met'
  BY <1>1, <1>2 DEF Answered, Met
<1>7. Unmet'
  BY <1>1, <1>2 DEF Meeting, Unmet
<1> QED
  BY <1>2, <1>5, <1>6, <1>7 DEF Meeting

\* The client reads the server's hello and settles on the modes, or leaves.
LEMMA RecvHelloMeeting ==
  ASSUME Meeting, RecvHello
  PROVE  /\ Meeting' /\ hello = <<>>
         /\ hello' # <<>> => toServer' = send_addendum(hello') \o <<>> /\ srv' = "addendum"
<1> DEFINE r == receive_hello(OwnModes, toClient)
<1>1. /\ link = "hello" /\ toClient # <<>>
      /\ IF r.st = "ok"
         THEN /\ hello' = r.v /\ link' = "idle"
              /\ toServer' = IF r.v.revision >= ADDENDUM THEN toServer \o send_addendum(r.v) ELSE toServer
         ELSE link' = (IF r.st = "torn" THEN "torn" ELSE "failed") /\ UNCHANGED <<hello, toServer>>
      /\ UNCHANGED <<options, server, asked, srv, framed>>
  BY Zenon DEF RecvHello, OwnModes, srvVars
<1>2. PeersMeet /\ (Settled' <=> Settled) /\ Agreed' = Agreed /\ SettledModes' = SettledModes /\ PeersMeet'
  BY <1>1, PeersStay DEF Meeting
<1>3. /\ srv # "hello" /\ hello = <<>> /\ toServer = <<>> /\ framed = <<>> /\ asked = <<>>
      /\ srv = (IF server.refuses THEN "refused" ELSE "addendum")
      /\ toClient = (IF server.refuses THEN Denied ELSE ServerHello)
  BY <1>1 DEF Meeting, Apart, Answered, Unmet, Met
<1>4. r = receive_hello(OwnModes, IF server.refuses THEN Denied ELSE ServerHello)
  BY <1>3, Zenon
<1> HIDE DEF r
<1>5. CASE r.st = "ok"
  <2>1. /\ ~server.refuses /\ Settled /\ r.v # <<>> /\ r.v.revision = Agreed
        /\ r.v.chunked_send = SettledModes[1] /\ r.v.chunked_recv = SettledModes[2]
    BY <1>2, <1>4, <1>5, HelloAnswered
  <2>2. hello' = r.v /\ link' = "idle" /\ srv' = "addendum" /\ framed' = <<>>
    BY <1>1, <1>3, <1>5, <2>1
  <2>3. r.v.revision >= ADDENDUM
    BY <1>2, <2>1, AgreedIs DEF ADDENDUM, CHUNKED_PACKETS
  <2> DEFINE a == send_addendum(hello')
  <2>4. IsSeq(a)
    <3> DEFINE h == hello'
    <3>1. h.revision \in Nat /\ h.revision >= CHUNKED_PACKETS
      BY <1>2, <2>1, <2>2, AgreedIs
    <3> HIDE DEF h
    <3>2. IsSeq(<<>>)
      BY PiecesAreSeqs
    <3> HIDE DEF a
    <3>3. IsSeq(send_addendum(h))
      BY <3>1, <3>2, AddendumReads
    <3> QED
      BY <3>3 DEF h, a
  <2>5. toServer' = a \o <<>> /\ IsSeq(<<>>)
    <3>1. toServer' = <<>> \o a
      BY <1>1, <1>3, <1>5, <2>2, <2>3
    <3> HIDE DEF a
    <3>2. PICK S : a \in Seq(S)
      BY <2>4 DEF IsSeq
    <3>3. <<>> \o a = a /\ a \o <<>> = a
      BY <3>2
    <3>4. IsSeq(<<>>)
      BY PiecesAreSeqs
    <3> QED
      BY <3>1, <3>3, <3>4
  <2>6. Met'
    BY <1>2, <2>1, <2>2, <2>5 DEF Met
  <2>7. Apart' /\ Answered' /\ Unmet'
    BY <2>1, <2>2 DEF Apart, Answered, Unmet
  <2> QED
    BY <1>2, <1>3, <2>2, <2>5, <2>6, <2>7 DEF Meeting
<1>6. CASE r.st # "ok"
  <2>1. link' \in {"torn", "failed"} /\ UNCHANGED <<hello, toServer>>
    BY <1>1, <1>6
  <2> QED
    BY <1>1, <1>2, <1>3, <2>1 DEF Meeting, Apart, Answered, Unmet, Met
<1> QED
  BY <1>5, <1>6

\* The client asks.
LEMMA SendQueryMeeting ==
  ASSUME Meeting, NEW q \in Asks, SendQuery(q)
  PROVE  Meeting'
<1> DEFINE w == WThen(send_query(q, hello.revision, options.compression, hello.settings), Delimiter)
<1>1. /\ link = "idle" /\ toServer' = IF w.st = "ok" THEN toServer \o w.out ELSE toServer
      /\ link' \in {"header", "aborted", "failed"}
      /\ UNCHANGED <<options, hello, server, srv, framed, toClient>>
  BY DEF SendQuery, srvVars
<1>2. hello # <<>>
  BY <1>1 DEF Meeting, Unmet
<1>3. PeersMeet /\ (Settled' <=> Settled) /\ Agreed' = Agreed /\ SettledModes' = SettledModes /\ PeersMeet'
  BY <1>1, PeersStay DEF Meeting
<1>4. hello.revision = Agreed
  BY <1>2 DEF Meeting, Met
<1>5. w.st = "ok" => IsSeq(w.out)
  BY <1>3, <1>4, QuerySends DEF Sends
<1> HIDE DEF w
<1>6. Apart' /\ Answered' /\ Unmet'
  BY <1>1, <1>2 DEF Apart, Answered, Unmet, Meeting, Met
<1>7. ASSUME NEW tail, IsSeq(tail), toServer = send_addendum(hello) \o tail
      PROVE  \E t : IsSeq(t) /\ toServer' = send_addendum(hello) \o t
  <2>1. CASE w.st = "ok"
    <3> DEFINE o == w.out
               a == send_addendum(hello)
    <3>1. IsSeq(o) /\ toServer' = toServer \o o
      BY <1>1, <1>5, <2>1
    <3>2. IsSeq(a)
      <4>1. hello.revision \in Nat /\ hello.revision >= CHUNKED_PACKETS
        BY <1>3, <1>4, AgreedIs
      <4> HIDE DEF a
      <4>2. IsSeq(send_addendum(hello))
        BY <1>7, <4>1, AddendumReads
      <4> QED
        BY <4>2 DEF a
    <3> HIDE DEF o, a
    <3>3. (a \o tail) \o o = a \o (tail \o o)
      BY <1>7, <3>1, <3>2, Associates
    <3>4. IsSeq(tail \o o)
      BY <1>7, <3>1, Concatenation
    <3>5. toServer' = (a \o tail) \o o
      BY <1>7, <3>1 DEF a
    <3> QED
      BY <3>3, <3>4, <3>5 DEF a
  <2>2. CASE w.st # "ok"
    BY <1>1, <1>7, <2>2
  <2> QED
    BY <2>1, <2>2
<1>8. Met'
  BY <1>1, <1>2, <1>3, <1>7 DEF Meeting, Met
<1> QED
  BY <1>3, <1>6, <1>8 DEF Meeting

\* The client reads a packet.
LEMMA RecvPacketMeeting ==
  ASSUME Meeting, RecvPacket
  PROVE  Meeting'
<1>1. /\ link \in {"header", "progress"} /\ link' \in {"failed", "torn", "progress", "idle", "header"}
      /\ UNCHANGED <<options, hello, server, srv, framed, asked, toServer>>
  BY DEF RecvPacket, srvVars
<1>2. hello # <<>>
  BY <1>1 DEF Meeting, Unmet
<1>3. PeersMeet' /\ (Settled' <=> Settled) /\ Agreed' = Agreed /\ SettledModes' = SettledModes
  BY <1>1, PeersStay DEF Meeting
<1> QED
  BY <1>1, <1>2, <1>3 DEF Meeting, Apart, Answered, Unmet, Met

\* The server reads the client's hello, and learns who it is.
LEMMA SrvHelloMeeting ==
  ASSUME Meeting, SrvHello
  PROVE  /\ Meeting'
         /\ LET r == ReadLayout(ClientHelloLayout, 0, toServer)
            IN /\ r.st = "ok" /\ r.v["database"] = Text(options.database).x /\ r.v["username"] = Text(options.username).x
               /\ r.v["password"] = Text(options.password).x
<1> DEFINE r == ReadLayout(ClientHelloLayout, 0, toServer)
           said == IF server.refuses THEN Denied ELSE ServerHello
<1>1. /\ srv = "hello" /\ toServer # <<>>
      /\ srv' = (CASE r.st # "ok" -> "torn" [] r.st = "ok" /\ server.refuses -> "refused" [] OTHER -> "addendum")
      /\ toClient' = toClient \o said /\ toServer' = r.rest
      /\ UNCHANGED <<options, link, hello, asked, server, framed>>
  BY DEF SrvHello, linkVars
<1>2. link = "hello" /\ hello = <<>> /\ toClient = <<>> /\ toServer = send_hello(options) /\ asked = <<>> /\ framed = <<>>
  BY <1>1 DEF Meeting, Apart, Unmet
<1>3. PeersMeet /\ PeersMeet'
  BY <1>1, PeersStay DEF Meeting
<1>4. r.st = "ok" /\ r.rest = <<>> /\ r.v["database"] = Text(options.database).x
      /\ r.v["username"] = Text(options.username).x /\ r.v["password"] = Text(options.password).x
  <2> DEFINE a == send_hello(options)
             e == <<>>
             x == ReadLayout(ClientHelloLayout, 0, a \o e)
  <2>1. IsSeq(e)
    BY PiecesAreSeqs
  <2>2. a \o <<>> = a
    <3>1. IsSeq(a)
      BY HelloIsSeq
    <3> HIDE DEF a
    <3> QED
      BY <3>1, JoinsNothing
  <2>3. x.st = "ok" /\ x.rest = e /\ x.v["database"] = Text(options.database).x
        /\ x.v["username"] = Text(options.username).x /\ x.v["password"] = Text(options.password).x
    <3> HIDE DEF e
    <3> QED
      BY <2>1, HelloReads
  <2>4. x = r
    BY <1>2, <2>2, Zenon
  <2> HIDE DEF x, r
  <2> QED
    BY <2>3, <2>4
<1> HIDE DEF r
<1>5. srv' = (IF server.refuses THEN "refused" ELSE "addendum") /\ toServer' = <<>>
  BY <1>1, <1>4
<1>6. toClient' = said /\ said' = said
  <2>1. said' = said
    <3>1. Agreed' = Agreed /\ server' = server
      BY <1>1, <1>3, PeersStay
    <3>2. ServerHello' = ServerHello /\ Denied' = Denied
      BY <3>1 DEF ServerHello, ServerSettings, Denied
    <3> QED
      BY <3>1, <3>2
  <2>2. IsSeq(said)
    <3>1. IsSeq(Denied)
      <4>1. Denied \in Seq({Var(2), Num(4, 516), Text("E"), Text("denied"), Text("trace"), U8(0)})
        BY DEF Denied
      <4> QED
        BY <4>1 DEF IsSeq
    <3>2. IsSeq(ServerHello)
      <4> DEFINE one == <<Var(0)>>
                 two == HelloStart
                 three == HelloVersion
                 four == HelloRest
      <4>1. IsSeq(two) /\ IsSeq(three) /\ IsSeq(four)
        BY <1>3, HelloParts
      <4>2. IsSeq(one)
        BY PiecesAreSeqs
      <4>3. ServerHello = one \o (two \o (three \o four))
        BY <1>3, ServerHelloIs
      <4> HIDE DEF one, two, three, four
      <4>4. IsSeq(two \o (three \o four))
        BY <4>1, Concatenation
      <4> DEFINE five == two \o (three \o four)
      <4> HIDE DEF five
      <4>5. IsSeq(one \o five)
        BY <4>2, <4>4, Concatenation DEF five
      <4> QED
        BY <4>3, <4>5 DEF five
    <3> QED
      BY <3>1, <3>2
  <2> HIDE DEF said
  <2>3. PICK S : said \in Seq(S)
    BY <2>2 DEF IsSeq
  <2>4. <<>> \o said = said
    BY <2>3
  <2> QED
    BY <1>1, <1>2, <2>1, <2>4
<1>7. Answered'
  <2>1. toClient' = said'
    BY <1>6
  <2> QED
    BY <1>1, <1>5, <2>1 DEF Answered
<1>8. Apart' /\ Unmet' /\ Met'
  BY <1>1, <1>2, <1>5 DEF Apart, Unmet, Met
<1> QED
  BY <1>3, <1>4, <1>7, <1>8 DEF Meeting, r

\* The server reads the addendum and takes the modes that the client settled on.
LEMMA SrvAddendumMeeting ==
  ASSUME Meeting, SrvAddendum
  PROVE  Meeting'
<1>1. UNCHANGED <<options, link, hello, asked, server, toClient>> /\ srv = "addendum"
  BY DEF SrvAddendum, linkVars
<1>2. /\ hello # <<>> /\ framed = <<>> /\ srv' \in {"ready", "refused"}
      /\ srv' = "refused" => framed' = framed /\ server.send # server.recv
      /\ srv' = "ready" => framed' = [in |-> supports_chunked_send(hello), out |-> supports_chunked_recv(hello)]
  <2>1. hello # <<>> /\ framed = <<>>
    BY <1>1 DEF Meeting, Unmet, Met, SrvAddendum
  <2>2. PICK tail : IsSeq(tail) /\ toServer = send_addendum(hello) \o tail
    BY <1>1, <2>1 DEF Meeting, Met
  <2> QED
    BY <2>1, <2>2, AddendumTaken
<1>3. PeersMeet' /\ (Settled' <=> Settled) /\ Agreed' = Agreed /\ SettledModes' = SettledModes
  BY <1>1, PeersStay DEF Meeting
<1>4. Met'
  BY <1>1, <1>2, <1>3 DEF Meeting, Met, supports_chunked_send, supports_chunked_recv
<1>5. Apart' /\ Answered' /\ Unmet'
  BY <1>1, <1>2 DEF Apart, Answered, Unmet, Meeting, Met
<1> QED
  BY <1>3, <1>4, <1>5 DEF Meeting

\* Running queries does not change what the handshake has settled.
LEMMA LaterMeeting ==
  ASSUME Meeting, UNCHANGED <<options, server, link, hello, asked, framed>>,
         srv \in {"ready", "running", "torn"}, srv' \in {"ready", "running", "torn"}
  PROVE  Meeting'
<1>1. hello # <<>>
  BY DEF Meeting, Unmet
<1>2. PeersMeet' /\ (Settled' <=> Settled) /\ Agreed' = Agreed /\ SettledModes' = SettledModes
  BY PeersStay DEF Meeting
<1>3. Met'
  BY <1>1, <1>2 DEF Meeting, Met, supports_chunked_send, supports_chunked_recv
<1> QED
  BY <1>1, <1>2, <1>3 DEF Meeting, Apart, Answered, Unmet, Met

\* Every step keeps it.
LEMMA NextMeeting ==
  ASSUME Meeting, [SessionNext]_sessionVars
  PROVE  Meeting'
<1>1. CASE UNCHANGED sessionVars
  <2>1. UNCHANGED <<options, server, link, hello, asked, framed, srv, toServer, toClient>>
    BY <1>1 DEF sessionVars, linkVars, srvVars
  <2>2. PeersMeet' /\ (Settled' <=> Settled) /\ Agreed' = Agreed /\ SettledModes' = SettledModes
    BY <2>1, PeersStay DEF Meeting
  <2>3. ServerHello' = ServerHello /\ Denied' = Denied /\ send_hello(options)' = send_hello(options)
        /\ send_addendum(hello)' = send_addendum(hello)
    BY <2>1, <2>2 DEF ServerHello, ServerSettings, Denied, send_hello, send_addendum
  <2>4. Apart' /\ Answered' /\ Unmet'
    BY <2>1, <2>3 DEF Meeting, Apart, Answered, Unmet
  <2>5. Met'
    BY <2>1, <2>2, <2>3 DEF Meeting, Met, supports_chunked_send, supports_chunked_recv
  <2> QED
    BY <2>2, <2>4, <2>5 DEF Meeting
<1>2. CASE SrvQuery
  BY <1>2, LaterMeeting DEF SrvQuery, linkVars
<1>3. ASSUME NEW x \in Said, SrvPacket(x)
      PROVE  Meeting'
  BY <1>3, LaterMeeting DEF SrvPacket, linkVars
<1> QED
  BY <1>1, <1>2, <1>3, SendHelloMeeting, RecvHelloMeeting, SendQueryMeeting, RecvPacketMeeting, SrvHelloMeeting,
     SrvAddendumMeeting DEF SessionNext

\* The handshake keeps its invariant.
LEMMA AlwaysMeeting == SessionSpec => []Meeting
BY InitMeeting, NextMeeting, PTL DEF SessionSpec

-----------------------------------------------------------------------------
(* The queries that the server has not read.                               *)
\* After the n-th of a list of queries the stream has those up to the N-th: T[i] is what
\* is left of it after the i-th.
Queued(talk, list, n, N, wire) ==
    \E T : /\ T[n] = wire /\ T[N] = <<>> /\ \A i \in n..N : IsSeq(T[i])
           /\ \A i \in n + 1..N : \E c : Sends(talk, list[i], c) /\ talk.st = "ok" /\ T[i - 1] = c \o T[i]

\* No queries are queued on an empty stream.
LEMMA QueuedNone == \A talk, list : \A n \in Nat : Queued(talk, list, n, n, <<>>)
<1> SUFFICES ASSUME NEW talk, NEW list, NEW n \in Nat PROVE Queued(talk, list, n, n, <<>>)
  OBVIOUS
<1> DEFINE T == [i \in n..n |-> <<>>]
<1>1. n \in n..n /\ (\A i \in n..n : T[i] = <<>>) /\ n + 1..n = {}
  OBVIOUS
<1>2. IsSeq(<<>>)
  BY PiecesAreSeqs
<1> HIDE DEF T
<1> QED
  BY <1>1, <1>2 DEF Queued

\* What is queued is a sequence.
LEMMA QueuedIsSeq ==
  ASSUME NEW talk, NEW list, NEW n \in Nat, NEW N \in Nat, n <= N, NEW wire, Queued(talk, list, n, N, wire)
  PROVE  IsSeq(wire)
<1>1. n \in n..N
  OBVIOUS
<1> QED
  BY <1>1 DEF Queued

\* Another query joins them.
LEMMA QueuedGrows ==
  ASSUME NEW talk, NEW list, NEW n \in Nat, NEW N \in Nat, n <= N, NEW wire, Queued(talk, list, n, N, wire),
         NEW q, NEW o, Sends(talk, q, o), talk.st = "ok",
         NEW more, more[N + 1] = q, \A i \in 1..N : more[i] = list[i]
  PROVE  Queued(talk, more, n, N + 1, wire \o o)
<1>1. PICK T : /\ T[n] = wire /\ T[N] = <<>> /\ \A i \in n..N : IsSeq(T[i])
               /\ \A i \in n + 1..N : \E c : Sends(talk, list[i], c) /\ talk.st = "ok" /\ T[i - 1] = c \o T[i]
  BY DEF Queued
<1> DEFINE U == [i \in n..N + 1 |-> IF i <= N THEN T[i] \o o ELSE <<>>]
<1>2. IsSeq(o) /\ IsSeq(<<>>)
  BY PiecesAreSeqs DEF Sends
<1>3. /\ U[N + 1] = <<>> /\ \A i \in n..N : U[i] = T[i] \o o
  <2>1. N + 1 \in n..N + 1 /\ ~(N + 1 <= N)
    OBVIOUS
  <2>2. \A i \in n..N : i \in n..N + 1 /\ i <= N
    OBVIOUS
  <2> QED
    BY <2>1, <2>2
<1> HIDE DEF U
<1>4. \A i \in n..N + 1 : IsSeq(U[i])
  <2>1. \A i \in n..N + 1 : i \in n..N \/ i = N + 1
    OBVIOUS
  <2>2. ASSUME NEW i \in n..N
        PROVE  IsSeq(U[i])
    <3> DEFINE t == T[i]
    <3>1. IsSeq(t)
      BY <1>1
    <3>2. U[i] = t \o o
      BY <1>3
    <3> HIDE DEF t
    <3>3. IsSeq(t \o o)
      BY <1>2, <3>1, Concatenation
    <3> QED
      BY <3>2, <3>3
  <2> QED
    BY <1>2, <1>3, <2>1, <2>2
<1>5. ASSUME NEW i \in n + 1..N + 1
      PROVE  \E c : Sends(talk, more[i], c) /\ talk.st = "ok" /\ U[i - 1] = c \o U[i]
  <2>1. CASE i = N + 1
    <3>1. i - 1 = N /\ N \in n..N
      BY <2>1
    <3>2. U[i - 1] = <<>> \o o /\ U[i] = <<>> /\ more[i] = q
      BY <1>1, <1>3, <2>1, <3>1
    <3>3. <<>> \o o = o /\ o \o <<>> = o
      BY <1>2, JoinsNothing
    <3> QED
      BY <3>2, <3>3
  <2>2. CASE i # N + 1
    <3>1. i \in n + 1..N /\ i \in n..N /\ i - 1 \in n..N /\ i \in 1..N
      BY <2>2
    <3>2. PICK c : Sends(talk, list[i], c) /\ T[i - 1] = c \o T[i]
      BY <1>1, <3>1
    <3> DEFINE s == T[i]
               t == T[i - 1]
    <3>3. IsSeq(c) /\ IsSeq(s)
      BY <1>1, <3>1, <3>2 DEF Sends
    <3>4. U[i - 1] = t \o o /\ U[i] = s \o o /\ t = c \o s /\ more[i] = list[i]
      BY <1>3, <3>1, <3>2
    <3> HIDE DEF s, t
    <3>5. (c \o s) \o o = c \o (s \o o)
      BY <1>2, <3>3, Associates
    <3> QED
      BY <3>2, <3>4, <3>5
  <2> QED
    BY <2>1, <2>2
<1>6. U[n] = wire \o o
  <2>1. n \in n..N
    OBVIOUS
  <2>2. U[n] = T[n] \o o
    BY <1>3, <2>1, Zenon
  <2> QED
    BY <1>1, <2>2
<1> QED
  BY <1>3, <1>4, <1>5, <1>6 DEF Queued

\* The first of them leaves.
LEMMA QueuedShrinks ==
  ASSUME NEW talk, NEW list, NEW n \in Nat, NEW N \in Nat, n <= N, NEW wire, Queued(talk, list, n, N, wire), wire # <<>>
  PROVE  /\ n < N
         /\ \E c, rest : /\ Sends(talk, list[n + 1], c) /\ talk.st = "ok" /\ wire = c \o rest /\ IsSeq(rest)
                         /\ Queued(talk, list, n + 1, N, rest)
<1>1. PICK T : /\ T[n] = wire /\ T[N] = <<>> /\ \A i \in n..N : IsSeq(T[i])
               /\ \A i \in n + 1..N : \E c : Sends(talk, list[i], c) /\ talk.st = "ok" /\ T[i - 1] = c \o T[i]
  BY DEF Queued
<1>2. n # N
  BY <1>1
<1>3. n < N /\ n + 1 \in n + 1..N /\ n + 1 \in n..N /\ (n + 1) - 1 = n
  BY <1>2
<1>4. PICK c : Sends(talk, list[n + 1], c) /\ talk.st = "ok" /\ T[n] = c \o T[n + 1]
  BY <1>1, <1>3
<1>5. Queued(talk, list, n + 1, N, T[n + 1])
  <2>1. \A i \in n + 1..N : i \in n..N
    OBVIOUS
  <2>2. \A i \in (n + 1) + 1..N : i \in n + 1..N
    OBVIOUS
  <2> QED
    BY <1>1, <2>1, <2>2 DEF Queued
<1>6. IsSeq(T[n + 1]) /\ wire = c \o T[n + 1]
  BY <1>1, <1>3, <1>4
<1> QED
  BY <1>3, <1>4, <1>5, <1>6

\* The queries that are put behind them do not change what they are.
LEMMA QueuedStays ==
  ASSUME NEW talk, NEW list, NEW n \in Nat, NEW N \in Nat, NEW wire, Queued(talk, list, n, N, wire),
         NEW more, \A i \in 1..N : more[i] = list[i]
  PROVE  Queued(talk, more, n, N, wire)
<1>1. \A i \in n + 1..N : i \in 1..N
  OBVIOUS
<1> QED
  BY <1>1 DEF Queued

\* Something is put behind a sequence.
LEMMA AppendIs ==
  ASSUME NEW s, IsSeq(s), NEW x
  PROVE  /\ IsSeq(Append(s, x)) /\ Len(s) \in Nat /\ Len(Append(s, x)) = Len(s) + 1
         /\ Append(s, x)[Len(s) + 1] = x /\ \A i \in 1..Len(s) : Append(s, x)[i] = s[i]
<1>1. PICK S : s \in Seq(S)
  BY DEF IsSeq
<1> DEFINE U == S \union {x}
           a == Append(s, x)
<1>2. s \in Seq(U) /\ x \in U
  BY <1>1
<1> HIDE DEF U
<1>3. /\ a \in Seq(U) /\ Len(s) \in Nat /\ Len(a) = Len(s) + 1 /\ a[Len(s) + 1] = x
      /\ \A i \in 1..Len(s) : a[i] = s[i]
  BY <1>2, AppendProperties
<1> HIDE DEF a
<1> QED
  BY <1>3 DEF IsSeq, a

\* What the server keeps: its place, who the client is, and settings that do not say how
\* blocks are compressed.
Learned ==
    /\ srv # "torn"
    /\ knows # <<>> => knows = <<options.database, options.username, options.password>>
    /\ Zipped \notin DOMAIN session

\* The queries run are the first of those asked.
InOrder ==
    /\ IsSeq(asked) /\ IsSeq(ran)
    /\ hello = <<>> \/ srv = "addendum" => ran = <<>>
    /\ \A i \in 1..Len(ran) : ran[i].query = asked[i].query

\* The others are on the stream, except one that the client could not write.
Unread ==
    \E N \in Nat :
       /\ Len(ran) \in Nat /\ Len(ran) <= N
       /\ N = Len(asked) \/ (N + 1 = Len(asked) /\ link \notin {"idle", "header", "progress"})
       /\ hello # <<>> =>
             IF srv = "addendum"
             THEN \E tail : toServer = send_addendum(hello) \o tail /\ Queued(Talk, asked, 0, N, tail)
             ELSE Queued(Talk, asked, Len(ran), N, toServer)

\* The invariant of the stream to the server.
Reading == Learned /\ InOrder /\ Unread

\* The two sides go on talking as they do.
LEMMA TalkStays ==
  ASSUME PeersMeet, UNCHANGED <<options, server, hello>>
  PROVE  Talk' = Talk /\ send_addendum(hello)' = send_addendum(hello)
<1>1. Agreed' = Agreed
  BY PeersStay
<1>2. Delimiter' = Delimiter
  BY DEF Delimiter, send_data
<1> QED
  BY <1>1, <1>2 DEF Talk, send_addendum

\* It holds at the start.
LEMMA InitReading == SessionInit => Reading
<1> SUFFICES ASSUME SessionInit PROVE Reading
  OBVIOUS
<1>1. /\ srv = "hello" /\ knows = <<>> /\ session = Apply(<<>>, server.settings) /\ asked = <<>> /\ ran = <<>>
      /\ hello = <<>>
  BY DEF SessionInit
<1>2. PeersMeet
  BY InitMeeting DEF Meeting
<1>3. Zipped \notin DOMAIN session
  <2> DEFINE s == server.settings
             e == <<>>
             a == Apply(e, s)
  <2>1. s \in Seq(SettingNames \X SettingTexts)
    BY <1>2, PeerIs
  <2>2. DOMAIN e = {}
    OBVIOUS
  <2>3. session = a
    BY <1>1
  <2> HIDE DEF s, e
  <2>4. DOMAIN a = DOMAIN e \union Names(s)
    BY <2>1, ApplyGives DEF IsSeq
  <2>5. Names(s) \subseteq SettingNames
    BY <2>1 DEF Names
  <2>6. Zipped \notin SettingNames
    BY DEF Zipped, SettingNames, Compressing
  <2> HIDE DEF a
  <2> QED
    BY <2>2, <2>3, <2>4, <2>5, <2>6
<1>4. IsSeq(<<>>) /\ Len(<<>>) = 0
  BY PiecesAreSeqs
<1> QED
  BY <1>1, <1>3, <1>4 DEF Reading, Learned, InOrder, Unread

\* A step that does not concern the queries or the stream to the server.
LEMMA ReadingStays ==
  ASSUME Meeting, Reading, UNCHANGED <<options, server, hello, knows, session, asked, ran, toServer>>,
         srv' = srv \/ (srv \in {"ready", "running"} /\ srv' \in {"ready", "running"}),
         link' = link \/ link \in {"header", "progress"} \/ link = "start"
  PROVE  Reading'
<1>1. Talk' = Talk /\ send_addendum(hello)' = send_addendum(hello)
  BY TalkStays DEF Meeting
<1>2. Learned' /\ InOrder'
  BY DEF Reading, Learned, InOrder
<1>3. PICK N \in Nat :
       /\ Len(ran) \in Nat /\ Len(ran) <= N
       /\ N = Len(asked) \/ (N + 1 = Len(asked) /\ link \notin {"idle", "header", "progress"})
       /\ hello # <<>> =>
             IF srv = "addendum"
             THEN \E tail : toServer = send_addendum(hello) \o tail /\ Queued(Talk, asked, 0, N, tail)
             ELSE Queued(Talk, asked, Len(ran), N, toServer)
  BY DEF Reading, Unread
<1>4. N = Len(asked) \/ (N + 1 = Len(asked) /\ link' \notin {"idle", "header", "progress"})
  <2>1. link = "start" => Len(asked) = 0
    BY DEF Meeting, Apart, Unmet
  <2> QED
    BY <1>3, <2>1
<1>5. Unread'
  BY <1>1, <1>3, <1>4 DEF Unread
<1> QED
  BY <1>2, <1>5 DEF Reading

\* The client says hello.
LEMMA SendHelloReading ==
  ASSUME Meeting, Reading, SendHello
  PROVE  Reading'
<1>1. /\ link = "start" /\ link' = "hello"
      /\ UNCHANGED <<options, hello, srv, knows, session, asked, ran>>
  BY DEF SendHello, srvVars
<1>2. hello = <<>> /\ asked = <<>>
  BY <1>1 DEF Meeting, Apart, Unmet
<1>3. Learned' /\ InOrder'
  BY <1>1 DEF Reading, Learned, InOrder
<1>4. Unread'
  <2>1. ran = <<>> /\ Len(<<>>) = 0
    BY <1>2 DEF Reading, InOrder
  <2> QED
    BY <1>1, <1>2, <2>1 DEF Unread
<1> QED
  BY <1>3, <1>4 DEF Reading

\* The client answers the server's hello with its addendum.
LEMMA RecvHelloReading ==
  ASSUME Meeting, Reading, RecvHello
  PROVE  Reading'
<1>1. /\ UNCHANGED <<options, srv, knows, session, asked, ran>> /\ hello = <<>>
      /\ hello' # <<>> => toServer' = send_addendum(hello') \o <<>> /\ srv' = "addendum"
  BY RecvHelloMeeting DEF RecvHello, srvVars
<1>2. ran = <<>> /\ asked = <<>> /\ Len(<<>>) = 0
  BY <1>1 DEF Reading, InOrder, Meeting, Unmet
<1>3. Learned' /\ InOrder'
  BY <1>1, <1>2 DEF Reading, Learned, InOrder
<1>4. Unread'
  <2> DEFINE t == Talk'
             e == <<>>
  <2>1. Queued(t, e, 0, 0, e)
    <3> HIDE DEF t
    <3> QED
      BY QueuedNone
  <2>2. Queued(Talk', asked', 0, 0, <<>>)
    BY <1>1, <1>2, <2>1
  <2>3. send_addendum(hello)' = send_addendum(hello')
    BY DEF send_addendum
  <2> HIDE DEF t
  <2>4. hello' # <<>> => srv' = "addendum" /\ \E tail : toServer' = send_addendum(hello)' \o tail /\ Queued(Talk', asked', 0, 0, tail)
    BY <1>1, <2>2, <2>3
  <2>5. Len(ran') = 0 /\ Len(asked') = 0
    BY <1>1, <1>2
  <2> QED
    BY <2>4, <2>5 DEF Unread
<1> QED
  BY <1>3, <1>4 DEF Reading

\* The server reads the hello.
LEMMA SrvHelloReading ==
  ASSUME Meeting, Reading, SrvHello
  PROVE  Reading'
<1> DEFINE r == ReadLayout(ClientHelloLayout, 0, toServer)
<1>1. /\ r.st = "ok" /\ r.v["database"] = Text(options.database).x /\ r.v["username"] = Text(options.username).x
      /\ r.v["password"] = Text(options.password).x
  BY SrvHelloMeeting
<1>2. /\ srv = "hello"
      /\ srv' = (CASE r.st # "ok" -> "torn" [] r.st = "ok" /\ server.refuses -> "refused" [] OTHER -> "addendum")
      /\ knows' = (IF r.st = "ok" THEN <<TextOf(r.v["database"]), TextOf(r.v["username"]), TextOf(r.v["password"])>> ELSE knows)
      /\ UNCHANGED <<options, link, hello, asked, session, ran>>
  BY Zenon DEF SrvHello, linkVars
<1> HIDE DEF r
<1>3. hello = <<>> /\ ran = <<>> /\ asked = <<>> /\ Len(<<>>) = 0
  BY <1>2 DEF Meeting, Apart, Unmet, Reading, InOrder
<1>4. knows' = <<options.database, options.username, options.password>> /\ srv' # "torn"
  <2>1. /\ TextOf(r.v["database"]) = options.database /\ TextOf(r.v["username"]) = options.username
        /\ TextOf(r.v["password"]) = options.password
    BY <1>1, TextIs
  <2> QED
    BY <1>1, <1>2, <2>1
<1>5. Learned' /\ InOrder'
  BY <1>2, <1>3, <1>4 DEF Reading, Learned, InOrder
<1>6. Unread'
  BY <1>2, <1>3 DEF Unread
<1> QED
  BY <1>5, <1>6 DEF Reading

\* The server reads the addendum, and the queries behind it are next.
LEMMA SrvAddendumReading ==
  ASSUME Meeting, Reading, SrvAddendum
  PROVE  Reading'
<1>1. srv = "addendum" /\ UNCHANGED <<options, link, hello, asked, server, session, knows, ran>>
  BY DEF SrvAddendum, linkVars
<1>2. hello # <<>>
  BY <1>1 DEF Meeting, Unmet, SrvAddendum
<1>3. ran = <<>> /\ Len(<<>>) = 0
  BY <1>1 DEF Reading, InOrder
<1>4. PICK N \in Nat :
        /\ N = Len(asked) \/ (N + 1 = Len(asked) /\ link \notin {"idle", "header", "progress"})
        /\ \E tail : toServer = send_addendum(hello) \o tail /\ Queued(Talk, asked, 0, N, tail)
  BY <1>1, <1>2 DEF Reading, Unread
<1>5. PICK tail : toServer = send_addendum(hello) \o tail /\ Queued(Talk, asked, 0, N, tail)
  BY <1>4
<1>6. IsSeq(tail)
  BY <1>5, QueuedIsSeq
<1>7. srv' \in {"ready", "refused"} /\ toServer' = tail
  BY <1>5, <1>6, AddendumTaken
<1>8. Talk' = Talk
  BY <1>1, TalkStays DEF Meeting
<1>9. Unread'
  BY <1>1, <1>3, <1>4, <1>5, <1>7, <1>8 DEF Unread
<1>10. Learned' /\ InOrder'
  BY <1>1, <1>3, <1>7 DEF Reading, Learned, InOrder
<1> QED
  BY <1>9, <1>10 DEF Reading

\* The client puts a query on the stream, or fails to.
LEMMA SendQueryReading ==
  ASSUME Meeting, Reading, NEW q \in Asks, SendQuery(q)
  PROVE  Reading'
<1> DEFINE w == WThen(send_query(q, hello.revision, options.compression, hello.settings), Delimiter)
<1>1. /\ link = "idle" /\ asked' = Append(asked, q) /\ toServer' = IF w.st = "ok" THEN toServer \o w.out ELSE toServer
      /\ link' = (CASE w.st = "ok" -> "header" [] w.st = "panic" -> "aborted" [] OTHER -> "failed")
      /\ UNCHANGED <<options, hello, server, srv, knows, session, ran>>
  BY Zenon DEF SendQuery, srvVars
<1>2. hello # <<>> /\ PeersMeet
  BY <1>1 DEF Meeting, Unmet
<1>3. hello.revision = Agreed
  BY <1>2 DEF Meeting, Met
<1>4. w.st = "ok" => Sends(Talk, q, w.out) /\ Talk.st = "ok"
  <2> SUFFICES ASSUME w.st = "ok" PROVE Sends(Talk, q, w.out) /\ Talk.st = "ok"
    OBVIOUS
  <2>1. Sends(Talk, q, w.out) /\ Delimiter.st = "ok"
    BY <1>2, <1>3, QuerySends
  <2> QED
    BY <2>1, TalkIs
<1>5. Talk' = Talk /\ send_addendum(hello)' = send_addendum(hello)
  BY <1>1, <1>2, TalkStays
<1> HIDE DEF w
<1> DEFINE n == Len(ran)
           more == Append(asked, q)
           begun == IF srv = "addendum" THEN 0 ELSE n
<1>6. PICK N \in Nat :
        /\ n \in Nat /\ n <= N /\ N = Len(asked)
        /\ IF srv = "addendum"
           THEN \E tail : toServer = send_addendum(hello) \o tail /\ Queued(Talk, asked, 0, N, tail)
           ELSE Queued(Talk, asked, n, N, toServer)
  BY <1>1, <1>2 DEF Reading, Unread
<1>7. IsSeq(more) /\ Len(more) = N + 1 /\ more[N + 1] = q /\ \A i \in 1..N : more[i] = asked[i]
  BY <1>6, AppendIs DEF Reading, InOrder
<1>8. asked' = more
  BY <1>1
<1> HIDE DEF n, more
<1>9. Learned' /\ InOrder'
  <2>1. \A i \in 1..Len(ran) : more[i] = asked[i]
    BY <1>6, <1>7 DEF n
  <2> QED
    BY <1>1, <1>7, <1>8, <2>1 DEF Reading, Learned, InOrder
<1>10. CASE w.st = "ok"
  <2> DEFINE o == w.out
             a == send_addendum(hello)
             t == Talk
  <2>1. Sends(t, q, o) /\ t.st = "ok" /\ IsSeq(o) /\ toServer' = toServer \o o
    BY <1>1, <1>4, <1>10 DEF Sends
  <2> HIDE DEF o, a, t
  <2>2. ASSUME srv # "addendum" PROVE Queued(t, more, n, N + 1, toServer')
    <3>1. Queued(t, asked, n, N, toServer)
      BY <1>6, <2>2 DEF t
    <3> QED
      BY <1>6, <1>7, <2>1, <3>1, QueuedGrows
  <2>3. ASSUME srv = "addendum" PROVE \E tail : toServer' = a \o tail /\ Queued(t, more, 0, N + 1, tail)
    <3>1. PICK tail : toServer = a \o tail /\ Queued(t, asked, 0, N, tail)
      BY <1>6, <2>3 DEF a, t
    <3>2. IsSeq(tail) /\ Queued(t, more, 0, N + 1, tail \o o)
      <4>1. 0 \in Nat /\ 0 <= N /\ N \in Nat
        BY <1>6
      <4>2. IsSeq(tail)
        BY <3>1, <4>1, QueuedIsSeq
      <4>3. Queued(t, more, 0, N + 1, tail \o o)
        BY <1>7, <2>1, <3>1, <4>1, QueuedGrows
      <4> QED
        BY <4>2, <4>3
    <3>3. IsSeq(a)
      <4>1. hello.revision \in Nat /\ hello.revision >= CHUNKED_PACKETS
        BY <1>2, <1>3, AgreedIs
      <4>2. IsSeq(send_addendum(hello))
        BY <3>2, <4>1, AddendumReads
      <4> QED
        BY <4>2 DEF a
    <3>4. (a \o tail) \o o = a \o (tail \o o)
      BY <2>1, <3>2, <3>3, Associates
    <3> QED
      BY <2>1, <3>1, <3>2, <3>4
  <2>4. Unread'
    <3>1. Len(ran') = n /\ N + 1 \in Nat /\ n <= N + 1 /\ N + 1 = Len(asked')
      BY <1>1, <1>6, <1>7, <1>8 DEF n
    <3>2. Talk' = t /\ send_addendum(hello)' = a /\ asked' = more
      BY <1>5, <1>8 DEF t, a
    <3> QED
      BY <1>1, <1>6, <2>2, <2>3, <3>1, <3>2 DEF Unread
  <2> QED
    BY <1>9, <2>4 DEF Reading
<1>11. CASE w.st # "ok"
  <2>1. toServer' = toServer /\ link' \notin {"idle", "header", "progress"}
    BY <1>1, <1>11
  <2>2. Queued(Talk, asked, n, N, toServer) => Queued(Talk, more, n, N, toServer)
    BY <1>6, <1>7, QueuedStays
  <2>3. \A tail : Queued(Talk, asked, 0, N, tail) => Queued(Talk, more, 0, N, tail)
    BY <1>6, <1>7, QueuedStays
  <2>4. Unread'
    <3>1. Len(ran') = n /\ N + 1 = Len(asked')
      BY <1>1, <1>6, <1>7, <1>8 DEF n
    <3> QED
      BY <1>1, <1>5, <1>6, <1>8, <2>1, <2>2, <2>3, <3>1 DEF Unread
  <2> QED
    BY <1>9, <2>4 DEF Reading
<1> QED
  BY <1>10, <1>11

\* The query that the server runs next is the first that it has not run, with its settings.
LEMMA SrvQueryRuns ==
  ASSUME Meeting, Reading, DelimiterReads, SrvQuery
  PROVE  LET q == asked[Len(ran) + 1]
         IN /\ hello # <<>> /\ srv' = "running" /\ q \in Asks
            /\ session' = Apply(session, q.set) /\ changed' = (changed \/ q.set # <<>>)
            /\ \E pairs : /\ AskedPairs(q, options.compression, hello.settings, pairs)
                          /\ ran' = Append(ran, [query |-> q.query, settings |-> Apply(session, pairs), params |-> <<>>])
            /\ \E N \in Nat : /\ Len(ran) \in Nat /\ Len(ran) + 1 <= N
                              /\ N = Len(asked) \/ (N + 1 = Len(asked) /\ link \notin {"idle", "header", "progress"})
                              /\ Queued(Talk, asked, Len(ran) + 1, N, toServer')
<1> DEFINE n == Len(ran)
           q == asked[n + 1]
           set == q.set
           r == Then(ServerReadsQuery(toServer), Delimited)
<1>1. /\ srv = "ready" /\ toServer # <<>>
      /\ IF supports_chunked_send(hello) = framed.in /\ r.st = "ok" /\ r.v.empty
         THEN /\ srv' = "running" /\ toServer' = r.rest /\ ran' = Append(ran, r.v.query)
              /\ session' = Apply(session, set) /\ changed' = (changed \/ set # <<>>)
         ELSE srv' = "torn" /\ UNCHANGED <<toServer, ran, session, changed>>
  BY Zenon DEF SrvQuery
<1>2. hello # <<>> /\ PeersMeet
  BY <1>1 DEF Meeting, Unmet
<1>3. hello.revision = Agreed /\ framed.in = supports_chunked_send(hello)
  BY <1>1, <1>2 DEF Meeting, Met
<1>4. PICK N \in Nat :
        /\ n \in Nat /\ n <= N
        /\ N = Len(asked) \/ (N + 1 = Len(asked) /\ link \notin {"idle", "header", "progress"})
        /\ Queued(Talk, asked, n, N, toServer)
  BY <1>1, <1>2 DEF Reading, Unread
<1> HIDE DEF r
<1>5. /\ n < N
      /\ \E c, rest : /\ Sends(Talk, q, c) /\ Talk.st = "ok" /\ toServer = c \o rest /\ IsSeq(rest)
                      /\ Queued(Talk, asked, n + 1, N, rest)
  <2> DEFINE t == Talk
  <2> HIDE DEF n, t
  <2> QED
    BY <1>1, <1>4, QueuedShrinks DEF t
<1>6. PICK c, rest : /\ Sends(Talk, q, c) /\ Talk.st = "ok" /\ toServer = c \o rest /\ IsSeq(rest)
                     /\ Queued(Talk, asked, n + 1, N, rest)
  BY <1>5
<1>7. q \in Asks
  BY <1>6 DEF Sends
<1>8. PICK pairs : /\ AskedPairs(q, options.compression, hello.settings, pairs)
                   /\ Then(ServerReadsQuery(c \o rest), Delimited) = Runs(q, Apply(session, pairs), rest)
  <2>1. Delimiter.st = "ok" /\ Zipped \notin DOMAIN session
    BY <1>6, TalkIs DEF Reading, Learned
  <2> HIDE DEF q
  <2> QED
    BY <1>2, <1>3, <1>6, <2>1, QueryRuns
<1> DEFINE force == Apply(session, pairs)
           f == [query |-> q.query, settings |-> force, params |-> <<>>]
<1>9. r = Runs(q, force, rest)
  BY <1>6, <1>8 DEF r
<1> HIDE DEF force
<1>10. r.st = "ok" /\ r.v.empty /\ r.v.query = f /\ r.rest = rest
  BY <1>9 DEF Runs, Ok
<1> HIDE DEF f, set
<1>11. srv' = "running" /\ toServer' = rest /\ ran' = Append(ran, f) /\ session' = Apply(session, set) /\ changed' = (changed \/ set # <<>>)
  BY <1>1, <1>3, <1>10
<1>12. Len(ran) \in Nat /\ Len(ran) + 1 <= N /\ Queued(Talk, asked, Len(ran) + 1, N, toServer')
  <2> HIDE DEF q
  <2> QED
    BY <1>4, <1>5, <1>6, <1>11
<1> HIDE DEF n
<1> QED
  BY <1>2, <1>4, <1>7, <1>8, <1>11, <1>12 DEF n, f, force, set

\* The server runs the next query.
LEMMA SrvQueryReading ==
  ASSUME Meeting, Reading, DelimiterReads, SrvQuery
  PROVE  Reading'
<1> DEFINE n == Len(ran)
           q == asked[n + 1]
<1>1. UNCHANGED <<options, link, hello, asked, server, knows>>
  BY DEF SrvQuery, linkVars
<1>2. /\ hello # <<>> /\ srv' = "running" /\ q \in Asks /\ session' = Apply(session, q.set)
      /\ \E f : ran' = Append(ran, f) /\ f.query = q.query
  <2>1. PICK pairs : ran' = Append(ran, [query |-> q.query, settings |-> Apply(session, pairs), params |-> <<>>])
    BY SrvQueryRuns
  <2> DEFINE f == [query |-> q.query, settings |-> Apply(session, pairs), params |-> <<>>]
  <2>2. f.query = q.query
    OBVIOUS
  <2>3. ran' = Append(ran, f)
    BY <2>1
  <2> HIDE DEF f
  <2>4. hello # <<>> /\ srv' = "running" /\ q \in Asks /\ session' = Apply(session, q.set)
    BY SrvQueryRuns
  <2> QED
    BY <2>2, <2>3, <2>4
<1>3. PICK N \in Nat : /\ n \in Nat /\ n + 1 <= N
                       /\ N = Len(asked) \/ (N + 1 = Len(asked) /\ link \notin {"idle", "header", "progress"})
                       /\ Queued(Talk, asked, n + 1, N, toServer')
  BY SrvQueryRuns
<1>4. PICK f : ran' = Append(ran, f) /\ f.query = q.query
  BY <1>2
<1> DEFINE more == Append(ran, f)
<1>5. IsSeq(more) /\ Len(more) = n + 1 /\ more[n + 1] = f /\ \A i \in 1..n : more[i] = ran[i]
  BY AppendIs DEF Reading, InOrder
<1>6. ran' = more
  BY <1>4
<1> HIDE DEF more
<1>7. InOrder'
  <2>1. ASSUME NEW i \in 1..n + 1 PROVE more[i].query = asked[i].query
    <3>1. CASE i = n + 1
      BY <1>4, <1>5, <3>1
    <3>2. CASE i # n + 1
      <4>1. i \in 1..n
        BY <1>3, <3>2
      <4> QED
        BY <1>5, <4>1 DEF Reading, InOrder
    <3> QED
      BY <3>1, <3>2
  <2> HIDE DEF n
  <2> QED
    BY <1>1, <1>2, <1>5, <1>6, <2>1 DEF Reading, InOrder
<1>8. Zipped \notin DOMAIN session'
  <2> DEFINE s == q.set
             a == Apply(session, s)
  <2>1. s \in Seq(SettingNames \X STRING)
    BY <1>2, AskIs
  <2>2. session' = a
    BY <1>2
  <2> HIDE DEF s
  <2>3. DOMAIN a = DOMAIN session \union Names(s)
    BY <2>1, ApplyGives DEF IsSeq
  <2>4. Names(s) \subseteq SettingNames
    BY <2>1 DEF Names
  <2>5. Zipped \notin SettingNames
    BY DEF Zipped, SettingNames, Compressing
  <2> HIDE DEF a
  <2> QED
    BY <2>2, <2>3, <2>4, <2>5 DEF Reading, Learned
<1>9. Learned'
  BY <1>1, <1>2, <1>8 DEF Reading, Learned
<1>10. Talk' = Talk
  BY <1>1, TalkStays DEF Meeting
<1>11. Unread'
  <2>1. Len(ran') = n + 1 /\ n + 1 \in Nat
    BY <1>3, <1>5, <1>6
  <2> HIDE DEF n, q
  <2> QED
    BY <1>1, <1>2, <1>3, <1>10, <2>1 DEF Unread
<1> QED
  BY <1>7, <1>9, <1>11 DEF Reading

\* Every step keeps it.
LEMMA NextReading ==
  ASSUME Meeting, Reading, DelimiterReads, [SessionNext]_sessionVars
  PROVE  Reading'
<1>1. CASE UNCHANGED sessionVars
  BY <1>1, ReadingStays DEF sessionVars, linkVars, srvVars
<1>2. CASE RecvPacket
  BY <1>2, ReadingStays DEF RecvPacket, srvVars
<1>3. ASSUME NEW x \in Said, SrvPacket(x)
      PROVE  Reading'
  <2>1. UNCHANGED <<options, server, hello, knows, session, asked, ran, toServer, link>> /\ srv = "running"
    BY <1>3 DEF SrvPacket, linkVars
  <2>2. srv' \in {"ready", "running"}
    BY <1>3, <2>1 DEF SrvPacket
  <2> QED
    BY <2>1, <2>2, ReadingStays
<1> QED
  BY <1>1, <1>2, <1>3, SendHelloReading, RecvHelloReading, SendQueryReading, SrvHelloReading, SrvAddendumReading,
     SrvQueryReading DEF SessionNext

\* With it the server has read everything as it was meant.
LEMMA ReadingReads == Reading => ServerReads
<1> SUFFICES ASSUME Reading PROVE ServerReads
  OBVIOUS
<1>1. Len(ran) <= Len(asked)
  <2>1. Len(asked) \in Nat
    BY DEF Reading, InOrder, IsSeq
  <2> QED
    BY <2>1 DEF Reading, Unread
<1> QED
  BY <1>1 DEF Reading, Learned, InOrder, ServerReads

\* The server is never lost in what the client sends: it learns the client's credentials,
\* and runs the queries in the order and with the text in which they were asked, whatever the
\* revision, modes, compression and settings, if a reader reads an empty block as one
\* (send_hello, send_addendum, send_query and send_delimiter against the server's layouts).
THEOREM AlwaysReads ==
  ASSUME DelimiterReads
  PROVE  SessionSpec => []ServerReads
<1>1. SessionInit => Meeting /\ Reading
  BY InitMeeting, InitReading
<1>2. Meeting /\ Reading /\ [SessionNext]_sessionVars => (Meeting /\ Reading)'
  BY NextMeeting, NextReading
<1>3. Meeting /\ Reading => ServerReads
  BY ReadingReads
<1> QED
  BY <1>1, <1>2, <1>3, PTL DEF SessionSpec

-----------------------------------------------------------------------------
(* The settings that a server tells in its hello.                          *)
\* What a client makes of a text means what the text does.
LEMMA ParseMeans == \A t \in SettingTexts : Meaning(to_string(parse_setting_value(t))) = t
<1> SUFFICES ASSUME NEW t \in SettingTexts PROVE Meaning(to_string(parse_setting_value(t))) = t
  OBVIOUS
<1> DEFINE x == parse_setting_value(t)
           named(n) == ToString(n) = t
           tenths(n) == to_string(Value("Float", n)) = t /\ n % 10 # 0
           many == \E n \in 2..MaxSetting : named(n)
           some == \E n \in 0..MaxSetting : tenths(n)
           i == CHOOSE n \in 2..MaxSetting : named(n)
           k == CHOOSE n \in 0..MaxSetting : tenths(n)
<1>1. t \notin {"true", "TRUE", "false", "FALSE"}
  BY DEF SettingTexts
<1>2. Meaning(t) = t
  BY <1>1 DEF Meaning
<1>3. x = CASE t \in {"true", "TRUE", "1"} -> Value("Bool", 1)
            [] t \in {"false", "FALSE", "0"} -> Value("Bool", 0)
            [] many -> Value("Int", i)
            [] some -> Value("Float", k)
            [] OTHER -> Value("String", t)
  BY Zenon DEF parse_setting_value
<1>4. many => named(i)
  <2> HIDE DEF named
  <2> QED
    OBVIOUS
<1>5. some => to_string(Value("Float", k)) = t
  <2>1. some => tenths(k)
    <3> HIDE DEF tenths
    <3> QED
      OBVIOUS
  <2> HIDE DEF some, k
  <2> QED
    BY <2>1
<1> HIDE DEF x, many, some, i, k
<1>6. \/ t \in {"true", "TRUE", "1"} /\ x = Value("Bool", 1)
      \/ t \in {"false", "FALSE", "0"} /\ x = Value("Bool", 0)
      \/ many /\ x = Value("Int", i)
      \/ some /\ x = Value("Float", k)
      \/ x = Value("String", t)
  BY <1>3
<1>7. CASE t \in {"true", "TRUE", "1"} /\ x = Value("Bool", 1)
  <2>1. to_string(x) = "true" /\ t = "1"
    BY <1>1, <1>7 DEF to_string, Value
  <2> QED
    BY <2>1 DEF Meaning, x
<1>8. CASE t \in {"false", "FALSE", "0"} /\ x = Value("Bool", 0)
  <2>1. to_string(x) = "false" /\ t = "0"
    BY <1>1, <1>8 DEF to_string, Value
  <2> QED
    BY <2>1 DEF Meaning, x
<1>9. CASE many /\ x = Value("Int", i)
  <2>1. to_string(x) = ToString(i)
    BY <1>9 DEF to_string, Value
  <2> QED
    BY <1>2, <1>4, <1>9, <2>1 DEF x
<1>10. CASE some /\ x = Value("Float", k)
  BY <1>2, <1>5, <1>10 DEF x
<1>11. CASE x = Value("String", t)
  <2>1. to_string(x) = t
    BY <1>11 DEF to_string, Value
  <2> QED
    BY <1>2, <2>1 DEF x
<1> QED
  BY <1>6, <1>7, <1>8, <1>9, <1>10, <1>11

\* The client reads one setting.
LEMMA OneSettingDecoded ==
  ASSUME NEW W, IsSeq(W), NEW k \in Nat, k \in 1..Len(W), k + 1 \in 1..Len(W), k + 2 \in 1..Len(W),
         NEW key, NEW text, W[k] = Text(key), W[k + 1] = Var(0), W[k + 2] = Text(text)
  PROVE  decode_setting(At(W, k))
           = Ok([key |-> key, important |-> FALSE, custom |-> FALSE, value |-> parse_setting_value(text)], At(W, k + 3))
<1>1. (k + 1) + 1 = k + 2 /\ (k + 2) + 1 = k + 3
  OBVIOUS
<1> DEFINE x == Text(key).x
           y == Text(text).x
<1>2. ASSUME NEW t
      PROVE  Text(t).w = STR /\ TextOf(Text(t).x) = t /\ ~(Len(Text(t).x) > MAX_STRING_SIZE)
  <2> DEFINE z == Text(t).x
  <2>1. z = <<>> \/ z = <<t>>
    BY DEF Text, Cell
  <2> HIDE DEF z
  <2> DEFINE n == Len(z)
  <2>2. n = 0 \/ n = 1
    BY <2>1
  <2> HIDE DEF n
  <2>3. ~(n > MAX_STRING_SIZE)
    BY <2>2 DEF MAX_STRING_SIZE
  <2> QED
    BY <2>3, TextIs DEF n, z
<1>3. Var(0).w = VAR /\ Var(0).x = <<0>>
  BY DEF Var, Num, Cell
<1> DEFINE a == At(W, k)
           b == At(W, k + 1)
           c == At(W, k + 2)
           d == At(W, k + 3)
<1>4. ReadCell(STR, a) = Ok(x, b)
  BY <1>2, CellRead
<1>5. ReadCell(VAR, b) = Ok(<<0>>, c)
  BY <1>1, <1>3, CellRead
<1>6. ReadCell(STR, c) = Ok(y, d)
  BY <1>1, <1>2, CellRead
<1>7. TextOf(x) = key /\ TextOf(y) = text
  BY <1>2
<1>8. ~(Len(x) > MAX_STRING_SIZE) /\ ~(Len(y) > MAX_STRING_SIZE)
  BY <1>2
<1> HIDE DEF a, b, c, d, x, y
<1>9. read_string(a) = Ok(x, b) /\ read_string(c) = Ok(y, d) /\ ReadNum(VAR, b) = Ok(0, c)
  BY <1>4, <1>5, <1>6, <1>8 DEF read_string, ReadNum, Then, Ok
<1> DEFINE value == parse_setting_value(text)
           s == [key |-> key, important |-> FALSE, custom |-> FALSE, value |-> value]
           one == 0 % 2 = 1
           two == (0 \div SETTING_FLAG_CUSTOM) % 2 = 1
<1>10. one = FALSE /\ two = FALSE
  <2>1. ~one /\ ~two
    BY DEF SETTING_FLAG_CUSTOM
  <2> QED
    BY <2>1, Zenon
<1>11. decode_setting(a) = Ok(s, d)
  <2> DEFINE F(p, q) == [key |-> TextOf(x), important |-> p, custom |-> q,
                         value |-> IF q THEN Value("String", TextOf(y)) ELSE parse_setting_value(TextOf(y))]
             G(flags, t) == [key |-> TextOf(x), important |-> flags % 2 = 1, custom |-> (flags \div SETTING_FLAG_CUSTOM) % 2 = 1,
                             value |-> IF (flags \div SETTING_FLAG_CUSTOM) % 2 = 1 THEN Value("String", TextOf(t))
                                       ELSE parse_setting_value(TextOf(t))]
             H(flags, w) == Then(read_string(w), LAMBDA t, r3 : Ok(G(flags, t), r3))
             J(k2, w) == Then(ReadNum(VAR, w), LAMBDA flags, r2 : H(flags, r2))
  <2>1. G(0, y) = F(one, two)
    BY Zenon
  <2>2. F(FALSE, FALSE) = s
    BY <1>7
  <2> HIDE DEF F, s
  <2>3. G(0, y) = s
    BY <1>10, <2>1, <2>2
  <2> HIDE DEF G
  <2>4. H(0, c) = Ok(G(0, y), d)
    BY <1>9 DEF Then, Ok
  <2> HIDE DEF H
  <2>5. J(x, b) = H(0, c)
    BY <1>9 DEF Then, Ok
  <2>6. decode_setting(a) = J(x, b)
    <3> DEFINE K(key0, w) == Then(ReadNum(VAR, w), LAMBDA flags, r2 :
                             Then(read_string(r2), LAMBDA t, r3 :
                               Ok([key |-> TextOf(key0), important |-> flags % 2 = 1, custom |-> (flags \div SETTING_FLAG_CUSTOM) % 2 = 1,
                                   value |-> IF (flags \div SETTING_FLAG_CUSTOM) % 2 = 1 THEN Value("String", TextOf(t))
                                             ELSE parse_setting_value(TextOf(t))], r3)))
    <3>1. decode_setting(a) = Then(read_string(a), LAMBDA key0, r1 : K(key0, r1))
      BY Zenon DEF decode_setting
    <3>2. K(x, b) = J(x, b)
      BY Zenon DEF H, G
    <3> HIDE DEF K, J
    <3>3. Then(read_string(a), LAMBDA key0, r1 : K(key0, r1)) = K(x, b)
      BY <1>9 DEF Then, Ok
    <3> QED
      BY <3>1, <3>2, <3>3, Zenon
  <2> QED
    BY <2>3, <2>4, <2>5, <2>6
<1> QED
  BY <1>11 DEF a, d

\* What the client makes of them.
ToldSettings ==
    [i \in 1..Len(server.settings) |->
        [key |-> server.settings[i][1], important |-> FALSE, custom |-> FALSE, value |-> parse_setting_value(server.settings[i][2])]]

\* The cells of one of them.
LEMMA SettingCells ==
  ASSUME PeersMeet, NEW m \in 1..Len(server.settings)
  PROVE  /\ ServerSettings[3 * m - 2] = Text(server.settings[m][1])
         /\ ServerSettings[3 * m - 1] = Var(0)
         /\ ServerSettings[3 * m] = Text(server.settings[m][2])
<1> DEFINE N == Len(server.settings)
           one(n, part) == CASE part = 1 -> Text(server.settings[n][1]) [] part = 2 -> Var(0) [] part = 0 -> Text(server.settings[n][2])
<1>1. N \in Nat /\ m \in 1..N
  BY PeerIs
<1>2. ServerSettings = [i \in 1..3 * N |-> one((i + 2) \div 3, i % 3)]
  BY Zenon DEF ServerSettings
<1> HIDE DEF N
<1>3. /\ 3 * m - 2 \in 1..3 * N /\ 3 * m - 1 \in 1..3 * N /\ 3 * m \in 1..3 * N
      /\ (3 * m - 2) % 3 = 1 /\ (3 * m - 1) % 3 = 2 /\ (3 * m) % 3 = 0
      /\ ((3 * m - 2) + 2) \div 3 = m /\ ((3 * m - 1) + 2) \div 3 = m /\ (3 * m + 2) \div 3 = m
  BY <1>1
<1>4. one(m, 1) = Text(server.settings[m][1]) /\ one(m, 2) = Var(0) /\ one(m, 0) = Text(server.settings[m][2])
  OBVIOUS
<1> HIDE DEF one
<1>5. /\ ServerSettings[3 * m - 2] = one(m, 1) /\ ServerSettings[3 * m - 1] = one(m, 2)
      /\ ServerSettings[3 * m] = one(m, 0)
  BY <1>2, <1>3
<1> QED
  BY <1>4, <1>5

\* The client decodes them.
LEMMA SettingsDecoded ==
  ASSUME PeersMeet, NEW b, IsSeq(b)
  PROVE  decode_settings(Joined(ServerSettings, Joined(Ending, b))) = Ok(ToldSettings, b)
<1> DEFINE out == ServerSettings
           W == Joined(out, Joined(Ending, b))
           list == ToldSettings
           k == Len(list)
           N == Len(W)
           step(r) == Then(r, LAMBDA all, rest :
                           IF AtEmptyKey(rest) THEN Ok(all, rest)
                           ELSE Then(decode_setting(rest), LAMBDA one, rest2 : Ok(Append(all, one), rest2)))
           rule(r) == [n \in 0..N |-> IF n = 0 THEN Ok(<<>>, W) ELSE step(r[n - 1])]
           read == CHOOSE r : r = rule(r)
<1>1. decode_settings(W)
        = Then(read[N], LAMBDA all, rest : Then(ReadCell(STR, rest), LAMBDA key, rest2 : Ok(all, rest2)))
  BY Zenon DEF decode_settings, UpToEmptyKey
<1>2. IsSeq(out) /\ Len(out) = 3 * Len(server.settings) /\ Len(server.settings) \in Nat
  BY HelloParts, PeerIs
<1>3. IsSeq(list) /\ Len(list) = Len(server.settings)
  <2> DEFINE n == Len(server.settings)
             f == ToldSettings
  <2>1. n \in Nat
    BY <1>2
  <2>2. f = [i \in 1..n |-> f[i]]
    BY DEF ToldSettings
  <2> HIDE DEF f, n
  <2>3. IsSeq(f) /\ Len(f) = n
    BY <2>1, <2>2, ListIsSeq
  <2> QED
    BY <2>3 DEF f, n
<1>4. /\ IsSeq(W) /\ N \in Nat /\ N >= 3 * k + 1 /\ k \in Nat /\ k = Len(server.settings)
      /\ \A i \in 1..3 * k : W[i] = out[i]
      /\ W[3 * k + 1] = EmptyKey /\ At(W, 3 * k + 2) = b
  <2> HIDE DEF out
  <2>1. /\ IsSeq(W) /\ Len(out) \in Nat /\ Len(W) \in Nat /\ Len(W) >= Len(out) + 1
        /\ \A i \in 1..Len(out) : W[i] = out[i]
        /\ W[Len(out) + 1] = EmptyKey /\ At(W, Len(out) + 2) = b
    BY <1>2, EndedCells
  <2>2. Len(out) = 3 * k /\ k \in Nat /\ k = Len(server.settings)
    BY <1>2, <1>3 DEF out
  <2> HIDE DEF k, W
  <2> QED
    BY <2>1, <2>2
<1> HIDE DEF W, k, N
<1>5. ASSUME NEW m \in 1..k
      PROVE  W[3 * m - 2].x # <<>> /\ ReadsSetting("client", Agreed, At(W, 3 * m - 2)) = Ok(list[m], At(W, 3 * m + 1))
  <2> DEFINE p == 3 * m - 2
             key == server.settings[m][1]
             text == server.settings[m][2]
  <2>1. 3 * m - 1 = p + 1 /\ 3 * m = p + 2 /\ 3 * m + 1 = p + 3 /\ p \in Nat
        /\ p \in 1..Len(W) /\ p + 1 \in 1..Len(W) /\ p + 2 \in 1..Len(W)
        /\ p \in 1..3 * k /\ p + 1 \in 1..3 * k /\ p + 2 \in 1..3 * k
    BY <1>4 DEF N
  <2>2. out[p] = Text(key) /\ out[p + 1] = Var(0) /\ out[p + 2] = Text(text)
    BY <1>4, <2>1, SettingCells
  <2>3. key # ""
    <3>1. m \in 1..Len(server.settings) /\ server.settings \in Seq(SettingNames \X SettingTexts)
      BY <1>4, PeerIs
    <3>2. server.settings[m] \in SettingNames \X SettingTexts
      BY <3>1
    <3>3. key \in SettingNames
      BY <3>2
    <3> QED
      BY <3>3 DEF SettingNames
  <2>4. list[m] = [key |-> key, important |-> FALSE, custom |-> FALSE, value |-> parse_setting_value(text)]
    BY <1>4 DEF ToldSettings
  <2> HIDE DEF p, key, text, out, list
  <2>5. W[p] = Text(key) /\ W[p + 1] = Var(0) /\ W[p + 2] = Text(text)
    BY <1>4, <2>1, <2>2
  <2>6. decode_setting(At(W, p))
          = Ok([key |-> key, important |-> FALSE, custom |-> FALSE, value |-> parse_setting_value(text)], At(W, p + 3))
    BY <1>4, <2>1, <2>5, OneSettingDecoded
  <2>7. ReadsSetting("client", Agreed, At(W, p)) = Ok(list[m], At(W, p + 3))
    BY <2>4, <2>6 DEF ReadsSetting
  <2>8. W[p].x # <<>>
    BY <2>3, <2>5, TextIs
  <2> QED
    BY <2>1, <2>7, <2>8 DEF p
<1>6. ASSUME NEW r
      PROVE  step(r) = CollectStep("client", Agreed, r)
  BY DEF CollectStep, ReadsSetting, Then
<1> HIDE DEF step, list
<1>7. /\ \E f : f = [n \in 0..N |-> f[n]] /\ CollectRun("client", Agreed, W, f)
      /\ \A g : CollectRun("client", Agreed, W, g) => g[N] = Ok(list, At(W, 3 * k + 1))
      /\ ReadCell(STR, At(W, 3 * k + 1)) = Ok(<<>>, b)
  <2> DEFINE side == "client"
  <2>1. \A m \in 1..Len(list) :
           W[3 * m - 2].x # <<>> /\ ReadsSetting(side, Agreed, At(W, 3 * m - 2)) = Ok(list[m], At(W, 3 * m + 1))
    BY <1>5 DEF k
  <2>2. Len(W) \in Nat /\ Len(W) >= 3 * Len(list) + 1 /\ W[3 * Len(list) + 1] = EmptyKey
    BY <1>4 DEF k, N
  <2> HIDE DEF side
  <2>3. Placed(side, Agreed, W, list)
    BY <1>3, <1>4, <2>1, <2>2 DEF Placed, list
  <2>4. /\ \E f : f = [n \in 0..Len(W) |-> f[n]] /\ CollectRun(side, Agreed, W, f)
        /\ \A g : CollectRun(side, Agreed, W, g) => g[Len(W)] = Ok(list, At(W, 3 * Len(list) + 1))
        /\ ReadCell(STR, At(W, 3 * Len(list) + 1)) = Ok(<<>>, At(W, 3 * Len(list) + 2))
    BY <2>3, CollectsAll
  <2> QED
    BY <1>4, <2>4 DEF side, k, N
<1>8. read = rule(read)
  <2>1. PICK f : f = [n \in 0..N |-> f[n]] /\ CollectRun("client", Agreed, W, f)
    BY <1>7
  <2>2. \A n \in 0..N : f[n] = IF n = 0 THEN Ok(<<>>, W) ELSE step(f[n - 1])
    BY <1>6, <2>1 DEF CollectRun, N
  <2>3. f = rule(f)
    BY <2>1, <2>2, Zenon
  <2> HIDE DEF rule
  <2> QED
    BY <2>3, Zenon
<1> HIDE DEF read
<1>9. read[N] = Ok(list, At(W, 3 * k + 1))
  <2>1. \A n \in 0..N : read[n] = IF n = 0 THEN Ok(<<>>, W) ELSE step(read[n - 1])
    BY <1>8
  <2>2. 0 \in 0..N
    BY <1>4
  <2>3. CollectRun("client", Agreed, W, read)
    BY <1>6, <2>1, <2>2 DEF CollectRun, N
  <2> QED
    BY <1>7, <2>3
<1> DEFINE wire == At(W, 3 * k + 1)
<1> HIDE DEF wire
<1>10. decode_settings(W) = Ok(list, b)
  <2>1. read[N] = Ok(list, wire) /\ ReadCell(STR, wire) = Ok(<<>>, b)
    BY <1>7, <1>9 DEF wire
  <2> HIDE DEF rule
  <2> QED
    BY <1>1, <2>1 DEF Then, Ok
<1> QED
  BY <1>10 DEF W, list

\* As many strings as there are cells of a list.
LEMMA ManyRead ==
  ASSUME NEW list, IsSeq(list), NEW W, IsSeq(W), Len(list) <= Len(W),
         \A i \in 1..Len(list) : W[i].w = STR /\ W[i].x = list[i] /\ ~(Len(list[i]) > MAX_STRING_SIZE)
  PROVE  ReadMany(Len(list), read_string, W) = Ok(list, At(W, Len(list) + 1))
<1> DEFINE N == Len(list)
           step(r) == Then(r, LAMBDA all, rest : Then(read_string(rest), LAMBDA one, rest2 : Ok(Append(all, one), rest2)))
           rule(r) == [i \in 0..N |-> IF i = 0 THEN Ok(<<>>, W) ELSE step(r[i - 1])]
           read == CHOOSE r : r = rule(r)
           state(i) == Ok(Begin(list, i), At(W, i + 1))
           f == [i \in 0..N |-> state(i)]
<1>1. ReadMany(N, read_string, W) = read[N]
  BY Zenon DEF ReadMany
<1>2. N \in Nat /\ Len(W) \in Nat
  <2>1. PICK S, T : list \in Seq(S) /\ W \in Seq(T)
    BY DEF IsSeq
  <2> QED
    BY <2>1
<1>3. N <= Len(W) /\ \A i \in 1..N : W[i].w = STR /\ W[i].x = list[i] /\ ~(Len(list[i]) > MAX_STRING_SIZE)
  OBVIOUS
<1>4. state(0) = Ok(<<>>, W) /\ state(N) = Ok(list, At(W, N + 1))
  <2>1. Begin(list, 0) = <<>> /\ At(W, 1) = W /\ Begin(list, N) = list
    BY FrontGrows, Place
  <2> HIDE DEF N
  <2> QED
    BY <2>1
<1> HIDE DEF N
<1>5. ASSUME NEW i \in Nat, i + 1 <= N
      PROVE  step(state(i)) = state(i + 1)
  <2> DEFINE m == i + 1
             front == Begin(list, i)
             wire == At(W, m)
             after == At(W, m + 1)
             x == list[m]
             more == Append(front, x)
  <2>1. m \in 1..N /\ m \in 1..Len(W)
    BY <1>2, <1>3, <1>5
  <2>2. more = Begin(list, m)
    BY FrontGrows
  <2>3. state(i) = Ok(front, wire) /\ state(i + 1) = Ok(more, after)
    BY <2>2
  <2> HIDE DEF m
  <2>4. ReadCell(STR, wire) = Ok(x, after) /\ ~(Len(x) > MAX_STRING_SIZE)
    BY <1>3, <2>1, CellRead
  <2> HIDE DEF state, front, wire, after, x
  <2>5. read_string(wire) = Ok(x, after)
    BY <2>4 DEF read_string, Then, Ok
  <2>6. step(Ok(front, wire)) = Ok(more, after)
    BY <2>5 DEF Then, Ok
  <2> HIDE DEF step
  <2> QED
    BY <2>3, <2>6
<1> HIDE DEF state, step
<1>6. f = rule(f)
  <2>1. ASSUME NEW i \in 0..N
        PROVE  f[i] = IF i = 0 THEN Ok(<<>>, W) ELSE step(f[i - 1])
    <3>1. CASE i = 0
      BY <1>4, <3>1
    <3>2. CASE i # 0
      <4>1. i - 1 \in Nat /\ i - 1 \in 0..N /\ (i - 1) + 1 = i /\ (i - 1) + 1 <= N
        BY <1>2, <3>2
      <4>2. f[i] = state(i) /\ f[i - 1] = state(i - 1)
        BY <4>1
      <4>3. step(state(i - 1)) = state((i - 1) + 1)
        BY <1>5, <4>1
      <4> HIDE DEF f
      <4> QED
        BY <3>2, <4>1, <4>2, <4>3
    <3> QED
      BY <3>1, <3>2
  <2>2. f = [i \in 0..N |-> f[i]]
    OBVIOUS
  <2> HIDE DEF f
  <2> QED
    BY <2>1, <2>2, Zenon
<1>7. read = rule(read)
  <2> HIDE DEF rule, f
  <2> QED
    BY <1>6, Zenon
<1> HIDE DEF read
<1>8. \A i \in 0..N : read[i] = IF i = 0 THEN Ok(<<>>, W) ELSE step(read[i - 1])
  BY <1>7
<1> DEFINE T == {i \in Nat : i <= N => read[i] = state(i)}
<1>9. 0 \in T
  BY <1>2, <1>4, <1>8
<1>10. ASSUME NEW i \in Nat, i \in T
       PROVE  i + 1 \in T
  <2> SUFFICES ASSUME i + 1 <= N PROVE read[i + 1] = state(i + 1)
    OBVIOUS
  <2>1. i + 1 \in 0..N /\ i + 1 # 0 /\ (i + 1) - 1 = i /\ i <= N
    BY <1>2
  <2>2. read[i + 1] = step(read[i])
    BY <1>8, <2>1
  <2> QED
    BY <1>5, <1>10, <2>1, <2>2
<1>11. N \in T
  <2> HIDE DEF T
  <2> QED
    BY <1>2, <1>9, <1>10, Inductive
<1>12. read[N] = Ok(list, At(W, N + 1))
  BY <1>2, <1>4, <1>11
<1> QED
  BY <1>1, <1>12 DEF N

\* The rules for passwords are read and not kept.
LEMMA RulesRead ==
  ASSUME PeersMeet, NEW b, IsSeq(b)
  PROVE  \E rules : read_rules(Agreed, <<Var(server.rules)>> \o (HelloRules \o b)) = Ok(rules, b)
<1> DEFINE n == 2 * server.rules
           list == [i \in 1..n |-> Text("rule").x]
           out == HelloRules
           X == out \o b
           c == Var(server.rules)
           W == <<c>> \o X
<1>1. n \in Nat /\ IsSeq(out) /\ Len(out) = n
  BY PeerIs, HelloParts
<1>2. Text("rule").w = STR /\ Text("rule").x = <<"rule">> /\ c.w = VAR /\ c.x = <<server.rules>>
  BY DEF Text, Var, Num, Cell
<1>3. \A i \in 1..n : out[i] = Text("rule") /\ list[i] = Text("rule").x
  BY DEF HelloRules
<1>4. IsSeq(list) /\ Len(list) = n
  <2>1. list = [i \in 1..n |-> list[i]]
    OBVIOUS
  <2> HIDE DEF list, n
  <2> QED
    BY <1>1, <2>1, ListIsSeq
<1>5. ~(Len(Text("rule").x) > MAX_STRING_SIZE)
  <2> DEFINE z == Len(Text("rule").x)
  <2>1. z = 1
    BY <1>2
  <2> HIDE DEF z
  <2>2. ~(z > MAX_STRING_SIZE)
    BY <2>1 DEF MAX_STRING_SIZE
  <2> QED
    BY <2>2 DEF z
<1> HIDE DEF out, list, c
<1>6. /\ IsSeq(X) /\ Len(out) \in Nat /\ Len(b) \in Nat /\ Len(X) = Len(out) + Len(b)
      /\ \A i \in 1..Len(out) : X[i] = out[i]
  BY <1>1, Concatenation
<1>7. At(X, Len(out) + 1) = b
  BY <1>1, PlaceAfter
<1> HIDE DEF X, n
<1>8. ReadMany(n, read_string, X) = Ok(list, b)
  <2>1. Len(list) <= Len(X)
    BY <1>1, <1>4, <1>6
  <2>2. \A i \in 1..Len(list) : X[i].w = STR /\ X[i].x = list[i] /\ ~(Len(list[i]) > MAX_STRING_SIZE)
    BY <1>1, <1>2, <1>3, <1>4, <1>5, <1>6
  <2>3. ReadMany(Len(list), read_string, X) = Ok(list, At(X, Len(list) + 1))
    BY <1>4, <1>6, <2>1, <2>2, ManyRead
  <2>4. At(X, Len(list) + 1) = b
    BY <1>1, <1>4, <1>7
  <2>5. ReadMany(n, read_string, X) = ReadMany(Len(list), read_string, X)
    BY <1>4
  <2> QED
    BY <2>3, <2>4, <2>5
<1>9. ReadNum(VAR, W) = Ok(server.rules, X)
  <2>1. ReadCell(VAR, W) = Ok(<<server.rules>>, X)
    BY <1>2, <1>6, FirstRead
  <2> HIDE DEF W
  <2> QED
    BY <2>1 DEF ReadNum, Then, Ok
<1>10. read_rules(Agreed, W) = Ok(list, b)
  <2>1. ~(Agreed < PASSWORD_COMPLEXITY_RULES)
    BY AgreedIs DEF CHUNKED_PACKETS, PASSWORD_COMPLEXITY_RULES
  <2> DEFINE G(k, rest) == ReadMany(2 * k, read_string, rest)
  <2>2. read_rules(Agreed, W) = Then(ReadNum(VAR, W), LAMBDA k, rest : G(k, rest))
    BY <2>1, Zenon DEF read_rules
  <2>3. G(server.rules, X) = Ok(list, b)
    BY <1>8 DEF n
  <2> HIDE DEF G, W
  <2>4. Then(ReadNum(VAR, W), LAMBDA k, rest : G(k, rest)) = G(server.rules, X)
    BY <1>9 DEF Then, Ok
  <2> QED
    BY <2>2, <2>3, <2>4
<1> QED
  BY <1>10 DEF W, X, out, c

\* So is the nonce.
NonceLayout == << <<"nonce", 8, INTERSERVER_SECRET_V2>> >>

\* The client reads past the nonce.
LEMMA NonceRead ==
  ASSUME PeersMeet, NEW b, IsSeq(b)
  PROVE  LET r == ReadLayout(NonceLayout, Agreed, <<Num(8, 0)>> \o b) IN r.st = "ok" /\ r.rest = b
<1> DEFINE L == NonceLayout
           c == Num(8, 0)
           a == <<c>>
<1>1. Len(L) = 1 /\ Distinct(L) /\ L[1][2] = 8 /\ L[1][3] = INTERSERVER_SECRET_V2
  BY DEF NonceLayout, Distinct
<1>2. ~Lacks(L, Agreed, 1)
  BY <1>1, AgreedIs DEF Lacks, INTERSERVER_SECRET_V2, CHUNKED_PACKETS
<1>3. c.w = 8
  BY DEF Num, Cell
<1> HIDE DEF c, L
<1>4. a \in Seq({c}) /\ Len(a) = 1 /\ a[1] = c
  OBVIOUS
<1>5. IsSeq(a)
  BY <1>4 DEF IsSeq
<1> HIDE DEF a
<1>6. Spans(L, Agreed, a, 0, 1)
  <2>1. a[1].w = L[1][2]
    BY <1>1, <1>3, <1>4
  <2> QED
    BY <1>1, <1>2, <1>4, <2>1 DEF Spans
<1>7. LET r == ReadLayout(L, Agreed, a \o b) IN r.st = "ok" /\ r.rest = b
  <2>1. Distinct(L) /\ Len(L) \in Nat
    BY <1>1
  <2> QED
    BY <1>5, <1>6, <2>1, SpanReads
<1> QED
  BY <1>7, Zenon DEF L, a, c

\* The client reads the flags of later revisions.
LEMMA EndReads ==
  ASSUME PeersMeet
  PROVE  ReadLayout(ServerHelloEnd, Agreed, HelloEnd).st = "ok"
<1> DEFINE L == ServerHelloEnd
           R == Agreed
           c == Var(1)
           a == HelloEnd
           hi == IF R < QUERY_PLAN_SERIALIZATION THEN 0 ELSE IF R < VERSIONED_CLUSTER_FUNCTION THEN 1 ELSE 2
<1>1. /\ Len(L) = 2 /\ Distinct(L) /\ L[1][2] = VAR /\ L[2][2] = VAR
      /\ L[1][3] = QUERY_PLAN_SERIALIZATION /\ L[2][3] = VERSIONED_CLUSTER_FUNCTION
  BY DEF ServerHelloEnd, Distinct
<1>2. /\ R \in Nat /\ QUERY_PLAN_SERIALIZATION = 54477 /\ VERSIONED_CLUSTER_FUNCTION = 54479
  BY AgreedIs DEF QUERY_PLAN_SERIALIZATION, VERSIONED_CLUSTER_FUNCTION
<1>3. c.w = VAR
  BY DEF Var, Num, Cell
<1>4. a = (IF R >= QUERY_PLAN_SERIALIZATION THEN <<c>> ELSE <<>>) \o (IF R >= VERSIONED_CLUSTER_FUNCTION THEN <<c>> ELSE <<>>)
  BY DEF HelloEnd, Since
<1> HIDE DEF a, c, L, R
<1>5. hi \in 0..2 /\ a \in Seq({c}) /\ Len(a) = hi /\ (\A i \in 1..hi : a[i] = c)
  <2>1. CASE R < QUERY_PLAN_SERIALIZATION
    <3>1. a = <<>> \o <<>> /\ hi = 0
      BY <1>2, <1>4, <2>1
    <3> QED
      BY <3>1
  <2>2. CASE ~(R < QUERY_PLAN_SERIALIZATION) /\ R < VERSIONED_CLUSTER_FUNCTION
    <3>1. R >= QUERY_PLAN_SERIALIZATION /\ ~(R >= VERSIONED_CLUSTER_FUNCTION)
      BY <1>2, <2>2
    <3>2. hi = 1
      BY <2>2
    <3> HIDE DEF hi
    <3>3. a = <<c>> \o <<>>
      BY <1>4, <3>1
    <3> QED
      BY <3>2, <3>3
  <2>3. CASE ~(R < QUERY_PLAN_SERIALIZATION) /\ ~(R < VERSIONED_CLUSTER_FUNCTION)
    <3>1. a = <<c>> \o <<c>> /\ hi = 2
      BY <1>2, <1>4, <2>3
    <3> QED
      BY <3>1
  <2> QED
    BY <2>1, <2>2, <2>3
<1>6. (Lacks(L, R, 1) <=> hi = 0) /\ (Lacks(L, R, 2) <=> hi < 2)
  BY <1>1, <1>2 DEF Lacks
<1>7. IsSeq(a) /\ IsSeq(<<>>)
  BY <1>5, PiecesAreSeqs DEF IsSeq
<1> HIDE DEF hi
<1>8. Spans(L, R, a, 0, hi)
  BY <1>1, <1>3, <1>5, <1>6 DEF Spans
<1>9. ReadLayout(L, R, a \o <<>>).st = "ok"
  <2> DEFINE b == <<>>
             r == ReadLayout(L, R, a \o b)
  <2>1. Distinct(L) /\ Len(L) \in Nat
    BY <1>1
  <2>2. IsSeq(b)
    BY <1>7
  <2> HIDE DEF b
  <2>3. r.st = "ok" /\ r.rest = b
    BY <1>7, <1>8, <2>1, <2>2, SpanReads
  <2> QED
    BY <2>3 DEF b
<1>10. a \o <<>> = a
  BY <1>7, JoinsNothing
<1> QED
  BY <1>9, <1>10 DEF a, L, R

\* The client reads the rest of the hello, and keeps what the server tells.
LEMMA HelloTells ==
  ASSUME PeersMeet, NEW agreed
  PROVE  LET r == HelloTail(agreed, HelloRest)
         IN r.st = "ok" /\ r.v.settings = IF Agreed >= SERVER_SETTINGS THEN <<ToldSettings>> ELSE <<>>
<1> DEFINE E == HelloEnd
           S == HelloSettings \o E
           M == <<Num(8, 0)>> \o S
           has == Agreed >= SERVER_SETTINGS
           n == ReadLayout(NonceLayout, Agreed, M)
           d == IF has THEN decode_settings(S) ELSE Ok(<<>>, S)
           G(settings, r5) ==
              Then(ReadLayout(ServerHelloEnd, Agreed, r5), LAMBDA last, r6 :
                Ok([revision |-> Agreed, chunked_send |-> agreed[1], chunked_recv |-> agreed[2],
                    settings |-> IF has THEN <<settings>> ELSE <<>>], r6))
           H(r4) == Then(IF has THEN decode_settings(r4) ELSE Ok(<<>>, r4), LAMBDA settings, r5 : G(settings, r5))
           J(r3) == Then(ReadLayout(NonceLayout, Agreed, r3), LAMBDA nonce, r4 : H(r4))
           r == HelloTail(agreed, HelloRest)
<1>1. r = Then(read_rules(Agreed, HelloRest), LAMBDA rules, r3 : J(r3))
  BY Zenon DEF HelloTail, NonceLayout
<1>2. IsSeq(S) /\ IsSeq(M) /\ IsSeq(E)
  <2>1. IsSeq(HelloSettings) /\ IsSeq(HelloEnd) /\ IsSeq(M)
    BY HelloParts
  <2> QED
    BY <2>1, Concatenation
<1>3. PICK rules : read_rules(Agreed, HelloRest) = Ok(rules, M)
  <2>1. HelloRest = <<Var(server.rules)>> \o (HelloRules \o M)
    BY Zenon DEF HelloRest
  <2> HIDE DEF M
  <2> QED
    BY <1>2, <2>1, RulesRead
<1>4. n.st = "ok" /\ n.rest = S
  <2> HIDE DEF S
  <2> QED
    BY <1>2, NonceRead
<1>5. has => d = Ok(ToldSettings, E)
  <2> SUFFICES ASSUME has PROVE decode_settings(S) = Ok(ToldSettings, E)
    OBVIOUS
  <2>1. S = Joined(ServerSettings, Joined(Ending, E))
    <3>1. HelloSettings = ServerSettings \o Ending
      BY DEF HelloSettings, Since, Ending, EmptyKey
    <3>2. IsSeq(ServerSettings) /\ IsSeq(Ending)
      BY HelloParts, PiecesAreSeqs DEF Ending
    <3> HIDE DEF E
    <3>3. (ServerSettings \o Ending) \o E = ServerSettings \o (Ending \o E)
      BY <1>2, <3>2, Associates
    <3> QED
      BY <3>1, <3>3 DEF Joined
  <2> HIDE DEF S, E
  <2> QED
    BY <1>2, <2>1, SettingsDecoded
<1> HIDE DEF M
<1>6. J(M) = H(S)
  <2> HIDE DEF H
  <2> QED
    BY <1>4 DEF Then
<1>7. H(S) = Then(d, LAMBDA settings, r5 : G(settings, r5))
  BY Zenon
<1>8. r = H(S)
  <2> HIDE DEF J, H, r
  <2> QED
    BY <1>1, <1>3, <1>6 DEF Then, Ok
<1>9. ASSUME NEW settings
      PROVE  G(settings, E).st = "ok" /\ G(settings, E).v.settings = IF has THEN <<settings>> ELSE <<>>
  <2> DEFINE f == ReadLayout(ServerHelloEnd, Agreed, E)
             known == IF has THEN <<settings>> ELSE <<>>
             v == [revision |-> Agreed, chunked_send |-> agreed[1], chunked_recv |-> agreed[2], settings |-> known]
             g == G(settings, E)
  <2>1. f.st = "ok"
    BY EndReads
  <2>2. g = Then(f, LAMBDA last, r6 : Ok(v, r6))
    BY Zenon
  <2>3. v.settings = known
    OBVIOUS
  <2> HIDE DEF f, v, g
  <2>4. g = Ok(v, f.rest)
    BY <2>1, <2>2 DEF Then
  <2>5. g.st = "ok" /\ g.v.settings = known
    BY <2>3, <2>4 DEF Ok
  <2> QED
    BY <2>5 DEF g
<1> HIDE DEF G, H, r
<1>10. CASE has
  <2> HIDE DEF has, d
  <2>1. r = G(ToldSettings, E)
    BY <1>5, <1>7, <1>8, <1>10 DEF Then, Ok
  <2> QED
    BY <1>9, <1>10, <2>1 DEF has, r
<1>11. CASE ~has
  <2>1. d = Ok(<<>>, S)
    BY <1>11
  <2>1a. S = E
    <3>1. HelloSettings = <<>>
      BY <1>11 DEF HelloSettings, Since
    <3> HIDE DEF E
    <3> QED
      BY <1>2, <3>1, JoinsNothing
  <2> HIDE DEF has, d
  <2>2. r = G(<<>>, E)
    BY <1>7, <1>8, <2>1, <2>1a DEF Then, Ok
  <2> QED
    BY <1>9, <1>11, <2>2 DEF has, r
<1> QED
  BY <1>10, <1>11

\* A setting that is found has the name that was looked for.
LEMMA FoundIs ==
  ASSUME NEW settings, NEW key, Len(settings) \in Nat, Find(settings, key) # 0
  PROVE  Find(settings, key) \in 1..Len(settings) /\ settings[Find(settings, key)].key = key
<1> DEFINE n == Len(settings)
           S == {i \in 1..n : settings[i].key = key}
<1>1. Find(settings, key) = IF S # {} THEN Min(S) ELSE 0
  BY Zenon DEF Find, SelectInSeq
<1>2. S # {} /\ S \subseteq 1..n /\ n \in Nat
  BY <1>1
<1>3. Min(S) \in S
  <2> HIDE DEF S, n
  <2>0. PICK a : a \in S
    BY <1>2
  <2>1. a \in S /\ a \in Nat
    BY <1>2, <2>0
  <2> DEFINE T == {i \in Nat : \A y \in S : y > i}
  <2>2. a \notin T
    BY <2>1
  <2> HIDE DEF T
  <2>3. PICK k \in Nat : k \notin T /\ (k > 0 => k - 1 \in T)
    BY <2>1, <2>2, LeastNot
  <2>4. PICK y \in S : ~(y > k)
    BY <2>3 DEF T
  <2>5. k > 0 /\ y \in Nat /\ y <= k
    BY <1>2, <2>3, <2>4
  <2>6. \A z \in S : z > k - 1 /\ z \in Nat
    BY <1>2, <2>3, <2>5 DEF T
  <2>7. \A z \in S : y <= z
    BY <2>5, <2>6
  <2>8. \E x \in S : \A z \in S : x <= z
    BY <2>7
  <2> QED
    BY <2>8 DEF Min
<1>4. Find(settings, key) \in S
  <2> HIDE DEF S
  <2> QED
    BY <1>1, <1>2, <1>3
<1> QED
  BY <1>4

\* What the client knows of the server's settings once they have met.
Telling == hello # <<>> => hello.settings = IF Agreed >= SERVER_SETTINGS THEN <<ToldSettings>> ELSE <<>>

\* The server's settings are in force before any SET.
LEMMA OwnInForce ==
  ASSUME PeersMeet, NEW i \in 1..Len(server.settings)
  PROVE  LET own == Apply(<<>>, server.settings)
             key == server.settings[i][1]
         IN key \in DOMAIN own /\ own[key] = server.settings[i][2]
<1> DEFINE s == server.settings
           e == <<>>
           own == Apply(e, s)
           key == s[i][1]
<1>1. s \in Seq(SettingNames \X SettingTexts) /\ \A j, k \in 1..Len(s) : s[j][1] = s[k][1] => j = k
  BY PeerIs
<1>2. i \in 1..Len(s)
  OBVIOUS
<1> HIDE DEF s, e
<1>3. IsSeq(s)
  BY <1>1 DEF IsSeq
<1>4. /\ DOMAIN own = DOMAIN e \union Names(s)
      /\ \A k \in Names(s) : \E j \in 1..Len(s) : s[j][1] = k /\ own[k] = s[j][2]
  <2>1. DOMAIN own = DOMAIN e \union Names(s)
    BY <1>3, ApplyGives
  <2>2. \A k \in Names(s) : \E j \in 1..Len(s) : s[j][1] = k /\ own[k] = s[j][2]
    <3>1. ASSUME NEW k \in Names(s)
          PROVE  \E j \in 1..Len(s) : s[j][1] = k /\ own[k] = s[j][2]
      BY <1>3, OneNamed
    <3> QED
      BY <3>1, Zenon
  <2> QED
    BY <2>1, <2>2
<1>5. key \in Names(s)
  BY <1>2, Zenon DEF Names
<1> HIDE DEF own
<1>6. PICK j \in 1..Len(s) : s[j][1] = key /\ own[key] = s[j][2]
  BY <1>4, <1>5
<1>7. j = i
  BY <1>1, <1>2, <1>6
<1> QED
  BY <1>4, <1>5, <1>6, <1>7 DEF own, s, e

\* A query runs with its settings, those that the client left out among them.
LEMMA SettingsTaken ==
  ASSUME PeersMeet, Telling, hello # <<>>, session = Apply(<<>>, server.settings), NEW q \in Asks, NEW pairs,
         AskedPairs(q, options.compression, hello.settings, pairs), q.settings # <<>>, NEW j \in 1..Len(q.settings[1])
  PROVE  Apply(session, pairs)[q.settings[1][j].key] = Meaning(to_string(q.settings[1][j].value))
<1> DEFINE s == q.settings[1][j]
           a == Apply(session, pairs)
           ignore == hello.settings
           left == j \in Skips(q.settings[1], ignore)
<1>1. IsSeq(pairs) /\ OwnTold(q, ignore, pairs)
  <2> DEFINE m == options.compression
  <2>1. m \in Methods
    BY PeerIs
  <2>2. AskedPairs(q, m, ignore, pairs)
    OBVIOUS
  <2> HIDE DEF m, ignore
  <2> QED
    BY <2>1, <2>2, AskedTold
<1>2. /\ \A k \in Names(pairs) : \E i \in 1..Len(pairs) : pairs[i][1] = k /\ a[k] = pairs[i][2]
      /\ \A k \in DOMAIN session : k \notin Names(pairs) => a[k] = session[k]
  <2>1. \A k \in Names(pairs) : \E i \in 1..Len(pairs) : pairs[i][1] = k /\ a[k] = pairs[i][2]
    <3>1. ASSUME NEW k \in Names(pairs)
          PROVE  \E i \in 1..Len(pairs) : pairs[i][1] = k /\ a[k] = pairs[i][2]
      BY <1>1, OneNamed
    <3> QED
      BY <3>1, Zenon
  <2>2. \A k \in DOMAIN session : k \notin Names(pairs) => a[k] = session[k]
    BY <1>1, ApplyGives
  <2> QED
    BY <2>1, <2>2
<1>3. IF left THEN s.key \notin Names(pairs)
      ELSE s.key \in Names(pairs) /\ \A i \in 1..Len(pairs) : pairs[i][1] = s.key => pairs[i][2] = Meaning(to_string(s.value))
  <2> HIDE DEF ignore
  <2> QED
    BY <1>1 DEF OwnTold
<1> HIDE DEF a
<1>4. CASE ~left
  <2> HIDE DEF left, s
  <2>1. PICK i \in 1..Len(pairs) : pairs[i][1] = s.key /\ a[s.key] = pairs[i][2]
    BY <1>2, <1>3, <1>4
  <2>2. a[s.key] = Meaning(to_string(s.value))
    BY <1>3, <1>4, <2>1
  <2> QED
    BY <2>2 DEF a, s
<1>5. CASE left
  <2> DEFINE known == ToldSettings
             i == Find(known, s.key)
             text == server.settings[i][2]
  <2>1. ignore # <<>> /\ Ignored(s, ignore[1])
    <3> HIDE DEF ignore
    <3> QED
      BY <1>5 DEF Skips, Skipped
  <2>2. ignore[1] = known
    BY <2>1 DEF Telling
  <2>3. i # 0 /\ known[i].value = s.value
    BY <2>1, <2>2 DEF Ignored
  <2>4. Len(known) = Len(server.settings) /\ Len(known) \in Nat
    <3> DEFINE n == Len(server.settings)
    <3>1. n \in Nat
      BY PeerIs
    <3>2. known = [k \in 1..n |-> known[k]]
      BY DEF ToldSettings
    <3> HIDE DEF known, n
    <3>3. Len(known) = n
      BY <3>1, <3>2, ListIsSeq
    <3> QED
      BY <3>1, <3>3 DEF n
  <2>5. i \in 1..Len(server.settings) /\ known[i].key = s.key
    <3> DEFINE key == s.key
    <3> HIDE DEF known, key
    <3>1. Find(known, key) # 0
      BY <2>3 DEF key
    <3>2. Find(known, key) \in 1..Len(known) /\ known[Find(known, key)].key = key
      BY <2>4, <3>1, FoundIs
    <3> QED
      BY <2>4, <3>2 DEF key
  <2> HIDE DEF i
  <2>6. known[i] = [key |-> server.settings[i][1], important |-> FALSE, custom |-> FALSE, value |-> parse_setting_value(text)]
    BY <2>5 DEF ToldSettings
  <2>7. server.settings[i][1] = s.key /\ s.value = parse_setting_value(text)
    BY <2>3, <2>5, <2>6
  <2>8. text \in SettingTexts
    <3>1. server.settings \in Seq(SettingNames \X SettingTexts)
      BY PeerIs
    <3>2. server.settings[i] \in SettingNames \X SettingTexts
      BY <2>5, <3>1
    <3> QED
      BY <3>2
  <2>9. s.key \in DOMAIN session /\ session[s.key] = text
    BY <2>5, <2>7, OwnInForce
  <2>10. Meaning(to_string(s.value)) = text
    BY <2>7, <2>8, ParseMeans
  <2>11. a[s.key] = session[s.key]
    BY <1>2, <1>3, <1>5, <2>9
  <2> QED
    BY <2>9, <2>10, <2>11 DEF a
<1> QED
  BY <1>4, <1>5

-----------------------------------------------------------------------------
(* The settings that a query runs with.                                    *)
\* A query has the settings that were asked for it.
AsSaid(q, force) ==
    q.settings # <<>> =>
       \A j \in 1..Len(q.settings[1]) : force[q.settings[1][j].key] = Meaning(to_string(q.settings[1][j].value))

\* So have all that have run, as long as no query has changed the session.
Effective ==
    /\ Telling
    /\ ~changed => session = Apply(<<>>, server.settings)
    /\ ~changed => \A i \in 1..Len(ran) : AsSaid(asked[i], ran[i].settings)

\* Settings without pairs are as they were.
LEMMA AppliedNothing ==
  ASSUME NEW settings, NEW pairs
  PROVE  Apply(Apply(settings, pairs), <<>>) = Apply(settings, pairs)
<1> DEFINE a == Apply(settings, pairs)
           e == <<>>
           b == Apply(a, e)
           named(k) == {i \in DOMAIN e : e[i][1] = k}
           dom == DOMAIN a \union {e[i][1] : i \in DOMAIN e}
<1>1. a = [k \in DOMAIN a |-> a[k]]
  <2> DEFINE others(k) == {i \in DOMAIN pairs : pairs[i][1] = k}
             D == DOMAIN settings \union {pairs[i][1] : i \in DOMAIN pairs}
             val(k) == IF others(k) = {} THEN settings[k] ELSE pairs[Max(others(k))][2]
  <2>1. a = [k \in D |-> val(k)]
    BY Zenon DEF Apply
  <2> HIDE DEF D, val, a
  <2> QED
    BY <2>1
<1>2. b = [k \in dom |-> IF named(k) = {} THEN a[k] ELSE e[Max(named(k))][2]]
  BY Zenon DEF Apply
<1>3. DOMAIN e = {}
  OBVIOUS
<1> HIDE DEF e
<1>4. dom = DOMAIN a /\ \A k : named(k) = {}
  BY <1>3
<1> HIDE DEF a, b, dom, named
<1>5. b = [k \in DOMAIN a |-> a[k]]
  BY <1>2, <1>4
<1>6. b = a
  BY <1>1, <1>5, Zenon
<1> QED
  BY <1>6 DEF a, b, e

\* Nothing has been told or run at the start.
LEMMA InitEffective == SessionInit => Effective
<1> SUFFICES ASSUME SessionInit PROVE Effective
  OBVIOUS
<1>1. hello = <<>> /\ ran = <<>> /\ session = Apply(<<>>, server.settings)
  BY DEF SessionInit
<1>2. Len(ran) = 0
  BY <1>1
<1> QED
  BY <1>1, <1>2 DEF Effective, Telling

\* A step that leaves these variables alone keeps it.
LEMMA EffectiveStays ==
  ASSUME Effective, UNCHANGED <<server, hello, session, changed, ran>>,
         \A i \in 1..Len(ran) : asked'[i] = asked[i]
  PROVE  Effective'
<1>1. Telling'
  <2>1. Agreed' = Agreed /\ ToldSettings' = ToldSettings
    BY DEF Agreed, ToldSettings
  <2> QED
    BY <2>1 DEF Effective, Telling
<1>2. (~changed => session = Apply(<<>>, server.settings))'
  BY DEF Effective
<1>3. (~changed => \A i \in 1..Len(ran) : AsSaid(asked[i], ran[i].settings))'
  <2> SUFFICES ASSUME ~changed, NEW i \in 1..Len(ran) PROVE AsSaid(asked'[i], ran[i].settings)
    BY DEF AsSaid
  <2>1. AsSaid(asked[i], ran[i].settings)
    BY DEF Effective
  <2> QED
    BY <2>1
<1> QED
  BY <1>1, <1>2, <1>3 DEF Effective

\* With the hello the client knows the settings of the server.
LEMMA RecvHelloEffective ==
  ASSUME Meeting, Effective, RecvHello
  PROVE  Effective'
<1> DEFINE r == receive_hello(OwnModes, toClient)
<1>1. /\ link = "hello"
      /\ IF r.st = "ok" THEN hello' = r.v ELSE hello' = hello
      /\ UNCHANGED <<options, server, srv, asked, session, changed, ran>>
  BY Zenon DEF RecvHello, OwnModes, srvVars
<1>2. hello' = <<>> => hello' = hello
  <2>1. hello = <<>>
    BY RecvHelloMeeting
  <2> QED
    BY <2>1
<1>3. hello = <<>>
  BY RecvHelloMeeting
<1>4. CASE hello' = <<>>
  BY <1>1, <1>3, <1>4, EffectiveStays
<1>5. CASE hello' # <<>>
  <2>1. r.st = "ok" /\ hello' = r.v
    BY <1>1, <1>3, <1>5
  <2>2. srv' = "addendum"
    BY <1>5, RecvHelloMeeting
  <2>3. srv = "addendum" /\ toClient = ServerHello
    <3>1. srv = "addendum"
      BY <1>1, <2>2
    <3> QED
      BY <1>1, <3>1 DEF Meeting, Answered
  <2>4. r = receive_hello(OwnModes, ServerHello)
    BY <2>3, Zenon
  <2>5. r = HelloTail(SettledModes, HelloRest)
    <3> DEFINE x == receive_hello(OwnModes, ServerHello)
               y == HelloTail(SettledModes, HelloRest)
    <3>1. IF Settled THEN x = y ELSE x.st = "err"
      BY HelloReceived DEF Meeting
    <3>2. r = x
      BY <2>4
    <3> HIDE DEF r, x, y
    <3>3. r = y
      BY <2>1, <3>1, <3>2
    <3> QED
      BY <3>3 DEF y
  <2>6. r.v.settings = IF Agreed >= SERVER_SETTINGS THEN <<ToldSettings>> ELSE <<>>
    <3> DEFINE y == HelloTail(SettledModes, HelloRest)
               known == IF Agreed >= SERVER_SETTINGS THEN <<ToldSettings>> ELSE <<>>
    <3>1. y.v.settings = known
      BY HelloTells DEF Meeting
    <3> HIDE DEF r, y, known
    <3>2. r.v.settings = known
      BY <2>1, <2>5, <3>1 DEF y
    <3> QED
      BY <3>2 DEF known
  <2>7. Telling'
    <3> HIDE DEF r
    <3>1. Agreed' = Agreed /\ ToldSettings' = ToldSettings
      BY <1>1 DEF Agreed, ToldSettings
    <3> QED
      BY <2>1, <2>6, <3>1 DEF Telling
  <2>8. (~changed => session = Apply(<<>>, server.settings))'
    BY <1>1 DEF Effective
  <2>9. (~changed => \A i \in 1..Len(ran) : AsSaid(asked[i], ran[i].settings))'
    BY <1>1 DEF Effective, AsSaid
  <2> QED
    BY <2>7, <2>8, <2>9 DEF Effective
<1> QED
  BY <1>4, <1>5

\* Another query is asked.
LEMMA SendQueryEffective ==
  ASSUME Reading, Effective, NEW q \in Asks, SendQuery(q)
  PROVE  Effective'
<1> DEFINE more == Append(asked, q)
<1>1. UNCHANGED <<server, hello, session, changed, ran>> /\ asked' = more
  BY DEF SendQuery, srvVars
<1>2. Len(asked) \in Nat /\ \A i \in 1..Len(asked) : more[i] = asked[i]
  BY AppendIs DEF Reading, InOrder
<1>3. Len(ran) \in Nat /\ Len(ran) <= Len(asked)
  BY <1>2 DEF Reading, Unread
<1> HIDE DEF more
<1>4. \A i \in 1..Len(ran) : asked'[i] = asked[i]
  BY <1>1, <1>2, <1>3
<1> QED
  BY <1>1, <1>4, EffectiveStays

\* Another query runs, with its settings.
LEMMA SrvQueryEffective ==
  ASSUME Meeting, Reading, DelimiterReads, Effective, SrvQuery
  PROVE  Effective'
<1> DEFINE n == Len(ran)
           q == asked[n + 1]
<1>1. UNCHANGED <<options, hello, asked, server>>
  BY DEF SrvQuery, linkVars
<1>2. /\ hello # <<>> /\ q \in Asks /\ session' = Apply(session, q.set) /\ changed' = (changed \/ q.set # <<>>)
      /\ \E pairs : /\ AskedPairs(q, options.compression, hello.settings, pairs)
                    /\ ran' = Append(ran, [query |-> q.query, settings |-> Apply(session, pairs), params |-> <<>>])
  BY SrvQueryRuns
<1>3. PICK pairs : /\ AskedPairs(q, options.compression, hello.settings, pairs)
                   /\ ran' = Append(ran, [query |-> q.query, settings |-> Apply(session, pairs), params |-> <<>>])
  BY <1>2
<1>4. Telling'
  <2>1. Agreed' = Agreed /\ ToldSettings' = ToldSettings
    BY <1>1 DEF Agreed, ToldSettings
  <2> QED
    BY <1>1, <2>1 DEF Effective, Telling
<1> SUFFICES ASSUME ~changed'
             PROVE  /\ session' = Apply(<<>>, server'.settings)
                    /\ \A i \in 1..Len(ran') : AsSaid(asked'[i], ran'[i].settings)
  BY <1>4 DEF Effective, AsSaid
<1>5. ~changed /\ q.set = <<>>
  <2> DEFINE set == q.set
  <2> HIDE DEF set
  <2> QED
    BY <1>2 DEF set
<1>6. session = Apply(<<>>, server.settings) /\ \A i \in 1..n : AsSaid(asked[i], ran[i].settings)
  BY <1>5 DEF Effective
<1>7. session' = session
  <2>1. session' = Apply(session, <<>>)
    BY <1>2, <1>5, Zenon
  <2>2. Apply(session, <<>>) = session
    BY <1>6, AppliedNothing, Zenon
  <2> QED
    BY <2>1, <2>2
<1> DEFINE force == Apply(session, pairs)
           f == [query |-> q.query, settings |-> force, params |-> <<>>]
           more == Append(ran, f)
<1>8. AsSaid(q, force)
  <2> SUFFICES ASSUME q.settings # <<>>, NEW j \in 1..Len(q.settings[1])
               PROVE  Apply(session, pairs)[q.settings[1][j].key] = Meaning(to_string(q.settings[1][j].value))
    BY DEF AsSaid
  <2>1. PeersMeet /\ Telling
    BY DEF Meeting, Effective
  <2> DEFINE ask == q
  <2>2. ask \in Asks /\ ask.settings # <<>> /\ j \in 1..Len(ask.settings[1]) /\ AskedPairs(ask, options.compression, hello.settings, pairs)
    BY <1>2, <1>3
  <2> HIDE DEF ask
  <2>3. Apply(session, pairs)[ask.settings[1][j].key] = Meaning(to_string(ask.settings[1][j].value))
    BY <1>2, <1>6, <2>1, <2>2, SettingsTaken
  <2> QED
    BY <2>3 DEF ask
<1>9. f.settings = force
  OBVIOUS
<1> HIDE DEF force
<1>10. ran' = more
  BY <1>3 DEF force
<1> HIDE DEF f
<1>11. IsSeq(more) /\ n \in Nat /\ Len(more) = n + 1 /\ more[n + 1] = f /\ \A i \in 1..n : more[i] = ran[i]
  BY AppendIs DEF Reading, InOrder
<1> HIDE DEF more
<1>12. ASSUME NEW i \in 1..n + 1 PROVE AsSaid(asked[i], more[i].settings)
  <2>1. CASE i = n + 1
    BY <1>8, <1>9, <1>11, <2>1
  <2>2. CASE i # n + 1
    <3>1. i \in 1..n
      BY <1>11, <2>2
    <3> QED
      BY <1>6, <1>11, <3>1
  <2> QED
    BY <2>1, <2>2
<1> HIDE DEF n, q
<1>13. \A i \in 1..Len(ran') : AsSaid(asked'[i], ran'[i].settings)
  BY <1>1, <1>10, <1>11, <1>12
<1>14. session' = Apply(<<>>, server'.settings)
  BY <1>1, <1>6, <1>7, Zenon
<1> QED
  BY <1>13, <1>14

\* Every step keeps it.
LEMMA NextEffective ==
  ASSUME Meeting, Reading, DelimiterReads, Effective, [SessionNext]_sessionVars
  PROVE  Effective'
<1>1. CASE UNCHANGED sessionVars
  BY <1>1, EffectiveStays DEF sessionVars, linkVars, srvVars
<1>2. CASE SendHello
  BY <1>2, EffectiveStays DEF SendHello, srvVars
<1>3. CASE RecvPacket
  BY <1>3, EffectiveStays DEF RecvPacket, srvVars
<1>4. CASE SrvHello
  BY <1>4, EffectiveStays DEF SrvHello, linkVars
<1>5. CASE SrvAddendum
  BY <1>5, EffectiveStays DEF SrvAddendum, linkVars
<1>6. ASSUME NEW x \in Said, SrvPacket(x)
      PROVE  Effective'
  BY <1>6, EffectiveStays DEF SrvPacket, linkVars
<1> QED
  BY <1>1, <1>2, <1>3, <1>4, <1>5, <1>6, RecvHelloEffective, SendQueryEffective, SrvQueryEffective DEF SessionNext

\* With it the queries have the settings that were asked for.
LEMMA EffectiveSettings == Effective => SettingsInEffect
<1> SUFFICES ASSUME Effective, ~changed, NEW i \in 1..Len(ran), asked[i].settings # <<>>,
                    NEW j \in 1..Len(asked[i].settings[1])
             PROVE  ran[i].settings[asked[i].settings[1][j].key] = Meaning(to_string(asked[i].settings[1][j].value))
  BY DEF SettingsInEffect
<1>1. AsSaid(asked[i], ran[i].settings)
  BY DEF Effective
<1> QED
  BY <1>1 DEF AsSaid

\* A query runs with the settings that were asked for it, as long as no query has changed the
\* session: encode_with_ignore leaves out only settings that the server has told in its hello
\* with the same value, which are in force there.
THEOREM AlwaysInEffect ==
  ASSUME DelimiterReads
  PROVE  SessionSpec => []SettingsInEffect
<1>1. SessionInit => Meeting /\ Reading /\ Effective
  BY InitMeeting, InitReading, InitEffective
<1>2. Meeting /\ Reading /\ Effective /\ [SessionNext]_sessionVars => (Meeting /\ Reading /\ Effective)'
  BY NextMeeting, NextReading, NextEffective
<1>3. Meeting /\ Reading /\ Effective => SettingsInEffect
  BY EffectiveSettings
<1> QED
  BY <1>1, <1>2, <1>3, PTL DEF SessionSpec
-----------------------------------------------------------------------------
(* How a handshake ends.                                                   *)
\* A server that is reached answers, and the client gives up only if the modes do not settle.
LEMMA HelloAccepted ==
  ASSUME PeersMeet, Settled
  PROVE  receive_hello(OwnModes, ServerHello).st = "ok"
<1> DEFINE x == receive_hello(OwnModes, ServerHello)
           y == HelloTail(SettledModes, HelloRest)
<1>1. x = y
  BY HelloReceived
<1>2. y.st = "ok"
  BY HelloTells
<1> HIDE DEF x, y
<1> QED
  BY <1>1, <1>2 DEF x

\* Who gives up before the client has the hello has a reason.
Reasons ==
    hello = <<>> => /\ srv = "refused" => server.refuses
                    /\ link = "failed" => server.refuses \/ ~Settled

\* The client reads the hello.
LEMMA RecvHelloReasons ==
  ASSUME Meeting, Reasons, RecvHello
  PROVE  Reasons'
<1> DEFINE r == receive_hello(OwnModes, toClient)
<1>1. /\ link = "hello" /\ toClient # <<>>
      /\ r.st = "ok" => hello' = r.v
      /\ UNCHANGED <<options, server, srv>>
  BY Zenon DEF RecvHello, OwnModes, srvVars
<1>2. PeersMeet /\ (Settled' <=> Settled)
  BY <1>1, PeersStay DEF Meeting
<1>3. hello = <<>> /\ toClient = (IF server.refuses THEN Denied ELSE ServerHello)
  BY <1>1 DEF Meeting, Apart, Answered, Unmet, Met
<1>4. ~server.refuses /\ Settled => hello' # <<>>
  <2> SUFFICES ASSUME ~server.refuses, Settled PROVE hello' # <<>>
    OBVIOUS
  <2>1. r = receive_hello(OwnModes, ServerHello)
    BY <1>3
  <2>2. r = receive_hello(OwnModes, IF server.refuses THEN Denied ELSE ServerHello)
    BY <1>3
  <2> HIDE DEF r
  <2>3. r.st = "ok"
    BY <1>2, <2>1, HelloAccepted
  <2>4. r.v # <<>>
    BY <1>2, <2>2, <2>3, HelloAnswered
  <2> QED
    BY <1>1, <2>3, <2>4
<1> QED
  BY <1>1, <1>2, <1>3, <1>4 DEF Reasons

\* Every step keeps it.
LEMMA NextReasons ==
  ASSUME Meeting, Reasons, [SessionNext]_sessionVars
  PROVE  Reasons'
<1> DEFINE Same == UNCHANGED <<options, server>>
<1>1. Same
  BY DEF SessionNext, SendHello, RecvHello, SendQuery, RecvPacket, SrvHello, SrvAddendum, SrvQuery, SrvPacket,
         sessionVars, linkVars, srvVars
<1>2. Settled' <=> Settled
  BY <1>1, PeersStay DEF Meeting
<1>3. CASE UNCHANGED sessionVars
  BY <1>2, <1>3 DEF Reasons, sessionVars, linkVars, srvVars
<1>4. CASE SendHello
  BY <1>1, <1>2, <1>4 DEF Reasons, SendHello, srvVars
<1>5. ASSUME NEW q \in Asks, SendQuery(q)
      PROVE  Reasons'
  BY <1>5 DEF Reasons, Meeting, Unmet, SendQuery
<1>6. CASE RecvPacket
  BY <1>6 DEF Reasons, Meeting, Unmet, RecvPacket
<1>7. CASE SrvHello
  <2> DEFINE r == ReadLayout(ClientHelloLayout, 0, toServer)
  <2>1. /\ srv' = (CASE r.st # "ok" -> "torn" [] r.st = "ok" /\ server.refuses -> "refused" [] OTHER -> "addendum")
        /\ UNCHANGED <<link, hello>>
    BY <1>7, Zenon DEF SrvHello, linkVars
  <2> HIDE DEF r
  <2>2. srv' = "refused" => server.refuses
    BY <2>1
  <2> QED
    BY <1>1, <1>2, <2>1, <2>2 DEF Reasons
<1>8. CASE SrvAddendum
  BY <1>8 DEF Reasons, Meeting, Unmet, SrvAddendum, linkVars
<1>9. CASE SrvQuery
  BY <1>9 DEF Reasons, Meeting, Unmet, SrvQuery, linkVars
<1>10. ASSUME NEW x \in Said, SrvPacket(x)
       PROVE  Reasons'
  BY <1>10 DEF Reasons, Meeting, Unmet, SrvPacket, linkVars
<1> QED
  BY <1>3, <1>4, <1>5, <1>6, <1>7, <1>8, <1>9, <1>10, RecvHelloReasons DEF SessionNext

\* Modes that do not settle with a server that has one mode do not suit each other.
LEMMA Unsettled ==
  ASSUME PeersMeet, ~Settled, server.send = server.recv
  PROVE  ~Suits(options.ext.chunked_send, server.recv) \/ ~Suits(server.send, options.ext.chunked_recv)
<1> DEFINE s == negotiate(server.send, options.ext.chunked_send)
           c == negotiate(server.recv, options.ext.chunked_recv)
<1>1. /\ s.st \in {"ok", "err"} /\ c.st \in {"ok", "err"}
      /\ s.st = "err" => ~Suits(options.ext.chunked_send, server.send)
      /\ c.st = "err" => ~Suits(server.recv, options.ext.chunked_recv)
  BY PeerIs, Negotiates
<1>2. ~(s.st = "ok" /\ c.st = "ok")
  BY DEF Settled
<1> HIDE DEF s, c
<1> QED
  BY <1>1, <1>2

\* With these two both sides frame alike, and they give up only when they must.
LEMMA MeetingFrames == Meeting /\ Reasons => FramingAgrees
<1> SUFFICES ASSUME Meeting, Reasons PROVE FramingAgrees
  OBVIOUS
<1>1. hello # <<>> => SettledModes[1] = hello.chunked_send /\ SettledModes[2] = hello.chunked_recv /\ Settled
  BY DEF Meeting, Met
<1>2. hello # <<>> => /\ ~IsOptional(options.ext.chunked_send) => supports_chunked_send(hello) = IsChunked(options.ext.chunked_send)
                      /\ ~IsOptional(options.ext.chunked_recv) => supports_chunked_recv(hello) = IsChunked(options.ext.chunked_recv)
  BY <1>1, SettledKeep DEF Meeting, supports_chunked_send, supports_chunked_recv
<1>3. framed # <<>> => framed = [in |-> supports_chunked_send(hello), out |-> supports_chunked_recv(hello)]
  BY DEF Meeting, Unmet, Met
<1>4. srv = "refused" => server.refuses \/ server.send # server.recv
  BY DEF Meeting, Met, Reasons
<1>5. link = "failed" /\ hello = <<>> => server.refuses \/ ~Settled
  BY DEF Reasons
<1>6. PeersMeet
  BY DEF Meeting
<1> QED
  BY <1>2, <1>3, <1>4, <1>5, <1>6, Unsettled DEF FramingAgrees

\* Whatever modes the two sides want and whatever the server's revision: once they have met,
\* both frame what they send as the other expects it, and what the client insists on is kept;
\* and a client meets every server that has one mode for both directions and suits it.  What
\* perform_handshake settles on and writes into the addendum is what the server checks against
\* the mode of its other direction.
THEOREM AlwaysFramed == SessionSpec => []FramingAgrees
<1>1. SessionInit => Meeting /\ Reasons
  BY InitMeeting DEF SessionInit, Reasons
<1>2. Meeting /\ Reasons /\ [SessionNext]_sessionVars => (Meeting /\ Reasons)'
  BY NextMeeting, NextReasons
<1> QED
  BY <1>1, <1>2, MeetingFrames, PTL DEF SessionSpec
=============================================================================
