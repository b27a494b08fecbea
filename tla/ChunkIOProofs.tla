---------------------------- MODULE ChunkIOProofs ----------------------------
(***************************************************************************)
(* Proofs about module ChunkIO, for every length of header, size of chunk, *)
(* sequence of writes and reads and partition of the bytes by the network: *)
(*                                                                         *)
(*   ReaderInductive   the inductive invariant of the reader               *)
(*   AlwaysTyped, AlwaysPrefix, AlwaysAligned, NeverLost                   *)
(*                                                                         *)
(* They hold as long as a header is never delivered in two pieces and no   *)
(* caller uses a read future that forgets what it has; without either TLC  *)
(* shows a counterexample.                                                 *)
(***************************************************************************)
EXTENDS ChunkIO, TLAPS

USE FrameAssumption, CallerAssumption

-----------------------------------------------------------------------------
(* Bytes and sequences of bytes.                                           *)

LEMMA ByteParts ==
  /\ \A b \in Bytes : b.h \in 0..HdrLen
  /\ \A b \in Bytes : IsPayload(b) <=> b.h = 0
  /\ \A b \in Bytes : IsPayload(b) => b.v \in 1..MaxBytes /\ b = PayloadByte(b.v)
  /\ \A k \in 1..MaxBytes : PayloadByte(k) \in Bytes
  /\ \A k : IsPayload(PayloadByte(k)) /\ PayloadByte(k).v = k
<1>1. \A n, i : i \in 1..HdrLen => HeaderBytes(n)[i].h = i
  BY DEF HeaderBytes
<1>2. \A k : PayloadByte(k).h = 0 /\ PayloadByte(k).v = k
  BY DEF PayloadByte
<1>3. ASSUME NEW b \in Bytes
      PROVE  \/ b.h \in 1..HdrLen
             \/ \E k \in 1..MaxBytes : b = PayloadByte(k)
  BY <1>1 DEF Bytes
<1>4. \A k \in 1..MaxBytes : PayloadByte(k) \in Bytes
  BY DEF Bytes
<1> QED
  BY <1>2, <1>3, <1>4 DEF IsPayload

LEMMA HeaderParts ==
  ASSUME NEW n \in 0..MaxBytes
  PROVE  /\ HeaderBytes(n) \in Seq(Bytes) /\ Len(HeaderBytes(n)) = HdrLen
         /\ \A i \in 1..HdrLen : HeaderBytes(n)[i] \in Bytes /\ HeaderBytes(n)[i].h = i
<1>1. \A i \in 1..HdrLen : HeaderBytes(n)[i] \in Bytes
  BY DEF Bytes
<1>2. HeaderBytes(n) \in [1..HdrLen -> Bytes]
  BY <1>1 DEF HeaderBytes
<1>3. HeaderBytes(n) \in Seq(Bytes) /\ Len(HeaderBytes(n)) = HdrLen
  BY <1>2
<1>4. \A i \in 1..HdrLen : HeaderBytes(n)[i].h = i
  BY DEF HeaderBytes
<1> QED
  BY <1>1, <1>3, <1>4

\* u is s followed by t.
Joined(s, t, u) ==
    /\ u \in Seq(Bytes) /\ Len(u) = Len(s) + Len(t)
    /\ Len(s) \in Nat /\ Len(t) \in Nat
    /\ \A i \in 1..Len(s) : u[i] = s[i]
    /\ \A i \in 1..Len(t) : u[Len(s) + i] = t[i]

LEMMA Concat == \A s, t \in Seq(Bytes) : Joined(s, t, s \o t)
BY DEF Joined

\* t is what is left of s without its first n elements.
Drops(s, n, t) == /\ Len(t) = Len(s) - n
                  /\ \A i \in 1..Len(t) : t[i] = s[i + n]

\* t is s up to its n-th element.
Cuts(s, n, t) == /\ Len(t) = n
                 /\ \A i \in 1..n : t[i] = s[i]

\* The two parts of a sequence.
LEMMA FrontRest ==
  ASSUME NEW s \in Seq(Bytes), NEW n \in 0..Len(s)
  PROVE  /\ Front1(s, n) \in Seq(Bytes) /\ Cuts(s, n, Front1(s, n))
         /\ Rest(s, n) \in Seq(Bytes) /\ Drops(s, n, Rest(s, n))
BY DEF Front1, Rest, Cuts, Drops

-----------------------------------------------------------------------------
(* Frames.                                                                 *)

LEMMA DropChunk ==
  ASSUME NEW s \in Seq(Bytes), NEW t \in Seq(Bytes), NEW n \in 0..Len(s), Drops(s, n, t),
         NEW i \in 1..Len(t), NEW m \in 0..MaxBytes
  PROVE  /\ ChunkAt(s, i + n, m) => ChunkAt(t, i, m)
         /\ WholeChunkAt(s, i + n, m) => WholeChunkAt(t, i, m)
<1>1. ASSUME ChunkAt(s, i + n, m) PROVE ChunkAt(t, i, m)
  <2>1. i + HdrLen - 1 <= Len(t)
    BY <1>1 DEF ChunkAt, Drops
  <2>2. ASSUME NEW k \in 1..HdrLen PROVE t[i + k - 1] = HeaderBytes(m)[k]
    <3>1. i + k - 1 \in 1..Len(t)
      BY <2>1
    <3>2. t[i + k - 1] = s[i + k - 1 + n]
      BY <3>1 DEF Drops
    <3>3. s[i + n + k - 1] = HeaderBytes(m)[k]
      BY <1>1 DEF ChunkAt
    <3> QED
      BY <3>2, <3>3
  <2>3. ASSUME NEW k \in 1..m, i + HdrLen - 1 + k <= Len(t)
        PROVE  IsPayload(t[i + HdrLen - 1 + k])
    <3>1. t[i + HdrLen - 1 + k] = s[i + HdrLen - 1 + k + n]
      <4>1. i + HdrLen - 1 + k \in 1..Len(t)
        BY <2>3
      <4> QED
        BY <4>1 DEF Drops
    <3>2. i + n + HdrLen - 1 + k <= Len(s)
      BY <2>3 DEF Drops
    <3>3. IsPayload(s[i + n + HdrLen - 1 + k])
      BY <1>1, <3>2 DEF ChunkAt
    <3> QED
      BY <3>1, <3>3
  <2>4. ASSUME i + HdrLen + m <= Len(t) PROVE t[i + HdrLen + m].h = 1
    <3>1. i + HdrLen + m \in 1..Len(t)
      BY <2>4
    <3>2. t[i + HdrLen + m] = s[i + HdrLen + m + n]
      BY <3>1 DEF Drops
    <3>3. i + n + HdrLen + m <= Len(s)
      BY <2>4 DEF Drops
    <3>4. s[i + n + HdrLen + m].h = 1
      BY <1>1, <3>3 DEF ChunkAt
    <3> QED
      BY <3>2, <3>4
  <2> QED
    BY <2>1, <2>2, <2>3, <2>4 DEF ChunkAt
<1>2. ASSUME WholeChunkAt(s, i + n, m) PROVE WholeChunkAt(t, i, m)
  BY <1>1, <1>2 DEF WholeChunkAt, Drops
<1> QED
  BY <1>1, <1>2

\* What is read off the front leaves the rest framed.
LEMMA DropFrames ==
  ASSUME NEW s \in Seq(Bytes), NEW t \in Seq(Bytes), NEW n \in 0..Len(s), Drops(s, n, t)
  PROVE  /\ Chunks(s) => Chunks(t)
         /\ WholeChunks(s) => WholeChunks(t)
<1>1. \A i \in 1..Len(t) : i + n \in 1..Len(s) /\ t[i] = s[i + n]
  BY DEF Drops
<1>2. ASSUME Chunks(s), NEW i \in 1..Len(t), t[i].h = 1
      PROVE  \E m \in 0..MaxBytes : ChunkAt(t, i, m)
  <2>1. PICK m \in 0..MaxBytes : ChunkAt(s, i + n, m)
    BY <1>1, <1>2 DEF Chunks
  <2> QED
    BY <2>1, DropChunk
<1>3. ASSUME WholeChunks(s), NEW i \in 1..Len(t), t[i].h = 1
      PROVE  \E m \in 0..MaxBytes : WholeChunkAt(t, i, m)
  <2>1. PICK m \in 0..MaxBytes : WholeChunkAt(s, i + n, m)
    BY <1>1, <1>3 DEF WholeChunks
  <2> QED
    BY <2>1, DropChunk
<1> QED
  BY <1>2, <1>3 DEF Chunks, WholeChunks

\* What is lost at the end leaves the rest framed, unless a header is cut in two.
LEMMA CutFrames ==
  ASSUME NEW s \in Seq(Bytes), NEW t \in Seq(Bytes), NEW n \in 0..Len(s), Cuts(s, n, t),
         n < Len(s) => s[n + 1].h \in {0, 1}, Chunks(s)
  PROVE  Chunks(t)
<1> SUFFICES ASSUME NEW i \in 1..Len(t), t[i].h = 1
             PROVE  \E m \in 0..MaxBytes : ChunkAt(t, i, m)
  BY DEF Chunks
<1>1. i \in 1..Len(s) /\ s[i].h = 1 /\ i <= n
  BY DEF Cuts
<1>2. PICK m \in 0..MaxBytes : ChunkAt(s, i, m)
  BY <1>1 DEF Chunks
<1>3. i + HdrLen - 1 <= n
  <2> SUFFICES ASSUME ~(i + HdrLen - 1 <= n) PROVE FALSE
    OBVIOUS
  <2>1. n + 2 - i \in 1..HdrLen /\ n < Len(s)
    BY <1>1, <1>2 DEF ChunkAt
  <2>2. s[i + (n + 2 - i) - 1] = HeaderBytes(m)[n + 2 - i]
    BY <1>2, <2>1 DEF ChunkAt
  <2>3. i + (n + 2 - i) - 1 = n + 1
    BY <1>1
  <2>4. s[n + 1].h = n + 2 - i
    <3>1. HeaderBytes(m)[n + 2 - i].h = n + 2 - i
      BY <2>1, HeaderParts
    <3> QED
      BY <2>2, <2>3, <3>1
  <2> QED
    BY <1>1, <2>1, <2>4
<1>4. ChunkAt(t, i, m)
  <2>1. \A j \in 1..Len(t) : t[j] = s[j] /\ Len(t) = n
    BY DEF Cuts
  <2>2. ASSUME NEW k \in 1..HdrLen PROVE t[i + k - 1] = HeaderBytes(m)[k]
    <3>1. i + k - 1 \in 1..Len(t)
      BY <1>3 DEF Cuts
    <3> QED
      BY <1>2, <2>1, <3>1 DEF ChunkAt
  <2>3. ASSUME NEW k \in 1..m, i + HdrLen - 1 + k <= Len(t)
        PROVE  IsPayload(t[i + HdrLen - 1 + k])
    <3>1. i + HdrLen - 1 + k \in 1..Len(t) /\ i + HdrLen - 1 + k <= Len(s)
      BY <2>3 DEF Cuts
    <3> QED
      BY <1>2, <2>1, <3>1 DEF ChunkAt
  <2>4. ASSUME i + HdrLen + m <= Len(t) PROVE t[i + HdrLen + m].h = 1
    <3>1. i + HdrLen + m \in 1..Len(t) /\ i + HdrLen + m <= Len(s)
      BY <2>4 DEF Cuts
    <3> QED
      BY <1>2, <2>1, <3>1 DEF ChunkAt
  <2> QED
    BY <1>3, <2>2, <2>3, <2>4 DEF ChunkAt, Cuts
<1> QED
  BY <1>4


\* What finish_chunk adds to the stream.
Adds(s, w, t) ==
    /\ Len(t) = Len(s) + HdrLen + Len(w) + HdrLen
    /\ \A i \in 1..Len(s) : t[i] = s[i]
    /\ \A k \in 1..HdrLen : t[Len(s) + k] = HeaderBytes(Len(w))[k]
    /\ \A k \in 1..Len(w) : t[Len(s) + HdrLen + k] = w[k]
    /\ \A k \in 1..HdrLen : t[Len(s) + HdrLen + Len(w) + k] = HeaderBytes(0)[k]

\* The places of t, one by one.
Places(s, w, t) ==
    \A i \in 1..Len(t) :
        \/ i \in 1..Len(s) /\ t[i] = s[i]
        \/ i - Len(s) \in 1..HdrLen /\ t[i].h = i - Len(s)
        \/ i - Len(s) - HdrLen \in 1..Len(w) /\ t[i] = w[i - Len(s) - HdrLen]
        \/ /\ i - Len(s) - HdrLen - Len(w) \in 1..HdrLen
           /\ t[i].h = i - Len(s) - HdrLen - Len(w)

LEMMA AddedPlaces ==
  ASSUME NEW s \in Seq(Bytes), NEW t \in Seq(Bytes), NEW w \in Seq(Bytes), Adds(s, w, t),
         Len(w) \in 1..MaxBytes
  PROVE  Places(s, w, t)
<1> DEFINE L == Len(s)
           W == Len(w)
<1>1. L \in Nat /\ W \in 1..MaxBytes
  OBVIOUS
<1> SUFFICES ASSUME NEW i \in 1..Len(t)
             PROVE  \/ i \in 1..L /\ t[i] = s[i]
                    \/ i - L \in 1..HdrLen /\ t[i].h = i - L
                    \/ i - L - HdrLen \in 1..W /\ t[i] = w[i - L - HdrLen]
                    \/ /\ i - L - HdrLen - W \in 1..HdrLen
                       /\ t[i].h = i - L - HdrLen - W
  BY DEF Places
<1>2. CASE i <= L
  BY <1>2 DEF Adds
<1>3. CASE i > L /\ i <= L + HdrLen
  <2>1. i - L \in 1..HdrLen /\ L + (i - L) = i
    BY <1>1, <1>3
  <2>2. t[i] = HeaderBytes(W)[i - L]
    BY <2>1 DEF Adds
  <2>3. HeaderBytes(W)[i - L].h = i - L
    BY <1>1, <2>1, HeaderParts
  <2> QED
    BY <2>1, <2>2, <2>3
<1>4. CASE i > L + HdrLen /\ i <= L + HdrLen + W
  <2>1. i - L - HdrLen \in 1..W /\ L + HdrLen + (i - L - HdrLen) = i
    BY <1>1, <1>4
  <2> QED
    BY <2>1 DEF Adds
<1>5. CASE i > L + HdrLen + W
  <2>0. Len(t) = L + HdrLen + W + HdrLen
    BY DEF Adds
  <2>1. /\ i - L - HdrLen - W \in 1..HdrLen
        /\ L + HdrLen + W + (i - L - HdrLen - W) = i
    BY <1>1, <1>5, <2>0
  <2>2. t[i] = HeaderBytes(0)[i - L - HdrLen - W]
    BY <2>1 DEF Adds
  <2>3. HeaderBytes(0)[i - L - HdrLen - W].h = i - L - HdrLen - W
    <3>1. 0 \in 0..MaxBytes
      OBVIOUS
    <3>2. \A j \in 1..HdrLen : HeaderBytes(0)[j].h = j
      BY <3>1, HeaderParts
    <3> QED
      BY <2>1, <3>2
  <2> QED
    BY <2>1, <2>2, <2>3
<1> QED
  BY <1>1, <1>2, <1>3, <1>4, <1>5

\* A chunk that is added leaves the stream framed.
LEMMA AddFrames ==
  ASSUME NEW s \in Seq(Bytes), NEW t \in Seq(Bytes), NEW w \in Seq(Bytes), Adds(s, w, t),
         Len(w) \in 1..MaxBytes, \A k \in 1..Len(w) : IsPayload(w[k]), WholeChunks(s)
  PROVE  WholeChunks(t)
<1>0. \A i \in 1..Len(t) :
         \/ i \in 1..Len(s) /\ t[i] = s[i]
         \/ i - Len(s) \in 1..HdrLen /\ t[i].h = i - Len(s)
         \/ i - Len(s) - HdrLen \in 1..Len(w) /\ t[i] = w[i - Len(s) - HdrLen]
         \/ /\ i - Len(s) - HdrLen - Len(w) \in 1..HdrLen
            /\ t[i].h = i - Len(s) - HdrLen - Len(w)
  BY AddedPlaces DEF Places
<1> DEFINE L == Len(s)
           W == Len(w)
<1>1. /\ L \in Nat /\ W \in 1..MaxBytes /\ Len(t) = L + HdrLen + W + HdrLen
      /\ \A j \in 1..L : t[j] = s[j]
  BY DEF Adds
<1>2. t[L + 1].h = 1 /\ t[L + HdrLen + W + 1].h = 1
  <2>1. HeaderBytes(W)[1].h = 1 /\ HeaderBytes(0)[1].h = 1 /\ 1 \in 1..HdrLen
    BY <1>1, HeaderParts
  <2> QED
    BY <2>1 DEF Adds
<1> SUFFICES ASSUME NEW i \in 1..Len(t), t[i].h = 1
             PROVE  \E m \in 0..MaxBytes : WholeChunkAt(t, i, m)
  BY DEF WholeChunks
<1>3. CASE i \in 1..L
  <2>1. PICK m \in 0..MaxBytes : WholeChunkAt(s, i, m)
    BY <1>1, <1>3 DEF WholeChunks
  <2>2. ASSUME NEW k \in 1..HdrLen PROVE t[i + k - 1] = HeaderBytes(m)[k]
    <3>1. i + k - 1 \in 1..L
      BY <1>3, <2>1, SMTT(30) DEF WholeChunkAt, ChunkAt
    <3> QED
      BY <1>1, <2>1, <3>1 DEF WholeChunkAt, ChunkAt
  <2>3. ASSUME NEW k \in 1..m PROVE IsPayload(t[i + HdrLen - 1 + k])
    <3>1. i + HdrLen - 1 + k \in 1..L /\ i + HdrLen - 1 + k <= Len(s)
      BY <1>3, <2>1, SMTT(30) DEF WholeChunkAt
    <3>2. IsPayload(s[i + HdrLen - 1 + k])
      BY <2>1, <3>1 DEF WholeChunkAt, ChunkAt
    <3> QED
      BY <1>1, <3>1, <3>2
  <2>4. t[i + HdrLen + m].h = 1
    <3>1. CASE i + HdrLen + m <= L
      <4>1. i + HdrLen + m \in 1..L
        BY <1>3, <3>1
      <4> QED
        BY <1>1, <2>1, <4>1 DEF WholeChunkAt, ChunkAt
    <3>2. CASE i + HdrLen + m > L
      <4>1. i + HdrLen + m = L + 1
        BY <1>1, <2>1, <3>2 DEF WholeChunkAt
      <4> QED
        BY <1>2, <4>1
    <3> QED
      BY <1>1, <3>1, <3>2
  <2>5. i + HdrLen + m <= L + 1
    BY <1>1, <2>1 DEF WholeChunkAt
  <2>6. i + HdrLen + m - 1 <= Len(t) /\ i + HdrLen + m <= Len(t) /\ i + HdrLen - 1 <= Len(t)
    BY <1>1, <2>5
  <2>7. ChunkAt(t, i, m)
    BY <2>2, <2>3, <2>4, <2>6 DEF ChunkAt
  <2>8. WholeChunkAt(t, i, m)
    BY <2>6, <2>7 DEF WholeChunkAt
  <2> QED
    BY <2>8
<1>4. CASE i = L + 1
  <2>1. ASSUME NEW k \in 1..HdrLen PROVE t[i + k - 1] = HeaderBytes(W)[k]
    <3>1. i + k - 1 = L + k
      BY <1>1, <1>4
    <3> QED
      BY <3>1 DEF Adds
  <2>2. ASSUME NEW k \in 1..W PROVE IsPayload(t[i + HdrLen - 1 + k])
    <3>1. i + HdrLen - 1 + k = L + HdrLen + k
      BY <1>1, <1>4
    <3> QED
      BY <3>1 DEF Adds
  <2>3. i + HdrLen + W = L + HdrLen + W + 1
    BY <1>1, <1>4
  <2>4. WholeChunkAt(t, i, W)
    BY <1>1, <1>2, <1>4, <2>1, <2>2, <2>3 DEF WholeChunkAt, ChunkAt
  <2> QED
    BY <1>1, <2>4
<1>5. CASE i = L + HdrLen + W + 1
  <2>1. ASSUME NEW k \in 1..HdrLen PROVE t[i + k - 1] = HeaderBytes(0)[k]
    <3>1. i + k - 1 = L + HdrLen + W + k
      BY <1>1, <1>5
    <3> QED
      BY <3>1 DEF Adds
  <2>2. i + HdrLen + 0 > Len(t) /\ i + HdrLen - 1 <= Len(t)
    BY <1>1, <1>5
  <2>3. WholeChunkAt(t, i, 0)
    BY <1>1, <2>1, <2>2 DEF WholeChunkAt, ChunkAt
  <2> QED
    BY <2>3
<1>6. i \in 1..L \/ i = L + 1 \/ i = L + HdrLen + W + 1
  <2> DEFINE Old == i \in 1..L /\ t[i] = s[i]
             Opens == i - L \in 1..HdrLen /\ t[i].h = i - L
             Middle == i - L - HdrLen \in 1..W /\ t[i] = w[i - L - HdrLen]
             Closes == /\ i - L - HdrLen - W \in 1..HdrLen
                       /\ t[i].h = i - L - HdrLen - W
             Goal == i \in 1..L \/ i = L + 1 \/ i = L + HdrLen + W + 1
  <2>1. \A k \in 1..W : w[k].h = 0
    BY ByteParts
  <2>2. Old \/ Opens \/ Middle \/ Closes
    BY <1>0
  <2>3. Opens => Goal
    <3>1. Opens => i - L = 1
      OBVIOUS
    <3>2. i - L = 1 => i = L + 1
      OBVIOUS
    <3> QED
      BY <3>1, <3>2
  <2>4. Middle => Goal
    <3>1. Middle => t[i].h = 0
      BY <2>1
    <3> QED
      BY <1>1, <3>1
  <2>5. Closes => Goal
    <3>1. Closes => i - L - HdrLen - W = 1
      OBVIOUS
    <3>2. i - L - HdrLen - W = 1 => i = L + HdrLen + W + 1
      OBVIOUS
    <3> QED
      BY <3>1, <3>2
  <2>6. Old => Goal
    OBVIOUS
  <2>7. Goal
    <3> HIDE DEF Old, Opens, Middle, Closes, Goal
    <3> QED
      BY <2>2, <2>3, <2>4, <2>5, <2>6
  <2> QED
    BY <2>7
<1> QED
  BY <1>3, <1>4, <1>5, <1>6


-----------------------------------------------------------------------------
(* Numbers.                                                                *)

LEMMA DropHeaders ==
  ASSUME NEW s \in Seq(Bytes), NEW t \in Seq(Bytes), NEW n \in 0..Len(s), Drops(s, n, t),
         \A i \in 1..n : ~IsPayload(s[i]), NEW lo \in Nat
  PROVE  /\ Numbered(s, lo) => Numbered(t, lo)
         /\ \A hi \in Nat : NumberedTo(s, lo, hi) => NumberedTo(t, lo, hi)
<1>1. Len(t) = Len(s) - n /\ \A i \in 1..Len(t) : i + n \in 1..Len(s) /\ t[i] = s[i + n]
  BY DEF Drops
<1>2. \A k \in 1..Len(s) : k \in 1..n \/ (k - n \in 1..Len(t) /\ s[k] = t[k - n])
  BY <1>1
<1>3. ASSUME NEW i \in Nat, NEW j \in Int, NoPayload(t, i, j)
      PROVE  NoPayload(s, i + n, j + n)
  BY <1>1, <1>2, <1>3 DEF NoPayload
<1>4. ASSUME NEW j \in Int, NoPayload(t, 1, j)
      PROVE  NoPayload(s, 1, j + n)
  BY <1>1, <1>2, <1>4 DEF NoPayload
<1>5. ASSUME Numbered(s, lo) PROVE Numbered(t, lo)
  <2>1. ASSUME NEW i \in 1..Len(t), IsPayload(t[i]), NoPayload(t, 1, i - 1)
        PROVE  t[i].v = lo + 1
    <3>1. NoPayload(s, 1, (i - 1) + n) /\ (i - 1) + n = (i + n) - 1
      BY <1>4, <2>1
    <3> QED
      BY <1>1, <1>5, <2>1, <3>1 DEF Numbered
  <2>2. ASSUME NEW i \in 1..Len(t), NEW j \in 1..Len(t), i < j, IsPayload(t[i]),
               IsPayload(t[j]), NoPayload(t, i + 1, j - 1)
        PROVE  t[j].v = t[i].v + 1
    <3>1. /\ NoPayload(s, (i + 1) + n, (j - 1) + n)
          /\ (i + 1) + n = (i + n) + 1 /\ (j - 1) + n = (j + n) - 1
      BY <1>3, <2>2
    <3>2. /\ i + n \in 1..Len(s) /\ j + n \in 1..Len(s) /\ i + n < j + n
          /\ t[i] = s[i + n] /\ t[j] = s[j + n]
      <4>1. /\ i + n \in 1..Len(s) /\ t[i] = s[i + n]
            /\ j + n \in 1..Len(s) /\ t[j] = s[j + n]
        BY <1>1
      <4>2. i + n < j + n
        BY <2>2
      <4> QED
        BY <4>1, <4>2
    <3>3. s[j + n].v = s[i + n].v + 1
      BY <1>5, <2>2, <3>1, <3>2 DEF Numbered
    <3> QED
      BY <3>2, <3>3
  <2>3. ASSUME NEW i \in 1..Len(t), NEW j \in 1..Len(t), i < j,
               \A k \in i..j : IsPayload(t[k])
        PROVE  t[j].v = t[i].v + (j - i)
    <3>1. \A k \in (i + n)..(j + n) : IsPayload(s[k])
      <4> SUFFICES ASSUME NEW k \in (i + n)..(j + n) PROVE IsPayload(s[k])
        OBVIOUS
      <4>1. k - n \in i..j /\ k - n \in 1..Len(t) /\ (k - n) + n = k
        BY <1>1
      <4> QED
        BY <1>1, <2>3, <4>1
    <3>2. /\ i + n \in 1..Len(s) /\ j + n \in 1..Len(s) /\ i + n < j + n
          /\ (j + n) - (i + n) = j - i /\ t[i] = s[i + n] /\ t[j] = s[j + n]
      BY <1>1, <2>3
    <3>3. s[j + n].v = s[i + n].v + ((j + n) - (i + n))
      BY <1>5, <3>1, <3>2 DEF Numbered
    <3> QED
      BY <3>2, <3>3
  <2> QED
    BY <2>1, <2>2, <2>3 DEF Numbered
<1>6. ASSUME NEW hi \in Nat, NumberedTo(s, lo, hi) PROVE NumberedTo(t, lo, hi)
  <2>1. (\A i \in 1..Len(t) : ~IsPayload(t[i])) => lo = hi
    BY <1>2, <1>6 DEF NumberedTo
  <2>2. ASSUME NEW i \in 1..Len(t), IsPayload(t[i]), NoPayload(t, i + 1, Len(t))
        PROVE  t[i].v = hi
    <3>1. /\ NoPayload(s, (i + 1) + n, Len(t) + n)
          /\ (i + 1) + n = (i + n) + 1 /\ Len(t) + n = Len(s)
      BY <1>1, <1>3, <2>2
    <3> QED
      BY <1>1, <1>6, <2>2, <3>1 DEF NumberedTo
  <2> QED
    BY <2>1, <2>2 DEF NumberedTo
<1> QED
  BY <1>5, <1>6

\* The first n of s are the next n numbers, and t goes on behind them.
Renumbers(s, n, t, lo) ==
    /\ \A i \in 1..n : s[i].v = lo + i
    /\ Numbered(t, lo + n)
    /\ \A hi \in Nat : NumberedTo(s, lo, hi) => NumberedTo(t, lo + n, hi)

LEMMA DropPayload ==
  ASSUME NEW s \in Seq(Bytes), NEW t \in Seq(Bytes), NEW n \in 1..Len(s), Drops(s, n, t),
         \A i \in 1..n : IsPayload(s[i]), NEW lo \in Nat, Numbered(s, lo)
  PROVE  Renumbers(s, n, t, lo)
<1>1. Len(t) = Len(s) - n /\ \A i \in 1..Len(t) : i + n \in 1..Len(s) /\ t[i] = s[i + n]
  BY DEF Drops
<1>2. ASSUME NEW k \in 1..Len(s)
      PROVE  k \in 1..n \/ (k - n \in 1..Len(t) /\ s[k] = t[k - n])
  <2>1. k \notin 1..n => k - n \in 1..Len(t) /\ (k - n) + n = k
    BY <1>1
  <2> QED
    BY <1>1, <2>1
<1>3. \A i \in 1..n : s[i].v \in Nat
  BY ByteParts
<1>4. \A i \in 1..n : s[i].v = lo + i
  <2>1. s[1].v = lo + 1
    <3>1. NoPayload(s, 1, 1 - 1) /\ 1 \in 1..Len(s) /\ IsPayload(s[1])
      BY DEF NoPayload
    <3> QED
      BY <3>1 DEF Numbered
  <2>2. ASSUME NEW i \in 1..n, i # 1 PROVE s[i].v = s[1].v + (i - 1)
    <3>1. /\ 1 \in 1..Len(s) /\ i \in 1..Len(s) /\ 1 < i
          /\ \A k \in 1..i : IsPayload(s[k])
      BY <2>2
    <3> QED
      BY <3>1 DEF Numbered
  <2>3. ASSUME NEW i \in 1..n PROVE s[i].v = lo + i
    <3>1. CASE i = 1
      BY <2>1, <3>1
    <3>2. CASE i # 1
      BY <2>1, <2>2, <3>2
    <3> QED
      BY <3>1, <3>2
  <2> QED
    BY <2>3
<1>5. Numbered(t, lo + n)
  <2>1. ASSUME NEW i \in 1..Len(t), IsPayload(t[i]), NoPayload(t, 1, i - 1)
        PROVE  t[i].v = (lo + n) + 1
    <3>1. NoPayload(s, n + 1, (i + n) - 1)
      <4> SUFFICES ASSUME NEW k \in 1..Len(s), n + 1 <= k, k <= (i + n) - 1
                   PROVE  ~IsPayload(s[k])
        BY DEF NoPayload
      <4>1. k \notin 1..n /\ 1 <= k - n /\ k - n <= i - 1
        OBVIOUS
      <4>2. k - n \in 1..Len(t) /\ s[k] = t[k - n]
        BY <1>2, <4>1
      <4> QED
        BY <2>1, <4>1, <4>2 DEF NoPayload
    <3>2. n \in 1..Len(s) /\ i + n \in 1..Len(s) /\ n < i + n /\ IsPayload(s[n])
          /\ IsPayload(s[i + n])
      <4>1. n \in 1..n /\ n \in 1..Len(s) /\ n < i + n
        OBVIOUS
      <4>2. i + n \in 1..Len(s) /\ t[i] = s[i + n]
        BY <1>1
      <4>3. IsPayload(s[i + n])
        BY <2>1, <4>2
      <4> QED
        BY <4>1, <4>2, <4>3
    <3>3. s[i + n].v = s[n].v + 1
      BY <3>1, <3>2 DEF Numbered
    <3>4. t[i] = s[i + n] /\ s[n].v = lo + n
      BY <1>1, <1>4
    <3>5. t[i].v = (lo + n) + 1
      BY <3>3, <3>4
    <3> QED
      BY <3>5
  <2>2. ASSUME NEW i \in 1..Len(t), NEW j \in 1..Len(t), i < j, IsPayload(t[i]),
               IsPayload(t[j]), NoPayload(t, i + 1, j - 1)
        PROVE  t[j].v = t[i].v + 1
    <3>1. NoPayload(s, (i + n) + 1, (j + n) - 1)
      BY <1>1, <1>2, <2>2 DEF NoPayload
    <3>2. /\ i + n \in 1..Len(s) /\ j + n \in 1..Len(s) /\ i + n < j + n
          /\ t[i] = s[i + n] /\ t[j] = s[j + n]
      <4>1. /\ i + n \in 1..Len(s) /\ t[i] = s[i + n]
            /\ j + n \in 1..Len(s) /\ t[j] = s[j + n]
        BY <1>1
      <4>2. i + n < j + n
        BY <2>2
      <4> QED
        BY <4>1, <4>2
    <3>3. s[j + n].v = s[i + n].v + 1
      BY <2>2, <3>1, <3>2 DEF Numbered
    <3> QED
      BY <3>2, <3>3
  <2>3. ASSUME NEW i \in 1..Len(t), NEW j \in 1..Len(t), i < j,
               \A k \in i..j : IsPayload(t[k])
        PROVE  t[j].v = t[i].v + (j - i)
    <3>1. \A k \in (i + n)..(j + n) : IsPayload(s[k])
      <4> SUFFICES ASSUME NEW k \in (i + n)..(j + n) PROVE IsPayload(s[k])
        OBVIOUS
      <4>1. k - n \in i..j /\ k - n \in 1..Len(t) /\ (k - n) + n = k
        BY <1>1
      <4> QED
        BY <1>1, <2>3, <4>1
    <3>2. /\ i + n \in 1..Len(s) /\ j + n \in 1..Len(s) /\ i + n < j + n
          /\ (j + n) - (i + n) = j - i /\ t[i] = s[i + n] /\ t[j] = s[j + n]
      BY <1>1, <2>3
    <3>3. s[j + n].v = s[i + n].v + ((j + n) - (i + n))
      BY <3>1, <3>2 DEF Numbered
    <3> QED
      BY <3>2, <3>3
  <2> QED
    BY <2>1, <2>2, <2>3 DEF Numbered
<1>6. ASSUME NEW hi \in Nat, NumberedTo(s, lo, hi) PROVE NumberedTo(t, lo + n, hi)
  <2>1. ASSUME \A i \in 1..Len(t) : ~IsPayload(t[i]) PROVE lo + n = hi
    <3>0. ASSUME NEW k \in 1..Len(s), n + 1 <= k PROVE ~IsPayload(s[k])
      BY <1>2, <2>1, <3>0
    <3>1. n \in 1..Len(s) /\ IsPayload(s[n]) /\ NoPayload(s, n + 1, Len(s))
      BY <3>0 DEF NoPayload
    <3>2. s[n].v = hi
      BY <1>6, <3>1 DEF NumberedTo
    <3> QED
      BY <1>4, <3>2
  <2>2. ASSUME NEW i \in 1..Len(t), IsPayload(t[i]), NoPayload(t, i + 1, Len(t))
        PROVE  t[i].v = hi
    <3>1. NoPayload(s, (i + n) + 1, Len(s))
      BY <1>1, <1>2, <2>2 DEF NoPayload
    <3> QED
      BY <1>1, <1>6, <2>2, <3>1 DEF NumberedTo
  <2> QED
    BY <2>1, <2>2 DEF NumberedTo
<1> QED
  BY <1>4, <1>5, <1>6 DEF Renumbers

LEMMA CutNumbers ==
  ASSUME NEW s \in Seq(Bytes), NEW t \in Seq(Bytes), NEW n \in 0..Len(s), Cuts(s, n, t),
         NEW lo \in Nat, Numbered(s, lo)
  PROVE  Numbered(t, lo)
<1>1. Len(t) = n /\ \A i \in 1..Len(t) : i \in 1..Len(s) /\ t[i] = s[i]
  BY DEF Cuts
<1>2. ASSUME NEW i \in 1..Len(t), NEW j \in Nat, NoPayload(t, j, i - 1)
      PROVE  NoPayload(s, j, i - 1)
  BY <1>1, <1>2 DEF NoPayload
<1>3. ASSUME NEW i \in 1..Len(t), IsPayload(t[i]), NoPayload(t, 1, i - 1)
      PROVE  t[i].v = lo + 1
  BY <1>1, <1>2, <1>3 DEF Numbered
<1>4. ASSUME NEW i \in 1..Len(t), NEW j \in 1..Len(t), i < j, IsPayload(t[i]),
             IsPayload(t[j]), NoPayload(t, i + 1, j - 1)
      PROVE  t[j].v = t[i].v + 1
  <2>1. NoPayload(s, i + 1, j - 1)
    BY <1>2, <1>4
  <2> QED
    BY <1>1, <1>4, <2>1 DEF Numbered
<1>5. ASSUME NEW i \in 1..Len(t), NEW j \in 1..Len(t), i < j,
             \A k \in i..j : IsPayload(t[k])
      PROVE  t[j].v = t[i].v + (j - i)
  <2>1. \A k \in i..j : IsPayload(s[k])
    BY <1>1, <1>5
  <2> QED
    BY <1>1, <1>5, <2>1 DEF Numbered
<1> QED
  BY <1>3, <1>4, <1>5 DEF Numbered


LEMMA AddNumbers ==
  ASSUME NEW s \in Seq(Bytes), NEW t \in Seq(Bytes), NEW w \in Seq(Bytes), Adds(s, w, t),
         Len(w) \in 1..MaxBytes, NEW lo \in Nat, NEW hi \in Nat,
         \A k \in 1..Len(w) : w[k] = PayloadByte(hi + k),
         Numbered(s, lo), NumberedTo(s, lo, hi)
  PROVE  Numbered(t, lo) /\ NumberedTo(t, lo, hi + Len(w))
<1>0. \A i \in 1..Len(t) :
         \/ i \in 1..Len(s) /\ t[i] = s[i]
         \/ i - Len(s) \in 1..HdrLen /\ t[i].h = i - Len(s)
         \/ i - Len(s) - HdrLen \in 1..Len(w) /\ t[i] = w[i - Len(s) - HdrLen]
         \/ /\ i - Len(s) - HdrLen - Len(w) \in 1..HdrLen
            /\ t[i].h = i - Len(s) - HdrLen - Len(w)
  <2>1. Places(s, w, t)
    BY AddedPlaces
  <2> QED
    BY <2>1 DEF Places
<1> DEFINE L == Len(s)
           W == Len(w)
           B == L + HdrLen
<1>1. /\ L \in Nat /\ W \in 1..MaxBytes /\ Len(t) = B + W + HdrLen /\ B \in Nat /\ L < B
      /\ \A j \in 1..L : t[j] = s[j] /\ j \in 1..Len(t)
      /\ \A k \in 1..W : B + k \in 1..Len(t) /\ IsPayload(t[B + k]) /\ t[B + k].v = hi + k
  <2>1. L \in Nat /\ W \in 1..MaxBytes /\ Len(t) = B + W + HdrLen /\ B \in Nat /\ L < B
    BY DEF Adds
  <2>2. \A j \in 1..L : t[j] = s[j] /\ j \in 1..Len(t)
    BY <2>1 DEF Adds
  <2>3. ASSUME NEW k \in 1..W
        PROVE  B + k \in 1..Len(t) /\ IsPayload(t[B + k]) /\ t[B + k].v = hi + k
    <3>1. t[B + k] = w[k]
      BY DEF Adds
    <3>2. B + k \in 1..Len(t)
      BY <2>1
    <3> QED
      BY <3>1, <3>2, ByteParts
  <2> QED
    BY <2>1, <2>2, <2>3
\* The payload of t: that of s, then w.
<1>2. ASSUME NEW i \in 1..Len(t), IsPayload(t[i])
      PROVE  \/ i \in 1..L /\ IsPayload(s[i]) /\ t[i] = s[i]
             \/ i - B \in 1..W /\ t[i].v = hi + (i - B)
  <2>1. t[i] \in Bytes
    OBVIOUS
  <2>2. t[i].h = 0
    BY <1>2, <2>1, ByteParts
  <2>3. \/ i \in 1..Len(s) /\ t[i] = s[i]
        \/ i - Len(s) \in 1..HdrLen /\ t[i].h = i - Len(s)
        \/ i - Len(s) - HdrLen \in 1..Len(w) /\ t[i] = w[i - Len(s) - HdrLen]
        \/ /\ i - Len(s) - HdrLen - Len(w) \in 1..HdrLen
           /\ t[i].h = i - Len(s) - HdrLen - Len(w)
    BY <1>0
  <2>4. i \in 1..L \/ i - B \in 1..W
    BY <1>1, <2>2, <2>3
  <2>5. CASE i \in 1..L
    BY <1>1, <1>2, <2>5
  <2>6. CASE i - B \in 1..W
    <3>1. B + (i - B) = i
      BY <1>1
    <3> QED
      BY <1>1, <2>6, <3>1
  <2> QED
    BY <2>4, <2>5, <2>6
<1>3. ~IsPayload(t[L + 1])
  <2>1. L + 1 \in 1..Len(t) /\ L + 1 \notin 1..L /\ (L + 1) - B \notin 1..W
    BY <1>1
  <2> QED
    BY <1>2, <2>1
<1>4. ASSUME NEW i \in Int, NEW j \in Int, NoPayload(t, i, j) PROVE NoPayload(s, i, j)
  BY <1>1, <1>4 DEF NoPayload
<1> HIDE DEF L, W, B
<1>5. ASSUME NEW i \in 1..Len(t), IsPayload(t[i]), NoPayload(t, 1, i - 1)
      PROVE  t[i].v = lo + 1
  <2>1. CASE i \in 1..L
    <3>1. NoPayload(s, 1, i - 1) /\ IsPayload(s[i]) /\ t[i] = s[i]
      BY <1>1, <1>2, <1>4, <1>5, <2>1
    <3> QED
      BY <2>1, <3>1 DEF Numbered, L
  <2>2. CASE i \notin 1..L
    <3>1. i - B \in 1..W /\ t[i].v = hi + (i - B)
      BY <1>2, <1>5, <2>2
    <3>2. i = B + 1
      <4> SUFFICES ASSUME i # B + 1 PROVE FALSE
        OBVIOUS
      <4>1. 1 \in 1..W /\ B + 1 <= i - 1 /\ 1 <= B + 1
        BY <1>1, <3>1
      <4> QED
        BY <1>1, <1>5, <4>1 DEF NoPayload
    <3>3. \A k \in 1..L : ~IsPayload(s[k])
      BY <1>1, <1>5, <2>2 DEF NoPayload
    <3>4. lo = hi
      BY <3>3 DEF NumberedTo, L
    <3> QED
      BY <1>1, <3>1, <3>2, <3>4
  <2> QED
    BY <2>1, <2>2
<1>6. ASSUME NEW i \in 1..Len(t), NEW j \in 1..Len(t), i < j, IsPayload(t[i]),
             IsPayload(t[j]), NoPayload(t, i + 1, j - 1)
      PROVE  t[j].v = t[i].v + 1
  <2>1. CASE j \in 1..L
    <3>1. /\ i \in 1..L /\ NoPayload(s, i + 1, j - 1) /\ IsPayload(s[i]) /\ IsPayload(s[j])
          /\ t[i] = s[i] /\ t[j] = s[j]
      BY <1>1, <1>4, <1>6, <2>1
    <3> QED
      BY <1>6, <2>1, <3>1 DEF Numbered, L
  <2>2. CASE i \in 1..L /\ j \notin 1..L
    <3>1. j - B \in 1..W /\ t[j].v = hi + (j - B)
      BY <1>2, <1>6, <2>2
    <3>2. j = B + 1
      <4> SUFFICES ASSUME j # B + 1 PROVE FALSE
        OBVIOUS
      <4>1. 1 \in 1..W /\ B + 1 <= j - 1 /\ i + 1 <= B + 1
        BY <1>1, <2>2, <3>1
      <4> QED
        BY <1>1, <1>6, <4>1 DEF NoPayload
    <3>3. L <= j - 1
      BY <1>1, <2>2
    <3>4. NoPayload(s, i + 1, L) /\ IsPayload(s[i]) /\ t[i] = s[i]
      <4>1. NoPayload(s, i + 1, j - 1)
        BY <1>4, <1>6
      <4> QED
        BY <1>1, <1>6, <2>2, <3>3, <4>1 DEF NoPayload
    <3>5. s[i].v = hi
      BY <2>2, <3>4 DEF NumberedTo, L
    <3>6. t[j].v = hi + 1
      BY <1>1, <3>1, <3>2
    <3> QED
      BY <3>4, <3>5, <3>6
  <2>3. CASE i \notin 1..L /\ j \notin 1..L
    <3>1. /\ i - B \in 1..W /\ t[i].v = hi + (i - B)
          /\ j - B \in 1..W /\ t[j].v = hi + (j - B)
      BY <1>2, <1>6, <2>3
    <3>2. j = i + 1
      <4> SUFFICES ASSUME j # i + 1 PROVE FALSE
        OBVIOUS
      <4>1. (i - B) + 1 \in 1..W /\ i + 1 <= j - 1 /\ B + ((i - B) + 1) = i + 1
        BY <1>1, <1>6, <3>1
      <4>2. i + 1 \in 1..Len(t) /\ IsPayload(t[i + 1])
        BY <1>1, <4>1
      <4> QED
        BY <1>6, <4>1, <4>2 DEF NoPayload
    <3>3. j - B = (i - B) + 1 /\ i - B \in Nat
      BY <1>1, <3>1, <3>2
    <3>4. t[j].v = hi + ((i - B) + 1)
      BY <3>1, <3>3
    <3> QED
      BY <3>1, <3>3, <3>4
  <2> QED
    BY <1>1, <1>6, <2>1, <2>2, <2>3
<1>7. ASSUME NEW i \in 1..Len(t), NEW j \in 1..Len(t), i < j,
             \A k \in i..j : IsPayload(t[k])
      PROVE  t[j].v = t[i].v + (j - i)
  <2>0. IsPayload(t[i]) /\ IsPayload(t[j])
    BY <1>7
  <2>1. CASE j \in 1..L
    <3>1. /\ i \in 1..L /\ t[i] = s[i] /\ t[j] = s[j]
          /\ \A k \in i..j : IsPayload(s[k])
      BY <1>1, <1>7, <2>1, SMTT(30)
    <3> QED
      BY <1>7, <2>1, <3>1 DEF Numbered, L
  <2>2. CASE i \in 1..L /\ j \notin 1..L
    <3>1. L + 1 \in i..j
      BY <1>1, <2>2
    <3> QED
      BY <1>3, <1>7, <3>1
  <2>3. CASE i \notin 1..L /\ j \notin 1..L
    <3>1. /\ i - B \in 1..W /\ t[i].v = hi + (i - B)
          /\ j - B \in 1..W /\ t[j].v = hi + (j - B)
      BY <1>2, <2>0, <2>3
    <3> QED
      BY <1>1, <3>1
  <2> QED
    BY <1>1, <1>7, <2>1, <2>2, <2>3
<1>8. NumberedTo(t, lo, hi + W)
  <2>1. W \in 1..W
    BY <1>1
  <2>2. ASSUME NEW i \in 1..Len(t), IsPayload(t[i]), NoPayload(t, i + 1, Len(t))
        PROVE  t[i].v = hi + W
    <3>1. i >= B + W
      <4> SUFFICES ASSUME ~(i >= B + W) PROVE FALSE
        OBVIOUS
      <4>1. i + 1 <= B + W /\ B + W <= Len(t)
        BY <1>1
      <4>2. B + W \in 1..Len(t) /\ IsPayload(t[B + W])
        BY <1>1, <2>1
      <4> QED
        BY <2>2, <4>1, <4>2 DEF NoPayload
    <3>2. i - B \in 1..W /\ t[i].v = hi + (i - B)
      BY <1>1, <1>2, <2>2, <3>1
    <3> QED
      BY <1>1, <3>1, <3>2
  <2> QED
    BY <1>1, <2>1, <2>2 DEF NumberedTo
<1> QED
  BY <1>5, <1>6, <1>7, <1>8 DEF Numbered, W


-----------------------------------------------------------------------------
(* The steps.                                                              *)

\* What the type says of the sequences and of what is derived from them.
LEMMA Shapes ==
  ASSUME TypeOK
  PROVE  /\ wbuf \in Seq(Bytes) /\ net \in Seq(Bytes) /\ arrived \in Seq(Bytes)
         /\ cur \in Seq(Bytes) /\ out \in Seq(Bytes)
         /\ Upcoming \in Seq(Bytes) /\ Len(Upcoming) = Len(arrived) + Len(net)
         /\ \A i \in 1..Len(arrived) : Upcoming[i] = arrived[i]
         /\ \A i \in 1..Len(net) : Upcoming[Len(arrived) + i] = net[i]
         /\ Taken \in Nat /\ Sent \in Nat
         /\ Len(arrived) \in Nat /\ Len(net) \in Nat /\ Len(wbuf) \in Nat
         /\ Len(cur) \in Nat /\ Len(out) \in Nat /\ src \in Nat
<1>1. wbuf \in Seq(Bytes) /\ net \in Seq(Bytes) /\ arrived \in Seq(Bytes)
      /\ cur \in Seq(Bytes) /\ out \in Seq(Bytes)
  BY DEF TypeOK
<1>2. src \in Nat /\ Len(wbuf) <= src
  BY DEF TypeOK
<1>3. Taken \in Nat /\ Sent \in Nat
  BY <1>1, <1>2 DEF Taken, Sent
<1>4. Joined(arrived, net, Upcoming)
  BY <1>1, Concat DEF Upcoming
<1> QED
  BY <1>1, <1>2, <1>3, <1>4 DEF Joined

\* The writer's side of the invariant, and the part that only the stream matters to.
Stream == Framed /\ InPlace /\ NothingLost

LEMMA StreamFrame ==
  ASSUME Stream, Upcoming' = Upcoming, Taken' = Taken, Sent' = Sent,
         UNCHANGED <<net, closed, rstate, size>>, rd' # "error" => rd # "error"
  PROVE  Stream'
BY DEF Stream, Framed, InPlace, NothingLost

LEMMA WriteKeeps ==
  ASSUME Inductive, NEW n \in Sizes, PollWrite(n)
  PROVE  Inductive'
<1> USE DEF readerVars
<1>0. TypeOK /\ Stream /\ Buffered /\ ReadIsPrefix /\ Reads /\ n \in Nat \ {0}
  BY DEF Inductive, Stream
<1>1. wbuf \in Seq(Bytes) /\ Len(wbuf) \in Nat /\ src \in Nat /\ Len(wbuf) <= src
  BY <1>0, Shapes DEF TypeOK
<1> DEFINE new == [i \in 1..n |-> PayloadByte(src + i)]
<1>2. new \in Seq(Bytes) /\ Len(new) = n /\ \A i \in 1..n : new[i] = PayloadByte(src + i)
  <2>1. \A i \in 1..n : PayloadByte(src + i) \in Bytes
    BY <1>0, <1>1, ByteParts DEF PollWrite
  <2>2. new \in [1..n -> Bytes]
    BY <2>1
  <2> QED
    BY <1>0, <2>2
<1>3. wbuf' = wbuf \o new /\ src' = src + n /\ src + n <= MaxBytes
      /\ UNCHANGED <<net, arrived, closed, rstate, size, rd, future, want, cur, out, turn>>
  BY DEF PollWrite
<1> HIDE DEF new
<1>4. /\ wbuf' \in Seq(Bytes) /\ Len(wbuf') = Len(wbuf) + n
      /\ \A i \in 1..Len(wbuf) : wbuf'[i] = wbuf[i]
      /\ \A i \in 1..n : wbuf'[Len(wbuf) + i] = PayloadByte(src + i)
  <2>1. Joined(wbuf, new, wbuf')
    BY <1>1, <1>2, <1>3, Concat
  <2> QED
    BY <1>2, <2>1 DEF Joined
<1>5. Sent' = Sent /\ Sent = src - Len(wbuf)
  BY <1>0, <1>1, <1>3, <1>4 DEF Sent
<1>6. TypeOK'
  BY <1>0, <1>1, <1>3, <1>4 DEF TypeOK
<1>7. Buffered'
  <2> SUFFICES ASSUME NEW k \in 1..Len(wbuf') PROVE wbuf'[k] = PayloadByte(Sent + k)
    BY <1>5 DEF Buffered
  <2>1. CASE k \in 1..Len(wbuf)
    BY <1>0, <1>4, <2>1 DEF Buffered
  <2>2. CASE k \notin 1..Len(wbuf)
    <3>1. k - Len(wbuf) \in 1..n /\ Len(wbuf) + (k - Len(wbuf)) = k
      BY <1>0, <1>1, <1>4, <2>2
    <3>2. wbuf'[k] = PayloadByte(src + (k - Len(wbuf)))
      BY <1>4, <3>1
    <3>3. src + (k - Len(wbuf)) = Sent + k
      BY <1>1, <1>4, <1>5
    <3> QED
      BY <3>2, <3>3
  <2> QED
    BY <2>1, <2>2
<1>8. Stream'
  BY <1>0, <1>3, <1>5, StreamFrame DEF Upcoming, Taken
<1>9. ReadIsPrefix' /\ Reads'
  BY <1>0, <1>3 DEF ReadIsPrefix, Reads
<1> QED
  BY <1>6, <1>7, <1>8, <1>9 DEF Inductive, Stream

LEMMA FinishKeeps ==
  ASSUME Inductive, FinishChunk
  PROVE  Inductive'
<1> USE DEF readerVars
<1>0. TypeOK /\ Framed /\ InPlace /\ NothingLost /\ Buffered /\ ReadIsPrefix /\ Reads
  BY DEF Inductive
<1>1. /\ ~closed /\ wbuf # <<>> /\ wbuf' = <<>>
      /\ net' = ((net \o HeaderBytes(Len(wbuf))) \o wbuf) \o HeaderBytes(0)
      /\ UNCHANGED <<src, arrived, closed, rstate, size, rd, future, want, cur, out, turn>>
  BY DEF FinishChunk
<1>2. /\ Len(wbuf) \in 1..MaxBytes /\ wbuf \in Seq(Bytes) /\ net \in Seq(Bytes)
      /\ arrived \in Seq(Bytes) /\ src \in 0..MaxBytes /\ Len(wbuf) <= src
      /\ Len(net) \in Nat /\ Len(arrived) \in Nat /\ Taken \in Nat /\ Sent \in Nat
      /\ Upcoming \in Seq(Bytes) /\ Len(Upcoming) = Len(arrived) + Len(net)
      /\ \A i \in 1..Len(arrived) : Upcoming[i] = arrived[i]
      /\ \A i \in 1..Len(net) : Upcoming[Len(arrived) + i] = net[i]
  <2>1. Len(wbuf) # 0
    BY <1>0, <1>1, Shapes
  <2> QED
    BY <1>0, <2>1, Shapes DEF TypeOK
<1> DEFINE H == HeaderBytes(Len(wbuf))
           Z == HeaderBytes(0)
           W == Len(wbuf)
           N == Len(net)
<1>3. /\ H \in Seq(Bytes) /\ Len(H) = HdrLen /\ Z \in Seq(Bytes) /\ Len(Z) = HdrLen
      /\ \A k \in 1..HdrLen : H[k].h = k
  <2>1. 0 \in 0..MaxBytes /\ W \in 0..MaxBytes
    BY <1>2
  <2> QED
    BY <2>1, HeaderParts
<1>4. net' = ((net \o H) \o wbuf) \o Z
  BY <1>1
<1> HIDE DEF H, Z
<1>5. /\ net' \in Seq(Bytes) /\ Len(net') = N + HdrLen + W + HdrLen
      /\ \A i \in 1..N : net'[i] = net[i]
      /\ \A k \in 1..HdrLen : net'[N + k] = H[k]
      /\ \A k \in 1..W : net'[N + HdrLen + k] = wbuf[k]
      /\ \A k \in 1..HdrLen : net'[N + HdrLen + W + k] = Z[k]
  <2> DEFINE a == net \o H
             b == a \o wbuf
  <2>0. Joined(net, H, a)
    BY <1>2, <1>3, Concat
  <2>1. /\ a \in Seq(Bytes) /\ Len(a) = N + HdrLen
        /\ \A i \in 1..N : a[i] = net[i]
        /\ \A k \in 1..HdrLen : a[N + k] = H[k]
    BY <1>3, <2>0 DEF Joined
  <2> HIDE DEF a
  <2>8. Joined(a, wbuf, b)
    BY <1>2, <2>1, Concat
  <2>2. /\ b \in Seq(Bytes) /\ Len(b) = N + HdrLen + W
        /\ \A i \in 1..(N + HdrLen) : b[i] = a[i]
        /\ \A k \in 1..W : b[N + HdrLen + k] = wbuf[k]
    BY <2>1, <2>8 DEF Joined
  <2>3. net' = b \o Z
    BY <1>4 DEF a
  <2> HIDE DEF b
  <2>9. Joined(b, Z, net')
    BY <1>3, <2>2, <2>3, Concat
  <2>4. /\ net' \in Seq(Bytes) /\ Len(net') = N + HdrLen + W + HdrLen
        /\ \A i \in 1..(N + HdrLen + W) : net'[i] = b[i]
        /\ \A k \in 1..HdrLen : net'[N + HdrLen + W + k] = Z[k]
    BY <1>3, <2>2, <2>9 DEF Joined
  <2>5. ASSUME NEW i \in 1..N PROVE net'[i] = net[i]
    <3>1. i \in 1..(N + HdrLen) /\ i \in 1..(N + HdrLen + W)
      BY <1>2
    <3> QED
      BY <2>1, <2>2, <2>4, <3>1
  <2>6. ASSUME NEW k \in 1..HdrLen PROVE net'[N + k] = H[k]
    <3>1. N + k \in 1..(N + HdrLen) /\ N + k \in 1..(N + HdrLen + W)
      BY <1>2
    <3> QED
      BY <2>1, <2>2, <2>4, <3>1
  <2>7. ASSUME NEW k \in 1..W PROVE net'[N + HdrLen + k] = wbuf[k]
    <3>1. N + HdrLen + k \in 1..(N + HdrLen + W)
      BY <1>2
    <3> QED
      BY <2>2, <2>4, <3>1
  <2> QED
    BY <2>4, <2>5, <2>6, <2>7
<1>6. TypeOK'
  <2>1. wbuf' \in Seq(Bytes) /\ Len(wbuf') = 0
    BY <1>1
  <2> QED
    BY <1>0, <1>1, <1>2, <1>5, <2>1 DEF TypeOK
<1>7. /\ Upcoming' \in Seq(Bytes) /\ Len(Upcoming') = Len(arrived) + Len(net')
      /\ \A i \in 1..Len(arrived) : Upcoming'[i] = arrived[i]
      /\ \A i \in 1..Len(net') : Upcoming'[Len(arrived) + i] = net'[i]
  <2>1. Joined(arrived, net', Upcoming')
    BY <1>1, <1>2, <1>5, Concat DEF Upcoming
  <2> QED
    BY <2>1 DEF Joined
<1>8. Adds(Upcoming, wbuf, Upcoming')
  <2> DEFINE L == Len(Upcoming)
             A == Len(arrived)
  <2>1. L = A + N /\ A \in Nat /\ N \in Nat /\ W \in Nat
    BY <1>2
  <2>2. Len(Upcoming') = L + HdrLen + W + HdrLen
    BY <1>5, <1>7, <2>1
  <2>3. ASSUME NEW i \in 1..L PROVE Upcoming'[i] = Upcoming[i]
    <3>1. CASE i <= A
      <4>1. i \in 1..A
        BY <3>1
      <4> QED
        BY <1>2, <1>7, <4>1
    <3>2. CASE i > A
      <4>1. i - A \in 1..N /\ i - A \in 1..Len(net') /\ A + (i - A) = i
        BY <1>5, <2>1, <3>2
      <4>2. Upcoming[A + (i - A)] = net[i - A] /\ Upcoming'[A + (i - A)] = net'[i - A]
        BY <1>2, <1>7, <4>1
      <4> QED
        BY <1>5, <4>1, <4>2
    <3> QED
      BY <2>1, <3>1, <3>2
  <2>4. ASSUME NEW k \in 1..HdrLen PROVE Upcoming'[L + k] = H[k]
    <3>1. N + k \in 1..Len(net') /\ A + (N + k) = L + k
      BY <1>5, <2>1
    <3> QED
      BY <1>5, <1>7, <3>1
  <2>5. ASSUME NEW k \in 1..W PROVE Upcoming'[L + HdrLen + k] = wbuf[k]
    <3>1. N + HdrLen + k \in 1..Len(net') /\ A + (N + HdrLen + k) = L + HdrLen + k
      BY <1>5, <2>1
    <3> QED
      BY <1>5, <1>7, <3>1
  <2>6. ASSUME NEW k \in 1..HdrLen PROVE Upcoming'[L + HdrLen + W + k] = Z[k]
    <3>1. N + HdrLen + W + k \in 1..Len(net') /\ A + (N + HdrLen + W + k) = L + HdrLen + W + k
      BY <1>5, <2>1
    <3> QED
      BY <1>5, <1>7, <3>1
  <2> QED
    BY <2>2, <2>3, <2>4, <2>5, <2>6 DEF Adds, H, Z
<1>9. \A k \in 1..Len(wbuf) : wbuf[k] = PayloadByte(Sent + k) /\ IsPayload(wbuf[k])
  BY <1>0, ByteParts DEF Buffered
<1>10. WholeChunks(Upcoming) /\ Numbered(Upcoming, Taken) /\ NumberedTo(Upcoming, Taken, Sent)
  BY <1>0, <1>1 DEF Framed, NothingLost
<1>11. WholeChunks(Upcoming')
  BY <1>2, <1>7, <1>8, <1>9, <1>10, AddFrames
<1>12. Numbered(Upcoming', Taken) /\ NumberedTo(Upcoming', Taken, Sent + Len(wbuf))
  BY <1>2, <1>7, <1>8, <1>9, <1>10, AddNumbers
<1>13. Taken' = Taken /\ Sent' = Sent + Len(wbuf)
  BY <1>1, <1>2 DEF Taken, Sent
<1>14. Framed'
  <2>1. net'[1].h \in {0, 1}
    <3>1. CASE N = 0
      <4>1. 1 \in 1..HdrLen /\ N + 1 = 1
        BY <3>1
      <4>2. net'[1] = H[1] /\ H[1].h = 1
        BY <1>3, <1>5, <4>1
      <4> QED
        BY <4>2
    <3>2. CASE N # 0
      <4>1. 1 \in 1..N /\ net # <<>>
        BY <1>2, <3>2
      <4>2. net'[1] = net[1] /\ net[1].h \in {0, 1}
        BY <1>0, <1>5, <4>1 DEF Framed
      <4> QED
        BY <4>2
    <3> QED
      BY <3>1, <3>2
  <2>2. Chunks(Upcoming')
    BY <1>11 DEF Chunks, WholeChunks, WholeChunkAt
  <2> QED
    BY <1>1, <1>11, <2>1, <2>2 DEF Framed
<1>15. InPlace'
  <2>1. \A i \in 1..Len(Upcoming) : Upcoming'[i] = Upcoming[i]
    BY <1>8 DEF Adds
  <2>2. Len(Upcoming') > Len(Upcoming)
    BY <1>2, <1>8 DEF Adds
  <2>3. size \in Nat /\ rstate \in {"Header", "Data"}
    BY <1>0 DEF TypeOK
  <2>4. CASE rd # "error" /\ rstate = "Header"
    <3>1. Upcoming'[1].h = 1
      <4>1. CASE Upcoming = <<>>
        <5>1. Upcoming'[Len(Upcoming) + 1] = H[1] /\ Len(Upcoming) = 0 /\ 1 \in 1..HdrLen
          BY <1>8, <4>1 DEF Adds, H
        <5> QED
          BY <1>3, <5>1
      <4>2. CASE Upcoming # <<>>
        BY <1>0, <1>2, <2>1, <2>4, <4>2 DEF InPlace
      <4> QED
        BY <4>1, <4>2
    <3> QED
      BY <1>1, <2>4, <3>1 DEF InPlace
  <2>5. CASE rd # "error" /\ rstate = "Data"
    <3>1. /\ \A i \in 1..size : i <= Len(Upcoming) => IsPayload(Upcoming[i])
          /\ size + 1 <= Len(Upcoming) => Upcoming[size + 1].h = 1
          /\ size + 1 <= Len(Upcoming)
      BY <1>0, <1>1, <2>5 DEF InPlace
    <3>2. size + 1 \in 1..Len(Upcoming) /\ \A i \in 1..size : i \in 1..Len(Upcoming)
      BY <1>2, <2>3, <3>1
    <3>3. /\ \A i \in 1..size : IsPayload(Upcoming'[i])
          /\ Upcoming'[size + 1].h = 1
          /\ size + 1 <= Len(Upcoming')
      BY <1>2, <1>7, <2>1, <2>2, <2>3, <3>1, <3>2
    <3> QED
      BY <1>1, <2>5, <3>3 DEF InPlace
  <2>6. CASE rd = "error"
    BY <1>1, <2>6 DEF InPlace
  <2> QED
    BY <2>3, <2>4, <2>5, <2>6
<1>16. Buffered'
  BY <1>1 DEF Buffered
<1>17. ReadIsPrefix' /\ Reads'
  BY <1>0, <1>1 DEF ReadIsPrefix, Reads
<1> QED
  BY <1>1, <1>6, <1>12, <1>13, <1>14, <1>15, <1>16, <1>17 DEF Inductive, NothingLost


\* A delivery moves bytes from the network to the reader: the stream is the same.
LEMMA DeliverKeeps ==
  ASSUME Inductive, ~SplitHeaders, NEW n \in 1..Len(net), Deliver(n)
  PROVE  Inductive'
<1> USE DEF readerVars, writerVars
<1>0. TypeOK /\ Stream /\ Buffered /\ ReadIsPrefix /\ Reads /\ Framed /\ InPlace /\ NothingLost
  BY DEF Inductive, Stream
<1>1. /\ n < Len(net) => net[n + 1].h \in {0, 1}
      /\ arrived' = arrived \o Front1(net, n) /\ net' = Rest(net, n)
      /\ UNCHANGED <<closed, src, wbuf, rstate, size, rd, future, want, cur, out, turn>>
  BY DEF Deliver
<1> DEFINE A == Len(arrived)
           N == Len(net)
<1>2. /\ net \in Seq(Bytes) /\ arrived \in Seq(Bytes) /\ N \in Nat /\ A \in Nat
      /\ n \in 0..N
      /\ Joined(arrived, net, Upcoming)
  BY <1>0, Shapes DEF Joined
<1>3. /\ Front1(net, n) \in Seq(Bytes) /\ Len(Front1(net, n)) = n
      /\ \A i \in 1..n : Front1(net, n)[i] = net[i]
      /\ net' \in Seq(Bytes) /\ Len(net') = N - n
      /\ \A i \in 1..(N - n) : net'[i] = net[i + n]
  <2>1. /\ Front1(net, n) \in Seq(Bytes) /\ Cuts(net, n, Front1(net, n))
        /\ net' \in Seq(Bytes) /\ Drops(net, n, net')
    BY <1>1, <1>2, FrontRest
  <2> QED
    BY <2>1 DEF Cuts, Drops
<1>4. Joined(arrived, Front1(net, n), arrived')
  BY <1>1, <1>2, <1>3, Concat
<1>5. Joined(arrived', net', Upcoming')
  BY <1>3, <1>4, Concat DEF Joined, Upcoming
<1>6. Len(arrived') = A + n /\ Len(Upcoming') = A + N /\ Len(Upcoming) = A + N
  BY <1>2, <1>3, <1>4, <1>5, SMTT(30) DEF Joined
<1>7. ASSUME NEW i \in 1..(A + N) PROVE Upcoming'[i] = Upcoming[i]
  <2>1. CASE i \in 1..A
    <3>1. i \in 1..Len(arrived') /\ arrived'[i] = arrived[i] /\ Upcoming[i] = arrived[i]
      BY <1>2, <1>4, <1>6, <2>1 DEF Joined
    <3> QED
      BY <1>5, <3>1 DEF Joined
  <2>2. CASE i - A \in 1..n
    <3>1. A + (i - A) = i /\ i \in 1..Len(arrived') /\ i - A \in 1..N
      BY <1>2, <1>6, <2>2
    <3>2. Upcoming[A + (i - A)] = net[i - A]
      BY <1>2, <3>1 DEF Joined
    <3>3. arrived'[A + (i - A)] = Front1(net, n)[i - A] /\ Front1(net, n)[i - A] = net[i - A]
      BY <1>3, <1>4, <2>2 DEF Joined
    <3>4. Upcoming'[i] = arrived'[i]
      BY <1>5, <3>1 DEF Joined
    <3> QED
      BY <3>1, <3>2, <3>3, <3>4
  <2>3. CASE i - (A + n) \in 1..(N - n)
    <3>1. /\ (A + n) + (i - (A + n)) = i /\ A + (i - A) = i /\ i - A \in 1..N
          /\ (i - (A + n)) + n = i - A
      BY <1>2, <2>3
    <3>2. Upcoming[A + (i - A)] = net[i - A]
      BY <1>2, <3>1 DEF Joined
    <3>3. Upcoming'[(A + n) + (i - (A + n))] = net'[i - (A + n)]
      BY <1>3, <1>5, <1>6, <2>3 DEF Joined
    <3>4. net'[i - (A + n)] = net[(i - (A + n)) + n]
      BY <1>3, <2>3
    <3> QED
      BY <3>1, <3>2, <3>3, <3>4
  <2>4. i \in 1..A \/ i - A \in 1..n \/ i - (A + n) \in 1..(N - n)
    BY <1>2
  <2> QED
    BY <2>1, <2>2, <2>3, <2>4
<1>8. Upcoming' = Upcoming
  <2>1. Upcoming \in Seq(Bytes) /\ Upcoming' \in Seq(Bytes)
    BY <1>2, <1>5 DEF Joined
  <2> QED
    BY <1>6, <1>7, <2>1
<1>9. net' # <<>> => net'[1].h \in {0, 1}
  <2> SUFFICES ASSUME net' # <<>> PROVE net'[1].h \in {0, 1}
    OBVIOUS
  <2>1. 1 \in 1..(N - n) /\ n < N
    BY <1>2, <1>3
  <2>2. net'[1] = net[1 + n] /\ 1 + n = n + 1
    BY <1>3, <2>1
  <2>3. net[n + 1].h \in {0, 1}
    BY <1>1, <2>1
  <2> QED
    BY <2>2, <2>3
<1>10. Framed'
  BY <1>0, <1>1, <1>8, <1>9 DEF Framed
<1>11. Taken' = Taken /\ Sent' = Sent
  BY <1>1 DEF Taken, Sent
<1>12. InPlace' /\ NothingLost'
  BY <1>0, <1>1, <1>8, <1>11 DEF InPlace, NothingLost
<1>13. TypeOK'
  BY <1>0, <1>1, <1>3, <1>4 DEF TypeOK, Joined
<1>14. Buffered' /\ ReadIsPrefix' /\ Reads'
  BY <1>0, <1>1, <1>11 DEF Buffered, ReadIsPrefix, Reads
<1> QED
  BY <1>10, <1>12, <1>13, <1>14 DEF Inductive

\* The peer closes the connection between two deliveries: no header is cut.
LEMMA CloseKeeps ==
  ASSUME Inductive, PeerCloses
  PROVE  Inductive'
<1> USE DEF readerVars, writerVars
<1>0. TypeOK /\ Stream /\ Buffered /\ ReadIsPrefix /\ Reads /\ Framed /\ InPlace /\ NothingLost
  BY DEF Inductive, Stream
<1>1. /\ ~closed /\ closed' = TRUE /\ net' = <<>>
      /\ UNCHANGED <<arrived, src, wbuf, rstate, size, rd, future, want, cur, out, turn>>
  BY DEF PeerCloses
<1>2. Joined(arrived, net, Upcoming) /\ arrived \in Seq(Bytes) /\ Taken \in Nat
      /\ net \in Seq(Bytes)
  BY <1>0, Shapes DEF Joined
<1>3. Upcoming' = arrived
  BY <1>1, <1>2 DEF Upcoming
<1>4. Cuts(Upcoming, Len(arrived), arrived) /\ Len(arrived) \in 0..Len(Upcoming)
      /\ Upcoming \in Seq(Bytes)
  BY <1>2 DEF Cuts, Joined
<1>5. Len(arrived) < Len(Upcoming) => Upcoming[Len(arrived) + 1].h \in {0, 1}
  <2> SUFFICES ASSUME Len(arrived) < Len(Upcoming)
               PROVE  Upcoming[Len(arrived) + 1].h \in {0, 1}
    OBVIOUS
  <2>1. 1 \in 1..Len(net) /\ net # <<>>
    BY <1>2 DEF Joined
  <2>2. Upcoming[Len(arrived) + 1] = net[1]
    BY <1>2, <2>1 DEF Joined
  <2> QED
    BY <1>0, <2>1, <2>2 DEF Framed
<1>6. Chunks(Upcoming) /\ Numbered(Upcoming, Taken)
  BY <1>0 DEF Framed, NothingLost
<1>7. Chunks(arrived)
  BY <1>2, <1>4, <1>5, <1>6, CutFrames
<1>8. Numbered(arrived, Taken)
  BY <1>2, <1>4, <1>6, CutNumbers
<1>9. Framed' /\ NothingLost'
  BY <1>1, <1>3, <1>7, <1>8 DEF Framed, NothingLost, Taken
<1>10. InPlace'
  <2>1. \A i \in 1..Len(arrived) : arrived[i] = Upcoming[i]
    BY <1>4 DEF Cuts
  <2>2. size \in Nat /\ Len(arrived) \in Nat /\ Len(arrived) <= Len(Upcoming)
        /\ Len(Upcoming) \in Nat
    BY <1>0, <1>4, Shapes DEF TypeOK
  <2>3. CASE rd # "error" /\ rstate = "Header"
    <3>1. ASSUME arrived # <<>> PROVE arrived[1].h = 1
      <4>1. 1 \in 1..Len(arrived) /\ Upcoming # <<>>
        BY <1>2, <2>2, <3>1
      <4> QED
        BY <1>0, <2>1, <2>3, <4>1 DEF InPlace
    <3> QED
      BY <1>1, <1>3, <2>3, <3>1 DEF InPlace
  <2>4. CASE rd # "error" /\ rstate # "Header"
    <3>1. /\ \A i \in 1..size : i <= Len(Upcoming) => IsPayload(Upcoming[i])
          /\ size + 1 <= Len(Upcoming) => Upcoming[size + 1].h = 1
      BY <1>0, <2>4 DEF InPlace
    <3>2. ASSUME NEW i \in 1..size, i <= Len(arrived) PROVE IsPayload(arrived[i])
      BY <2>1, <2>2, <3>1, <3>2
    <3>3. ASSUME size + 1 <= Len(arrived) PROVE arrived[size + 1].h = 1
      BY <2>1, <2>2, <3>1, <3>3
    <3> QED
      BY <1>1, <1>3, <2>4, <3>2, <3>3 DEF InPlace
  <2>5. CASE rd = "error"
    BY <1>1, <2>5 DEF InPlace
  <2> QED
    BY <2>3, <2>4, <2>5
<1>11. TypeOK'
  <2>1. net' \in Seq(Bytes)
    BY <1>1
  <2> QED
    BY <1>0, <1>1, <2>1 DEF TypeOK
<1>12. Buffered' /\ ReadIsPrefix' /\ Reads'
  BY <1>0, <1>1 DEF Buffered, ReadIsPrefix, Reads, Sent
<1> QED
  BY <1>9, <1>10, <1>11, <1>12 DEF Inductive


\* A new read, a wake-up, an answer that there is nothing yet, an end of file: no
\* byte moves.
LEMMA CallerKeeps ==
  ASSUME Inductive, "int" \notin Futures,
         \/ \E n \in Sizes, f \in Futures : Ask(n, f)
         \/ HeaderAtEof \/ DataAtEof \/ ReturnPending \/ Wake
  PROVE  Inductive'
<1> USE DEF ReaderUnchanged, writerVars
<1>0. TypeOK /\ Stream /\ Buffered /\ ReadIsPrefix /\ Reads /\ Framed
  BY DEF Inductive, Stream
<1>1. UNCHANGED <<src, wbuf, net, arrived, closed>> /\ Upcoming' = Upcoming /\ Sent' = Sent
  BY DEF Ask, HeaderAtEof, DataAtEof, ReturnPending, Wake, Upcoming, Sent
<1>2. Buffered'
  BY <1>0, <1>1 DEF Buffered
<1>3. ASSUME NEW n \in Sizes, NEW f \in Futures, Ask(n, f) PROVE Inductive'
  <2>1. /\ rd = "idle" /\ rd' = "polling" /\ want' = n /\ future' = f /\ cur' = <<>>
        /\ UNCHANGED <<rstate, size, out, turn>> /\ cur = <<>> /\ f = "exact"
        /\ n \in Nat /\ 0 < n
    BY <1>0, <1>3 DEF Ask, Reads
  <2>2. TypeOK'
    BY <1>0, <1>1, <2>1 DEF TypeOK
  <2>3. Stream'
    BY <1>0, <1>1, <2>1, StreamFrame DEF Taken
  <2>4. ReadIsPrefix' /\ Reads'
    BY <1>0, <2>1 DEF ReadIsPrefix, Reads
  <2> QED
    BY <1>2, <2>2, <2>3, <2>4 DEF Inductive, Stream
<1>4. CASE HeaderAtEof
  <2>1. /\ rstate = "Header" /\ size' = 0 /\ turn' = 1 - turn /\ arrived = <<>> /\ closed
        /\ UNCHANGED <<rstate, rd, future, want, cur, out>>
    BY <1>4 DEF HeaderAtEof
  <2>2. Upcoming = <<>> /\ UNCHANGED <<Taken, net, closed>>
    BY <1>0, <1>1, <2>1 DEF Framed, Upcoming, Taken
  <2>3. TypeOK'
    BY <1>0, <1>1, <2>1 DEF TypeOK
  <2>4. Framed' /\ InPlace' /\ NothingLost'
    BY <1>0, <1>1, <2>1, <2>2 DEF Stream, Framed, InPlace, NothingLost
  <2>5. ReadIsPrefix' /\ Reads'
    BY <1>0, <2>1 DEF ReadIsPrefix, Reads
  <2> QED
    BY <1>2, <2>3, <2>4, <2>5 DEF Inductive
<1>5. CASE DataAtEof \/ ReturnPending \/ Wake
  <2>1. /\ UNCHANGED <<rstate, size, future, want, out, turn>> /\ cur' = cur
        /\ rd \in {"polling", "pending"} /\ rd' \in {"error", "pending", "polling"}
        /\ future = "exact"
    BY <1>0, <1>5 DEF DataAtEof, ReturnPending, Wake, Reads
  <2>2. Len(cur) < want
    BY <1>0, <1>5 DEF DataAtEof, ReturnPending, Wake, Reads, TypeOK
  <2>3. TypeOK'
    BY <1>0, <1>1, <2>1, <2>2 DEF TypeOK
  <2>4. Stream'
    BY <1>0, <1>1, <2>1, StreamFrame DEF Taken
  <2>5. ReadIsPrefix' /\ Reads'
    BY <1>0, <2>1, <2>2 DEF ReadIsPrefix, Reads
  <2> QED
    BY <1>2, <2>3, <2>4, <2>5 DEF Inductive, Stream
<1> QED
  BY <1>3, <1>4, <1>5

\* The reader takes n bytes off the front of what has arrived.
LEMMA TakeFront ==
  ASSUME TypeOK, NEW n \in 0..Len(arrived), arrived' = Rest(arrived, n), net' = net
  PROVE  /\ arrived' \in Seq(Bytes) /\ Upcoming' \in Seq(Bytes) /\ n \in 0..Len(Upcoming)
         /\ Drops(Upcoming, n, Upcoming')
         /\ Front1(arrived, n) \in Seq(Bytes) /\ Len(Front1(arrived, n)) = n
         /\ \A i \in 1..n : Front1(arrived, n)[i] = Upcoming[i]
<1> DEFINE A == Len(arrived)
           N == Len(net)
<1>1. /\ arrived \in Seq(Bytes) /\ net \in Seq(Bytes) /\ Joined(arrived, net, Upcoming)
      /\ A \in Nat /\ N \in Nat
  BY Shapes DEF Joined
<1>2. /\ Front1(arrived, n) \in Seq(Bytes) /\ Cuts(arrived, n, Front1(arrived, n))
      /\ arrived' \in Seq(Bytes) /\ Drops(arrived, n, arrived')
  BY <1>1, FrontRest
<1>3. Joined(arrived', net, Upcoming')
  BY <1>1, <1>2, Concat DEF Upcoming
<1>4. Len(arrived') = A - n /\ Len(Upcoming') = (A + N) - n /\ Len(Upcoming) = A + N
  BY <1>1, <1>2, <1>3 DEF Joined, Drops
<1>5. ASSUME NEW i \in 1..Len(Upcoming') PROVE Upcoming'[i] = Upcoming[i + n]
  <2>1. CASE i \in 1..(A - n)
    <3>1. i + n \in 1..A
      BY <1>1, <2>1
    <3>2. arrived'[i] = arrived[i + n] /\ Upcoming'[i] = arrived'[i]
      BY <1>2, <1>3, <1>4, <2>1 DEF Joined, Drops
    <3> QED
      BY <1>1, <3>1, <3>2 DEF Joined
  <2>2. CASE i - (A - n) \in 1..N
    <3>1. (A - n) + (i - (A - n)) = i /\ A + (i - (A - n)) = i + n
      BY <1>1
    <3>2. Upcoming'[(A - n) + (i - (A - n))] = net[i - (A - n)]
      BY <1>3, <1>4, <2>2 DEF Joined
    <3>3. Upcoming[A + (i - (A - n))] = net[i - (A - n)]
      BY <1>1, <2>2 DEF Joined
    <3> QED
      BY <3>1, <3>2, <3>3
  <2>3. i \in 1..(A - n) \/ i - (A - n) \in 1..N
    BY <1>1, <1>4
  <2> QED
    BY <2>1, <2>2, <2>3
<1>6. Drops(Upcoming, n, Upcoming') /\ n \in 0..Len(Upcoming)
  BY <1>1, <1>4, <1>5 DEF Drops
<1>7. Len(Front1(arrived, n)) = n /\ \A i \in 1..n : Front1(arrived, n)[i] = Upcoming[i]
  <2>1. Len(Front1(arrived, n)) = n /\ \A i \in 1..n : Front1(arrived, n)[i] = arrived[i]
    BY <1>2 DEF Cuts
  <2>2. \A i \in 1..n : i \in 1..Len(arrived) /\ Upcoming[i] = arrived[i]
    BY <1>1 DEF Joined
  <2> QED
    BY <2>1, <2>2
<1> QED
  BY <1>2, <1>3, <1>6, <1>7 DEF Joined


\* Where the reader expects a header there is one, all of it has arrived, and it
\* says how long the chunk is that follows.
LEMMA HeaderThere ==
  ASSUME Inductive, rd = "polling", rstate = "Header", arrived # <<>>
  PROVE  /\ AtMost(HdrLen, Len(arrived)) = HdrLen /\ HdrLen \in 0..Len(arrived)
         /\ \E m \in 0..MaxBytes :
               /\ FromLeBytes(Front1(arrived, HdrLen)) = m
               /\ ChunkAt(Upcoming, 1, m)
               /\ ~closed => WholeChunkAt(Upcoming, 1, m)
<1>0. TypeOK /\ Framed /\ InPlace
  BY DEF Inductive
<1>1. /\ arrived \in Seq(Bytes) /\ net \in Seq(Bytes) /\ Joined(arrived, net, Upcoming)
      /\ Len(arrived) \in Nat \ {0} /\ Len(net) \in Nat
  BY <1>0, Shapes DEF Joined
<1>2. 1 \in 1..Len(Upcoming) /\ Upcoming # <<>>
  BY <1>1 DEF Joined
<1>3. Upcoming[1].h = 1
  BY <1>0, <1>2 DEF InPlace
<1>4. PICK m \in 0..MaxBytes : /\ ChunkAt(Upcoming, 1, m)
                               /\ ~closed => WholeChunkAt(Upcoming, 1, m)
  <2>1. CASE closed
    BY <1>0, <1>2, <1>3, <2>1 DEF Framed, Chunks
  <2>2. CASE ~closed
    <3>1. PICK m \in 0..MaxBytes : WholeChunkAt(Upcoming, 1, m)
      BY <1>0, <1>2, <1>3, <2>2 DEF Framed, WholeChunks
    <3> QED
      BY <3>1 DEF WholeChunkAt
  <2> QED
    BY <2>1, <2>2
<1>5. HdrLen <= Len(Upcoming) /\ \A k \in 1..HdrLen : Upcoming[k] = HeaderBytes(m)[k]
  <2>1. ASSUME NEW k \in 1..HdrLen PROVE Upcoming[k] = HeaderBytes(m)[k]
    <3>1. Upcoming[1 + k - 1] = HeaderBytes(m)[k] /\ 1 + k - 1 = k
      BY <1>4 DEF ChunkAt
    <3> QED
      BY <3>1
  <2>2. HdrLen <= Len(Upcoming)
    BY <1>4 DEF ChunkAt
  <2> QED
    BY <2>1, <2>2
<1>6. HdrLen <= Len(arrived)
  <2> SUFFICES ASSUME ~(HdrLen <= Len(arrived)) PROVE FALSE
    OBVIOUS
  <2> DEFINE k == Len(arrived) + 1
  <2>1. k \in 1..HdrLen /\ k >= 2
    BY <1>1
  <2>2. 1 \in 1..Len(net) /\ net # <<>>
    BY <1>1, <1>5, <2>1 DEF Joined
  <2>3. Upcoming[k] = net[1]
    BY <1>1, <2>2 DEF Joined
  <2>4. net[1].h = k
    BY <1>5, <2>1, <2>3, HeaderParts
  <2>5. net[1].h \in {0, 1}
    BY <1>0, <2>2 DEF Framed
  <2> QED
    BY <2>1, <2>4, <2>5
<1>7. Front1(arrived, HdrLen) = HeaderBytes(m)
  <2>1. /\ Front1(arrived, HdrLen) \in Seq(Bytes)
        /\ Cuts(arrived, HdrLen, Front1(arrived, HdrLen))
    BY <1>1, <1>6, FrontRest
  <2>2. HeaderBytes(m) \in Seq(Bytes) /\ Len(HeaderBytes(m)) = HdrLen
    BY HeaderParts
  <2>3. ASSUME NEW k \in 1..HdrLen PROVE Front1(arrived, HdrLen)[k] = HeaderBytes(m)[k]
    <3>1. k \in 1..Len(arrived) /\ Upcoming[k] = arrived[k]
      BY <1>1, <1>6 DEF Joined
    <3> QED
      BY <1>5, <2>1, <3>1 DEF Cuts
  <2>4. Len(Front1(arrived, HdrLen)) = HdrLen
    BY <2>1 DEF Cuts
  <2> QED
    BY <2>1, <2>2, <2>3, <2>4
<1>8. FromLeBytes(Front1(arrived, HdrLen)) = m
  BY <1>7, WidthAssumption
<1>9. AtMost(HdrLen, Len(arrived)) = HdrLen /\ HdrLen \in 0..Len(arrived)
  BY <1>1, <1>6 DEF AtMost
<1> QED
  BY <1>4, <1>8, <1>9

LEMMA HeaderKeeps ==
  ASSUME Inductive, ReadHeader
  PROVE  Inductive'
<1> USE DEF ReaderUnchanged, writerVars
<1>0. TypeOK /\ Framed /\ InPlace /\ NothingLost /\ Buffered /\ ReadIsPrefix /\ Reads
  BY DEF Inductive
<1>1. /\ rd = "polling" /\ rstate = "Header" /\ arrived # <<>>
      /\ rstate' = IF size' \in 1..MaxChunk THEN "Data" ELSE "Header"
      /\ rd' = IF size' > MaxChunk THEN "error" ELSE rd
      /\ UNCHANGED <<future, want, cur, out, turn, closed, net, src, wbuf>>
  BY DEF ReadHeader
<1>2. PICK m \in 0..MaxBytes : /\ FromLeBytes(Front1(arrived, HdrLen)) = m
                               /\ ChunkAt(Upcoming, 1, m)
                               /\ ~closed => WholeChunkAt(Upcoming, 1, m)
  BY <1>1, HeaderThere
<1>3. HdrLen \in 0..Len(arrived) /\ size' = m /\ arrived' = Rest(arrived, HdrLen)
  BY <1>1, <1>2, HeaderThere DEF ReadHeader
<1>4. /\ arrived' \in Seq(Bytes) /\ Upcoming' \in Seq(Bytes) /\ Upcoming \in Seq(Bytes)
      /\ HdrLen \in 0..Len(Upcoming) /\ Drops(Upcoming, HdrLen, Upcoming')
      /\ Taken \in Nat /\ Sent \in Nat
  BY <1>0, <1>1, <1>3, TakeFront, Shapes
<1>5. \A k \in 1..HdrLen : ~IsPayload(Upcoming[k])
  <2> SUFFICES ASSUME NEW k \in 1..HdrLen PROVE ~IsPayload(Upcoming[k])
    OBVIOUS
  <2>1. Upcoming[1 + k - 1] = HeaderBytes(m)[k] /\ 1 + k - 1 = k
    BY <1>2 DEF ChunkAt
  <2>2. HeaderBytes(m)[k] \in Bytes /\ HeaderBytes(m)[k].h = k
    BY HeaderParts
  <2> QED
    BY <2>1, <2>2, ByteParts
<1>6. Taken' = Taken /\ Sent' = Sent
  BY <1>1 DEF Taken, Sent
<1>7. Framed'
  BY <1>0, <1>1, <1>4, DropFrames DEF Framed
<1>8. NothingLost'
  BY <1>0, <1>1, <1>4, <1>5, <1>6, DropHeaders DEF NothingLost
<1>9. InPlace'
  <2>1. \A i \in 1..Len(Upcoming') : Upcoming'[i] = Upcoming[i + HdrLen]
    BY <1>4 DEF Drops
  <2>2. Len(Upcoming') = Len(Upcoming) - HdrLen /\ Len(Upcoming) \in Nat
    BY <1>4 DEF Drops
  <2>3. ASSUME NEW i \in 1..m, i <= Len(Upcoming') PROVE IsPayload(Upcoming'[i])
    <3>1. 1 + HdrLen - 1 + i = i + HdrLen /\ i + HdrLen <= Len(Upcoming)
      BY <2>2, <2>3
    <3>2. IsPayload(Upcoming[1 + HdrLen - 1 + i])
      BY <1>2, <3>1 DEF ChunkAt
    <3> QED
      BY <2>1, <2>3, <3>1, <3>2
  <2>4. ASSUME m + 1 <= Len(Upcoming') PROVE Upcoming'[m + 1].h = 1
    <3>1. 1 + HdrLen + m = (m + 1) + HdrLen /\ (m + 1) + HdrLen <= Len(Upcoming)
          /\ m + 1 \in 1..Len(Upcoming')
      BY <2>2, <2>4
    <3>2. Upcoming[1 + HdrLen + m].h = 1
      BY <1>2, <3>1 DEF ChunkAt
    <3> QED
      BY <2>1, <3>1, <3>2
  <2>5. ~closed /\ m > 0 => m + 1 <= Len(Upcoming')
    BY <1>2, <2>2 DEF WholeChunkAt
  <2>6. CASE m \in 1..MaxChunk
    BY <1>1, <1>3, <2>3, <2>4, <2>5, <2>6 DEF InPlace
  <2>7. CASE m = 0
    <3>1. rstate' = "Header"
      BY <1>1, <1>3, <2>7
    <3>2. ASSUME Upcoming' # <<>> PROVE Upcoming'[1].h = 1
      <4>1. Len(Upcoming') # 0
        BY <1>4, <3>2
      <4>2. m + 1 <= Len(Upcoming')
        BY <1>4, <2>2, <2>7, <4>1
      <4> QED
        BY <2>4, <2>7, <4>2
    <3> QED
      BY <3>1, <3>2 DEF InPlace
  <2>8. CASE m > MaxChunk
    BY <1>1, <1>3, <2>8 DEF InPlace
  <2> QED
    BY <2>6, <2>7, <2>8
<1>10. TypeOK'
  BY <1>0, <1>1, <1>3, <1>4 DEF TypeOK
<1>11. Buffered' /\ ReadIsPrefix' /\ Reads'
  BY <1>0, <1>1, <1>6 DEF Buffered, ReadIsPrefix, Reads
<1> QED
  BY <1>7, <1>8, <1>9, <1>10, <1>11 DEF Inductive


\* What was read, in two parts.
ReadParts(o, c) == /\ \A i \in 1..Len(o) : o[i] = PayloadByte(i)
                   /\ \A i \in 1..Len(c) : c[i] = PayloadByte(Len(o) + i)

\* The bytes of b are the payload after the first k.
Follows(b, k) == \A i \in 1..Len(b) : b[i] = PayloadByte(k + i)

LEMMA PrefixParts ==
  ASSUME NEW o \in Seq(Bytes), NEW c \in Seq(Bytes)
  PROVE  (\A i \in 1..Len(o \o c) : (o \o c)[i] = PayloadByte(i)) <=> ReadParts(o, c)
<1> DEFINE g == o \o c
<1>1. Joined(o, c, g)
  BY Concat
<1> HIDE DEF g
<1>2. ASSUME \A i \in 1..Len(g) : g[i] = PayloadByte(i) PROVE ReadParts(o, c)
  <2>1. \A i \in 1..Len(o) : i \in 1..Len(g) /\ g[i] = o[i]
    BY <1>1 DEF Joined
  <2>2. \A i \in 1..Len(c) : Len(o) + i \in 1..Len(g) /\ g[Len(o) + i] = c[i]
    BY <1>1 DEF Joined
  <2> QED
    BY <1>2, <2>1, <2>2 DEF ReadParts
<1>3. ASSUME ReadParts(o, c), NEW i \in 1..Len(g) PROVE g[i] = PayloadByte(i)
  <2>1. CASE i \in 1..Len(o)
    BY <1>1, <1>3, <2>1 DEF Joined, ReadParts
  <2>2. CASE i - Len(o) \in 1..Len(c)
    <3>1. Len(o) + (i - Len(o)) = i
      BY <1>1 DEF Joined
    <3>2. g[Len(o) + (i - Len(o))] = c[i - Len(o)]
      BY <1>1, <2>2 DEF Joined
    <3>3. c[i - Len(o)] = PayloadByte(Len(o) + (i - Len(o)))
      BY <1>3, <2>2 DEF ReadParts
    <3> QED
      BY <3>1, <3>2, <3>3
  <2>3. i \in 1..Len(o) \/ i - Len(o) \in 1..Len(c)
    BY <1>1 DEF Joined
  <2> QED
    BY <2>1, <2>2, <2>3
<1> QED
  BY <1>2, <1>3 DEF g

\* More payload goes to the buffer, and with the buffer to the caller.
\* The read may go on with b, or end with it.
Grow(o, c, b) ==
    /\ ReadParts(o, c \o b) /\ c \o b \in Seq(Bytes) /\ Len(c \o b) = Len(c) + Len(b)
    /\ ReadParts((o \o c) \o b, <<>>) /\ (o \o c) \o b \in Seq(Bytes)
    /\ Len((o \o c) \o b) = Len(o) + Len(c) + Len(b)

LEMMA PartsGrow ==
  ASSUME NEW o \in Seq(Bytes), NEW c \in Seq(Bytes), NEW b \in Seq(Bytes), ReadParts(o, c),
         NEW k \in Nat, k = Len(o) + Len(c), Follows(b, k)
  PROVE  Grow(o, c, b)
<1> DEFINE d == c \o b
           g == o \o c
           h == g \o b
<1>1. Joined(c, b, d) /\ Joined(o, c, g)
  BY Concat
<1>2. Joined(g, b, h)
  BY <1>1, Concat DEF Joined
<1>3. \A i \in 1..Len(g) : g[i] = PayloadByte(i)
  BY PrefixParts
<1> HIDE DEF d, g, h
<1>4. ASSUME NEW i \in 1..Len(d) PROVE d[i] = PayloadByte(Len(o) + i)
  <2>1. CASE i \in 1..Len(c)
    BY <1>1, <2>1 DEF Joined, ReadParts
  <2>2. CASE i - Len(c) \in 1..Len(b)
    <3>1. Len(c) + (i - Len(c)) = i /\ Len(o) + Len(c) + (i - Len(c)) = Len(o) + i
      BY <1>1 DEF Joined
    <3>2. d[Len(c) + (i - Len(c))] = b[i - Len(c)]
      BY <1>1, <2>2 DEF Joined
    <3>3. b[i - Len(c)] = PayloadByte(Len(o) + Len(c) + (i - Len(c)))
      BY <2>2 DEF Follows
    <3> QED
      BY <3>1, <3>2, <3>3
  <2>3. i \in 1..Len(c) \/ i - Len(c) \in 1..Len(b)
    BY <1>1 DEF Joined
  <2> QED
    BY <2>1, <2>2, <2>3
<1>5. ASSUME NEW i \in 1..Len(h) PROVE h[i] = PayloadByte(i)
  <2>1. CASE i \in 1..Len(g)
    BY <1>2, <1>3, <2>1 DEF Joined
  <2>2. CASE i - Len(g) \in 1..Len(b)
    <3>1. Len(g) + (i - Len(g)) = i /\ Len(o) + Len(c) + (i - Len(g)) = i
      BY <1>1, <1>2 DEF Joined
    <3>2. h[Len(g) + (i - Len(g))] = b[i - Len(g)]
      BY <1>2, <2>2 DEF Joined
    <3>3. b[i - Len(g)] = PayloadByte(Len(o) + Len(c) + (i - Len(g)))
      BY <2>2 DEF Follows
    <3> QED
      BY <3>1, <3>2, <3>3
  <2>3. i \in 1..Len(g) \/ i - Len(g) \in 1..Len(b)
    BY <1>2 DEF Joined
  <2> QED
    BY <2>1, <2>2, <2>3
<1>6. ReadParts(o, d) /\ ReadParts(h, <<>>)
  BY <1>4, <1>5 DEF ReadParts
<1>7. d \in Seq(Bytes) /\ Len(d) = Len(c) + Len(b) /\ h \in Seq(Bytes)
      /\ Len(h) = Len(o) + Len(c) + Len(b)
  BY <1>1, <1>2 DEF Joined
<1> QED
  BY <1>6, <1>7 DEF d, g, h, Grow

LEMMA DataKeeps ==
  ASSUME Inductive, ReadData
  PROVE  Inductive'
<1> USE DEF ReaderUnchanged, writerVars
<1>0. TypeOK /\ Framed /\ InPlace /\ NothingLost /\ Buffered /\ ReadIsPrefix /\ Reads
  BY DEF Inductive
<1> DEFINE n == AtMost(AtMost(want - Len(cur), size), Len(arrived))
           bytes == Front1(arrived, n)
<1>1. /\ rd = "polling" /\ rstate = "Data" /\ arrived # <<>>
      /\ arrived' = Rest(arrived, n) /\ size' = size - n
      /\ rstate' = IF n = size THEN "Header" ELSE "Data"
      /\ IF Len(cur) + n = want
           THEN rd' = "idle" /\ cur' = <<>> /\ out' = (out \o cur) \o bytes
           ELSE cur' = cur \o bytes /\ UNCHANGED <<rd, out>>
      /\ UNCHANGED <<future, want, turn, closed, net, src, wbuf>>
  BY DEF ReadData
<1>2. /\ n \in 1..Len(arrived) /\ n <= size /\ Len(cur) + n <= want
      /\ size \in Nat /\ want \in Nat /\ Len(cur) \in Nat /\ Len(out) \in Nat
      /\ out \in Seq(Bytes) /\ cur \in Seq(Bytes)
      /\ Taken \in Nat /\ Sent \in Nat /\ Taken = Len(out) + Len(cur)
      /\ Upcoming \in Seq(Bytes)
  <2>1. Len(arrived) \in Nat /\ Len(arrived) # 0 /\ Len(cur) \in Nat /\ size \in Nat \ {0}
        /\ want \in Nat /\ Len(cur) < want
    BY <1>0, <1>1, Shapes DEF TypeOK
  <2>2. n \in 1..Len(arrived) /\ n <= size /\ Len(cur) + n <= want
    BY <2>1 DEF AtMost
  <2> QED
    BY <1>0, <2>1, <2>2, Shapes DEF Taken
<1> HIDE DEF n
<1>3. /\ arrived' \in Seq(Bytes) /\ Upcoming' \in Seq(Bytes) /\ n \in 1..Len(Upcoming)
      /\ Drops(Upcoming, n, Upcoming')
      /\ bytes \in Seq(Bytes) /\ Len(bytes) = n
      /\ \A i \in 1..n : bytes[i] = Upcoming[i]
  <2>1. n \in 0..Len(arrived)
    BY <1>2
  <2> QED
    BY <1>0, <1>1, <1>2, <2>1, TakeFront
<1> HIDE DEF bytes
<1>4. \A i \in 1..n : i \in 1..Len(Upcoming) /\ IsPayload(Upcoming[i])
  BY <1>0, <1>1, <1>2, <1>3, SMTT(30) DEF InPlace
<1>5. /\ Numbered(Upcoming, Taken)
      /\ ~closed => NumberedTo(Upcoming, Taken, Sent)
  BY <1>0 DEF NothingLost
<1>6. /\ \A i \in 1..n : Upcoming[i].v = Taken + i
      /\ Numbered(Upcoming', Taken + n)
      /\ ~closed => NumberedTo(Upcoming', Taken + n, Sent)
  <2>1. /\ Upcoming \in Seq(Bytes) /\ Upcoming' \in Seq(Bytes) /\ Taken \in Nat /\ Sent \in Nat
        /\ n \in 1..Len(Upcoming)
    BY <1>2, <1>3
  <2>2. /\ Drops(Upcoming, n, Upcoming') /\ Numbered(Upcoming, Taken)
        /\ \A i \in 1..n : IsPayload(Upcoming[i])
    BY <1>3, <1>4, <1>5
  <2>3. Renumbers(Upcoming, n, Upcoming', Taken)
    BY <2>1, <2>2, DropPayload
  <2> QED
    BY <1>5, <2>1, <2>3 DEF Renumbers
<1>7. Follows(bytes, Taken)
  <2> SUFFICES ASSUME NEW i \in 1..n PROVE bytes[i] = PayloadByte(Len(out) + Len(cur) + i)
    BY <1>2, <1>3 DEF Follows
  <2>1. Upcoming[i] \in Bytes /\ IsPayload(Upcoming[i])
    BY <1>2, <1>4
  <2>2. Upcoming[i] = PayloadByte(Upcoming[i].v)
    BY <2>1, ByteParts
  <2>3. Upcoming[i].v = Len(out) + Len(cur) + i
    BY <1>2, <1>6
  <2> QED
    BY <1>3, <2>2, <2>3
<1>8. ReadParts(out, cur)
  BY <1>0, <1>2, PrefixParts DEF ReadIsPrefix
<1>9. /\ ReadParts(out, cur \o bytes) /\ cur \o bytes \in Seq(Bytes)
      /\ Len(cur \o bytes) = Len(cur) + n
      /\ ReadParts((out \o cur) \o bytes, <<>>) /\ (out \o cur) \o bytes \in Seq(Bytes)
      /\ Len((out \o cur) \o bytes) = Len(out) + Len(cur) + n
  <2>1. /\ out \in Seq(Bytes) /\ cur \in Seq(Bytes) /\ bytes \in Seq(Bytes)
        /\ Taken \in Nat /\ Taken = Len(out) + Len(cur)
    BY <1>2, <1>3
  <2>2. Grow(out, cur, bytes)
    BY <1>7, <1>8, <2>1, PartsGrow
  <2> QED
    BY <1>3, <2>2 DEF Grow
<1>10. /\ ReadParts(out', cur') /\ out' \in Seq(Bytes) /\ cur' \in Seq(Bytes)
       /\ Taken' = Taken + n
  <2>1. CASE Len(cur) + n = want
    <3>1. cur' = <<>> /\ out' = (out \o cur) \o bytes
      BY <1>1, <2>1
    <3>2. cur' \in Seq(Bytes) /\ Len(cur') = 0
      BY <3>1
    <3> QED
      BY <1>2, <1>9, <3>1, <3>2 DEF Taken
  <2>2. CASE Len(cur) + n # want
    <3>1. cur' = cur \o bytes /\ out' = out
      BY <1>1, <2>2
    <3> QED
      BY <1>2, <1>9, <3>1 DEF Taken
  <2> QED
    BY <2>1, <2>2
<1>11. ReadIsPrefix'
  BY <1>10, PrefixParts DEF ReadIsPrefix
<1>12. Sent' = Sent
  BY <1>1 DEF Sent
<1>13. NothingLost'
  BY <1>1, <1>6, <1>10, <1>12 DEF NothingLost
<1>14. Framed'
  <2>1. n \in 0..Len(Upcoming)
    BY <1>3
  <2> QED
    BY <1>0, <1>1, <1>2, <1>3, <2>1, DropFrames DEF Framed
<1>15. InPlace'
  <2>1. /\ \A i \in 1..Len(Upcoming') : Upcoming'[i] = Upcoming[i + n]
        /\ Len(Upcoming') = Len(Upcoming) - n /\ Len(Upcoming) \in Nat
    <3>1. Drops(Upcoming, n, Upcoming') /\ Upcoming \in Seq(Bytes)
      BY <1>2, <1>3
    <3>2. Len(Upcoming) \in Nat
      BY <3>1
    <3> QED
      BY <3>1, <3>2 DEF Drops
  <2>2. /\ \A i \in 1..size : i <= Len(Upcoming) => IsPayload(Upcoming[i])
        /\ size + 1 <= Len(Upcoming) => Upcoming[size + 1].h = 1
        /\ ~closed => size + 1 <= Len(Upcoming)
    BY <1>0, <1>1 DEF InPlace
  <2>3. CASE n = size
    <3>1. rstate' = "Header"
      BY <1>1, <2>3
    <3>2. ASSUME Upcoming' # <<>> PROVE Upcoming'[1].h = 1
      <4>1. 1 \in 1..Len(Upcoming') /\ 1 + n = size + 1 /\ size + 1 <= Len(Upcoming)
        BY <1>2, <1>3, <2>1, <2>3, <3>2
      <4>2. Upcoming'[1] = Upcoming[1 + n]
        BY <2>1, <4>1
      <4> QED
        BY <2>2, <4>1, <4>2
    <3> QED
      BY <3>1, <3>2 DEF InPlace
  <2>4. CASE n # size
    <3>1. rstate' = "Data" /\ size' = size - n
      BY <1>1, <2>4
    <3>2. ASSUME NEW i \in 1..(size - n), i <= Len(Upcoming') PROVE IsPayload(Upcoming'[i])
      <4>1. i + n \in 1..size /\ i + n <= Len(Upcoming) /\ i \in 1..Len(Upcoming')
        BY <1>2, <2>1, <3>2
      <4> QED
        BY <2>1, <2>2, <4>1
    <3>3. ASSUME (size - n) + 1 <= Len(Upcoming') PROVE Upcoming'[(size - n) + 1].h = 1
      <4>1. /\ (size - n) + 1 \in 1..Len(Upcoming') /\ ((size - n) + 1) + n = size + 1
            /\ size + 1 <= Len(Upcoming)
        BY <1>2, <2>1, <3>3
      <4>2. Upcoming'[(size - n) + 1] = Upcoming[((size - n) + 1) + n]
        BY <2>1, <4>1
      <4> QED
        BY <2>2, <4>1, <4>2
    <3>4. ~closed => (size - n) + 1 <= Len(Upcoming')
      BY <1>2, <2>1, <2>2
    <3> QED
      BY <1>1, <3>1, <3>2, <3>3, <3>4 DEF InPlace
  <2> QED
    BY <2>3, <2>4
<1>16. /\ rd' = "polling" => Len(cur') < want
       /\ Len(cur') <= want /\ rd' \in {"idle", "polling"}
       /\ rd' = "idle" => cur' = <<>>
  <2>1. CASE Len(cur) + n = want
    <3>1. cur' = <<>> /\ rd' = "idle" /\ Len(cur') = 0
      BY <1>1, <2>1
    <3> QED
      BY <1>2, <3>1
  <2>2. CASE Len(cur) + n # want
    <3>1. Len(cur') = Len(cur) + n /\ rd' = "polling"
      BY <1>1, <1>9, <2>2
    <3> QED
      BY <1>2, <2>2, <3>1, SMTT(30)
  <2> QED
    BY <2>1, <2>2
<1>17. TypeOK'
  <2>1. size' \in Nat /\ (rstate' = "Data" => size' > 0) /\ rstate' \in {"Header", "Data"}
    BY <1>1, <1>2
  <2> QED
    BY <1>0, <1>1, <1>3, <1>10, <1>16, <2>1 DEF TypeOK
<1>18. Buffered' /\ Reads'
  BY <1>0, <1>1, <1>12, <1>16 DEF Buffered, Reads
<1> QED
  BY <1>11, <1>13, <1>14, <1>15, <1>17, <1>18 DEF Inductive

-----------------------------------------------------------------------------
(* The theorems.                                                           *)

LEMMA InitInductive ==
  ASSUME Init
  PROVE  Inductive
<1>1. Upcoming = <<>> /\ Taken = 0 /\ Sent = 0
  <2>1. out = <<>> /\ cur = <<>> /\ wbuf = <<>> /\ arrived = <<>> /\ net = <<>> /\ src = 0
    BY DEF Init
  <2>2. Len(<<>>) = 0 /\ <<>> \o <<>> = <<>>
    OBVIOUS
  <2>3. Upcoming = <<>>
    BY <2>1, <2>2 DEF Upcoming
  <2>4. Len(out) = 0 /\ Len(cur) = 0 /\ Len(wbuf) = 0
    BY <2>1, <2>2
  <2>5. src = 0
    BY <2>1
  <2>6. Taken = 0 /\ Sent = 0
    BY <2>4, <2>5 DEF Taken, Sent
  <2> QED
    BY <2>3, <2>6
<1>2. Framed /\ InPlace /\ NothingLost /\ Buffered
  BY <1>1 DEF Init, Framed, Chunks, WholeChunks, InPlace, NothingLost, Numbered, NumberedTo,
              Buffered
<1>3. TypeOK
  <2>1. /\ wbuf = <<>> /\ net = <<>> /\ arrived = <<>> /\ cur = <<>> /\ out = <<>>
        /\ src = 0 /\ want = 0
    BY DEF Init
  <2>2. /\ wbuf \in Seq(Bytes) /\ net \in Seq(Bytes) /\ arrived \in Seq(Bytes)
        /\ cur \in Seq(Bytes) /\ out \in Seq(Bytes)
    BY <2>1
  <2>3. Len(wbuf) = 0 /\ Len(cur) = 0
    BY <2>1
  <2>4. src = 0 /\ want = 0
    BY <2>1
  <2>5. /\ Len(wbuf) <= src /\ Len(cur) <= want /\ src \in 0..MaxBytes /\ want \in Nat
        /\ \A s \in {wbuf, net, arrived, cur, out} : s \in Seq(Bytes)
    BY <2>2, <2>3, <2>4
  <2>6. /\ closed = FALSE /\ future = "exact" /\ rstate = "Header" /\ size = 0
        /\ rd = "idle" /\ turn = 0
    BY DEF Init
  <2> QED
    BY <2>5, <2>6 DEF TypeOK
<1>4. ReadIsPrefix /\ Reads
  BY DEF Init, ReadIsPrefix, Reads
<1> QED
  BY <1>2, <1>3, <1>4 DEF Inductive

LEMMA NextInductive ==
  ASSUME Inductive, ~SplitHeaders, "int" \notin Futures, [Next]_vars
  PROVE  Inductive'
<1>1. CASE UNCHANGED vars
  BY <1>1 DEF vars, Inductive, TypeOK, Framed, InPlace, NothingLost, Buffered, ReadIsPrefix,
              Reads, Upcoming, Taken, Sent
<1>2. CASE Next
  BY <1>2, WriteKeeps, FinishKeeps, DeliverKeeps, CloseKeeps, CallerKeeps, HeaderKeeps,
     DataKeeps DEF Next, PollRead
<1> QED
  BY <1>1, <1>2

\* The invariant of the transport: the stream is framed, the reader stands where it
\* thinks it does, and no payload byte is lost, repeated or out of order.
THEOREM ReaderInductive ==
  ASSUME ~SplitHeaders, "int" \notin Futures
  PROVE  Spec => []Inductive
<1>1. Init => Inductive
  BY InitInductive
<1>2. Inductive /\ [Next]_vars => Inductive'
  BY NextInductive
<1> QED
  BY <1>1, <1>2, PTL DEF Spec

\* Between two iterations of poll_read state, size and buffer have their types.
THEOREM AlwaysTyped ==
  ASSUME ~SplitHeaders, "int" \notin Futures
  PROVE  Spec => []TypeOK
<1>1. Inductive => TypeOK
  BY DEF Inductive
<1> QED
  BY <1>1, ReaderInductive, PTL

\* The caller reads what was written, from the first byte on.
THEOREM AlwaysPrefix ==
  ASSUME ~SplitHeaders, "int" \notin Futures
  PROVE  Spec => []ReadIsPrefix
<1>1. Inductive => ReadIsPrefix
  BY DEF Inductive
<1> QED
  BY <1>1, ReaderInductive, PTL

\* The reader never takes a header for payload or payload for a header.
THEOREM AlwaysAligned ==
  ASSUME ~SplitHeaders, "int" \notin Futures
  PROVE  Spec => []Aligned
<1>1. ASSUME Inductive PROVE Aligned
  <2>1. Upcoming \in Seq(Bytes) /\ size \in Nat
    BY <1>1, Shapes DEF Inductive, TypeOK
  <2>2. Upcoming # <<>> => Head(Upcoming) = Upcoming[1]
    BY <2>1
  <2>3. InPlace
    BY <1>1 DEF Inductive
  <2>4. ASSUME ~closed, rd # "error", rstate = "Header", Upcoming # <<>>
        PROVE  Head(Upcoming).h = 1
    BY <2>2, <2>3, <2>4 DEF InPlace
  <2>5. ASSUME ~closed, rd # "error", rstate # "Header"
        PROVE  /\ size < Len(Upcoming)
               /\ \A i \in 1..size : IsPayload(Upcoming[i])
               /\ Upcoming[size + 1].h = 1
    BY <2>1, <2>3, <2>5 DEF InPlace
  <2> QED
    BY <2>4, <2>5 DEF Aligned
<1>2. Inductive => Aligned
  BY <1>1
<1> QED
  BY <1>2, ReaderInductive, PTL

\* Payload that was sent and not yet read is still on its way, all of it, in order.
THEOREM NeverLost ==
  ASSUME ~SplitHeaders, "int" \notin Futures
  PROVE  Spec => []NothingLost
<1>1. Inductive => NothingLost
  BY DEF Inductive
<1> QED
  BY <1>1, ReaderInductive, PTL
=============================================================================
