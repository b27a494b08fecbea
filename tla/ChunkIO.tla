------------------------------ MODULE ChunkIO ------------------------------
(***************************************************************************)
(* The chunked transport of client/chunk.rs: ChunkWriter frames what is    *)
(* written between two calls of finish_chunk, ChunkReader takes the frames *)
(* apart again.  One direction of a connection: a writer, the network that *)
(* delivers bytes in pieces, a reader and the task that reads from it.     *)
(*                                                                         *)
(* A chunk is a header of HdrLen bytes (its size, little endian), the      *)
(* payload, and a header of zero.  Payload bytes are numbered 1, 2, ... in *)
(* the order they are written, so that a lost, repeated or foreign byte    *)
(* shows.                                                                  *)
(*                                                                         *)
(* poll_read is a loop that runs until the caller's buffer is full; one    *)
(* iteration is one action (bytes may arrive between two of them).  The    *)
(* reader's excess buffer is left out: no more is read than the caller     *)
(* has room for, so that it is always empty.                               *)
(***************************************************************************)
EXTENDS Naturals, Sequences, SequencesExt

CONSTANTS
    HdrLen,       \* bytes of a header, 4 in the code
    Base,         \* values of a header byte, 256 in the code
    MaxChunk,     \* the largest chunk accepted, 100_000_000 in the code
    MaxBytes,     \* bound: payload bytes written
    Sizes,        \* how many bytes one write or one read may have
    Futures,      \* the caller's read futures: "exact" (read_exact), "int" (read_u32_le, ...)
    SplitHeaders, \* a header may be delivered in two pieces
    MayClose      \* the peer may close the connection

ASSUME FrameAssumption == /\ HdrLen \in Nat \ {0} /\ Base \in Nat \ {0, 1}
                          /\ MaxChunk \in Nat /\ MaxBytes \in Nat
ASSUME CallerAssumption == /\ Sizes \subseteq Nat \ {0} /\ Futures \subseteq {"exact", "int"}
                           /\ SplitHeaders \in BOOLEAN /\ MayClose \in BOOLEAN

VARIABLES
    src,      \* payload bytes written so far
    wbuf,     \* ChunkWriter.buffer
    net,      \* bytes on the network
    arrived,  \* bytes the inner reader can return
    closed,   \* the peer has closed the connection
    rstate,   \* ReaderState
    size,     \* ChunkReader.chunk_size
    rd,       \* the caller: "idle", "polling", "pending", or "error"
    future,   \* the kind of its read future
    want,     \* length of its buffer
    cur,      \* what poll_read has put into the buffer
    out,      \* what its reads have returned
    turn      \* counts the iterations of the loop at the end of file, modulo 2

vars == <<src, wbuf, net, arrived, closed, rstate, size, rd, future, want, cur, out, turn>>
writerVars == <<src, wbuf>>
readerVars == <<rstate, size, rd, future, want, cur, out, turn>>

\* A byte of a header (its place and value) or of the payload (place 0).
HeaderBytes(n) == [i \in 1..HdrLen |-> [h |-> i, v |-> (n \div Base ^ (i - 1)) % Base]]
PayloadByte(k) == [h |-> 0, v |-> k]
IsPayload(b) == b.h = 0
Bytes == {HeaderBytes(n)[i] : n \in 0..MaxBytes, i \in 1..HdrLen}
         \cup {PayloadByte(k) : k \in 1..MaxBytes}

\* u32::from_le_bytes of the bytes read, the missing ones are zero.
FromLeBytes(bs) == FoldLeft(LAMBDA acc, i : acc + bs[i].v * Base ^ (i - 1), 0,
                            [i \in 1..Len(bs) |-> i])

\* A length survives its header: no chunk is longer than a header can say.
ASSUME WidthAssumption == \A n \in 0..MaxBytes : FromLeBytes(HeaderBytes(n)) = n

AtMost(a, b) == IF a <= b THEN a ELSE b
Front1(s, n) == SubSeq(s, 1, n)
Rest(s, n) == SubSeq(s, n + 1, Len(s))

Init ==
    /\ src = 0 /\ wbuf = <<>> /\ net = <<>> /\ arrived = <<>> /\ closed = FALSE
    /\ rstate = "Header" /\ size = 0
    /\ rd = "idle" /\ future = "exact" /\ want = 0 /\ cur = <<>> /\ out = <<>> /\ turn = 0

-----------------------------------------------------------------------------
(* ChunkWriter and the network.                                            *)

\* poll_write only buffers, poll_flush does nothing.
PollWrite(n) ==
    /\ ~closed /\ src + n <= MaxBytes
    /\ wbuf' = wbuf \o [i \in 1..n |-> PayloadByte(src + i)]
    /\ src' = src + n
    /\ UNCHANGED <<net, arrived, closed, readerVars>>

\* Mutant: the buffer is not cleared.
FinishChunkKeeps ==
    /\ ~closed /\ wbuf # <<>>
    /\ net' = net \o HeaderBytes(Len(wbuf)) \o wbuf \o HeaderBytes(0)
    /\ UNCHANGED <<src, wbuf, arrived, closed, readerVars>>

\* finish_chunk: nothing for an empty buffer, else header, payload, terminator.
FinishChunk ==
    /\ ~closed /\ wbuf # <<>>
    /\ net' = net \o HeaderBytes(Len(wbuf)) \o wbuf \o HeaderBytes(0)
    /\ wbuf' = <<>>
    /\ UNCHANGED <<src, arrived, closed, readerVars>>

\* The network (external) delivers any number of bytes.
Deliver(n) ==
    /\ ~closed /\ n <= Len(net)
    /\ ~SplitHeaders /\ n < Len(net) => net[n + 1].h \in {0, 1}
    /\ arrived' = arrived \o Front1(net, n) /\ net' = Rest(net, n)
    /\ UNCHANGED <<closed, writerVars, readerVars>>

\* The peer is gone (external); what was on its way is lost.
PeerCloses ==
    /\ MayClose /\ ~closed
    /\ closed' = TRUE /\ net' = <<>>
    /\ UNCHANGED <<arrived, writerVars, readerVars>>

-----------------------------------------------------------------------------
(* The caller and ChunkReader.                                             *)

ReaderUnchanged == UNCHANGED <<closed, net, writerVars>>

\* A read future is created and polled.
Ask(n, f) ==
    /\ rd = "idle" /\ Len(out) + n <= MaxBytes
    /\ rd' = "polling" /\ want' = n /\ future' = f /\ cur' = <<>>
    /\ UNCHANGED <<arrived, rstate, size, out, turn>>
    /\ ReaderUnchanged

\* ReaderState::Header: one poll_read of the inner reader, which may return fewer
\* bytes than asked for; the length that is tested is the array's.
ReadHeader ==
    /\ rd = "polling" /\ rstate = "Header" /\ arrived # <<>>
    /\ LET n == AtMost(HdrLen, Len(arrived))
       IN  /\ size' = FromLeBytes(Front1(arrived, n))
           /\ arrived' = Rest(arrived, n)
    /\ rstate' = IF size' \in 1..MaxChunk THEN "Data" ELSE "Header"
    /\ rd' = IF size' > MaxChunk THEN "error" ELSE rd
    /\ UNCHANGED <<future, want, cur, out, turn>>
    /\ ReaderUnchanged

\* At the end of file the inner reader returns no bytes: the array is still zero,
\* which is taken for a terminator, and the loop goes on.
HeaderAtEof ==
    /\ rd = "polling" /\ rstate = "Header" /\ arrived = <<>> /\ closed
    /\ size' = 0 /\ turn' = 1 - turn
    /\ UNCHANGED <<arrived, rstate, rd, future, want, cur, out>>
    /\ ReaderUnchanged

\* Mutant: the size of the chunk does not bound what is read.
ReadDataGreedy ==
    /\ rd = "polling" /\ rstate = "Data" /\ arrived # <<>>
    /\ LET n == AtMost(want - Len(cur), Len(arrived))
           bytes == Front1(arrived, n)
       IN  /\ arrived' = Rest(arrived, n)
           /\ size' = IF n > size THEN 0 ELSE size - n
           /\ rstate' = IF n >= size THEN "Header" ELSE "Data"
           /\ IF Len(cur) + n = want
                THEN rd' = "idle" /\ cur' = <<>> /\ out' = out \o cur \o bytes
                ELSE cur' = cur \o bytes /\ UNCHANGED <<rd, out>>
    /\ UNCHANGED <<future, want, turn>>
    /\ ReaderUnchanged

\* Mutant: at the end of a chunk the loop goes on although the buffer is full.
ReadDataGoesOn ==
    /\ rd = "polling" /\ rstate = "Data" /\ arrived # <<>>
    /\ LET n == AtMost(AtMost(want - Len(cur), size), Len(arrived))
           bytes == Front1(arrived, n)
       IN  /\ arrived' = Rest(arrived, n)
           /\ size' = size - n
           /\ rstate' = IF n = size THEN "Header" ELSE "Data"
           /\ IF Len(cur) + n = want /\ n < size
                THEN rd' = "idle" /\ cur' = <<>> /\ out' = out \o cur \o bytes
                ELSE cur' = cur \o bytes /\ UNCHANGED <<rd, out>>
    /\ UNCHANGED <<future, want, turn>>
    /\ ReaderUnchanged

\* ReaderState::Data: up to the end of the chunk or of the caller's buffer.  When
\* the buffer is full poll_read is ready and the future with it.
ReadData ==
    /\ rd = "polling" /\ rstate = "Data" /\ arrived # <<>>
    /\ LET n == AtMost(AtMost(want - Len(cur), size), Len(arrived))
           bytes == Front1(arrived, n)
       IN  /\ arrived' = Rest(arrived, n)
           /\ size' = size - n
           /\ rstate' = IF n = size THEN "Header" ELSE "Data"
           /\ IF Len(cur) + n = want
                THEN rd' = "idle" /\ cur' = <<>> /\ out' = out \o cur \o bytes
                ELSE cur' = cur \o bytes /\ UNCHANGED <<rd, out>>
    /\ UNCHANGED <<future, want, turn>>
    /\ ReaderUnchanged

DataAtEof ==
    /\ rd = "polling" /\ rstate = "Data" /\ arrived = <<>> /\ closed
    /\ rd' = "error"
    /\ UNCHANGED <<arrived, rstate, size, future, want, cur, out, turn>>
    /\ ReaderUnchanged

\* ready!: no bytes now, poll_read returns Pending although it may already have
\* filled a part of the buffer.  read_exact keeps that part; the futures of
\* read_u32_le and the like make a new ReadBuf for every poll and overwrite it.
ReturnPending ==
    /\ rd = "polling" /\ arrived = <<>> /\ ~closed
    /\ rd' = "pending"
    /\ cur' = IF future = "int" THEN <<>> ELSE cur
    /\ UNCHANGED <<arrived, rstate, size, future, want, out, turn>>
    /\ ReaderUnchanged

\* The runtime polls the future again.
Wake ==
    /\ rd = "pending" /\ (arrived # <<>> \/ closed)
    /\ rd' = "polling"
    /\ UNCHANGED <<arrived, rstate, size, future, want, cur, out, turn>>
    /\ ReaderUnchanged

PollRead == ReadHeader \/ HeaderAtEof \/ ReadData \/ DataAtEof \/ ReturnPending \/ Wake

Next == \/ \E n \in Sizes : PollWrite(n)
        \/ FinishChunk
        \/ \E n \in 1..Len(net) : Deliver(n)
        \/ PeerCloses
        \/ \E n \in Sizes, f \in Futures : Ask(n, f)
        \/ PollRead

Spec == Init /\ [][Next]_vars

\* The task that reads is polled whenever it can go on, and the network delivers
\* what was sent.  Nobody has to write, to read or to close.
FairSpec == Spec /\ WF_vars(PollRead) /\ WF_vars(\E n \in 1..Len(net) : Deliver(n))

-----------------------------------------------------------------------------
(* Properties.                                                             *)

Payload(bs) == SelectSeq(bs, IsPayload)
Upcoming == arrived \o net

\* Every variable has its type; in state Data there is something left to read.
TypeOK ==
    /\ \A s \in {wbuf, net, arrived, cur, out} : s \in Seq(Bytes)
    /\ src \in 0..MaxBytes /\ Len(wbuf) <= src
    /\ closed \in BOOLEAN /\ want \in Nat /\ future \in Futures \cup {"exact"}
    /\ rstate \in {"Header", "Data"} /\ size \in Nat /\ (rstate = "Data" => size > 0)
    /\ rd \in {"idle", "polling", "pending", "error"} /\ turn \in {0, 1}
    /\ Len(cur) <= want /\ (rd = "polling" => Len(cur) < want)

\* What the caller has read is what was written, from the first byte on: the
\* reader never takes a header for payload, skips, repeats or invents a byte.
ReadIsPrefix ==
    LET got == out \o cur IN \A i \in 1..Len(got) : got[i] = PayloadByte(i)

\* The reader and the stream are aligned: between two chunks the next byte is
\* the first of a header, and inside a chunk size is the number of its bytes
\* that are still to come, all payload.
Aligned ==
    ~closed /\ rd # "error" =>
        IF rstate = "Header"
          THEN Upcoming # <<>> => Head(Upcoming).h = 1
          ELSE /\ size < Len(Upcoming)
               /\ \A i \in 1..size : IsPayload(Upcoming[i])
               /\ Upcoming[size + 1].h = 1

-----------------------------------------------------------------------------
(* The inductive form of the three, as long as headers arrive whole and no *)
(* read future forgets what it has.                                        *)

\* Payload bytes that were sent, and those that were read.
Sent == src - Len(wbuf)
Taken == Len(out) + Len(cur)

\* A chunk of n bytes starts at place i of s: its header, and what s has of the rest.
ChunkAt(s, i, n) ==
    /\ i + HdrLen - 1 <= Len(s)
    /\ \A k \in 1..HdrLen : s[i + k - 1] = HeaderBytes(n)[k]
    /\ \A k \in 1..n : i + HdrLen - 1 + k <= Len(s) => IsPayload(s[i + HdrLen - 1 + k])
    /\ i + HdrLen + n <= Len(s) => s[i + HdrLen + n].h = 1

\* All of it is there, and the header that ends it.
WholeChunkAt(s, i, n) ==
    /\ ChunkAt(s, i, n)
    /\ i + HdrLen + n - 1 <= Len(s)
    /\ n > 0 => i + HdrLen + n <= Len(s)

Chunks(s) == \A i \in 1..Len(s) : s[i].h = 1 => \E n \in 0..MaxBytes : ChunkAt(s, i, n)
WholeChunks(s) ==
    \A i \in 1..Len(s) : s[i].h = 1 => \E n \in 0..MaxBytes : WholeChunkAt(s, i, n)

\* Every header that is still to be read is followed by what it says, and the
\* network has not cut one in two.
Framed == /\ Chunks(Upcoming)
          /\ ~closed => WholeChunks(Upcoming)
          /\ net # <<>> => net[1].h \in {0, 1}
          /\ closed => net = <<>>

\* The reader is where a chunk starts, or size bytes before the end of one.
InPlace ==
    rd # "error" =>
        IF rstate = "Header"
          THEN Upcoming # <<>> => Upcoming[1].h = 1
          ELSE /\ \A i \in 1..size : i <= Len(Upcoming) => IsPayload(Upcoming[i])
               /\ size + 1 <= Len(Upcoming) => Upcoming[size + 1].h = 1
               /\ ~closed => size + 1 <= Len(Upcoming)

NoPayload(s, i, j) == \A k \in 1..Len(s) : i <= k /\ k <= j => ~IsPayload(s[k])

\* The payload of s is numbered from lo + 1 on: at its start, from one byte to the
\* next across the headers between them, and all along a run of payload.
Numbered(s, lo) ==
    /\ \A i \in 1..Len(s) : IsPayload(s[i]) /\ NoPayload(s, 1, i - 1) => s[i].v = lo + 1
    /\ \A i, j \in 1..Len(s) :
          i < j /\ IsPayload(s[i]) /\ IsPayload(s[j]) /\ NoPayload(s, i + 1, j - 1)
          => s[j].v = s[i].v + 1
    /\ \A i, j \in 1..Len(s) :
          i < j /\ (\A k \in i..j : IsPayload(s[k])) => s[j].v = s[i].v + (j - i)

\* ... and ends with hi.
NumberedTo(s, lo, hi) ==
    /\ (\A i \in 1..Len(s) : ~IsPayload(s[i])) => lo = hi
    /\ \A i \in 1..Len(s) : IsPayload(s[i]) /\ NoPayload(s, i + 1, Len(s)) => s[i].v = hi

\* No byte is lost, repeated or out of order: what is still to be read goes on
\* where the reader stopped, and ends where the writer stopped.
NothingLost == /\ Numbered(Upcoming, Taken)
               /\ ~closed => NumberedTo(Upcoming, Taken, Sent)

\* The bytes in the writer's buffer are the next ones.
Buffered == \A k \in 1..Len(wbuf) : wbuf[k] = PayloadByte(Sent + k)

\* A read that has all its bytes is over, and no read future forgets any.
Reads == /\ rd = "idle" => cur = <<>>
         /\ rd = "pending" => Len(cur) < want
         /\ future = "exact"

Inductive == /\ TypeOK /\ Framed /\ InPlace /\ NothingLost /\ Buffered
             /\ ReadIsPrefix /\ Reads

-----------------------------------------------------------------------------
\* A read whose bytes have been sent is answered (or fails), unless the peer goes
\* away first: poll_read never waits for bytes it does not need, a terminator or
\* the next header.
ReadsAreServed ==
    rd \in {"polling", "pending"} /\ Len(cur) + Len(Payload(Upcoming)) >= want
        ~> rd \in {"idle", "error"} \/ closed
=============================================================================
