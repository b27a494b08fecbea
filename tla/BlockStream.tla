---------------------------- MODULE BlockStream ----------------------------
(***************************************************************************)
(* Native blocks on a connection: a writer puts blocks on the stream with  *)
(* NativeFormat::write, the other side takes them off with                 *)
(* NativeFormat::read.  The method and the revision were agreed before, in *)
(* the handshake.  A writer that fails reports an error and goes on with   *)
(* the next block; a reader that fails inside an uncompressed block has    *)
(* lost its place and stops, one that fails in a compressed frame has not. *)
(* Nothing is written after half a block: the other side is out of step.   *)
(***************************************************************************)
EXTENDS NativeBlock

CONSTANTS Blocks,       \* the blocks a client may write
          Revisions,    \* the revisions a server may have
          MaxBlocks     \* how many blocks are written

VARIABLES method, revision,
          wire,         \* the cells on the stream
          sent,         \* the blocks whose write succeeded, in order
          got,          \* how the reads ended and what they gave, in order
          torn          \* an uncompressed write failed half way

vars == <<method, revision, wire, sent, got, torn>>

Init == /\ method \in Methods
        /\ revision \in Revisions
        /\ wire = <<>> /\ sent = <<>> /\ got = <<>> /\ torn = FALSE

Write(b) ==
    /\ Len(sent) < MaxBlocks /\ ~torn
    /\ \E w \in {FormatWrite(b, revision, method)} :
          /\ wire' = wire \o w.out
          /\ sent' = IF w.st = "ok" THEN Append(sent, b) ELSE sent
          /\ torn' = (w.st # "ok" /\ w.out # <<>>)
    /\ UNCHANGED <<method, revision, got>>

Stopped == \E i \in 1..Len(got) : got[i].st # "ok" /\ method = "None"

Read ==
    /\ ~Stopped /\ ~torn
    /\ wire # <<>>
    /\ \E r \in {FormatRead(revision, method, wire)} :
          /\ got' = Append(got, [st |-> r.st, v |-> r.v])
          /\ wire' = r.rest
    /\ UNCHANGED <<method, revision, sent, torn>>

Next == (\E b \in Blocks : Write(b)) \/ Read
Spec == Init /\ [][Next]_vars

-----------------------------------------------------------------------------
\* What a block says, apart from its info: nothing when it has no data.
Content(b) == IF no_data(b) THEN <<>> ELSE <<b.rows, b.types, b.data>>
ContentRead(v) == IF v = <<>> THEN <<>> ELSE Content(v[1])

\* The i-th read is about the i-th block whose write succeeded, whatever the reads and
\* the writes before it did: a block that was read says what the block written said, a
\* failed compressed read costs its own block and no other, and a failed compressed write
\* leaves nothing behind.
BlocksInOrder == /\ Len(got) <= Len(sent)
                 /\ \A i \in 1..Len(got) :
                       /\ got[i].st # "torn"
                       /\ got[i].st = "ok" => ContentRead(got[i].v) = Content(sent[i])

\* The kinds the synchronous readers implement.
RECURSIVE ReadableSync(_)
ReadableSync(t) == /\ t.k \notin {"Tuple", "Map", "LowCardinality"}
                   /\ \A i \in 1..Len(t.in) : ReadableSync(t.in[i])

\* Every block a write accepted can be read: always without compression, and with it
\* when the synchronous readers know the types of its columns.
Readable == \A i \in 1..Len(got) :
                \/ got[i].st = "ok"
                \/ method # "None" /\ \E c \in 1..Len(sent[i].types) : ~ReadableSync(sent[i].types[c][2])

\* A compressed stream consists of whole frames, one for each block still to be read: a
\* block whose serialization fails is never seen by the other side.
FramesOnly == method # "None" =>
                 /\ ~torn
                 /\ Len(wire) = Len(sent) - Len(got)
                 /\ \A i \in 1..Len(wire) : wire[i].w = FRAME
=============================================================================
