-------------------------------- MODULE Wire --------------------------------
(***************************************************************************)
(* The bytes of a stream as the codecs see them: a sequence of CELLS.  A   *)
(* cell is one field written by one call (io.rs, tokio's write_u64_le and  *)
(* so on): its width w in bytes, and what it carries, x: integers, or the  *)
(* tokens of a text.  Reading a cell at another width than it was written  *)
(* with means that the reader has lost its place in the stream: the        *)
(* outcome "torn", from which the code goes on with garbage.  A codec that *)
(* never tears reads back exactly the fields that were written.            *)
(***************************************************************************)
EXTENDS Integers, Sequences, FiniteSets, SequencesExt, FiniteSetsExt

VAR == 0        \* a variable length integer (write_var_uint)
STR == -1       \* a string: its length, then its bytes (write_string)
FRAME == -2     \* a compressed frame, whose payload is a sequence of cells

Cell(w, x) == [w |-> w, x |-> x, in |-> <<>>]
Num(w, n) == Cell(w, <<n>>)

-----------------------------------------------------------------------------
(* A writer's result: what it put on the stream, and how it ended.  An     *)
(* error leaves on the stream what had been written before it.             *)
Wrote(cells) == [st |-> "ok", out |-> cells]
WErr(cells) == [st |-> "err", out |-> cells]
WPanic(cells) == [st |-> "panic", out |-> cells]

WThen(a, b) == IF a.st = "ok" THEN [st |-> b.st, out |-> a.out \o b.out] ELSE a

\* The results of F for every element, up to the first that fails.
WEach(F(_), s) ==
    LET put[n \in 0..Len(s)] == IF n = 0 THEN Wrote(<<>>) ELSE WThen(put[n - 1], F(s[n]))
    IN put[Len(s)]

WPutAll(w, s) == Wrote([i \in 1..Len(s) |-> Num(w, s[i])])

-----------------------------------------------------------------------------
(* A reader's result: the value, the bytes left, and how it ended.         *)
Ok(v, rest) == [st |-> "ok", v |-> v, rest |-> rest]
Fail(st, rest) == [st |-> st, v |-> <<>>, rest |-> rest]

Then(r, F(_, _)) == IF r.st = "ok" THEN F(r.v, r.rest) ELSE r

\* R again and again, n times: the values it read, in order.
ReadMany(n, R(_), wire) ==
    LET read[i \in 0..n] ==
            IF i = 0 THEN Ok(<<>>, wire)
            ELSE Then(read[i - 1], LAMBDA all, rest : Then(R(rest), LAMBDA one, rest2 : Ok(Append(all, one), rest2)))
    IN read[n]

\* tokio's read_exact, read_u64_le, ..., and bytes' get_u64_le, ...: the end of the
\* stream is an error for the first and a panic for the second, unless the code asks
\* for a try_get.
ReadCell(w, wire) ==
    IF wire = <<>> THEN Fail("err", wire)
    ELSE IF Head(wire).w # w THEN Fail("torn", wire)
    ELSE Ok(Head(wire).x, Tail(wire))

ReadNum(w, wire) == Then(ReadCell(w, wire), LAMBDA x, rest : Ok(x[1], rest))

-----------------------------------------------------------------------------
(* Variable length integers, io.rs.  A u64 is the ten base-128 digits it   *)
(* has, least significant first; the tenth is 0 or 1.  An octet is a digit *)
(* and a bit that says whether another one follows.  Both writers stop     *)
(* after nine octets and both readers do, so the tenth digit is lost and   *)
(* the ninth octet still carries the bit.                                  *)
MAX_OCTETS == 9

\* The highest digit that is not zero, or the first one.
Highest(digits) == LET set == {i \in 1..Len(digits) : digits[i] > 0}
                   IN IF set = {} THEN 1 ELSE Max(set)

\* Mutant: whether another octet follows is decided before the value is shifted.
put_more(digits) ==
    [i \in 1..Min({Highest(digits), MAX_OCTETS}) |-> digits[i] + (IF i <= Highest(digits) THEN 128 ELSE 0)]

put_var_uint(digits) ==
    [i \in 1..Min({Highest(digits), MAX_OCTETS}) |->
        digits[i] + (IF i < Highest(digits) THEN 128 ELSE 0)]

\* The digits of one integer and what is left, or an error at the end of the stream.
try_get_var_uint(octets) ==
    LET ends == {i \in 1..Len(octets) : octets[i] < 128 \/ i = MAX_OCTETS}
    IN IF ends = {} THEN Fail("err", <<>>)
       ELSE Ok([i \in 1..Min(ends) |-> octets[i] % 128],
               SubSeq(octets, Min(ends) + 1, Len(octets)))

\* What is kept of an integer on the way: its first nine digits.
Kept(digits) == SubSeq(digits, 1, Min({Highest(digits), MAX_OCTETS}))

\* Strings: a length, then the bytes; a length above the maximum is refused, and the
\* synchronous reader also refuses a length above what is left.
MAX_STRING_SIZE == 64      \* 2^30 in the code, scaled
read_string(wire) ==
    Then(ReadCell(STR, wire),
         LAMBDA x, rest : IF Len(x) > MAX_STRING_SIZE THEN Fail("err", rest) ELSE Ok(x, rest))
write_string(bytes) == Wrote(<<Cell(STR, bytes)>>)

-----------------------------------------------------------------------------
(* Compressed frames, compression.rs: a checksum, the method, the sizes,   *)
(* the payload.  The checksum covers everything after it.                  *)
Methods == {"None", "LZ4", "ZSTD"}
MethodByte == [None |-> 2, LZ4 |-> 130, ZSTD |-> 144]

compress_data_sync(cells, method) ==
    IF method = "None" THEN Wrote(<<>>)
    ELSE Wrote(<<[w |-> FRAME, x |-> <<MethodByte[method]>>, in |-> cells]>>)

decompress_data_async(wire, method) ==
    IF wire = <<>> THEN Fail("err", wire)
    ELSE IF Head(wire).w # FRAME THEN Fail("torn", wire)
    ELSE IF Head(wire).x[1] # MethodByte[method] \/ method = "None" THEN Fail("err", Tail(wire))
    ELSE Ok(Head(wire).in, Tail(wire))
=============================================================================
