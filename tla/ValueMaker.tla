---------------------------- MODULE ValueMaker ----------------------------
(***************************************************************************)
(* What a caller makes of dates, times and numbers, one after another, and *)
(* what they give back, also after a trip through serde; and variable      *)
(* length integers on their way over a stream.                             *)
(***************************************************************************)
EXTENDS Numbers

CONSTANTS DateMakers,                   \* the constructors of dates, by what they take
          Days, Times,                  \* days since 1970, and instants <<seconds, nanoseconds>>
                                        \* whose nanoseconds since 1970 an i64 holds
          Digits,                       \* of the fraction of a second that a DateTime64 keeps
          Scales, Exponents, Mantissas,
          Uints                         \* integers of 64 bits, as Wire has them

ASSUME MakerAssumption ==
    /\ DateMakers \subseteq {"days", "millis", "naive", "days32", "millis32", "naive32"}
    /\ Days \subseteq Int
    /\ Times \subseteq Int \X Nanos
    /\ Digits \subseteq {0, 3, 6, 9}
    /\ Scales \subseteq Nat /\ Exponents \subseteq Int
    /\ Mantissas \subseteq Int /\ \A v \in Mantissas : FitsI128(v)
    /\ Uints \subseteq [1..10 -> 0..127]

VARIABLE made       \* the last value made: what it should mean, and the result

Nothing == [what |-> "none", meant |-> <<>>, out |-> Done(<<>>)]
MakerInit == made = Nothing

-----------------------------------------------------------------------------
MakeDate(c, day) ==
    made' = [what |-> c, meant |-> <<day>>,
             out |-> CASE c = "days" -> date_from_days(day)
                       [] c = "millis" -> date_from_millis(day * DAY_MS + DAY_MS - 1)
                       [] c = "naive" -> date_from_naive(day)
                       [] c = "days32" -> date32_from_days(day + DAYS_1900_TO_1970)
                       [] c = "millis32" -> date32_from_millis(day * DAY_MS)
                       [] c = "naive32" -> date32_from_naive(day)]

\* An instant in the unit of a constructor.
Ticks(at, p) == at[1] * TenTo[p] + at[2] \div TenTo[9 - p]
Cut(at, p) == <<at[1], (at[2] \div TenTo[9 - p]) * TenTo[9 - p]>>

MakeTime(p, at, dyn) ==
    made' = [what |-> IF dyn THEN "time64" ELSE "time", meant |-> Cut(at, IF dyn THEN p ELSE 0),
             out |-> CASE ~dyn /\ p = 0 -> datetime_from_seconds(at[1], "Europe/Paris")
                       [] ~dyn /\ p = 3 -> datetime_from_millis(Ticks(at, 3), "UTC")
                       [] ~dyn /\ p = 6 -> datetime_from_micros(Ticks(at, 6), "UTC")
                       [] ~dyn /\ p = 9 -> datetime_from_nanos(Ticks(at, 9), "UTC")
                       [] dyn /\ p = 0 -> dyn_from_seconds(at[1], "UTC")
                       [] dyn /\ p = 3 -> dyn_from_millis(Ticks(at, 3), "UTC")
                       [] dyn /\ p = 6 -> dyn_from_micros(Ticks(at, 6), "UTC")
                       [] dyn /\ p = 9 -> dyn_from_nanos(Ticks(at, 9), "UTC")]

\* TryFrom<chrono::DateTime>, the cast that cannot fail, and ToSql of a chrono DateTime.
MakeFromChrono(c, p, at) ==
    made' = [what |-> c, meant |-> Cut(at, p),
             out |-> CASE c = "time" /\ p = 0 -> datetime_try_from(at[1], "UTC")
                       [] c = "cast" /\ p = 0 -> datetime_infallible(at[1], "UTC")
                       [] c = "time64" /\ p # 6 -> datetime64_try_from(at, p, "Europe/Paris")
                       [] c = "time64" /\ p = 6 -> micros_of_chrono(at, "Europe/Paris")
                       [] OTHER -> Bad]

\* The value is written with serde and read back.
Serde ==
    /\ made.out.st = "ok"
    /\ \/ made.what \in DateMakers /\ made.out.v.v = "Date" /\ made' = [made EXCEPT !.out = date_serde(made.out.v)]
       \/ made.what \in DateMakers /\ made.out.v.v = "Date32" /\ made' = [made EXCEPT !.out = date32_serde(made.out.v)]
       \/ made.what = "time" /\ made' = [made EXCEPT !.out = datetime_serde(made.out.v)]
       \/ made.what = "time64" /\ made' = [made EXCEPT !.out = datetime64_serde(made.out.v)]
       \/ made.what = "time64" /\ made' = [made EXCEPT !.out = dyn_serde(made.out.v), !.meant = Cut(made.meant, 6)]

\* FixedPoint256 of a scale from parts or a decimal, in a build with overflow checks or
\* without, and the product of two such numbers of scale 0: the number without its
\* point, its scale, and the digits that were cut off.
MakeNumber(scale, v, e, checks) ==
    made' = [what |-> "number",
             meant |-> IF scale >= e THEN <<v * TenTo[scale - e], scale, 0>>
                       ELSE <<TDiv(v, TenTo[e - scale]), scale, e - scale>>,
             out |-> from_decimal(scale, <<v, e>>, checks)]
MakeProduct(v, w) ==
    made' = [what |-> "number", meant |-> <<v * w, 0, 0>>, out |-> Done(i256_mul(i256_from_i128(v), i256_from_scaled(w, 0)))]
MakeFixed(scale, v) ==
    made' = [what |-> "parts", meant |-> <<v, scale>>, out |-> Done(<<integer(scale, v), fraction(scale, v)>>)]

\* A variable length integer is written, with other octets behind it, and read.
Following == {<<>>, <<0>>, <<200, 1>>}
SendUint(digits, rest) ==
    made' = [what |-> "uint", meant |-> <<digits, rest>>, out |-> try_get_var_uint(put_var_uint(digits) \o rest)]

MakerNext ==
    \/ \E c \in DateMakers, d \in Days : MakeDate(c, d)
    \/ \E p \in Digits, at \in Times, dyn \in BOOLEAN : MakeTime(p, at, dyn)
    \/ \E p \in Digits \union {2}, at \in Times, c \in {"time", "cast", "time64"} : MakeFromChrono(c, p, at)
    \/ Serde
    \/ \E s \in Scales, e \in Exponents, v \in Mantissas, checks \in BOOLEAN : MakeNumber(s, v, e, checks)
    \/ \E v, w \in Mantissas : MakeProduct(v, w)
    \/ \E s \in Scales, v \in Mantissas : MakeFixed(s, v)
    \/ \E digits \in Uints, rest \in Following : SendUint(digits, rest)
MakerSpec == MakerInit /\ [][MakerNext]_made

-----------------------------------------------------------------------------
\* Date and time values mean the day or the instant they were made from, to the digits
\* they keep, also after a trip through serde; where a check is missing (a NaiveDate or
\* an instant cast into a narrower integer) this holds for what fits.  The last day or
\* second before 1970 counts as 1970: the constructors divide towards zero.
DatesMean ==
    made.out.st = "ok" =>
       LET v == made.out.v
       IN /\ made.what = "days" => naive_of_date(v) = made.meant[1]
          /\ made.what = "millis" => naive_of_date(v) = IF made.meant[1] = -1 THEN 0 ELSE made.meant[1]
          /\ made.what = "naive" /\ made.meant[1] \in 0..U16 - 1 => naive_of_date(v) = made.meant[1]
          /\ made.what \in {"days32", "millis32", "naive32"} => naive_of_date32(v) = made.meant[1]
          /\ made.what = "time" => chrono_of_datetime(v) = IF made.meant[1] = -1 THEN <<0, 0>> ELSE Cut(made.meant, 0)
          /\ made.what = "cast" /\ made.meant[1] \in 0..U32 - 1 => chrono_of_datetime(v) = Cut(made.meant, 0)
          /\ made.what = "time64" => chrono_of_datetime64(v) = made.meant

\* A 256-bit decimal made from a mantissa and its digits after the point, or as a
\* product, gives that number back if an i128 holds it, or an error where rust_decimal
\* does not.  Two exceptions: Mul gives zero times a negative number the sign (it is
\* -2^128), and where more digits are cut off than a power of ten in an i128 has, 38, the
\* divisor overflows (a Decimal has 28 at most, from_parts takes any exponent).  That
\* exponents count digits after the point is what from_decimal needs and the code does;
\* under the documentation of from_parts every exponent but 0 has the wrong sign.  A fixed
\* point number is its integer part and its fraction, both of its sign.
NumbersExact ==
    LET v == made.out.v
        raw256 == to_decimal(made.meant[2], v)
    IN /\ /\ made.what = "number" /\ made.out.st = "ok"
          /\ FitsI128(made.meant[1]) /\ made.meant[3] <= MAX_POW /\ v # <<WORD - 1, 0>>
          => /\ raw256.st = "ok" => raw256.v = <<made.meant[1], made.meant[2]>>
             /\ is_negative(v) = (made.meant[1] < 0)
       /\ made.what = "parts" => /\ v[1] * modulus(made.meant[2]) + v[2] = made.meant[1]
                                 /\ Abs(v[2]) < modulus(made.meant[2])
                                 /\ v[2] = 0 \/ (v[2] < 0) = (made.meant[1] < 0)

\* Variable length integers are read as they were written, and their octets and no others
\* are taken from the stream: 64 bits lose the highest one, but not the place.
UintsReadBack == made.what = "uint" => made.out = Ok(Kept(made.meant[1]), made.meant[2])
=============================================================================
