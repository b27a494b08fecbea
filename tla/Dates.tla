------------------------------- MODULE Dates -------------------------------
(***************************************************************************)
(* native/values/date.rs: how dates and times are made, and what they mean *)
(* to chrono.  An instant is <<seconds, nanoseconds>> since 1970, a day a  *)
(* number of days since then; chrono and serde are external.               *)
(***************************************************************************)
EXTENDS Kinds, Wire

CONSTANTS U16,       \* how many days a Date counts: 2^16
          U32,       \* how many seconds a DateTime counts: 2^32
          DAY_MS     \* milliseconds of a day: 86_400_000

ASSUME DateAssumption == U16 \in Nat \ {0} /\ U32 \in Nat \ {0} /\ DAY_MS \in Nat \ {0}

DAYS_1900_TO_1970 == 25567

Done(v) == Ok(v, <<>>)
Bad == Fail("err", <<>>)
Panics == Fail("panic", <<>>)

\* Division of signed integers, towards zero.
TDiv(a, b) == IF a >= 0 THEN a \div b ELSE -((-a) \div b)
\* 10^n.
TenTo[n \in Nat] == IF n = 0 THEN 1 ELSE 10 * TenTo[n - 1]
\* The nanoseconds of a second.
Nanos == 0..TenTo[9] - 1
Zoned(v, tz) == [v EXCEPT !.tz = tz]

-----------------------------------------------------------------------------
(* Date and Date32.  From<NaiveDate> casts to u16 without a check.         *)
date_from_days(d) == IF d < 0 \/ d >= U16 THEN Panics ELSE Done(Val("Date", <<d>>))
date_from_millis(ms) == date_from_days(TDiv(ms, DAY_MS))
date_from_naive(day) == Done(Val("Date", <<day % U16>>))
naive_of_date(v) == v.x[1]

date32_from_days(d) == Done(Val("Date32", <<d>>))
date32_from_millis(ms) == Done(Val("Date32", <<TDiv(ms, DAY_MS) - DAYS_1900_TO_1970>>))
date32_from_naive(day) == Done(Val("Date32", <<day + DAYS_1900_TO_1970>>))
naive_of_date32(v) == v.x[1] - DAYS_1900_TO_1970

\* serde writes a date as the NaiveDate it is and reads one back.
date_serde(v) == date_from_naive(naive_of_date(v))
date32_serde(v) == date32_from_naive(naive_of_date32(v))

-----------------------------------------------------------------------------
(* DateTime: seconds.  from_chrono_infallible and its UTC twin cast.       *)
datetime_infallible(s, tz) == Done(Zoned(Val("DateTime", <<s % U32>>), tz))
datetime_from_seconds(s, tz) ==
    IF s < 0 \/ s >= U32 THEN Panics ELSE Done(Zoned(Val("DateTime", <<s>>), tz))
datetime_from_millis(ms, tz) == datetime_from_seconds(TDiv(ms, TenTo[3]), tz)
datetime_from_micros(us, tz) == datetime_from_seconds(TDiv(us, TenTo[6]), tz)
datetime_from_nanos(ns, tz) == datetime_from_seconds(TDiv(ns, TenTo[9]), tz)
datetime_try_from(s, tz) ==
    IF s < 0 \/ s >= U32 THEN Bad ELSE Done(Zoned(Val("DateTime", <<s>>), tz))
chrono_of_datetime(v) == <<v.x[1], 0>>

\* serde writes the text of the instant and its offset, and reads it back in UTC.
datetime_serde(v) == datetime_try_from(chrono_of_datetime(v)[1], "UTC")

-----------------------------------------------------------------------------
(* DateTime64: ticks of 10^-precision seconds.                             *)
dyn_from_ticks(n, p, tz) == IF n < 0 THEN Panics ELSE Done(Zoned(Val("DateTime64", <<n, p>>), tz))
dyn_from_seconds(n, tz) == dyn_from_ticks(n, 0, tz)
dyn_from_millis(n, tz) == dyn_from_ticks(n, 3, tz)
dyn_from_micros(n, tz) == dyn_from_ticks(n, 6, tz)
dyn_from_nanos(n, tz) == dyn_from_ticks(n, 9, tz)

\* try_from_utc, try_from_tz and the TryFrom of DateTime64: no instant before 1970, and
\* at most nine digits (9 - precision is computed without a sign).
\* Mutant: the fraction is not brought to the precision.
RawFraction(at, p, tz) == IF at[1] < 0 THEN Bad ELSE Done(Zoned(Val("DateTime64", <<at[1] * TenTo[p] + at[2], p>>), tz))
datetime64_try_from(at, p, tz) ==
    CASE at[1] < 0 -> Bad
      [] p > 9 -> Panics
      [] OTHER -> Done(Zoned(Val("DateTime64", <<at[1] * TenTo[p] + at[2] \div TenTo[9 - p], p>>), tz))

\* A chrono DateTime becomes a DateTime64 of microseconds, whatever the column has.
micros_of_chrono(at, tz) ==
    IF at[1] < 0 THEN Bad ELSE Done(Zoned(Val("DateTime64", <<at[1] * TenTo[6] + at[2] \div TenTo[3], 6>>), tz))

chrono_of_datetime64(v) ==
    LET p == v.x[2] IN <<v.x[1] \div TenTo[p], (v.x[1] % TenTo[p]) * TenTo[9 - p]>>

\* serde: as for DateTime; a DynDateTime64 is read back with 6 digits, a DateTime64 with
\* the digits of its type.
dyn_serde(v) == datetime64_try_from(chrono_of_datetime64(v), 6, "UTC")
datetime64_serde(v) == datetime64_try_from(chrono_of_datetime64(v), v.x[2], "UTC")
=============================================================================
