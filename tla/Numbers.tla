------------------------------ MODULE Numbers ------------------------------
(***************************************************************************)
(* native/values/int256.rs, fixed_point.rs and decimal.rs.  An i256 is its *)
(* high and its low half, <<high, low>>, each an unsigned word.            *)
(* rust_decimal is external: a Decimal is <<mantissa, scale>>.             *)
(***************************************************************************)
EXTENDS Dates

CONSTANTS WORD,          \* 2^128
          MAX_POW,       \* the largest power of ten that an i128 holds: 38
          MAX_I128_REPR  \* the largest mantissa of rust_decimal: 2^96 - 1

ASSUME NumberAssumption == /\ WORD \in Nat /\ WORD % 2 = 0 /\ WORD > 20 /\ MAX_POW \in Nat
                           /\ MAX_I128_REPR \in Nat /\ MAX_I128_REPR < WORD \div 2
                           /\ \A n \in 0..MAX_POW : TenTo[n] < WORD \div 2

\* i128::from; the same for a value with a scale.
i256_from_i128(v) == IF v < 0 THEN <<WORD - 1, WORD + v>> ELSE <<0, v>>
i256_from_scaled(v, scale) == i256_from_i128(v * TenTo[scale])

is_negative(i) == i[1] >= WORD \div 2
FitsI128(v) == -(WORD \div 2) <= v /\ v < WORD \div 2

\* The two's complement of an i256.
Negated(i) == LET low == (WORD - i[2]) % WORD
              IN <<(WORD - 1 - i[1] + (IF low = 0 THEN 1 ELSE 0)) % WORD, low>>

\* Mul: the product of the low halves of the absolute values, wrapped to one word.
\* Mutant: the sign of one factor is the sign of the product.
UnsignedMul(a, b) ==
    LET abs(i) == IF is_negative(i) THEN Negated(i)[2] ELSE i[2]
        low == (abs(a) * abs(b)) % WORD
    IN IF is_negative(b) THEN <<WORD - 1, (WORD - low) % WORD>> ELSE <<0, low>>
i256_mul(a, b) ==
    LET abs(i) == IF is_negative(i) THEN Negated(i)[2] ELSE i[2]
        low == (abs(a) * abs(b)) % WORD
    IN IF is_negative(a) # is_negative(b) THEN <<WORD - 1, (WORD - low) % WORD>> ELSE <<0, low>>

\* A number multiplied by ten, n times.
Widened(v, n) ==
    LET wide[k \in Nat] == IF k = 0 THEN i256_from_i128(v) ELSE i256_mul(wide[k - 1], i256_from_i128(10))
    IN wide[n]

\* Arithmetic of i128: beyond its range a build with overflow checks panics, and one
\* without keeps the low bits.  A divisor of zero panics in both.
FromWord(w) == IF w >= WORD \div 2 THEN w - WORD ELSE w
I128(n, checks) == IF FitsI128(n) THEN Done(n) ELSE IF checks THEN Panics ELSE Done(FromWord(n % WORD))
DivI128(a, b) == IF b = 0 THEN Panics ELSE Done(IF b > 0 THEN TDiv(a, b) ELSE TDiv(-a, -b))

\* FixedPoint256::from_parts: the exponent counts the digits after the point, as the
\* scale of a Decimal does (from_decimal), whereas fixed_point.rs:170 documents the
\* opposite, (123, -2) for 1.23.  It may have either sign.
from_parts(scale, v, exponent, checks) ==
    LET eff == scale - exponent
        power == I128(TenTo[-eff], checks)
        scaled == IF eff >= 0 THEN I128(v * TenTo[eff], checks)
                  ELSE IF power.st # "ok" THEN power ELSE DivI128(v, power.v)
    IN IF eff > MAX_POW THEN Done(Widened(v, eff))
       ELSE IF scaled.st # "ok" THEN scaled ELSE Done(i256_from_i128(scaled.v))
from_decimal(scale, d, checks) == from_parts(scale, d[1], d[2], checks)

\* Decimal::try_from_i128_with_scale (external): 96 bits, 28 digits after the point.
DECIMAL_SCALE == 28
decimal_of(n, scale) == IF scale > DECIMAL_SCALE \/ n > MAX_I128_REPR \/ n < -MAX_I128_REPR THEN Bad ELSE Done(<<n, scale>>)

\* FixedPoint256::to_decimal: only a number that the low half and a sign hold.
to_decimal(scale, i) ==
    LET n == Negated(i)
    IN CASE i[1] \notin {0, WORD - 1} -> Bad
         [] is_negative(i) -> IF n[1] # 0 THEN Bad ELSE decimal_of(-FromWord(n[2]), scale)
         [] OTHER -> decimal_of(FromWord(i[2]), scale)

-----------------------------------------------------------------------------
(* FixedPoint32, 64 and 128: a number without its point.                   *)
modulus(scale) == TenTo[scale]
integer(scale, raw) == TDiv(raw, modulus(scale))
fraction(scale, raw) == raw - integer(scale, raw) * modulus(scale)

-----------------------------------------------------------------------------
(* rust_decimal::Decimal.                                                  *)
Abs(n) == IF n < 0 THEN -n ELSE n
count_digits(n) == IF n = 0 THEN 1 ELSE CHOOSE d \in 1..10 : TenTo[d - 1] <= Abs(n) /\ (d = 10 \/ Abs(n) < TenTo[d])
DigitsWritten == [Decimal32 |-> 9, Decimal64 |-> 18, Decimal128 |-> 38]
DigitsRead == [Decimal32 |-> 9, Decimal64 |-> 18, Decimal128 |-> 28]

\* ToSql: the decimal keeps its own scale, which the column's must not be below.
decimal_to_sql(d, hint) ==
    CASE hint = <<>> -> Done(Val("Decimal128", <<d[2], d[1]>>))
      [] hint[1].k \notin DOMAIN DigitsWritten -> Bad
      [] count_digits(d[1]) > DigitsWritten[hint[1].k] \/ d[2] > hint[1].p -> Bad
      [] OTHER -> Done(Val(hint[1].k, <<d[2], d[1]>>))

\* FromSql looks at the value, never at the type.
decimal_from_sql(v) ==
    CASE v.v \in Integer \ {"Int256", "UInt256"} -> Done(<<v.x[1], 0>>)
      [] v.v \in DOMAIN DigitsRead ->
           IF count_digits(v.x[2]) > DigitsRead[v.v] \/ v.x[1] > DECIMAL_SCALE THEN Bad ELSE Done(<<v.x[2], v.x[1]>>)
      [] OTHER -> Bad
=============================================================================
