----------------------------- MODULE CliNumbers -----------------------------
(***************************************************************************)
(* How CLI11 turns words into integers of a machine type, and how it       *)
(* validates, clamps and scales them.  A word is the integer x it spells.  *)
(* Sizes are parameters: N, H and M are the numbers of values of the       *)
(* target type, half of those and all those of 64 bits.                    *)
(***************************************************************************)
EXTENDS Integers

Result(ok, v) == [ok |-> ok, value |-> v]
Rejected == Result(FALSE, 0)

(* External: strtoull negates modulo M, and saturates what is too large, as *)
(* strtoll does; CLI11 never looks at errno.                                *)
Strtoull(x, M) == IF x >= M \/ -x >= M THEN M - 1 ELSE x % M
Strtoll(x, H) == IF x >= H THEN H - 1 ELSE IF x < -H THEN -H ELSE x

(* static_cast to a signed type of N values.                                *)
ToSigned(x, N) == IF x % N >= N \div 2 THEN (x % N) - N ELSE x % N

UnsignedConversion(x, N, H) ==
  LET u == Strtoull(x, 2 * H)
      s == Strtoll(x, H)
      again == IF s < 0 THEN 0 ELSE s % N
  IN  IF u % N = u THEN Result(TRUE, u)
      ELSE Result(again = s, again)

SignedConversion(x, N, H) ==
  LET s == Strtoll(x, H)
  IN  Result(ToSigned(s, N) = s, ToSigned(s, N))

(* A flag's value; OTHER words are what the number they begin with says, or *)
(* throw.                                                                   *)
FlagValue(word, leading) ==
  CASE word \in {"true", "on", "yes", "enable", "t", "y", "+"} -> Result(TRUE, 1)
    [] word \in {"false", "off", "no", "disable", "f", "n", "-", "0"} -> Result(TRUE, -1)
    [] OTHER -> leading

-----------------------------------------------------------------------------
Abs(x) == IF x < 0 THEN -x ELSE x
Smallest(max) == -max - 1

Quotient(x, y) == IF x >= 0 THEN x \div y ELSE -((-x) \div y)   \* as C++ divides, y > 0

OverflowSigned(a, b, max) ==
  IF (a > 0) = (b > 0) THEN Quotient(max, Abs(a)) < Abs(b)
  ELSE Quotient(Smallest(max), Abs(a)) > -Abs(b)

OverflowUnsigned(a, b, max) == max \div a < b

Trivial(a, b) == a \in {0, 1} \/ b \in {0, 1}

CheckedMultiply(a, b, max) ==
  IF Trivial(a, b) THEN Result(TRUE, a * b)
  ELSE IF a = Smallest(max) \/ b = Smallest(max) \/ OverflowSigned(a, b, max) THEN Result(FALSE, a)
  ELSE Result(TRUE, a * b)

CheckedMultiplyUnsigned(a, b, max) ==
  IF Trivial(a, b) \/ ~OverflowUnsigned(a, b, max) THEN Result(TRUE, a * b)
  ELSE Result(FALSE, a)

-----------------------------------------------------------------------------
(* Validators see the converted number, or none: they answer whether the    *)
(* word may pass, and with what value.                                      *)
Range(number, min, max) ==
  Result(number.ok /\ number.value \in min..max, number.value)

Bound(number, min, max) ==
  IF ~number.ok THEN Rejected
  ELSE Result(TRUE, IF number.value < min THEN min
                    ELSE IF number.value > max THEN max ELSE number.value)

(* A number, or none, followed by a unit of the mapping, or none: a unit    *)
(* alone is its own factor.                                                 *)
NoUnit == "no unit"

AsNumberWithUnit(number, empty, unit, factor, required, max) ==
  IF unit = NoUnit THEN (IF required \/ empty THEN Rejected ELSE number)
  ELSE IF unit \notin DOMAIN factor THEN Rejected
  ELSE IF empty THEN Result(TRUE, factor[unit])
  ELSE IF ~number.ok THEN Rejected
  ELSE CheckedMultiplyUnsigned(number.value, factor[unit], max)

(* The k-th of the prefixes k, m, g, t, p, e: with an i always of 1024.     *)
SizeFactor(k, kbIs1000, i) == (IF kbIs1000 /\ ~i THEN 1000 ELSE 1024) ^ k
=============================================================================
