-------------------------- MODULE CliNumbersProofs --------------------------
(***************************************************************************)
(* Conversions and checked multiplications of CLI11 for every machine type.*)
(***************************************************************************)
EXTENDS CliNumbers, TLAPS

(* What a remainder and a quotient are.                                     *)
LEMMA Division ==
  ASSUME NEW x \in Int, NEW n \in Nat \ {0}
  PROVE  /\ x % n \in 0..n - 1
         /\ x \div n \in Int
         /\ x = n * (x \div n) + (x % n)
  OBVIOUS

(* A number below n is its own remainder.                                   *)
LEMMA SmallRemainder ==
  ASSUME NEW n \in Nat \ {0}, NEW x \in 0..n - 1
  PROVE  x % n = x
  OBVIOUS

(* integral_conversion of a number that is not negative to an unsigned type *)
(* narrower than 63 bits succeeds exactly on the values of the type, and    *)
(* changes none (CLI11.hpp 1673-1690).                                      *)
THEOREM NarrowUnsignedExact ==
  ASSUME NEW H \in Nat \ {0}, NEW N \in 1..H - 1, NEW x \in Nat
  PROVE  LET c == UnsignedConversion(x, N, H)
         IN  (c.ok <=> x < N) /\ (c.ok => c.value = x)
<1> DEFINE u == Strtoull(x, 2 * H)
           s == Strtoll(x, H)
<1>1. u \in Nat /\ (x < 2 * H => u = x) /\ (x >= 2 * H => u = 2 * H - 1)
  <2>1. CASE x >= 2 * H  BY <2>1 DEF Strtoull
  <2>2. CASE x < 2 * H
    <3>1. x % (2 * H) = x  BY <2>2, SmallRemainder
    <3> QED  BY <2>2, <3>1 DEF Strtoull
  <2> QED  BY <2>1, <2>2
<1>2. s \in Nat /\ (x < H => s = x) /\ (x >= H => s = H - 1)
  BY DEF Strtoll
<1>3. u % N \in 0..N - 1 /\ s % N \in 0..N - 1
  <2>1. N \in Nat \ {0} /\ u \in Int /\ s \in Int  BY <1>1, <1>2
  <2> HIDE DEF u, s
  <2> QED  BY <2>1, Division
<1>4. (u % N = u) <=> u < N
  BY <1>1, <1>3, SmallRemainder
<1>5. (s % N = s) <=> s < N
  BY <1>2, <1>3, SmallRemainder
<1>6. CASE u % N = u
  <2>1. u < N /\ u = x  BY <1>1, <1>4, <1>6
  <2>2. UnsignedConversion(x, N, H) = Result(TRUE, u)  BY <1>6 DEF UnsignedConversion
  <2> QED  BY <2>1, <2>2 DEF Result
<1>7. CASE u % N # u
  <2>1. ~(x < N)  BY <1>1, <1>4, <1>7
  <2>2. (s % N = s) = FALSE /\ ~(s < 0)  BY <1>2, <1>5, <2>1
  <2>3. UnsignedConversion(x, N, H) = Result(FALSE, s % N)
    BY <1>7, <2>2 DEF UnsignedConversion
  <2> QED  BY <2>1, <2>3 DEF Result
<1> QED  BY <1>6, <1>7

(* An unsigned type of 64 bits takes every number: a negative one becomes   *)
(* its value modulo 2^64 ("--loop" defaults to -1), and what is too large   *)
(* becomes the largest.                                                     *)
THEOREM WideUnsignedTakesAll ==
  ASSUME NEW H \in Nat \ {0}, NEW x \in Int
  PROVE  UnsignedConversion(x, 2 * H, H) = Result(TRUE, Strtoull(x, 2 * H))
<1>1. Strtoull(x, 2 * H) \in 0..2 * H - 1
  BY Division DEF Strtoull
<1>2. Strtoull(x, 2 * H) % (2 * H) = Strtoull(x, 2 * H)
  BY <1>1, SmallRemainder
<1> QED  BY <1>2 DEF UnsignedConversion

(* integral_conversion to a signed type narrower than 64 bits succeeds      *)
(* exactly on the values of the type (CLI11.hpp 1693-1708).                 *)
THEOREM NarrowSignedExact ==
  ASSUME NEW K \in Nat \ {0}, NEW H \in Nat, 2 * K <= H, NEW x \in Int
  PROVE  LET c == SignedConversion(x, 2 * K, H)
         IN  (c.ok <=> x \in -K..K - 1) /\ (c.ok => c.value = x)
<1> DEFINE s == Strtoll(x, H)
           t == ToSigned(s, 2 * K)
<1>1. s \in Int /\ (x \in -H..H - 1 => s = x) /\ (x \in -H..H - 1 \/ s \in {-H, H - 1})
  BY DEF Strtoll
<1>2. (2 * K) \div 2 = K  OBVIOUS
<1>3. s % (2 * K) \in 0..2 * K - 1
  <2>1. 2 * K \in Nat \ {0}  OBVIOUS
  <2> QED  BY <1>1, <2>1, Division
<1>4. t \in -K..K - 1  BY <1>2, <1>3 DEF ToSigned
<1>5. ASSUME s \in -K..K - 1 PROVE t = s
  <2>1. CASE s >= 0
    <3>1. s % (2 * K) = s  BY <1>5, <2>1, SmallRemainder
    <3> QED  BY <1>2, <1>5, <2>1, <3>1 DEF ToSigned
  <2>2. CASE s < 0
    <3>1. s % (2 * K) = s + 2 * K  BY <1>1, <1>5, <2>2
    <3> QED  BY <1>1, <1>2, <1>5, <2>2, <3>1 DEF ToSigned
  <2> QED  BY <1>1, <2>1, <2>2
<1>6. (t = s) <=> s \in -K..K - 1  BY <1>4, <1>5
<1>7. s \in -K..K - 1 <=> x \in -K..K - 1  BY <1>1
<1>8. s \in -K..K - 1 => s = x  BY <1>1
<1> HIDE DEF s, t
<1>9. CASE t = s
  <2>1. SignedConversion(x, 2 * K, H) = Result(TRUE, t)  BY <1>9 DEF SignedConversion, s, t
  <2> QED  BY <1>6, <1>7, <1>8, <1>9, <2>1 DEF Result
<1>10. CASE t # s
  <2>1. SignedConversion(x, 2 * K, H) = Result(FALSE, t)  BY <1>10 DEF SignedConversion, s, t
  <2> QED  BY <1>6, <1>7, <1>10, <2>1 DEF Result
<1> QED  BY <1>9, <1>10

-----------------------------------------------------------------------------
(* The quotient of two numbers is below b exactly if b times the divisor is *)
(* more than the dividend.                                                  *)
LEMMA QuotientBelow ==
  ASSUME NEW m \in Nat, NEW a \in Nat \ {0}, NEW b \in Nat
  PROVE  (m \div a < b) <=> (a * b > m)
<1> DEFINE q == m \div a
<1>1. q \in Int /\ m = a * q + (m % a) /\ m % a \in 0..a - 1  BY Division
<1>2. CASE q < b
  <2>1. a * (q + 1) <= a * b
    <3>1. b - (q + 1) \in Nat  BY <1>1, <1>2
    <3>2. a * (b - (q + 1)) >= 0  BY <3>1
    <3>3. a * (b - (q + 1)) = a * b - a * (q + 1)  BY <1>1
    <3> QED  BY <1>1, <3>2, <3>3
  <2>2. a * (q + 1) = a * q + a  BY <1>1
  <2> QED  BY <1>1, <1>2, <2>1, <2>2
<1>3. CASE q >= b
  <2>1. q - b \in Nat  BY <1>1, <1>3
  <2>2. a * (q - b) >= 0  BY <2>1
  <2>3. a * (q - b) = a * q - a * b  BY <1>1
  <2> QED  BY <1>1, <1>3, <2>2, <2>3
<1> QED  BY <1>1, <1>2, <1>3

(* checked_multiply of an unsigned type never overflows and refuses only    *)
(* what would (CLI11.hpp 3329-3347); AsNumberWithUnit scales with it.       *)
THEOREM ScalingExact ==
  ASSUME NEW max \in Nat \ {0}, NEW a \in 0..max, NEW b \in 0..max
  PROVE  LET c == CheckedMultiplyUnsigned(a, b, max)
         IN  (c.ok <=> a * b <= max) /\ (c.ok => c.value = a * b)
<1>1. CASE Trivial(a, b)
  <2>1. a * b <= max  BY <1>1 DEF Trivial
  <2> QED  BY <1>1, <2>1 DEF CheckedMultiplyUnsigned, Result
<1>2. CASE ~Trivial(a, b)
  <2>1. a \in Nat \ {0} /\ b \in Nat  BY <1>2 DEF Trivial
  <2>2. OverflowUnsigned(a, b, max) <=> a * b > max
    BY <2>1, QuotientBelow DEF OverflowUnsigned
  <2>3. a * b \in Nat  OBVIOUS
  <2> QED  BY <1>2, <2>2, <2>3 DEF CheckedMultiplyUnsigned, Result
<1> QED  BY <1>1, <1>2

(* The sign of a product, and its size.                                     *)
LEMMA SignedProduct ==
  ASSUME NEW a \in Int, NEW b \in Int, a # 0, b # 0
  PROVE  /\ Abs(a) \in Nat \ {0} /\ Abs(b) \in Nat \ {0}
         /\ (a > 0) = (b > 0) => a * b = Abs(a) * Abs(b)
         /\ (a > 0) # (b > 0) => a * b = -(Abs(a) * Abs(b))
<1>1. CASE a > 0 /\ b > 0  BY <1>1 DEF Abs
<1>2. CASE a > 0 /\ b < 0  BY <1>2 DEF Abs
<1>3. CASE a < 0 /\ b > 0  BY <1>3 DEF Abs
<1>4. CASE a < 0 /\ b < 0  BY <1>4 DEF Abs
<1> QED  BY <1>1, <1>2, <1>3, <1>4

(* checked_multiply of a signed type never overflows and refuses only what  *)
(* would, the smallest value and its negation included                      *)
(* (CLI11.hpp 3319-3347).                                                   *)
THEOREM MultiplyExact ==
  ASSUME NEW max \in Nat \ {0},
         NEW a \in Smallest(max)..max, NEW b \in Smallest(max)..max
  PROVE  LET c == CheckedMultiply(a, b, max)
         IN  (c.ok <=> a * b \in Smallest(max)..max) /\ (c.ok => c.value = a * b)
<1> USE DEF Smallest
<1>1. CASE Trivial(a, b)
  <2>1. a * b \in Smallest(max)..max  BY <1>1 DEF Trivial
  <2> QED  BY <1>1, <2>1 DEF CheckedMultiply, Result
<1>2. CASE ~Trivial(a, b)
  <2> DEFINE x == Abs(a)
             y == Abs(b)
  <2>1. a # 0 /\ b # 0 /\ a # 1 /\ b # 1  BY <1>2 DEF Trivial
  <2>2. /\ x \in Nat \ {0} /\ y \in Nat \ {0}
        /\ (a > 0) = (b > 0) => a * b = x * y
        /\ (a > 0) # (b > 0) => a * b = -(x * y)
    BY <2>1, SignedProduct
  <2>3. x * y \in Nat  BY <2>2
  <2>4. CASE a = Smallest(max) \/ b = Smallest(max)
    <3>1. a * b \notin Smallest(max)..max
      <4>1. CASE a = Smallest(max) /\ b = -1  BY <4>1
      <4>2. CASE b = Smallest(max) /\ a = -1  BY <4>2
      <4>3. CASE a = Smallest(max) /\ b # -1
        <5>1. x = max + 1 /\ y >= 2  BY <2>1, <4>3 DEF Abs
        <5>2. x * y >= (max + 1) * 2  BY <2>2, <5>1
        <5> QED  BY <2>2, <2>3, <5>2
      <4>4. CASE b = Smallest(max) /\ a # -1
        <5>1. y = max + 1 /\ x >= 2  BY <2>1, <4>4 DEF Abs
        <5>2. x * y >= (max + 1) * 2  BY <2>2, <5>1
        <5> QED  BY <2>2, <2>3, <5>2
      <4> QED  BY <2>4, <4>1, <4>2, <4>3, <4>4
    <3> QED  BY <1>2, <2>4, <3>1 DEF CheckedMultiply, Result
  <2>5. CASE ~(a = Smallest(max) \/ b = Smallest(max))
    <3>1. OverflowSigned(a, b, max) <=> a * b \notin Smallest(max)..max
      <4>1. CASE (a > 0) = (b > 0)
        <5>1. OverflowSigned(a, b, max) <=> max \div x < y
          BY <2>2, <4>1 DEF OverflowSigned, Quotient
        <5> QED  BY <2>2, <2>3, <4>1, <5>1, QuotientBelow
      <4>2. CASE (a > 0) # (b > 0)
        <5>1. Quotient(Smallest(max), x) = -((max + 1) \div x)  BY <2>2 DEF Quotient
        <5>2. (max + 1) \div x \in Int
          <6>1. max + 1 \in Int  OBVIOUS
          <6> HIDE DEF x
          <6> QED  BY <2>2, <6>1, Division
        <5>3. OverflowSigned(a, b, max) <=> (max + 1) \div x < y
          BY <2>2, <4>2, <5>1, <5>2 DEF OverflowSigned
        <5> QED  BY <2>2, <2>3, <4>2, <5>3, QuotientBelow
      <4> QED  BY <4>1, <4>2
    <3> QED  BY <1>2, <2>5, <3>1 DEF CheckedMultiply, Result
  <2> QED  BY <2>4, <2>5
<1> QED  BY <1>1, <1>2
=============================================================================
