----------------------------- MODULE MCCliSetup -----------------------------
(* Three spellings of one name: as it is, with a capital, with an underscore. *)
EXTENDS CliSetup, Integers

MCLower == [n \in Names |-> IF n = "Fn" THEN "fn" ELSE n]
MCBare == [n \in Names |-> IF n = "f_n" THEN "fn" ELSE n]
MCDeclared == {{}, {"fn"}, {"Fn", "f_n"}}

(* The theorems of CliNumbersProofs on machine types of a few bits.          *)
LOCAL Num == INSTANCE CliNumbers

ASSUME NarrowUnsignedExact ==
  \A N \in {2, 4}, x \in 0..40 :
    Num!UnsignedConversion(x, N, 8) = IF x < N THEN Num!Result(TRUE, x)
                                      ELSE Num!Result(FALSE, Num!UnsignedConversion(x, N, 8).value)

ASSUME NarrowSignedExact ==
  \A N \in {2, 4, 8}, x \in -40..40 :
    LET c == Num!SignedConversion(x, N, 8)
    IN  c.ok = (x \in -(N \div 2)..(N \div 2) - 1) /\ (c.ok => c.value = x)

ASSUME MultiplyExact ==
  \A max \in {1, 3, 7}, a, b \in -8..7 : a \in -max - 1..max /\ b \in -max - 1..max =>
    LET c == Num!CheckedMultiply(a, b, max)
    IN  c.ok = (a * b \in -max - 1..max) /\ (c.ok => c.value = a * b)

ASSUME ScalingExact ==
  \A max \in {3, 8}, a, b \in 0..8 : a <= max /\ b <= max =>
    LET c == Num!CheckedMultiplyUnsigned(a, b, max)
    IN  c.ok = (a * b <= max) /\ (c.ok => c.value = a * b)
=============================================================================
