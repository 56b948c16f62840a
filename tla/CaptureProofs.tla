---------------------------- MODULE CaptureProofs ----------------------------
(***************************************************************************)
(* Proofs about the loading of a profile and the capture of its dump, for  *)
(* all files: the durations profiles aggregate to, the groups of a dump,   *)
(* the values and percentages of its entries, and what is asserted of the  *)
(* profile it was captured from.  Sums come first: a recursive function    *)
(* has no value the provers know of, so each fold is proved to exist and   *)
(* facts about it hold of a least counterexample or of none.               *)
(***************************************************************************)
EXTENDS Capture, FiniteSetTheorems, SequenceTheorems, WellFoundedInduction, TLAPS
-----------------------------------------------------------------------------
(* Sums and products.                                                       *)

Below == {r \in Nat \X Nat : r[1] < r[2]}

(* A set of numbers has a least one.                                        *)
LEMMA Least ==
  ASSUME NEW S, S \subseteq Nat, S # {}
  PROVE  \E n \in S : \A m \in S : n <= m
<1>1. IsWellFoundedOn(Below, Nat)
  BY NatLessThanWellFounded DEF OpToRel, Below
<1>2. PICK n \in S : \A m \in S : ~(<<m, n>> \in Below)
  BY <1>1, WFMin
<1>3. \A m \in S : m \in Nat /\ n \in Nat /\ ~(m < n)
  BY <1>2 DEF Below
<1> QED  BY <1>3

(* The recursions of the model: a sum, a product, and the profiles added to *)
(* a set one after the other, each from a first value by a step.            *)
Step(kind, a, e) ==
  CASE kind = "sum"     -> a + e
    [] kind = "product" -> a * e
    [] kind = "added"   -> Added(a, e)

IsFold(s, kind, v, x, n) == s = [k \in 0..n |-> IF k = 0 THEN v ELSE Step(kind, s[k - 1], x[k])]

(* A fold over any list exists: it is defined by recursion on its length.   *)
LEMMA FoldsExist ==
  ASSUME NEW kind, NEW v, NEW x, NEW n \in Nat
  PROVE  \E s : IsFold(s, kind, v, x, n)
<1> DEFINE Bad == {m \in Nat : ~ \E s : IsFold(s, kind, v, x, m)}
<1>1. SUFFICES ASSUME Bad # {} PROVE FALSE
  BY <1>1
<1>2. PICK m \in Bad : \A k \in Bad : m <= k
  <2>1. Bad \subseteq Nat /\ Bad # {}
    BY <1>1
  <2> HIDE DEF Bad
  <2> QED  BY <2>1, Least
<1>3. m # 0
  <2> DEFINE s == [k \in 0..0 |-> v]
  <2>1. s = [k \in 0..0 |-> IF k = 0 THEN v ELSE Step(kind, s[k - 1], x[k])]
    OBVIOUS
  <2> QED  BY <1>2, <2>1 DEF IsFold
<1>4. m \in Nat /\ m - 1 \in Nat /\ m - 1 \notin Bad
  BY <1>2, <1>3
<1>5. PICK s : IsFold(s, kind, v, x, m - 1)
  BY <1>4
<1>6. DOMAIN s = 0..m - 1 /\ \A k \in 0..m - 1 : s[k] = IF k = 0 THEN v ELSE Step(kind, s[k - 1], x[k])
  <2>1. s = [k \in 0..m - 1 |-> IF k = 0 THEN v ELSE Step(kind, s[k - 1], x[k])]
    BY <1>5 DEF IsFold
  <2> QED BY <2>1, Zenon
<1> DEFINE t == [k \in 0..m |-> IF k = m THEN Step(kind, s[m - 1], x[m]) ELSE s[k]]
           u == [k \in 0..m |-> IF k = 0 THEN v ELSE Step(kind, t[k - 1], x[k])]
<1> HIDE DEF Bad
<1>7. \A k \in 0..m : t[k] = IF k = 0 THEN v ELSE Step(kind, t[k - 1], x[k])
  <2> TAKE k \in 0..m
  <2>1. CASE k = m
    BY <1>3, <1>4, <2>1
  <2>2. CASE k # m
    <3>1. k \in 0..m - 1 /\ (k # 0 => k - 1 \in 0..m /\ k - 1 # m)
      BY <1>2, <1>3, <1>4, <2>2
    <3>2. t[k] = s[k] /\ (k # 0 => t[k - 1] = s[k - 1])
      BY <2>2, <3>1
    <3> HIDE DEF t
    <3> QED BY <1>6, <3>1, <3>2
  <2> QED BY <2>1, <2>2
<1>8. t = u
  <2>1. \A k \in 0..m : t[k] = u[k]
    BY <1>7
  <2> QED BY <2>1
<1>9. IsFold(t, kind, v, x, m)
  BY <1>8 DEF IsFold
<1> QED BY <1>2, <1>9 DEF Bad

(* A sum is the last of the partial sums.                                   *)
LEMMA SumOfIs ==
  ASSUME NEW x, NEW n \in Nat
  PROVE  \E s : IsFold(s, "sum", 0, x, n) /\ SumOf(x, n) = s[n]
<1> DEFINE s == CHOOSE s : IsFold(s, "sum", 0, x, n)
<1>1. IsFold(s, "sum", 0, x, n)
  BY FoldsExist
<1>2. SumOf(x, n) = s[n]
  BY DEF SumOf, IsFold, Step
<1> QED BY <1>1, <1>2

(* A product is the last of the partial products.                           *)
LEMMA ProductOfIs ==
  ASSUME NEW x, NEW n \in Nat
  PROVE  \E s : IsFold(s, "product", 1, x, n) /\ ProductOf(x, n) = s[n]
<1> DEFINE s == CHOOSE s : IsFold(s, "product", 1, x, n)
<1>1. IsFold(s, "product", 1, x, n)
  BY FoldsExist
<1>2. ProductOf(x, n) = s[n]
  BY DEF ProductOf, IsFold, Step
<1> QED BY <1>1, <1>2

(* The profiles of a pprof file are added one after the other (FromPprof).  *)
LEMMA AddedAllIs ==
  ASSUME NEW v, NEW f, Len(f) \in Nat
  PROVE  \E s : IsFold(s, "added", v, f, Len(f)) /\ AddedAll(v, f) = s[Len(f)]
<1> DEFINE s == CHOOSE s : IsFold(s, "added", v, f, Len(f))
<1>1. IsFold(s, "added", v, f, Len(f))
  BY FoldsExist
<1>2. AddedAll(v, f) = s[Len(f)]
  BY DEF AddedAll, IsFold, Step
<1> QED BY <1>1, <1>2

(* Two of one kind from lists that agree, one perhaps going further.        *)
Agree(x, y, n) == \A k \in 1..n : x[k] = y[k]

(* Folds over lists that agree have the same results.                       *)
LEMMA FoldsAgree ==
  ASSUME NEW kind, NEW v, NEW x, NEW y, NEW s, NEW t, NEW m \in Nat, NEW n \in Nat, n <= m,
         IsFold(s, kind, v, x, m), IsFold(t, kind, v, y, n), Agree(x, y, n)
  PROVE  s[n] = t[n]
<1> DEFINE Bad == {j \in 0..n : s[j] # t[j]}
<1>1. SUFFICES ASSUME Bad # {} PROVE FALSE
  BY <1>1
<1>2. PICK j \in Bad : \A i \in Bad : j <= i
  <2>1. Bad \subseteq Nat /\ Bad # {}
    BY <1>1
  <2> HIDE DEF Bad
  <2> QED  BY <2>1, Least
<1>3. /\ \A i \in 0..n : s[i] = IF i = 0 THEN v ELSE Step(kind, s[i - 1], x[i])
      /\ \A i \in 0..n : t[i] = IF i = 0 THEN v ELSE Step(kind, t[i - 1], y[i])
  <2>1. \A i \in 0..n : i \in 0..m /\ i \in 0..n
    OBVIOUS
  <2>2. s = [i \in 0..m |-> IF i = 0 THEN v ELSE Step(kind, s[i - 1], x[i])]
    BY DEF IsFold
  <2>3. t = [i \in 0..n |-> IF i = 0 THEN v ELSE Step(kind, t[i - 1], y[i])]
    BY DEF IsFold
  <2>4. \A i \in 0..m : s[i] = IF i = 0 THEN v ELSE Step(kind, s[i - 1], x[i])
    BY <2>2, Zenon
  <2>5. \A i \in 0..n : t[i] = IF i = 0 THEN v ELSE Step(kind, t[i - 1], y[i])
    BY <2>3, Zenon
  <2> QED  BY <2>1, <2>4, <2>5
<1>4. j # 0
  BY <1>2, <1>3
<1>5. j - 1 \in 0..n /\ j \in 1..n /\ ~ (j <= j - 1)
  BY <1>2, <1>4
<1>6. s[j - 1] = t[j - 1]
  BY <1>2, <1>5
<1> QED  BY <1>2, <1>3, <1>4, <1>5, <1>6 DEF Agree

(* A sum of nothing.                                                        *)
LEMMA SumNone == ASSUME NEW x PROVE SumOf(x, 0) = 0
<1>1. PICK s : IsFold(s, "sum", 0, x, 0) /\ SumOf(x, 0) = s[0]
  BY SumOfIs
<1> QED  BY <1>1 DEF IsFold

(* A sum of one number more.                                                *)
LEMMA SumMore ==
  ASSUME NEW x, NEW n \in Nat
  PROVE  SumOf(x, n + 1) = SumOf(x, n) + x[n + 1]
<1>1. PICK s : IsFold(s, "sum", 0, x, n) /\ SumOf(x, n) = s[n]
  BY SumOfIs
<1>2. PICK t : IsFold(t, "sum", 0, x, n + 1) /\ SumOf(x, n + 1) = t[n + 1]
  BY SumOfIs
<1>3. t[n] = s[n]
  <2> DEFINE m == n + 1
  <2>1. m \in Nat /\ n <= m /\ Agree(x, x, n)
    BY DEF Agree
  <2>2. IsFold(t, "sum", 0, x, m) /\ IsFold(s, "sum", 0, x, n)
    BY <1>1, <1>2
  <2> HIDE DEF m
  <2> QED  BY <2>1, <2>2, FoldsAgree
<1>4. t = [k \in 0..n + 1 |-> IF k = 0 THEN 0 ELSE Step("sum", t[k - 1], x[k])]
  BY <1>2 DEF IsFold
<1>5. \A k \in 0..n + 1 : t[k] = IF k = 0 THEN 0 ELSE Step("sum", t[k - 1], x[k])
  BY <1>4, Zenon
<1>6. t[n + 1] = t[n + 1 - 1] + x[n + 1] /\ n + 1 - 1 = n
  BY <1>5 DEF Step
<1> QED  BY <1>1, <1>2, <1>3, <1>6

(* Sums of the same numbers.                                                *)
LEMMA SumSame ==
  ASSUME NEW x, NEW y, NEW n \in Nat, \A k \in 1..n : x[k] = y[k]
  PROVE  SumOf(x, n) = SumOf(y, n)
<1>1. PICK s : IsFold(s, "sum", 0, x, n) /\ SumOf(x, n) = s[n]
  BY SumOfIs
<1>2. PICK t : IsFold(t, "sum", 0, y, n) /\ SumOf(y, n) = t[n]
  BY SumOfIs
<1>3. n <= n /\ Agree(x, y, n)
  BY DEF Agree
<1> QED  BY <1>1, <1>2, <1>3, FoldsAgree

(* A sum of naturals is one.                                                *)
LEMMA SumIsNat ==
  ASSUME NEW x, NEW n \in Nat, \A k \in 1..n : x[k] \in Nat
  PROVE  SumOf(x, n) \in Nat
<1> DEFINE Bad == {m \in 0..n : SumOf(x, m) \notin Nat}
<1>1. SUFFICES ASSUME Bad # {} PROVE FALSE
  BY <1>1
<1>2. PICK m \in Bad : \A k \in Bad : m <= k
  <2>1. Bad \subseteq Nat /\ Bad # {}
    BY <1>1
  <2> HIDE DEF Bad
  <2> QED  BY <2>1, Least
<1>3. m # 0
  BY <1>2, SumNone
<1>4. m - 1 \in Nat /\ m \in 1..n /\ SumOf(x, m - 1) \in Nat
  BY <1>2, <1>3
<1>5. SumOf(x, m - 1 + 1) = SumOf(x, m - 1) + x[m - 1 + 1] /\ m - 1 + 1 = m
  BY <1>4, SumMore
<1> QED  BY <1>2, <1>4, <1>5

(* A sum of integers is one.                                                *)
LEMMA SumIsInt ==
  ASSUME NEW x, NEW n \in Nat, \A k \in 1..n : x[k] \in Int
  PROVE  SumOf(x, n) \in Int
<1> DEFINE Bad == {m \in 0..n : SumOf(x, m) \notin Int}
<1>1. SUFFICES ASSUME Bad # {} PROVE FALSE
  BY <1>1
<1>2. PICK m \in Bad : \A k \in Bad : m <= k
  <2>1. Bad \subseteq Nat /\ Bad # {}
    BY <1>1
  <2> HIDE DEF Bad
  <2> QED  BY <2>1, Least
<1>3. m # 0
  BY <1>2, SumNone
<1>4. m - 1 \in Nat /\ m \in 1..n /\ SumOf(x, m - 1) \in Int
  BY <1>2, <1>3
<1>5. SumOf(x, m - 1 + 1) = SumOf(x, m - 1) + x[m - 1 + 1] /\ m - 1 + 1 = m
  BY <1>4, SumMore
<1> QED  BY <1>2, <1>4, <1>5

(* One of the numbers changes by d. *)
Grows(x, y, n, g, d) ==
  /\ d \in Int /\ g \in 1..n
  /\ \A k \in 1..n : x[k] \in Int /\ y[k] = IF k = g THEN x[k] + d ELSE x[k]

(* If one of the numbers changes by d, so does their sum.                   *)
LEMMA SumGrows ==
  ASSUME NEW x, NEW y, NEW n \in Nat, NEW g, NEW d, Grows(x, y, n, g, d)
  PROVE  SumOf(y, n) = SumOf(x, n) + d
<1>0. /\ d \in Int /\ g \in 1..n
      /\ \A k \in 1..n : x[k] \in Int /\ y[k] = IF k = g THEN x[k] + d ELSE x[k]
  BY DEF Grows
<1> DEFINE Bad == {m \in g..n : SumOf(y, m) # SumOf(x, m) + d}
<1>1. SUFFICES ASSUME Bad # {} PROVE FALSE
  <2>1. n \in g..n
    BY <1>0
  <2> QED  BY <2>1
<1>2. PICK m \in Bad : \A k \in Bad : m <= k
  <2>1. Bad \subseteq Nat /\ Bad # {}
    BY <1>0, <1>1
  <2> HIDE DEF Bad
  <2> QED  BY <2>1, Least
<1>3. m \in 1..n /\ m - 1 \in Nat
  BY <1>0, <1>2
<1>4. /\ SumOf(y, m) = SumOf(y, m - 1) + y[m]
      /\ SumOf(x, m) = SumOf(x, m - 1) + x[m]
  <2>1. SumOf(y, m - 1 + 1) = SumOf(y, m - 1) + y[m - 1 + 1] /\ SumOf(x, m - 1 + 1) = SumOf(x, m - 1) + x[m - 1 + 1]
    BY <1>3, SumMore
  <2>2. m - 1 + 1 = m
    BY <1>3
  <2> QED  BY <2>1, <2>2
<1>5. SumOf(x, m - 1) \in Int
  BY <1>0, <1>3, SumIsInt
<1>6. CASE m = g
  <2>1. SumOf(x, m - 1) = SumOf(y, m - 1)
    <3>1. \A k \in 1..m - 1 : x[k] = y[k]
      BY <1>0, <1>3, <1>6
    <3> QED  BY <1>3, <3>1, SumSame
  <2> QED  BY <1>0, <1>2, <1>3, <1>4, <1>5, <1>6, <2>1
<1>7. CASE m # g
  <2>1. SumOf(y, m - 1) = SumOf(x, m - 1) + d
    BY <1>0, <1>2, <1>3, <1>7
  <2> QED  BY <1>0, <1>2, <1>3, <1>4, <1>5, <1>7, <2>1
<1> QED  BY <1>6, <1>7

(* A list of numbers rearranged. *)
Rearranges(m) ==
  \A x : (\A k \in 1..m : x[k] \in Int) =>
    \A f \in [1..m -> 1..m] : (\A j, k \in 1..m : f[j] = f[k] => j = k) =>
      SumOf([k \in 1..m |-> x[f[k]]], m) = SumOf(x, m)

(* A sum does not depend on the order of its numbers.                       *)
LEMMA SumRearranged ==
  ASSUME NEW n \in Nat
  PROVE  Rearranges(n)
<1> DEFINE Bad == {m \in Nat : ~Rearranges(m)}
<1>1. SUFFICES ASSUME Bad # {} PROVE FALSE
  OBVIOUS
<1>2. PICK m \in Bad : \A k \in Bad : m <= k
  <2>1. Bad \subseteq Nat /\ Bad # {}
    BY <1>1
  <2> HIDE DEF Bad
  <2> QED  BY <2>1, Least
<1>3. m \in Nat /\ ~Rearranges(m)
  BY <1>2
<1>4. PICK x : /\ \A k \in 1..m : x[k] \in Int
               /\ ~ \A f \in [1..m -> 1..m] : (\A j, k \in 1..m : f[j] = f[k] => j = k) =>
                     SumOf([k \in 1..m |-> x[f[k]]], m) = SumOf(x, m)
  BY <1>3 DEF Rearranges
<1>5. PICK f \in [1..m -> 1..m] : /\ \A j, k \in 1..m : f[j] = f[k] => j = k
                                  /\ SumOf([k \in 1..m |-> x[f[k]]], m) # SumOf(x, m)
  BY <1>4
<1> DEFINE n1 == m - 1
           y == [k \in 1..m |-> x[f[k]]]
<1>6. m # 0
  <2> SUFFICES ASSUME m = 0 PROVE FALSE
    OBVIOUS
  <2>1. SumOf(y, 0) = 0 /\ SumOf(x, 0) = 0
    BY SumNone
  <2> QED  BY <1>5, <2>1
<1>7. n1 \in Nat /\ m = n1 + 1 /\ m \in 1..m /\ 1..n1 \subseteq 1..m /\ \A k \in 1..m : k = m \/ k \in 1..n1
  BY <1>3, <1>6
<1>8. Rearranges(n1)
  <2>1. n1 \notin Bad
    BY <1>2, <1>7
  <2> QED  BY <1>7, <2>1 DEF Bad
<1>9. PICK j \in 1..m : f[j] = m
  <2>1. f \in Injection(1..m, 1..m)
    BY <1>5 DEF Injection, IsInjective
  <2>2. IsFiniteSet(1..m) /\ Cardinality(1..m) = m
    BY <1>3, FS_Interval
  <2>3. f \in Surjection(1..m, 1..m)
    BY <2>1, <2>2, FS_Injection
  <2> QED  BY <1>7, <2>3 DEF Surjection
<1> HIDE DEF Bad, n1
<1>10. SumOf(y, m) = SumOf(y, n1) + y[m] /\ SumOf(x, m) = SumOf(x, n1) + x[m]
  BY <1>7, SumMore
<1>11. y[m] = x[f[m]] /\ y[j] = x[m] /\ \A k \in 1..m : y[k] \in Int /\ y[k] = x[f[k]]
  BY <1>4, <1>5, <1>7, <1>9
<1> DEFINE g == [k \in 1..n1 |-> IF k = j THEN f[m] ELSE f[k]]
           z == [k \in 1..n1 |-> x[g[k]]]
<1>12. g \in [1..n1 -> 1..n1] /\ \A a, b \in 1..n1 : g[a] = g[b] => a = b
  <2>1. \A k \in 1..n1 : k \in 1..m /\ k # m
    BY <1>7
  <2>2. \A k \in 1..m : f[k] \in 1..m /\ (k # j => f[k] \in 1..n1)
    BY <1>5, <1>7, <1>9
  <2>3. \A k \in 1..n1 : g[k] \in 1..n1
    BY <1>7, <2>1, <2>2
  <2>4. \A a, b \in 1..n1 : g[a] = g[b] => a = b
    BY <1>5, <1>7, <2>1
  <2> QED  BY <2>3, <2>4
<1>13. SumOf(z, n1) = SumOf(x, n1)
  <2>1. \A k \in 1..n1 : x[k] \in Int
    BY <1>4, <1>7
  <2> HIDE DEF g
  <2> QED  BY <1>8, <1>12, <2>1 DEF Rearranges
<1>14. SumOf(z, n1) + x[m] = SumOf(y, n1) + y[m]
  <2>1. CASE j = m
    <3>1. \A k \in 1..n1 : z[k] = y[k]
      BY <1>7, <1>11, <2>1
    <3>2. SumOf(z, n1) = SumOf(y, n1)
      BY <1>7, <3>1, SumSame
    <3> QED  BY <1>11, <2>1, <3>2
  <2>2. CASE j # m
    <3>1. j \in 1..n1
      BY <1>7, <2>2
    <3> DEFINE d == y[m] - y[j]
    <3>2. d \in Int
      BY <1>7, <1>11
    <3>3. \A k \in 1..n1 : y[k] \in Int /\ z[k] = IF k = j THEN y[k] + d ELSE y[k]
      <4>1. \A k \in 1..n1 : k \in 1..m /\ z[k] = IF k = j THEN x[f[m]] ELSE x[f[k]]
        BY <1>7
      <4>2. y[j] + d = y[m]
        BY <1>7, <1>11
      <4> HIDE DEF d, y, z, g
      <4> QED  BY <1>11, <4>1, <4>2
    <3> HIDE DEF d, z, y
    <3>4. SumOf(z, n1) = SumOf(y, n1) + d
      <4>1. Grows(y, z, n1, j, d)
        BY <3>1, <3>2, <3>3 DEF Grows
      <4> QED  BY <1>7, <4>1, SumGrows
    <3>5. SumOf(y, n1) \in Int
      BY <1>7, <3>3, SumIsInt
    <3> QED  BY <1>7, <1>11, <3>4, <3>5 DEF d
  <2> QED  BY <2>1, <2>2
<1> QED  BY <1>5, <1>10, <1>13, <1>14

(* All of the numbers are multiplied by c.                                  *)
Scaled(x, y, n, c) == c \in Int /\ \A k \in 1..n : x[k] \in Int /\ y[k] = c * x[k]

(* A sum of multiples is the multiple of the sum.                           *)
LEMMA SumScaled ==
  ASSUME NEW x, NEW y, NEW c, NEW n \in Nat, Scaled(x, y, n, c)
  PROVE  SumOf(y, n) = c * SumOf(x, n)
<1> USE DEF Scaled
<1> DEFINE Bad == {m \in 0..n : SumOf(y, m) # c * SumOf(x, m)}
<1>1. SUFFICES ASSUME Bad # {} PROVE FALSE
  BY <1>1, SumIsInt
<1>2. PICK m \in Bad : \A k \in Bad : m <= k
  <2>1. Bad \subseteq Nat /\ Bad # {}
    BY <1>1
  <2> HIDE DEF Bad
  <2> QED  BY <2>1, Least
<1>3. m # 0
  BY <1>2, SumNone
<1> DEFINE q == m - 1
<1>4. q \in Nat /\ q + 1 = m /\ m \in 1..n /\ \A k \in 1..q : k \in 1..n
  BY <1>2, <1>3
<1>5. SumOf(y, q) = c * SumOf(x, q)
  BY <1>2, <1>4
<1> HIDE DEF q
<1>6. SumOf(y, m) = SumOf(y, q) + y[m] /\ SumOf(x, m) = SumOf(x, q) + x[m]
  BY <1>4, SumMore
<1>7. SumOf(x, q) \in Int /\ x[m] \in Int /\ y[m] = c * x[m]
  BY <1>4, SumIsInt
<1>8. \A a, b \in Int : c * a + c * b = c * (a + b)
  OBVIOUS
<1> QED  BY <1>2, <1>5, <1>6, <1>7, <1>8

(* Of two lists, one after the other. *)
Joined(x, y, z, m, n) ==
  /\ \A k \in 1..m : x[k] \in Int /\ z[k] = x[k]
  /\ \A k \in 1..n : y[k] \in Int /\ z[m + k] = y[k]

(* The sum of two lists one after the other.                                *)
LEMMA SumBoth ==
  ASSUME NEW x, NEW y, NEW z, NEW m \in Nat, NEW n \in Nat, Joined(x, y, z, m, n)
  PROVE  SumOf(z, m + n) = SumOf(x, m) + SumOf(y, n)
<1> DEFINE Bad == {k \in 0..n : SumOf(z, m + k) # SumOf(x, m) + SumOf(y, k)}
<1>1. SUFFICES ASSUME Bad # {} PROVE FALSE
  BY <1>1
<1>2. PICK k \in Bad : \A j \in Bad : k <= j
  <2>1. Bad \subseteq Nat /\ Bad # {}
    BY <1>1
  <2> HIDE DEF Bad
  <2> QED  BY <2>1, Least
<1>3. SumOf(x, m) \in Int
  BY SumIsInt DEF Joined
<1>4. k # 0
  <2>1. SumOf(z, m) = SumOf(x, m)
    BY SumSame DEF Joined
  <2>2. SumOf(y, 0) = 0
    BY SumNone
  <2> QED  BY <1>2, <1>3, <2>1, <2>2
<1> DEFINE q == k - 1
           r == m + q
<1>5. q \in Nat /\ r \in Nat /\ q + 1 = k /\ r + 1 = m + k /\ k \in 1..n /\ \A j \in 1..q : j \in 1..n
  BY <1>2, <1>4
<1>6. SumOf(z, r) = SumOf(x, m) + SumOf(y, q)
  BY <1>2, <1>5
<1> HIDE DEF q, r
<1>7. SumOf(z, m + k) = SumOf(z, r) + z[m + k] /\ SumOf(y, k) = SumOf(y, q) + y[k]
  BY <1>5, SumMore
<1>8. SumOf(y, q) \in Int /\ y[k] \in Int /\ z[m + k] = y[k]
  BY <1>5, SumIsInt DEF Joined
<1> QED  BY <1>2, <1>3, <1>6, <1>7, <1>8

(* A product of nothing.                                                    *)
LEMMA ProductNone == ASSUME NEW x PROVE ProductOf(x, 0) = 1
<1>1. PICK s : IsFold(s, "product", 1, x, 0) /\ ProductOf(x, 0) = s[0]
  BY ProductOfIs
<1> QED  BY <1>1 DEF IsFold

(* A product of one number more.                                            *)
LEMMA ProductMore ==
  ASSUME NEW x, NEW n \in Nat
  PROVE  ProductOf(x, n + 1) = ProductOf(x, n) * x[n + 1]
<1>1. PICK s : IsFold(s, "product", 1, x, n) /\ ProductOf(x, n) = s[n]
  BY ProductOfIs
<1>2. PICK t : IsFold(t, "product", 1, x, n + 1) /\ ProductOf(x, n + 1) = t[n + 1]
  BY ProductOfIs
<1>3. t[n] = s[n]
  <2> DEFINE m == n + 1
  <2>1. m \in Nat /\ n <= m /\ Agree(x, x, n)
    BY DEF Agree
  <2>2. IsFold(t, "product", 1, x, m) /\ IsFold(s, "product", 1, x, n)
    BY <1>1, <1>2
  <2> HIDE DEF m
  <2> QED  BY <2>1, <2>2, FoldsAgree
<1>4. t = [k \in 0..n + 1 |-> IF k = 0 THEN 1 ELSE Step("product", t[k - 1], x[k])]
  BY <1>2 DEF IsFold
<1>5. \A k \in 0..n + 1 : t[k] = IF k = 0 THEN 1 ELSE Step("product", t[k - 1], x[k])
  BY <1>4, Zenon
<1>6. t[n + 1] = t[n + 1 - 1] * x[n + 1] /\ n + 1 - 1 = n
  BY <1>5 DEF Step
<1> QED  BY <1>1, <1>2, <1>3, <1>6

(* Products of the same numbers.                                            *)
LEMMA ProductSame ==
  ASSUME NEW x, NEW y, NEW n \in Nat, \A k \in 1..n : x[k] = y[k]
  PROVE  ProductOf(x, n) = ProductOf(y, n)
<1>1. PICK s : IsFold(s, "product", 1, x, n) /\ ProductOf(x, n) = s[n]
  BY ProductOfIs
<1>2. PICK t : IsFold(t, "product", 1, y, n) /\ ProductOf(y, n) = t[n]
  BY ProductOfIs
<1>3. n <= n /\ Agree(x, y, n)
  BY DEF Agree
<1> QED  BY <1>1, <1>2, <1>3, FoldsAgree
-----------------------------------------------------------------------------
(* What loading keeps of the samples.                                       *)

(* Samples in order are the same samples rearranged.                        *)
LEMMA SortedRearranges ==
  ASSUME NEW samples, Listed(samples), \A k \in DOMAIN samples : samples[k].val \in Nat
  PROVE  \E f \in [1..Len(samples) -> 1..Len(samples)] :
           /\ \A j, k \in 1..Len(samples) : f[j] = f[k] => j = k
           /\ Sorted(samples) = [k \in 1..Len(samples) |-> samples[f[k]]]
<1> DEFINE n == Len(samples)
           D == 1..n
           v(p) == samples[p].val
           Upto(p) == {q \in D : v(q) > v(p) \/ (v(q) = v(p) /\ q <= p)}
           r == [p \in D |-> Cardinality(Upto(p))]
<1>1. n \in Nat /\ DOMAIN samples = D
  BY DEF Listed
<1>2. IsFiniteSet(D) /\ Cardinality(D) = n
  BY <1>1, FS_Interval
<1>3. \A p \in D : v(p) \in Nat /\ p \in Nat
  BY <1>1
<1>4. \A p \in D : Place(samples, p) = Cardinality(Upto(p))
  BY <1>1 DEF Place
<1> HIDE DEF D, v
<1>5. \A p, q \in D : q \in Upto(p) <=> v(q) > v(p) \/ (v(q) = v(p) /\ q <= p)
  OBVIOUS
<1>6. \A p \in D : Upto(p) \subseteq D /\ p \in Upto(p)
  BY <1>3
<1> HIDE DEF Upto
<1>7. \A p \in D : IsFiniteSet(Upto(p)) /\ Cardinality(Upto(p)) \in 1..n
  <2> TAKE p \in D
  <2>1. IsFiniteSet(Upto(p)) /\ Cardinality(Upto(p)) <= n
    BY <1>2, <1>6, FS_Subset
  <2>2. Cardinality(Upto(p)) # 0 /\ Cardinality(Upto(p)) \in Nat
    BY <1>6, <2>1, FS_EmptySet, FS_CardinalityType
  <2> QED  BY <1>1, <2>1, <2>2
<1>8. \A p, q \in D : Cardinality(Upto(p)) = Cardinality(Upto(q)) => p = q
  <2>1. ASSUME NEW p \in D, NEW q \in D, Cardinality(Upto(p)) = Cardinality(Upto(q)), p \in Upto(q)
        PROVE  p = q
    <3>1. Upto(p) \subseteq Upto(q)
      <4> SUFFICES ASSUME NEW x \in Upto(p) PROVE x \in Upto(q)
        OBVIOUS
      <4>1. x \in D
        BY <1>6
      <4> QED  BY <1>3, <1>5, <2>1, <4>1
    <3>2. Upto(p) = Upto(q)
      BY <1>7, <2>1, <3>1, FS_Subset
    <3>3. q \in Upto(p)
      BY <1>6, <3>2
    <3> QED  BY <1>3, <1>5, <2>1, <3>3
  <2>2. \A p, q \in D : p \in Upto(q) \/ q \in Upto(p)
    BY <1>3, <1>5
  <2> QED  BY <2>1, <2>2
<1>9. r \in Injection(D, D)
  BY <1>7, <1>8 DEF Injection, IsInjective, D
<1>10. \A m \in D : \E p \in D : r[p] = m
  BY <1>2, <1>9, FS_Injection DEF Surjection
<1>11. \A m \in D : \E p \in D : Place(samples, p) = m
  BY <1>4, <1>10
<1> DEFINE f == [m \in D |-> CHOOSE p \in D : Place(samples, p) = m]
<1>12. \A m \in D : f[m] \in D /\ Place(samples, f[m]) = m
  BY <1>11
<1>13. f \in [D -> D] /\ \A j, k \in D : f[j] = f[k] => j = k
  BY <1>12
<1>14. Sorted(samples) = [k \in D |-> samples[f[k]]]
  BY <1>1 DEF Sorted
<1> HIDE DEF f
<1> QED  BY <1>13, <1>14 DEF D

(* A sort keeps the samples and their total (SortSamples).                  *)
LEMMA SortedKeeps ==
  ASSUME NEW samples, Listed(samples), \A k \in DOMAIN samples : samples[k].val \in Nat
  PROVE  /\ Listed(Sorted(samples)) /\ Len(Sorted(samples)) = Len(samples)
         /\ \A k \in DOMAIN Sorted(samples) : \E j \in DOMAIN samples : Sorted(samples)[k] = samples[j]
         /\ Total(Sorted(samples)) = Total(samples)
<1> DEFINE n == Len(samples)
           s == Sorted(samples)
           x == [k \in 1..n |-> samples[k].val]
<1>1. n \in Nat /\ DOMAIN samples = 1..n
  BY DEF Listed
<1>2. PICK f \in [1..n -> 1..n] : /\ \A j, k \in 1..n : f[j] = f[k] => j = k
                                  /\ s = [k \in 1..n |-> samples[f[k]]]
  BY SortedRearranges
<1>3. Len(s) = n /\ DOMAIN s = 1..n /\ s = [k \in 1..n |-> s[k]]
  BY <1>1, <1>2
<1>4. Listed(s)
  BY <1>1, <1>3 DEF Listed
<1>5. \A k \in DOMAIN s : \E j \in DOMAIN samples : s[k] = samples[j]
  BY <1>1, <1>2, <1>3
<1>6. SumOf([k \in 1..n |-> x[f[k]]], n) = SumOf(x, n)
  <2>1. \A k \in 1..n : x[k] \in Int
    BY <1>1
  <2> HIDE DEF x, n
  <2> QED  BY <1>1, <1>2, <2>1, SumRearranged DEF Rearranges
<1>7. [k \in DOMAIN s |-> s[k].val] = [k \in 1..n |-> x[f[k]]]
  BY <1>2, <1>3
<1>8. Total(s) = SumOf([k \in DOMAIN s |-> s[k].val], Len(s)) /\ Total(samples) = SumOf(x, n)
  BY <1>1 DEF Total
<1> QED  BY <1>3, <1>4, <1>5, <1>6, <1>7, <1>8

(* A list with one element more.                                            *)
LEMMA OneMore ==
  ASSUME NEW s, Listed(s), NEW x
  PROVE  /\ Listed(Append(s, x)) /\ Len(Append(s, x)) = Len(s) + 1
         /\ Append(s, x)[Len(s) + 1] = x
         /\ \A k \in 1..Len(s) : Append(s, x)[k] = s[k]
<1> DEFINE S == {s[k] : k \in 1..Len(s)} \cup {x}
<1>1. s \in Seq(S) /\ x \in S
  <2>1. [k \in 1..Len(s) |-> s[k]] \in [1..Len(s) -> S]
    OBVIOUS
  <2>2. s \in [1..Len(s) -> S] /\ Len(s) \in Nat
    BY <2>1 DEF Listed
  <2> HIDE DEF S
  <2>3. s \in Seq(S)
    BY <2>2
  <2> QED  BY <2>3 DEF S
<1> HIDE DEF S
<1>2. Append(s, x) \in Seq(S)
  BY <1>1
<1>3. Append(s, x) \in [1..Len(Append(s, x)) -> S] /\ Len(Append(s, x)) \in Nat
  BY <1>2, LenProperties
<1>4. Listed(Append(s, x))
  <2> DEFINE t == Append(s, x)
  <2>1. t \in [1..Len(t) -> S] /\ Len(t) \in Nat
    BY <1>3
  <2> HIDE DEF t
  <2> QED  BY <2>1 DEF Listed, t
<1>5. /\ Len(Append(s, x)) = Len(s) + 1 /\ Append(s, x)[Len(s) + 1] = x
      /\ \A k \in 1..Len(s) : Append(s, x)[k] = s[k]
  BY <1>1, AppendProperties
<1> QED  BY <1>4, <1>5

(* Two lists, one after the other.                                          *)
LEMMA BothListed ==
  ASSUME NEW a, NEW b, Listed(a), Listed(b)
  PROVE  /\ Listed(a \o b) /\ Len(a \o b) = Len(a) + Len(b)
         /\ \A k \in 1..Len(a) : (a \o b)[k] = a[k]
         /\ \A k \in 1..Len(b) : (a \o b)[Len(a) + k] = b[k]
<1> DEFINE m == Len(a)
           n == Len(b)
           c == a \o b
           S == {a[k] : k \in 1..m} \cup {b[k] : k \in 1..n}
<1>1. m \in Nat /\ n \in Nat /\ a = [k \in 1..m |-> a[k]] /\ b = [k \in 1..n |-> b[k]]
  BY DEF Listed
<1>2. a \in Seq(S) /\ b \in Seq(S)
  <2>1. [k \in 1..m |-> a[k]] \in [1..m -> S] /\ [k \in 1..n |-> b[k]] \in [1..n -> S]
    OBVIOUS
  <2>2. a \in [1..m -> S] /\ b \in [1..n -> S]
    BY <1>1, <2>1
  <2> HIDE DEF S, m, n
  <2> QED  BY <1>1, <2>2
<1> HIDE DEF S
<1>3. c \in Seq(S) /\ Len(c) = m + n
  BY <1>2
<1>4. c \in [1..m + n -> S]
  <2>1. c \in [1..Len(c) -> S]
    BY <1>3, LenProperties
  <2> QED  BY <1>3, <2>1
<1>5. /\ \A k \in 1..m : c[k] = a[k]
      /\ \A k \in 1..n : c[m + k] = b[k]
  BY <1>1, <1>2
<1> HIDE DEF c, m, n
<1>6. Listed(c)
  BY <1>1, <1>3, <1>4 DEF Listed
<1> QED  BY <1>3, <1>5, <1>6 DEF c, m, n

(* The total of two lists of samples one after the other.                   *)
LEMMA TotalOfBoth ==
  ASSUME NEW a, NEW b, Listed(a), Listed(b),
         \A k \in DOMAIN a : a[k].val \in Nat, \A k \in DOMAIN b : b[k].val \in Nat
  PROVE  Total(a \o b) = Total(a) + Total(b)
<1> DEFINE m == Len(a)
           n == Len(b)
           c == a \o b
           x == [k \in DOMAIN a |-> a[k].val]
           y == [k \in DOMAIN b |-> b[k].val]
           z == [k \in DOMAIN c |-> c[k].val]
<1>1. m \in Nat /\ n \in Nat /\ DOMAIN a = 1..m /\ DOMAIN b = 1..n
  BY DEF Listed
<1>2. /\ Listed(c) /\ Len(c) = m + n
      /\ \A k \in 1..m : c[k] = a[k]
      /\ \A k \in 1..n : c[m + k] = b[k]
  BY BothListed
<1>3. DOMAIN c = 1..m + n
  BY <1>2 DEF Listed
<1> HIDE DEF m, n, c
<1>4. /\ \A k \in 1..m : x[k] \in Int /\ z[k] = x[k]
      /\ \A k \in 1..n : y[k] \in Int /\ z[m + k] = y[k]
  <2>1. \A k \in 1..m : k \in DOMAIN c
    BY <1>1, <1>3
  <2>2. \A k \in 1..n : m + k \in DOMAIN c
    BY <1>1, <1>3
  <2> QED  BY <1>1, <1>2, <2>1, <2>2
<1>5. Total(a) = SumOf(x, m) /\ Total(b) = SumOf(y, n) /\ Total(c) = SumOf(z, m + n)
  BY <1>2 DEF Total, m, n
<1> HIDE DEF x, y, z
<1>6. SumOf(z, m + n) = SumOf(x, m) + SumOf(y, n)
  <2>1. Joined(x, y, z, m, n)
    BY <1>4 DEF Joined
  <2> QED  BY <1>1, <2>1, SumBoth
<1> QED  BY <1>5, <1>6 DEF c

(* The total of values that are not negative is not.                        *)
LEMMA TotalIsNat ==
  ASSUME NEW samples, Listed(samples), \A k \in DOMAIN samples : samples[k].val \in Nat
  PROVE  Total(samples) \in Nat
<1> DEFINE x == [k \in DOMAIN samples |-> samples[k].val]
<1>1. Len(samples) \in Nat /\ DOMAIN samples = 1..Len(samples)
  BY DEF Listed
<1>2. \A k \in 1..Len(samples) : x[k] \in Nat
  BY <1>1
<1> HIDE DEF x
<1>3. SumOf(x, Len(samples)) \in Nat
  BY <1>1, <1>2, SumIsNat
<1> QED  BY <1>3 DEF Total, x
-----------------------------------------------------------------------------
(* Every profile a file may carry has its shape.                            *)
LEMMA CarriedWell ==
  /\ \A p \in Carriable : Shaped(p) /\ \A k \in DOMAIN p.samples : p.samples[k] \in Samples
  /\ \A s \in Samples : s.val \in Nat
<1>1. \A p \in Carriable : Shaped(p)
  BY ProfileSetAssumption DEF Carriable
<1> QED  BY <1>1 DEF Shaped, Samples

(* What a set of profiles always is: types are listed once, and only those  *)
(* with samples, ...                                                        *)
WellSet(s) ==
  /\ s = [order |-> s.order, typed |-> s.typed, dur |-> s.dur] /\ DOMAIN s.typed = Type
  /\ \A t \in Type : Listed(s.typed[t]) /\ \A k \in DOMAIN s.typed[t] : s.typed[t][k] \in Samples
  /\ Listed(s.order) /\ \A k, l \in DOMAIN s.order : s.order[k] = s.order[l] => k = l
  /\ \A k \in DOMAIN s.order : s.order[k] \in Type /\ s.typed[s.order[k]] # <<>>
  /\ s.dur \in [Type -> [valueSum : Nat, num : Nat, den : Nat \ {0}]]

(* Adding a profile keeps what is loaded well formed (Added).               *)
LEMMA AddedKeepsWell ==
  ASSUME NEW s, WellSet(s), NEW p \in Carriable
  PROVE  WellSet(Added(s, p))
<1> DEFINE r == Added(s, p)
<1>1. p.type \in Type /\ p.secs \in Nat /\ Listed(p.samples) /\ \A k \in DOMAIN p.samples : p.samples[k] \in Samples
  BY CarriedWell DEF Shaped
<1>2. /\ r.order = Seen(s, p)
      /\ r.typed = [s.typed EXCEPT ![p.type] = @ \o p.samples]
      /\ r.dur = [s.dur EXCEPT ![p.type] = AddDuration(@, Total(p.samples), p.secs)]
  BY DEF Added
<1>3. DOMAIN r.typed = Type /\ r.typed[p.type] = s.typed[p.type] \o p.samples
      /\ \A t \in Type : t # p.type => r.typed[t] = s.typed[t]
  BY <1>1, <1>2 DEF WellSet
<1>4. ASSUME NEW t \in Type
      PROVE  Listed(r.typed[t]) /\ \A k \in DOMAIN r.typed[t] : r.typed[t][k] \in Samples
  <2>1. CASE t # p.type
    BY <1>3, <2>1 DEF WellSet
  <2>2. CASE t = p.type
    <3> DEFINE a == s.typed[t]
               b == p.samples
               c == r.typed[t]
    <3>1. c = a \o b /\ Listed(a) /\ Listed(b) /\ \A k \in DOMAIN a : a[k] \in Samples
      BY <1>1, <1>3, <2>2 DEF WellSet
    <3> HIDE DEF a, b, c
    <3>2. /\ Listed(c) /\ Len(c) = Len(a) + Len(b)
          /\ \A k \in 1..Len(a) : c[k] = a[k]
          /\ \A k \in 1..Len(b) : c[Len(a) + k] = b[k]
      BY <3>1, BothListed
    <3>3. /\ Len(a) \in Nat /\ Len(b) \in Nat /\ DOMAIN a = 1..Len(a) /\ DOMAIN b = 1..Len(b)
          /\ DOMAIN c = 1..Len(a) + Len(b)
      BY <3>1, <3>2 DEF Listed
    <3>4. ASSUME NEW k \in DOMAIN c  PROVE c[k] \in Samples
      <4>1. CASE k <= Len(a)
        <5>1. k \in 1..Len(a)
          BY <3>3, <4>1
        <5> QED  BY <3>1, <3>2, <3>3, <5>1
      <4>2. CASE ~(k <= Len(a))
        <5> DEFINE j == k - Len(a)
        <5>1. j \in 1..Len(b) /\ k = Len(a) + j
          BY <3>3, <4>2
        <5> HIDE DEF j
        <5>2. c[k] = b[j] /\ b[j] \in Samples
          BY <1>1, <3>2, <3>3, <5>1 DEF b
        <5> QED  BY <5>2
      <4> QED  BY <4>1, <4>2
    <3> QED  BY <3>2, <3>4 DEF c
  <2> QED  BY <2>1, <2>2
<1>5. /\ Listed(r.order) /\ \A k, l \in DOMAIN r.order : r.order[k] = r.order[l] => k = l
      /\ \A k \in DOMAIN r.order : r.order[k] \in Type /\ r.typed[r.order[k]] # <<>>
  <2>0. /\ Listed(s.order) /\ \A k, l \in DOMAIN s.order : s.order[k] = s.order[l] => k = l
        /\ \A k \in DOMAIN s.order : s.order[k] \in Type /\ s.typed[s.order[k]] # <<>>
    BY DEF WellSet
  <2>1. Listed(s.typed[p.type])
    BY <1>1 DEF WellSet
  <2>2. s.typed[p.type] # <<>> \/ p.samples # <<>> => r.typed[p.type] # <<>>
    <3>1. ASSUME NEW c, Listed(c), c # <<>>  PROVE Len(c) \in Nat /\ Len(c) # 0
      <4>1. Len(c) = 0 => c = <<>>
        BY <3>1 DEF Listed
      <4> QED  BY <3>1, <4>1 DEF Listed
    <3>2. Len(r.typed[p.type]) = Len(s.typed[p.type]) + Len(p.samples)
      BY <1>1, <1>3, <2>1, BothListed
    <3>3. Len(s.typed[p.type]) \in Nat /\ Len(p.samples) \in Nat
      BY <1>1, <2>1 DEF Listed
    <3>4. Len(<<>>) = 0
      OBVIOUS
    <3> DEFINE a == s.typed[p.type]
               b == p.samples
    <3>5. (a # <<>> => Len(a) # 0) /\ (b # <<>> => Len(b) # 0)
      BY <1>1, <2>1, <3>1
    <3>6. ASSUME r.typed[p.type] = <<>>  PROVE a = <<>> /\ b = <<>>
      <4>1. Len(r.typed[p.type]) = 0
        BY <3>4, <3>6
      <4>2. Len(a) + Len(b) = 0 /\ Len(a) \in Nat /\ Len(b) \in Nat
        BY <3>2, <3>3, <4>1
      <4> HIDE DEF a, b
      <4>3. Len(a) = 0 /\ Len(b) = 0
        BY <4>2
      <4> QED  BY <3>5, <4>3
    <3> QED  BY <3>6
  <2>3. \A t \in Type : s.typed[t] # <<>> => r.typed[t] # <<>>
    BY <1>3, <2>2
  <2>4. CASE p.samples = <<>> \/ s.typed[p.type] # <<>>
    <3>1. r.order = s.order
      BY <1>2, <2>4 DEF Seen
    <3> QED  BY <2>0, <2>3, <3>1
  <2>5. CASE ~(p.samples = <<>> \/ s.typed[p.type] # <<>>)
    <3> DEFINE n == Len(s.order)
    <3>1. r.order = Append(s.order, p.type)
      BY <1>2, <2>5 DEF Seen
    <3>2. n \in Nat /\ DOMAIN s.order = 1..n
      BY <2>0 DEF Listed
    <3>3. /\ Listed(r.order) /\ Len(r.order) = n + 1 /\ r.order[n + 1] = p.type
          /\ \A k \in 1..n : r.order[k] = s.order[k]
      BY <2>0, <3>1, OneMore
    <3>4. DOMAIN r.order = 1..n + 1
      BY <3>3 DEF Listed
    <3> HIDE DEF n, r
    <3>5. \A k \in 1..n + 1 : k = n + 1 \/ k \in 1..n
      BY <3>2
    <3>6. \A k \in 1..n : r.order[k] # p.type
      BY <2>0, <2>5, <3>2, <3>3
    <3>7. \A k, l \in DOMAIN r.order : r.order[k] = r.order[l] => k = l
      BY <2>0, <3>2, <3>3, <3>4, <3>5, <3>6
    <3>8. \A k \in DOMAIN r.order : r.order[k] \in Type /\ r.typed[r.order[k]] # <<>>
      BY <1>1, <2>0, <2>2, <2>3, <2>5, <3>2, <3>3, <3>4, <3>5
    <3> QED  BY <3>3, <3>7, <3>8
  <2> QED  BY <2>4, <2>5
<1>6. r.dur \in [Type -> [valueSum : Nat, num : Nat, den : Nat \ {0}]]
  <2>1. Total(p.samples) \in Nat
    BY <1>1, TotalIsNat, CarriedWell
  <2>2. ASSUME NEW agg \in [valueSum : Nat, num : Nat, den : Nat \ {0}], NEW T \in Nat, NEW d \in Nat
        PROVE  AddDuration(agg, T, d) \in [valueSum : Nat, num : Nat, den : Nat \ {0}]
    <3>1. CASE d = 0
      BY <3>1 DEF AddDuration
    <3>2. CASE d # 0
      <4>1. agg.valueSum + T \in Nat /\ agg.num * d + T * agg.den \in Nat /\ agg.den * d \in Nat \ {0}
        <5>1. \A a, b \in Nat : a * b \in Nat /\ (a # 0 /\ b # 0 => a * b # 0)
          OBVIOUS
        <5> QED  BY <3>2, <5>1
      <4> QED  BY <3>2, <4>1 DEF AddDuration
    <3> QED  BY <3>1, <3>2
  <2>3. s.dur \in [Type -> [valueSum : Nat, num : Nat, den : Nat \ {0}]]
    BY DEF WellSet
  <2> HIDE DEF r
  <2>4. AddDuration(s.dur[p.type], Total(p.samples), p.secs) \in [valueSum : Nat, num : Nat, den : Nat \ {0}]
    BY <1>1, <2>1, <2>2, <2>3
  <2> QED  BY <1>1, <1>2, <2>3, <2>4
<1>7. r = [order |-> r.order, typed |-> r.typed, dur |-> r.dur]
  BY DEF Added
<1> HIDE DEF r
<1>8. WellSet(r)
  BY <1>3, <1>4, <1>5, <1>6, <1>7 DEF WellSet
<1> QED  BY <1>8 DEF r
-----------------------------------------------------------------------------
(* Durations: the exact rate of a type is that of its profiles.             *)

(* A division without remainder.                                            *)
LEMMA DivExact ==
  ASSUME NEW a \in Nat, NEW e \in Nat \ {0}
  PROVE  (a * e) \div e = a
<1> DEFINE m == a * e
           b == m \div e
<1>1. m \in Nat
  OBVIOUS
<1> HIDE DEF m
<1>2. b \in Nat /\ b * e <= m /\ m < b * e + e
  BY <1>1
<1> HIDE DEF b
<1>3. ~(b < a)
  <2> SUFFICES ASSUME b < a PROVE FALSE
    OBVIOUS
  <2>1. (a - b - 1) * e >= 0
    BY <1>2
  <2>2. (a - b - 1) * e = a * e - b * e - e
    BY <1>2
  <2> QED  BY <1>1, <1>2, <2>1, <2>2 DEF m
<1>4. ~(a < b)
  <2> SUFFICES ASSUME a < b PROVE FALSE
    OBVIOUS
  <2>1. (b - a - 1) * e >= 0
    BY <1>2
  <2>2. (b - a - 1) * e = b * e - a * e - e
    BY <1>2
  <2> QED  BY <1>1, <1>2, <2>1, <2>2 DEF m
<1> QED  BY <1>2, <1>3, <1>4 DEF b, m

(* The durations of the profiles c, of the first n the sum of their rates   *)
(* over M, ...                                                              *)
Secs(c) == [k \in DOMAIN c |-> IF c[k].secs = 0 THEN 1 ELSE c[k].secs]
RateOver(c, t, M) ==
  [k \in DOMAIN c |-> IF c[k].type = t /\ c[k].secs > 0
                      THEN Total(c[k].samples) * (M \div c[k].secs) ELSE 0]

(* ... and what they leave for a type: its values and its rate.             *)
AggregatedType(s, c, n, t) ==
  LET M == ProductOf(Secs(c), n)
  IN  /\ s.dur[t].num * M = SumOf(RateOver(c, t, M), n) * s.dur[t].den
      /\ (\A k \in 1..n : c[k].type = t => c[k].secs > 0) => Total(s.typed[t]) = s.dur[t].valueSum
      /\ (\A k \in 1..n : c[k].type = t => c[k].secs = 0) => s.dur[t].num = 0
      /\ s.dur[t].num = 0 => s.dur[t].valueSum = 0

Aggregated(s, c, n) == \A t \in Type : AggregatedType(s, c, n, t)

(* Every duration divides their product.                                    *)
LEMMA SecsDivide ==
  ASSUME NEW c, Listed(c), \A k \in DOMAIN c : c[k] \in Carriable
  PROVE  \A n \in 0..Len(c) :
           /\ ProductOf(Secs(c), n) \in Nat \ {0}
           /\ \A k \in 1..n : c[k].secs > 0 =>
                \E q \in Nat : ProductOf(Secs(c), n) = q * c[k].secs
<1> DEFINE P(n) == ProductOf(Secs(c), n)
           Good(n) == /\ P(n) \in Nat \ {0}
                      /\ \A k \in 1..n : c[k].secs > 0 => \E q \in Nat : P(n) = q * c[k].secs
           Bad == {n \in 0..Len(c) : ~Good(n)}
<1>0. Len(c) \in Nat /\ DOMAIN c = 1..Len(c)
  BY DEF Listed
<1>1. SUFFICES ASSUME Bad # {} PROVE FALSE
  OBVIOUS
<1>2. PICK n \in Bad : \A k \in Bad : n <= k
  <2>1. Bad \subseteq Nat /\ Bad # {}
    BY <1>0, <1>1
  <2> HIDE DEF Bad
  <2> QED  BY <2>1, Least
<1>3. n \in 0..Len(c) /\ ~Good(n)
  BY <1>2
<1>4. n # 0
  <2>1. Good(0)
    BY ProductNone
  <2> QED  BY <1>3, <2>1
<1> DEFINE m == n - 1
           d == Secs(c)[n]
<1>5. m \in Nat /\ n = m + 1 /\ n \in 1..Len(c) /\ m \in 0..Len(c) /\ ~(n <= m)
  BY <1>0, <1>3, <1>4
<1>6. Good(m)
  <2>1. m \notin Bad
    BY <1>2, <1>5
  <2> HIDE DEF Good
  <2> QED  BY <1>5, <2>1
<1> HIDE DEF m, Bad
<1>7. d \in Nat \ {0} /\ (c[n].secs > 0 => d = c[n].secs) /\ \A k \in 1..n : c[k].secs \in Nat
  <2>1. \A k \in DOMAIN c : c[k].secs \in Nat
    BY CarriedWell DEF Shaped
  <2> QED  BY <1>0, <1>5, <2>1 DEF Secs
<1>8. P(n) = P(m) * d
  BY <1>5, ProductMore
<1> HIDE DEF d, P
<1>9. P(n) \in Nat \ {0}
  <2>1. \A a, b \in Nat \ {0} : a * b \in Nat \ {0}
    OBVIOUS
  <2> QED  BY <1>6, <1>7, <1>8, <2>1
<1>10. ASSUME NEW k \in 1..n, c[k].secs > 0
       PROVE  \E q \in Nat : P(n) = q * c[k].secs
  <2>1. CASE k = n
    BY <1>6, <1>7, <1>8, <1>10, <2>1
  <2>2. CASE k # n
    <3> DEFINE e == c[k].secs
    <3>1. k \in 1..m /\ e \in Nat
      BY <1>5, <1>7, <2>2
    <3>2. PICK q \in Nat : P(m) = q * e
      BY <1>6, <1>10, <3>1
    <3> HIDE DEF e
    <3>3. P(n) = (q * d) * e /\ q * d \in Nat
      <4>1. \A x, y, z \in Nat : (x * y) * z = (x * z) * y /\ x * y \in Nat
        OBVIOUS
      <4> QED  BY <1>7, <1>8, <3>1, <3>2, <4>1
    <3> QED  BY <3>3 DEF e
  <2> QED  BY <2>1, <2>2
<1> QED  BY <1>3, <1>9, <1>10

(* A profile more.                                                          *)
LEMMA OneMoreAggregated ==
  ASSUME NEW c, Listed(c), \A k \in DOMAIN c : c[k] \in Carriable,
         NEW n \in Nat, n < Len(c), NEW s, WellSet(s), Aggregated(s, c, n)
  PROVE  Aggregated(Added(s, c[n + 1]), c, n + 1)
<1> DEFINE m == n + 1
           p == c[m]
           d == p.secs
           T == Total(p.samples)
           M == ProductOf(Secs(c), n)
           N == ProductOf(Secs(c), m)
           r == Added(s, p)
<1>1. Len(c) \in Nat /\ DOMAIN c = 1..Len(c) /\ m \in 1..Len(c) /\ m \in Nat
      /\ \A k \in 1..m : k \in DOMAIN c /\ (k = m \/ k \in 1..n)
  BY DEF Listed
<1>2. /\ p.type \in Type /\ d \in Nat /\ Listed(p.samples) /\ \A k \in DOMAIN p.samples : p.samples[k].val \in Nat
      /\ \A k \in DOMAIN c : c[k].secs \in Nat /\ Total(c[k].samples) \in Nat
  <2>1. \A k \in DOMAIN c : /\ Shaped(c[k]) /\ Listed(c[k].samples)
                            /\ \A j \in DOMAIN c[k].samples : c[k].samples[j].val \in Nat
    BY CarriedWell DEF Shaped
  <2>2. \A k \in DOMAIN c : Total(c[k].samples) \in Nat
    BY <2>1, TotalIsNat
  <2> QED  BY <1>1, <2>1, <2>2 DEF Shaped
<1>3. T \in Nat
  BY <1>2, TotalIsNat
<1>4. /\ M \in Nat \ {0} /\ N \in Nat \ {0}
      /\ \A k \in 1..n : c[k].secs > 0 => \E q \in Nat : M = q * c[k].secs
  <2>1. n \in 0..Len(c) /\ m \in 0..Len(c)
    BY <1>1
  <2> HIDE DEF m
  <2> QED  BY <2>1, SecsDivide
<1>5. N = M * (IF d = 0 THEN 1 ELSE d)
  <2>1. Secs(c)[m] = IF d = 0 THEN 1 ELSE d
    BY <1>1 DEF Secs
  <2> QED  BY <2>1, ProductMore
<1>6. /\ r.typed[p.type] = s.typed[p.type] \o p.samples
      /\ r.dur[p.type] = AddDuration(s.dur[p.type], T, d)
      /\ \A t \in Type : t # p.type => r.typed[t] = s.typed[t] /\ r.dur[t] = s.dur[t]
  <2>1. /\ DOMAIN s.typed = Type /\ DOMAIN s.dur = Type
    BY DEF WellSet
  <2> QED  BY <1>2, <2>1 DEF Added
<1>7. Total(r.typed[p.type]) = Total(s.typed[p.type]) + T
  <2>1. Listed(s.typed[p.type]) /\ \A k \in DOMAIN s.typed[p.type] : s.typed[p.type][k].val \in Nat
    BY <1>2, CarriedWell DEF WellSet
  <2> QED  BY <1>2, <1>6, <2>1, TotalOfBoth
<1> SUFFICES ASSUME NEW t \in Type  PROVE AggregatedType(r, c, m, t)
  BY DEF Aggregated
<1> DEFINE x == RateOver(c, t, M)
           y == RateOver(c, t, N)
           R == SumOf(x, n)
           Q == SumOf(y, m)
           a == s.dur[t]
           b == r.dur[t]
<1>8. /\ a.num * M = R * a.den
      /\ (\A k \in 1..n : c[k].type = t => c[k].secs > 0) => Total(s.typed[t]) = a.valueSum
      /\ (\A k \in 1..n : c[k].type = t => c[k].secs = 0) => a.num = 0
      /\ a.num = 0 => a.valueSum = 0
  BY DEF Aggregated, AggregatedType
<1>9. a.num \in Nat /\ a.den \in Nat \ {0} /\ a.valueSum \in Nat
  BY DEF WellSet
<1>10. Q = SumOf(y, n) + y[m]
  BY SumMore
<1>11. y[m] = IF p.type = t /\ d > 0 THEN T * (N \div d) ELSE 0
  BY <1>1 DEF RateOver
<1>12. \A k \in 1..n : /\ x[k] = IF c[k].type = t /\ c[k].secs > 0 THEN Total(c[k].samples) * (M \div c[k].secs) ELSE 0
                       /\ y[k] = IF c[k].type = t /\ c[k].secs > 0 THEN Total(c[k].samples) * (N \div c[k].secs) ELSE 0
  BY <1>1 DEF RateOver
<1>13. /\ b = IF t = p.type THEN AddDuration(a, T, d) ELSE a
       /\ Total(r.typed[t]) = IF t = p.type THEN Total(s.typed[t]) + T ELSE Total(s.typed[t])
  BY <1>6, <1>7
<1> HIDE DEF M, N, T, x, y, R, Q, a, b, r
<1>14. CASE d = 0
  <2>1. N = M
    BY <1>4, <1>5, <1>14
  <2>2. Q = R
    <3>1. \A k \in 1..n : x[k] = y[k]
      BY <1>12, <2>1
    <3>2. SumOf(x, n) = SumOf(y, n)
      BY <3>1, SumSame
    <3>3. \A k \in 1..n : y[k] \in Int
      <4>1. \A k \in 1..n : c[k].secs > 0 => N \div c[k].secs \in Int
        BY <1>1, <1>2, <1>4
      <4>2. \A i, j \in Int : i * j \in Int
        OBVIOUS
      <4> QED  BY <1>1, <1>2, <1>12, <4>1, <4>2
    <3>4. SumOf(y, n) \in Int
      BY <3>3, SumIsInt
    <3> QED  BY <1>10, <1>11, <1>14, <3>2, <3>4 DEF R
  <2>3. b = a
    BY <1>13, <1>14 DEF AddDuration
  <2>4. (\A k \in 1..m : c[k].type = t => c[k].secs > 0) => Total(r.typed[t]) = b.valueSum
    <3> SUFFICES ASSUME \A k \in 1..m : c[k].type = t => c[k].secs > 0
                 PROVE  Total(r.typed[t]) = b.valueSum
      OBVIOUS
    <3>1. t # p.type
      BY <1>1, <1>14
    <3>2. \A k \in 1..n : c[k].type = t => c[k].secs > 0
      BY <1>1
    <3> QED  BY <1>8, <1>13, <2>3, <3>1, <3>2
  <2>5. (\A k \in 1..m : c[k].type = t => c[k].secs = 0) => b.num = 0
    BY <1>1, <1>8, <2>3
  <2> QED  BY <1>8, <2>1, <2>2, <2>3, <2>4, <2>5 DEF AggregatedType, N, Q, y, b
<1>15. CASE d # 0
  <2>1. N = M * d /\ d \in Nat \ {0}
    BY <1>2, <1>5, <1>15
  <2>2. \A k \in 1..n : x[k] \in Int /\ y[k] = d * x[k]
    <3> SUFFICES ASSUME NEW k \in 1..n  PROVE x[k] \in Int /\ y[k] = d * x[k]
      OBVIOUS
    <3> DEFINE e == c[k].secs
               U == Total(c[k].samples)
    <3>1. CASE ~(c[k].type = t /\ e > 0)
      BY <1>12, <2>1, <3>1
    <3>2. CASE c[k].type = t /\ e > 0
      <4>1. PICK q \in Nat : M = q * e
        BY <1>4, <3>2
      <4>2. e \in Nat \ {0} /\ U \in Nat /\ x[k] = U * (M \div e) /\ y[k] = U * (N \div e)
        BY <1>1, <1>2, <1>12, <3>2
      <4> HIDE DEF e, U
      <4>3. q * d \in Nat /\ N = (q * d) * e
        <5>1. \A i, j, l \in Nat : i * j \in Nat /\ (i * l) * j = (i * j) * l
          OBVIOUS
        <5> QED  BY <2>1, <4>1, <4>2, <5>1
      <4>4. M \div e = q /\ N \div e = q * d
        BY <4>1, <4>2, <4>3, DivExact
      <4>5. U * q \in Int /\ U * (q * d) = d * (U * q)
        <5>1. \A i, j, l \in Nat : i * j \in Int /\ i * (j * l) = l * (i * j)
          OBVIOUS
        <5> QED  BY <2>1, <4>2, <5>1
      <4> QED  BY <4>2, <4>4, <4>5
    <3> QED  BY <3>1, <3>2
  <2>3. SumOf(y, n) = d * R /\ R \in Int
    <3>1. SumOf(x, n) \in Int
      BY <2>2, SumIsInt
    <3>2. SumOf(y, n) = d * SumOf(x, n)
      <4>1. Scaled(x, y, n, d)
        BY <2>1, <2>2 DEF Scaled
      <4> QED  BY <4>1, SumScaled
    <3> QED  BY <3>1, <3>2 DEF R
  <2>4. N \div d = M
    BY <1>4, <2>1, DivExact
  <2>5. CASE t # p.type
    <3>1. b = a /\ Q = d * R /\ Total(r.typed[t]) = Total(s.typed[t])
      BY <1>10, <1>11, <1>13, <2>1, <2>3, <2>5
    <3>2. b.num * N = Q * b.den
      <4> DEFINE u == a.num
                 v == a.den
      <4>1. u \in Int /\ v \in Int /\ d \in Int /\ M \in Int /\ R \in Int /\ u * M = R * v
        BY <1>4, <1>8, <1>9, <2>1, <2>3
      <4> HIDE DEF u, v
      <4>2. u * (M * d) = (u * M) * d /\ (d * R) * v = (R * v) * d
        BY <4>1
      <4> QED  BY <2>1, <3>1, <4>1, <4>2 DEF u, v
    <3>3. \A k \in 1..n : k \in 1..m
      BY <1>1
    <3>4. (\A k \in 1..m : c[k].type = t => c[k].secs = 0) => b.num = 0
      BY <1>8, <3>1, <3>3
    <3>5. (\A k \in 1..m : c[k].type = t => c[k].secs > 0) => Total(r.typed[t]) = b.valueSum
      BY <1>8, <3>1, <3>3
    <3> QED  BY <1>8, <3>1, <3>2, <3>4, <3>5 DEF AggregatedType, N, Q, y, b
  <2>6. CASE t = p.type
    <3>1. b.valueSum = a.valueSum + T /\ b.num = a.num * d + T * a.den /\ b.den = a.den * d
      BY <1>13, <2>1, <2>6 DEF AddDuration
    <3>2. Q = d * R + T * M
      BY <1>10, <1>11, <2>1, <2>3, <2>4, <2>6
    <3>3. b.num * N = Q * b.den
      <4> DEFINE u == a.num
                 v == a.den
      <4>1. u \in Int /\ v \in Int /\ d \in Int /\ T \in Int /\ M \in Int /\ R \in Int /\ u * M = R * v
        BY <1>3, <1>4, <1>8, <1>9, <2>1, <2>3
      <4> HIDE DEF u, v
      <4>2. (u * d + T * v) * (M * d) = (u * M) * (d * d) + (T * v) * (M * d)
        BY <4>1
      <4>3. (d * R + T * M) * (v * d) = (R * v) * (d * d) + (T * v) * (M * d)
        BY <4>1
      <4> QED  BY <2>1, <3>1, <3>2, <4>1, <4>2, <4>3 DEF u, v
    <3>4. (\A k \in 1..m : c[k].type = t => c[k].secs > 0) => Total(r.typed[t]) = b.valueSum
      BY <1>1, <1>8, <1>13, <2>6, <3>1
    <3>5. ~ \A k \in 1..m : c[k].type = t => c[k].secs = 0
      BY <1>1, <1>15, <2>6
    <3>6. b.num = 0 => b.valueSum = 0
      <4>1. \A i, j \in Nat : i * j \in Nat /\ (i * j = 0 => i = 0 \/ j = 0)
        OBVIOUS
      <4>2. a.num * d \in Nat /\ T * a.den \in Nat
        BY <1>3, <1>9, <2>1, <4>1
      <4>3. b.num = 0 => a.num = 0 /\ T = 0
        <5>1. b.num = 0 => a.num * d = 0 /\ T * a.den = 0
          BY <3>1, <4>2
        <5>2. a.num * d = 0 => a.num = 0
          BY <1>9, <2>1, <4>1
        <5>3. T * a.den = 0 => T = 0
          BY <1>3, <1>9, <4>1
        <5> QED  BY <5>1, <5>2, <5>3
      <4> QED  BY <1>3, <1>8, <3>1, <4>3
    <3> QED  BY <3>3, <3>4, <3>5, <3>6 DEF AggregatedType, N, Q, y, b
  <2> QED  BY <2>5, <2>6
<1> QED  BY <1>14, <1>15

(* What was aggregated does not depend on profiles still to come.           *)
LEMMA AggregatedSame ==
  ASSUME NEW s, NEW c, NEW e, NEW n \in Nat, Aggregated(s, c, n), Listed(c), Listed(e),
         n <= Len(c), n <= Len(e), \A k \in 1..n : c[k] = e[k]
  PROVE  Aggregated(s, e, n)
<1>1. /\ DOMAIN c = 1..Len(c) /\ DOMAIN e = 1..Len(e) /\ Len(c) \in Nat /\ Len(e) \in Nat
      /\ \A k \in 1..n : k \in DOMAIN c /\ k \in DOMAIN e
  BY DEF Listed
<1>2. ProductOf(Secs(c), n) = ProductOf(Secs(e), n)
  <2> DEFINE x == Secs(c)
             y == Secs(e)
  <2>1. \A k \in 1..n : x[k] = y[k]
    BY <1>1 DEF Secs
  <2> HIDE DEF x, y
  <2> QED  BY <2>1, ProductSame DEF x, y
<1>3. ASSUME NEW t, NEW M  PROVE SumOf(RateOver(c, t, M), n) = SumOf(RateOver(e, t, M), n)
  <2> DEFINE x == RateOver(c, t, M)
             y == RateOver(e, t, M)
  <2>1. \A k \in 1..n : x[k] = y[k]
    BY <1>1 DEF RateOver
  <2> HIDE DEF x, y
  <2> QED  BY <2>1, SumSame DEF x, y
<1> SUFFICES ASSUME NEW t \in Type  PROVE AggregatedType(s, e, n, t)
  BY DEF Aggregated
<1>4. AggregatedType(s, c, n, t)
  BY DEF Aggregated
<1> QED  BY <1>2, <1>3, <1>4 DEF AggregatedType

(* All profiles of a pprof file.                                            *)
LEMMA AllAdded ==
  ASSUME NEW f, Listed(f), \A k \in DOMAIN f : f[k] \in Carriable,
         NEW s, WellSet(s), Aggregated(s, f, 0)
  PROVE  WellSet(AddedAll(s, f)) /\ Aggregated(AddedAll(s, f), f, Len(f))
<1>1. Len(f) \in Nat /\ DOMAIN f = 1..Len(f)
  BY DEF Listed
<1>2. PICK a : IsFold(a, "added", s, f, Len(f)) /\ AddedAll(s, f) = a[Len(f)]
  BY <1>1, AddedAllIs
<1>3. \A k \in 0..Len(f) : a[k] = IF k = 0 THEN s ELSE Added(a[k - 1], f[k])
  <2>1. a = [k \in 0..Len(f) |-> IF k = 0 THEN s ELSE Step("added", a[k - 1], f[k])]
    BY <1>2 DEF IsFold
  <2>2. \A k \in 0..Len(f) : a[k] = IF k = 0 THEN s ELSE Step("added", a[k - 1], f[k])
    BY <2>1, Zenon
  <2> QED  BY <2>2 DEF Step
<1> DEFINE Good(n) == WellSet(a[n]) /\ Aggregated(a[n], f, n)
           Bad == {n \in 0..Len(f) : ~Good(n)}
<1>4. Bad = {}
  <2>1. SUFFICES ASSUME Bad # {} PROVE FALSE
    OBVIOUS
  <2>2. PICK n \in Bad : \A k \in Bad : n <= k
    <3>1. Bad \subseteq Nat /\ Bad # {}
      BY <1>1, <2>1
    <3> HIDE DEF Bad
    <3> QED  BY <3>1, Least
  <2>3. n \in 0..Len(f) /\ ~Good(n)
    BY <2>2
  <2>4. n # 0
    <3>1. a[0] = s
      BY <1>1, <1>3
    <3> QED  BY <2>3, <3>1
  <2> DEFINE m == n - 1
  <2>5. m \in Nat /\ n = m + 1 /\ n \in 1..Len(f) /\ m < Len(f) /\ m \in 0..Len(f) /\ ~(n <= m)
    BY <1>1, <2>3, <2>4
  <2>6. Good(m)
    <3>1. m \notin Bad
      BY <2>2, <2>5
    <3> HIDE DEF Good
    <3> QED  BY <2>5, <3>1
  <2>7. a[n] = Added(a[m], f[n]) /\ f[n] \in Carriable
    BY <1>1, <1>3, <2>3, <2>4, <2>5
  <2> HIDE DEF m, Bad
  <2>8. WellSet(a[n])
    BY <2>6, <2>7, AddedKeepsWell
  <2>9. Aggregated(a[n], f, n)
    BY <2>5, <2>6, <2>7, OneMoreAggregated
  <2> QED  BY <2>3, <2>8, <2>9
<1>5. Good(Len(f))
  <2>1. Len(f) \in 0..Len(f)
    BY <1>1
  <2> HIDE DEF Good
  <2> QED  BY <1>4, <2>1
<1> QED  BY <1>2, <1>5

(* The final sort changes neither types, totals nor durations               *)
(* (SortedSamples).                                                         *)
LEMMA SortedWell ==
  ASSUME NEW s, WellSet(s)
  PROVE  /\ WellSet([s EXCEPT !.typed = SortedSamples(s.typed)])
         /\ \A c, n : Aggregated(s, c, n) => Aggregated([s EXCEPT !.typed = SortedSamples(s.typed)], c, n)
<1> DEFINE r == [s EXCEPT !.typed = SortedSamples(s.typed)]
<1>1. r = [order |-> s.order, typed |-> SortedSamples(s.typed), dur |-> s.dur]
  <2>1. s = [order |-> s.order, typed |-> s.typed, dur |-> s.dur]
    BY DEF WellSet
  <2> QED  BY <2>1
<1>2. /\ r.order = s.order /\ r.dur = s.dur /\ DOMAIN r.typed = Type
      /\ \A t \in Type : r.typed[t] = Sorted(s.typed[t])
      /\ r = [order |-> r.order, typed |-> r.typed, dur |-> r.dur]
  BY <1>1 DEF SortedSamples
<1>3. ASSUME NEW t \in Type
      PROVE  /\ Listed(r.typed[t]) /\ \A k \in DOMAIN r.typed[t] : r.typed[t][k] \in Samples
             /\ s.typed[t] # <<>> => r.typed[t] # <<>>
             /\ Total(r.typed[t]) = Total(s.typed[t])
  <2> DEFINE a == s.typed[t]
  <2>1. Listed(a) /\ \A k \in DOMAIN a : a[k] \in Samples /\ a[k].val \in Nat
    BY CarriedWell DEF WellSet
  <2>2. r.typed[t] = Sorted(a)
    BY <1>2
  <2> HIDE DEF a, r
  <2>3. /\ Listed(Sorted(a)) /\ Len(Sorted(a)) = Len(a)
        /\ \A k \in DOMAIN Sorted(a) : \E j \in DOMAIN a : Sorted(a)[k] = a[j]
        /\ Total(Sorted(a)) = Total(a)
    BY <2>1, SortedKeeps
  <2>4. a # <<>> => Sorted(a) # <<>>
    <3>1. Len(a) = 0 => a = <<>>
      BY <2>1 DEF Listed
    <3>2. Len(<<>>) = 0
      OBVIOUS
    <3> QED  BY <2>3, <3>1, <3>2
  <2> QED  BY <2>1, <2>2, <2>3, <2>4 DEF a
<1> HIDE DEF r
<1>4. WellSet(r)
  BY <1>2, <1>3 DEF WellSet
<1>5. ASSUME NEW c, NEW n, Aggregated(s, c, n)  PROVE Aggregated(r, c, n)
  BY <1>2, <1>3, <1>5 DEF Aggregated, AggregatedType
<1> QED  BY <1>4, <1>5 DEF r

(* What loading has put together at any time.                               *)
LoadInv ==
  /\ Listed(carried) /\ \A k \in DOMAIN carried : carried[k] \in Carriable
  /\ WellSet(ps) /\ Aggregated(ps, carried, Len(carried))

(* Nothing loaded is nothing aggregated.                                    *)
LEMMA LoadStarts == LoadInit => LoadInv
<1> SUFFICES ASSUME LoadInit PROVE LoadInv
  OBVIOUS
<1>1. /\ order = <<>> /\ carried = <<>> /\ typed = [t \in Type |-> <<>>]
      /\ dur = [t \in Type |-> [valueSum |-> 0, num |-> 0, den |-> 1]]
  BY DEF LoadInit, EmptySet
<1>2. Listed(<<>>) /\ Len(<<>>) = 0 /\ DOMAIN <<>> = {}
  BY DEF Listed
<1>3. WellSet(ps)
  BY <1>1, <1>2 DEF WellSet, ps
<1>4. ASSUME NEW t \in Type  PROVE AggregatedType(ps, carried, 0, t)
  <2>1. Total(<<>>) = 0
    BY <1>2, SumNone DEF Total
  <2>2. ps.dur[t] = [valueSum |-> 0, num |-> 0, den |-> 1] /\ ps.typed[t] = <<>>
    BY <1>1 DEF ps
  <2>3. ProductOf(Secs(carried), 0) = 1 /\ \A M : SumOf(RateOver(carried, t, M), 0) = 0
    BY ProductNone, SumNone
  <2> QED  BY <2>1, <2>2, <2>3 DEF AggregatedType
<1> QED  BY <1>1, <1>2, <1>3, <1>4 DEF LoadInv, Aggregated

(* Every step of loading keeps the invariant (FromOTLP, FromPprof).         *)
LEMMA LoadStep == LoadInv /\ [Load]_<<set, phase>> => LoadInv'
<1> SUFFICES ASSUME LoadInv, [Load]_<<set, phase>> PROVE LoadInv'
  OBVIOUS
<1>0. /\ Listed(carried) /\ Len(carried) \in Nat /\ DOMAIN carried = 1..Len(carried)
      /\ \A k \in DOMAIN carried : carried[k] \in Carriable
      /\ WellSet(ps) /\ Aggregated(ps, carried, Len(carried))
  BY DEF LoadInv, Listed
<1>1. CASE Finalize
  <2> DEFINE r == [ps EXCEPT !.typed = SortedSamples(ps.typed)]
  <2>1. ps' = r /\ carried' = carried
    BY <1>1 DEF Finalize, ps
  <2>2. WellSet(r) /\ Aggregated(r, carried, Len(carried))
    BY <1>0, SortedWell
  <2> HIDE DEF r
  <2> QED  BY <1>0, <2>1, <2>2 DEF LoadInv
<1>2. ASSUME NEW p \in Profiles, FromOTLP(p)  PROVE LoadInv'
  <2> DEFINE r == Added(ps, p)
             n == Len(carried)
  <2>1. Becomes(r) /\ carried' = Append(carried, p)
    BY <1>2 DEF FromOTLP
  <2>2. p \in Carriable
    BY DEF Carriable
  <2>3. r = [order |-> r.order, typed |-> r.typed, dur |-> r.dur]
    BY DEF Added
  <2>4. ps' = r
    <3> HIDE DEF r
    <3> QED  BY <2>1, <2>3 DEF Becomes, ps
  <2>5. /\ Listed(carried') /\ Len(carried') = n + 1 /\ carried'[n + 1] = p
        /\ \A k \in 1..n : carried'[k] = carried[k]
    BY <1>0, <2>1, OneMore
  <2>6. DOMAIN carried' = 1..n + 1 /\ \A k \in 1..n + 1 : k = n + 1 \/ k \in 1..n
    BY <1>0, <2>5 DEF Listed
  <2>7. \A k \in DOMAIN carried' : carried'[k] \in Carriable
    BY <1>0, <2>2, <2>5, <2>6
  <2> DEFINE c == carried'
  <2>8. /\ Listed(c) /\ Len(c) = n + 1 /\ c[n + 1] = p /\ \A k \in DOMAIN c : c[k] \in Carriable
        /\ \A k \in 1..n : carried[k] = c[k]
    BY <2>5, <2>7
  <2>9. n \in Nat /\ n < n + 1 /\ n <= n /\ n <= n + 1
    BY <1>0
  <2> HIDE DEF c, n
  <2>10. Aggregated(ps, carried, n)
    BY <1>0 DEF n
  <2>11. Aggregated(ps, c, n)
    BY <1>0, <2>8, <2>9, <2>10, AggregatedSame DEF n
  <2>12. Aggregated(r, c, n + 1)
    BY <1>0, <2>8, <2>9, <2>11, OneMoreAggregated
  <2>13. WellSet(r)
    BY <1>0, <2>2, AddedKeepsWell
  <2> HIDE DEF r
  <2> QED  BY <2>4, <2>8, <2>12, <2>13 DEF LoadInv, c
<1>3. ASSUME NEW f \in PprofFiles, FromPprof(f)  PROVE LoadInv'
  <2> DEFINE s == AddedAll(ps, f)
             r == [s EXCEPT !.typed = SortedSamples(s.typed)]
  <2>1. Becomes(r) /\ carried' = f /\ carried = <<>>
    BY <1>3 DEF FromPprof
  <2>2. Listed(f) /\ \A k \in DOMAIN f : f[k] \in Carriable
    BY ProfileSetAssumption DEF Carriable
  <2>3. Aggregated(ps, f, 0)
    <3>1. Len(carried) = 0 /\ Len(f) \in Nat
      BY <2>1, <2>2 DEF Listed
    <3>2. \A k \in 1..0 : carried[k] = f[k]
      OBVIOUS
    <3> QED  BY <1>0, <2>2, <3>1, <3>2, AggregatedSame
  <2>4. WellSet(s) /\ Aggregated(s, f, Len(f))
    BY <1>0, <2>2, <2>3, AllAdded
  <2> HIDE DEF s
  <2>5. WellSet(r) /\ Aggregated(r, f, Len(f))
    BY <2>4, SortedWell
  <2>6. r = [order |-> r.order, typed |-> r.typed, dur |-> r.dur]
    BY <2>5 DEF WellSet
  <2> HIDE DEF r
  <2>7. ps' = r
    BY <2>1, <2>6 DEF Becomes, ps
  <2> QED  BY <2>1, <2>2, <2>5, <2>7 DEF LoadInv
<1>4. CASE UNCHANGED <<set, phase>>
  BY <1>4 DEF LoadInv, set, ps
<1> QED  BY <1>1, <1>2, <1>3, <1>4 DEF Load

(* What loading keeps gives the rate of every type.                         *)
LEMMA LoadedAggregates == LoadInv => AggregateRate
<1> SUFFICES ASSUME LoadInv, NEW t \in Type
             PROVE  LET rates == SumOf([k \in DOMAIN carried |->
                          IF k \in Timed(t) THEN Total(carried[k].samples) * (Common \div carried[k].secs)
                          ELSE 0], Len(carried))
                    IN  /\ Untimed(t) = {} =>
                             Total(typed[t]) * Duration(t).den * Common = rates * Duration(t).num
                        /\ Timed(t) = {} => Duration(t).num = 0
  BY DEF AggregateRate
<1> DEFINE M == ProductOf(Secs(carried), Len(carried))
           x == RateOver(carried, t, M)
           R == SumOf(x, Len(carried))
           a == dur[t]
<1>1. /\ Len(carried) \in Nat /\ DOMAIN carried = 1..Len(carried)
      /\ \A k \in DOMAIN carried : carried[k].secs \in Nat
  BY CarriedWell DEF LoadInv, Listed, Shaped
<1>2. /\ a.num * M = R * a.den
      /\ (\A k \in 1..Len(carried) : carried[k].type = t => carried[k].secs > 0) => Total(typed[t]) = a.valueSum
      /\ (\A k \in 1..Len(carried) : carried[k].type = t => carried[k].secs = 0) => a.num = 0
      /\ a.num = 0 => a.valueSum = 0
  BY DEF LoadInv, Aggregated, AggregatedType, ps
<1>3. a.num \in Nat /\ a.den \in Nat \ {0} /\ a.valueSum \in Nat
  BY DEF LoadInv, WellSet, ps
<1>4. M = Common
  BY DEF Secs, Common
<1>5. x = [k \in DOMAIN carried |-> IF k \in Timed(t)
                                   THEN Total(carried[k].samples) * (Common \div carried[k].secs) ELSE 0]
  BY <1>4 DEF RateOver, Timed
<1>6. Timed(t) = {} => \A k \in 1..Len(carried) : carried[k].type = t => carried[k].secs = 0
  BY <1>1 DEF Timed
<1>7. Untimed(t) = {} => \A k \in 1..Len(carried) : carried[k].type = t => carried[k].secs > 0
  BY <1>1 DEF Untimed
<1>8. M \in Nat /\ R \in Int
  <2>1. M \in Nat \ {0} /\ \A k \in 1..Len(carried) : carried[k].secs > 0 => \E q \in Nat : M = q * carried[k].secs
    <3>1. Listed(carried) /\ Len(carried) \in 0..Len(carried) /\ \A k \in DOMAIN carried : carried[k] \in Carriable
      BY <1>1 DEF LoadInv
    <3> QED  BY <3>1, SecsDivide
  <2>2. \A k \in 1..Len(carried) : Total(carried[k].samples) \in Nat
    BY <1>1, CarriedWell, TotalIsNat DEF LoadInv, Shaped
  <2>3. ASSUME NEW k \in 1..Len(carried)  PROVE x[k] \in Int
    <3> DEFINE e == carried[k].secs
    <3>1. x[k] = IF carried[k].type = t /\ e > 0 THEN Total(carried[k].samples) * (M \div e) ELSE 0
      BY <1>1 DEF RateOver
    <3>2. e > 0 => M \div e \in Int
      BY <1>1, <2>1
    <3>3. \A i, j \in Int : i * j \in Int
      OBVIOUS
    <3> HIDE DEF e, M, x
    <3> QED  BY <2>2, <3>1, <3>2, <3>3
  <2> HIDE DEF M, x
  <2> QED  BY <1>1, <2>1, <2>3, SumIsInt
<1> HIDE DEF M, x, a
<1>9. Untimed(t) = {} => Total(typed[t]) * Duration(t).den * Common = R * Duration(t).num
  <2> SUFFICES ASSUME Untimed(t) = {}
               PROVE  Total(typed[t]) * Duration(t).den * M = R * Duration(t).num
    BY <1>4
  <2>1. Total(typed[t]) = a.valueSum
    BY <1>2, <1>7
  <2>2. CASE a.num = 0
    <3>1. Duration(t) = [num |-> 0, den |-> 1] /\ a.valueSum = 0
      BY <1>2, <2>2 DEF Duration, a
    <3> HIDE DEF R
    <3> QED  BY <1>8, <2>1, <3>1
  <2>3. CASE a.num # 0
    <3>1. Duration(t).num = a.valueSum * a.den /\ Duration(t).den = a.num
      BY <2>3 DEF Duration, a
    <3> DEFINE u == a.num
               v == a.den
               w == a.valueSum
    <3>2. u \in Int /\ v \in Int /\ w \in Int /\ M \in Int /\ R \in Int /\ u * M = R * v
      BY <1>2, <1>3, <1>8
    <3> HIDE DEF u, v, w, R
    <3>3. w * u * M = w * (u * M) /\ R * (w * v) = w * (R * v)
      BY <3>2
    <3> QED  BY <2>1, <3>1, <3>2, <3>3 DEF u, v, w
  <2> QED  BY <2>2, <2>3
<1>10. Timed(t) = {} => Duration(t).num = 0
  BY <1>2, <1>6 DEF Duration, a
<1> QED  BY <1>5, <1>9, <1>10

(* Whatever profiles a file carries, with whatever durations and in         *)
(* whatever order, the duration of a type is the one over which its samples *)
(* have the sum of the rates the profiles measured; that of snapshots is 0  *)
(* (addProfileDuration, Duration).                                          *)
THEOREM DurationsAggregate ==
  Spec => []AggregateRate
<1>1. InitCapture => LoadInv
  BY LoadStarts DEF InitCapture
<1>2. LoadInv /\ [Next]_cvars => LoadInv'
  BY LoadStep DEF Next, Group, CloseType, Write, cvars, LoadInv, ps, set
<1> QED  BY <1>1, <1>2, LoadedAggregates, PTL DEF Spec
-----------------------------------------------------------------------------
(* Rates and percentages.                                                   *)

Durations == [num : Nat \ {0}, den : Nat \ {0}]

(* A rate is what is left of the exact one after truncation.                *)
LEMMA RateTruncates ==
  ASSUME NEW v \in Nat, NEW D \in Durations
  PROVE  /\ Rate(v, D) \in Nat
         /\ Rate(v, D) * D.num <= v * D.den
         /\ v * D.den < Rate(v, D) * D.num + D.num
<1> DEFINE a == v * D.den
           d == D.num
<1>1. a \in Nat /\ d \in Nat \ {0}
  BY DEF Durations
<1>2. Rate(v, D) = a \div d
  BY <1>1 DEF Rate
<1> HIDE DEF a, d
<1>3. a \div d \in Nat /\ (a \div d) * d <= a /\ a < (a \div d) * d + d
  BY <1>1
<1> QED BY <1>2, <1>3 DEF a, d

(* A captured rate of 100 per second or more, asserted of the profile it    *)
(* was captured from with the suggested margin of one percent or a larger   *)
(* one, succeeds: truncation takes less than that (captureProfData,         *)
(* relDiff).                                                                *)
THEOREM RateRoundTrip ==
  ASSUME NEW m \in Nat, NEW D \in Durations, NEW margin \in Nat \ {0}, Rate(m, D) >= 100
  PROVE  ValueOk(m, Rate(m, D), D, margin)
<1> DEFINE v == Rate(m, D)
           w == v * D.num
           a == m * D.den
<1>1. v \in Nat /\ D.num \in Nat \ {0} /\ D.den \in Nat \ {0} /\ w \in Nat /\ a \in Nat
  BY RateTruncates DEF Durations
<1>2. w <= a /\ a < w + D.num
  BY RateTruncates
<1>3. 100 * D.num <= w
  <2> DEFINE n == D.num
  <2>1. n \in Nat /\ v \in Nat /\ v >= 100 /\ w = v * n
    BY <1>1
  <2> HIDE DEF v, n, w
  <2>2. (v - 100) * n >= 0
    BY <2>1
  <2> QED BY <2>1, <2>2 DEF n
<1>4. AbsDiff(a, w) = a - w
  BY <1>1, <1>2 DEF AbsDiff
<1>5. margin * v * D.num = margin * w
  <2>1. \A i, j, k \in Nat : i * j * k = i * (j * k)
    OBVIOUS
  <2> HIDE DEF v
  <2> QED  BY <1>1, <2>1
<1> HIDE DEF w, a
<1>6. 100 * (a - w) <= margin * w
  <2>1. 100 * (a - w) <= w
    BY <1>1, <1>2, <1>3
  <2>2. (margin - 1) * w >= 0
    BY <1>1
  <2> QED  BY <1>1, <2>1, <2>2
<1> HIDE DEF v
<1> QED BY <1>1, <1>4, <1>5, <1>6 DEF ValueOk, v, w, a

(* A percentage of a group within a total is one of 0 to 100, and it is off *)
(* by less than one (assertStackWithFailureHandling, captureProfData).      *)
THEOREM PercentInRange ==
  ASSUME NEW v \in Nat, NEW total \in Nat, v <= total
  PROVE  /\ PercentOf(v, total) \in 0..100
         /\ total > 0 => /\ PercentOf(v, total) * total <= v * 100
                         /\ v * 100 < (PercentOf(v, total) + 1) * total
<1>1. CASE total = 0
  BY <1>1 DEF PercentOf
<1>2. CASE total > 0
  <2> DEFINE a == v * 100
             q == a \div total
  <2>1. a \in Nat /\ a <= 100 * total
    OBVIOUS
  <2> HIDE DEF a
  <2>2. q \in Nat /\ q * total <= a /\ a < q * total + total
    BY <1>2, <2>1
  <2> HIDE DEF q
  <2>3. q <= 100
    <3>1. SUFFICES ASSUME q >= 101 PROVE FALSE
      BY <2>2
    <3>2. (q - 101) * total >= 0
      BY <1>2, <2>2, <3>1
    <3> QED BY <1>2, <2>1, <2>2, <3>2
  <2>4. PercentOf(v, total) = q
    BY <1>2 DEF PercentOf, q, a
  <2> QED BY <1>2, <2>2, <2>3, <2>4 DEF a
<1> QED BY <1>1, <1>2
-----------------------------------------------------------------------------
(* Labels and groups.                                                       *)

(* Labels of a map: finitely many, each with a key of its own.              *)
Keyed(L) ==
  IsFiniteSet(L) /\ \A x, y \in L : x.key \in Int /\ (x.key = y.key => x = y)
Ascending(t) == \A j, k \in DOMAIN t : j < k => t[j].key < t[k].key

(* A list of all elements of a finite set, each once.                       *)
LEMMA ListsAll ==
  ASSUME NEW L, IsFiniteSet(L), NEW t \in SetToSeqs(L)
  PROVE  /\ Cardinality(L) \in Nat /\ DOMAIN t = 1..Cardinality(L) /\ ToSet(t) = L
         /\ \A j, k \in DOMAIN t : t[j] = t[k] => j = k
<1> DEFINE n == Cardinality(L)
<1>1. n \in Nat
  BY FS_CardinalityType
<1>2. t \in [1..n -> L] /\ \A j, k \in 1..n : j # k => t[j] # t[k]
  BY DEF SetToSeqs
<1>3. t \in Injection(1..n, L)
  BY <1>2 DEF Injection, IsInjective
<1>4. Cardinality(1..n) = n
  BY <1>1, FS_Interval
<1>5. t \in Surjection(1..n, L)
  BY <1>3, <1>4, FS_Injection
<1>6. \A x \in L : \E k \in 1..n : t[k] = x
  BY <1>5 DEF Surjection
<1> QED  BY <1>1, <1>2, <1>6 DEF ToSet

(* Every list of labels can be put in the order of their keys: a label goes *)
(* to the place that is the number of labels up to it.                      *)
LEMMA Sortable ==
  ASSUME NEW L, Keyed(L), NEW a \in SetToSeqs(L)
  PROVE  \E f \in SetToSeqs(DOMAIN a) :
           \A j, k \in DOMAIN a : j < k => a[f[j]].key <= a[f[k]].key
<1> DEFINE n == Cardinality(L)
           D == 1..n
           Upto(i) == {j \in D : a[j].key <= a[i].key}
           r == [i \in D |-> Cardinality(Upto(i))]
<1>1. n \in Nat /\ DOMAIN a = D /\ \A j, k \in D : a[j] = a[k] => j = k
  BY ListsAll DEF Keyed
<1>2. \A i \in D : a[i] \in L
  BY DEF SetToSeqs
<1>3. IsFiniteSet(D) /\ Cardinality(D) = n
  BY <1>1, FS_Interval
<1>4. \A i, j \in D : a[i].key \in Int /\ (a[i].key = a[j].key => i = j)
  BY <1>1, <1>2 DEF Keyed
<1> HIDE DEF D
<1>5. \A i \in D : IsFiniteSet(Upto(i)) /\ Cardinality(Upto(i)) \in 1..n
  <2> TAKE i \in D
  <2>1. Upto(i) \subseteq D /\ i \in Upto(i)
    BY <1>4
  <2>2. IsFiniteSet(Upto(i)) /\ Cardinality(Upto(i)) <= n
    BY <1>3, <2>1, FS_Subset
  <2>3. Cardinality(Upto(i)) # 0 /\ Cardinality(Upto(i)) \in Nat
    BY <2>1, <2>2, FS_EmptySet, FS_CardinalityType
  <2> QED  BY <1>1, <2>2, <2>3
<1>6. \A i, j \in D : a[i].key <= a[j].key => Cardinality(Upto(i)) <= Cardinality(Upto(j))
  <2> TAKE i, j \in D
  <2> HAVE a[i].key <= a[j].key
  <2>1. Upto(i) \subseteq Upto(j)
    BY <1>4
  <2> QED  BY <1>5, <2>1, FS_Subset
<1>7. \A i, j \in D : Cardinality(Upto(i)) = Cardinality(Upto(j)) => i = j
  <2>1. ASSUME NEW i \in D, NEW j \in D, Cardinality(Upto(i)) = Cardinality(Upto(j)),
               a[i].key <= a[j].key
        PROVE  i = j
    <3>1. Upto(i) \subseteq Upto(j)
      BY <1>4, <2>1
    <3>2. Upto(i) = Upto(j)
      BY <1>5, <2>1, <3>1, FS_Subset
    <3>3. a[j].key <= a[i].key
      BY <1>4, <3>2
    <3> QED  BY <1>4, <2>1, <3>3
  <2> QED  BY <1>4, <2>1
<1> HIDE DEF Upto
<1>8. r \in Injection(D, D)
  BY <1>5, <1>7 DEF Injection, IsInjective, D
<1>9. \A m \in D : \E i \in D : r[i] = m
  BY <1>3, <1>8, FS_Injection DEF Surjection
<1> DEFINE f == [m \in D |-> CHOOSE i \in D : r[i] = m]
<1>10. \A m \in D : f[m] \in D /\ Cardinality(Upto(f[m])) = m
  BY <1>9
<1> HIDE DEF f, r
<1>11. f \in SetToSeqs(D)
  <2>1. f \in [D -> D]
    BY <1>10 DEF f
  <2> QED  BY <1>3, <1>10, <2>1 DEF SetToSeqs, D
<1>12. \A j, k \in D : j < k => a[f[j]].key <= a[f[k]].key
  <2> SUFFICES ASSUME NEW j \in D, NEW k \in D, j < k, ~ (a[f[j]].key <= a[f[k]].key)
               PROVE  FALSE
    OBVIOUS
  <2>1. a[f[k]].key <= a[f[j]].key
    BY <1>4, <1>10
  <2>2. k <= j
    BY <1>6, <1>10, <2>1
  <2> QED  BY <1>1, <2>2 DEF D
<1> QED  BY <1>1, <1>11, <1>12

(* So the sort by key exists, and it keeps the labels.                      *)
LEMMA SortByKeySorts ==
  ASSUME NEW L, Keyed(L), NEW a \in SetToSeqs(L)
  PROVE  SortByKey(a) \in SetToSeqs(L) /\ Ascending(SortByKey(a))
<1> DEFINE n == Cardinality(L)
           f == CHOOSE f \in SetToSeqs(DOMAIN a) :
                  \A j, k \in DOMAIN a : j < k => a[f[j]].key <= a[f[k]].key
           t == [k \in DOMAIN a |-> a[f[k]]]
<1>1. /\ f \in SetToSeqs(DOMAIN a)
      /\ \A j, k \in DOMAIN a : j < k => a[f[j]].key <= a[f[k]].key
  BY Sortable
<1>2. SortByKey(a) = t
  BY DEF SortByKey
<1> HIDE DEF f
<1>3. /\ n \in Nat /\ DOMAIN a = 1..n /\ \A j, k \in 1..n : a[j] = a[k] => j = k
      /\ \A k \in 1..n : a[k] \in L
  BY ListsAll DEF Keyed, SetToSeqs
<1>4. Cardinality(1..n) = n
  BY <1>3, FS_Interval
<1>5. f \in [1..n -> 1..n] /\ \A j, k \in 1..n : j # k => f[j] # f[k]
  BY <1>1, <1>3, <1>4 DEF SetToSeqs
<1>6. t \in SetToSeqs(L)
  BY <1>3, <1>5 DEF SetToSeqs
<1>7. \A j, k \in 1..n : j < k => t[j].key < t[k].key
  <2> TAKE j, k \in 1..n
  <2> HAVE j < k
  <2>1. t[j] \in L /\ t[k] \in L /\ t[j] # t[k]
    BY <1>3, <1>5
  <2>2. t[j].key \in Int /\ t[k].key \in Int /\ t[j].key # t[k].key
    BY <2>1 DEF Keyed
  <2>3. t[j].key <= t[k].key
    BY <1>1, <1>3
  <2> QED  BY <2>2, <2>3
<1> QED  BY <1>2, <1>3, <1>6, <1>7 DEF Ascending

(* In ascending order, an element is where the number of those up to it is. *)
LEMMA PlaceOf ==
  ASSUME NEW L, Keyed(L), NEW t \in SetToSeqs(L), Ascending(t), NEW k \in DOMAIN t
  PROVE  Cardinality({x \in L : x.key <= t[k].key}) = k
<1> DEFINE n == Cardinality(L)
           S == {x \in L : x.key <= t[k].key}
           g == [j \in 1..k |-> t[j]]
<1>1. /\ n \in Nat /\ DOMAIN t = 1..n /\ ToSet(t) = L /\ \A i, j \in 1..n : t[i] = t[j] => i = j
      /\ \A j \in 1..n : t[j] \in L
  BY ListsAll DEF Keyed, SetToSeqs
<1>2. \A j \in 1..n : t[j].key \in Int
  BY <1>1 DEF Keyed
<1>3. \A j \in 1..n : t[j].key <= t[k].key <=> j <= k
  BY <1>1, <1>2 DEF Ascending
<1>4. \A j \in 1..k : j \in 1..n
  BY <1>1
<1>5. g \in Injection(1..k, S)
  <2>1. g \in [1..k -> S]
    BY <1>1, <1>3, <1>4
  <2> QED  BY <1>1, <1>4, <2>1 DEF Injection, IsInjective
<1>6. \A x \in S : \E j \in 1..k : g[j] = x
  <2> TAKE x \in S
  <2>1. PICK j \in 1..n : t[j] = x
    BY <1>1 DEF ToSet
  <2>2. j <= k
    BY <1>3, <2>1
  <2> QED  BY <1>1, <2>1, <2>2
<1>7. g \in Bijection(1..k, S)
  BY <1>5, <1>6 DEF Bijection, Surjection, Injection
<1> HIDE DEF S, g
<1>8. ExistsBijection(1..k, S)
  BY <1>7 DEF ExistsBijection
<1>9. k \in Nat
  BY <1>1
<1> QED  BY <1>8, <1>9, FS_CountingElements DEF S

(* Labels have one ascending order.                                         *)
LEMMA OneOrder ==
  ASSUME NEW L, Keyed(L), NEW t \in SetToSeqs(L), NEW u \in SetToSeqs(L),
         Ascending(t), Ascending(u)
  PROVE  t = u
<1> DEFINE n == Cardinality(L)
           place == [y \in L |-> Cardinality({x \in L : x.key <= y.key})]
<1>1. DOMAIN t = 1..n /\ DOMAIN u = 1..n /\ ToSet(t) = L /\ ToSet(u) = L
  BY ListsAll DEF Keyed
<1>2. t \in [1..n -> L] /\ u \in [1..n -> L]
  BY DEF SetToSeqs
<1>3. \A k \in 1..n : t[k] = u[k]
  <2> TAKE k \in 1..n
  <2>1. PICK j \in 1..n : u[j] = t[k]
    BY <1>1, <1>2 DEF ToSet
  <2>2. place[t[k]] = k
    BY <1>1, <1>2, PlaceOf
  <2>3. place[u[j]] = j
    BY <1>1, <1>2, PlaceOf
  <2> HIDE DEF place
  <2> QED  BY <2>1, <2>2, <2>3
<1>4. t = [k \in 1..n |-> t[k]] /\ u = [k \in 1..n |-> u[k]]
  BY <1>2
<1>5. [k \in 1..n |-> t[k]] = [k \in 1..n |-> u[k]]
  BY <1>3
<1> HIDE DEF n, place
<1> QED  BY <1>4, <1>5

(* The kept labels of a sample come from a map.                             *)
LEMMA KeptAreKeyed ==
  ASSUME NEW s, IsFiniteSet(DOMAIN s.labels), DOMAIN s.labels \subseteq Int
  PROVE  Keyed(KeptLabels(s))
<1> DEFINE K == DOMAIN s.labels \ captureKeysToIgnore
           Label(k) == [key |-> k, values |-> s.labels[k]]
           f == [k \in K |-> Label(k)]
<1>1. IsFiniteSet(K)
  BY FS_Difference
<1>2. f \in Surjection(K, {Label(k) : k \in K})
  BY DEF Surjection
<1>3. IsFiniteSet({Label(k) : k \in K})
  BY <1>1, <1>2, FS_Surjection
<1>4. KeptLabels(s) = {Label(k) : k \in K}
  BY DEF KeptLabels
<1> QED  BY <1>3, <1>4 DEF Keyed

(* Whatever order labels come in, their key is that of other labels exactly *)
(* if they are the same.                                                    *)
LEMMA KeyOfLabels ==
  ASSUME NEW samples, KeysTellApart(samples), NEW p \in DOMAIN samples, NEW q \in DOMAIN samples,
         NEW a \in SetToSeqs(KeptLabels(samples[p])), NEW b \in SetToSeqs(KeptLabels(samples[q]))
  PROVE  /\ ToSet(SortByKey(a)) = KeptLabels(samples[p])
         /\ LabelsKey(SortByKey(a)) = LabelsKey(SortByKey(b))
              <=> KeptLabels(samples[p]) = KeptLabels(samples[q])
<1>1. Keyed(KeptLabels(samples[p])) /\ Keyed(KeptLabels(samples[q]))
  BY KeptAreKeyed DEF KeysTellApart
<1>2. /\ SortByKey(a) \in SetToSeqs(KeptLabels(samples[p])) /\ Ascending(SortByKey(a))
      /\ SortByKey(b) \in SetToSeqs(KeptLabels(samples[q])) /\ Ascending(SortByKey(b))
  BY <1>1, SortByKeySorts
<1>3. ToSet(SortByKey(a)) = KeptLabels(samples[p]) /\ ToSet(SortByKey(b)) = KeptLabels(samples[q])
  BY <1>1, <1>2, ListsAll DEF Keyed
<1>4. LabelsKey(SortByKey(a)) = LabelsKey(SortByKey(b)) => KeptLabels(samples[p]) = KeptLabels(samples[q])
  BY <1>2, <1>3 DEF KeysTellApart
<1>5. KeptLabels(samples[p]) = KeptLabels(samples[q]) => SortByKey(a) = SortByKey(b)
  BY <1>1, <1>2, OneOrder
<1> QED  BY <1>3, <1>4, <1>5

(* A group stands for a sample: its stack, and its kept labels in the order *)
(* of their keys.                                                           *)
Stands(g, s) ==
  /\ g.stack = s.stack
  /\ \E iterated \in SetToSeqs(KeptLabels(s)) :
       g.labels = SortByKey(iterated) /\ g.key = <<s.stack, LabelsKey(SortByKey(iterated))>>

(* What a group has of every sample; what all samples have.                 *)
Shares(g, samples) == [p \in DOMAIN samples |-> IF Stands(g, samples[p]) THEN samples[p].val ELSE 0]
Vals(samples) == [p \in DOMAIN samples |-> samples[p].val]

(* The first n samples are grouped, and their values summed: those of a     *)
(* group, and all of them.                                                  *)
Collected(gs, samples, n) ==
  /\ Listed(gs)
  /\ \A g \in DOMAIN gs : "val" \in DOMAIN gs[g] /\ gs[g].val = SumOf(Shares(gs[g], samples), n)
  /\ Total(gs) = SumOf(Vals(samples), n)
  /\ \A g \in DOMAIN gs : \E p \in 1..n : Stands(gs[g], samples[p])
  /\ \A p \in 1..n : \E g \in DOMAIN gs : Stands(gs[g], samples[p])
  /\ \A g, h \in DOMAIN gs : gs[g].key = gs[h].key => g = h

(* What OneEntryPerGroup says of one type.                                  *)
Complete(entries, samples) ==
  /\ \A p \in DOMAIN samples : Cardinality({g \in DOMAIN entries : Grouped(entries[g], samples[p])}) = 1
  /\ \A g \in DOMAIN entries : \E p \in DOMAIN samples : Grouped(entries[g], samples[p])

(* What the entries of one type say of its samples, each of those it stands *)
(* for: their rate and their percentage.                                    *)
Raw(e, samples) ==
  SumOf([p \in DOMAIN samples |-> IF Grouped(e, samples[p]) THEN samples[p].val ELSE 0], Len(samples))
Valued(entries, samples, D) ==
  \A g \in DOMAIN entries :
    /\ entries[g].value = Rate(Raw(entries[g], samples), D)
    /\ entries[g].percent = PercentOf(Raw(entries[g], samples), Total(samples))

(* The types before ti are complete, and of ti the samples before si.       *)
Progress ==
  /\ ti \in 1..Len(order) + 1 /\ Listed(captured) /\ Len(captured) = ti - 1
  /\ \A k \in 1..ti - 1 : /\ captured[k].type = order[k]
                          /\ Complete(captured[k].entries, typed[order[k]])
                          /\ Valued(captured[k].entries, typed[order[k]], Duration(order[k]))
  /\ ti <= Len(order) => /\ si \in 1..Len(typed[CurrentType]) + 1
                         /\ Collected(groups, typed[CurrentType], si - 1)

CaptureInv ==
  IF phase = "loading" THEN ti = 1 /\ si = 1 /\ groups = <<>> /\ captured = <<>> ELSE Progress

(* What loading leaves to captureProfData: each type once, its samples in a *)
(* list, with values, and with labels that labelsKey tells apart.           *)
WellLoaded ==
  /\ Listed(order) /\ \A k, l \in DOMAIN order : order[k] = order[l] => k = l
  /\ \A k \in DOMAIN order :
       /\ Listed(typed[order[k]]) /\ KeysTellApart(typed[order[k]])
       /\ \A p \in DOMAIN typed[order[k]] : typed[order[k]][p].val \in Nat

(* What loading keeps is what captureProfData relies on.                    *)
LEMMA LoadedWell == LabelsTellApart /\ LoadInv => WellLoaded
<1> SUFFICES ASSUME LabelsTellApart, LoadInv PROVE WellLoaded
  OBVIOUS
<1>1. /\ Listed(order) /\ \A k, l \in DOMAIN order : order[k] = order[l] => k = l
      /\ \A k \in DOMAIN order : order[k] \in Type
      /\ \A t \in Type : Listed(typed[t]) /\ \A k \in DOMAIN typed[t] : typed[t][k] \in Samples
  BY DEF LoadInv, WellSet, ps
<1>2. ASSUME NEW samples, \A p \in DOMAIN samples : samples[p] \in Samples
      PROVE  KeysTellApart(samples) /\ \A p \in DOMAIN samples : samples[p].val \in Nat
  <2>1. \A p, q \in Samples :
          /\ IsFiniteSet(DOMAIN p.labels) /\ DOMAIN p.labels \subseteq Int
          /\ \A a \in SetToSeqs(KeptLabels(p)), b \in SetToSeqs(KeptLabels(q)) :
               LabelsKey(a) = LabelsKey(b) => ToSet(a) = ToSet(b)
    BY DEF LabelsTellApart, KeysTellApart
  <2> QED  BY <1>2, <2>1, CarriedWell DEF KeysTellApart
<1> QED  BY <1>1, <1>2 DEF WellLoaded

(* No samples are collected in no groups.                                   *)
LEMMA NothingCollected ==
  ASSUME NEW samples
  PROVE  Collected(<<>>, samples, 0)
<1>1. Listed(<<>>) /\ DOMAIN <<>> = {} /\ Len(<<>>) = 0
  BY DEF Listed
<1>2. Total(<<>>) = 0 /\ SumOf(Vals(samples), 0) = 0
  BY <1>1, SumNone DEF Total
<1> QED  BY <1>1, <1>2 DEF Collected

(* Groups have one key exactly if they stand for one stack with its labels. *)
LEMMA SameGroup ==
  ASSUME NEW samples, KeysTellApart(samples), NEW p \in DOMAIN samples, NEW q \in DOMAIN samples,
         NEW g, NEW h, Stands(g, samples[p]), Stands(h, samples[q])
  PROVE  /\ g.key = h.key <=> /\ samples[p].stack = samples[q].stack
                              /\ KeptLabels(samples[p]) = KeptLabels(samples[q])
         /\ g.stack = samples[p].stack /\ ToSet(g.labels) = KeptLabels(samples[p])
<1>1. PICK a \in SetToSeqs(KeptLabels(samples[p])) :
        g.labels = SortByKey(a) /\ g.key = <<samples[p].stack, LabelsKey(SortByKey(a))>>
  BY DEF Stands
<1>2. PICK b \in SetToSeqs(KeptLabels(samples[q])) :
        h.labels = SortByKey(b) /\ h.key = <<samples[q].stack, LabelsKey(SortByKey(b))>>
  BY DEF Stands
<1>3. /\ ToSet(SortByKey(a)) = KeptLabels(samples[p])
      /\ LabelsKey(SortByKey(a)) = LabelsKey(SortByKey(b)) <=> KeptLabels(samples[p]) = KeptLabels(samples[q])
  BY KeyOfLabels
<1>4. g.stack = samples[p].stack
  BY DEF Stands
<1> QED  BY <1>1, <1>2, <1>3, <1>4

(* A sample more, in what a group has and in all.                           *)
LEMMA ShareMore ==
  ASSUME NEW samples, NEW n \in Nat, n + 1 \in DOMAIN samples
  PROVE  /\ \A g : SumOf(Shares(g, samples), n + 1) =
               SumOf(Shares(g, samples), n) + IF Stands(g, samples[n + 1]) THEN samples[n + 1].val ELSE 0
         /\ SumOf(Vals(samples), n + 1) = SumOf(Vals(samples), n) + samples[n + 1].val
<1>1. \A g : Shares(g, samples)[n + 1] = IF Stands(g, samples[n + 1]) THEN samples[n + 1].val ELSE 0
  BY DEF Shares
<1>2. Vals(samples)[n + 1] = samples[n + 1].val
  BY DEF Vals
<1> QED  BY <1>1, <1>2, SumMore

(* A sum of zeros.                                                          *)
LEMMA SumOfNone ==
  ASSUME NEW x, NEW n \in Nat, \A k \in 1..n : x[k] = 0
  PROVE  SumOf(x, n) = 0
<1> DEFINE c == 0
<1>1. c \in Int /\ \A k \in 1..n : x[k] \in Int /\ x[k] = c * x[k]
  OBVIOUS
<1> HIDE DEF c
<1>2. SumOf(x, n) = c * SumOf(x, n)
  <2>1. Scaled(x, x, n, c)
    BY <1>1 DEF Scaled
  <2> QED  BY <2>1, SumScaled
<1>3. SumOf(x, n) \in Int
  BY <1>1, SumIsInt
<1> QED  BY <1>2, <1>3 DEF c

(* What a group has of samples is not negative.                             *)
LEMMA ShareIsNat ==
  ASSUME NEW samples, NEW n \in Nat, \A p \in 1..n : p \in DOMAIN samples /\ samples[p].val \in Nat
  PROVE  \A g : SumOf(Shares(g, samples), n) \in Nat
<1> SUFFICES ASSUME NEW g PROVE SumOf(Shares(g, samples), n) \in Nat
  OBVIOUS
<1> DEFINE x == Shares(g, samples)
<1>1. \A p \in 1..n : x[p] \in Nat
  BY DEF Shares
<1> HIDE DEF x
<1>2. SumOf(x, n) \in Nat
  BY <1>1, SumIsNat
<1> QED  BY <1>2 DEF x

(* Groups of one stack with one set of labels have the same share.          *)
LEMMA SameShares ==
  ASSUME NEW samples, NEW g, NEW h, g.key = h.key, g.stack = h.stack, g.labels = h.labels
  PROVE  Shares(g, samples) = Shares(h, samples)
BY DEF Shares, Stands

(* A sample joins its group: only the sum of that one grows.                *)
Joins(gs, hs, g, d) ==
  /\ Listed(gs) /\ Listed(hs) /\ Len(hs) = Len(gs) /\ d \in Nat /\ g \in DOMAIN gs
  /\ \A h \in DOMAIN gs : gs[h].val \in Nat /\ hs[h].val = IF h = g THEN gs[h].val + d ELSE gs[h].val

(* The total grows by what joins a group.                                   *)
LEMMA TotalGrows ==
  ASSUME NEW gs, NEW hs, NEW g, NEW d, Joins(gs, hs, g, d)
  PROVE  Total(hs) = Total(gs) + d
<1> USE DEF Joins
<1> DEFINE n == Len(gs)
           x == [h \in DOMAIN gs |-> gs[h].val]
           y == [h \in DOMAIN hs |-> hs[h].val]
<1>1. n \in Nat /\ DOMAIN gs = 1..n /\ DOMAIN hs = 1..n
  BY DEF Listed
<1>2. /\ d \in Int /\ g \in 1..n /\ \A h \in 1..n : x[h] \in Int
      /\ \A h \in 1..n : y[h] = IF h = g THEN x[h] + d ELSE x[h]
  BY <1>1
<1>3. Total(gs) = SumOf(x, n) /\ Total(hs) = SumOf(y, n)
  BY DEF Total
<1> HIDE DEF x, y, n
<1>4. SumOf(y, n) = SumOf(x, n) + d
  <2>1. Grows(x, y, n, g, d)
    BY <1>2 DEF Grows
  <2> QED  BY <1>1, <2>1, SumGrows
<1> QED  BY <1>3, <1>4

(* A sample starts a group.                                                 *)
LEMMA TotalMore ==
  ASSUME NEW gs, NEW g, Listed(gs)
  PROVE  Total(Append(gs, g)) = Total(gs) + g.val
<1> DEFINE n == Len(gs)
           hs == Append(gs, g)
           x == [h \in DOMAIN gs |-> gs[h].val]
           y == [h \in DOMAIN hs |-> hs[h].val]
<1>1. n \in Nat /\ DOMAIN gs = 1..n
  BY DEF Listed
<1>2. Listed(hs) /\ Len(hs) = n + 1 /\ hs[n + 1] = g /\ \A k \in 1..n : hs[k] = gs[k]
  BY OneMore
<1>3. DOMAIN hs = 1..n + 1
  BY <1>2 DEF Listed
<1>4. Total(gs) = SumOf(x, n) /\ Total(hs) = SumOf(y, n + 1)
  BY <1>2 DEF Total
<1> HIDE DEF hs, n
<1>5. y[n + 1] = g.val /\ \A k \in 1..n : y[k] = x[k]
  <2>1. n + 1 \in DOMAIN hs /\ \A k \in 1..n : k \in DOMAIN hs
    BY <1>1, <1>3
  <2> QED  BY <1>1, <1>2, <2>1
<1> HIDE DEF x, y
<1>6. SumOf(y, n) = SumOf(x, n) /\ SumOf(y, n + 1) = SumOf(y, n) + y[n + 1]
  BY <1>1, <1>5, SumSame, SumMore
<1> QED  BY <1>4, <1>5, <1>6 DEF hs

(* The next sample joins the group of its key, or starts one.               *)
LEMMA GroupCollects ==
  ASSUME Progress, WellLoaded, Group
  PROVE  Progress'
<1> DEFINE samples == typed[CurrentType]
           s == samples[si]
<1>1. /\ ti \in 1..Len(order) /\ si \in 1..Len(samples) /\ DOMAIN samples = 1..Len(samples)
      /\ Listed(samples) /\ KeysTellApart(samples) /\ Collected(groups, samples, si - 1)
      /\ Len(order) \in Nat /\ Len(samples) \in Nat
      /\ \A p \in DOMAIN samples : samples[p].val \in Nat
  <2>1. /\ ti <= Len(order) /\ si <= Len(samples) /\ phase = "capturing"
        /\ Listed(order) /\ \A k \in DOMAIN order : /\ Listed(typed[order[k]]) /\ KeysTellApart(typed[order[k]])
                                                 /\ \A p \in DOMAIN typed[order[k]] : typed[order[k]][p].val \in Nat
    BY DEF WellLoaded, Group
  <2>2. ti \in 1..Len(order) + 1 /\ Len(order) \in Nat /\ DOMAIN order = 1..Len(order)
    BY <2>1 DEF Progress, Listed
  <2>3. ti \in DOMAIN order
    BY <2>1, <2>2
  <2>4. Listed(samples) /\ KeysTellApart(samples) /\ \A p \in DOMAIN samples : samples[p].val \in Nat
    BY <2>1, <2>3 DEF CurrentType
  <2>5. Len(samples) \in Nat /\ DOMAIN samples = 1..Len(samples)
    BY <2>4 DEF Listed
  <2>6. si \in 1..Len(samples) + 1 /\ Collected(groups, samples, si - 1)
    BY <2>1 DEF Progress
  <2> QED  BY <2>1, <2>2, <2>3, <2>4, <2>5, <2>6
<1>2. PICK iterated \in SetToSeqs(KeptLabels(s)) :
        LET labels == SortByKey(iterated)
            key    == <<s.stack, LabelsKey(labels)>>
            idx    == {g \in DOMAIN groups : groups[g].key = key}
        IN groups' = IF idx # {} THEN [g \in DOMAIN groups |->
                       IF g \in idx THEN [groups[g] EXCEPT !.val = @ + s.val] ELSE groups[g]]
                     ELSE Append(groups, [key |-> key, stack |-> s.stack,
                                          labels |-> labels, val |-> s.val])
  BY Zenon DEF Group
<1>3. si' = si + 1 /\ UNCHANGED <<set, phase, ti, captured>>
  BY DEF Group
<1> DEFINE m == si - 1
           labels == SortByKey(iterated)
           key == <<s.stack, LabelsKey(labels)>>
           idx == {g \in DOMAIN groups : groups[g].key = key}
           new == [key |-> key, stack |-> s.stack, labels |-> labels, val |-> s.val]
<1>4. Stands(new, s)
  BY DEF Stands
<1>5. groups' = IF idx # {} THEN [g \in DOMAIN groups |->
                  IF g \in idx THEN [groups[g] EXCEPT !.val = @ + s.val] ELSE groups[g]]
                ELSE Append(groups, new)
  BY <1>2, Zenon
<1>6. \A g \in DOMAIN groups : groups[g].key = new.key <=> g \in idx
  OBVIOUS
<1> HIDE DEF new, idx, key, labels, s, samples
<1>7. Collected(groups', samples, si)
  <2>0. /\ Listed(groups) /\ DOMAIN groups = 1..Len(groups)
        /\ \A g \in DOMAIN groups : \E p \in 1..si - 1 : Stands(groups[g], samples[p])
        /\ \A p \in 1..si - 1 : \E g \in DOMAIN groups : Stands(groups[g], samples[p])
        /\ \A g, h \in DOMAIN groups : groups[g].key = groups[h].key => g = h
        /\ \A g \in DOMAIN groups : "val" \in DOMAIN groups[g] /\ groups[g].val = SumOf(Shares(groups[g], samples), m)
        /\ Total(groups) = SumOf(Vals(samples), m)
    BY <1>1 DEF Collected, Listed, m
  <2>a. /\ \A g : SumOf(Shares(g, samples), si) =
                    SumOf(Shares(g, samples), m) + IF Stands(g, samples[si]) THEN samples[si].val ELSE 0
        /\ SumOf(Vals(samples), si) = SumOf(Vals(samples), m) + samples[si].val
    <3>1. m \in Nat /\ m + 1 = si /\ si \in DOMAIN samples
      BY <1>1 DEF m
    <3> HIDE DEF m
    <3> QED  BY <3>1, ShareMore
  <2>b. /\ samples[si].val \in Nat /\ si \in DOMAIN samples /\ m \in Nat
        /\ \A p \in 1..m : p \in DOMAIN samples /\ samples[p].val \in Nat
    BY <1>1 DEF m
  <2>c. \A g : SumOf(Shares(g, samples), m) \in Nat
    <3> HIDE DEF m
    <3> QED  BY <2>b, ShareIsNat
  <2>d. Stands(new, samples[si])
    BY <1>4 DEF s
  <2> HIDE DEF m
  <2>1. CASE idx # {}
    <3>1. /\ DOMAIN groups' = DOMAIN groups /\ Listed(groups')
          /\ \A g \in DOMAIN groups : /\ groups'[g].key = groups[g].key
                                      /\ groups'[g].stack = groups[g].stack
                                      /\ groups'[g].labels = groups[g].labels
      <4>1. groups' = [g \in DOMAIN groups |->
                        IF g \in idx THEN [groups[g] EXCEPT !.val = @ + s.val] ELSE groups[g]]
        BY <1>5, <2>1, Zenon
      <4>2. DOMAIN groups' = 1..Len(groups) /\ Len(groups) \in Nat
        BY <2>0, <4>1 DEF Listed
      <4> QED  BY <2>0, <4>1, <4>2 DEF Listed
    <3>2. \A g \in DOMAIN groups, p \in 1..si : Stands(groups[g], samples[p]) <=> Stands(groups'[g], samples[p])
      BY <3>1 DEF Stands
    <3>3. PICK g \in DOMAIN groups : groups[g].key = new.key
      BY <1>6, <2>1 DEF idx
    <3>4. Stands(groups'[g], samples[si])
      <4>1. PICK q \in 1..si - 1 : Stands(groups[g], samples[q])
        BY <2>0
      <4>2. Stands(new, samples[si])
        BY <1>4 DEF s
      <4>3. q \in DOMAIN samples /\ si \in DOMAIN samples
        BY <1>1
      <4>4. q \in 1..si
        BY <1>1
      <4>5. groups[g].stack = samples[si].stack /\ KeptLabels(samples[q]) = KeptLabels(samples[si])
        BY <1>1, <3>3, <4>1, <4>2, <4>3, SameGroup
      <4>6. Stands(groups[g], samples[si])
        BY <4>1, <4>5 DEF Stands
      <4> QED  BY <1>1, <3>2, <4>6
    <3>5. \A h \in DOMAIN groups' : \E p \in 1..si : Stands(groups'[h], samples[p])
      <4> TAKE h \in DOMAIN groups'
      <4>1. PICK p \in 1..si - 1 : Stands(groups[h], samples[p])
        BY <2>0, <3>1
      <4>2. p \in 1..si
        BY <1>1
      <4> QED  BY <3>1, <3>2, <4>1, <4>2
    <3>6. \A p \in 1..si : \E h \in DOMAIN groups' : Stands(groups'[h], samples[p])
      <4> TAKE p \in 1..si
      <4>1. CASE p = si
        BY <3>1, <3>3, <3>4, <4>1
      <4>2. CASE p # si
        <5>1. p \in 1..si - 1
          BY <1>1, <4>2
        <5> QED  BY <2>0, <3>1, <3>2, <5>1
      <4> QED  BY <4>1, <4>2
    <3>7. \A g1, h \in DOMAIN groups' : groups'[g1].key = groups'[h].key => g1 = h
      BY <2>0, <3>1
    <3>8. \A h \in DOMAIN groups : Shares(groups'[h], samples) = Shares(groups[h], samples)
      BY <3>1, SameShares
    <3>9. \A h \in DOMAIN groups : Stands(groups'[h], samples[si]) <=> h = g
      <4>1. ASSUME NEW h \in DOMAIN groups, Stands(groups'[h], samples[si])  PROVE h = g
        <5>1. Stands(groups[h], samples[si])
          BY <1>1, <3>2, <4>1
        <5>2. groups[h].key = new.key
          BY <1>1, <2>b, <2>d, <5>1, SameGroup
        <5> QED  BY <2>0, <3>3, <5>2
      <4> QED  BY <3>4, <4>1
    <3>10. \A h \in DOMAIN groups : /\ "val" \in DOMAIN groups'[h]
                                    /\ groups'[h].val = IF h = g THEN groups[h].val + samples[si].val ELSE groups[h].val
      <4>1. groups' = [h \in DOMAIN groups |->
                        IF h \in idx THEN [groups[h] EXCEPT !.val = @ + s.val] ELSE groups[h]]
        BY <1>5, <2>1, Zenon
      <4>2. \A h \in DOMAIN groups : h \in idx <=> h = g
        BY <1>6, <2>0, <3>3
      <4> QED  BY <2>0, <4>1, <4>2 DEF s
    <3>11. \A h \in DOMAIN groups' : "val" \in DOMAIN groups'[h] /\ groups'[h].val = SumOf(Shares(groups'[h], samples), si)
      <4> TAKE h \in DOMAIN groups'
      <4>1. SumOf(Shares(groups[h], samples), si) =
              groups[h].val + IF Stands(groups'[h], samples[si]) THEN samples[si].val ELSE 0
        <5>1. SumOf(Shares(groups'[h], samples), si) =
                SumOf(Shares(groups'[h], samples), m) + IF Stands(groups'[h], samples[si]) THEN samples[si].val ELSE 0
          BY <2>a
        <5> QED  BY <2>0, <3>1, <3>8, <5>1
      <4>2. groups[h].val \in Nat
        BY <2>0, <2>c, <3>1
      <4> QED  BY <2>b, <3>1, <3>8, <3>9, <3>10, <4>1, <4>2
    <3>12. Total(groups') = SumOf(Vals(samples), si)
      <4>1. Len(groups') = Len(groups) /\ Listed(groups')
        BY <2>0, <3>1 DEF Listed
      <4>2. \A h \in DOMAIN groups :
               /\ groups[h].val \in Nat
               /\ groups'[h].val = IF h = g THEN groups[h].val + samples[si].val ELSE groups[h].val
        BY <2>0, <2>c, <3>10
      <4>3. Total(groups') = Total(groups) + samples[si].val
        <5>1. Joins(groups, groups', g, samples[si].val)
          BY <2>0, <2>b, <4>1, <4>2 DEF Joins
        <5> QED  BY <5>1, TotalGrows
      <4> QED  BY <2>0, <2>a, <4>3
    <3> QED  BY <3>1, <3>5, <3>6, <3>7, <3>11, <3>12 DEF Collected
  <2>2. CASE idx = {}
    <3> DEFINE n == Len(groups) + 1
    <3>1. groups' = Append(groups, new) /\ Len(groups) \in Nat
      BY <1>5, <2>0, <2>2 DEF Listed
    <3>2. /\ Listed(groups') /\ Len(groups') = n /\ groups'[n] = new
          /\ \A g \in 1..Len(groups) : groups'[g] = groups[g]
      BY <2>0, <3>1, OneMore
    <3>3. DOMAIN groups' = 1..n /\ n \in DOMAIN groups'
      BY <3>1, <3>2 DEF Listed
    <3>4. Stands(groups'[n], samples[si])
      BY <1>4, <3>2 DEF s
    <3>5. \A g \in 1..n : g = n \/ g \in 1..Len(groups)
      BY <3>1
    <3>6. \A g \in 1..Len(groups) : groups'[g].key # groups'[n].key
      BY <1>6, <2>0, <2>2, <3>2
    <3>7. \A h \in DOMAIN groups' : \E p \in 1..si : Stands(groups'[h], samples[p])
      <4> TAKE h \in DOMAIN groups'
      <4>1. CASE h = n
        BY <1>1, <3>4, <4>1
      <4>2. CASE h \in 1..Len(groups)
        <5>1. PICK p \in 1..si - 1 : Stands(groups[h], samples[p])
          BY <2>0, <4>2
        <5>2. p \in 1..si
          BY <1>1
        <5> QED  BY <3>2, <4>2, <5>1, <5>2
      <4> QED  BY <3>3, <3>5, <4>1, <4>2
    <3>8. \A p \in 1..si : \E h \in DOMAIN groups' : Stands(groups'[h], samples[p])
      <4> TAKE p \in 1..si
      <4>1. CASE p = si
        BY <3>3, <3>4, <4>1
      <4>2. CASE p # si
        <5>1. p \in 1..si - 1
          BY <1>1, <4>2
        <5>2. PICK h \in 1..Len(groups) : Stands(groups[h], samples[p])
          BY <2>0, <5>1
        <5>3. h \in DOMAIN groups'
          BY <3>1, <3>3
        <5> QED  BY <3>2, <5>2, <5>3
      <4> QED  BY <4>1, <4>2
    <3>9. \A g, h \in DOMAIN groups' : groups'[g].key = groups'[h].key => g = h
      <4> HIDE DEF n
      <4>1. \A g, h \in 1..Len(groups) : groups'[g].key = groups'[h].key => g = h
        BY <2>0, <3>2
      <4> QED  BY <3>3, <3>5, <3>6, <4>1
    <3>10. \A h \in 1..Len(groups) : ~Stands(groups'[h], samples[si])
      <4> TAKE h \in 1..Len(groups)
      <4>1. Stands(groups[h], samples[si]) => groups[h].key = new.key
        BY <1>1, <2>b, <2>d, SameGroup
      <4> QED  BY <3>2, <3>6, <4>1
    <3>11. \A p \in 1..m : ~Stands(new, samples[p])
      <4> SUFFICES ASSUME NEW p \in 1..m, Stands(new, samples[p])  PROVE FALSE
        OBVIOUS
      <4>1. PICK h \in DOMAIN groups : Stands(groups[h], samples[p])
        BY <2>0 DEF m
      <4>2. groups[h].key = new.key
        BY <1>1, <2>b, <4>1, SameGroup
      <4> QED  BY <1>6, <2>2, <4>2
    <3>12. SumOf(Shares(new, samples), si) = samples[si].val
      <4> DEFINE x == Shares(new, samples)
                 z == [p \in 1..m |-> 0]
      <4>1. \A p \in 1..m : x[p] = 0
        BY <2>b, <3>11 DEF Shares
      <4>2. SumOf(x, si) = SumOf(x, m) + samples[si].val
        BY <2>a, <2>d
      <4> HIDE DEF x
      <4>3. SumOf(x, m) = 0
        BY <2>b, <4>1, SumOfNone
      <4> QED  BY <2>b, <4>2, <4>3 DEF x
    <3>13. \A h \in DOMAIN groups' : "val" \in DOMAIN groups'[h] /\ groups'[h].val = SumOf(Shares(groups'[h], samples), si)
      <4> TAKE h \in DOMAIN groups'
      <4>1. CASE h = n
        <5>1. "val" \in DOMAIN new /\ new.val = samples[si].val
          BY DEF new, s
        <5> QED  BY <3>2, <3>12, <4>1, <5>1
      <4>2. CASE h \in 1..Len(groups)
        <5>1. SumOf(Shares(groups[h], samples), si) = SumOf(Shares(groups[h], samples), m) + 0
          BY <2>a, <3>2, <3>10, <4>2
        <5>2. "val" \in DOMAIN groups[h] /\ groups[h].val = SumOf(Shares(groups[h], samples), m)
          BY <2>0, <4>2
        <5>3. SumOf(Shares(groups[h], samples), m) \in Nat
          BY <2>c
        <5> QED  BY <3>2, <4>2, <5>1, <5>2, <5>3
      <4> QED  BY <3>3, <3>5, <4>1, <4>2
    <3>14. Total(groups') = SumOf(Vals(samples), si)
      <4>1. Total(groups') = Total(groups) + new.val
        BY <2>0, <3>1, TotalMore
      <4>2. new.val = samples[si].val
        BY DEF new, s
      <4> QED  BY <2>0, <2>a, <4>1, <4>2
    <3> QED  BY <3>2, <3>7, <3>8, <3>9, <3>13, <3>14 DEF Collected
  <2> QED  BY <2>1, <2>2
<1>8. UNCHANGED <<order, typed, ti, captured>> /\ \A t : Duration(t)' = Duration(t)
  BY <1>3 DEF set, Duration
<1>9. CurrentType' = CurrentType /\ si' - 1 = si /\ si' \in 1..Len(samples) + 1
  BY <1>1, <1>3, <1>8 DEF CurrentType
<1> QED  BY <1>1, <1>7, <1>8, <1>9 DEF Progress, samples

(* What is written of complete groups has an entry for each stack with its  *)
(* kept labels.                                                             *)
LEMMA GroupsSuffice ==
  ASSUME NEW samples, KeysTellApart(samples), NEW gs, NEW es, DOMAIN samples = 1..Len(samples),
         Collected(gs, samples, Len(samples)), DOMAIN es = DOMAIN gs,
         \A g \in DOMAIN gs : es[g].regex = {gs[g].stack} /\ es[g].labels = gs[g].labels
  PROVE  Complete(es, samples)
<1>1. /\ \A g \in DOMAIN gs : \E p \in DOMAIN samples : Stands(gs[g], samples[p])
      /\ \A p \in DOMAIN samples : \E g \in DOMAIN gs : Stands(gs[g], samples[p])
      /\ \A g, h \in DOMAIN gs : gs[g].key = gs[h].key => g = h
  BY DEF Collected
<1>2. \A g \in DOMAIN gs, p \in DOMAIN samples :
        Grouped(es[g], samples[p]) <=> /\ gs[g].stack = samples[p].stack
                                       /\ ToSet(gs[g].labels) = KeptLabels(samples[p])
  BY DEF Grouped
<1>3. \A g \in DOMAIN gs, p \in DOMAIN samples : Stands(gs[g], samples[p]) => Grouped(es[g], samples[p])
  BY <1>2, SameGroup
<1>4. ASSUME NEW p \in DOMAIN samples
      PROVE  Cardinality({g \in DOMAIN es : Grouped(es[g], samples[p])}) = 1
  <2>1. PICK g \in DOMAIN gs : Stands(gs[g], samples[p])
    BY <1>1
  <2>2. \A h \in DOMAIN gs : Grouped(es[h], samples[p]) => h = g
    <3> SUFFICES ASSUME NEW h \in DOMAIN gs, Grouped(es[h], samples[p])  PROVE h = g
      OBVIOUS
    <3>1. PICK q \in DOMAIN samples : Stands(gs[h], samples[q])
      BY <1>1
    <3>2. samples[q].stack = samples[p].stack /\ KeptLabels(samples[q]) = KeptLabels(samples[p])
      BY <1>2, <3>1, SameGroup
    <3>3. gs[h].key = gs[g].key
      BY <2>1, <3>1, <3>2, SameGroup
    <3> QED  BY <1>1, <3>3
  <2>3. {h \in DOMAIN es : Grouped(es[h], samples[p])} = {g}
    BY <1>3, <2>1, <2>2
  <2> QED  BY <2>3, FS_Singleton
<1> QED  BY <1>1, <1>3, <1>4 DEF Complete

(* ... and the values of that entry are those of the samples it stands for. *)
LEMMA GroupsValued ==
  ASSUME NEW samples, KeysTellApart(samples), Listed(samples), NEW gs, NEW es, NEW D,
         Collected(gs, samples, Len(samples)),
         es = [g \in DOMAIN gs |-> Entry(gs[g], Total(gs), D)]
  PROVE  Valued(es, samples, D)
<1>1. /\ DOMAIN samples = 1..Len(samples)
      /\ \A g \in DOMAIN gs : \E p \in DOMAIN samples : Stands(gs[g], samples[p])
      /\ \A g \in DOMAIN gs : gs[g].val = SumOf(Shares(gs[g], samples), Len(samples))
      /\ Total(gs) = SumOf(Vals(samples), Len(samples))
  BY DEF Collected, Listed
<1>2. Total(gs) = Total(samples)
  BY <1>1 DEF Vals, Total
<1>3. /\ DOMAIN es = DOMAIN gs
      /\ \A g \in DOMAIN gs : /\ es[g].regex = {gs[g].stack} /\ es[g].labels = gs[g].labels
                             /\ es[g].value = Rate(gs[g].val, D)
                             /\ es[g].percent = PercentOf(gs[g].val, Total(samples))
  BY <1>2 DEF Entry
<1>4. ASSUME NEW g \in DOMAIN gs, NEW p \in DOMAIN samples
      PROVE  Grouped(es[g], samples[p]) <=> Stands(gs[g], samples[p])
  <2>1. Grouped(es[g], samples[p]) <=> /\ gs[g].stack = samples[p].stack
                                       /\ ToSet(gs[g].labels) = KeptLabels(samples[p])
    BY <1>3 DEF Grouped
  <2>2. Stands(gs[g], samples[p]) => Grouped(es[g], samples[p])
    BY <2>1, SameGroup
  <2>3. ASSUME Grouped(es[g], samples[p])  PROVE Stands(gs[g], samples[p])
    <3>1. PICK q \in DOMAIN samples : Stands(gs[g], samples[q])
      BY <1>1
    <3>2. gs[g].stack = samples[q].stack /\ ToSet(gs[g].labels) = KeptLabels(samples[q])
      BY <3>1, SameGroup
    <3> QED  BY <2>1, <2>3, <3>1, <3>2 DEF Stands
  <2> QED  BY <2>2, <2>3
<1>5. ASSUME NEW g \in DOMAIN gs  PROVE Raw(es[g], samples) = gs[g].val
  <2>1. Shares(gs[g], samples) =
          [p \in DOMAIN samples |-> IF Grouped(es[g], samples[p]) THEN samples[p].val ELSE 0]
    BY <1>4 DEF Shares
  <2> QED  BY <1>1, <2>1 DEF Raw
<1> QED  BY <1>3, <1>5 DEF Valued

(* A type is closed with all its samples grouped.                           *)
LEMMA CloseTypeCompletes ==
  ASSUME Progress, WellLoaded, CloseType
  PROVE  Progress'
<1> DEFINE samples == typed[CurrentType]
<1>1. /\ ti \in 1..Len(order) /\ DOMAIN samples = 1..Len(samples) /\ Len(samples) \in Nat
      /\ Listed(samples) /\ KeysTellApart(samples) /\ Collected(groups, samples, Len(samples))
      /\ Len(order) \in Nat
  <2>1. /\ ti <= Len(order) /\ si > Len(samples) /\ phase = "capturing"
        /\ Listed(order) /\ \A k \in DOMAIN order : /\ Listed(typed[order[k]]) /\ KeysTellApart(typed[order[k]])
                                                 /\ \A p \in DOMAIN typed[order[k]] : typed[order[k]][p].val \in Nat
    BY DEF WellLoaded, CloseType
  <2>2. ti \in 1..Len(order) + 1 /\ Len(order) \in Nat /\ DOMAIN order = 1..Len(order)
    BY <2>1 DEF Progress, Listed
  <2>3. ti \in DOMAIN order
    BY <2>1, <2>2
  <2>4. Listed(samples) /\ KeysTellApart(samples) /\ \A p \in DOMAIN samples : samples[p].val \in Nat
    BY <2>1, <2>3 DEF CurrentType
  <2>5. Len(samples) \in Nat /\ DOMAIN samples = 1..Len(samples)
    BY <2>4 DEF Listed
  <2>6. si \in 1..Len(samples) + 1 /\ Collected(groups, samples, si - 1)
    BY <2>1 DEF Progress
  <2>7. si - 1 = Len(samples)
    BY <2>1, <2>5, <2>6
  <2> QED  BY <2>1, <2>2, <2>3, <2>4, <2>5, <2>6, <2>7
<1> DEFINE total == Total(groups)
<1>2.   captured' = Append(captured, [type |-> CurrentType, entries |->
          [g \in DOMAIN groups |-> Entry(groups[g], total, DurationAt(ti))]])
  BY DEF CloseType
<1>3. /\ ti' = ti + 1 /\ si' = 1 /\ groups' = <<>> /\ UNCHANGED <<order, typed>>
      /\ \A t : Duration(t)' = Duration(t)
  BY DEF CloseType, set, Duration
<1>4. Listed(captured) /\ Len(captured) = ti - 1
  BY DEF Progress
<1>5. /\ Listed(captured') /\ Len(captured') = ti /\ \A k \in 1..ti - 1 : captured'[k] = captured[k]
      /\ captured'[ti] = [type |-> CurrentType, entries |->
                            [g \in DOMAIN groups |-> Entry(groups[g], total, DurationAt(ti))]]
  <2> DEFINE e == [type |-> CurrentType, entries |->
                     [g \in DOMAIN groups |-> Entry(groups[g], total, DurationAt(ti))]]
  <2>1. captured' = Append(captured, e)
    BY <1>2
  <2> HIDE DEF e
  <2>2. Len(captured) + 1 = ti
    BY <1>1, <1>4
  <2>3. /\ Listed(captured') /\ Len(captured') = Len(captured) + 1
        /\ captured'[Len(captured) + 1] = e
        /\ \A k \in 1..Len(captured) : captured'[k] = captured[k]
    BY <1>4, <2>1, OneMore
  <2> QED  BY <1>4, <2>2, <2>3 DEF e
<1>6. /\ captured'[ti].type = order[ti] /\ Complete(captured'[ti].entries, samples)
      /\ Valued(captured'[ti].entries, samples, Duration(order[ti]))
  <2> DEFINE es == [g \in DOMAIN groups |-> Entry(groups[g], total, DurationAt(ti))]
  <2>1. captured'[ti].type = CurrentType /\ captured'[ti].entries = es
    BY <1>5
  <2>2. \A g \in DOMAIN groups : es[g].regex = {groups[g].stack} /\ es[g].labels = groups[g].labels
    BY DEF Entry
  <2>3. DOMAIN es = DOMAIN groups
    OBVIOUS
  <2>5. es = [g \in DOMAIN groups |-> Entry(groups[g], Total(groups), DurationAt(ti))]
    OBVIOUS
  <2> HIDE DEF es, samples
  <2>4. Complete(es, samples)
    BY <1>1, <2>2, <2>3, GroupsSuffice
  <2>6. Valued(es, samples, DurationAt(ti))
    BY <1>1, <2>5, GroupsValued
  <2> QED  BY <2>1, <2>4, <2>6 DEF CurrentType, DurationAt
<1>7. \A k \in 1..ti : /\ captured'[k].type = order[k]
                       /\ Complete(captured'[k].entries, typed[order[k]])
                       /\ Valued(captured'[k].entries, typed[order[k]], Duration(order[k]))
  <2> TAKE k \in 1..ti
  <2>1. CASE k = ti
    BY <1>6, <2>1 DEF CurrentType
  <2>2. CASE k # ti
    <3>1. k \in 1..ti - 1
      BY <1>1, <2>2
    <3>2. /\ captured[k].type = order[k] /\ Complete(captured[k].entries, typed[order[k]])
          /\ Valued(captured[k].entries, typed[order[k]], Duration(order[k]))
      BY <3>1 DEF Progress
    <3> QED  BY <1>5, <3>1, <3>2
  <2> QED  BY <2>1, <2>2
<1>8. ti' <= Len(order) => si' \in 1..Len(typed[CurrentType])' + 1 /\ (Collected(groups, typed[CurrentType], si - 1))'
  <2> SUFFICES ASSUME ti' <= Len(order)
               PROVE  si' \in 1..Len(typed[order[ti']]) + 1 /\ Collected(<<>>, typed[order[ti']], 0)
    BY <1>3 DEF CurrentType
  <2>1. phase = "capturing" /\ ti' \in DOMAIN order
    <3>0. phase = "capturing"
      BY Zenon DEF CloseType
    <3>1. phase = "capturing" /\ ti' \in 1..Len(order)
      BY <1>1, <1>3, <3>0
    <3>2. DOMAIN order = 1..Len(order)
      BY <3>1 DEF WellLoaded, Listed
    <3> QED  BY <3>1, <3>2
  <2>2. Len(typed[order[ti']]) \in Nat
    BY <2>1 DEF WellLoaded, Listed
  <2> QED  BY <1>3, <2>2, NothingCollected
<1>9. ti' \in 1..Len(order) + 1 /\ ti' - 1 = ti
  BY <1>1, <1>3
<1> QED  BY <1>3, <1>5, <1>7, <1>8, <1>9 DEF Progress

(* Capturing starts with the first type and no groups.                      *)
LEMMA LoadedStarts ==
  ASSUME CaptureInv, phase = "loading", UNCHANGED capture, phase' # "loading", WellLoaded'
  PROVE  Progress'
<1>1. ti' = 1 /\ si' = 1 /\ groups' = <<>> /\ captured' = <<>>
  BY DEF CaptureInv, capture
<1>2. Listed(order') /\ \A k \in DOMAIN order' : Listed(typed'[order'[k]])
  BY DEF WellLoaded, Listed
<1>3. Len(order') \in Nat /\ DOMAIN order' = 1..Len(order')
  BY <1>2 DEF Listed
<1>4. 1 <= Len(order') => Len(typed'[order'[1]]) \in Nat /\ Collected(<<>>, typed'[order'[1]], 0)
  BY <1>2, <1>3, NothingCollected DEF Listed
<1>5. Listed(<<>>) /\ Len(<<>>) = 0
  BY DEF Listed
<1> QED  BY <1>1, <1>3, <1>4, <1>5 DEF Progress, CurrentType

(* Every step of captureProfData keeps what it has put together.            *)
LEMMA CaptureStep ==
  CaptureInv /\ WellLoaded /\ WellLoaded' /\ [Next]_cvars => CaptureInv'
<1> SUFFICES ASSUME CaptureInv, WellLoaded, WellLoaded', [Next]_cvars  PROVE CaptureInv'
  OBVIOUS
<1>1. CASE Load /\ UNCHANGED capture
  <2>1. phase = "loading"
    BY <1>1 DEF Load, Finalize, FromOTLP, FromPprof
  <2>2. CASE phase' = "loading"
    BY <1>1, <2>1, <2>2 DEF CaptureInv, capture
  <2>3. CASE phase' # "loading"
    BY <1>1, <2>1, <2>3, LoadedStarts DEF CaptureInv
  <2> QED  BY <2>2, <2>3
<1>2. CASE Group
  <2>1. Progress /\ phase' = phase /\ phase = "capturing"
    BY <1>2 DEF CaptureInv, Group
  <2> QED  BY <1>2, <2>1, GroupCollects DEF CaptureInv
<1>3. CASE CloseType
  <2>1. Progress /\ phase' = phase /\ phase = "capturing"
    BY <1>3 DEF CaptureInv, CloseType
  <2> QED  BY <1>3, <2>1, CloseTypeCompletes DEF CaptureInv
<1>4. CASE Write
  <2>1. Progress /\ phase' = "written" /\ UNCHANGED <<order, typed, dur, ti, si, groups, captured>>
    BY <1>4 DEF CaptureInv, Write, set, capture
  <2>2. \A t : Duration(t)' = Duration(t)
    BY <2>1 DEF Duration
  <2> QED  BY <2>1, <2>2 DEF CaptureInv, Progress, CurrentType
<1>5. CASE UNCHANGED cvars
  <2>1. \A t : Duration(t)' = Duration(t)
    BY <1>5 DEF Duration, cvars, set
  <2> QED  BY <1>5, <2>1 DEF CaptureInv, Progress, CurrentType, cvars, set, capture
<1> QED  BY <1>1, <1>2, <1>3, <1>4, <1>5 DEF Next
-----------------------------------------------------------------------------
(* The dump.                                                                *)

(* A duration is a rational number that is not negative.                    *)
LEMMA DurationIsRatio ==
  ASSUME LoadInv, NEW t \in Type
  PROVE  Duration(t) \in [num : Nat, den : Nat \ {0}]
<1> DEFINE a == dur[t]
<1>1. a.num \in Nat /\ a.den \in Nat \ {0} /\ a.valueSum \in Nat
  BY DEF LoadInv, WellSet, ps
<1>2. a.valueSum * a.den \in Nat
  <2>1. \A i, j \in Nat : i * j \in Nat
    OBVIOUS
  <2> HIDE DEF a
  <2> QED  BY <1>1, <2>1
<1>3. Duration(t) = IF a.num = 0 THEN [num |-> 0, den |-> 1]
                    ELSE [num |-> a.valueSum * a.den, den |-> a.num]
  BY DEF Duration
<1> HIDE DEF a
<1> QED  BY <1>1, <1>2, <1>3

(* The sum an entry stands for.                                             *)
LEMMA RawIsNat ==
  ASSUME NEW samples, Listed(samples), \A p \in DOMAIN samples : samples[p].val \in Nat, NEW e
  PROVE  Raw(e, samples) \in Nat
<1> DEFINE n == Len(samples)
           x == [p \in DOMAIN samples |-> IF Grouped(e, samples[p]) THEN samples[p].val ELSE 0]
<1>1. n \in Nat /\ DOMAIN samples = 1..n
  BY DEF Listed
<1>2. \A p \in 1..n : x[p] \in Nat
  BY <1>1
<1> HIDE DEF x
<1>3. SumOf(x, n) \in Nat
  BY <1>1, <1>2, SumIsNat
<1> QED  BY <1>3 DEF Raw, x

(* An entry matches the samples it stands for; an exact one no others.      *)
LEMMA ExactMatchesItsOwn ==
  ASSUME NEW samples, NEW e, Exact(e, samples)
  PROVE  Matching(samples, e) = Raw(e, samples)
<1>1. ASSUME NEW s, Grouped(e, s)  PROVE Matches(s, e)
  <2>1. s.stack \in e.regex /\ ToSet(e.labels) = KeptLabels(s)
    BY <1>1 DEF Grouped
  <2>2. ASSUME NEW k \in DOMAIN e.labels
        PROVE  /\ e.labels[k].key \in DOMAIN s.labels
               /\ "values" \in DOMAIN e.labels[k] /\ s.labels[e.labels[k].key] = e.labels[k].values
    <3>1. e.labels[k] \in KeptLabels(s)
      BY <2>1 DEF ToSet
    <3>2. PICK key \in DOMAIN s.labels : e.labels[k] = [key |-> key, values |-> s.labels[key]]
      BY <3>1 DEF KeptLabels
    <3> QED  BY <3>2
  <2> QED  BY <2>1, <2>2 DEF Matches, CheckLabels
<1>2. \A p \in DOMAIN samples : Matches(samples[p], e) <=> Grouped(e, samples[p])
  BY <1>1 DEF Exact
<1>3. [k \in DOMAIN samples |-> IF Matches(samples[k], e) THEN samples[k].val ELSE 0] =
      [p \in DOMAIN samples |-> IF Grouped(e, samples[p]) THEN samples[p].val ELSE 0]
  BY <1>2
<1> QED  BY <1>3 DEF Matching, Raw

(* What is known of a type of the dump.                                     *)
LEMMA Dumped ==
  ASSUME CaptureInv, WellLoaded, LoadInv, NEW k \in DOMAIN captured
  PROVE  LET samples == typed[captured[k].type]
             D == Duration(captured[k].type)
         IN  /\ \A l \in DOMAIN captured : captured[l].type = captured[k].type => l = k
             /\ Listed(samples) /\ \A p \in DOMAIN samples : samples[p].val \in Nat
             /\ D \in [num : Nat, den : Nat \ {0}]
             /\ Complete(captured[k].entries, samples)
             /\ Valued(captured[k].entries, samples, D)
<1>1. CASE phase = "loading"
  BY <1>1 DEF CaptureInv
<1>2. CASE phase # "loading"
  <2>1. DOMAIN captured = 1..ti - 1 /\ Len(order) \in Nat /\ ti \in 1..Len(order) + 1
    BY <1>2 DEF CaptureInv, Progress, Listed, WellLoaded
  <2>2. \A l \in DOMAIN captured : l \in DOMAIN order /\ captured[l].type = order[l]
    BY <1>2, <2>1 DEF CaptureInv, Progress, Listed, WellLoaded
  <2>3. /\ Complete(captured[k].entries, typed[order[k]])
        /\ Valued(captured[k].entries, typed[order[k]], Duration(order[k]))
    BY <1>2, <2>1 DEF CaptureInv, Progress
  <2>4. order[k] \in Type
    BY <2>2 DEF LoadInv, WellSet, ps
  <2>5. Duration(order[k]) \in [num : Nat, den : Nat \ {0}]
    BY <2>4, DurationIsRatio
  <2> QED  BY <2>2, <2>3, <2>5 DEF WellLoaded
<1> QED  BY <1>1, <1>2

(* A complete dump has one entry for each group.                            *)
LEMMA CompleteMeansGrouped ==
  CaptureInv /\ WellLoaded /\ LoadInv => OneEntryPerGroup
<1> SUFFICES ASSUME CaptureInv, WellLoaded, LoadInv  PROVE OneEntryPerGroup
  OBVIOUS
<1>1. ASSUME NEW k \in DOMAIN captured
      PROVE  /\ \A l \in DOMAIN captured : captured[l].type = captured[k].type => l = k
             /\ Complete(captured[k].entries, typed[captured[k].type])
  BY Dumped
<1> QED  BY <1>1 DEF OneEntryPerGroup, Complete

(* The values of a dump are the rates of its groups.                        *)
LEMMA ValuedMeansRates ==
  CaptureInv /\ WellLoaded /\ LoadInv => RatesAreGrouped
<1> SUFFICES ASSUME CaptureInv, WellLoaded, LoadInv, NEW k \in DOMAIN captured,
                    NEW g \in DOMAIN captured[k].entries
             PROVE  LET e == captured[k].entries[g]
                        D == Duration(captured[k].type)
                        raw == Raw(e, typed[captured[k].type])
                    IN  IF D.num = 0 THEN e.value = raw
                        ELSE e.value * D.num <= raw * D.den /\ raw * D.den < (e.value + 1) * D.num
  BY DEF RatesAreGrouped, Raw
<1> DEFINE e == captured[k].entries[g]
           samples == typed[captured[k].type]
           D == Duration(captured[k].type)
           raw == Raw(e, samples)
<1>1. /\ Listed(samples) /\ \A p \in DOMAIN samples : samples[p].val \in Nat
      /\ D \in [num : Nat, den : Nat \ {0}] /\ e.value = Rate(raw, D)
  BY Dumped DEF Valued
<1> HIDE DEF e, samples, D
<1>2. raw \in Nat
  BY <1>1, RawIsNat
<1> HIDE DEF raw
<1>3. CASE D.num = 0
  BY <1>1, <1>3 DEF Rate, e, samples, D, raw
<1>4. CASE D.num # 0
  <2>1. D \in Durations
    BY <1>1, <1>4 DEF Durations
  <2>2. /\ e.value \in Nat /\ e.value * D.num <= raw * D.den
        /\ raw * D.den < e.value * D.num + D.num
    BY <1>1, <1>2, <2>1, RateTruncates
  <2>3. (e.value + 1) * D.num = e.value * D.num + D.num
    BY <1>1, <2>2
  <2> QED  BY <1>4, <2>2, <2>3 DEF e, samples, D, raw
<1> QED  BY <1>3, <1>4

(* The values of a dump are within the margin of what is asserted of them.  *)
LEMMA ValuedMeansRoundTrip ==
  CaptureInv /\ WellLoaded /\ LoadInv => RoundTrip
<1> SUFFICES ASSUME CaptureInv, WellLoaded, LoadInv, NEW k \in DOMAIN captured,
                    NEW g \in DOMAIN captured[k].entries
             PROVE  LET e == captured[k].entries[g]
                        samples == typed[captured[k].type]
                        m == Matching(samples, e)
                        D == Duration(captured[k].type)
                    IN  Exact(e, samples) =>
                          /\ PercentOk(m, Total(samples), e.percent, ErrorMargin)
                          /\ (e.value >= 100 \/ D.num = 0) =>
                               ValueOk(m, e.value, AnalysisDuration(TRUE, D), ErrorMargin)
  BY DEF RoundTrip
<1> DEFINE e == captured[k].entries[g]
           samples == typed[captured[k].type]
           D == Duration(captured[k].type)
           m == Matching(samples, e)
<1>1. /\ Listed(samples) /\ \A p \in DOMAIN samples : samples[p].val \in Nat
      /\ D \in [num : Nat, den : Nat \ {0}] /\ e.value = Rate(Raw(e, samples), D)
      /\ e.percent = PercentOf(Raw(e, samples), Total(samples))
  BY Dumped DEF Valued
<1> SUFFICES ASSUME Exact(e, samples)
             PROVE  /\ PercentOk(m, Total(samples), e.percent, ErrorMargin)
                    /\ (e.value >= 100 \/ D.num = 0) => ValueOk(m, e.value, AnalysisDuration(TRUE, D), ErrorMargin)
  OBVIOUS
<1> HIDE DEF e, samples, D
<1>2. m = Raw(e, samples) /\ m \in Nat /\ Total(samples) \in Nat
  BY <1>1, ExactMatchesItsOwn, RawIsNat, TotalIsNat
<1> HIDE DEF m
<1>3. ErrorMargin \in Nat \ {0} /\ AnalysisDuration(TRUE, D) = D
  BY CaptureAssumption DEF AnalysisDuration
<1>4. PercentOk(m, Total(samples), e.percent, ErrorMargin)
  <2> DEFINE q == PercentOf(m, Total(samples))
  <2>1. e.percent = q /\ q \in Int
    <3>1. \A i \in Nat, j \in Nat \ {0} : (i * 100) \div j \in Int
      OBVIOUS
    <3> QED  BY <1>1, <1>2, <3>1 DEF PercentOf
  <2> HIDE DEF q
  <2>2. AbsDiff(q, q) = 0
    BY <2>1 DEF AbsDiff
  <2> QED  BY <1>3, <2>1, <2>2 DEF PercentOk, q
<1>5. ASSUME D.num = 0  PROVE ValueOk(m, e.value, D, ErrorMargin)
  <2>1. e.value = m
    BY <1>1, <1>2, <1>5 DEF Rate
  <2>2. ValueOk(m, m, D, ErrorMargin) <=> 100 * AbsDiff(m * 1, m * 1) <= ErrorMargin * m * 1
    BY <1>5 DEF ValueOk
  <2>3. AbsDiff(m * 1, m * 1) = 0
    BY <1>2 DEF AbsDiff
  <2>4. 0 <= ErrorMargin * m * 1
    BY <1>2, <1>3
  <2> QED  BY <2>1, <2>2, <2>3, <2>4
<1>6. ASSUME D.num # 0, e.value >= 100  PROVE ValueOk(m, e.value, D, ErrorMargin)
  <2>1. D \in Durations
    BY <1>1, <1>6 DEF Durations
  <2>2. Rate(m, D) >= 100 /\ e.value = Rate(m, D)
    BY <1>1, <1>2, <1>6
  <2> QED  BY <1>2, <1>3, <2>1, <2>2, RateRoundTrip
<1> QED  BY <1>3, <1>4, <1>5, <1>6

(* What a file loads to, and what is captured of it so far.                 *)
LoadedAndCaptured == LoadInv /\ CaptureInv

(* No file is loaded and nothing captured at first.                         *)
LEMMA CaptureStarts == InitCapture => LoadedAndCaptured
BY LoadStarts DEF LoadedAndCaptured, InitCapture, LoadInit, CaptureInv

(* Loading keeps its invariant, and capturing what was loaded.              *)
LEMMA LoadHolds == Spec => []LoadInv
<1>1. LoadInv /\ [Next]_cvars => LoadInv'
  BY LoadStep DEF Next, Group, CloseType, Write, cvars, LoadInv, ps, set
<1> QED  BY <1>1, LoadStarts, PTL DEF Spec, InitCapture

(* The inductive invariant of loading and capturing.                        *)
LEMMA CaptureHolds ==
  ASSUME LabelsTellApart
  PROVE  Spec => [](LoadInv /\ WellLoaded /\ CaptureInv)
<1>1. LoadInv => WellLoaded
  BY LoadedWell
<1> QED  BY <1>1, LoadHolds, CaptureStarts, CaptureStep, PTL DEF Spec, LoadedAndCaptured

(* Whatever is loaded, a dump has one entry for each stack with its kept    *)
(* labels and none else, as long as labelsKey tells the labels apart:       *)
(* neither the order of the samples nor that of a map splits or joins       *)
(* groups (captureProfData).                                                *)
THEOREM GroupsStayWhole ==
  ASSUME LabelsTellApart
  PROVE  Spec => []OneEntryPerGroup
BY CaptureHolds, CompleteMeansGrouped, PTL

(* Whatever is loaded, the value of an entry is the rate of all samples it  *)
(* stands for, truncated once: no sample is lost, none is counted twice or  *)
(* in another group, and none is truncated for itself (captureProfData).    *)
THEOREM LowCountsSurvive ==
  ASSUME LabelsTellApart
  PROVE  Spec => []RatesAreGrouped
BY CaptureHolds, ValuedMeansRates, PTL

(* Whatever is loaded, an exact entry of a dump holds of the profile it was *)
(* captured from: its percentage is met exactly, and its value with the     *)
(* suggested margin of one percent or a larger one, unless that value is a  *)
(* rate below 100 per second (captureProfData,                              *)
(* assertStackWithFailureHandling).                                         *)
THEOREM DumpsBootstrap ==
  ASSUME LabelsTellApart
  PROVE  Spec => []RoundTrip
BY CaptureHolds, ValuedMeansRoundTrip, PTL
=============================================================================
