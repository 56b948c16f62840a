----------------------------- MODULE Assertions -----------------------------
(***************************************************************************)
(* What the analyzer asserts of the samples of one profile type.  A        *)
(* sample is [stack, val, labels] with labels a function from keys to      *)
(* sorted lists of values.  A regular expression is the set of stacks, or  *)
(* of values, it matches; durations are rationals num/den.                 *)
(***************************************************************************)
EXTENDS Integers, Sequences, SequencesExt

(* The sum of the first n elements of a list of numbers.                    *)
SumOf(x, n) ==
  LET sum[k \in 0..n] == IF k = 0 THEN 0 ELSE sum[k - 1] + x[k]
  IN  sum[n]

(* An expected label has a key and either a list "values" or the set        *)
(* "regex" of the values its values_regex matches.                          *)
CheckLabels(labels, expected) ==
  \A k \in DOMAIN expected :
    LET l == expected[k]
    IN  /\ l.key \in DOMAIN labels
        /\ IF "values" \in DOMAIN l THEN labels[l.key] = l.values
           ELSE \A p \in DOMAIN labels[l.key] : labels[l.key][p] \in l.regex

Matches(s, e) == s.stack \in e.regex /\ CheckLabels(s.labels, e.labels)

(* The sum the matching samples have.                                       *)
Matching(samples, e) ==
  SumOf([k \in DOMAIN samples |-> IF Matches(samples[k], e) THEN samples[k].val ELSE 0],
        Len(samples))

PercentOf(v, total) == IF total = 0 THEN 0 ELSE (v * 100) \div total

AbsDiff(x, y) == IF x < y THEN y - x ELSE x - y

(* Without scale_by_duration values are taken as absolute.                  *)
AnalysisDuration(scaleByDuration, D) == IF scaleByDuration THEN D ELSE [num |-> 0, den |-> 1]

(* relDiff(m, v * D) <= margin; of nothing expected, only nothing is close. *)
ValueOk(m, v, D, margin) ==
  LET scaled == IF D.num > 0 THEN D ELSE [num |-> 1, den |-> 1]
  IN  100 * AbsDiff(m * scaled.den, v * scaled.num) <= margin * v * scaled.num

PercentOk(m, total, percent, margin) == AbsDiff(percent, PercentOf(m, total)) <= margin
=============================================================================
