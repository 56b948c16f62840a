------------------------------ MODULE Capture ------------------------------
(***************************************************************************)
(* captureProfData: the dump of a loaded file.  Per type the samples are   *)
(* grouped by stack and kept labels, one at a time, then the groups get    *)
(* percentages of the total and rates over the type's duration.            *)
(***************************************************************************)
EXTENDS ProfileSet, TLC

CONSTANTS
  captureKeysToIgnore,  \* label keys that vary per sample or per run
  ErrorMargin           \* what the dump suggests, 1

(* Keys are numbers in the order of their names; a value is a sequence of  *)
(* characters, numbers too, and these are the ones of labelsKey.           *)
Equals == 0
Comma  == -1
Semi   == -2

ASSUME CaptureAssumption == ErrorMargin \in Nat \ {0}

VARIABLES
  ti,       \* the type being captured, as a position in order
  si,       \* the next of its samples
  groups,   \* its stack contents so far: [key, stack, labels, val]
  captured  \* the finished types: [type, entries]

capture == <<ti, si, groups, captured>>
cvars   == <<set, phase, capture>>

CurrentType == order[ti]

AsIterated(labels) == labels   \* mutant: the order of the map

(* A permutation of the labels, in the order of their keys.                 *)
SortByKey(labels) ==
  LET places == CHOOSE f \in SetToSeqs(DOMAIN labels) :
                  \A j, k \in DOMAIN labels : j < k => labels[f[j]].key <= labels[f[k]].key
  IN  [k \in DOMAIN labels |-> labels[places[k]]]

LabelsKey(labels) ==
  FlattenSeq([k \in DOMAIN labels |->
    <<labels[k].key, Equals>>
    \o FlattenSeq([p \in DOMAIN labels[k].values |-> Append(labels[k].values[p], Comma)])
    \o <<Semi>>])

KeptLabels(s) ==
  {[key |-> k, values |-> s.labels[k]] : k \in DOMAIN s.labels \ captureKeysToIgnore}

InitCapture == LoadInit /\ ti = 1 /\ si = 1 /\ groups = <<>> /\ captured = <<>>

(* The labels come out of a map in any order.                               *)
Group ==
  /\ phase = "capturing" /\ ti <= Len(order) /\ si <= Len(typed[CurrentType])
  /\ LET s == typed[CurrentType][si]
     IN  \E iterated \in SetToSeqs(KeptLabels(s)) :
           LET labels == SortByKey(iterated)
               key    == <<s.stack, LabelsKey(labels)>>
               idx    == {g \in DOMAIN groups : groups[g].key = key}
           IN groups' = IF idx # {} THEN [g \in DOMAIN groups |->
                          IF g \in idx THEN [groups[g] EXCEPT !.val = @ + s.val] ELSE groups[g]]
                        ELSE Append(groups, [key |-> key, stack |-> s.stack,
                                             labels |-> labels, val |-> s.val])
  /\ si' = si + 1
  /\ UNCHANGED <<set, phase, ti, captured>>

FirstDuration(k) == Duration(order[1])   \* mutant: one duration for the file

DurationAt(k) == Duration(order[k])

Rate(v, D) == IF D.num = 0 THEN v ELSE (v * D.den) \div D.num

Unscaled(g, total, D) ==   \* mutant: the percentage of a rate
  [regex |-> {g.stack}, labels |-> g.labels, percent |-> PercentOf(Rate(g.val, D), total),
   value |-> Rate(g.val, D)]

(* Percentages are of the raw values, scaling comes last.  A total of 0     *)
(* leaves the percentage out; it is 0 here.                                 *)
Entry(g, total, D) ==
  [regex |-> {g.stack}, labels |-> g.labels, percent |-> PercentOf(g.val, total),
   value |-> Rate(g.val, D)]

CloseType ==
  /\ phase = "capturing" /\ ti <= Len(order) /\ si > Len(typed[CurrentType])
  /\ LET total == Total(groups)
     IN  captured' = Append(captured, [type |-> CurrentType, entries |->
           [g \in DOMAIN groups |-> Entry(groups[g], total, DurationAt(ti))]])
  /\ ti' = ti + 1 /\ si' = 1 /\ groups' = <<>>
  /\ UNCHANGED <<set, phase>>

Write ==
  /\ phase = "capturing" /\ ti > Len(order)
  /\ phase' = "written"
  /\ UNCHANGED <<set, capture>>

Next == (Load /\ UNCHANGED capture) \/ Group \/ CloseType \/ Write

Spec == InitCapture /\ [][Next]_cvars
-----------------------------------------------------------------------------
Grouped(e, s) == e.regex = {s.stack} /\ ToSet(e.labels) = KeptLabels(s)

(* The dump has each type once, and in it exactly one entry for each stack  *)
(* with its kept labels: neither the order of profiles or of a map nor a    *)
(* volatile label splits a group.                                           *)
OneEntryPerGroup ==
  \A k \in DOMAIN captured :
    LET entries == captured[k].entries
        samples == typed[captured[k].type]
    IN  /\ \A l \in DOMAIN captured : captured[l].type = captured[k].type => l = k
        /\ \A p \in DOMAIN samples :
             Cardinality({g \in DOMAIN entries : Grouped(entries[g], samples[p])}) = 1
        /\ \A g \in DOMAIN entries : \E p \in DOMAIN samples : Grouped(entries[g], samples[p])

(* labelsKey tells the labels of two samples apart, whatever order they are *)
(* in.  (It does not those whose values contain its separators.)            *)
KeysTellApart(samples) ==
  \A p, q \in DOMAIN samples :
    /\ IsFiniteSet(DOMAIN samples[p].labels) /\ DOMAIN samples[p].labels \subseteq Int
    /\ \A a \in SetToSeqs(KeptLabels(samples[p])), b \in SetToSeqs(KeptLabels(samples[q])) :
         LabelsKey(a) = LabelsKey(b) => ToSet(a) = ToSet(b)
LabelsTellApart == KeysTellApart([s \in Samples |-> s])

(* Only samples of its own group satisfy the entry.                         *)
Exact(e, samples) == \A p \in DOMAIN samples : Matches(samples[p], e) => Grouped(e, samples[p])

(* A dump bootstraps an expectation that holds of the profile it came from: *)
(* with the suggested margin the percentage of every exact entry is         *)
(* asserted successfully, and, scaled by the duration, so is every value    *)
(* that truncation does not take more than the margin from.                 *)
RoundTrip ==
  \A k \in DOMAIN captured : \A g \in DOMAIN captured[k].entries :
    LET e == captured[k].entries[g]
        samples == typed[captured[k].type]
        m == Matching(samples, e)
        D == Duration(captured[k].type)
    IN  Exact(e, samples) =>
          /\ PercentOk(m, Total(samples), e.percent, ErrorMargin)
          /\ (e.value >= 100 \/ D.num = 0) => ValueOk(m, e.value, AnalysisDuration(TRUE, D), ErrorMargin)

(* Low counts survive: a group is summed before it is scaled, so its rate   *)
(* is that of all its samples, less than 1 too small.                       *)
RatesAreGrouped ==
  \A k \in DOMAIN captured : \A g \in DOMAIN captured[k].entries :
    LET e == captured[k].entries[g]
        samples == typed[captured[k].type]
        D == Duration(captured[k].type)
        raw == SumOf([p \in DOMAIN samples |-> IF Grouped(e, samples[p]) THEN samples[p].val ELSE 0],
                     Len(samples))
    IN  IF D.num = 0 THEN e.value = raw
        ELSE e.value * D.num <= raw * D.den /\ raw * D.den < (e.value + 1) * D.num
=============================================================================
