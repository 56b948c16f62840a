----------------------------- MODULE ProfileSet -----------------------------
(***************************************************************************)
(* The neutral model of one profile file: samples per profile type in the  *)
(* order the adapters add them, and a duration per type that aggregates    *)
(* the durations of all profiles of that type.  Floats are exact           *)
(* rationals, values are not negative.                                     *)
(***************************************************************************)
EXTENDS Assertions, FiniteSets

CONSTANTS
  Type,        \* names of profile types
  Profiles,    \* profiles an OTLP file may carry: [type, samples, secs]
  PprofFiles,  \* pprof files: a profile per sample type, all of one duration
  MaxProfiles  \* bound: profiles per OTLP file

Total(samples) == SumOf([k \in DOMAIN samples |-> samples[k].val], Len(samples))

Listed(s) == Len(s) \in Nat /\ s = [k \in 1..Len(s) |-> s[k]]

Shaped(p) ==
  /\ DOMAIN p = {"type", "samples", "secs"} /\ p.type \in Type /\ p.secs \in Nat
  /\ Listed(p.samples) /\ \A k \in DOMAIN p.samples : p.samples[k].val \in Nat

ASSUME ProfileSetAssumption ==
  /\ \A p \in Profiles : Shaped(p)
  /\ \A f \in PprofFiles : Listed(f) /\ \A k \in DOMAIN f : Shaped(f[k]) /\ f[k].secs = f[1].secs
  /\ MaxProfiles \in Nat

(* The profiles a file may carry, and their samples.                        *)
Carriable == Profiles \cup UNION {{f[k] : k \in DOMAIN f} : f \in PprofFiles}
Samples == UNION {{p.samples[k] : k \in DOMAIN p.samples} : p \in Carriable}

VARIABLES
  order,    \* the types that have samples, in first-seen order
  typed,    \* the samples of each type
  dur,      \* per type: valueSum, and rateSum as num/den
  carried,  \* history: the profiles the file carries
  phase     \* "loading", "capturing" or "written"

set == <<order, typed, dur, carried>>

ps == [order |-> order, typed |-> typed, dur |-> dur]

EmptySet == [order |-> <<>>,
             typed |-> [t \in Type |-> <<>>],
             dur   |-> [t \in Type |-> [valueSum |-> 0, num |-> 0, den |-> 1]]]

LastDuration(agg, total, secs) ==   \* mutant: the last profile's duration wins
  IF secs = 0 THEN agg
  ELSE [valueSum |-> agg.valueSum + total, num |-> agg.valueSum + total, den |-> secs]

(* addProfileDuration; a snapshot is ignored.                               *)
AddDuration(agg, total, secs) ==
  IF secs = 0 THEN agg
  ELSE [valueSum |-> agg.valueSum + total,
        num |-> agg.num * secs + total * agg.den, den |-> agg.den * secs]

Seen(s, p) ==
  IF p.samples = <<>> \/ s.typed[p.type] # <<>> THEN s.order ELSE Append(s.order, p.type)

(* add for every sample of a profile, then addProfileDuration.              *)
Added(s, p) ==
  [order |-> Seen(s, p),
   typed |-> [s.typed EXCEPT ![p.type] = @ \o p.samples],
   dur   |-> [s.dur EXCEPT ![p.type] = AddDuration(@, Total(p.samples), p.secs)]]

Becomes(s) == order' = s.order /\ typed' = s.typed /\ dur' = s.dur

LoadInit ==
  /\ order = EmptySet.order /\ typed = EmptySet.typed /\ dur = EmptySet.dur
  /\ carried = <<>> /\ phase = "loading"

(* FromOTLP, one turn of its innermost loop over profiles.                  *)
FromOTLP(p) ==
  /\ phase = "loading" /\ Len(carried) < MaxProfiles
  /\ Becomes(Added(ps, p))
  /\ carried' = Append(carried, p)
  /\ UNCHANGED phase

(* A stable sort by descending value.                                       *)
Place(samples, p) ==
  Cardinality({q \in DOMAIN samples : \/ samples[q].val > samples[p].val
                                      \/ samples[q].val = samples[p].val /\ q <= p})

Sorted(samples) ==
  [k \in DOMAIN samples |-> samples[CHOOSE p \in DOMAIN samples : Place(samples, p) = k]]

SortedSamples(samples) == [t \in Type |-> Sorted(samples[t])]

AddedAll(s, f) ==
  LET after[k \in 0..Len(f)] == IF k = 0 THEN s ELSE Added(after[k - 1], f[k])
  IN  after[Len(f)]

(* FromPprof: every sample has a value of every type.                       *)
FromPprof(f) ==
  /\ phase = "loading" /\ carried = <<>>
  /\ LET s == AddedAll(ps, f)
     IN  Becomes([s EXCEPT !.typed = SortedSamples(s.typed)])
  /\ carried' = f
  /\ phase' = "capturing"

(* The end of FromOTLP.                                                     *)
Finalize ==
  /\ phase = "loading"
  /\ typed' = SortedSamples(typed)
  /\ phase' = "capturing"
  /\ UNCHANGED <<order, dur, carried>>

Load == Finalize \/ (\E p \in Profiles : FromOTLP(p)) \/ (\E f \in PprofFiles : FromPprof(f))

(* The effective duration num/den of a type; 0 for a snapshot.              *)
Duration(t) ==
  IF dur[t].num = 0 THEN [num |-> 0, den |-> 1]
  ELSE [num |-> dur[t].valueSum * dur[t].den, den |-> dur[t].num]
-----------------------------------------------------------------------------
Timed(t) == {k \in DOMAIN carried : carried[k].type = t /\ carried[k].secs > 0}
Untimed(t) == {k \in DOMAIN carried : carried[k].type = t /\ carried[k].secs = 0}

ProductOf(x, n) ==
  LET product[k \in 0..n] == IF k = 0 THEN 1 ELSE product[k - 1] * x[k]
  IN  product[n]

(* Something every duration divides.                                        *)
Common ==
  ProductOf([k \in DOMAIN carried |-> IF carried[k].secs = 0 THEN 1 ELSE carried[k].secs], Len(carried))

(* total/Duration is the rate at which the profiles of a type measured,     *)
(* sum of value/duration, whatever their durations and their order; unless  *)
(* snapshots are mixed in, whose values have no rate.                       *)
AggregateRate ==
  \A t \in Type :
    LET rates == SumOf([k \in DOMAIN carried |->
                   IF k \in Timed(t) THEN Total(carried[k].samples) * (Common \div carried[k].secs)
                   ELSE 0], Len(carried))
    IN  /\ Untimed(t) = {} =>
             Total(typed[t]) * Duration(t).den * Common = rates * Duration(t).num
        /\ Timed(t) = {} => Duration(t).num = 0
=============================================================================
