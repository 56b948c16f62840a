------------------------------ MODULE CpuShares ------------------------------
(***************************************************************************)
(* Programs whose two functions are to take a third and two thirds of the  *)
(* CPU: ddprof_inline by the clock, in rounds of a second; clang_pie and   *)
(* full_host by the amount of work, in whole pairs a, b.  Times are in     *)
(* milliseconds.                                                           *)
(***************************************************************************)
EXTENDS Assertions

CONSTANTS
  Rounds,     \* bound of EXECUTION_TIME_SEC, and of the pairs that fit in
  Stalls,     \* how long a call of ddprof_inline may be kept off the CPU
  Overruns,   \* by how much its last batch of work may pass the end time
  PairTimes   \* what 10^8 turns of the loop may take

VARIABLES
  kind,     \* "none", "inline", "clang_pie" or "full_host"
  todo,     \* rounds or pairs still to do
  calling,  \* the function to call next: "first" or "second"
  began,    \* how far the round is
  cpu       \* CPU time of each function

vars == <<kind, todo, calling, began, cpu>>

Init ==
  /\ kind = "none" /\ todo = 0 /\ calling = "first" /\ began = 0
  /\ cpu = [f \in {"first", "second"} |-> 0]

Charge(f, t) == cpu' = [cpu EXCEPT ![f] = @ + t]
Rest(x) == IF x > 0 THEN x ELSE 0

(* atoi gives 0 for what is no number: ddprof_inline then does no round and *)
(* returns 0, the others exit with 1; without the variable it is refused.   *)
BeginRounds(k, n) ==
  /\ kind = "none"
  /\ kind' = k /\ todo' = n
  /\ UNCHANGED <<calling, began, cpu>>

(* intensiveTask works until 333 ms after the start of the round.           *)
Intensive(stall, over) ==
  /\ kind = "inline" /\ calling = "first" /\ todo > 0
  /\ Charge("first", 333 - stall + over)
  /\ began' = 333 + over /\ calling' = "second"
  /\ UNCHANGED <<kind, todo>>

SecondAfter(b) == 1000   \* mutant: foo is given a second of its own

(* foo works until 1000 ms after the start of the round.                    *)
UntilEnd(b) == Rest(1000 - b)

Foo(stall, over) ==
  /\ kind = "inline" /\ calling = "second"
  /\ Charge("second", UntilEnd(began) - stall + over)
  /\ began' = 0 /\ calling' = "first" /\ todo' = todo - 1
  /\ UNCHANGED kind

Units == IF kind = "full_host" THEN 5 ELSE 1   \* a's loop, in 10^8 turns

(* The clock is only looked at between pairs; how many fit is open.  (timeout*)
(* stops full_host in the middle of one; nothing asserts its shares.)       *)
A(t) ==
  /\ kind \in {"clang_pie", "full_host"} /\ calling = "first" /\ todo > 0
  /\ Charge("first", Units * t)
  /\ calling' = "second"
  /\ UNCHANGED <<kind, todo, began>>

B(t) ==
  /\ kind \in {"clang_pie", "full_host"} /\ calling = "second"
  /\ Charge("second", 2 * Units * t)
  /\ calling' = "first" /\ todo' = todo - 1
  /\ UNCHANGED <<kind, began>>

Next ==
  \/ \E k \in {"inline", "clang_pie", "full_host"}, n \in 0..Rounds : BeginRounds(k, n)
  \/ \E s \in Stalls, o \in Overruns : Intensive(s, o)
  \/ \E s \in Stalls, o \in Overruns : Foo(s, o)
  \/ \E t \in PairTimes : A(t)
  \/ \E t \in PairTimes : B(t)

Spec == Init /\ [][Next]_vars

-----------------------------------------------------------------------------
TypeOK ==
  /\ kind \in {"none", "inline", "clang_pie", "full_host"} /\ todo \in 0..Rounds
  /\ calling \in {"first", "second"} /\ began \in Nat
  /\ cpu \in [{"first", "second"} -> Int]

(* What the margins of expected_profile.json leave room for: a call of      *)
(* ddprof_inline is kept off the CPU for some 40 ms at most and its last    *)
(* batch overruns by some 10 ms; all loops run at much the same pace.       *)
SteadyClock ==
  /\ \A s, t \in Stalls, o, p \in Overruns : 70 * s + 30 * p < 3300 /\ 37 * t + 100 * o < 3700
  /\ \A t, u \in PairTimes : 46 * u < 77 * t /\ 7 * t < 11 * u

(* After every round, whatever the batches overran and the scheduler took   *)
(* away, the shares are those expected_profile.json asserts of              *)
(* ddprof_inline and clang_pie: what one function overran is not made up by *)
(* a longer round.                                                          *)
ThirdsKept ==
  LET total == cpu["first"] + cpu["second"]
      margin == IF kind = "inline" THEN 3 ELSE 10
  IN  calling = "first" /\ total > 0 =>
        /\ PercentOk(cpu["first"], total, 33, margin)
        /\ PercentOk(cpu["second"], total, 66, margin)

Ended == kind # "none" /\ todo = 0 /\ calling = "first"
=============================================================================
