----------------------------- MODULE HeapBudget -----------------------------
(***************************************************************************)
(* flaky_ruby_heap: a loop that allocates, drops and sleeps, and must run  *)
(* loops_per_sec * test_duration times, because the values in the profile  *)
(* are absolute.  sleep_budget carries over what a sleep or the work took  *)
(* too long.                                                               *)
(***************************************************************************)
EXTENDS Integers

CONSTANTS
  Each,      \* time_per_loop
  Loops,     \* total_loops
  Works,     \* how long the work of a loop may take
  Oversleeps, \* by how much a sleep may be longer
  Gaps       \* time between the last reading of the clock in a loop and the next

VARIABLES
  clock,        \* time since the loop was started
  sleep_budget,
  iterations,
  unseen,       \* time between two readings that no budget makes up for
  over          \* the loop has ended

vars == <<clock, sleep_budget, iterations, unseen, over>>

Init == clock = 0 /\ sleep_budget = 0 /\ iterations = 0 /\ unseen = 0 /\ over = FALSE

End_time == Each * Loops

Afresh(work) == Each - work   \* mutant: each loop sleeps for the rest of its own time

Budget(work) == sleep_budget + Each - work

(* A sleep of nothing may still take a while.                               *)
Loop(work, oversleep, gap) ==
  /\ ~over /\ clock < End_time
  /\ LET budget == Budget(work)
         slept == (IF budget > 0 THEN budget ELSE 0) + oversleep
     IN  /\ sleep_budget' = budget - slept
         /\ clock' = clock + work + slept + gap
  /\ unseen' = unseen + gap
  /\ iterations' = iterations + 1
  /\ UNCHANGED over

Finish ==
  /\ ~over /\ clock >= End_time
  /\ over' = TRUE
  /\ UNCHANGED <<clock, sleep_budget, iterations, unseen>>

Next ==
  \/ \E w \in Works, o \in Oversleeps, g \in Gaps : Loop(w, o, g)
  \/ Finish

Spec == Init /\ [][Next]_vars
-----------------------------------------------------------------------------
TypeOK ==
  /\ clock \in Nat /\ sleep_budget \in Int /\ iterations \in Nat
  /\ unseen \in Nat /\ over \in BOOLEAN

Behind == unseen - sleep_budget

(* "we need to ensure that we actually ran for test_duration *              *)
(* loops_per_sec": never more loops, and not one less unless the last loops *)
(* left it behind by a whole loop.                                          *)
LoopsKept ==
  over => /\ iterations <= Loops
          /\ Behind < Each => iterations = Loops
=============================================================================
