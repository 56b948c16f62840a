------------------------------- MODULE Pacing -------------------------------
(***************************************************************************)
(* do_lot_of_allocations of simple_malloc: a thread allocates once or      *)
(* twice a turn and pauses in between.  Every Interval turns it compares   *)
(* the time an allocation took with the target and corrects the pause by a *)
(* third of the difference, until the deadline or the last turn.           *)
(***************************************************************************)
EXTENDS Integers

CONSTANTS
  Target,      \* target_duration: a second over alloc_per_sec
  Interval,    \* REEVALUATE_INTERVAL
  Spin,        \* spin_duration_per_loop
  Costs,       \* what a turn takes beside its pause and the spinning
  Deadline,    \* timeout_duration
  SettlesIn,   \* evaluations after which the pace has settled
  MaxChanges,  \* bound: how often the load changes
  MaxSlow      \* bound: evaluations under a load that no pause makes up for

VARIABLES
  perTurn,   \* allocations in a turn: malloc, realloc, or both
  pause,     \* duration_between_allocs
  turn,      \* turns since the last evaluation
  elapsed,   \* time since the last evaluation
  counted,   \* curr_alloc_count - prev_alloc_count
  left,      \* time until the deadline, 0 once it has passed
  load,      \* what a turn costs now
  settled,   \* evaluations since the load changed
  changes, slow   \* how often it changed, evaluations that were too slow

load_vars == <<load, settled, changes, slow>>
vars == <<perTurn, pause, turn, elapsed, counted, left, load_vars>>

Init ==
  /\ perTurn = 0 /\ load = 0
  /\ pause = Target /\ turn = 0 /\ elapsed = 0 /\ counted = 0
  /\ left = Deadline /\ settled = 0 /\ changes = 0 /\ slow = 0

(* With neither malloc nor realloc the evaluation would divide by zero.     *)
Begin(n, c) ==
  /\ perTurn = 0
  /\ perTurn' = n /\ load' = c
  /\ UNCHANGED <<pause, turn, elapsed, counted, left, settled, changes, slow>>

Third(x) == IF x >= 0 THEN x \div 3 ELSE -((-x) \div 3)   \* as C++ divides
Later(x, y) == IF x > y THEN x - y ELSE 0

Slept(p) == IF p > 0 THEN p ELSE 0   \* sleep_for

Corrected(e, n) == pause - Third((e \div n) - Target)

CountAgain(n) == n   \* mutant: prev_alloc_count is not reset

CountFrom(n) == 0

Achievable == load + Spin <= perTurn * Target

(* One turn of the loop, and the evaluation when it is due; the deadline is *)
(* looked at last.                                                          *)
Turn ==
  /\ perTurn > 0 /\ left > 0
  /\ LET due == turn + 1 = Interval
         e == elapsed + load
         n == counted + perTurn
         p == IF due THEN Corrected(e, n) ELSE pause
         rest == Slept(p) + Spin
     IN  /\ pause' = p
         /\ turn' = IF due THEN 0 ELSE turn + 1
         /\ counted' = IF due THEN CountFrom(n) ELSE n
         /\ elapsed' = rest + IF due THEN 0 ELSE e
         /\ left' = Later(left, load + rest)
         /\ settled' = IF due /\ settled < SettlesIn THEN settled + 1 ELSE settled
         /\ slow' = IF due /\ ~Achievable THEN slow + 1 ELSE slow
  /\ Achievable \/ slow < MaxSlow
  /\ UNCHANGED <<perTurn, load, changes>>

(* The machine gets faster or slower.                                       *)
Change(c) ==
  /\ perTurn > 0 /\ c # load /\ (changes < MaxChanges \/ ~Achievable) /\ turn = 0 /\ left > 0
  /\ load' = c /\ settled' = 0 /\ changes' = changes + 1
  /\ UNCHANGED <<perTurn, pause, turn, elapsed, counted, left, slow>>

Next ==
  \/ \E n \in 1..2, c \in Costs : Begin(n, c)
  \/ Turn
  \/ \E c \in Costs : Change(c)

Ended == left = 0
Spec == Init /\ [][Next]_vars
-----------------------------------------------------------------------------
TypeOK ==
  /\ perTurn \in 0..2 /\ pause \in Int /\ turn \in 0..Interval - 1
  /\ elapsed \in Nat /\ counted = perTurn * turn
  /\ left \in Nat /\ load \in Costs \cup {0}
  /\ settled \in Nat /\ changes \in Nat /\ slow \in Nat

(* The pauses alone never hold the allocations below the target: whatever   *)
(* the load was, a pause never grows beyond the time the allocations of a   *)
(* turn are meant to take, but for the rounding of the first evaluation,    *)
(* which sees one pause less than turns.                                    *)
NeverThrottled == perTurn > 0 => pause <= perTurn * Target + (Target \div (3 * Interval)) + 1

(* Under a load that can be made up for, the rate comes to the target and   *)
(* stays there, also after a load that could not ("Re-evaluate              *)
(* duration_between_allocs").                                               *)
Near(x, n, c) ==
  LET off == c + Spin + Slept(x) - n * Target
  IN  off <= 3 * n /\ -off <= 3 * n
Settles == perTurn > 0 /\ settled >= SettlesIn /\ Achievable => Near(pause, perTurn, load)

(* What SettlesIn has to be for that: k evaluations of turns that cost c    *)
(* correct a pause of x, ...                                                *)
Evaluated(x, n, c) == x - Third((c + Spin + Slept(x)) \div n - Target)
After(x, n, c, k) ==
  LET after[j \in 0..k] == IF j = 0 THEN x ELSE Evaluated(after[j - 1], n, c)
  IN  after[k]

(* ... and one less than SettlesIn is enough from wherever MaxSlow          *)
(* evaluations of the slowest turns, worst, may have taken the pause.       *)
Drop(n, worst) == LET d == Third((worst + Spin) \div n - Target) IN IF d > 0 THEN d ELSE 0
Pauses(n, worst) == -(MaxSlow * Drop(n, worst)) .. n * Target + (Target \div (3 * Interval)) + 1
SettlesFrom(worst) ==
  \A c \in Costs :
    /\ c <= worst
    /\ \A n \in 1..2 : c + Spin <= n * Target =>
         \A x \in Pauses(n, worst) : Near(After(x, n, c, SettlesIn - 1), n, c)
SettlesSoon == \E worst \in Costs : SettlesFrom(worst)
=============================================================================
