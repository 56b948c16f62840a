------------------------------ MODULE LiveHeap ------------------------------
(***************************************************************************)
(* ddprof_live_heap: the main thread allocates, and leaks every third      *)
(* turn, until the clock passes its end; built with THREADED_TEST, workers *)
(* do the same until it clears the atomic running, and it joins them.      *)
(***************************************************************************)
EXTENDS Integers

CONSTANTS
  Workers,    \* the threads
  MaxSeconds  \* bound of EXECUTION_TIME_SEC

VARIABLES
  main,      \* where main is
  seconds,   \* until its end
  running,   \* the flag
  worker,    \* each worker: "none", "test" (of running), "turn" or "done"
  late       \* turns each worker began after running was cleared

vars == <<main, seconds, running, worker, late>>

Init ==
  /\ main = "start" /\ seconds = 0 /\ running = TRUE
  /\ worker = [w \in Workers |-> "none"]
  /\ late = [w \in Workers |-> 0]

Be(w, what) == worker' = [worker EXCEPT ![w] = what]

(* EXECUTION_TIME_SEC of 0, or no number, is refused; negative ends at once.*)
Begin(n, threaded) ==
  /\ main = "start"
  /\ main' = IF n = 0 THEN "failed" ELSE IF threaded THEN "spawn" ELSE "loop"
  /\ seconds' = n
  /\ UNCHANGED <<running, worker, late>>

(* The clock of the end starts once all workers do.                         *)
SpawnWorker(w) ==
  /\ main = "spawn" /\ worker[w] = "none"
  /\ Be(w, "test")
  /\ main' = IF \A x \in Workers \ {w} : worker[x] # "none" THEN "loop" ELSE "spawn"
  /\ UNCHANGED <<seconds, running, late>>

(* The vector of threads already started is destroyed: std::terminate.      *)
SpawnFails ==
  /\ main = "spawn" /\ main' = "failed"
  /\ UNCHANGED <<seconds, running, worker, late>>

Second == /\ main = "loop" /\ seconds > 0
           /\ seconds' = seconds - 1
           /\ UNCHANGED <<main, running, worker, late>>

KeepRunning == running   \* mutant: the workers are not told

Clear == FALSE

Stop ==
  /\ main = "loop" /\ seconds <= 0
  /\ running' = Clear
  /\ main' = "join"
  /\ UNCHANGED <<seconds, worker, late>>

Test(w) ==
  /\ main # "failed" /\ worker[w] = "test"
  /\ Be(w, IF running THEN "turn" ELSE "done")
  /\ UNCHANGED <<main, seconds, running, late>>

(* Allocations, the leak of every third turn and the sleep.                 *)
TakeTurn(w) ==
  /\ main # "failed" /\ worker[w] = "turn"
  /\ Be(w, "test")
  /\ late' = IF running THEN late ELSE [late EXCEPT ![w] = @ + 1]
  /\ UNCHANGED <<main, seconds, running>>

Return ==
  /\ main = "join" /\ \A w \in Workers : worker[w] \in {"none", "done"}
  /\ main' = "ended"
  /\ UNCHANGED <<seconds, running, worker, late>>

Work(w) == Test(w) \/ TakeTurn(w)

Main ==
  \/ \E n \in -1..MaxSeconds, threaded \in BOOLEAN : Begin(n, threaded)
  \/ \E w \in Workers : SpawnWorker(w)
  \/ SpawnFails \/ Second \/ Stop \/ Return

Next == Main \/ \E w \in Workers : Work(w)

Spec == Init /\ [][Next]_vars
-----------------------------------------------------------------------------
TypeOK ==
  /\ main \in {"start", "spawn", "loop", "join", "failed", "ended"}
  /\ seconds \in -1..MaxSeconds /\ running \in BOOLEAN
  /\ worker \in [Workers -> {"none", "test", "turn", "done"}]
  /\ late \in [Workers -> Nat]

(* A worker finishes at most the turn it is in when main stops, and none is *)
(* left when main returns.                                                  *)
StopsTogether ==
  /\ \A w \in Workers : late[w] <= 1
  /\ main = "ended" => \A w \in Workers : worker[w] \in {"none", "done"}

Ended == main \in {"failed", "ended"}
=============================================================================
