----------------------------- MODULE Rendezvous -----------------------------
(***************************************************************************)
(* python_many_threads: NUM_WORKERS threads and the main thread meet at a  *)
(* barrier once the profiler is started; the workers then count until the  *)
(* end, and the main thread joins them.                                    *)
(***************************************************************************)
EXTENDS Integers, FiniteSets

CONSTANT Hands   \* the workers

VARIABLES
  script,     \* the main thread: "start", "profile", "wait", "join", "ended", "raised"
  hand,       \* each worker: "new", "begun", "waiting", "working", "done"
  met,        \* whether the barrier has let everybody go
  profiling,  \* whether the profiler runs
  worked      \* workers that have worked

vars == <<script, hand, met, profiling, worked>>

Init ==
  /\ script = "start" /\ hand = [h \in Hands |-> "new"]
  /\ met = FALSE /\ profiling = FALSE /\ worked = {}

Becomes(h, what) == hand' = [hand EXCEPT ![h] = what]

StartHand(h) ==
  /\ script = "start" /\ hand[h] = "new"
  /\ Becomes(h, "begun")
  /\ script' = IF \A x \in Hands \ {h} : hand[x] # "new" THEN "profile" ELSE "start"
  /\ UNCHANGED <<met, profiling, worked>>

(* No thread can be started, or the profiler cannot: the main thread ends   *)
(* with the exception, and the interpreter waits for the workers.           *)
Raise ==
  /\ script \in {"start", "profile"}
  /\ script' = "raised"
  /\ UNCHANGED <<hand, met, profiling, worked>>

StartProfiler ==
  /\ script = "profile"
  /\ profiling' = TRUE /\ script' = "wait"
  /\ UNCHANGED <<hand, met, worked>>

OnlyHands == Cardinality(Hands)   \* mutant: the barrier does not count the main thread

Parties == Cardinality(Hands) + 1

Waiting == Cardinality({h \in Hands : hand[h] = "waiting"}) + (IF script = "join" THEN 1 ELSE 0)

(* The last party to arrive opens the barrier.                              *)
Arrive(h) ==
  /\ hand[h] = "begun"
  /\ Becomes(h, "waiting")
  /\ met' = (met \/ Waiting + 1 >= Parties)
  /\ UNCHANGED <<script, profiling, worked>>

MainArrives ==
  /\ script = "wait"
  /\ met' = (met \/ Waiting + 1 >= Parties)
  /\ script' = "join"
  /\ UNCHANGED <<hand, profiling, worked>>

(* end was set before the first worker started: it may have passed.         *)
Leave(h) ==
  /\ hand[h] = "waiting" /\ met
  /\ \E late \in BOOLEAN :
       /\ Becomes(h, IF late THEN "done" ELSE "working")
       /\ worked' = IF late THEN worked ELSE worked \cup {h}
  /\ UNCHANGED <<script, met, profiling>>

Expire(h) ==
  /\ hand[h] = "working"
  /\ Becomes(h, "done")
  /\ UNCHANGED <<script, met, profiling, worked>>

JoinHands ==
  /\ script = "join" /\ \A h \in Hands : hand[h] = "done"
  /\ script' = "ended"
  /\ UNCHANGED <<hand, met, profiling, worked>>

Next ==
  \/ \E h \in Hands : StartHand(h) \/ Arrive(h) \/ Leave(h) \/ Expire(h)
  \/ Raise \/ StartProfiler \/ MainArrives \/ JoinHands

Spec == Init /\ [][Next]_vars
-----------------------------------------------------------------------------
TypeOK ==
  /\ script \in {"start", "profile", "wait", "join", "ended", "raised"}
  /\ hand \in [Hands -> {"new", "begun", "waiting", "working", "done"}]
  /\ met \in BOOLEAN /\ profiling \in BOOLEAN /\ worked \subseteq Hands

(* No worker works before all of them are there and the profiler runs       *)
(* ("so the profiler has registered all 20 threads before any work begins").*)
NoneMissed ==
  worked # {} => profiling /\ \A h \in Hands : hand[h] \notin {"new", "begun"}

(* After an exception the workers stay at the barrier for ever.             *)
Ended == script = "ended" \/ script = "raised"
=============================================================================
