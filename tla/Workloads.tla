----------------------------- MODULE Workloads -----------------------------
(***************************************************************************)
(* The programs under test: each scenario's container runs one of them,    *)
(* and expected_profile.json asserts what it must have done.  The          *)
(* variables of the program that runs change by its own module's actions,  *)
(* the others keep their initial values.                                   *)
(***************************************************************************)
EXTENDS Integers, Sequences, FiniteSets

CONSTANTS
  Target, Interval, Spin, Costs, Deadline, SettlesIn, MaxChanges, MaxSlow,
  MaxForks, MaxThreads,
  Workers, MaxSeconds,
  Rounds, Stalls, Overruns, PairTimes,
  Queries, Delays,
  Hands,
  Each, Loops, Works, Oversleeps, Gaps,
  Requests

ASSUME WorkloadsAssumption ==
  /\ Target \in Nat \ {0} /\ Interval \in Nat \ {0} /\ Spin \in Nat
  /\ Costs \subseteq Nat \ {0} /\ Deadline \in Nat
  /\ SettlesIn \in Nat \ {0} /\ MaxChanges \in Nat /\ MaxSlow \in Nat
  /\ MaxForks \in Nat \ {0} /\ MaxThreads \in Nat \ {0}
  /\ MaxSeconds \in Nat
  /\ Rounds \in Nat
  /\ Stalls \subseteq Nat /\ Overruns \subseteq Nat /\ PairTimes \subseteq Nat \ {0}
  /\ Queries \in Seq({"CPU", "Sleep", "other"}) /\ Delays \subseteq Nat
  /\ IsFiniteSet(Hands)
  /\ Each \in Nat \ {0} /\ Loops \in Nat
  /\ Works \subseteq Nat /\ Oversleeps \subseteq Nat /\ Gaps \subseteq Nat
  /\ Requests \in Nat

VARIABLES
  program,   \* the one the container runs
  perTurn, pause, turn, elapsed, counted, left, load, settled, changes, slow,
  given, at, i, slot, file,
  main, seconds, running, worker, late,
  kind, todo, calling, began, cpu,
  queue, thread, until, now, wall,
  counter, timers, immediates, open, burnt,
  script, hand, met, profiling, worked,
  clock, sleep_budget, iterations, unseen, over,
  requester, sent, backlog, server

Pace == INSTANCE Pacing
Malloc == INSTANCE SimpleMalloc
Live == INSTANCE LiveHeap
Cpu == INSTANCE CpuShares
Query == INSTANCE QueryQueue
Spans == INSTANCE BusySpans
Many == INSTANCE Rendezvous
Heap == INSTANCE HeapBudget
Gunicorn == INSTANCE SelfStop

pacingVars == <<perTurn, pause, turn, elapsed, counted, left, load, settled, changes, slow>>
mallocVars == <<given, at, i, slot, file>>
liveVars == <<main, seconds, running, worker, late>>
cpuVars == <<kind, todo, calling, began, cpu>>
queryVars == <<queue, thread, until, now, wall>>
spansVars == <<counter, timers, immediates, open, burnt>>
manyVars == <<script, hand, met, profiling, worked>>
heapVars == <<clock, sleep_budget, iterations, unseen, over>>
gunicornVars == <<requester, sent, backlog, server>>
vars == <<program, pacingVars, mallocVars, liveVars, cpuVars, queryVars, spansVars, manyVars, heapVars, gunicornVars>>

Programs == {"pacing", "simple_malloc", "live_heap", "cpu_shares", "dotnet_wall", "node_code_hotspots", "python_many_threads", "flaky_ruby_heap", "python_gunicorn"}

Init ==
  /\ program \in Programs
  /\ Pace!Init
  /\ Malloc!Init
  /\ Live!Init
  /\ Cpu!Init
  /\ Query!Init
  /\ Spans!Init
  /\ Many!Init
  /\ Heap!Init
  /\ Gunicorn!Init

Only(p) ==
  /\ program = p /\ UNCHANGED program
  /\ IF p = "pacing" THEN TRUE ELSE UNCHANGED pacingVars
  /\ IF p = "simple_malloc" THEN TRUE ELSE UNCHANGED mallocVars
  /\ IF p = "live_heap" THEN TRUE ELSE UNCHANGED liveVars
  /\ IF p = "cpu_shares" THEN TRUE ELSE UNCHANGED cpuVars
  /\ IF p = "dotnet_wall" THEN TRUE ELSE UNCHANGED queryVars
  /\ IF p = "node_code_hotspots" THEN TRUE ELSE UNCHANGED spansVars
  /\ IF p = "python_many_threads" THEN TRUE ELSE UNCHANGED manyVars
  /\ IF p = "flaky_ruby_heap" THEN TRUE ELSE UNCHANGED heapVars
  /\ IF p = "python_gunicorn" THEN TRUE ELSE UNCHANGED gunicornVars

Next ==
  \/ Pace!Next /\ Only("pacing")
  \/ Malloc!Next /\ Only("simple_malloc")
  \/ Live!Next /\ Only("live_heap")
  \/ Cpu!Next /\ Only("cpu_shares")
  \/ Query!Next /\ Only("dotnet_wall")
  \/ Spans!Next /\ Only("node_code_hotspots")
  \/ Many!Next /\ Only("python_many_threads")
  \/ Heap!Next /\ Only("flaky_ruby_heap")
  \/ Gunicorn!Next /\ Only("python_gunicorn")

(* The system schedules every thread and the clock goes on: no thread that  *)
(* can go on waits for ever.  Only the loops of LiveHeap can go round       *)
(* without end, so it alone needs the fairness of each of its threads.      *)
Fairness ==
  /\ WF_vars(Next)
  /\ WF_vars(Live!Main /\ Only("live_heap"))
  /\ \A w \in Workers : WF_vars(Live!Work(w) /\ Only("live_heap"))

Spec == Init /\ [][Next]_vars /\ Fairness
-----------------------------------------------------------------------------
(* The programs that keep a rate keep it: simple_malloc is neither held     *)
(* below the one asked for nor away from it, and the Ruby heap scenario     *)
(* runs its loops in number.                                                *)
PaceHolds == Pace!NeverThrottled /\ Pace!Settles /\ Heap!LoopsKept

(* No work is lost or unaccounted for at the start or end of a group of     *)
(* threads: statistics are complete, nobody works unseen, and no worker     *)
(* goes on when the program stops.                                          *)
NoWorkMissed == Malloc!StatsComplete /\ Many!NoneMissed /\ Live!StopsTogether

(* Work divided between functions, threads or spans is divided as their     *)
(* expected profiles say.                                                   *)
SharesHold == Cpu!ThirdsKept /\ Query!QueriesDivided /\ Spans!LoopsMatchSpans

Done ==
  CASE program = "pacing" -> Pace!Ended
    [] program = "simple_malloc" -> Malloc!Ended
    [] program = "live_heap" -> Live!Ended
    [] program = "cpu_shares" -> Cpu!Ended
    [] program = "dotnet_wall" -> Query!Ended
    [] program = "node_code_hotspots" -> Spans!Ended
    [] program = "python_many_threads" -> Many!Ended
    [] program = "flaky_ruby_heap" -> over
    [] program = "python_gunicorn" -> Gunicorn!Ended

(* Every program comes to its end: flags are seen, joins return, barriers   *)
(* open and /stop is served; only simple_malloc without --timeout and       *)
(* --loop goes on for ever.                                                 *)
WorkloadsEnd == <>(Done \/ (program = "simple_malloc" /\ at[1] # "none" /\ ~given.limited))
=============================================================================
