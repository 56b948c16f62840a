------------------------------ MODULE Flakiness ------------------------------
(***************************************************************************)
(* TestFlakiness: one scenario is run by N goroutines at once, each in a   *)
(* container of its own (runTestAppSafe); when all have called wg.Done the *)
(* results are analysed one by one and summed up.                          *)
(***************************************************************************)
EXTENDS Integers, FiniteSets

CONSTANTS
  N,        \* numRuns
  TempDir,  \* names os.MkdirTemp may come up with
  NoDir     \* the zero value "" of a path

ASSUME FlakinessAssumption == N \in Nat \ {0} /\ NoDir \notin TempDir

Run == 1..N

VARIABLES
  pc,        \* the test: "launch", "wait", "analyze", "summary", "crashed"
  next,      \* the loop index of the test
  wg,        \* counter of the WaitGroup
  phase,     \* per goroutine: where it is in runTestAppSafe and its defers
  container, \* per goroutine: "none", "up", "ok" or "bad" (exit status)
  existing,  \* directories under data/
  dir,       \* per goroutine: the tmpdir it made
  results,   \* results[idx], zero value [index |-> 0, dir |-> NoDir, err |-> FALSE]
  passed,    \* runs counted as passed
  failedRuns \* runs counted as failed, failed = Cardinality(failedRuns)

goroutine == <<phase, container, existing, dir, results>>
summary   == <<passed, failedRuns>>
vars      == <<pc, next, wg, goroutine, summary>>

Zero == [index |-> 0, dir |-> NoDir, err |-> FALSE]

AddOneMore == N + 1   \* mutant of wg.Add

Added == N   \* wg.Add(numRuns), before the first goroutine starts

Init ==
  /\ pc = "launch" /\ next = 1 /\ wg = Added
  /\ phase = [r \in Run |-> "unborn"]
  /\ container = [r \in Run |-> "none"]
  /\ existing \in SUBSET TempDir
  /\ dir = [r \in Run |-> NoDir]
  /\ results = [r \in Run |-> Zero]
  /\ passed = 0 /\ failedRuns = {}

Goto(r, from, to) == phase[r] = from /\ phase' = [phase EXCEPT ![r] = to]
-----------------------------------------------------------------------------
(* The goroutine of run r.                                                  *)

(* os.Getwd and os.MkdirTemp: a fresh directory, or an error.               *)
MakeDir(r) ==
  /\ Goto(r, "started", "docker")
  /\ \E d \in TempDir \ existing :
       dir' = [dir EXCEPT ![r] = d] /\ existing' = existing \cup {d}
  /\ UNCHANGED <<pc, next, wg, container, results, summary>>

MakeDirFails(r) ==
  /\ Goto(r, "started", "dirless")
  /\ UNCHANGED <<pc, next, wg, container, existing, dir, results, summary>>

(* "docker run" blocks until the container ends.                            *)
ContainerStarts(r) ==
  /\ Goto(r, "docker", "blocked")
  /\ container' = [container EXCEPT ![r] = "up"]
  /\ UNCHANGED <<pc, next, wg, existing, dir, results, summary>>

ContainerEnds(r) ==
  /\ container[r] = "up"
  /\ \E status \in {"ok", "bad"} : container' = [container EXCEPT ![r] = status]
  /\ UNCHANGED <<pc, next, wg, phase, existing, dir, results, summary>>

(* output.txt is written; failing to is an error only for a good container. *)
WriteOutput(r) ==
  /\ container[r] \in {"ok", "bad"}
  /\ \/ container[r] = "ok" /\ Goto(r, "blocked", "good")
     \/ Goto(r, "blocked", "erring")
  /\ UNCHANGED <<pc, next, wg, container, existing, dir, results, summary>>

(* Anything in runTestAppSafe may panic, but not while it blocks.           *)
Panics(r) ==
  /\ phase[r] \in {"started", "docker"}
  /\ phase' = [phase EXCEPT ![r] = "panicking"]
  /\ UNCHANGED <<pc, next, wg, container, existing, dir, results, summary>>

LastSlot(r) == N   \* mutant: the loop variable shared by all goroutines

Slot(r) == r

(* results[idx] = runResult{...}: after a return, or in the deferred        *)
(* recover, which knows no directory.                                       *)
Result(r) == [index |-> r,
              dir   |-> IF phase[r] \in {"good", "erring"} THEN dir[r] ELSE NoDir,
              err   |-> phase[r] # "good"]

Store(r) ==
  /\ phase[r] \in {"good", "erring", "dirless", "panicking"}
  /\ results' = [results EXCEPT ![Slot(r)] = Result(r)]
  /\ phase' = [phase EXCEPT ![r] = "stored"]
  /\ UNCHANGED <<pc, next, wg, container, existing, dir, summary>>

DoneAnytime(r) == phase[r] \in {"stored", "panicking"}   \* mutant: defers swapped

MayBeDone(r) == phase[r] = "stored"

(* wg.Done, deferred first and so run last.                                 *)
Done(r) ==
  /\ MayBeDone(r)
  /\ phase' = [phase EXCEPT ![r] = "done"]
  /\ wg' = wg - 1
  /\ UNCHANGED <<pc, next, container, existing, dir, results, summary>>

Go(r) == MakeDir(r) \/ MakeDirFails(r) \/ ContainerStarts(r) \/ WriteOutput(r)
         \/ Panics(r) \/ Store(r) \/ Done(r)
-----------------------------------------------------------------------------
(* The test.                                                                *)
Launch ==
  /\ pc = "launch" /\ next <= N
  /\ Goto(next, "unborn", "started")
  /\ next' = next + 1
  /\ UNCHANGED <<pc, wg, container, existing, dir, results, summary>>

Wait ==
  /\ pc = "launch" /\ next > N
  /\ pc' = "wait"
  /\ UNCHANGED <<next, wg, goroutine, summary>>

AllDone ==
  /\ pc = "wait" /\ wg = 0
  /\ pc' = "analyze" /\ next' = 1
  /\ UNCHANGED <<wg, goroutine, summary>>

(* mutant: a run is counted as passed before its sub-test is looked at      *)
TallyPassed(r, ok) ==
  /\ passed' = passed + 1
  /\ failedRuns' = IF ok THEN failedRuns ELSE failedRuns \cup {results[r].index}

Tally(r, ok) ==
  /\ passed' = IF ok THEN passed + 1 ELSE passed
  /\ failedRuns' = IF ok THEN failedRuns ELSE failedRuns \cup {results[r].index}

(* The sub-test of one result: Fatalf for an error, else AnalyzeResults.    *)
Subtest ==
  /\ pc = "analyze" /\ next <= N
  /\ \E ok \in IF results[next].err THEN {FALSE} ELSE BOOLEAN : Tally(next, ok)
  /\ next' = next + 1
  /\ UNCHANGED <<pc, wg, goroutine>>

(* A panic of AnalyzeResults, an invalid regex, takes the process down.     *)
SubtestPanics ==
  /\ pc = "analyze" /\ next <= N /\ ~results[next].err
  /\ pc' = "crashed"
  /\ UNCHANGED <<next, wg, goroutine, summary>>

Summarize ==
  /\ pc = "analyze" /\ next > N
  /\ pc' = "summary"
  /\ UNCHANGED <<next, wg, goroutine, summary>>

Main == Launch \/ Wait \/ AllDone \/ Subtest \/ SubtestPanics \/ Summarize

Next == Main \/ \E r \in Run : Go(r) \/ ContainerEnds(r)

(* Go schedules every goroutine; nothing makes a container end.             *)
Fairness == WF_vars(Main) /\ \A r \in Run : WF_vars(Go(r))

Spec == Init /\ [][Next]_vars /\ Fairness
-----------------------------------------------------------------------------
Phase == {"unborn", "started", "docker", "blocked", "good", "erring", "dirless",
          "panicking", "stored", "done"}

(* Every variable has its type.                                             *)
TypeOK ==
  /\ pc \in {"launch", "wait", "analyze", "summary", "crashed"}
  /\ next \in 1..(N + 1)
  /\ wg \in 0..N
  /\ phase \in [Run -> Phase]
  /\ container \in [Run -> {"none", "up", "ok", "bad"}]
  /\ existing \subseteq TempDir
  /\ dir \in [Run -> TempDir \cup {NoDir}]
  /\ results \in [Run -> [index : Run \cup {0}, dir : TempDir \cup {NoDir}, err : BOOLEAN]]
  /\ passed \in 0..N
  /\ failedRuns \subseteq Run

Collected == pc \in {"analyze", "summary", "crashed"}

(* Nothing is analysed while a container may still write its profiles or a  *)
(* result may still change: when the analysis starts, every goroutine has   *)
(* returned and its slot holds its own result, even after an error or panic.*)
WaitsForAll ==
  Collected => \A r \in Run :
    phase[r] = "done" /\ container[r] # "up" /\ results[r].index = r

(* A directory that is analysed was made for that run alone and filled by a *)
(* container that ended well.                                               *)
AnalysesItsOwn ==
  Collected => \A r \in Run : ~results[r].err =>
    /\ container[r] = "ok"
    /\ results[r].dir = dir[r] /\ dir[r] # NoDir
    /\ \A q \in Run \ {r} : dir[q] # dir[r]

(* The summary accounts for every run once, and a run without a good        *)
(* container is among the failed ones.                                      *)
SummaryAddsUp ==
  pc = "summary" =>
    /\ passed + Cardinality(failedRuns) = N
    /\ \A r \in Run : container[r] # "ok" => r \in failedRuns

(* If every container ends, the test ends with its summary, or an analysis  *)
(* crashed: no error, panic or interleaving leaves the WaitGroup waiting.   *)
SummaryEventually ==
  (\A r \in Run : []<>(container[r] # "up")) => <>(pc \in {"summary", "crashed"})
=============================================================================
