--------------------------- MODULE FlakinessProofs ---------------------------
(***************************************************************************)
(* TestFlakiness for any number of runs.                                   *)
(***************************************************************************)
EXTENDS Flakiness, FiniteSetTheorems, TLAPS

(* The WaitGroup counts the goroutines that have not called wg.Done.        *)
Pending == {r \in Run : phase[r] # "done"}

Counted == wg = Cardinality(Pending) /\ (Collected => Pending = {})

(* Where a goroutine is tells what it has.                                  *)
Local ==
  \A r \in Run :
    /\ phase[r] \in {"unborn", "started", "docker", "dirless", "panicking"} => container[r] = "none"
    /\ container[r] = "up" => phase[r] = "blocked"
    /\ phase[r] \in {"docker", "blocked", "good", "erring"} => dir[r] # NoDir
    /\ phase[r] = "good" => container[r] = "ok"
    /\ phase[r] \in {"stored", "done"} =>
         /\ results[r].index = r
         /\ ~results[r].err => container[r] = "ok" /\ results[r].dir = dir[r] /\ dir[r] # NoDir

(* Directories exist once made, and no two runs share one.                  *)
Distinct ==
  \A r \in Run : dir[r] # NoDir =>
    dir[r] \in existing /\ \A q \in Run \ {r} : dir[q] # dir[r]

(* What was counted so far.                                                 *)
Tallied ==
  /\ ~Collected => passed = 0 /\ failedRuns = {}
  /\ Collected =>
       /\ failedRuns \subseteq 1..(next - 1)
       /\ passed + Cardinality(failedRuns) = next - 1
       /\ \A r \in 1..(next - 1) : container[r] # "ok" => r \in failedRuns
  /\ pc = "summary" => next = N + 1

(* The types, less the counters, which only the rest of the invariant bounds.*)
Types ==
  /\ pc \in {"launch", "wait", "analyze", "summary", "crashed"}
  /\ next \in 1..(N + 1)
  /\ wg \in Int
  /\ phase \in [Run -> Phase]
  /\ container \in [Run -> {"none", "up", "ok", "bad"}]
  /\ existing \subseteq TempDir
  /\ dir \in [Run -> TempDir \cup {NoDir}]
  /\ results \in [Run -> [index : Run \cup {0}, dir : TempDir \cup {NoDir}, err : BOOLEAN]]
  /\ passed \in Nat
  /\ failedRuns \subseteq Run

IInv == Types /\ Counted /\ Local /\ Distinct /\ Tallied

-----------------------------------------------------------------------------
(* The runs, and sets of them, are finite.                                  *)
LEMMA RunsFinite ==
  /\ IsFiniteSet(Run) /\ Cardinality(Run) = N
  /\ \A S \in SUBSET Run : IsFiniteSet(S) /\ Cardinality(S) \in 0..N
<1>1. IsFiniteSet(Run) /\ Cardinality(Run) = N
  BY FS_Interval, FlakinessAssumption DEF Run
<1>2. ASSUME NEW S \in SUBSET Run PROVE IsFiniteSet(S) /\ Cardinality(S) \in 0..N
  BY <1>1, FS_Subset, FS_CardinalityType, FlakinessAssumption
<1> QED
  BY <1>1, <1>2

LEMMA InitIInv == Init => IInv
<1> SUFFICES ASSUME Init PROVE IInv
  OBVIOUS
<1> USE FlakinessAssumption
<1>1. Types
  <2>1. Zero \in [index : Run \cup {0}, dir : TempDir \cup {NoDir}, err : BOOLEAN]
    BY DEF Zero
  <2> QED
    BY <2>1 DEF Init, Types, Added, Phase
<1>2. Counted
  <2>1. Pending = Run
    BY DEF Init, Pending
  <2> QED
    BY <2>1, RunsFinite DEF Init, Counted, Added, Collected
<1>3. Local /\ Distinct /\ Tallied
  BY DEF Init, Local, Distinct, Tallied, Collected
<1> QED
  BY <1>1, <1>2, <1>3 DEF IInv

(* The invariant bounds the counters, and gives the properties.             *)
LEMMA IInvImplies == IInv => TypeOK /\ WaitsForAll /\ AnalysesItsOwn /\ SummaryAddsUp
<1> SUFFICES ASSUME IInv PROVE TypeOK /\ WaitsForAll /\ AnalysesItsOwn /\ SummaryAddsUp
  OBVIOUS
<1> USE DEF IInv
<1>1. Collected => \A r \in Run : phase[r] = "done"
  BY DEF Counted, Pending
<1>2. WaitsForAll /\ AnalysesItsOwn
  BY <1>1 DEF WaitsForAll, AnalysesItsOwn, Local, Distinct
<1>3. SummaryAddsUp
  BY FlakinessAssumption DEF SummaryAddsUp, Tallied, Types, Collected, Run
<1>4. wg \in 0..N
  BY RunsFinite DEF Counted, Pending
<1>5. passed \in 0..N
  <2>1. Cardinality(failedRuns) \in Nat
    BY RunsFinite, FlakinessAssumption DEF Types
  <2> QED
    BY <2>1, FlakinessAssumption DEF Tallied, Types
<1> QED
  BY <1>2, <1>3, <1>4, <1>5 DEF TypeOK, Types

-----------------------------------------------------------------------------
(* A goroutine that moves, but not to "done", leaves the WaitGroup's count. *)
LEMMA Moving ==
  ASSUME IInv, NEW r \in Run, NEW p, phase[r] # "done", p # "done",
         phase' = [phase EXCEPT ![r] = p], wg' = wg, pc' = pc
  PROVE  Counted' /\ ~Collected /\ ~Collected'
<1>1. Pending' = Pending /\ r \in Pending
  BY DEF Pending, IInv, Types
<1> QED
  BY <1>1 DEF Counted, Collected, IInv

(* The goroutine's steps before its deferred functions.                     *)
LEMMA RunningKeepsIInv ==
  ASSUME IInv, NEW r \in Run,
         MakeDir(r) \/ MakeDirFails(r) \/ ContainerStarts(r) \/ WriteOutput(r) \/ Panics(r)
  PROVE  IInv'
<1> USE FlakinessAssumption DEF IInv, goroutine, summary
<1>1. CASE MakeDir(r)
  <2> USE <1>1 DEF MakeDir, Goto
  <2>1. PICK d \in TempDir \ existing :
          dir' = [dir EXCEPT ![r] = d] /\ existing' = existing \cup {d}
    OBVIOUS
  <2>2. d # NoDir /\ \A q \in Run : dir[q] # d
    BY <2>1 DEF Distinct
  <2>3. Types'
    BY <2>1 DEF Types, Phase
  <2>4. Counted' /\ ~Collected /\ ~Collected'
    BY Moving
  <2>5. Local'
    BY <2>1, <2>2 DEF Local, Types
  <2>6. Distinct'
    BY <2>1, <2>2 DEF Distinct, Types
  <2>7. Tallied'
    BY <2>4 DEF Tallied, Collected
  <2> QED
    BY <2>3, <2>4, <2>5, <2>6, <2>7
<1>2. CASE MakeDirFails(r)
  <2> USE <1>2 DEF MakeDirFails, Goto
  <2>1. Types'
    BY DEF Types, Phase
  <2>2. Counted' /\ ~Collected /\ ~Collected'
    BY Moving
  <2>3. Local' /\ Distinct'
    BY DEF Local, Distinct, Types
  <2>4. Tallied'
    BY <2>2 DEF Tallied, Collected
  <2> QED
    BY <2>1, <2>2, <2>3, <2>4
<1>3. CASE ContainerStarts(r)
  <2> USE <1>3 DEF ContainerStarts, Goto
  <2>1. Types'
    BY DEF Types, Phase
  <2>2. Counted' /\ ~Collected /\ ~Collected'
    BY Moving
  <2>3. Local' /\ Distinct'
    BY DEF Local, Distinct, Types
  <2>4. Tallied'
    BY <2>2 DEF Tallied, Collected
  <2> QED
    BY <2>1, <2>2, <2>3, <2>4
<1>4. CASE WriteOutput(r)
  <2> USE <1>4 DEF WriteOutput, Goto
  <2>1. PICK p \in {"good", "erring"} :
          /\ phase[r] = "blocked" /\ phase' = [phase EXCEPT ![r] = p]
          /\ p = "good" => container[r] = "ok"
    OBVIOUS
  <2>2. Types'
    BY <2>1 DEF Types, Phase
  <2>3. Counted' /\ ~Collected /\ ~Collected'
    BY <2>1, Moving
  <2>4. Local' /\ Distinct'
    BY <2>1 DEF Local, Distinct, Types
  <2>5. Tallied'
    BY <2>3 DEF Tallied, Collected
  <2> QED
    BY <2>2, <2>3, <2>4, <2>5
<1>5. CASE Panics(r)
  <2> USE <1>5 DEF Panics
  <2>1. Types'
    BY DEF Types, Phase
  <2>2. Counted' /\ ~Collected /\ ~Collected'
    BY Moving
  <2>3. Local'
    BY DEF Local, Types
  <2>4. Distinct'
    BY DEF Distinct
  <2>5. Tallied'
    BY <2>2 DEF Tallied, Collected
  <2> QED
    BY <2>1, <2>2, <2>3, <2>4, <2>5
<1> QED
  BY <1>1, <1>2, <1>3, <1>4, <1>5

(* The container ends while its goroutine is blocked on it.                 *)
LEMMA ContainerEndsKeepsIInv ==
  ASSUME IInv, NEW r \in Run, ContainerEnds(r)
  PROVE  IInv'
<1> USE FlakinessAssumption DEF IInv, ContainerEnds, goroutine, summary
<1>1. PICK status \in {"ok", "bad"} : container' = [container EXCEPT ![r] = status]
  OBVIOUS
<1>2. phase[r] = "blocked"
  BY DEF Local
<1>3. Types'
  BY <1>1 DEF Types
<1>4. Pending' = Pending /\ r \in Pending
  BY <1>2 DEF Pending
<1>5. Counted' /\ ~Collected /\ ~Collected'
  BY <1>4 DEF Counted, Collected
<1>6. Local'
  BY <1>1, <1>2 DEF Local, Types
<1>7. Distinct' /\ Tallied'
  BY <1>5 DEF Distinct, Tallied, Collected
<1> QED
  BY <1>3, <1>5, <1>6, <1>7

(* A run stores its own result, whatever became of it.                      *)
LEMMA StoreKeepsIInv ==
  ASSUME IInv, NEW r \in Run, Store(r)
  PROVE  IInv'
<1> USE FlakinessAssumption DEF IInv, Store, Slot, summary
<1>1. results' = [results EXCEPT ![r] = Result(r)]
  OBVIOUS
<1>2. /\ Result(r) \in [index : Run \cup {0}, dir : TempDir \cup {NoDir}, err : BOOLEAN]
      /\ Result(r).index = r
      /\ ~Result(r).err => phase[r] = "good" /\ Result(r).dir = dir[r]
  BY DEF Result, Types
<1>3. Types'
  BY <1>1, <1>2 DEF Types, Phase
<1>4. Counted' /\ ~Collected /\ ~Collected'
  BY Moving
<1>5. Local'
  <2> SUFFICES ASSUME NEW q \in Run PROVE Local!(q)'
    BY DEF Local
  <2>1. CASE q = r
    BY <2>1, <1>1, <1>2 DEF Local, Types
  <2>2. CASE q # r
    BY <2>2, <1>1 DEF Local, Types
  <2> QED
    BY <2>1, <2>2
<1>6. Distinct' /\ Tallied'
  BY <1>4 DEF Distinct, Tallied, Collected
<1> QED
  BY <1>3, <1>4, <1>5, <1>6

(* wg.Done takes one goroutine off the WaitGroup's count.                   *)
LEMMA DoneKeepsIInv ==
  ASSUME IInv, NEW r \in Run, Done(r)
  PROVE  IInv'
<1> USE FlakinessAssumption DEF IInv, Done, MayBeDone, summary
<1>1. Types'
  BY DEF Types, Phase
<1>2. Pending' = Pending \ {r} /\ r \in Pending
  BY DEF Pending, Types
<1>3. IsFiniteSet(Pending) /\ Cardinality(Pending \ {r}) = Cardinality(Pending) - 1
  BY <1>2, RunsFinite, FS_RemoveElement DEF Pending
<1>4. Counted' /\ ~Collected /\ ~Collected'
  BY <1>2, <1>3 DEF Counted, Collected
<1>5. Local' /\ Distinct'
  BY DEF Local, Distinct, Types
<1>6. Tallied'
  BY <1>4 DEF Tallied, Collected
<1> QED
  BY <1>1, <1>4, <1>5, <1>6
-----------------------------------------------------------------------------
(* Starting goroutines, then waiting for all of them.                       *)
LEMMA LaunchKeepsIInv ==
  ASSUME IInv, Launch \/ Wait
  PROVE  IInv'
<1> USE FlakinessAssumption DEF IInv, goroutine, summary
<1>1. CASE Launch
  <2> USE <1>1 DEF Launch, Goto
  <2>1. next \in Run
    BY DEF Types, Run
  <2>2. Types'
    BY <2>1 DEF Types, Phase
  <2>3. Counted' /\ ~Collected /\ ~Collected'
    BY <2>1, Moving
  <2>4. Local' /\ Distinct'
    BY <2>1 DEF Local, Distinct, Types
  <2>5. Tallied'
    BY <2>3 DEF Tallied, Collected
  <2> QED
    BY <2>2, <2>3, <2>4, <2>5
<1>2. CASE Wait
  <2> USE <1>2 DEF Wait
  <2>1. Types'
    BY DEF Types
  <2>2. Counted' /\ Local' /\ Distinct' /\ Tallied'
    BY DEF Counted, Collected, Pending, Local, Distinct, Tallied
  <2> QED
    BY <2>1, <2>2
<1> QED
  BY <1>1, <1>2

(* wg.Wait returns when no goroutine is pending any more.                   *)
LEMMA AllDoneKeepsIInv ==
  ASSUME IInv, AllDone
  PROVE  IInv'
<1> USE FlakinessAssumption DEF IInv, AllDone, goroutine, summary
<1>1. Pending = {}
  BY RunsFinite, FS_EmptySet DEF Counted, Pending
<1>2. Types'
  BY DEF Types
<1>3. Counted' /\ Local' /\ Distinct'
  BY <1>1 DEF Counted, Pending, Local, Distinct
<1>4. passed = 0 /\ failedRuns = {} /\ Collected'
  BY DEF Tallied, Collected
<1>5. Tallied'
  BY <1>4, FS_EmptySet DEF Tallied, Collected
<1> QED
  BY <1>2, <1>3, <1>5

(* One sub-test moves one run to one side of the summary.                   *)
LEMMA SubtestKeepsIInv ==
  ASSUME IInv, Subtest
  PROVE  IInv'
<1> USE FlakinessAssumption DEF IInv, Subtest, goroutine
<1>1. next \in Run /\ Collected /\ Collected'
  BY DEF Types, Run, Collected
<1>2. results[next].index = next /\ (~results[next].err => container[next] = "ok")
  BY <1>1 DEF Counted, Pending, Local
<1>3. PICK ok \in BOOLEAN : Tally(next, ok) /\ (results[next].err => ~ok)
  OBVIOUS
<1>4. /\ passed' = IF ok THEN passed + 1 ELSE passed
      /\ failedRuns' = IF ok THEN failedRuns ELSE failedRuns \cup {next}
  BY <1>2, <1>3 DEF Tally
<1>5. Types'
  BY <1>1, <1>4 DEF Types, Run
<1>6. Counted' /\ Local' /\ Distinct'
  BY <1>1 DEF Counted, Collected, Pending, Local, Distinct
<1>7. next' = next + 1 /\ 1..(next' - 1) = 1..(next - 1) \cup {next} /\ next \notin 1..(next - 1)
  BY DEF Types
<1>8. Cardinality(failedRuns \cup {next}) = Cardinality(failedRuns) + 1
  <2>1. next \notin failedRuns /\ IsFiniteSet(failedRuns)
    BY <1>1, <1>7, RunsFinite DEF Tallied, Types
  <2> QED
    BY <2>1, FS_AddElement
<1>9. Cardinality(failedRuns) \in Nat /\ passed \in Nat /\ next \in Nat
  BY RunsFinite DEF Types
<1>10. Tallied'
  <2>1. failedRuns' \subseteq 1..(next' - 1)
    BY <1>1, <1>4, <1>7 DEF Tallied
  <2>2. passed' + Cardinality(failedRuns') = next' - 1
    BY <1>1, <1>4, <1>7, <1>8, <1>9 DEF Tallied
  <2>3. \A r \in 1..(next' - 1) : container'[r] # "ok" => r \in failedRuns'
    BY <1>1, <1>2, <1>3, <1>4, <1>7 DEF Tallied
  <2>4. pc' # "summary"
    OBVIOUS
  <2> QED
    BY <1>1, <2>1, <2>2, <2>3, <2>4 DEF Tallied
<1> QED
  BY <1>5, <1>6, <1>10

(* The summary is printed, or a sub-test brings the process down.           *)
LEMMA EndKeepsIInv ==
  ASSUME IInv, SubtestPanics \/ Summarize
  PROVE  IInv'
<1> USE FlakinessAssumption DEF IInv, SubtestPanics, Summarize, goroutine, summary
<1>1. Types' /\ Collected /\ Collected'
  BY DEF Types, Collected
<1>2. Counted' /\ Local' /\ Distinct'
  BY <1>1 DEF Counted, Pending, Local, Distinct
<1>3. failedRuns' = failedRuns /\ passed' = passed /\ next' = next /\ container' = container
  OBVIOUS
<1>4. pc' = "summary" => next' = N + 1
  BY DEF Types
<1>5. Tallied'
  BY <1>1, <1>3, <1>4 DEF Tallied
<1> QED
  BY <1>1, <1>2, <1>5

LEMMA NextIInv == IInv /\ [Next]_vars => IInv'
<1> SUFFICES ASSUME IInv, [Next]_vars PROVE IInv'
  OBVIOUS
<1>1. CASE Main
  BY <1>1, LaunchKeepsIInv, AllDoneKeepsIInv, SubtestKeepsIInv, EndKeepsIInv DEF Main
<1>2. ASSUME NEW r \in Run, Go(r) PROVE IInv'
  BY <1>2, RunningKeepsIInv, StoreKeepsIInv, DoneKeepsIInv DEF Go
<1>3. ASSUME NEW r \in Run, ContainerEnds(r) PROVE IInv'
  BY <1>3, ContainerEndsKeepsIInv
<1>4. CASE UNCHANGED vars
  BY <1>4 DEF vars, goroutine, summary, IInv, Types, Counted, Collected, Pending, Local,
              Distinct, Tallied
<1> QED
  BY <1>1, <1>2, <1>3, <1>4 DEF Next

LEMMA Invariance == Spec => []IInv
BY InitIInv, NextIInv, PTL DEF Spec
-----------------------------------------------------------------------------
(* Every variable keeps its type; in particular the WaitGroup's counter     *)
(* never goes below zero, which would be a panic of wg.Done.                *)
THEOREM TypeCorrect == Spec => []TypeOK
BY Invariance, IInvImplies, PTL

(* However many runs, and in whatever order they end, fail or panic: the    *)
(* analysis starts only when all have ended and left their own result.      *)
THEOREM TheAnalysisWaits == Spec => []WaitsForAll
BY Invariance, IInvImplies, PTL

(* A directory is analysed for the run that filled it, and for no other.    *)
THEOREM RunsStayApart == Spec => []AnalysesItsOwn
BY Invariance, IInvImplies, PTL

(* The flakiness that is reported counts every run exactly once.            *)
THEOREM TheSummaryAddsUp == Spec => []SummaryAddsUp
BY Invariance, IInvImplies, PTL
=============================================================================
