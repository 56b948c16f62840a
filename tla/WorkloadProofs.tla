--------------------------- MODULE WorkloadProofs ---------------------------
(***************************************************************************)
(* What the workloads promise for any number of processes and threads, any *)
(* load and any duration.                                                  *)
(***************************************************************************)
EXTENDS Workloads, FiniteSetTheorems, WellFoundedInduction, TLAPS

(* Each step of the composition is one of a program, or leaves it alone.    *)
LEMMA OneProgramSteps ==
  ASSUME [Next]_vars
  PROVE  /\ Pace!Next \/ UNCHANGED pacingVars
         /\ Malloc!Next \/ UNCHANGED mallocVars
         /\ Live!Next \/ UNCHANGED liveVars
         /\ Many!Next \/ UNCHANGED manyVars
         /\ Heap!Next \/ UNCHANGED heapVars
         /\ Cpu!Next \/ UNCHANGED cpuVars
         /\ Query!Next \/ UNCHANGED queryVars
         /\ Spans!Next \/ UNCHANGED spansVars
BY DEF Next, Only, vars, pacingVars, mallocVars, liveVars, manyVars, heapVars,
       cpuVars, queryVars, spansVars

-----------------------------------------------------------------------------
(* simple_malloc: the slots a process has joined are filled, its lines are  *)
(* those of the first slots, and only the last of the chain still forks.    *)
MallocLines(p) ==
  /\ \A k \in DOMAIN file[p] : file[p][k] = <<k - 1, "filled">>
  /\ at[p] \notin {"print", "ended"} => file[p] = <<>>
  /\ at[p] = "print" => Len(file[p]) = i[p] /\ i[p] <= given.threads
  /\ at[p] = "ended" => Len(file[p]) = given.threads

MallocSlots(p) ==
  /\ at[p] = "join" =>
       i[p] \in 1..given.threads /\ \A t \in 0..i[p] - 1 : slot[p][t] = "filled"
  /\ at[p] = "print" => \A t \in 0..given.threads - 1 : slot[p][t] = "filled"

MallocChain ==
  \A p, q \in Malloc!Process : at[p] \in {"none", "fork"} /\ q > p => at[q] = "none"

MallocInv ==
  /\ Malloc!TypeOK
  /\ MallocChain
  /\ \A p \in Malloc!Process : MallocLines(p) /\ MallocSlots(p)

LEMMA MallocInit == Malloc!Init => MallocInv
<1> SUFFICES ASSUME Malloc!Init PROVE MallocInv
  OBVIOUS
<1> USE DEF Malloc!Init, Malloc!Process, Malloc!Slot
<1>1. Malloc!TypeOK
  BY WorkloadsAssumption DEF Malloc!TypeOK, Malloc!Choices, Malloc!NoOptions
<1>2. MallocChain
  BY DEF MallocChain
<1>3. \A p \in Malloc!Process : MallocLines(p) /\ MallocSlots(p)
  BY DEF MallocLines, MallocSlots
<1> QED  BY <1>1, <1>2, <1>3 DEF MallocInv

(* Bounds that the types and options give.                                  *)
LEMMA MallocBounds ==
  ASSUME Malloc!TypeOK
  PROVE  /\ given.threads \in 0..MaxThreads /\ given.fork \in 0..MaxForks
         /\ 0 \in Malloc!Slot
         /\ \A p \in Malloc!Process : i[p] \in Nat /\ (i[p] < given.threads => i[p] \in Malloc!Slot)
BY WorkloadsAssumption DEF Malloc!TypeOK, Malloc!Choices, Malloc!Slot

(* A step of process p keeps the types.                                     *)
LEMMA MallocTypes ==
  ASSUME Malloc!TypeOK, NEW p \in Malloc!Process, Malloc!Step(p)
  PROVE  Malloc!TypeOK'
<1> USE MallocBounds DEF Malloc!TypeOK, Malloc!To, Malloc!From, Malloc!Fill
<1>1. CASE Malloc!Fork(p)  BY <1>1 DEF Malloc!Fork
<1>2. CASE Malloc!EndForks(p)  BY <1>2 DEF Malloc!EndForks
<1>3. CASE Malloc!Exec(p)  BY <1>3 DEF Malloc!Exec
<1>4. CASE Malloc!NoExec(p)  BY <1>4 DEF Malloc!NoExec
<1>5. CASE Malloc!Spawn(p)  BY <1>5 DEF Malloc!Spawn
<1>6. CASE Malloc!SpawnFails(p)  BY <1>6 DEF Malloc!SpawnFails
<1>7. CASE Malloc!EndSpawns(p)  BY <1>7 DEF Malloc!EndSpawns
<1>8. CASE \E t \in Malloc!Slot : Malloc!FinishThread(p, t)  BY <1>8 DEF Malloc!FinishThread
<1>9. CASE Malloc!FinishMain(p)  BY <1>9 DEF Malloc!FinishMain
<1>10. CASE Malloc!Overrun(p)  BY <1>10 DEF Malloc!Overrun
<1>11. CASE Malloc!Join(p)  BY <1>11 DEF Malloc!Join
<1>12. CASE Malloc!EndJoins(p)  BY <1>12 DEF Malloc!EndJoins
<1>13. CASE Malloc!PrintStats(p)  BY <1>13 DEF Malloc!PrintStats, Malloc!Line
<1>14. CASE Malloc!EndMain(p)  BY <1>14 DEF Malloc!EndMain
<1> QED
  BY <1>1, <1>2, <1>3, <1>4, <1>5, <1>6, <1>7, <1>8, <1>9, <1>10, <1>11, <1>12, <1>13, <1>14
  DEF Malloc!Step

(* A fork hands the role of the last process on.                            *)
LEMMA MallocChains ==
  ASSUME Malloc!TypeOK, MallocChain, NEW p \in Malloc!Process, Malloc!Step(p)
  PROVE  MallocChain'
<1> USE MallocBounds DEF Malloc!TypeOK, MallocChain, Malloc!To, Malloc!From, Malloc!Fill, Malloc!Process
<1>1. CASE Malloc!Fork(p)  BY <1>1 DEF Malloc!Fork
<1>2. CASE Malloc!EndForks(p)  BY <1>2 DEF Malloc!EndForks
<1>3. CASE Malloc!Exec(p)  BY <1>3 DEF Malloc!Exec
<1>4. CASE Malloc!NoExec(p)  BY <1>4 DEF Malloc!NoExec
<1>5. CASE Malloc!Spawn(p)  BY <1>5 DEF Malloc!Spawn
<1>6. CASE Malloc!SpawnFails(p)  BY <1>6 DEF Malloc!SpawnFails
<1>7. CASE Malloc!EndSpawns(p)  BY <1>7 DEF Malloc!EndSpawns
<1>8. CASE \E t \in Malloc!Slot : Malloc!FinishThread(p, t)  BY <1>8 DEF Malloc!FinishThread
<1>9. CASE Malloc!FinishMain(p)  BY <1>9 DEF Malloc!FinishMain
<1>10. CASE Malloc!Overrun(p)  BY <1>10 DEF Malloc!Overrun
<1>11. CASE Malloc!Join(p)  BY <1>11 DEF Malloc!Join
<1>12. CASE Malloc!EndJoins(p)  BY <1>12 DEF Malloc!EndJoins
<1>13. CASE Malloc!PrintStats(p)  BY <1>13 DEF Malloc!PrintStats
<1>14. CASE Malloc!EndMain(p)  BY <1>14 DEF Malloc!EndMain
<1> QED
  BY <1>1, <1>2, <1>3, <1>4, <1>5, <1>6, <1>7, <1>8, <1>9, <1>10, <1>11, <1>12, <1>13, <1>14
  DEF Malloc!Step

(* What a step of process p leaves of a process q, itself or another.       *)
LEMMA MallocKeeps ==
  ASSUME MallocInv, NEW p \in Malloc!Process, Malloc!Step(p), NEW q \in Malloc!Process
  PROVE  MallocLines(q)' /\ MallocSlots(q)'
<1> USE MallocBounds DEF MallocInv, Malloc!TypeOK, MallocLines, MallocSlots,
        Malloc!To, Malloc!From, Malloc!Fill, Malloc!Slot
<1>1. CASE Malloc!Fork(p)  BY <1>1 DEF Malloc!Fork, Malloc!Process, MallocChain
<1>2. CASE Malloc!EndForks(p)  BY <1>2 DEF Malloc!EndForks
<1>3. CASE Malloc!Exec(p)  BY <1>3 DEF Malloc!Exec
<1>4. CASE Malloc!NoExec(p)  BY <1>4 DEF Malloc!NoExec
<1>5. CASE Malloc!Spawn(p)  BY <1>5 DEF Malloc!Spawn
<1>6. CASE Malloc!SpawnFails(p)  BY <1>6 DEF Malloc!SpawnFails
<1>7. CASE Malloc!EndSpawns(p)  BY <1>7 DEF Malloc!EndSpawns
<1>8. CASE \E t \in Malloc!Slot : Malloc!FinishThread(p, t)  BY <1>8 DEF Malloc!FinishThread
<1>9. CASE Malloc!FinishMain(p)
  <2> USE <1>9 DEF Malloc!FinishMain
  <2>1. CASE q # p
    <3>1. at'[q] = at[q] /\ i'[q] = i[q] /\ slot'[q] = slot[q] /\ file'[q] = file[q] /\ given' = given
      BY <2>1
    <3> QED  BY <3>1
  <2>2. CASE q = p
    <3>1. at'[p] = "join" /\ i'[p] = 1 /\ file'[p] = <<>>
      BY <2>2
    <3>2. 0 \in Malloc!Slot /\ slot[p] \in [Malloc!Slot -> {"zero", "busy", "filled"}]
      OBVIOUS
    <3>3. slot'[p] = [slot[p] EXCEPT ![0] = "filled"]
      OBVIOUS
    <3>4. given.threads \in Nat /\ given.threads > 0 /\ given' = given
      OBVIOUS
    <3>5. \A t \in 0..i'[p] - 1 : slot'[p][t] = "filled"
      <4>1. slot'[p][0] = "filled"  BY <3>2, <3>3
      <4>2. \A t \in 0..i'[p] - 1 : t = 0  BY <3>1
      <4> QED  BY <4>1, <4>2
    <3> QED  BY <2>2, <3>1, <3>4, <3>5
  <2> QED  BY <2>1, <2>2
<1>10. CASE Malloc!Overrun(p)  BY <1>10 DEF Malloc!Overrun
<1>11. CASE Malloc!Join(p)  BY <1>11 DEF Malloc!Join, Malloc!Joined
<1>12. CASE Malloc!EndJoins(p)  BY <1>12 DEF Malloc!EndJoins
<1>13. CASE Malloc!PrintStats(p)  BY <1>13 DEF Malloc!PrintStats, Malloc!Line
<1>14. CASE Malloc!EndMain(p)
  <2> USE <1>14 DEF Malloc!EndMain
  <2>1. CASE q # p
    <3>1. at'[q] = at[q] /\ i'[q] = i[q] /\ slot'[q] = slot[q] /\ file'[q] = file[q] /\ given' = given
      BY <2>1
    <3> QED  BY <3>1
  <2>2. CASE q = p
    <3>1. at'[p] = "ended" /\ file'[p] = file[p] /\ given' = given
      BY <2>2
    <3>2. Len(file[p]) = given.threads
      BY <2>2
    <3> QED  BY <2>2, <3>1, <3>2
  <2> QED  BY <2>1, <2>2
<1> QED
  BY <1>1, <1>2, <1>3, <1>4, <1>5, <1>6, <1>7, <1>8, <1>9, <1>10, <1>11, <1>12, <1>13, <1>14
  DEF Malloc!Step

LEMMA MallocNext == MallocInv /\ (Malloc!Next \/ UNCHANGED mallocVars) => MallocInv'
<1> SUFFICES ASSUME MallocInv, Malloc!Next \/ UNCHANGED mallocVars PROVE MallocInv'
  OBVIOUS
<1>1. ASSUME NEW o \in Malloc!Choices, Malloc!Parse(o) PROVE MallocInv'
  <2> USE <1>1, WorkloadsAssumption
      DEF MallocInv, Malloc!TypeOK, Malloc!Parse, Malloc!To, Malloc!Process
  <2>1. \A p \in Malloc!Process : at[p] = "none"  BY DEF MallocChain
  <2>2. Malloc!TypeOK'  OBVIOUS
  <2>3. MallocChain'  BY <2>1 DEF MallocChain
  <2>4. \A p \in Malloc!Process : MallocLines(p)' /\ MallocSlots(p)'
    BY <2>1 DEF MallocLines, MallocSlots
  <2> QED  BY <2>2, <2>3, <2>4
<1>2. ASSUME NEW p \in Malloc!Process, Malloc!Step(p) PROVE MallocInv'
  BY <1>2, MallocTypes, MallocChains, MallocKeeps DEF MallocInv, Malloc!Process
<1>3. CASE UNCHANGED mallocVars
  BY <1>3 DEF mallocVars, MallocInv, Malloc!TypeOK, MallocChain, MallocLines, MallocSlots
<1> QED  BY <1>1, <1>2, <1>3 DEF Malloc!Next

-----------------------------------------------------------------------------
(* ddprof_live_heap: a worker that was in a turn when running was cleared   *)
(* is at its test afterwards, and sees it.                                  *)
LiveStops(w) ==
  /\ late[w] <= 1
  /\ late[w] = 1 => ~running /\ worker[w] \in {"test", "done"}
  /\ main = "ended" => worker[w] \in {"none", "done"}

LiveInv ==
  /\ Live!TypeOK
  /\ ~running => main \in {"join", "ended"}
  /\ \A w \in Workers : LiveStops(w)

LEMMA LiveInit == Live!Init => LiveInv
BY WorkloadsAssumption DEF Live!Init, LiveInv, Live!TypeOK, LiveStops

LEMMA LiveNext == LiveInv /\ (Live!Next \/ UNCHANGED liveVars) => LiveInv'
<1> SUFFICES ASSUME LiveInv, Live!Next \/ UNCHANGED liveVars PROVE LiveInv'
  OBVIOUS
<1> USE WorkloadsAssumption DEF LiveInv, Live!TypeOK, LiveStops, Live!Be
<1>1. ASSUME NEW n \in -1..MaxSeconds, NEW threaded \in BOOLEAN, Live!Begin(n, threaded)
      PROVE  LiveInv'
  BY <1>1 DEF Live!Begin
<1>2. ASSUME NEW w \in Workers, Live!SpawnWorker(w) PROVE LiveInv'
  BY <1>2 DEF Live!SpawnWorker
<1>3. CASE Live!SpawnFails  BY <1>3 DEF Live!SpawnFails
<1>4. CASE Live!Second  BY <1>4 DEF Live!Second
<1>5. CASE Live!Stop  BY <1>5 DEF Live!Stop, Live!Clear
<1>6. CASE Live!Return  BY <1>6 DEF Live!Return
<1>7. ASSUME NEW w \in Workers, Live!Test(w) PROVE LiveInv'
  BY <1>7 DEF Live!Test
<1>8. ASSUME NEW w \in Workers, Live!TakeTurn(w) PROVE LiveInv'
  BY <1>8 DEF Live!TakeTurn
<1>9. CASE UNCHANGED liveVars  BY <1>9 DEF liveVars
<1> QED
  BY <1>1, <1>2, <1>3, <1>4, <1>5, <1>6, <1>7, <1>8, <1>9
  DEF Live!Next, Live!Main, Live!Work

-----------------------------------------------------------------------------
(* python_many_threads: the barrier opens when all workers wait at it and   *)
(* the main thread, which has started the profiler, is there too.           *)
ManyInv ==
  /\ Many!TypeOK
  /\ met => script \in {"join", "ended"} /\ \A h \in Hands : hand[h] \notin {"new", "begun"}
  /\ script \in {"wait", "join", "ended"} => profiling
  /\ worked # {} => met

LEMMA ManyInit == Many!Init => ManyInv
BY DEF Many!Init, ManyInv, Many!TypeOK

(* Rendezvous and QueryQueue count with the same Cardinality.               *)
LEMMA SameCardinality ==
  \A S : Many!Cardinality(S) = Cardinality(S) /\ Query!Cardinality(S) = Cardinality(S)
BY Zenon DEF Many!Cardinality, Query!Cardinality, Cardinality

WaitingHands == {h \in Hands : hand[h] = "waiting"}

(* Whoever opens the barrier finds every other party waiting.               *)
LEMMA ManyArrive ==
  ASSUME Many!TypeOK, NEW h \in Hands, hand[h] = "begun", Many!Waiting + 1 >= Many!Parties
  PROVE  script = "join" /\ WaitingHands = Hands \ {h}
<1>1. IsFiniteSet(Hands)
  BY WorkloadsAssumption
<1>2. IsFiniteSet(Hands \ {h}) /\ Cardinality(Hands \ {h}) = Cardinality(Hands) - 1
  BY <1>1, FS_RemoveElement
<1>3. WaitingHands \subseteq Hands \ {h}
  BY DEF WaitingHands
<1>4. /\ IsFiniteSet(WaitingHands)
      /\ Cardinality(WaitingHands) <= Cardinality(Hands \ {h})
      /\ Cardinality(WaitingHands) = Cardinality(Hands \ {h}) => WaitingHands = Hands \ {h}
  BY <1>2, <1>3, FS_Subset
<1>5. Cardinality(Hands) \in Nat /\ Cardinality(WaitingHands) \in Nat
  BY <1>1, <1>4, FS_CardinalityType
<1>6. Many!Waiting = Cardinality(WaitingHands) + (IF script = "join" THEN 1 ELSE 0)
  BY SameCardinality DEF Many!Waiting, WaitingHands
<1>7. Many!Parties = Cardinality(Hands) + 1
  BY SameCardinality DEF Many!Parties
<1> QED  BY <1>2, <1>4, <1>5, <1>6, <1>7

LEMMA ManyMainArrives ==
  ASSUME Many!TypeOK, script = "wait", Many!Waiting + 1 >= Many!Parties
  PROVE  WaitingHands = Hands
<1>1. IsFiniteSet(Hands)
  BY WorkloadsAssumption
<1>2. WaitingHands \subseteq Hands
  BY DEF WaitingHands
<1>3. /\ IsFiniteSet(WaitingHands)
      /\ Cardinality(WaitingHands) <= Cardinality(Hands)
      /\ Cardinality(WaitingHands) = Cardinality(Hands) => WaitingHands = Hands
  BY <1>1, <1>2, FS_Subset
<1>4. Cardinality(Hands) \in Nat /\ Cardinality(WaitingHands) \in Nat
  BY <1>1, <1>3, FS_CardinalityType
<1>5. Many!Waiting = Cardinality(WaitingHands) + (IF script = "join" THEN 1 ELSE 0)
  BY SameCardinality DEF Many!Waiting, WaitingHands
<1>6. Many!Parties = Cardinality(Hands) + 1
  BY SameCardinality DEF Many!Parties
<1> QED  BY <1>3, <1>4, <1>5, <1>6

LEMMA ManyNext == ManyInv /\ (Many!Next \/ UNCHANGED manyVars) => ManyInv'
<1> SUFFICES ASSUME ManyInv, Many!Next \/ UNCHANGED manyVars PROVE ManyInv'
  OBVIOUS
<1> USE DEF ManyInv, Many!TypeOK, Many!Becomes
<1>1. ASSUME NEW h \in Hands, Many!StartHand(h) PROVE ManyInv'
  BY <1>1 DEF Many!StartHand
<1>2. ASSUME NEW h \in Hands, Many!Arrive(h) PROVE ManyInv'
  <2> USE <1>2 DEF Many!Arrive
  <2>1. Many!TypeOK' /\ UNCHANGED <<script, profiling, worked>>
    OBVIOUS
  <2>2. met' => script' \in {"join", "ended"} /\ \A x \in Hands : hand'[x] \notin {"new", "begun"}
    <3>1. CASE met
      BY <3>1
    <3>2. CASE Many!Waiting + 1 >= Many!Parties
      <4>1. script = "join" /\ WaitingHands = Hands \ {h}
        BY <3>2, ManyArrive
      <4> QED  BY <4>1 DEF WaitingHands
    <3> QED  BY <3>1, <3>2
  <2> QED  BY <2>1, <2>2
<1>3. ASSUME NEW h \in Hands, Many!Leave(h) PROVE ManyInv'
  BY <1>3 DEF Many!Leave
<1>4. ASSUME NEW h \in Hands, Many!Expire(h) PROVE ManyInv'
  BY <1>4 DEF Many!Expire
<1>5. CASE Many!Raise  BY <1>5 DEF Many!Raise
<1>6. CASE Many!StartProfiler  BY <1>6 DEF Many!StartProfiler
<1>7. CASE Many!MainArrives
  <2> USE <1>7 DEF Many!MainArrives
  <2>1. met' => \A x \in Hands : hand'[x] \notin {"new", "begun"}
    BY ManyMainArrives DEF WaitingHands
  <2>2. Many!TypeOK'
    OBVIOUS
  <2> QED  BY <2>1, <2>2
<1>8. CASE Many!JoinHands  BY <1>8 DEF Many!JoinHands
<1>9. CASE UNCHANGED manyVars  BY <1>9 DEF manyVars
<1> QED
  BY <1>1, <1>2, <1>3, <1>4, <1>5, <1>6, <1>7, <1>8, <1>9 DEF Many!Next

-----------------------------------------------------------------------------
(* flaky_ruby_heap: the clock is the time of the loops, what no reading saw *)
(* and what the budget is behind.                                           *)
HeapInv ==
  /\ Heap!TypeOK
  /\ clock = Each * iterations + unseen - sleep_budget
  /\ sleep_budget <= 0 /\ iterations <= Loops
  /\ over => clock >= Each * Loops

(* Multiplication keeps and reflects the order.                             *)
LEMMA Monotone ==
  ASSUME NEW k \in Nat, NEW a \in Nat, NEW b \in Nat, a <= b
  PROVE  k * a <= k * b
<1>1. k * (b - a) >= 0  BY SMT
<1> QED  BY <1>1, SMT

LEMMA Fewer ==
  ASSUME NEW k \in Nat, NEW a \in Nat, NEW b \in Nat, k * a < k * b
  PROVE  a + 1 <= b
<1>1. ~(b <= a)
  BY Monotone
<1> QED  BY <1>1

LEMMA HeapInit == Heap!Init => HeapInv
<1>1. Each \in Nat /\ Loops \in Nat /\ Each * 0 = 0
  BY WorkloadsAssumption, SMT
<1> SUFFICES ASSUME Heap!Init PROVE HeapInv
  OBVIOUS
<1>2. clock = 0 /\ sleep_budget = 0 /\ iterations = 0 /\ unseen = 0 /\ over = FALSE
  BY DEF Heap!Init
<1>3. Each * iterations = 0
  BY <1>1, <1>2, Zenon
<1>4. ~over /\ over \in BOOLEAN
  BY <1>2, Zenon
<1>5. clock = Each * iterations + unseen - sleep_budget
  BY <1>2, <1>3
<1> QED  BY <1>1, <1>2, <1>4, <1>5 DEF HeapInv, Heap!TypeOK

LEMMA HeapLoop ==
  ASSUME HeapInv, NEW w \in Works, NEW o \in Oversleeps, NEW g \in Gaps, Heap!Loop(w, o, g)
  PROVE  HeapInv'
<1>0. Each \in Nat /\ Loops \in Nat /\ w \in Nat /\ o \in Nat /\ g \in Nat /\ Heap!TypeOK
  BY WorkloadsAssumption DEF HeapInv
<1> USE DEF Heap!TypeOK
<1> DEFINE b == sleep_budget + Each - w
           s == (IF b > 0 THEN b ELSE 0) + o
<1>1. /\ sleep_budget' = b - s /\ clock' = clock + w + s + g
      /\ unseen' = unseen + g /\ iterations' = iterations + 1 /\ over' = over
      /\ ~over /\ clock < Each * Loops
  BY DEF Heap!Loop, Heap!Budget, Heap!End_time
<1>2. b \in Int /\ s \in Nat /\ b <= s
  BY <1>0
<1>3. Each * iterations \in Nat /\ Each * (iterations + 1) = Each * iterations + Each
  BY <1>0, SMT
<1>4. /\ clock = Each * iterations + unseen - sleep_budget
      /\ sleep_budget <= 0
  BY DEF HeapInv
<1>5. Each * iterations < Each * Loops
  BY <1>0, <1>1, <1>3, <1>4
<1>6. iterations + 1 <= Loops
  BY <1>0, <1>5, Fewer
<1> HIDE DEF b, s
<1>7. Heap!TypeOK'
  BY <1>0, <1>1, <1>2
<1>8. clock' = Each * iterations' + unseen' - sleep_budget'
  <2>1. sleep_budget + Each - w = b
    BY DEF b
  <2> QED  BY <1>0, <1>1, <1>2, <1>3, <1>4, <2>1
<1> QED  BY <1>0, <1>1, <1>2, <1>6, <1>7, <1>8 DEF HeapInv

LEMMA HeapNext == HeapInv /\ (Heap!Next \/ UNCHANGED heapVars) => HeapInv'
<1> SUFFICES ASSUME HeapInv, Heap!Next \/ UNCHANGED heapVars PROVE HeapInv'
  OBVIOUS
<1>1. CASE Heap!Finish
  BY <1>1 DEF HeapInv, Heap!TypeOK, Heap!Finish, Heap!End_time
<1>2. CASE UNCHANGED heapVars
  BY <1>2 DEF HeapInv, Heap!TypeOK, heapVars
<1> QED  BY <1>1, <1>2, HeapLoop DEF Heap!Next

LEMMA HeapKept == HeapInv => Heap!LoopsKept
<1> SUFFICES ASSUME HeapInv, over, Heap!Behind < Each, iterations # Loops PROVE FALSE
  BY DEF Heap!LoopsKept, HeapInv
<1> USE DEF HeapInv, Heap!TypeOK, Heap!Behind
<1>1. Each \in Nat /\ Loops \in Nat
  BY WorkloadsAssumption
<1>2. iterations + 1 <= Loops
  BY <1>1
<1>3. Each * (iterations + 1) <= Each * Loops
  BY <1>1, <1>2, Monotone
<1>4. Each * (iterations + 1) = Each * iterations + Each /\ Each * iterations \in Nat /\ Each * Loops \in Nat
  BY <1>1, SMT
<1> QED  BY <1>1, <1>3, <1>4

-----------------------------------------------------------------------------
(* simple_malloc's pace: between two evaluations the turns took at least    *)
(* their pauses; the first evaluation sees one pause less.                  *)
Ceiling == perTurn * Target + (Target \div (3 * Interval)) + 1

PauseSeen ==
  \/ elapsed >= (turn + 1) * Pace!Slept(pause)
  \/ pause = Target /\ elapsed >= turn * Target

PaceInv ==
  /\ Pace!TypeOK
  /\ perTurn = 0 => pause = Target /\ turn = 0 /\ elapsed = 0
  /\ PauseSeen
  /\ perTurn > 0 => pause <= Ceiling

(* A quotient is at least what fits.                                        *)
LEMMA Fits ==
  ASSUME NEW e \in Nat, NEW n \in Nat \ {0}, NEW k \in Nat, n * k <= e
  PROVE  k <= e \div n
<1> DEFINE q == e \div n
<1>1. q \in Nat /\ e < n * (q + 1)
  <2>1. e \div n \in Nat /\ e % n \in 0..n - 1 /\ e = n * (e \div n) + (e % n)
    BY SMT
  <2>2. n * (q + 1) = n * q + n
    BY <2>1, SMT
  <2> QED  BY <2>1, <2>2
<1> HIDE DEF q
<1>2. n * k < n * (q + 1)
  <2>1. n * k \in Nat /\ n * (q + 1) \in Nat
    BY <1>1, SMT
  <2> QED  BY <1>1, <2>1
<1>3. k + 1 <= q + 1
  BY <1>1, <1>2, Fewer
<1> QED  BY <1>1, <1>3 DEF q

(* The correction that an evaluation of a mean of q makes.                  *)
LEMMA Correction ==
  ASSUME NEW T \in Nat \ {0}, NEW P \in 1..2, NEW x \in Int, NEW c \in Nat,
         NEW q \in Nat, x > 0 => q >= x \div P, x <= P * T + c
  PROVE  x - Pace!Third(q - T) <= P * T + c
<1>1. CASE P = 1
  BY <1>1, SMT DEF Pace!Third
<1>2. CASE P = 2
  BY <1>2, SMT DEF Pace!Third
<1> QED  BY <1>1, <1>2

LEMMA CorrectedBounded ==
  ASSUME NEW P \in 1..2, NEW e \in Nat, pause \in Int, pause <= P * Target + (Target \div (3 * Interval)) + 1,
         \/ e >= Interval * Pace!Slept(pause)
         \/ pause = Target /\ e >= (Interval - 1) * Target
  PROVE  /\ Pace!Corrected(e, P * Interval) \in Int
         /\ Pace!Corrected(e, P * Interval) <= P * Target + (Target \div (3 * Interval)) + 1
<1> DEFINE n == P * Interval
           q == e \div n
           m == Target \div Interval
           c == (Target \div (3 * Interval)) + 1
<1>0. Target \in Nat \ {0} /\ Interval \in Nat \ {0}
  BY WorkloadsAssumption
<1>1. n \in Nat \ {0} /\ (P = 1 => n = Interval) /\ (P = 2 => n = Interval + Interval)
  BY <1>0, SMT
<1>2. q \in Nat
  BY <1>1, SMT
<1>3. c \in Nat
  <2>1. 3 * Interval \in Nat \ {0}  BY <1>0
  <2> QED  BY <1>0, <2>1, SMT
<1>4. Pace!Corrected(e, n) = pause - Pace!Third(q - Target)
  BY DEF Pace!Corrected
<1> HIDE DEF c
<1>5. CASE e >= Interval * Pace!Slept(pause)
  <2>1. ASSUME pause > 0 PROVE q >= pause \div P
    <3>1. Pace!Slept(pause) = pause /\ pause \in Nat
      BY <2>1 DEF Pace!Slept
    <3>2. pause \div P \in Nat /\ P * (pause \div P) <= pause
      BY <3>1, SMT
    <3>3. P * (pause \div P) \in Nat
      BY <3>2, SMT
    <3>4. Interval * (P * (pause \div P)) <= Interval * pause
      BY <1>0, <3>1, <3>2, <3>3, Monotone
    <3>5. n * (pause \div P) = Interval * (P * (pause \div P))
      BY <1>0, <3>2, SMT
    <3>6. n * (pause \div P) <= e
      <4>1. Interval * pause \in Int /\ Interval * (P * (pause \div P)) \in Int
        BY <1>0, <3>1, <3>3, SMT
      <4> HIDE DEF n
      <4> QED  BY <1>5, <3>1, <3>4, <3>5, <4>1
    <3> HIDE DEF n
    <3>7. pause \div P <= e \div n
      BY <1>1, <3>2, <3>6, Fits
    <3> QED  BY <1>2, <3>2, <3>7
  <2>2. pause <= P * Target + c
    BY <1>0, SMT DEF c
  <2> HIDE DEF q, n
  <2>3. pause - Pace!Third(q - Target) <= P * Target + c
    BY <1>0, <1>2, <1>3, <2>1, <2>2, Correction
  <2> QED  BY <1>0, <1>2, <1>4, <2>3, SMT DEF c, n, Pace!Third
<1>6. CASE pause = Target /\ e >= (Interval - 1) * Target
  <2>1. m \in Nat /\ Interval * m <= Target /\ Target < Interval * (m + 1)
    <3>1. m \in Nat /\ Target % Interval \in 0..Interval - 1 /\ Target = Interval * m + (Target % Interval)
      BY <1>0, SMT
    <3>2. Interval * (m + 1) = Interval * m + Interval /\ Interval * m \in Nat
      BY <1>0, <3>1, SMT
    <3> QED  BY <1>0, <3>1, <3>2
  <2>2. m \div 3 <= Target \div (3 * Interval)
    <3>1. m \div 3 \in Nat /\ 3 * (m \div 3) <= m /\ 3 * (m \div 3) \in Nat
      BY <2>1, SMT
    <3>2. Interval * (3 * (m \div 3)) <= Interval * m
      BY <1>0, <2>1, <3>1, Monotone
    <3>3. (3 * Interval) * (m \div 3) = Interval * (3 * (m \div 3))
      BY <1>0, <3>1, SMT
    <3>4. (3 * Interval) * (m \div 3) <= Target
      <4>1. Interval * m \in Int /\ Interval * (3 * (m \div 3)) \in Int
        BY <1>0, <2>1, <3>1, SMT
      <4> QED  BY <1>0, <2>1, <3>2, <3>3, <4>1
    <3> HIDE DEF m
    <3> QED  BY <1>0, <3>1, <3>4, Fits
  <2>3. CASE P = 1
    <3>1. q >= Target - m - 1
      <4>1. CASE Target - m - 1 <= 0
        BY <1>0, <1>2, <2>1, <4>1
      <4>2. CASE Target - m - 1 > 0
        <5>1. Target - m - 1 \in Nat
          BY <1>0, <2>1, <4>2
        <5>2. Interval * (Target - m - 1) = Interval * Target - Interval * (m + 1) /\ (Interval - 1) * Target = Interval * Target - Target
          BY <1>0, <2>1, SMT
        <5>3. Interval * Target \in Int /\ Interval * (m + 1) \in Int
          BY <1>0, <2>1, SMT
        <5>4. Interval * (Target - m - 1) <= e
          BY <1>0, <1>6, <2>1, <5>2, <5>3
        <5> HIDE DEF m
        <5>5. Target - m - 1 <= e \div Interval
          BY <1>0, <5>1, <5>4, Fits
        <5> QED  BY <1>1, <2>3, <5>5
      <4> QED  BY <1>0, <2>1, <4>1, <4>2
    <3> HIDE DEF q, m
    <3>2. Target - Pace!Third(q - Target) <= Target + (m \div 3) + 1
      BY <1>0, <1>2, <2>1, <3>1, SMT DEF Pace!Third
    <3>3. m \div 3 \in Int /\ Target \div (3 * Interval) \in Int
      BY <1>0, <1>3, <2>1, SMT DEF c
    <3> QED  BY <1>0, <1>2, <1>4, <1>6, <2>2, <2>3, <3>2, <3>3, SMT DEF Pace!Third
  <2>4. CASE P = 2
    <3> HIDE DEF q, n
    <3>1. Target - Pace!Third(q - Target) <= 2 * Target
      BY <1>0, <1>2, SMT DEF Pace!Third
    <3>2. Target - Pace!Third(q - Target) \in Int
      BY <1>0, <1>2, SMT DEF Pace!Third
    <3> QED  BY <1>0, <1>3, <1>4, <1>6, <2>4, <3>1, <3>2, SMT DEF c, n
  <2> QED  BY <2>3, <2>4
<1> QED  BY <1>5, <1>6

LEMMA PaceInit == Pace!Init => PaceInv
<1> SUFFICES ASSUME Pace!Init PROVE PaceInv
  OBVIOUS
<1> USE WorkloadsAssumption DEF Pace!Init
<1>1. perTurn * turn = 0 /\ turn * Target = 0
  BY SMT
<1>2. Pace!TypeOK
  BY <1>1 DEF Pace!TypeOK
<1>3. PauseSeen
  BY <1>1 DEF PauseSeen
<1> QED  BY <1>2, <1>3 DEF PaceInv

(* The ceiling is above the time of a turn.                                 *)
LEMMA CeilingHigh ==
  ASSUME NEW n \in 1..2
  PROVE  Target <= n * Target + (Target \div (3 * Interval)) + 1
<1>1. Target \in Nat /\ 3 * Interval \in Nat \ {0}
  BY WorkloadsAssumption
<1>2. Target \div (3 * Interval) \in Nat
  BY <1>1, SMT
<1>3. n * Target >= Target
  BY <1>1, SMT
<1>4. n * Target \in Nat
  BY <1>1, SMT
<1> QED  BY <1>1, <1>2, <1>3, <1>4

LEMMA PaceBegin ==
  ASSUME PaceInv, NEW n \in 1..2, NEW c \in Costs, Pace!Begin(n, c)
  PROVE  PaceInv'
<1> USE WorkloadsAssumption DEF PaceInv, Pace!TypeOK, Pace!Begin
<1>1. turn = 0 /\ n * turn = 0 /\ pause = Target
  BY SMT
<1>2. Pace!TypeOK'
  BY <1>1
<1>3. PauseSeen'
  BY DEF PauseSeen
<1>4. pause' <= Ceiling'
  BY <1>1, CeilingHigh DEF Ceiling
<1> QED  BY <1>2, <1>3, <1>4

LEMMA PaceTurn ==
  ASSUME PaceInv, Pace!Turn
  PROVE  PaceInv'
<1> DEFINE due == turn + 1 = Interval
           e == elapsed + load
           n == counted + perTurn
           p == IF due THEN Pace!Corrected(e, n) ELSE pause
           rest == Pace!Slept(p) + Spin
<1>0. /\ Target \in Nat \ {0} /\ Interval \in Nat \ {0} /\ Spin \in Nat /\ Costs \subseteq Nat
      /\ Pace!TypeOK /\ load \in Nat /\ perTurn \in 1..2
  BY WorkloadsAssumption DEF PaceInv, Pace!TypeOK, Pace!Turn
<1>1. /\ pause' = p
      /\ turn' = (IF due THEN 0 ELSE turn + 1)
      /\ counted' = (IF due THEN 0 ELSE n)
      /\ elapsed' = rest + (IF due THEN 0 ELSE e)
      /\ left' = Pace!Later(left, load + rest)
      /\ settled' = (IF due /\ settled < SettlesIn THEN settled + 1 ELSE settled)
      /\ slow' = (IF due /\ ~Pace!Achievable THEN slow + 1 ELSE slow)
      /\ UNCHANGED <<perTurn, load, changes>>
  BY DEF Pace!Turn, Pace!CountFrom
<1>2. e \in Nat /\ n = perTurn * (turn + 1)
  BY <1>0, SMT DEF Pace!TypeOK
<1>3. p \in Int /\ p <= Ceiling
  <2>1. CASE ~due
    BY <1>0, <2>1 DEF PaceInv, Pace!TypeOK
  <2>2. CASE due
    <3>1. \/ e >= Interval * Pace!Slept(pause)
          \/ pause = Target /\ e >= (Interval - 1) * Target
      <4>1. CASE elapsed >= (turn + 1) * Pace!Slept(pause)
        <5>1. Interval * Pace!Slept(pause) \in Nat
          BY <1>0, SMT DEF Pace!Slept, Pace!TypeOK
        <5> QED  BY <1>0, <2>2, <4>1, <5>1 DEF Pace!TypeOK
      <4>2. CASE pause = Target /\ elapsed >= turn * Target
        <5>1. turn = Interval - 1 /\ (Interval - 1) * Target \in Nat
          BY <1>0, <2>2, SMT DEF Pace!TypeOK
        <5> QED  BY <1>0, <4>2, <5>1 DEF Pace!TypeOK
      <4> QED  BY <4>1, <4>2 DEF PaceInv, PauseSeen
    <3>2. n = perTurn * Interval
      BY <1>0, <1>2, <2>2
    <3>3. pause \in Int /\ pause <= Ceiling
      BY <1>0 DEF PaceInv, Pace!TypeOK
    <3> HIDE DEF e, n
    <3>4. Pace!Corrected(e, n) \in Int /\ Pace!Corrected(e, n) <= Ceiling
      BY <1>0, <1>2, <3>1, <3>2, <3>3, CorrectedBounded DEF Ceiling
    <3> QED  BY <2>2, <3>4
  <2> QED  BY <2>1, <2>2
<1>4. rest \in Nat /\ rest >= Pace!Slept(p) /\ Pace!Slept(p) \in Nat
  BY <1>0, <1>3 DEF Pace!Slept
<1> HIDE DEF rest
<1>5. PauseSeen'
  <2>1. CASE due
    <3>1. (turn' + 1) * Pace!Slept(p) = Pace!Slept(p)
      BY <1>1, <1>4, <2>1, SMT
    <3> QED  BY <1>1, <1>4, <2>1, <3>1 DEF PauseSeen, Pace!Slept
  <2>2. CASE ~due
    <3>1. p = pause /\ turn' = turn + 1 /\ turn \in Nat /\ elapsed' = rest + elapsed + load
      BY <1>0, <1>1, <1>2, <1>4, <2>2 DEF Pace!TypeOK
    <3>2. ASSUME NEW s \in Nat PROVE (turn + 2) * s = (turn + 1) * s + s /\ (turn + 1) * s = turn * s + s /\ turn * s \in Nat
      BY <3>1, SMT
    <3>3. CASE elapsed >= (turn + 1) * Pace!Slept(pause)
      <4>1. elapsed' >= (turn' + 1) * Pace!Slept(pause)
        BY <1>0, <1>4, <3>1, <3>2, <3>3 DEF Pace!TypeOK
      <4> QED  BY <1>1, <3>1, <4>1 DEF PauseSeen, Pace!Slept
    <3>4. CASE pause = Target /\ elapsed >= turn * Target
      <4>1. Pace!Slept(pause) = Target
        BY <1>0, <3>4 DEF Pace!Slept
      <4>2. elapsed' >= turn' * Target
        BY <1>0, <1>4, <3>1, <3>2, <3>4, <4>1 DEF Pace!TypeOK
      <4> QED  BY <1>1, <3>1, <3>4, <4>2 DEF PauseSeen
    <3> QED  BY <3>3, <3>4 DEF PaceInv, PauseSeen
  <2> QED  BY <2>1, <2>2
<1>6. Pace!TypeOK'
  <2>1. turn' \in 0..Interval - 1 /\ counted' = perTurn' * turn'
    BY <1>0, <1>1, <1>2, SMT DEF Pace!TypeOK
  <2>2. elapsed' \in Nat /\ left' \in Nat
    BY <1>0, <1>1, <1>2, <1>4 DEF Pace!TypeOK, Pace!Later
  <2> QED  BY <1>0, <1>1, <1>3, <2>1, <2>2 DEF Pace!TypeOK
<1> QED  BY <1>0, <1>1, <1>3, <1>5, <1>6 DEF PaceInv, Ceiling

LEMMA PaceNext == PaceInv /\ (Pace!Next \/ UNCHANGED pacingVars) => PaceInv'
<1> SUFFICES ASSUME PaceInv, Pace!Next \/ UNCHANGED pacingVars PROVE PaceInv'
  OBVIOUS
<1>1. ASSUME NEW c \in Costs, Pace!Change(c) PROVE PaceInv'
  BY <1>1, WorkloadsAssumption DEF PaceInv, Pace!TypeOK, PauseSeen, Ceiling, Pace!Slept, Pace!Change
<1>2. CASE UNCHANGED pacingVars
  BY <1>2 DEF PaceInv, Pace!TypeOK, PauseSeen, Ceiling, Pace!Slept, pacingVars
<1> QED  BY <1>1, <1>2, PaceBegin, PaceTurn DEF Pace!Next

-----------------------------------------------------------------------------
(* simple_malloc's pace again: under a load that can be made up for it      *)
(* comes to the target.  What k evaluations make of a pause is a recursive  *)
(* function; a least counterexample takes the place of induction on k.      *)
Below == {r \in Nat \X Nat : r[1] < r[2]}

(* A set of numbers has a least one.                                        *)
LEMMA Least ==
  ASSUME NEW S, S \subseteq Nat, S # {}
  PROVE  \E n \in S : \A m \in S : n <= m
<1>1. IsWellFoundedOn(Below, Nat)
  BY NatLessThanWellFounded DEF OpToRel, Below
<1>2. PICK n \in S : \A m \in S : ~(<<m, n>> \in Below)
  BY <1>1, WFMin
<1>3. \A m \in S : m \in Nat /\ n \in Nat /\ ~(m < n)
  BY <1>2 DEF Below
<1> QED  BY <1>3

(* The pauses of k evaluations.                                             *)
IsCourse(s, x, n, c, k) ==
  s = [j \in 0..k |-> IF j = 0 THEN x ELSE Pace!Evaluated(s[j - 1], n, c)]

LEMMA CourseHolds ==
  ASSUME NEW s, NEW x, NEW n, NEW c, NEW k \in Nat, IsCourse(s, x, n, c, k)
  PROVE  DOMAIN s = 0..k /\ \A j \in 0..k : s[j] = IF j = 0 THEN x ELSE Pace!Evaluated(s[j - 1], n, c)
<1>1. s = [j \in 0..k |-> IF j = 0 THEN x ELSE Pace!Evaluated(s[j - 1], n, c)]
  BY DEF IsCourse
<1> QED  BY <1>1, Zenon

(* A course and one evaluation more is a course.                            *)
LEMMA CourseGoesOn ==
  ASSUME NEW s, NEW x, NEW n, NEW c, NEW k \in Nat, IsCourse(s, x, n, c, k)
  PROVE  \E t : /\ IsCourse(t, x, n, c, k + 1) /\ t[k + 1] = Pace!Evaluated(s[k], n, c)
                /\ \A j \in 0..k : t[j] = s[j]
<1> DEFINE t == [j \in 0..k + 1 |-> IF j = k + 1 THEN Pace!Evaluated(s[k], n, c) ELSE s[j]]
           u == [j \in 0..k + 1 |-> IF j = 0 THEN x ELSE Pace!Evaluated(t[j - 1], n, c)]
<1>1. DOMAIN s = 0..k /\ \A j \in 0..k : s[j] = IF j = 0 THEN x ELSE Pace!Evaluated(s[j - 1], n, c)
  BY CourseHolds
<1>2. t[k + 1] = Pace!Evaluated(s[k], n, c) /\ \A j \in 0..k : t[j] = s[j]
  OBVIOUS
<1> HIDE DEF t
<1>3. \A j \in 0..k + 1 : t[j] = u[j]
  <2> SUFFICES ASSUME NEW j \in 0..k + 1  PROVE t[j] = IF j = 0 THEN x ELSE Pace!Evaluated(t[j - 1], n, c)
    OBVIOUS
  <2>1. CASE j = k + 1
    BY <1>2, <2>1
  <2>2. CASE j # k + 1
    <3>1. j \in 0..k /\ (j # 0 => j - 1 \in 0..k)
      BY <2>2
    <3> QED  BY <1>1, <1>2, <3>1
  <2> QED  BY <2>1, <2>2
<1>4. t = u
  <2>1. t = [j \in 0..k + 1 |-> t[j]] /\ u = [j \in 0..k + 1 |-> u[j]]
    BY DEF t
  <2> HIDE DEF u
  <2> QED  BY <1>3, <2>1
<1>5. IsCourse(t, x, n, c, k + 1)
  BY <1>4 DEF IsCourse
<1> QED  BY <1>2, <1>5

LEMMA CoursesExist ==
  ASSUME NEW x, NEW n, NEW c, NEW k \in Nat
  PROVE  \E s : IsCourse(s, x, n, c, k)
<1> DEFINE Bad == {m \in Nat : ~ \E s : IsCourse(s, x, n, c, m)}
<1>1. SUFFICES ASSUME Bad # {} PROVE FALSE
  BY <1>1
<1>2. PICK m \in Bad : \A j \in Bad : m <= j
  <2>1. Bad \subseteq Nat /\ Bad # {}
    BY <1>1
  <2> HIDE DEF Bad
  <2> QED  BY <2>1, Least
<1>3. m # 0
  <2> DEFINE s == [j \in 0..0 |-> x]
  <2>1. s = [j \in 0..0 |-> IF j = 0 THEN x ELSE Pace!Evaluated(s[j - 1], n, c)]
    OBVIOUS
  <2> QED  BY <1>2, <2>1 DEF IsCourse
<1>4. m \in Nat /\ m - 1 \in Nat /\ m - 1 \notin Bad
  BY <1>2, <1>3
<1>5. PICK s : IsCourse(s, x, n, c, m - 1)
  BY <1>4
<1> HIDE DEF Bad
<1>6. \E t : IsCourse(t, x, n, c, (m - 1) + 1)
  BY <1>4, <1>5, CourseGoesOn
<1> QED  BY <1>2, <1>4, <1>6 DEF Bad

LEMMA AfterIs ==
  ASSUME NEW x, NEW n, NEW c, NEW k \in Nat
  PROVE  \E s : IsCourse(s, x, n, c, k) /\ Pace!After(x, n, c, k) = s[k]
<1> DEFINE r == CHOOSE s : IsCourse(s, x, n, c, k)
<1>1. IsCourse(r, x, n, c, k)
  BY CoursesExist
<1>2. Pace!After(x, n, c, k) = r[k]
  BY DEF Pace!After, IsCourse
<1> QED  BY <1>1, <1>2

(* Two courses from one pause are the same.                                 *)
LEMMA OneCourse ==
  ASSUME NEW s, NEW t, NEW x, NEW n, NEW c, NEW k \in Nat, NEW l \in Nat, k <= l,
         IsCourse(s, x, n, c, k), IsCourse(t, x, n, c, l)
  PROVE  s[k] = t[k]
<1> DEFINE Bad == {j \in 0..k : s[j] # t[j]}
<1>1. SUFFICES ASSUME Bad # {} PROVE FALSE
  BY <1>1
<1>2. PICK m \in Bad : \A j \in Bad : m <= j
  <2>1. Bad \subseteq Nat /\ Bad # {}
    BY <1>1
  <2> HIDE DEF Bad
  <2> QED  BY <2>1, Least
<1>3. \A j \in 0..k : /\ s[j] = IF j = 0 THEN x ELSE Pace!Evaluated(s[j - 1], n, c)
                      /\ t[j] = IF j = 0 THEN x ELSE Pace!Evaluated(t[j - 1], n, c)
  <2>1. \A j \in 0..k : j \in 0..l
    OBVIOUS
  <2> QED  BY <2>1, CourseHolds
<1>4. m # 0
  BY <1>2, <1>3
<1>5. m - 1 \in 0..k /\ m \in 0..k /\ ~(m <= m - 1)
  BY <1>2, <1>4
<1>6. s[m - 1] = t[m - 1]
  BY <1>2, <1>5
<1> HIDE DEF Bad
<1>7. s[m] = t[m]
  BY <1>3, <1>4, <1>5, <1>6
<1> QED  BY <1>2, <1>7 DEF Bad

(* No evaluation leaves the pause, one more evaluates it once more.         *)
LEMMA AfterMore ==
  ASSUME NEW x, NEW n, NEW c, NEW k \in Nat
  PROVE  /\ Pace!After(x, n, c, 0) = x
         /\ Pace!After(x, n, c, k + 1) = Pace!Evaluated(Pace!After(x, n, c, k), n, c)
<1>1. Pace!After(x, n, c, 0) = x
  <2>1. PICK s : IsCourse(s, x, n, c, 0) /\ Pace!After(x, n, c, 0) = s[0]
    BY AfterIs
  <2> QED  BY <2>1, CourseHolds
<1>2. PICK s : IsCourse(s, x, n, c, k) /\ Pace!After(x, n, c, k) = s[k]
  BY AfterIs
<1>3. k + 1 \in Nat
  OBVIOUS
<1>4. PICK t : IsCourse(t, x, n, c, k + 1) /\ Pace!After(x, n, c, k + 1) = t[k + 1]
  BY <1>3, AfterIs
<1>5. s[k] = t[k]
  <2> DEFINE l == k + 1
  <2>1. l \in Nat /\ k <= l /\ IsCourse(t, x, n, c, l)
    BY <1>4
  <2> HIDE DEF l
  <2> QED  BY <1>2, <2>1, OneCourse
<1>6. t[k + 1] = Pace!Evaluated(t[k], n, c)
  <2>1. \A j \in 0..k + 1 : t[j] = IF j = 0 THEN x ELSE Pace!Evaluated(t[j - 1], n, c)
    BY <1>3, <1>4, CourseHolds
  <2>2. k + 1 \in 0..k + 1 /\ k + 1 # 0 /\ (k + 1) - 1 = k
    OBVIOUS
  <2> QED  BY <2>1, <2>2
<1> QED  BY <1>1, <1>2, <1>4, <1>5, <1>6

(* On target, an evaluation leaves it there.                                *)
LEMMA NearStays ==
  ASSUME NEW x \in Int, NEW n \in 1..2, NEW c \in Nat, c + Spin <= n * Target, Pace!Near(x, n, c)
  PROVE  Pace!Evaluated(x, n, c) \in Int /\ Pace!Near(Pace!Evaluated(x, n, c), n, c)
<1>1. Target \in Nat /\ Spin \in Nat
  BY WorkloadsAssumption
<1> DEFINE L == c + Spin
           q == (L + Pace!Slept(x)) \div n
<1>2. L \in Nat /\ L <= n * Target /\ Pace!Evaluated(x, n, c) = x - Pace!Third(q - Target)
  BY <1>1 DEF Pace!Evaluated
<1>3. L + Pace!Slept(x) - n * Target <= 3 * n /\ -(L + Pace!Slept(x) - n * Target) <= 3 * n
  BY DEF Pace!Near
<1> HIDE DEF L
<1>4. CASE n = 1
  <2>1. q = L + Pace!Slept(x)
    BY <1>1, <1>2, <1>4, SMT DEF Pace!Slept
  <2> HIDE DEF q
  <2>2. /\ x - Pace!Third(q - Target) \in Int
        /\ L + Pace!Slept(x - Pace!Third(q - Target)) - n * Target <= 3 * n
        /\ -(L + Pace!Slept(x - Pace!Third(q - Target)) - n * Target) <= 3 * n
    BY <1>1, <1>2, <1>3, <1>4, <2>1, SMT DEF Pace!Slept, Pace!Third
  <2> QED  BY <1>2, <2>2 DEF Pace!Near, L
<1>5. CASE n = 2
  <2>1. q \in Int /\ 2 * q <= L + Pace!Slept(x) /\ L + Pace!Slept(x) <= 2 * q + 1
    BY <1>1, <1>2, <1>5, SMT DEF Pace!Slept
  <2> HIDE DEF q
  <2>2. /\ x - Pace!Third(q - Target) \in Int
        /\ L + Pace!Slept(x - Pace!Third(q - Target)) - n * Target <= 3 * n
        /\ -(L + Pace!Slept(x - Pace!Third(q - Target)) - n * Target) <= 3 * n
    BY <1>1, <1>2, <1>3, <1>5, <2>1, SMT DEF Pace!Slept, Pace!Third
  <2> QED  BY <1>2, <2>2 DEF Pace!Near, L
<1> QED  BY <1>4, <1>5

(* Under such a load it never takes the pause below what it was, or 0.      *)
LEMMA NoDrop ==
  ASSUME NEW x \in Int, NEW n \in 1..2, NEW c \in Nat, NEW q \in Int, c + Spin <= n * Target,
         q <= (c + Spin + Pace!Slept(x)) \div n
  PROVE  LET y == x - Pace!Third(q - Target) IN y >= 0 \/ y >= x
<1>1. Target \in Nat /\ Spin \in Nat
  BY WorkloadsAssumption
<1> DEFINE L == c + Spin
           r == (L + Pace!Slept(x)) \div n
<1>2. L \in Nat /\ L <= n * Target /\ q <= r
  BY <1>1
<1> HIDE DEF L
<1>3. CASE n = 1
  <2>1. r = L + Pace!Slept(x)
    BY <1>1, <1>2, <1>3, SMT DEF Pace!Slept
  <2> HIDE DEF r
  <2> QED  BY <1>1, <1>2, <1>3, <2>1, SMT DEF Pace!Slept, Pace!Third
<1>4. CASE n = 2
  <2>1. r \in Int /\ 2 * r <= L + Pace!Slept(x) /\ L + Pace!Slept(x) <= 2 * r + 1
    BY <1>1, <1>2, <1>4, SMT DEF Pace!Slept
  <2> HIDE DEF r
  <2> QED  BY <1>1, <1>2, <1>4, <2>1, SMT DEF Pace!Slept, Pace!Third
<1> QED  BY <1>3, <1>4

(* Under any load it takes at most a drop from the pause, or from 0.        *)
LEMMA OneDrop ==
  ASSUME NEW x \in Int, NEW n \in 1..2, NEW c \in Nat, NEW w \in Nat, c <= w, NEW q \in Int,
         q <= (c + Spin + Pace!Slept(x)) \div n
  PROVE  LET y == x - Pace!Third(q - Target)
         IN  y >= -Pace!Drop(n, w) \/ y >= x - Pace!Drop(n, w)
<1>1. Target \in Nat /\ Spin \in Nat
  BY WorkloadsAssumption
<1> DEFINE L == c + Spin
           M == w + Spin
           r == (L + Pace!Slept(x)) \div n
           m == M \div n
           d == Pace!Third(m - Target)
<1>2. L \in Nat /\ M \in Nat /\ L <= M /\ q <= r
  BY <1>1
<1>3. Pace!Drop(n, w) = IF d > 0 THEN d ELSE 0
  BY DEF Pace!Drop
<1> HIDE DEF L, M
<1>4. CASE n = 1
  <2>1. r = L + Pace!Slept(x) /\ m = M
    BY <1>1, <1>2, <1>4, SMT DEF Pace!Slept
  <2> HIDE DEF r, m
  <2> QED  BY <1>1, <1>2, <1>3, <1>4, <2>1, SMT DEF Pace!Slept, Pace!Third
<1>5. CASE n = 2
  <2>1. /\ r \in Int /\ 2 * r <= L + Pace!Slept(x) /\ L + Pace!Slept(x) <= 2 * r + 1
        /\ m \in Int /\ 2 * m <= M /\ M <= 2 * m + 1
    BY <1>1, <1>2, <1>5, SMT DEF Pace!Slept
  <2> HIDE DEF r, m
  <2> QED  BY <1>1, <1>2, <1>3, <1>5, <2>1, SMT DEF Pace!Slept, Pace!Third
<1> QED  BY <1>4, <1>5

(* A mean over Interval turns of one cost is that of one turn.              *)
LEMMA MeanOfSame ==
  ASSUME NEW U \in Nat, NEW n \in 1..2, NEW e \in Nat, e <= Interval * U
  PROVE  /\ e \div (n * Interval) \in Nat /\ e \div (n * Interval) <= U \div n
         /\ e = Interval * U => e \div (n * Interval) = U \div n
<1> DEFINE N == n * Interval
           q == e \div N
           r == U \div n
<1>1. Interval \in Nat \ {0} /\ N \in Nat \ {0}
  BY WorkloadsAssumption, SMT
<1>2. q \in Nat /\ N * q <= e /\ N * q \in Nat
  BY <1>1, SMT
<1>3. r \in Nat /\ n * r <= U /\ n * r \in Nat
  BY SMT
<1>4. q <= r
  <2>1. Interval * (n * q) <= Interval * U
    <3>1. Interval * (n * q) = N * q
      BY <1>1, <1>2, SMT
    <3>2. Interval * U \in Nat
      BY <1>1, SMT
    <3> QED  BY <1>2, <3>1, <3>2
  <2>2. n * q <= U
    <3> SUFFICES ASSUME n * q > U PROVE FALSE
      BY <1>2, SMT
    <3> DEFINE a == n * q - U - 1
    <3>1. a \in Nat /\ n * q = U + 1 + a
      BY <1>2, SMT
    <3> HIDE DEF a, q
    <3>2. Interval * (n * q) = Interval * U + Interval + Interval * a /\ Interval * a \in Nat /\ Interval * U \in Nat
      BY <1>1, <3>1, SMT
    <3> QED  BY <1>1, <2>1, <3>2
  <2> HIDE DEF q, N
  <2>3. q <= U \div n
    BY <1>2, <2>2, Fits
  <2> QED  BY <2>3
<1>5. ASSUME e = Interval * U PROVE r <= q
  <2>1. Interval * (n * r) <= Interval * U
    BY <1>1, <1>3, Monotone
  <2>2. N * r = Interval * (n * r)
    BY <1>1, <1>3, SMT
  <2>3. N * r <= e
    BY <1>5, <2>1, <2>2
  <2> HIDE DEF r, N
  <2>4. r <= e \div N
    BY <1>1, <1>3, <2>3, Fits
  <2> QED  BY <2>4
<1> QED  BY <1>2, <1>3, <1>4, <1>5

(* Where the pace is on its way to the target: what an evaluation measures  *)
(* are turns of one cost, which the very first one sees a pause short; the  *)
(* slow evaluations took the pause at most a drop each below 0; and since   *)
(* the load changed, all evaluations but the first followed one course.     *)
Measured ==
  LET u == load + Pace!Slept(pause) + Spin
  IN  \/ elapsed = turn * u /\ pause = Target /\ settled = 0
      \/ elapsed = turn * u + (Pace!Slept(pause) + Spin)

OnCourse(p, n, c, k, w) ==
  \/ Pace!Near(p, n, c)
  \/ \E x \in Pace!Pauses(n, w) : p = Pace!After(x, n, c, k - 1)

SettleInv(w) ==
  /\ settled <= SettlesIn /\ slow <= MaxSlow
  /\ perTurn = 0 => settled = 0 /\ slow = 0
  /\ Measured
  /\ perTurn > 0 => load \in Costs /\ load <= w /\ pause >= -(slow * Pace!Drop(perTurn, w))
  /\ perTurn > 0 /\ Pace!Achievable /\ settled > 0 => OnCourse(pause, perTurn, load, settled, w)

LEMMA DropIs ==
  ASSUME NEW w \in Nat, NEW n \in 1..2
  PROVE  Pace!Drop(n, w) \in Nat
<1>1. Target \in Nat /\ Spin \in Nat
  BY WorkloadsAssumption
<1>2. (w + Spin) \div n - Target \in Int
  BY <1>1, SMT
<1>3. ASSUME NEW x \in Int PROVE Pace!Third(x) \in Int
  BY SMT DEF Pace!Third
<1> QED  BY <1>2, <1>3 DEF Pace!Drop

LEMMA SettleInit ==
  ASSUME NEW w \in Costs, Pace!Init
  PROVE  SettleInv(w)
<1> USE WorkloadsAssumption DEF Pace!Init
<1>1. ASSUME NEW u \in Nat PROVE turn * u = 0
  BY <1>1, SMT
<1>2. Measured
  <2>1. load + Pace!Slept(pause) + Spin \in Nat
    BY DEF Pace!Slept
  <2> QED  BY <1>1, <2>1 DEF Measured
<1> QED  BY <1>2 DEF SettleInv

LEMMA SettleBegin ==
  ASSUME PaceInv, NEW w \in Costs, Pace!SettlesFrom(w), SettleInv(w),
         NEW n \in 1..2, NEW c \in Costs, Pace!Begin(n, c)
  PROVE  SettleInv(w)'
<1>1. /\ perTurn = 0 /\ turn = 0 /\ elapsed = 0 /\ pause = Target /\ settled = 0 /\ slow = 0
      /\ perTurn' = n /\ load' = c
      /\ UNCHANGED <<pause, turn, elapsed, settled, slow>>
      /\ w \in Nat /\ c \in Nat /\ c <= w /\ Target \in Nat /\ Spin \in Nat
      /\ SettlesIn \in Nat /\ MaxSlow \in Nat
  BY WorkloadsAssumption DEF PaceInv, SettleInv, Pace!Begin, Pace!SettlesFrom
<1>2. Measured'
  <2>1. load' + Pace!Slept(pause)' + Spin \in Nat
    BY <1>1 DEF Pace!Slept
  <2>2. ASSUME NEW u \in Nat PROVE 0 * u = 0
    BY SMT
  <2> QED  BY <1>1, <2>1, <2>2 DEF Measured, Pace!Slept
<1>3. pause' >= -(slow' * Pace!Drop(perTurn', w))
  <2>1. Pace!Drop(n, w) \in Nat
    BY <1>1, DropIs
  <2>2. 0 * Pace!Drop(n, w) = 0
    BY <2>1, SMT
  <2> QED  BY <1>1, <2>2
<1> QED  BY <1>1, <1>2, <1>3 DEF SettleInv, Pace!Drop, Pace!Third

LEMMA SettleChange ==
  ASSUME PaceInv, NEW w \in Costs, Pace!SettlesFrom(w), SettleInv(w),
         NEW c \in Costs, Pace!Change(c)
  PROVE  SettleInv(w)'
<1>1. /\ perTurn > 0 /\ turn = 0 /\ load' = c /\ settled' = 0
      /\ UNCHANGED <<perTurn, pause, turn, elapsed, slow>>
      /\ w \in Nat /\ c \in Nat /\ c <= w /\ Target \in Nat /\ Spin \in Nat
      /\ SettlesIn \in Nat /\ MaxSlow \in Nat
      /\ load \in Nat /\ pause \in Int /\ perTurn \in 1..2
  BY WorkloadsAssumption DEF PaceInv, Pace!Change, Pace!SettlesFrom, Pace!TypeOK
<1>2. Measured'
  <2>1. load' + Pace!Slept(pause)' + Spin \in Nat /\ load + Pace!Slept(pause) + Spin \in Nat
    BY <1>1 DEF Pace!Slept
  <2>2. ASSUME NEW u \in Nat PROVE 0 * u = 0
    BY SMT
  <2>3. Pace!Slept(pause)' = Pace!Slept(pause) /\ Pace!Slept(pause) \in Nat
    BY <1>1 DEF Pace!Slept
  <2>4. \/ elapsed = 0 /\ pause = Target
        \/ elapsed = Pace!Slept(pause) + Spin
    <3>1. turn * (load + Pace!Slept(pause) + Spin) = 0
      BY <1>1, <2>1, <2>2
    <3> QED  BY <1>1, <2>3, <3>1 DEF SettleInv, Measured
  <2>5. turn' * (load' + Pace!Slept(pause)' + Spin) = 0
    BY <1>1, <2>1, <2>2
  <2> QED  BY <1>1, <2>3, <2>4, <2>5 DEF Measured
<1>3. pause' >= -(slow' * Pace!Drop(perTurn, w)')
  BY <1>1 DEF SettleInv, Pace!Drop, Pace!Third
<1> QED  BY <1>1, <1>2, <1>3 DEF SettleInv

(* Between evaluations nothing but the turns and their time moves on.       *)
LEMMA SettleTurn ==
  ASSUME PaceInv, NEW w \in Costs, Pace!SettlesFrom(w), SettleInv(w), Pace!Turn, turn + 1 # Interval
  PROVE  SettleInv(w)'
<1> DEFINE S == Pace!Slept(pause) + Spin
           u == load + Pace!Slept(pause) + Spin
<1>1. /\ turn' = turn + 1 /\ elapsed' = S + (elapsed + load)
      /\ UNCHANGED <<pause, settled, slow, perTurn, load>>
      /\ turn \in Nat /\ elapsed \in Nat /\ load \in Nat /\ pause \in Int
      /\ Spin \in Nat
  BY WorkloadsAssumption DEF Pace!Turn, PaceInv, Pace!TypeOK
<1>2. S \in Nat /\ u \in Nat /\ u = load + S
  BY <1>1 DEF Pace!Slept
<1>3. \/ elapsed = turn * u /\ pause = Target /\ settled = 0
      \/ elapsed = turn * u + S
  BY DEF SettleInv, Measured
<1>4. turn' * u = turn * u + u /\ turn * u \in Nat
  <2>0. turn \in Nat /\ u \in Nat
    BY <1>1, <1>2
  <2> HIDE DEF u
  <2>1. (turn + 1) * u = turn * u + u /\ turn * u \in Nat
    BY <2>0, SMT
  <2> QED  BY <1>1, <2>1
<1>5. S' = S /\ u' = u
  BY <1>1 DEF Pace!Slept
<1> HIDE DEF S, u
<1>6. \/ elapsed' = turn' * u' /\ pause' = Target /\ settled' = 0
      \/ elapsed' = turn' * u' + S'
  BY <1>1, <1>2, <1>3, <1>4, <1>5
<1>7. Measured'
  BY <1>6 DEF Measured, S, u
<1>8. OnCourse(pause, perTurn, load, settled, w)' = OnCourse(pause, perTurn, load, settled, w)
  BY <1>1
<1>9. Pace!Achievable' = Pace!Achievable /\ Pace!Drop(perTurn, w)' = Pace!Drop(perTurn, w)
  BY <1>1 DEF Pace!Achievable
<1> QED  BY <1>1, <1>7, <1>8, <1>9 DEF SettleInv

(* What an evaluation sees and does: it takes the mean of Interval turns,   *)
(* the very first one of less than that.                                    *)
LEMMA Evaluation ==
  ASSUME PaceInv, NEW w \in Costs, SettleInv(w), Pace!Turn, turn + 1 = Interval
  PROVE  \E q \in Nat :
           /\ pause' = pause - Pace!Third(q - Target)
           /\ q <= (load + Spin + Pace!Slept(pause)) \div perTurn
           /\ settled > 0 => pause' = Pace!Evaluated(pause, perTurn, load)
<1> DEFINE e == elapsed + load
           u == load + Pace!Slept(pause) + Spin
           q == e \div (perTurn * Interval)
<1>1. /\ perTurn \in 1..2 /\ turn \in Nat /\ elapsed \in Nat /\ load \in Nat /\ pause \in Int
      /\ counted = perTurn * turn /\ Spin \in Nat /\ Interval \in Nat \ {0}
      /\ pause' = Pace!Corrected(e, counted + perTurn)
  BY WorkloadsAssumption DEF Pace!Turn, PaceInv, Pace!TypeOK
<1>2. counted + perTurn = perTurn * Interval
  <2>1. perTurn * (turn + 1) = perTurn * turn + perTurn
    BY <1>1, SMT
  <2> QED  BY <1>1, <2>1
<1>3. pause' = pause - Pace!Third(q - Target)
  BY <1>1, <1>2 DEF Pace!Corrected
<1>4. u \in Nat /\ e \in Nat /\ u = load + Spin + Pace!Slept(pause)
  BY <1>1 DEF Pace!Slept
<1>5. e <= Interval * u /\ (settled > 0 => e = Interval * u)
  <2>1. \/ elapsed = turn * u /\ settled = 0
        \/ elapsed = turn * u + (Pace!Slept(pause) + Spin)
    BY DEF SettleInv, Measured
  <2>2. Interval * u = turn * u + u /\ turn * u \in Nat
    <3>1. (turn + 1) * u = turn * u + u /\ turn * u \in Nat
      BY <1>1, <1>4, SMT
    <3> QED  BY <3>1
  <2>3. Pace!Slept(pause) \in Nat
    BY <1>1 DEF Pace!Slept
  <2>4. e = elapsed + load /\ u = load + (Pace!Slept(pause) + Spin)
    BY <1>1, <2>3
  <2>5. Interval * u \in Nat
    BY <1>1, <1>4, SMT
  <2> DEFINE a == turn * u
             b == Interval * u
             s == Pace!Slept(pause) + Spin
  <2>6. /\ (elapsed = a /\ settled = 0) \/ elapsed = a + s
        /\ b = a + u /\ a \in Nat /\ b \in Nat /\ s \in Nat /\ u = load + s
    BY <1>1, <2>1, <2>2, <2>3, <2>4, <2>5
  <2> HIDE DEF e, u, q, a, b, s
  <2>7. e <= b /\ (settled > 0 => e = b)
    BY <1>1, <2>4, <2>6
  <2> QED  BY <2>7 DEF b
<1> HIDE DEF e, u
<1>6. q \in Nat /\ q <= u \div perTurn /\ (settled > 0 => q = u \div perTurn)
  BY <1>1, <1>4, <1>5, MeanOfSame
<1>7. settled > 0 => pause' = Pace!Evaluated(pause, perTurn, load)
  BY <1>3, <1>4, <1>6 DEF Pace!Evaluated
<1> HIDE DEF q
<1> QED  BY <1>3, <1>4, <1>6, <1>7

(* A slow evaluation takes the pause down by at most a drop, any other not  *)
(* below 0.                                                                 *)
LEMMA PauseFalls ==
  ASSUME PaceInv, NEW w \in Costs, Pace!SettlesFrom(w), SettleInv(w), Pace!Turn, turn + 1 = Interval
  PROVE  /\ slow' <= MaxSlow /\ slow' \in Nat
         /\ pause' >= -(slow' * Pace!Drop(perTurn, w))
<1> DEFINE d == Pace!Drop(perTurn, w)
<1>1. /\ perTurn \in 1..2 /\ load \in Nat /\ pause \in Int /\ w \in Nat /\ load <= w
      /\ slow \in Nat /\ MaxSlow \in Nat /\ slow <= MaxSlow /\ Target \in Nat
      /\ slow' = (IF Pace!Achievable THEN slow ELSE slow + 1)
      /\ Pace!Achievable \/ slow < MaxSlow
      /\ pause >= -(slow * d)
  BY WorkloadsAssumption DEF Pace!Turn, PaceInv, Pace!TypeOK, SettleInv
<1>2. PICK q \in Nat : /\ pause' = pause - Pace!Third(q - Target)
                       /\ q <= (load + Spin + Pace!Slept(pause)) \div perTurn
  BY Evaluation
<1>3. d \in Nat
  BY <1>1, DropIs
<1>4. slow * d \in Nat /\ (slow + 1) * d = slow * d + d
  BY <1>1, <1>3, SMT
<1>5. pause' \in Int
  BY <1>1, <1>2, SMT DEF Pace!Third
<1> DEFINE s == slow * d
<1>6. CASE Pace!Achievable
  <2>1. pause' >= 0 \/ pause' >= pause
    BY <1>1, <1>2, <1>6, NoDrop DEF Pace!Achievable
  <2>2. s \in Nat /\ pause >= -s
    BY <1>1, <1>4
  <2> HIDE DEF s, d
  <2>3. pause' >= -s
    BY <1>1, <1>5, <2>1, <2>2
  <2> QED  BY <1>1, <1>6, <2>3 DEF s, d
<1>7. CASE ~Pace!Achievable
  <2>1. pause' >= -d \/ pause' >= pause - d
    BY <1>1, <1>2, OneDrop
  <2>2. s \in Nat /\ pause >= -s /\ slow' * d = s + d
    BY <1>1, <1>4, <1>7
  <2> HIDE DEF s, d
  <2>3. pause' >= -(s + d)
    BY <1>1, <1>3, <1>5, <2>1, <2>2
  <2>4. slow' <= MaxSlow /\ slow' \in Nat
    BY <1>1, <1>7
  <2> QED  BY <2>2, <2>3, <2>4 DEF d
<1> QED  BY <1>6, <1>7

(* The first evaluation since the load changed starts a course, each one    *)
(* after it goes on with it, and SettlesIn of them come to the target.      *)
LEMMA CourseKept ==
  ASSUME PaceInv, PaceInv', NEW w \in Costs, Pace!SettlesFrom(w), SettleInv(w), Pace!Turn, turn + 1 = Interval,
         Pace!Achievable
  PROVE  \/ Pace!Near(pause', perTurn, load)
         \/ \E x \in Pace!Pauses(perTurn, w) : pause' = Pace!After(x, perTurn, load, settled' - 1)
<1>1. /\ perTurn \in 1..2 /\ load \in Nat /\ pause \in Int /\ w \in Nat /\ load <= w /\ load \in Costs
      /\ settled \in Nat /\ settled <= SettlesIn /\ SettlesIn \in Nat \ {0} /\ MaxSlow \in Nat
      /\ settled' = (IF settled < SettlesIn THEN settled + 1 ELSE settled)
      /\ load + Spin <= perTurn * Target /\ perTurn' = perTurn
      /\ pause' \in Int /\ pause' <= Ceiling'
  <2>1. perTurn > 0 /\ load \in Costs /\ load <= w
    BY DEF SettleInv, Pace!Turn
  <2> QED  BY <2>1, WorkloadsAssumption DEF Pace!Turn, PaceInv, Pace!TypeOK, SettleInv, Pace!Achievable
<1>2. CASE settled = 0
  <2>1. pause' \in Pace!Pauses(perTurn, w)
    <3> DEFINE d == Pace!Drop(perTurn, w)
    <3>1. d \in Nat
      BY <1>1, DropIs
    <3>2. slow' <= MaxSlow /\ slow' \in Nat /\ pause' >= -(slow' * d)
      BY PauseFalls
    <3>3. d * slow' <= d * MaxSlow
      BY <1>1, <3>1, <3>2, Monotone
    <3>4. d * slow' = slow' * d /\ d * MaxSlow = MaxSlow * d /\ slow' * d \in Nat /\ MaxSlow * d \in Nat
      BY <1>1, <3>1, <3>2, SMT
    <3> HIDE DEF d
    <3>5. pause' >= -(MaxSlow * d)
      BY <1>1, <3>2, <3>3, <3>4
    <3>6. /\ Target \in Nat /\ Target \div (3 * Interval) \in Nat /\ perTurn * Target \in Nat
      <4>1. Target \in Nat /\ 3 * Interval \in Nat \ {0}
        BY WorkloadsAssumption
      <4> QED  BY <1>1, <4>1, SMT
    <3>7. pause' <= perTurn * Target + (Target \div (3 * Interval)) + 1
      BY <1>1 DEF Ceiling
    <3> QED  BY <1>1, <3>4, <3>5, <3>6, <3>7 DEF Pace!Pauses, d
  <2>2. settled' - 1 = 0
    BY <1>1, <1>2
  <2>3. pause' = Pace!After(pause', perTurn, load, 0)
    BY AfterMore
  <2> QED  BY <2>1, <2>2, <2>3
<1>3. CASE settled > 0
  <2>1. pause' = Pace!Evaluated(pause, perTurn, load)
    BY <1>3, Evaluation
  <2>2. Pace!Near(pause, perTurn, load) => Pace!Near(pause', perTurn, load)
    BY <1>1, <2>1, NearStays
  <2>3. ASSUME NEW x \in Pace!Pauses(perTurn, w), pause = Pace!After(x, perTurn, load, settled - 1),
               settled < SettlesIn
        PROVE  pause' = Pace!After(x, perTurn, load, settled' - 1)
    <3> DEFINE k == settled - 1
    <3>1. k \in Nat /\ settled' - 1 = k + 1
      BY <1>1, <1>3, <2>3
    <3> HIDE DEF k
    <3>2. Pace!After(x, perTurn, load, k + 1) = Pace!Evaluated(Pace!After(x, perTurn, load, k), perTurn, load)
      BY <3>1, AfterMore
    <3> QED  BY <2>1, <2>3, <3>1, <3>2 DEF k
  <2>4. ASSUME NEW x \in Pace!Pauses(perTurn, w), pause = Pace!After(x, perTurn, load, settled - 1),
               settled = SettlesIn
        PROVE  Pace!Near(pause, perTurn, load)
    BY <1>1, <2>4 DEF Pace!SettlesFrom
  <2>5. OnCourse(pause, perTurn, load, settled, w)
    BY <1>1, <1>3 DEF SettleInv
  <2> QED  BY <1>1, <2>2, <2>3, <2>4, <2>5 DEF OnCourse
<1> QED  BY <1>1, <1>2, <1>3

LEMMA SettleEvaluates ==
  ASSUME PaceInv, PaceInv', NEW w \in Costs, Pace!SettlesFrom(w), SettleInv(w), Pace!Turn, turn + 1 = Interval
  PROVE  SettleInv(w)'
<1>1. /\ perTurn > 0 /\ turn' = 0
      /\ perTurn' = perTurn /\ load' = load
      /\ settled' = (IF settled < SettlesIn THEN settled + 1 ELSE settled)
      /\ settled \in Nat /\ settled <= SettlesIn /\ SettlesIn \in Nat
      /\ load \in Costs /\ load <= w /\ load \in Nat /\ Spin \in Nat
  BY WorkloadsAssumption DEF Pace!Turn, PaceInv, Pace!TypeOK, SettleInv
<1>2. elapsed' = Pace!Slept(pause') + Spin
  <2>1. pause' \in Int
    BY DEF PaceInv, Pace!TypeOK
  <2>2. elapsed' = (Pace!Slept(pause') + Spin) + 0
    BY DEF Pace!Turn
  <2>3. Pace!Slept(pause') \in Nat
    BY <2>1 DEF Pace!Slept
  <2> QED  BY <1>1, <2>2, <2>3
<1>3. Measured'
  <2>1. pause' \in Int
    BY DEF PaceInv, Pace!TypeOK
  <2>2. Pace!Slept(pause') \in Nat
    BY <2>1 DEF Pace!Slept
  <2> DEFINE u == load' + Pace!Slept(pause') + Spin
  <2>3. u \in Nat
    BY <1>1, <2>2
  <2> HIDE DEF u
  <2>4. turn' * u = 0
    BY <1>1, <2>3, SMT
  <2>5. elapsed' = turn' * u + (Pace!Slept(pause') + Spin)
    BY <1>1, <1>2, <2>2, <2>4
  <2> QED  BY <2>5 DEF Measured, u
<1>4. slow' <= MaxSlow /\ pause' >= -(slow' * Pace!Drop(perTurn, w))
  BY PauseFalls
<1>5. Pace!Achievable' = Pace!Achievable /\ Pace!Drop(perTurn, w)' = Pace!Drop(perTurn, w)
  BY <1>1 DEF Pace!Achievable
<1>6. Pace!Achievable => OnCourse(pause', perTurn, load, settled', w)
  BY CourseKept DEF OnCourse
<1>7. OnCourse(pause, perTurn, load, settled, w)' = OnCourse(pause', perTurn, load, settled', w)
  BY <1>1
<1>8. settled' <= SettlesIn
  BY <1>1
<1> QED  BY <1>1, <1>3, <1>4, <1>5, <1>6, <1>7, <1>8 DEF SettleInv

LEMMA SettleNext ==
  ASSUME NEW w \in Costs, Pace!SettlesFrom(w)
  PROVE  PaceInv /\ PaceInv' /\ SettleInv(w) /\ (Pace!Next \/ UNCHANGED pacingVars) => SettleInv(w)'
<1> SUFFICES ASSUME PaceInv, PaceInv', SettleInv(w), Pace!Next \/ UNCHANGED pacingVars PROVE SettleInv(w)'
  OBVIOUS
<1>1. ASSUME Pace!Turn PROVE SettleInv(w)'
  BY <1>1, SettleTurn, SettleEvaluates
<1>2. CASE UNCHANGED pacingVars
  <2>1. UNCHANGED <<perTurn, pause, turn, elapsed, load, settled, slow>>
    BY <1>2 DEF pacingVars
  <2>2. /\ OnCourse(pause, perTurn, load, settled, w)' = OnCourse(pause, perTurn, load, settled, w)
        /\ Pace!Drop(perTurn, w)' = Pace!Drop(perTurn, w)
        /\ Pace!Slept(pause)' = Pace!Slept(pause)
    BY <2>1
  <2> QED  BY <2>1, <2>2 DEF SettleInv, Measured, Pace!Achievable
<1> QED  BY <1>1, <1>2, SettleBegin, SettleChange DEF Pace!Next

LEMMA SettleKept ==
  ASSUME NEW w \in Costs, Pace!SettlesFrom(w), PaceInv, SettleInv(w)
  PROVE  Pace!Settles
<1> SUFFICES ASSUME perTurn > 0, settled >= SettlesIn, Pace!Achievable PROVE Pace!Near(pause, perTurn, load)
  BY DEF Pace!Settles
<1>1. /\ settled = SettlesIn /\ settled > 0 /\ perTurn \in 1..2 /\ load \in Costs /\ load <= w
  BY WorkloadsAssumption DEF PaceInv, Pace!TypeOK, SettleInv
<1>2. OnCourse(pause, perTurn, load, settled, w)
  BY <1>1 DEF SettleInv
<1> QED  BY <1>1, <1>2 DEF OnCourse, Pace!SettlesFrom, Pace!Achievable

-----------------------------------------------------------------------------
(* ddprof_inline, clang_pie, full_host: the shares hold of every round or   *)
(* pair, and what holds of the parts holds of their sum.                    *)

(* What the first function has of the time of both, in percent.             *)
Share(a, b, low, high) == low * (a + b) < 100 * a /\ 100 * a < high * (a + b)
InlineShare(a, b) == Share(a, b, 30, 37)
PairShare(a, b) == Share(a, b, 23, 44)
Balanced(a, b) ==
  \/ a = 0 /\ b = 0
  \/ kind = "inline" /\ InlineShare(a, b)
  \/ kind \in {"clang_pie", "full_host"} /\ PairShare(a, b)

(* x is what the first half of a round takes.                               *)
HalfWay(x) ==
  IF kind = "inline"
  THEN \E s \in Stalls, o \in Overruns : x = 333 - s + o /\ began = 333 + o
  ELSE \E t \in PairTimes : x = Cpu!Units * t

CpuInv ==
  /\ Cpu!TypeOK
  /\ kind = "none" => calling = "first" /\ cpu["first"] = 0 /\ cpu["second"] = 0
  /\ calling = "first" => Balanced(cpu["first"], cpu["second"])
  /\ calling = "second" =>
       todo > 0 /\ \E a \in Int : Balanced(a, cpu["second"]) /\ HalfWay(cpu["first"] - a)

LEMMA CpuInit == Cpu!Init => CpuInv
BY WorkloadsAssumption DEF Cpu!Init, CpuInv, Cpu!TypeOK, Balanced

LEMMA CpuIntensive ==
  ASSUME CpuInv, NEW s \in Stalls, NEW o \in Overruns, Cpu!Intensive(s, o)
  PROVE  CpuInv'
<1> USE WorkloadsAssumption DEF CpuInv, Cpu!TypeOK, Cpu!Intensive, Cpu!Charge
<1>1. s \in Nat /\ o \in Nat /\ cpu["first"] \in Int
  OBVIOUS
<1>2. /\ kind = "inline" /\ kind' = "inline" /\ calling' = "second" /\ began' = 333 + o
      /\ cpu'["first"] = cpu["first"] + (333 - s + o) /\ cpu'["second"] = cpu["second"]
  OBVIOUS
<1>3. \E a \in Int : Balanced(a, cpu["second"])' /\ HalfWay(cpu["first"] - a)'
  <2>1. (cpu["first"] = 0 /\ cpu["second"] = 0) \/ InlineShare(cpu["first"], cpu["second"])
    BY <1>2 DEF Balanced
  <2> QED  BY <1>1, <1>2, <2>1 DEF Balanced, InlineShare, Share, HalfWay
<1>4. Cpu!TypeOK'
  BY <1>1, <1>2
<1> QED  BY <1>2, <1>3, <1>4

LEMMA CpuFoo ==
  ASSUME Cpu!SteadyClock, CpuInv, NEW t \in Stalls, NEW p \in Overruns, Cpu!Foo(t, p)
  PROVE  CpuInv'
<1>1. /\ kind = "inline" /\ kind' = "inline" /\ calling = "second" /\ calling' = "first" 
      /\ began' = 0 /\ todo' = todo - 1 /\ t \in Nat /\ p \in Nat
      /\ cpu["first"] \in Int /\ cpu["second"] \in Int /\ cpu'["first"] = cpu["first"]
      /\ cpu'["second"] = cpu["second"] + (Cpu!UntilEnd(began) - t + p)
  BY WorkloadsAssumption DEF CpuInv, Cpu!TypeOK, Cpu!Foo, Cpu!Charge
<1>2. PICK a \in Int : Balanced(a, cpu["second"]) /\ HalfWay(cpu["first"] - a)
  BY <1>1 DEF CpuInv
<1>3. PICK s \in Stalls, o \in Overruns : cpu["first"] - a = 333 - s + o /\ began = 333 + o
  BY <1>1, <1>2 DEF HalfWay
<1>4. /\ s \in Nat /\ o \in Nat /\ 70 * s + 30 * p < 3300 /\ 37 * t + 100 * o < 3700
  BY <1>3, WorkloadsAssumption DEF Cpu!SteadyClock
<1>5. Cpu!UntilEnd(began) = 667 - o
  BY <1>3, <1>4, <1>1 DEF Cpu!UntilEnd, Cpu!Rest
<1>6. InlineShare(333 - s + o, 667 - o - t + p)
  BY <1>1, <1>4 DEF InlineShare, Share
<1>7. (a = 0 /\ cpu["second"] = 0) \/ InlineShare(a, cpu["second"])
  BY <1>1, <1>2 DEF Balanced
<1>8. InlineShare(cpu'["first"], cpu'["second"])
  BY <1>1, <1>3, <1>4, <1>5, <1>6, <1>7 DEF InlineShare, Share
<1>9. Cpu!TypeOK'
  BY <1>1, WorkloadsAssumption, <1>3, <1>4, <1>5 DEF CpuInv, Cpu!TypeOK, Cpu!Foo, Cpu!Charge
<1> QED  BY <1>1, <1>8, <1>9 DEF CpuInv, Balanced

LEMMA CpuA ==
  ASSUME CpuInv, NEW t \in PairTimes, Cpu!A(t)
  PROVE  CpuInv'
<1> USE WorkloadsAssumption DEF CpuInv, Cpu!TypeOK, Cpu!A, Cpu!Charge, Cpu!Units
<1>1. /\ kind \in {"clang_pie", "full_host"} /\ kind' = kind /\ calling' = "second"
      /\ t \in Nat /\ cpu["first"] \in Int
      /\ cpu'["first"] = cpu["first"] + Cpu!Units * t /\ cpu'["second"] = cpu["second"]
  OBVIOUS
<1>2. Cpu!Units' = Cpu!Units /\ Cpu!Units * t \in Int
  BY <1>1
<1>3. \E a \in Int : Balanced(a, cpu["second"])' /\ HalfWay(cpu["first"] - a)'
  <2>1. (cpu["first"] = 0 /\ cpu["second"] = 0) \/ PairShare(cpu["first"], cpu["second"])
    BY <1>1 DEF Balanced
  <2>2. cpu'["first"] - cpu["first"] = Cpu!Units' * t
    BY <1>1, <1>2
  <2> QED  BY <1>1, <2>1, <2>2 DEF Balanced, PairShare, Share, HalfWay
<1>4. Cpu!TypeOK'
  BY <1>1, <1>2
<1> QED  BY <1>1, <1>3, <1>4

LEMMA CpuB ==
  ASSUME Cpu!SteadyClock, CpuInv, NEW u \in PairTimes, Cpu!B(u)
  PROVE  CpuInv'
<1>1. /\ kind \in {"clang_pie", "full_host"} /\ kind' = kind
      /\ calling = "second" /\ calling' = "first" /\ todo' = todo - 1 /\ u \in Nat
      /\ cpu["first"] \in Int /\ cpu["second"] \in Int /\ cpu'["first"] = cpu["first"]
      /\ cpu'["second"] = cpu["second"] + 2 * Cpu!Units * u
  BY WorkloadsAssumption DEF CpuInv, Cpu!TypeOK, Cpu!B, Cpu!Charge
<1>2. PICK a \in Int : Balanced(a, cpu["second"]) /\ HalfWay(cpu["first"] - a)
  BY <1>1 DEF CpuInv
<1>3. PICK t \in PairTimes : cpu["first"] - a = Cpu!Units * t
  BY <1>1, <1>2 DEF HalfWay
<1>4. t \in Nat /\ 46 * u < 77 * t /\ 7 * t < 11 * u
  BY <1>3, WorkloadsAssumption DEF Cpu!SteadyClock
<1>5. /\ Cpu!Units * t \in Int /\ 2 * Cpu!Units * u \in Int
      /\ PairShare(Cpu!Units * t, 2 * Cpu!Units * u)
  BY <1>1, <1>4 DEF PairShare, Share, Cpu!Units
<1>6. (a = 0 /\ cpu["second"] = 0) \/ PairShare(a, cpu["second"])
  BY <1>1, <1>2 DEF Balanced
<1>7. PairShare(cpu'["first"], cpu'["second"])
  BY <1>1, <1>3, <1>4, <1>5, <1>6 DEF PairShare, Share
<1>8. Cpu!TypeOK'
  BY <1>1, WorkloadsAssumption DEF CpuInv, Cpu!TypeOK, Cpu!B, Cpu!Charge, Cpu!Units
<1> QED  BY <1>1, <1>7, <1>8 DEF CpuInv, Balanced

LEMMA CpuNext == Cpu!SteadyClock /\ CpuInv /\ (Cpu!Next \/ UNCHANGED cpuVars) => CpuInv'
<1> SUFFICES ASSUME Cpu!SteadyClock, CpuInv, Cpu!Next \/ UNCHANGED cpuVars PROVE CpuInv'
  OBVIOUS
<1>1. ASSUME NEW k \in {"inline", "clang_pie", "full_host"}, NEW n \in 0..Rounds, Cpu!BeginRounds(k, n)
      PROVE  CpuInv'
  BY <1>1, WorkloadsAssumption DEF CpuInv, Cpu!TypeOK, Cpu!BeginRounds, Balanced
<1>2. CASE UNCHANGED cpuVars
  BY <1>2 DEF CpuInv, Cpu!TypeOK, Balanced, HalfWay, InlineShare, PairShare, Share, Cpu!Units, cpuVars
<1> QED  BY <1>1, <1>2, CpuIntensive, CpuFoo, CpuA, CpuB DEF Cpu!Next

(* A quotient is between what bounds the dividend.                          *)
LEMMA PercentBetween ==
  ASSUME NEW v \in Nat, NEW total \in Nat \ {0}, NEW k \in Nat, NEW l \in Nat,
         k * total <= v * 100, v * 100 < l * total
  PROVE  Cpu!PercentOf(v, total) \in k..l - 1
<1> DEFINE w == v * 100
           q == w \div total
<1>1. Cpu!PercentOf(v, total) = q /\ w \in Nat
  BY DEF Cpu!PercentOf
<1> HIDE DEF w
<1>2. q \in Nat /\ total * q <= w /\ w < total * (q + 1) /\ total * q \in Nat /\ total * (q + 1) \in Nat
  <2>1. q \in Nat /\ w % total \in 0..total - 1 /\ w = total * q + (w % total)
    BY <1>1, SMT
  <2> HIDE DEF q
  <2>2. total * (q + 1) = total * q + total /\ total * q \in Nat
    BY <2>1, SMT
  <2> QED  BY <1>1, <2>1, <2>2
<1> HIDE DEF q
<1>3. k * total = total * k /\ l * total = total * l /\ total * k \in Nat /\ total * l \in Nat
  BY SMT
<1>4. total * k < total * (q + 1) /\ total * q < total * l
  BY <1>1, <1>2, <1>3 DEF w
<1>5. k + 1 <= q + 1 /\ q + 1 <= l
  BY <1>2, <1>4, Fewer
<1> QED  BY <1>1, <1>2, <1>5

LEMMA CpuKept == CpuInv => Cpu!ThirdsKept
<1> DEFINE a == cpu["first"]
           b == cpu["second"]
<1> SUFFICES ASSUME CpuInv, calling = "first", a + b > 0
             PROVE  LET margin == IF kind = "inline" THEN 3 ELSE 10
                    IN  Cpu!PercentOk(a, a + b, 33, margin) /\ Cpu!PercentOk(b, a + b, 66, margin)
  BY DEF Cpu!ThirdsKept
<1>1. a \in Int /\ b \in Int /\ Balanced(a, b)
  BY DEF CpuInv, Cpu!TypeOK
<1> HIDE DEF a, b
<1>2. CASE kind = "inline"
  <2>1. 30 * (a + b) < 100 * a /\ 100 * a < 37 * (a + b)
    BY <1>1, <1>2 DEF Balanced, InlineShare, Share
  <2>2. a \in Nat /\ b \in Nat /\ a + b \in Nat \ {0}
    BY <1>1, <2>1
  <2>3. Cpu!PercentOf(a, a + b) \in 30..37 - 1
    <3>1. 30 * (a + b) <= a * 100 /\ a * 100 < 37 * (a + b)
      BY <2>1, <2>2
    <3> QED  BY <2>2, <3>1, PercentBetween
  <2>4. Cpu!PercentOf(b, a + b) \in 63..70 - 1
    <3>1. 63 * (a + b) <= b * 100 /\ b * 100 < 70 * (a + b)
      BY <2>1, <2>2
    <3> QED  BY <2>2, <3>1, PercentBetween
  <2> QED  BY <1>2, <2>3, <2>4 DEF Cpu!PercentOk, Cpu!AbsDiff
<1>3. CASE kind # "inline"
  <2>1. 23 * (a + b) < 100 * a /\ 100 * a < 44 * (a + b)
    BY <1>1, <1>3 DEF Balanced, PairShare, Share
  <2>2. a \in Nat /\ b \in Nat /\ a + b \in Nat \ {0}
    BY <1>1, <2>1
  <2>3. Cpu!PercentOf(a, a + b) \in 23..44 - 1
    <3>1. 23 * (a + b) <= a * 100 /\ a * 100 < 44 * (a + b)
      BY <2>1, <2>2
    <3> QED  BY <2>2, <3>1, PercentBetween
  <2>4. Cpu!PercentOf(b, a + b) \in 56..77 - 1
    <3>1. 56 * (a + b) <= b * 100 /\ b * 100 < 77 * (a + b)
      BY <2>1, <2>2
    <3> QED  BY <2>2, <3>1, PercentBetween
  <2> QED  BY <1>3, <2>3, <2>4 DEF Cpu!PercentOk, Cpu!AbsDiff
<1> QED  BY <1>2, <1>3

-----------------------------------------------------------------------------
(* dotnet_wall: whoever is at the lock has just been woken, so that its own *)
(* time is the clock's, and no two queries of one thread pass while the     *)
(* other has none.                                                          *)
Taken(l, s) ==
  /\ Cardinality(Query!Timed(queue)) = 4 - (l + s)
  /\ wall["long"] \in 40 * l..41 * l
  /\ wall["short"] \in 30 * s..31 * s

Clocked(t) ==
  /\ thread[t] = "new" => now = 0 /\ wall[t] = 0
  /\ thread[t] = "idle" => wall[t] = now
  /\ thread[t] = "busy" => until[t] = wall[t] /\ now <= wall[t]
  /\ thread[t] = "done" => queue = <<>>

QueryInv ==
  /\ Query!TypeOK
  /\ \A t \in Query!Threads : Clocked(t)
  /\ \E l, s \in 0..2 : Taken(l, s)

LEMMA TimedIsFinite ==
  ASSUME NEW q \in Seq({"CPU", "Sleep", "other"})
  PROVE  IsFiniteSet(Query!Timed(q)) /\ Cardinality(Query!Timed(q)) \in Nat /\ (Query!Timed(q) # {} => Cardinality(Query!Timed(q)) > 0)
<1>1. IsFiniteSet(1..Len(q))
  BY FS_Interval
<1>2. Query!Timed(q) \subseteq 1..Len(q)
  BY DEF Query!Timed
<1>3. IsFiniteSet(Query!Timed(q))
  BY <1>1, <1>2, FS_Subset
<1> QED  BY <1>3, FS_CardinalityType, FS_EmptySet

LEMMA TimedOfTail ==
  ASSUME NEW q \in Seq({"CPU", "Sleep", "other"}), q # <<>>
  PROVE  /\ Tail(q) \in Seq({"CPU", "Sleep", "other"})
         /\ Cardinality(Query!Timed(Tail(q))) = Cardinality(Query!Timed(q)) - (IF Head(q) = "other" THEN 0 ELSE 1)
<1> DEFINE A == Query!Timed(q) \ {1}
           B == Query!Timed(Tail(q))
           f == [k \in A |-> k - 1]
<1>1. /\ Tail(q) \in Seq({"CPU", "Sleep", "other"}) /\ Len(q) \in Nat \ {0} /\ Len(Tail(q)) = Len(q) - 1
      /\ \A k \in 1..Len(q) - 1 : Tail(q)[k] = q[k + 1]
      /\ Head(q) = q[1]
  OBVIOUS
<1>2. IsFiniteSet(A) /\ Cardinality(A) = Cardinality(Query!Timed(q)) - (IF Head(q) = "other" THEN 0 ELSE 1)
  <2>1. 1 \in Query!Timed(q) <=> Head(q) # "other"
    BY <1>1 DEF Query!Timed
  <2>2. Cardinality(Query!Timed(q)) \in Nat
    BY TimedIsFinite
  <2> QED  BY <2>1, <2>2, TimedIsFinite, FS_RemoveElement
<1>3. /\ \A k \in A : k \in 2..Len(q) /\ q[k] # "other"
      /\ \A k \in B : k \in 1..Len(q) - 1 /\ q[k + 1] # "other"
      /\ \A k \in 2..Len(q) : q[k] # "other" => k \in A
      /\ \A k \in 1..Len(q) - 1 : q[k + 1] # "other" => k \in B
  BY <1>1 DEF Query!Timed
<1> HIDE DEF A, B
<1>4. f \in [A -> B]
  BY <1>1, <1>3
<1>5. \A a, b \in A : f[a] = f[b] => a = b
  BY <1>3
<1>6. \A b \in B : \E a \in A : f[a] = b
  <2> SUFFICES ASSUME NEW b \in B PROVE b + 1 \in A /\ f[b + 1] = b
    OBVIOUS
  <2> QED  BY <1>1, <1>3
<1> HIDE DEF f
<1>7. f \in Bijection(A, B)
  <2>1. DOMAIN f = A
    BY <1>4
  <2> QED  BY <1>4, <1>5, <1>6, <2>1, Zenon DEF Bijection, Injection, IsInjective, Surjection
<1>8. Cardinality(B) = Cardinality(A)
  BY <1>2, <1>7, FS_Bijection, Zenon DEF ExistsBijection
<1> QED  BY <1>1, <1>2, <1>8 DEF B

LEMMA QueryInit == Query!FourQueries /\ Query!Init => QueryInv
<1> SUFFICES ASSUME Query!FourQueries, Query!Init PROVE QueryInv
  OBVIOUS
<1> USE DEF Query!Init, Query!Threads
<1>1. Query!TypeOK
  BY WorkloadsAssumption DEF Query!TypeOK
<1>2. Taken(0, 0)
  BY SameCardinality DEF Taken, Query!FourQueries
<1>3. \A t \in Query!Threads : Clocked(t)
  BY DEF Clocked
<1> QED  BY <1>1, <1>2, <1>3 DEF QueryInv

(* A thread at the lock has taken one query at most while any is left.      *)
LEMMA TurnsAlternate ==
  ASSUME QueryInv, NEW l \in 0..2, NEW s \in 0..2, Taken(l, s), Cardinality(Query!Timed(queue)) > 0, queue # <<>>
  PROVE  /\ thread["long"] = "idle" => l < 2
         /\ thread["short"] = "idle" => s < 2
BY DEF QueryInv, Query!TypeOK, Query!Threads, Clocked, Taken

LEMMA QueryDequeue ==
  ASSUME Query!FourQueries, QueryInv, NEW t \in Query!Threads, NEW d \in Delays, Query!Dequeue(t, d)
  PROVE  QueryInv'
<1>1. PICK l \in 0..2, s \in 0..2 : Taken(l, s)
  BY DEF QueryInv
<1>2. /\ queue \in Seq({"CPU", "Sleep", "other"}) /\ queue # <<>> /\ queue' = Tail(queue) /\ now' = now
      /\ thread[t] = "idle" /\ wall[t] = now /\ d \in 0..1
      /\ now \in Nat /\ wall \in [Query!Threads -> Nat] /\ until \in [Query!Threads -> Nat]
      /\ thread \in [Query!Threads -> {"new", "idle", "busy", "done"}]
  BY WorkloadsAssumption DEF Query!FourQueries, QueryInv, Query!TypeOK, Clocked, Query!Dequeue
<1>3. CASE Head(queue) = "other"
  <2>1. UNCHANGED <<thread, until, wall>>
    BY <1>3 DEF Query!Dequeue
  <2>2. Taken(l, s)' /\ queue' \in Seq({"CPU", "Sleep", "other"})
    <3>1. Cardinality(Query!Timed(queue')) = Cardinality(Query!Timed(queue)) - 0
      BY <1>2, <1>3, TimedOfTail
    <3>2. Cardinality(Query!Timed(queue)) \in Nat
      BY <1>2, TimedIsFinite
    <3> QED  BY <1>1, <1>2, <2>1, <3>1, <3>2, TimedOfTail DEF Taken
  <2>3. \A u \in Query!Threads : Clocked(u)'
    BY <1>2, <2>1 DEF QueryInv, Clocked
  <2> QED  BY <1>2, <2>1, <2>2, <2>3 DEF QueryInv, Query!TypeOK
<1>4. CASE Head(queue) # "other"
  <2> DEFINE time == Query!Duration(t) + d
  <2>1. /\ thread' = [thread EXCEPT ![t] = "busy"]
        /\ until' = [until EXCEPT ![t] = now + time]
        /\ wall' = [wall EXCEPT ![t] = now + time]
    <3>1. (now + Query!Duration(t)) + d = now + time /\ (wall[t] + Query!Duration(t)) + d = now + time
      BY <1>2 DEF Query!Duration
    <3>2. /\ thread' = [thread EXCEPT ![t] = "busy"]
          /\ until' = [until EXCEPT ![t] = (now + Query!Duration(t)) + d]
          /\ wall' = [wall EXCEPT ![t] = (wall[t] + Query!Duration(t)) + d]
      BY <1>4 DEF Query!Dequeue
    <3> QED  BY <3>1, <3>2, Zenon
  <2>2. time \in Nat /\ (t = "long" => time \in 40..41) /\ (t = "short" => time \in 30..31)
    BY <1>2 DEF Query!Duration, Query!Threads
  <2> HIDE DEF time
  <2>3. queue' \in Seq({"CPU", "Sleep", "other"}) /\ Cardinality(Query!Timed(queue')) = Cardinality(Query!Timed(queue)) - 1
    BY <1>2, <1>4, TimedOfTail
  <2>4. Cardinality(Query!Timed(queue)) > 0 /\ Cardinality(Query!Timed(queue)) \in Nat
    <3>1. Cardinality(Query!Timed(queue)) \in Nat /\ Cardinality(Query!Timed(queue')) \in Nat
      BY <1>2, <2>3, TimedIsFinite
    <3> QED  BY <2>3, <3>1
  <2>5. \E a, b \in 0..2 : Taken(a, b)'
    <3>1. CASE t = "long"
      <4>1. l + 1 \in 0..2
        BY <1>1, <1>2, <2>4, <3>1, TurnsAlternate
      <4>2. Taken(l + 1, s)'
        BY <1>1, <1>2, <2>1, <2>2, <2>3, <2>4, <3>1 DEF Taken, Query!Threads
      <4> QED  BY <4>1, <4>2
    <3>2. CASE t = "short"
      <4>1. s + 1 \in 0..2
        BY <1>1, <1>2, <2>4, <3>2, TurnsAlternate
      <4>2. Taken(l, s + 1)'
        BY <1>1, <1>2, <2>1, <2>2, <2>3, <2>4, <3>2 DEF Taken, Query!Threads
      <4> QED  BY <4>1, <4>2
    <3> QED  BY <3>1, <3>2 DEF Query!Threads
  <2>6. \A u \in Query!Threads : Clocked(u)'
    <3> TAKE u \in Query!Threads
    <3>1. CASE u = t
      BY <1>2, <2>1, <2>2, <3>1 DEF Clocked
    <3>2. CASE u # t
      <4>1. thread'[u] = thread[u] /\ until'[u] = until[u] /\ wall'[u] = wall[u] /\ now' = now
        BY <1>2, <2>1, <3>2
      <4>2. Clocked(u)
        BY DEF QueryInv
      <4>3. thread[u] # "done"
        BY <1>2, <4>2 DEF Clocked
      <4> QED  BY <4>1, <4>2, <4>3 DEF Clocked
    <3> QED  BY <3>1, <3>2
  <2>7. Query!TypeOK'
    BY <1>2, <2>1, <2>2, <2>3 DEF QueryInv, Query!TypeOK
  <2> QED  BY <2>5, <2>6, <2>7 DEF QueryInv
<1> QED  BY <1>3, <1>4

LEMMA QueryNext == Query!FourQueries /\ QueryInv /\ (Query!Next \/ UNCHANGED queryVars) => QueryInv'
<1> SUFFICES ASSUME Query!FourQueries, QueryInv, Query!Next \/ UNCHANGED queryVars PROVE QueryInv'
  OBVIOUS
<1> USE DEF QueryInv, Query!TypeOK, Clocked
<1>1. ASSUME NEW t \in Query!Threads, Query!Start(t) PROVE QueryInv'
  BY <1>1 DEF Query!Start, Taken
<1>2. ASSUME NEW t \in Query!Threads, Query!Break(t) PROVE QueryInv'
  BY <1>2 DEF Query!Break, Taken
<1>3. ASSUME NEW t \in Query!Threads, Query!Wake(t) PROVE QueryInv'
  <2> USE <1>3 DEF Query!Wake
  <2>1. Query!TypeOK' /\ now' = wall[t] /\ UNCHANGED <<queue, until, wall>>
    OBVIOUS
  <2>2. \A u \in Query!Threads : Clocked(u)'
    <3> TAKE u \in Query!Threads
    <3>1. CASE u = t
      BY <3>1
    <3>2. CASE u # t
      <4>1. thread'[u] = thread[u] /\ thread[u] \in {"busy", "done"} /\ now' = until[t]
        BY <3>2
      <4>2. thread[u] = "busy" => until[t] <= until[u] /\ until[u] = wall[u]
        OBVIOUS
      <4> QED  BY <2>1, <4>1, <4>2
    <3> QED  BY <3>1, <3>2
  <2>3. \E l, s \in 0..2 : Taken(l, s)'
    BY <2>1 DEF Taken
  <2> QED  BY <2>1, <2>2, <2>3
<1>4. CASE UNCHANGED queryVars
  BY <1>4 DEF queryVars, Taken
<1> QED  BY <1>1, <1>2, <1>3, <1>4, QueryDequeue DEF Query!Next

LEMMA QueryKept == QueryInv => Query!QueriesDivided
<1> SUFFICES ASSUME QueryInv, Query!Ended
             PROVE  /\ Query!ValueOk(wall["long"], 80, [num |-> 0, den |-> 1], 5)
                    /\ Query!ValueOk(wall["short"], 60, [num |-> 0, den |-> 1], 5)
  BY DEF Query!QueriesDivided
<1>1. PICK l \in 0..2, s \in 0..2 : Taken(l, s)
  BY DEF QueryInv
<1>2. queue = <<>>
  BY DEF QueryInv, Clocked, Query!Ended, Query!Threads
<1>3. Cardinality(Query!Timed(queue)) = 0
  <2>1. Query!Timed(queue) = {}
    BY <1>2 DEF Query!Timed
  <2> QED  BY <2>1, FS_EmptySet
<1>4. l = 2 /\ s = 2
  BY <1>1, <1>3 DEF Taken
<1>5. wall["long"] \in 80..82 /\ wall["short"] \in 60..62
  BY <1>1, <1>4 DEF Taken
<1> QED  BY <1>5 DEF Query!ValueOk, Query!AbsDiff

-----------------------------------------------------------------------------
(* node_code_hotspots: one round after the other.  Before a span's callback *)
(* the timers are those of its round from it on, and what has burnt is what *)
(* came before, in order.                                                   *)
Callbacks == {<<"round">>} \cup ({"span"} \X (0..2) \X (0..2))

Quiet == timers = <<>> /\ immediates = <<>> /\ open = {}
RoundDue == timers = <<<<"round">>>> /\ immediates = <<>> /\ open = {}
RootOpen == timers = <<>> /\ immediates = <<counter>> /\ open = {<<counter, -1>>}
SpansDue(z) ==
  /\ timers \in Seq(Callbacks) /\ Len(timers) = 3 - z
  /\ \A k \in 1..3 - z : timers[k] = <<"span", counter, z + k - 1>>
  /\ immediates = <<>>
  /\ open = {<<counter, y>> : y \in {-1} \cup z..2}

Burnt(n) ==
  /\ burnt \in Seq([loop : (0..2) \X (0..2), root : 0..2]) /\ Len(burnt) = n
  /\ \A k \in 1..n : burnt[k] = [loop |-> <<(k - 1) \div 3, (k - 1) % 3>>, root |-> (k - 1) \div 3]

SpansInv ==
  /\ counter \in 0..3
  /\ \/ Quiet /\ counter \in {0, 3} /\ Burnt(3 * counter)
     \/ RoundDue /\ counter < 3 /\ Burnt(3 * counter)
     \/ RootOpen /\ counter < 3 /\ Burnt(3 * counter)
     \/ \E z \in 0..2 : SpansDue(z) /\ counter < 3 /\ Burnt(3 * counter + z)

LEMMA SpansInit == Spans!Init => SpansInv
BY DEF Spans!Init, SpansInv, Quiet, Burnt

LEMMA SpansOpen ==
  ASSUME SpansInv, Spans!OpenSpans
  PROVE  SpansInv'
<1> DEFINE new(c) == [z \in 1..3 |-> <<"span", c, z - 1>>]
<1>1. PICK c \in 0..2 : counter = c /\ RootOpen /\ Burnt(3 * c)
  BY DEF SpansInv, Quiet, RoundDue, SpansDue, Spans!OpenSpans
<1>2. Head(immediates) = c /\ Tail(immediates) = <<>>
  BY <1>1 DEF RootOpen
<1>3. /\ timers' = <<>> \o new(c)
      /\ open' = open \cup {<<c, z - 1>> : z \in 1..3}
      /\ immediates' = <<>> /\ counter' = c /\ burnt' = burnt
  BY <1>1, <1>2 DEF RootOpen, Spans!OpenSpans, Spans!INNER_ROUNDS
<1>4. new(c) \in Seq(Callbacks) /\ Len(new(c)) = 3
  <2>1. \A z \in 1..3 : <<"span", c, z - 1>> \in Callbacks
    BY <1>1 DEF Callbacks
  <2>2. new(c) \in [1..3 -> Callbacks]
    BY <2>1
  <2> QED  BY <2>2
<1>5. timers' = new(c)
  BY <1>3, <1>4
<1>6. open' = {<<c, y>> : y \in {-1} \cup 0..2}
  BY <1>1, <1>3 DEF RootOpen
<1>7. SpansDue(0)'
  BY <1>3, <1>4, <1>5, <1>6 DEF SpansDue
<1>8. Burnt(3 * c)' /\ 3 * c = 3 * c + 0
  BY <1>1, <1>3 DEF Burnt
<1> QED  BY <1>1, <1>3, <1>7, <1>8 DEF SpansInv

LEMMA SpansRun ==
  ASSUME SpansInv, Spans!RunSpan
  PROVE  SpansInv'
<1>1. PICK c \in 0..2, z \in 0..2 : counter = c /\ SpansDue(z) /\ Burnt(3 * c + z)
  BY DEF SpansInv, Quiet, RoundDue, RootOpen, Spans!RunSpan, Spans!Due
<1>2. /\ Head(timers)[2] = c /\ Head(timers)[3] = z
      /\ Len(timers) = 3 - z /\ Tail(timers) \in Seq(Callbacks) /\ Len(Tail(timers)) = 2 - z
      /\ \A k \in 1..2 - z : Tail(timers)[k] = <<"span", c, z + k>>
  BY <1>1 DEF SpansDue
<1> DEFINE now_burnt == [loop |-> <<c, z>>, root |-> c]
<1>3. /\ burnt' = Append(burnt, now_burnt)
      /\ immediates' = <<>>
      /\ z < 2 => /\ counter' = c /\ timers' = Tail(timers)
                 /\ open' = open \ {<<c, z>>}
      /\ z = 2 => /\ counter' = c + 1
                 /\ open' = open \ {<<c, z>>, <<c, -1>>}
                 /\ timers' = IF c < 2 THEN Append(Tail(timers), <<"round">>) ELSE Tail(timers)
  BY <1>1, <1>2 DEF Spans!RunSpan, Spans!LastOfRound, Spans!INNER_ROUNDS, Spans!OUTER_ROUNDS, SpansDue
<1>4. Burnt(3 * c + z + 1)'
  <2> DEFINE n == 3 * c + z
  <2>1. n \in 0..8 /\ n \div 3 = c /\ n % 3 = z
    BY <1>1
  <2>2. now_burnt \in [loop : (0..2) \X (0..2), root : 0..2]
    BY <1>1
  <2>3. now_burnt = [loop |-> <<n \div 3, n % 3>>, root |-> n \div 3]
    BY <2>1, Zenon
  <2> HIDE DEF n, now_burnt
  <2>4. /\ burnt \in Seq([loop : (0..2) \X (0..2), root : 0..2]) /\ Len(burnt) = n
        /\ \A k \in 1..n : burnt[k] = [loop |-> <<(k - 1) \div 3, (k - 1) % 3>>, root |-> (k - 1) \div 3]
    BY <1>1 DEF Burnt, n
  <2>5. /\ burnt' \in Seq([loop : (0..2) \X (0..2), root : 0..2]) /\ Len(burnt') = n + 1
        /\ burnt'[n + 1] = now_burnt /\ \A k \in 1..n : burnt'[k] = burnt[k]
    BY <1>3, <2>1, <2>2, <2>4
  <2>6. \A k \in 1..n + 1 : burnt'[k] = [loop |-> <<(k - 1) \div 3, (k - 1) % 3>>, root |-> (k - 1) \div 3]
    <3> TAKE k \in 1..n + 1
    <3>1. CASE k \in 1..n
      BY <2>4, <2>5, <3>1, Zenon
    <3>2. CASE k = n + 1
      <4>1. k - 1 = n
        BY <2>1, <3>2
      <4> QED  BY <2>3, <2>5, <3>2, <4>1, Zenon
    <3> QED  BY <2>1, <3>1, <3>2
  <2>7. Burnt(n + 1)'
    BY <2>5, <2>6 DEF Burnt
  <2> QED  BY <2>7 DEF n
<1>5. CASE z < 2
  <2>1. z + 1 \in 0..2
    BY <1>1, <1>5
  <2>2. open' = {<<c, y>> : y \in {-1} \cup z + 1..2}
    <3>1. open' = {<<c, y>> : y \in {-1} \cup z..2} \ {<<c, z>>}
      BY <1>1, <1>3, <1>5 DEF SpansDue
    <3>2. \A y : y \in {-1} \cup z + 1..2 <=> y \in {-1} \cup z..2 /\ y # z
      BY <1>1
    <3>3. ASSUME NEW y \in {-1} \cup z..2, <<c, y>> # <<c, z>> PROVE y \in {-1} \cup z + 1..2
      BY <3>2, <3>3, Zenon
    <3>4. ASSUME NEW y \in {-1} \cup z + 1..2 PROVE y \in {-1} \cup z..2 /\ <<c, y>> # <<c, z>>
      <4>1. y \in {-1} \cup z..2 /\ y # z
        BY <3>2, <3>4, Zenon
      <4> QED  BY <4>1
    <3>5. open' \subseteq {<<c, y>> : y \in {-1} \cup z + 1..2}
      BY <3>1, <3>3, Zenon
    <3>6. {<<c, y>> : y \in {-1} \cup z + 1..2} \subseteq open'
      BY <3>1, <3>4, Zenon
    <3> QED  BY <3>5, <3>6, Zenon
  <2>3. SpansDue(z + 1)'
    <3>1. \A k \in 1..3 - (z + 1) : timers'[k] = <<"span", c, (z + 1) + k - 1>>
      <4> TAKE k \in 1..3 - (z + 1)
      <4>1. k \in 1..2 - z /\ (z + 1) + k - 1 = z + k
        BY <1>1
      <4>2. timers' = Tail(timers) /\ Tail(timers)[k] = <<"span", c, z + k>>
        BY <1>2, <1>3, <1>5, <4>1
      <4> QED  BY <4>1, <4>2, Zenon
    <3>2. timers' \in Seq(Callbacks) /\ Len(timers') = 3 - (z + 1) /\ immediates' = <<>> /\ counter' = c
      <4>1. Len(Tail(timers)) = 3 - (z + 1)
        BY <1>1, <1>2
      <4> QED  BY <1>2, <1>3, <1>5, <4>1, Zenon
    <3> QED  BY <2>2, <3>1, <3>2, Zenon DEF SpansDue
  <2>4. Burnt(3 * c + (z + 1))'
    <3>1. 3 * c + z + 1 = 3 * c + (z + 1)
      BY <1>1
    <3> QED  BY <1>4, <3>1, Zenon
  <2> QED  BY <1>1, <1>3, <1>5, <2>1, <2>3, <2>4 DEF SpansInv
<1>6. CASE z = 2
  <2>1. counter' = c + 1 /\ Burnt(3 * (c + 1))'
    <3>1. 3 * c + z + 1 = 3 * (c + 1)
      BY <1>6
    <3> QED  BY <1>3, <1>4, <1>6, <3>1, Zenon
  <2>2. open' = {}
    BY <1>1, <1>3, <1>6 DEF SpansDue
  <2>3. Tail(timers) = <<>>
    <3> DEFINE rest == Tail(timers)
    <3>1. rest \in Seq(Callbacks) /\ Len(rest) = 0
      BY <1>2, <1>6
    <3> HIDE DEF rest
    <3>2. rest = <<>>
      BY <3>1
    <3> QED  BY <3>2 DEF rest
  <2>4. CASE c < 2
    <3>1. timers' = Append(<<>>, <<"round">>)
      BY <1>3, <1>6, <2>3, <2>4, Zenon
    <3>2. timers' = <<<<"round">>>>
      BY <3>1
    <3>3. RoundDue' /\ counter' < 3 /\ counter' \in 0..3
      BY <1>1, <1>3, <2>1, <2>2, <2>4, <3>2 DEF RoundDue
    <3> QED  BY <2>1, <3>3 DEF SpansInv
  <2>5. CASE c = 2
    <3>1. timers' = <<>> /\ counter' = 3
      <4>1. ~(c < 2) /\ c + 1 = 3
        BY <2>5
      <4> QED  BY <1>3, <1>6, <2>1, <2>3, <4>1, Zenon
    <3>2. Quiet'
      BY <1>3, <2>2, <3>1 DEF Quiet
    <3> QED  BY <2>1, <2>5, <3>1, <3>2 DEF SpansInv
  <2> QED  BY <2>4, <2>5
<1> QED  BY <1>5, <1>6

LEMMA SpansNext == SpansInv /\ (Spans!Next \/ UNCHANGED spansVars) => SpansInv'
<1> SUFFICES ASSUME SpansInv, Spans!Next \/ UNCHANGED spansVars PROVE SpansInv'
  OBVIOUS
<1>1. CASE Spans!Load
  BY <1>1 DEF SpansInv, Quiet, RoundDue, RootOpen, SpansDue, Burnt, Spans!Load, Spans!SetTimer
<1>2. CASE Spans!RunBusySpans
  <2>1. RoundDue /\ counter < 3 /\ Burnt(3 * counter)
    <3>1. ASSUME NEW z \in 0..2, SpansDue(z) PROVE Head(timers)[1] = "span"
      BY <3>1 DEF SpansDue
    <3> QED  BY <1>2, <3>1 DEF SpansInv, Quiet, RootOpen, Spans!RunBusySpans, Spans!Due
  <2> QED  BY <1>2, <2>1 DEF SpansInv, RoundDue, RootOpen, Burnt, Spans!RunBusySpans
<1>3. CASE UNCHANGED spansVars
  BY <1>3 DEF spansVars, SpansInv, Quiet, RoundDue, RootOpen, SpansDue, Burnt
<1> QED  BY <1>1, <1>2, <1>3, SpansOpen, SpansRun DEF Spans!Next

LEMMA SpansKept == SpansInv => Spans!LoopsMatchSpans
<1> SUFFICES ASSUME SpansInv PROVE Spans!LoopsMatchSpans
  OBVIOUS
<1>1. PICK n \in 0..9 : Burnt(n) /\ (counter = 3 => n = 9)
  BY DEF SpansInv
<1>2. DOMAIN burnt = 1..n
  BY <1>1 DEF Burnt
<1>3. ASSUME NEW k \in DOMAIN burnt
      PROVE  burnt[k].loop = <<(k - 1) \div 3, (k - 1) % 3>> /\ burnt[k].root = (k - 1) \div 3
  <2>1. burnt[k] = [loop |-> <<(k - 1) \div 3, (k - 1) % 3>>, root |-> (k - 1) \div 3]
    BY <1>1, <1>2, Zenon DEF Burnt
  <2> QED  BY <2>1
<1>4. \A k \in DOMAIN burnt : burnt[k].loop[1] = burnt[k].root
  BY <1>3
<1>5. ASSUME NEW j \in DOMAIN burnt, NEW k \in DOMAIN burnt, burnt[j] = burnt[k] PROVE j = k
  <2>1. (j - 1) \div 3 = (k - 1) \div 3 /\ (j - 1) % 3 = (k - 1) % 3
    BY <1>3, <1>5
  <2> QED  BY <1>2, <2>1
<1>6. \A s \in open : <<s[1], -1>> \in open
  BY DEF SpansInv, Quiet, RoundDue, RootOpen, SpansDue
<1>7. Spans!Ended => Len(burnt) = 3 * 3 /\ open = {}
  BY <1>1 DEF Spans!Ended, SpansInv, Quiet, RoundDue, RootOpen, SpansDue, Burnt
<1> QED  BY <1>4, <1>5, <1>6, <1>7 DEF Spans!LoopsMatchSpans, Spans!OUTER_ROUNDS, Spans!INNER_ROUNDS

-----------------------------------------------------------------------------
(* The parts are invariants of the composition.                             *)
LEMMA Invariants == Spec => [](MallocInv /\ LiveInv /\ ManyInv /\ HeapInv /\ PaceInv)
<1> DEFINE Inv == MallocInv /\ LiveInv /\ ManyInv /\ HeapInv /\ PaceInv
<1>1. Init => Inv
  BY MallocInit, LiveInit, ManyInit, HeapInit, PaceInit DEF Init
<1>2. Inv /\ [Next]_vars => Inv'
  BY OneProgramSteps, MallocNext, LiveNext, ManyNext, HeapNext, PaceNext
<1> QED  BY <1>1, <1>2, PTL DEF Spec

(* However many processes and threads run and wherever thread creation or   *)
(* the profiler fails: statistics are complete and in order, nobody works   *)
(* before the barrier, no worker outlives main.                             *)
THEOREM NothingMissed == Spec => []NoWorkMissed
<1>1. MallocInv => Malloc!StatsComplete
  BY DEF MallocInv, MallocLines, Malloc!StatsComplete
<1>2. LiveInv => Live!StopsTogether
  BY DEF LiveInv, LiveStops, Live!StopsTogether
<1>3. ManyInv => Many!NoneMissed
  BY DEF ManyInv, Many!NoneMissed
<1> QED  BY <1>1, <1>2, <1>3, Invariants, PTL DEF NoWorkMissed

(* Whatever the work takes and however long the sleeps are: never more      *)
(* loops than asked for, and not one less unless it ends a whole loop       *)
(* behind.                                                                  *)
THEOREM BudgetKeepsLoops == Spec => []Heap!LoopsKept
<1>1. HeapInv => Heap!LoopsKept
  BY HeapKept
<1> QED  BY <1>1, Invariants, PTL

(* Whatever the load does, no pause grows beyond the time the allocations   *)
(* of a turn are meant to take and the rounding of the first evaluation.    *)
THEOREM PauseIsBounded == Spec => []Pace!NeverThrottled
<1>1. PaceInv => Pace!NeverThrottled
  BY DEF PaceInv, Ceiling, Pace!NeverThrottled
<1> QED  BY <1>1, Invariants, PTL

(* Whatever the load does, if SettlesIn evaluations are enough from         *)
(* wherever MaxSlow slow ones can have taken the pause (SettlesSoon): no    *)
(* pause grows beyond that bound, SettlesIn evaluations after the load last *)
(* changed the rate is at the target and stays there, and the Ruby heap     *)
(* scenario runs its loops in number.                                       *)
THEOREM PaceIsKept == Pace!SettlesSoon => (Spec => []PaceHolds)
<1> SUFFICES ASSUME Pace!SettlesSoon PROVE Spec => []PaceHolds
  OBVIOUS
<1>1. PICK w \in Costs : Pace!SettlesFrom(w)
  BY DEF Pace!SettlesSoon
<1> DEFINE Inv == PaceInv /\ SettleInv(w)
<1>2. Init => Inv
  BY PaceInit, SettleInit DEF Init
<1>3. Inv /\ [Next]_vars => Inv'
  BY <1>1, OneProgramSteps, PaceNext, SettleNext
<1>4. Inv => Pace!NeverThrottled /\ Pace!Settles
  BY <1>1, SettleKept DEF PaceInv, Ceiling, Pace!NeverThrottled
<1>5. HeapInv => Heap!LoopsKept
  BY HeapKept
<1> QED  BY <1>2, <1>3, <1>4, <1>5, Invariants, PTL DEF Spec, PaceHolds

(* Wherever the scheduler interrupts, whichever thread takes which query    *)
(* and whatever the order of callbacks: work is divided between functions,  *)
(* threads and spans as their expected profiles say, for any number of      *)
(* rounds, as long as clocks stay within the margins (Cpu!SteadyClock) and  *)
(* there are four queries of small delay (Query!FourQueries).               *)
THEOREM SharesAreKept ==
  Cpu!SteadyClock /\ Query!FourQueries => (Spec => []SharesHold)
<1> SUFFICES ASSUME Cpu!SteadyClock, Query!FourQueries PROVE Spec => []SharesHold
  OBVIOUS
<1> DEFINE Inv == CpuInv /\ QueryInv /\ SpansInv
<1>1. Init => Inv
  BY CpuInit, QueryInit, SpansInit DEF Init
<1>2. Inv /\ [Next]_vars => Inv'
  BY OneProgramSteps, CpuNext, QueryNext, SpansNext
<1>3. Inv => SharesHold
  BY CpuKept, QueryKept, SpansKept DEF SharesHold
<1> QED  BY <1>1, <1>2, <1>3, PTL DEF Spec

=============================================================================
