---------------------------- MODULE SimpleMalloc ----------------------------
(***************************************************************************)
(* main of simple_malloc: a chain of forks, then in each process an exec   *)
(* or a group of threads that allocate.  Thread 0 is the main thread; each *)
(* thread fills its own slot of stats when it is done, and the main thread *)
(* appends the slots to stats.txt.  Thread 0 of process p forks process    *)
(* p + 1.                                                                  *)
(***************************************************************************)
EXTENDS Integers, Sequences

CONSTANTS MaxForks, MaxThreads   \* bounds of --fork and --threads

VARIABLES
  given,   \* the options; limited: --timeout or --loop ends the allocations
  at,      \* where each process is in main
  i,       \* the variable of the for loop it is in
  slot,    \* stats: "zero", "busy" while its thread runs, "filled"
  file     \* stats.txt: the lines each process appended, <<slot, its state>>

vars == <<given, at, i, slot, file>>

Process == 1..MaxForks
Slot == 0..MaxThreads - 1
NoOptions == [fork |-> 0, threads |-> 0, exec |-> FALSE, limited |-> FALSE]

Init ==
  /\ given = NoOptions
  /\ at = [p \in Process |-> "none"]
  /\ i = [p \in Process |-> 0]
  /\ slot = [p \in Process |-> [t \in Slot |-> "zero"]]
  /\ file = [p \in Process |-> <<>>]

To(p, where) == at' = [at EXCEPT ![p] = where]
From(p, n)   == i' = [i EXCEPT ![p] = n]
Fill(p, t)   == slot' = [slot EXCEPT ![p][t] = "filled"]

Parse(options) ==
  /\ at[1] = "none"
  /\ given' = options
  /\ To(1, "fork")
  /\ UNCHANGED <<i, slot, file>>

(* The parent leaves the loop; the child goes on, to fork the next process. *)
Fork(p) ==
  /\ at[p] = "fork" /\ p < given.fork
  /\ at' = [at EXCEPT ![p] = "exec", ![p + 1] = "fork"]
  /\ UNCHANGED <<given, i, slot, file>>

(* fork also ends the loop when it fails: -1 is not 0.                      *)
EndForks(p) ==
  /\ at[p] = "fork"
  /\ To(p, "exec")
  /\ UNCHANGED <<given, i, slot, file>>

(* The array of arguments has no terminating null: execvp reads on, and     *)
(* succeeds or fails.                                                       *)
Exec(p) ==
  /\ at[p] = "exec" /\ given.exec
  /\ \E how \in {"replaced", "failed"} : To(p, how)
  /\ UNCHANGED <<given, i, slot, file>>

NoExec(p) ==
  /\ at[p] = "exec" /\ ~given.exec
  /\ To(p, "spawn") /\ From(p, 1)
  /\ UNCHANGED <<given, slot, file>>

Spawn(p) ==
  /\ at[p] = "spawn" /\ i[p] < given.threads
  /\ slot' = [slot EXCEPT ![p][i[p]] = "busy"]
  /\ From(p, i[p] + 1)
  /\ UNCHANGED <<given, at, file>>

(* A thread that cannot be created throws: main returns 1, but destroying   *)
(* the vector with a thread that is still joinable aborts.                  *)
SpawnFails(p) ==
  /\ at[p] = "spawn" /\ i[p] < given.threads
  /\ To(p, IF i[p] > 1 THEN "aborted" ELSE "failed")
  /\ UNCHANGED <<given, i, slot, file>>

EndSpawns(p) ==
  /\ at[p] = "spawn" /\ i[p] >= given.threads
  /\ To(p, "work")
  /\ UNCHANGED <<given, i, slot, file>>

Alive(p) == at[p] \notin {"none", "replaced", "failed", "aborted", "ended"}

(* do_lot_of_allocations ends: the whole record is assigned at once.        *)
FinishThread(p, t) ==
  /\ Alive(p) /\ slot[p][t] = "busy" /\ given.limited
  /\ Fill(p, t)
  /\ UNCHANGED <<given, at, i, file>>

FinishMain(p) ==
  /\ at[p] = "work" /\ given.limited /\ given.threads > 0
  /\ Fill(p, 0) /\ To(p, "join") /\ From(p, 1)
  /\ UNCHANGED <<given, file>>

(* Without threads there is no slot 0: what the main thread writes there    *)
(* lands outside the vector.                                                *)
Overrun(p) ==
  /\ at[p] = "work" /\ given.limited /\ given.threads = 0
  /\ \E how \in {"aborted", "ended"} : To(p, how)
  /\ UNCHANGED <<given, i, slot, file>>

JoinAny(p) == TRUE   \* mutant: the thread is detached

Joined(p) == slot[p][i[p]] = "filled"

Join(p) ==
  /\ at[p] = "join" /\ i[p] < given.threads /\ Joined(p)
  /\ From(p, i[p] + 1)
  /\ UNCHANGED <<given, at, slot, file>>

EndJoins(p) ==
  /\ at[p] = "join" /\ i[p] >= given.threads
  /\ To(p, "print") /\ From(p, 0)
  /\ UNCHANGED <<given, slot, file>>

Line(p) == <<i[p], slot[p][i[p]]>>

(* print_stats: header and line reach the file in one write at fclose.      *)
PrintStats(p) ==
  /\ at[p] = "print" /\ i[p] < given.threads
  /\ file' = [file EXCEPT ![p] = Append(@, Line(p))]
  /\ From(p, i[p] + 1)
  /\ UNCHANGED <<given, at, slot>>

EndMain(p) ==
  /\ at[p] = "print" /\ i[p] >= given.threads
  /\ To(p, "ended")
  /\ UNCHANGED <<given, i, slot, file>>

Choices == [fork : 0..MaxForks, threads : 0..MaxThreads, exec : BOOLEAN, limited : BOOLEAN]

Step(p) == \/ Fork(p) \/ EndForks(p) \/ Exec(p) \/ NoExec(p)
           \/ Spawn(p) \/ SpawnFails(p) \/ EndSpawns(p)
           \/ \E t \in Slot : FinishThread(p, t)
           \/ FinishMain(p) \/ Overrun(p) \/ Join(p) \/ EndJoins(p)
           \/ PrintStats(p) \/ EndMain(p)

Next == (\E o \in Choices : Parse(o)) \/ (\E p \in Process : Step(p))

Spec == Init /\ [][Next]_vars
-----------------------------------------------------------------------------
TypeOK ==
  /\ given \in Choices
  /\ at \in [Process -> {"none", "fork", "exec", "spawn", "work", "join", "print",
                         "replaced", "failed", "aborted", "ended"}]
  /\ i \in [Process -> Nat]
  /\ slot \in [Process -> [Slot -> {"zero", "busy", "filled"}]]
  /\ file \in [Process -> Seq(Slot \X {"zero", "busy", "filled"})]

(* However the processes and threads interleave, stats.txt only ever holds  *)
(* finished statistics, and a process that ended normally has one line      *)
(* there for each of its threads, in their order.                           *)
StatsComplete ==
  \A p \in Process :
    /\ \A k \in DOMAIN file[p] : file[p][k] = <<k - 1, "filled">>
    /\ at[p] = "ended" => Len(file[p]) = given.threads

(* No process is left: with a limit every process that was started ends.    *)
Ended == at[1] # "none" /\ \A p \in Process : ~Alive(p)
=============================================================================
