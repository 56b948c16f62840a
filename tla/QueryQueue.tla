----------------------------- MODULE QueryQueue -----------------------------
(***************************************************************************)
(* dotnet_wall: two threads take queries from one queue under its lock;    *)
(* a query takes the long thread 4 seconds and the short one 3, whether it *)
(* computes or sleeps.  The profile must show 8 and 6 seconds.  Times are  *)
(* in tenths of a second.                                                  *)
(***************************************************************************)
EXTENDS Assertions, FiniteSets

CONSTANTS
  Queries,   \* the lines of queries.txt: "CPU", "Sleep" or "other"
  Delays     \* by how much a query may take longer

VARIABLES
  queue,     \* what is left of the queries
  thread,    \* "new", "idle" (at the lock), "busy" or "done"
  until,     \* when a busy thread is ready
  now,       \* the clock
  wall       \* time each thread has spent in ProcessQueries

vars == <<queue, thread, until, now, wall>>

Threads == {"long", "short"}
Duration(t) == IF t = "long" THEN 40 ELSE 30

Init ==
  /\ queue = Queries /\ now = 0
  /\ thread = [t \in Threads |-> "new"]
  /\ until = [t \in Threads |-> 0]
  /\ wall = [t \in Threads |-> 0]

Start(t) ==
  /\ thread[t] = "new" /\ (t = "short" => thread["long"] # "new")
  /\ thread' = [thread EXCEPT ![t] = "idle"]
  /\ UNCHANGED <<queue, until, now, wall>>

Dequeue(t, delay) ==
  /\ thread[t] = "idle" /\ queue # <<>>
  /\ queue' = Tail(queue)
  /\ IF Head(queue) = "other"
     THEN UNCHANGED <<thread, until, wall>>
     ELSE /\ thread' = [thread EXCEPT ![t] = "busy"]
          /\ until' = [until EXCEPT ![t] = now + Duration(t) + delay]
          /\ wall' = [wall EXCEPT ![t] = @ + Duration(t) + delay]
  /\ UNCHANGED now

Break(t) ==
  /\ thread[t] = "idle" /\ queue = <<>>
  /\ thread' = [thread EXCEPT ![t] = "done"]
  /\ UNCHANGED <<queue, until, now, wall>>

(* The clock moves on when every thread is working or done.                 *)
Wake(t) ==
  /\ thread[t] = "busy"
  /\ \A u \in Threads : thread[u] \in {"busy", "done"}
  /\ \A u \in Threads : thread[u] = "busy" => until[t] <= until[u]
  /\ now' = until[t]
  /\ thread' = [thread EXCEPT ![t] = "idle"]
  /\ UNCHANGED <<queue, until, wall>>

Next ==
  \/ \E t \in Threads : Start(t)
  \/ \E t \in Threads, d \in Delays : Dequeue(t, d)
  \/ \E t \in Threads : Break(t)
  \/ \E t \in Threads : Wake(t)

Spec == Init /\ [][Next]_vars
-----------------------------------------------------------------------------
TypeOK ==
  /\ queue \in Seq({"CPU", "Sleep", "other"}) /\ now \in Nat
  /\ thread \in [Threads -> {"new", "idle", "busy", "done"}]
  /\ until \in [Threads -> Nat] /\ wall \in [Threads -> Nat]

(* What the expected 8 and 6 seconds rest on: four queries that take time,  *)
(* and delays within the margin.                                            *)
Timed(q) == {k \in 1..Len(q) : q[k] # "other"}
FourQueries == Cardinality(Timed(Queries)) = 4 /\ \A d \in Delays : d <= 1

Ended == \A t \in Threads : thread[t] = "done"

(* Which thread takes which query is a race, yet each always takes two, and *)
(* their times are the 8 and 6 seconds expected, within 5 %.                *)
QueriesDivided ==
  Ended => /\ ValueOk(wall["long"], 80, [num |-> 0, den |-> 1], 5)
           /\ ValueOk(wall["short"], 60, [num |-> 0, den |-> 1], 5)
=============================================================================
