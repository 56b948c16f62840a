------------------------------ MODULE SelfStop ------------------------------
(***************************************************************************)
(* python_gunicorn: a thread of the worker sends requests until its time   *)
(* is up and then one /stop; the worker (external: gunicorn's sync worker) *)
(* serves what is in the backlog in order, and on /stop makes the master   *)
(* quit.  A client that has given up is served nevertheless.               *)
(***************************************************************************)
EXTENDS Integers, Sequences

CONSTANT Requests   \* bound: requests before the time is up

VARIABLES
  requester,  \* "asking", "waiting", "stopping" or "gone"
  sent,       \* requests sent
  backlog,    \* connections the worker has not taken
  server      \* "up" or "down"

vars == <<requester, sent, backlog, server>>

Init == requester = "asking" /\ sent = 0 /\ backlog = <<>> /\ server = "up"

Ask ==
  /\ requester = "asking" /\ sent < Requests
  /\ backlog' = Append(backlog, "/")
  /\ requester' = "waiting" /\ sent' = sent + 1
  /\ UNCHANGED server

(* An answer, a timeout after a second, or an error, which is only printed. *)
Answered ==
  /\ requester = "waiting" /\ requester' = "asking"
  /\ UNCHANGED <<sent, backlog, server>>

TimeIsUp ==
  /\ requester = "asking" /\ requester' = "stopping"
  /\ UNCHANGED <<sent, backlog, server>>

StopAnyway == "/"   \* mutant: the thread never asks for /stop

StopUri == "/stop"

AskToStop ==
  /\ requester = "stopping" /\ requester' = "gone"
  /\ backlog' = Append(backlog, StopUri)
  /\ UNCHANGED <<sent, server>>

Serve ==
  /\ server = "up" /\ backlog # <<>>
  /\ backlog' = Tail(backlog)
  /\ server' = IF Head(backlog) = "/stop" THEN "down" ELSE "up"
  /\ UNCHANGED <<requester, sent>>

Next == Ask \/ Answered \/ TimeIsUp \/ AskToStop \/ Serve

Spec == Init /\ [][Next]_vars

Ended == server = "down"
=============================================================================
