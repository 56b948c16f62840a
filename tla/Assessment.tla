----------------------------- MODULE Assessment -----------------------------
(***************************************************************************)
(* What an analysis promises, without folders, walks, dumps or an order:   *)
(* there is a set of duties (a typed stack and a profile it speaks about), *)
(* each is judged at most once per run, and the run ends green only when   *)
(* all are judged and none is bad.  A run may break off, and is not green. *)
(***************************************************************************)
VARIABLES
  kind,      \* duty -> "plain", "forgivable" or "hopeless", given and fixed
  verdict,   \* duty -> "open", "ok", "forgiven" or "bad"
  status     \* "running", "green", "red" or "broken"

vars == <<kind, verdict, status>>

Duties == DOMAIN kind

Init ==
  /\ \A d \in Duties : kind[d] \in {"plain", "forgivable", "hopeless"}
  /\ verdict = [d \in Duties |-> "open"]
  /\ status = "running"

(* A failure is forgiven only where it may be, and a duty that stands for a *)
(* stack without any profile can only be bad.                               *)
Judge(d, v) ==
  /\ status = "running" /\ verdict[d] = "open"
  /\ v = "forgiven" => kind[d] = "forgivable"
  /\ kind[d] = "hopeless" => v = "bad"
  /\ verdict' = [verdict EXCEPT ![d] = v]
  /\ UNCHANGED <<kind, status>>

Conclude ==
  /\ status = "running"
  /\ \A d \in Duties : verdict[d] # "open"
  /\ status' = IF \E d \in Duties : verdict[d] = "bad" THEN "red" ELSE "green"
  /\ UNCHANGED <<kind, verdict>>

BreakOff ==
  /\ status = "running"
  /\ status' \in {"red", "broken"}
  /\ UNCHANGED <<kind, verdict>>

(* A new run over the same profiles owes every judgement again.             *)
Again ==
  /\ status # "running" /\ status' = "running"
  /\ verdict' = [d \in Duties |-> "open"]
  /\ kind' = kind

Next ==
  \/ \E d \in Duties, v \in {"ok", "forgiven", "bad"} : Judge(d, v)
  \/ Conclude \/ BreakOff \/ Again

Spec == Init /\ [][Next]_vars
=============================================================================
