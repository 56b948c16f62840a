------------------------- MODULE AnalyzerProperties -------------------------
(***************************************************************************)
(* What is checked of the analyzer, and how it implements Assessment.      *)
(***************************************************************************)
EXTENDS Analyzer

ScenarioOK ==
  /\ input \in Input
  /\ readable \in [input.files -> {Unknown, "yes", "no"}]
  /\ content \in [Stacks -> [input.files -> {Unknown, "match", "mismatch", "fatal"}]]

FolderOK ==
  /\ profiles \subseteq input.files
  /\ DOMAIN captures \subseteq Name
  /\ \A n \in DOMAIN captures : captures[n] \in Name
  /\ dumps \in [input.files -> Nat]

ControlOK ==
  /\ pc \in {"main", "open", "stack", "file", "exited"}
  /\ stack \in Nat \ {0}
  /\ matched \subseteq Name /\ todo \subseteq matched /\ processed \subseteq Name
  /\ failed \in BOOLEAN
  /\ exit \in {Running, 0, 1, 2} /\ lastExit \in {Running, 0, 1, 2}
  /\ run \in 1..MaxRuns

(* Every variable has its type.                                             *)
TypeOK == ScenarioOK /\ FolderOK /\ ControlOK

(* The profiles a stack speaks about, and the one that may fail.            *)
Duty(s)     == {f \in input.files : Accepts(RegexOf(s), f)}
First(s, f) == f \in Duty(s) /\ \A g \in Duty(s) : Leq(f, g)

Forgiven(s, f) == input.allowFirst /\ content[s][f] = "mismatch" /\ First(s, f)

(* Names that keep dumps and profiles apart: no dump is named like a        *)
(* profile, and no custom pprof-regex matches one.                          *)
NamesApart ==
  \A F \in Folders : \A f \in F :
    CapturePath(f) \notin F /\ \A p \in Pattern : CapturePath(f) \notin Accepted[p]

Verified(s, f) == readable[f] = "yes" /\ (content[s][f] = "match" \/ Forgiven(s, f))

(* A green exit is never given by stopping early, by an empty match or by a *)
(* failure that was only logged: status 0 means that every stack had        *)
(* profiles and each of them was read and matched, or was the first one.    *)
ZeroMeansVerified ==
  exit = 0 => \A s \in Stacks : Duty(s) # {} /\ \A f \in Duty(s) : Verified(s, f)

(* Status 1 always has a reason a user can act on: no red exit is caused by *)
(* the analyzer's own dumps.                                                *)
OneHasAReason ==
  exit = 1 =>
    \/ ~input.json \/ ~input.dir \/ ~input.writable
    \/ \E s \in Stacks :
         \/ Duty(s) = {}
         \/ \E f \in Duty(s) :
              \/ readable[f] = "no"
              \/ content[s][f] = "fatal"
              \/ content[s][f] = "mismatch" /\ ~Forgiven(s, f)

(* No dump ever replaces a profile the scenario wrote (the guard of         *)
(* captureJSONPath, and the naming of the profilers).                       *)
ProfilesIntact == profiles = input.files

(* The walk of a later stack or run never takes a dump for a profile.       *)
OnlyProfilesMatched == matched \subseteq input.files

(* A run that got through dumped each profile it looked at exactly once,    *)
(* however many stacks looked at it, and no run dumps a profile twice.      *)
DumpedOnce ==
  /\ \A f \in input.files : dumps[f] <= 1
  /\ exit = 0 => \A s \in Stacks : \A f \in Duty(s) : dumps[f] = 1

(* Running the analyzer again over the folder it dumped into gives the same *)
(* exit status.                                                             *)
RerunAgrees == exit # Running /\ lastExit # Running => exit = lastExit

(* Every run ends with an exit status.                                      *)
EveryRunExits == \A k \in 1..MaxRuns : run = k ~> (run = k /\ exit # Running)

(* The README, "This data is captured at every run in the matching folder": *)
(* after a green run the dump of every analysed profile is in the folder.   *)
EveryProfileHasItsDump ==
  exit = 0 => \A s \in Stacks : \A f \in Duty(s) :
    CapturePath(f) \in DOMAIN captures /\ captures[CapturePath(f)] = f
-----------------------------------------------------------------------------
(* The duties of this scenario, NoFile standing for the profile that a      *)
(* stack without any does not have, and what this run has made of them.     *)
NoFile == [stem |-> "", gen |-> 0, ext |-> ""]

ASSUME NoFileAssumption == \A F \in Folders : NoFile \notin F

DutySet == {<<s, f>> : s \in {t \in Stacks : Duty(t) = {}}, f \in {NoFile}}
           \cup UNION {{<<s, f>> : f \in Duty(s)} : s \in Stacks}

KindOf(s, f) ==
  CASE f = NoFile -> "hopeless"
    [] f # NoFile /\ input.allowFirst /\ First(s, f) -> "forgivable"
    [] OTHER -> "plain"

Judged(s, f) == s < stack \/ (s = stack /\ f \in matched \ todo)

VerdictOn(s, f) ==
  CASE ~Judged(s, f) -> "open"
    [] Judged(s, f) /\ f = NoFile -> "bad"
    [] Judged(s, f) /\ f # NoFile /\ content[s][f] = "match" -> "ok"
    [] Judged(s, f) /\ f # NoFile /\ Forgiven(s, f) -> "forgiven"
    [] OTHER -> "bad"

StatusOf == [e \in {Running, 0, 1, 2} |->
              CASE e = Running -> "running" [] e = 0 -> "green" [] e = 1 -> "red" [] e = 2 -> "broken"]

dutyKinds    == [d \in DutySet |-> KindOf(d[1], d[2])]
dutyVerdicts == [d \in DutySet |-> VerdictOn(d[1], d[2])]

Contract == INSTANCE Assessment WITH
  kind <- dutyKinds, verdict <- dutyVerdicts, status <- StatusOf[exit]

(* The analyzer keeps the contract of an assessment: walking, per stack, a  *)
(* folder it writes to judges exactly the duties of the scenario.           *)
Assesses == Contract!Spec
=============================================================================
