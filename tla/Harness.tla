------------------------------- MODULE Harness -------------------------------
(***************************************************************************)
(* The scenario jobs of the workflow: list-scenarios emits shards, and for *)
(* each shard a job runs testScenarios, which finds the shard's scenarios  *)
(* (see Discovery), builds their base images, and then for one scenario    *)
(* after the other builds the image "test-app", runs it and analyses what  *)
(* it leaves behind (see Analyzer).                                        *)
(***************************************************************************)
EXTENDS Sharding, FiniteSetsExt

CONSTANTS
  AllDirs,     \* the directories of scenarios/, sorted
  Kinds,       \* what they may hold: functions to "complete", "docker", "json"
  Selects,     \* the directories the regex of a name selects
  Base,        \* the base image of a scenario, or NoBase
  NoBase,
  NoImage,
  MaxParallel  \* max-parallel of the workflow

ASSUME HarnessAssumption ==
  /\ AllDirs \in Seq(Name) /\ \A p, q \in DOMAIN AllDirs : AllDirs[p] = AllDirs[q] => p = q
  /\ \A l \in Listing : \A j \in DOMAIN l : \E p \in DOMAIN AllDirs : AllDirs[p] = l[j]
  /\ Kinds \subseteq [Name -> {"complete", "docker", "json"}]
  /\ Selects \in [Name -> SUBSET Name] /\ \A n \in Name : n \in Selects[n]
  /\ DOMAIN Base = Name
  /\ NoImage \notin Name
  /\ MaxParallel \in Nat \ {0}

VARIABLES
  kind,      \* what each directory holds
  at,        \* per job: "queued", "find", "next", "run", "running", "analyze", "green", "red"
  configs,   \* per job: the scenarios still to do, as positions in AllDirs
  bases,     \* per job: base images still to build
  broken,    \* per job: a sub-test or the discovery has failed
  tagged,    \* per docker daemon: the scenario whose image is test-app
  loaded,    \* per job: the scenario whose image its container runs
  analysed   \* history: [job, scenario, image, verdict]

jobs  == <<at, configs, bases, broken, tagged, loaded, analysed>>
hvars == <<plan, kind, jobs>>

Job   == DOMAIN at
Ended == {"green", "red"}

Init ==
  /\ SInit
  /\ kind \in Kinds
  /\ at = <<>> /\ configs = <<>> /\ bases = <<>> /\ broken = <<>>
  /\ tagged = <<>> /\ loaded = <<>> /\ analysed = {}

(* The docker-scenarios jobs need the list; a list that fails starts none.  *)
Dispatch ==
  /\ listing = "emitted" /\ at = <<>>
  /\ at'      = [k \in DOMAIN chunks |-> "queued"]
  /\ configs' = [k \in DOMAIN chunks |-> {}]
  /\ bases'   = [k \in DOMAIN chunks |-> {}]
  /\ broken'  = [k \in DOMAIN chunks |-> FALSE]
  /\ tagged'  = [k \in DOMAIN chunks |-> NoImage]
  /\ loaded'  = [k \in DOMAIN chunks |-> NoImage]
  /\ UNCHANGED <<plan, kind, analysed>>

SharedDaemon(k) == 1   \* mutant: all jobs on one machine

DaemonOf(k) == k   \* a dedicated VM per job

Goto(k, from, to) == at[k] = from /\ at' = [at EXCEPT ![k] = to]

Start(k) ==
  /\ Cardinality({j \in Job : at[j] \notin Ended \cup {"queued"}}) < MaxParallel
  /\ Goto(k, "queued", "find")
  /\ UNCHANGED <<plan, kind, configs, bases, broken, tagged, loaded, analysed>>

Selected(k, d) == \E n \in Name : InChunk(k, n) /\ d \in Selects[n]

BasesOf(found) == {Base[AllDirs[p]] : p \in found} \ {NoBase}

(* findDockerConfigs; a json without a Dockerfile may make it report a      *)
(* mismatch, which fails the test and does not stop it.  A shard without    *)
(* any scenario is fatal.                                                   *)
Find(k) ==
  LET found == {p \in DOMAIN AllDirs : kind[AllDirs[p]] = "complete" /\ Selected(k, AllDirs[p])}
  IN /\ Goto(k, "find", IF found = {} THEN "red" ELSE "next")
     /\ configs' = [configs EXCEPT ![k] = found]
     /\ bases' = [bases EXCEPT ![k] = BasesOf(found)]
     /\ \E b \in IF \E d \in Name : kind[d] = "json" /\ Selected(k, d) THEN BOOLEAN ELSE {FALSE} :
          broken' = [broken EXCEPT ![k] = b]
     /\ UNCHANGED <<plan, kind, tagged, loaded, analysed>>

(* buildBaseImages, in the order of a Go map; a failure is fatal.           *)
BuildBase(k) ==
  /\ \E b \in bases[k] : bases' = [bases EXCEPT ![k] = @ \ {b}]
  /\ Goto(k, "next", "next") \/ Goto(k, "next", "red")
  /\ UNCHANGED <<plan, kind, configs, broken, tagged, loaded, analysed>>

(* The sub-tests are run in the order of the walk.                          *)
Current(k) == AllDirs[Min(configs[k])]

(* The current sub-test is over; the loop goes on with the next config.     *)
NextConfig(k, ok) ==
  /\ configs' = [configs EXCEPT ![k] = @ \ {Min(@)}]
  /\ broken' = [broken EXCEPT ![k] = @ \/ ~ok]

(* buildTestApp: every scenario is built under the same tag.                *)
Build(k) ==
  /\ bases[k] = {} /\ configs[k] # {}
  /\ Goto(k, "next", "run")
  /\ tagged' = [tagged EXCEPT ![DaemonOf(k)] = Current(k)]
  /\ UNCHANGED <<plan, kind, configs, bases, broken, loaded, analysed>>

BuildFails(k) ==
  /\ bases[k] = {} /\ configs[k] # {}
  /\ Goto(k, "next", "next")
  /\ NextConfig(k, FALSE)
  /\ UNCHANGED <<plan, kind, bases, tagged, loaded, analysed>>

(* runTestApp: "docker run" takes what the tag stands for now, ...          *)
Run(k) ==
  /\ Goto(k, "run", "running")
  /\ loaded' = [loaded EXCEPT ![k] = tagged[DaemonOf(k)]]
  /\ UNCHANGED <<plan, kind, configs, bases, broken, tagged, analysed>>

(* ... and ends well or badly, or never.                                    *)
RunEnds(k) ==
  /\ \/ Goto(k, "running", "analyze") /\ UNCHANGED <<configs, broken>>
     \/ Goto(k, "running", "next") /\ NextConfig(k, FALSE)
  /\ UNCHANGED <<plan, kind, bases, tagged, loaded, analysed>>

(* AnalyzeResults passes, fails the sub-test, or panics and takes the job   *)
(* down with it.                                                            *)
Analyze(k) ==
  \E verdict \in {"pass", "fail", "panic"} :
    /\ Goto(k, "analyze", IF verdict = "panic" THEN "red" ELSE "next")
    /\ NextConfig(k, verdict = "pass")
    /\ analysed' = analysed \cup {[job |-> k, scenario |-> Current(k),
                                   image |-> loaded[k], verdict |-> verdict]}
    /\ UNCHANGED <<plan, kind, bases, tagged, loaded>>

Finish(k) ==
  /\ bases[k] = {} /\ configs[k] = {}
  /\ Goto(k, "next", IF broken[k] THEN "red" ELSE "green")
  /\ UNCHANGED <<plan, kind, configs, bases, broken, tagged, loaded, analysed>>

NoTimeLimit(k) == FALSE   \* mutant: go test -timeout 0

Running(k) == at[k] \notin Ended \cup {"queued"}

(* go test -timeout 20m; so ends a job, too, whose walk or whose reading of *)
(* a Dockerfile fails.                                                      *)
TimesOut(k) ==
  /\ Running(k)
  /\ at' = [at EXCEPT ![k] = "red"]
  /\ UNCHANGED <<plan, kind, configs, bases, broken, tagged, loaded, analysed>>

Work(k) == Start(k) \/ Find(k) \/ BuildBase(k) \/ Build(k) \/ BuildFails(k) \/ Run(k)
           \/ Analyze(k) \/ Finish(k) \/ TimesOut(k)

Planning == SNext /\ UNCHANGED <<kind, jobs>>

Next == Planning \/ Dispatch \/ \E k \in Job : Work(k) \/ RunEnds(k)

(* The runners work and the time limit is enforced; no container has to end.*)
Fairness ==
  /\ WF_hvars(Planning) /\ WF_hvars(Dispatch)
  /\ \A k \in 1..Len(AllDirs) : WF_hvars(k \in Job /\ Work(k))

Spec == Init /\ [][Next]_hvars /\ Fairness
-----------------------------------------------------------------------------
(* What is analysed for a scenario came out of a container of that scenario,*)
(* although all scenarios share one image tag.                              *)
OwnImage == \A a \in analysed : a.image = a.scenario

(* No scenario is run in two shards, or twice in one.                       *)
RunsOnce ==
  /\ \A a, b \in analysed : a.scenario = b.scenario => a = b
  /\ \A a \in analysed : \A k \in Job :
       ~\E p \in configs[k] : AllDirs[p] = a.scenario

(* All jobs green means that every complete scenario that matches the       *)
(* pattern was analysed and passed: none is lost between the listing, the   *)
(* shards, their regexes and the discovery.                                 *)
GreenMeansAllPassed ==
  (Job # {} /\ \A k \in Job : at[k] = "green") =>
    \A j \in DOMAIN names : kind[names[j]] = "complete" =>
      \E a \in analysed : a.scenario = names[j] /\ a.verdict = "pass"

(* Every job ends, also when a container never does.                        *)
JobsEnd == listing = "emitted" ~> (Job # {} /\ \A k \in Job : at[k] \in Ended)
=============================================================================
