------------------------------ MODULE Analyzer ------------------------------
(***************************************************************************)
(* prof-analyze: AnalyzeResults checks every typed stack of an             *)
(* expected_profile.json against every matching profile of a folder, and   *)
(* dumps what each profile holds into the folder it reads.                 *)
(*                                                                         *)
(* A later stack walks the folder again, after the dumps of the earlier    *)
(* ones, and a later run finds the dumps of the run before.                *)
(***************************************************************************)
EXTENDS ProfileNames, Integers, FiniteSets

CONSTANTS
  Folders,      \* the sets of profiles a scenario may leave in the folder
  Leq(_, _),    \* the order of sort.Strings on names
  MaxStacks,    \* bound: typed stacks of an expected_profile.json
  MaxRuns       \* bound: runs of the analyzer over one folder

ASSUME AnalyzerAssumption ==
  /\ \A F \in Folders : F \subseteq Name /\ \A m, n \in F : Leq(m, n) /\ Leq(n, m) => m = n
  /\ MaxStacks \in Nat
  /\ MaxRuns \in Nat \ {0}

Running == -1          \* no exit status yet
Unknown == "unknown"   \* nothing has looked at this yet

VARIABLES
  input,     \* the command line, the expected_profile.json and the folder
  readable,  \* per profile: whether LoadProfileSet can read it
  content,   \* per stack and profile: what the samples say about the stack
  profiles,  \* the profiles that still are what the scenario wrote
  captures,  \* dump file -> the profile it was last written for
  pc,        \* "main", "open", "stack", "file", "exited"
  stack,     \* index of the typed stack under analysis
  matched,   \* matchingFiles of this stack
  todo,      \* those the inner loop has not reached
  processed, \* processedProfilesMap
  failed,    \* StdReporter.failed
  exit,      \* exit status of the process, Running before
  run,       \* number of this run over the folder
  lastExit,  \* exit status of the run before, Running if none
  dumps      \* history: dumps written for each profile in this run

scenario == <<input, readable, content>>
folder   == <<profiles, captures>>
loop     == <<stack, matched, todo, processed>>
vars     == <<scenario, folder, pc, loop, failed, exit, run, lastExit, dumps>>

(* What a run is given. flags, json and dir are FALSE for missing flags, an *)
(* expected_profile.json that ReadJSONFile rejects and a folder that cannot *)
(* be walked; writable is FALSE for a folder no dump can be written to.     *)
Input == [flags : BOOLEAN, json : BOOLEAN, dir : BOOLEAN, writable : BOOLEAN,
          allowFirst : BOOLEAN, top : Regex,
          own : UNION {[1..k -> Regex] : k \in 0..MaxStacks},
          files : Folders]

Stacks == DOMAIN input.own

(* typedStacks.PprofRegex, else the file's "pprof-regex", else the default. *)
RegexOf(s) == IF input.own[s] # Unset THEN input.own[s] ELSE input.top

Init ==
  /\ input \in Input
  /\ readable = [f \in input.files |-> Unknown]
  /\ content  = [s \in Stacks |-> [f \in input.files |-> Unknown]]
  /\ profiles = input.files
  /\ captures = [f \in {} |-> f]
  /\ pc = "main" /\ stack = 1 /\ matched = {} /\ todo = {} /\ processed = {}
  /\ failed = FALSE /\ exit = Running /\ run = 1 /\ lastExit = Running
  /\ dumps = [f \in input.files |-> 0]

-----------------------------------------------------------------------------
(* How a run ends: Fatalf unwinds to Run, which lets the process exit with  *)
(* 1; any other panic leaves the process with Go's status 2.                *)
Stop(status) == pc' = "exited" /\ exit' = status

FatalfNotRecorded == failed' = failed /\ Stop(0)   \* mutant: Failed() stays FALSE

Fatalf == failed' = TRUE /\ Stop(1)

Panic == failed' = failed /\ Stop(2)

(* main: the flags, then AnalyzeResults under Run.                          *)
Main ==
  /\ pc = "main"
  /\ \/ ~input.flags /\ Stop(2)
     \/ input.flags /\ pc' = "open" /\ exit' = exit
  /\ UNCHANGED <<scenario, folder, loop, failed, run, lastExit, dumps>>

(* ReadJSONFile, and the file's own "pprof-regex" through MustCompile.      *)
ReadExpectations ==
  /\ pc = "open"
  /\ \/ ~input.json /\ Fatalf
     \/ input.json /\ input.top = Invalid /\ Panic
     \/ input.json /\ input.top # Invalid /\ pc' = "stack" /\ UNCHANGED <<failed, exit>>
  /\ UNCHANGED <<scenario, folder, loop, run, lastExit, dumps>>

NextStackStays == stack' = stack   \* mutant: the loop does not advance

NextStack == stack' = stack + 1

Matching(rx) == {n \in profiles \cup DOMAIN captures : Accepts(rx, n)}

(* One turn of the loop over the typed stacks: its regex, then the walk.    *)
StackAborts ==
  /\ pc = "stack" /\ stack \in Stacks
  /\ \/ input.own[stack] = Invalid /\ Panic
     \/ input.own[stack] # Invalid /\ ~input.dir /\ Fatalf
  /\ UNCHANGED <<scenario, folder, loop, run, lastExit, dumps>>

StackHasNoFile ==
  /\ pc = "stack" /\ stack \in Stacks /\ input.own[stack] # Invalid /\ input.dir
  /\ Matching(RegexOf(stack)) = {}
  /\ failed' = TRUE
  /\ NextStack
  /\ UNCHANGED <<scenario, folder, pc, matched, todo, processed, exit, run, lastExit, dumps>>

StackHasFiles ==
  /\ pc = "stack" /\ stack \in Stacks /\ input.own[stack] # Invalid /\ input.dir
  /\ Matching(RegexOf(stack)) # {}
  /\ pc' = "file"
  /\ matched' = Matching(RegexOf(stack))
  /\ todo' = matched'
  /\ UNCHANGED <<scenario, folder, stack, processed, failed, exit, run, lastExit, dumps>>

Finish ==
  /\ pc = "stack" /\ stack \notin Stacks
  /\ Stop(IF failed THEN 1 ELSE 0)
  /\ UNCHANGED <<scenario, folder, loop, failed, run, lastExit, dumps>>
-----------------------------------------------------------------------------
IsDump(f) == f \in DOMAIN captures

(* What a file holds is decided when first looked at, then stays: "fatal"   *)
(* if it has no samples of the stack's type, or if one of the stack's own   *)
(* regular expressions that its samples lead to does not compile.  A dump   *)
(* read as a profile does not parse, or parses to no sample type.           *)
Reads(f, r) ==
  IF IsDump(f) THEN UNCHANGED readable
  ELSE readable[f] \in {Unknown, r} /\ readable' = [readable EXCEPT ![f] = r]

Shows(f, c) ==
  IF IsDump(f) THEN c = "fatal" /\ UNCHANGED content
  ELSE content[stack][f] \in {Unknown, c} /\ content' = [content EXCEPT ![stack][f] = c]

AlwaysDumped(f) == TRUE   \* mutant: processedProfilesMap is not consulted

(* !fileAlreadyProcessed: the captureData argument of AnalyzePprofFile.     *)
DumpDue(f) == f \notin processed

(* captureProfData, only for a file this run has not processed yet.         *)
Dump(f) ==
  LET target == CapturePath(f)
  IN IF ~DumpDue(f) THEN UNCHANGED <<folder, dumps>> ELSE
     /\ captures' = [n \in DOMAIN captures \cup {target} |->
                       IF n = target THEN f ELSE captures[n]]
     /\ profiles' = profiles \ {target}
     /\ dumps' = [d \in DOMAIN dumps |-> IF d = f THEN dumps[d] + 1 ELSE dumps[d]]

Dumpable(f) == ~DumpDue(f) \/ input.writable

MayFailAll == input.allowFirst   \* mutant: i == 0 is not asked

MayFail == input.allowFirst /\ todo = matched   \* AllowFirstProfileFailure && i == 0

(* The file the inner loop is at: matchingFiles are sorted by name.         *)
Current(f) == pc = "file" /\ f \in todo /\ \A g \in todo : Leq(f, g)

(* The end of a turn of the inner loop, and of the loop.                    *)
Advance(f) ==
  /\ todo' = todo \ {f}
  /\ IF todo' = {} THEN pc' = "stack" /\ NextStack /\ matched' = {}
                   ELSE UNCHANGED <<pc, stack, matched>>

LoadFails(f) ==
  /\ Reads(f, "no")
  /\ Fatalf
  /\ UNCHANGED <<content, folder, stack, matched, todo, dumps>>

CaptureFails(f) ==
  /\ Reads(f, "yes")
  /\ ~Dumpable(f)
  /\ Fatalf
  /\ UNCHANGED <<content, folder, stack, matched, todo, dumps>>

(* The assertions cannot be made, or not all of them.                       *)
AssertionAborts(f) ==
  /\ Reads(f, "yes")
  /\ Dumpable(f) /\ Dump(f)
  /\ Shows(f, "fatal")
  /\ Fatalf
  /\ UNCHANGED <<stack, matched, todo>>

(* The assertions of the stack are made; Errorf unless failure is allowed.  *)
Asserted(f) ==
  /\ Reads(f, "yes")
  /\ Dumpable(f) /\ Dump(f)
  /\ \/ Shows(f, "match") /\ failed' = failed
     \/ Shows(f, "mismatch") /\ failed' = (failed \/ ~MayFail)
  /\ Advance(f)
  /\ exit' = exit

(* AnalyzePprofFile for the current file.                                   *)
AnalyzeFile(f) ==
  /\ Current(f)
  /\ LoadFails(f) \/ CaptureFails(f) \/ AssertionAborts(f) \/ Asserted(f)
  /\ processed' = processed \cup {f}
  /\ UNCHANGED <<input, run, lastExit>>

(* The analyzer is started again over the same folder.                      *)
Rerun ==
  /\ pc = "exited" /\ run < MaxRuns
  /\ run' = run + 1 /\ lastExit' = exit
  /\ pc' = "main" /\ stack' = 1 /\ matched' = {} /\ todo' = {} /\ processed' = {}
  /\ failed' = FALSE /\ exit' = Running
  /\ dumps' = [f \in input.files |-> 0]
  /\ UNCHANGED <<scenario, folder>>

Analyze == Main \/ ReadExpectations \/ StackAborts \/ StackHasNoFile \/ StackHasFiles
           \/ Finish \/ (\E f \in todo : AnalyzeFile(f))

Next == Analyze \/ Rerun

(* The process runs until it exits; nobody has to start it again.           *)
Spec == Init /\ [][Next]_vars /\ WF_vars(Analyze)
=============================================================================
