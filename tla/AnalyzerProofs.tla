--------------------------- MODULE AnalyzerProofs ---------------------------
(***************************************************************************)
(* The analyzer over any names, folders, patterns and number of stacks.    *)
(***************************************************************************)
EXTENDS AnalyzerProperties, TLAPS

(* What is matched is in the folder: a profile that is gone is a dump now.  *)
InFolder == matched \subseteq profiles \cup DOMAIN captures

TypeInv == TypeOK /\ InFolder

(* Dumps are files with a name of the folder.                               *)
LEMMA CapturePathIsName ==
  ASSUME NEW n \in Name
  PROVE  CapturePath(n) \in Name /\ CapturePath(n).ext = "json"
<1>1. WithJson(n) \in Name /\ WithJson(n).ext = "json"
  BY NamesAssumption DEF Name, WithJson
<1>2. CASE WithJson(n) = n
  <2>1. n.ext = "json"
    BY <1>1, <1>2
  <2> QED
    BY <1>2, <2>1 DEF Name, CapturePath
<1>3. CASE WithJson(n) # n
  BY <1>1, <1>3 DEF CapturePath
<1> QED
  BY <1>2, <1>3

LEMMA InputType ==
  ASSUME TypeOK
  PROVE  /\ input.files \in Folders /\ input.files \subseteq Name
         /\ input.flags \in BOOLEAN /\ input.json \in BOOLEAN /\ input.dir \in BOOLEAN
         /\ input.allowFirst \in BOOLEAN
         /\ \E k \in 0..MaxStacks : input.own \in [1..k -> Regex]
<1>1. input \in Input
  BY DEF TypeOK, ScenarioOK
<1>2. input.files \in Folders
  BY <1>1 DEF Input
<1>3. \E k \in 0..MaxStacks : input.own \in [1..k -> Regex]
  BY <1>1 DEF Input
<1> QED
  BY <1>1, <1>2, <1>3, AnalyzerAssumption DEF Input

(* The initial state has the types.                                         *)
LEMMA InitTypeInv == Init => TypeInv
<1> SUFFICES ASSUME Init PROVE TypeInv
  OBVIOUS
<1>1. ScenarioOK
  BY DEF Init, ScenarioOK
<1>2. FolderOK
  BY DEF Init, FolderOK
<1>3. ControlOK
  <2>1. run \in 1..MaxRuns
    BY AnalyzerAssumption DEF Init
  <2>2. exit \in {Running, 0, 1, 2} /\ lastExit \in {Running, 0, 1, 2}
    BY DEF Init
  <2>3. failed \in BOOLEAN
    BY DEF Init
  <2>4. stack \in Nat \ {0} /\ pc \in {"main", "open", "stack", "file", "exited"}
    BY DEF Init
  <2>5. matched \subseteq Name /\ todo \subseteq matched /\ processed \subseteq Name
    BY DEF Init
  <2> QED
    BY <2>1, <2>2, <2>3, <2>4, <2>5 DEF ControlOK
<1>4. InFolder
  BY DEF Init, InFolder
<1> QED
  BY <1>1, <1>2, <1>3, <1>4 DEF TypeInv, TypeOK

(* The current file is in the folder, as a profile or as a dump.            *)
LEMMA CurrentFile ==
  ASSUME TypeInv, NEW f \in todo
  PROVE  f \in Name /\ f \in matched /\ (f \in input.files \/ IsDump(f))
  BY DEF TypeInv, TypeOK, FolderOK, ControlOK, InFolder, IsDump

LEMMA DumpType ==
  ASSUME TypeInv, NEW f \in todo, Dump(f)
  PROVE  /\ profiles' \subseteq profiles
         /\ profiles \cup DOMAIN captures \subseteq profiles' \cup DOMAIN captures'
         /\ DOMAIN captures' \subseteq Name
         /\ \A n \in DOMAIN captures' : captures'[n] \in Name
         /\ dumps' \in [input.files -> Nat]
<1>1. f \in Name /\ CapturePath(f) \in Name
  BY CurrentFile, CapturePathIsName
<1>2. CASE ~DumpDue(f)
  BY <1>2 DEF Dump, folder, TypeInv, TypeOK, FolderOK
<1>3. CASE DumpDue(f)
  <2>1. captures' = [n \in DOMAIN captures \cup {CapturePath(f)} |->
                      IF n = CapturePath(f) THEN f ELSE captures[n]]
        /\ profiles' = profiles \ {CapturePath(f)}
        /\ dumps' = [d \in DOMAIN dumps |-> IF d = f THEN dumps[d] + 1 ELSE dumps[d]]
    BY <1>3 DEF Dump
  <2> QED
    BY <1>1, <2>1 DEF TypeInv, TypeOK, FolderOK
<1> QED
  BY <1>2, <1>3

LEMMA ReadsType ==
  ASSUME TypeInv, NEW f \in todo, NEW r \in {"yes", "no"}, Reads(f, r)
  PROVE  readable' \in [input.files -> {Unknown, "yes", "no"}]
  BY DEF Reads, TypeInv, TypeOK, ScenarioOK

LEMMA ShowsType ==
  ASSUME TypeInv, NEW f \in todo, NEW c \in {"match", "mismatch", "fatal"}, Shows(f, c)
  PROVE  content' \in [Stacks -> [input.files -> {Unknown, "match", "mismatch", "fatal"}]]
  BY DEF Shows, TypeInv, TypeOK, ScenarioOK

(* Analyzing a file keeps the types.                                        *)
LEMMA AnalyzeFileTypeInv == ASSUME TypeInv, NEW f \in todo, AnalyzeFile(f) PROVE TypeInv'
<1> USE DEF TypeInv, TypeOK
<1>1. processed' = processed \cup {f} /\ f \in Name
      /\ UNCHANGED <<input, run, lastExit>> /\ Stacks' = Stacks
  BY CurrentFile DEF AnalyzeFile, Stacks
<1>2. CASE LoadFails(f)
  <2>1. ScenarioOK'
    BY <1>1, <1>2, ReadsType DEF LoadFails, ScenarioOK
  <2>2. FolderOK' /\ InFolder'
    BY <1>1, <1>2 DEF LoadFails, folder, FolderOK, InFolder
  <2>3. ControlOK'
    BY <1>1, <1>2 DEF LoadFails, Fatalf, Stop, ControlOK
  <2> QED
    BY <2>1, <2>2, <2>3
<1>3. CASE CaptureFails(f)
  <2>1. ScenarioOK'
    BY <1>1, <1>3, ReadsType DEF CaptureFails, ScenarioOK
  <2>2. FolderOK' /\ InFolder'
    BY <1>1, <1>3 DEF CaptureFails, folder, FolderOK, InFolder
  <2>3. ControlOK'
    BY <1>1, <1>3 DEF CaptureFails, Fatalf, Stop, ControlOK
  <2> QED
    BY <2>1, <2>2, <2>3
<1>4. CASE AssertionAborts(f)
  <2>1. ScenarioOK'
    BY <1>1, <1>4, ReadsType, ShowsType DEF AssertionAborts, ScenarioOK
  <2>2. FolderOK' /\ InFolder'
    BY <1>1, <1>4, DumpType DEF AssertionAborts, FolderOK, InFolder
  <2>3. ControlOK'
    BY <1>1, <1>4 DEF AssertionAborts, Fatalf, Stop, ControlOK
  <2> QED
    BY <2>1, <2>2, <2>3
<1>5. CASE Asserted(f)
  <2>1. Reads(f, "yes") /\ Dump(f) /\ Advance(f) /\ exit' = exit
        /\ (Shows(f, "match") \/ Shows(f, "mismatch"))
        /\ failed' \in BOOLEAN
    BY <1>5 DEF Asserted, ControlOK
  <2>2. ScenarioOK'
    BY <1>1, <2>1, ReadsType, ShowsType DEF ScenarioOK
  <2>3. matched' \subseteq matched /\ todo' \subseteq matched' /\ stack' \in Nat \ {0}
        /\ pc' \in {"stack", pc}
    BY <2>1 DEF Advance, NextStack, ControlOK
  <2>4. FolderOK' /\ InFolder'
    BY <1>1, <2>1, <2>3, DumpType DEF FolderOK, InFolder
  <2>5. ControlOK'
    BY <1>1, <2>1, <2>3 DEF ControlOK
  <2> QED
    BY <2>2, <2>4, <2>5
<1> QED
  BY <1>2, <1>3, <1>4, <1>5 DEF AnalyzeFile

(* Every other step keeps the types, too.                                   *)
LEMMA NextTypeInv == TypeInv /\ [Next]_vars => TypeInv'
<1> SUFFICES ASSUME TypeInv, [Next]_vars PROVE TypeInv'
  OBVIOUS
<1> USE DEF TypeInv, TypeOK, scenario, folder, loop, Stop, Fatalf, Panic
<1>a. ASSUME UNCHANGED scenario PROVE ScenarioOK'
  BY <1>a DEF ScenarioOK, Stacks
<1>b. ASSUME UNCHANGED <<input, folder, dumps>> PROVE FolderOK'
  BY <1>b DEF FolderOK
<1>1. CASE Main
  BY <1>1, <1>a, <1>b DEF Main, ControlOK, InFolder
<1>2. CASE ReadExpectations
  BY <1>2, <1>a, <1>b DEF ReadExpectations, ControlOK, InFolder
<1>3. CASE StackAborts
  BY <1>3, <1>a, <1>b DEF StackAborts, ControlOK, InFolder
<1>4. CASE StackHasNoFile
  BY <1>4, <1>a, <1>b DEF StackHasNoFile, NextStack, ControlOK, InFolder
<1>5. CASE StackHasFiles
  <2>1. matched' \subseteq profiles \cup DOMAIN captures /\ todo' = matched'
    BY <1>5 DEF StackHasFiles, Matching
  <2>2. matched' \subseteq Name
    BY <2>1, InputType DEF FolderOK
  <2>3. ControlOK'
    BY <1>5, <2>1, <2>2 DEF StackHasFiles, ControlOK
  <2>4. InFolder'
    BY <1>5, <2>1 DEF StackHasFiles, InFolder
  <2>5. ScenarioOK' /\ FolderOK'
    BY <1>5, <1>a, <1>b DEF StackHasFiles
  <2> QED
    BY <2>3, <2>4, <2>5
<1>6. CASE Finish
  BY <1>6, <1>a, <1>b DEF Finish, ControlOK, InFolder
<1>7. CASE \E f \in todo : AnalyzeFile(f)
  BY <1>7, AnalyzeFileTypeInv
<1>8. CASE Rerun
  <2>1. FolderOK'
    BY <1>8 DEF Rerun, FolderOK
  <2>2. run' \in 1..MaxRuns
    BY <1>8, AnalyzerAssumption DEF Rerun, ControlOK
  <2>3. exit' \in {Running, 0, 1, 2} /\ lastExit' \in {Running, 0, 1, 2}
    BY <1>8 DEF Rerun, ControlOK
  <2>4. failed' \in BOOLEAN
    BY <1>8 DEF Rerun
  <2>5. stack' \in Nat \ {0} /\ pc' \in {"main", "open", "stack", "file", "exited"}
    BY <1>8 DEF Rerun
  <2>6. matched' \subseteq Name /\ todo' \subseteq matched' /\ processed' \subseteq Name
        /\ InFolder'
    BY <1>8 DEF Rerun, InFolder
  <2>7. ScenarioOK'
    BY <1>8, <1>a DEF Rerun
  <2> QED
    BY <2>1, <2>2, <2>3, <2>4, <2>5, <2>6, <2>7 DEF ControlOK
<1>9. CASE UNCHANGED vars
  BY <1>9, <1>a, <1>b DEF vars, ControlOK, InFolder
<1> QED
  BY <1>1, <1>2, <1>3, <1>4, <1>5, <1>6, <1>7, <1>8, <1>9 DEF Next, Analyze

(* Every variable has its type, whatever the names, folders and stacks.     *)
THEOREM TypeCorrect == Spec => []TypeOK
<1>1. TypeInv => TypeOK
  BY DEF TypeInv
<1> QED
  BY <1>1, InitTypeInv, NextTypeInv, PTL DEF Spec
-----------------------------------------------------------------------------
(* What the loops have found out about a file of a stack, and what a stack  *)
(* without an abort says: nothing here depends on the run or on the order.  *)
Sound(s, f)  == readable[f] = "yes" /\ input.writable /\ content[s][f] \in {"match", "mismatch"}
Stuck(s, f)  == readable[f] = "no" \/ ~input.writable \/ content[s][f] = "fatal"
Blamed(s, f) == content[s][f] = "mismatch" /\ ~Forgiven(s, f)

Begun      == input.flags /\ input.json /\ input.top # Invalid
Usable(s)  == input.own[s] # Invalid /\ input.dir
Through(s) == Usable(s) /\ \A f \in Duty(s) : Sound(s, f)
Objects(s) == Duty(s) = {} \/ \E f \in Duty(s) : Blamed(s, f)

(* All stacks are gone through; then whether one objects decides.           *)
WellEnded(e) ==
  /\ Begun /\ \A s \in Stacks : Through(s)
  /\ e = IF \E s \in Stacks : Objects(s) THEN 1 ELSE 0

(* The invariant of the two loops, for names of any kind: where control is, *)
Control ==
  /\ pc = "exited" <=> exit # Running
  /\ pc = "open" => input.flags
  /\ pc \in {"main", "open"} => ~failed /\ stack = 1
  /\ pc \in {"main", "open", "stack"} => matched = {}
  /\ pc \in {"stack", "file"} => Begun
  /\ pc = "file" => stack \in Stacks /\ Usable(stack) /\ todo # {}
  /\ pc # "exited" /\ processed # {} => input.writable

(* ... which stacks and which files of this stack are gone through,         *)
Behind == pc \in {"stack", "file"} => \A s \in Stacks : s < stack => Through(s)

Gone ==
  pc = "file" =>
    /\ Duty(stack) \subseteq matched /\ \A f \in matched : Accepts(RegexOf(stack), f)
    /\ \A f \in matched \ todo :
         f \in Duty(stack) /\ Sound(stack, f) /\ \A g \in todo : Leq(f, g)

(* ... that a failure is recorded exactly when one of them objects,         *)
Recorded ==
  pc \in {"stack", "file"} =>
    (failed <=> \/ \E s \in Stacks : s < stack /\ Objects(s)
                \/ pc = "file" /\ \E f \in matched \ todo : Blamed(stack, f))

(* ... and that a profile which is gone has become a dump.                  *)
Kept == input.files \subseteq profiles \cup DOMAIN captures

Walk == Control /\ Behind /\ Gone /\ Recorded /\ Kept /\ (exit = 0 => WellEnded(0))

(* What is known of the scenario stays known.                               *)
Learns ==
  /\ input' = input
  /\ \A f \in input.files : readable[f] # Unknown => readable'[f] = readable[f]
  /\ \A s \in Stacks : \A f \in input.files :
       content[s][f] # Unknown => content'[s][f] = content[s][f]

LEMMA NextLearns == TypeInv /\ [Next]_vars => Learns
<1> SUFFICES ASSUME TypeInv, [Next]_vars PROVE Learns
  OBVIOUS
<1>1. CASE UNCHANGED scenario
  BY <1>1 DEF scenario, Learns
<1>2. ASSUME NEW f \in todo, AnalyzeFile(f) PROVE Learns
  <2>1. ASSUME NEW r \in {"yes", "no"}, Reads(f, r)
        PROVE  \A g \in input.files : readable[g] # Unknown => readable'[g] = readable[g]
    BY <2>1 DEF Reads, TypeInv, TypeOK, ScenarioOK
  <2>2. ASSUME NEW c \in {"match", "mismatch", "fatal"}, Shows(f, c)
        PROVE  \A s \in Stacks : \A g \in input.files :
                 content[s][g] # Unknown => content'[s][g] = content[s][g]
    BY <2>2 DEF Shows, TypeInv, TypeOK, ScenarioOK
  <2>3. CASE LoadFails(f) \/ CaptureFails(f)
    BY <1>2, <2>1, <2>3 DEF AnalyzeFile, LoadFails, CaptureFails, Learns
  <2>4. CASE AssertionAborts(f)
    BY <1>2, <2>1, <2>2, <2>4 DEF AnalyzeFile, AssertionAborts, Learns
  <2>5. CASE Asserted(f)
    BY <1>2, <2>1, <2>2, <2>5 DEF AnalyzeFile, Asserted, Learns
  <2> QED
    BY <1>2, <2>3, <2>4, <2>5 DEF AnalyzeFile
<1> QED
  BY <1>1, <1>2 DEF Next, Analyze, Main, ReadExpectations, StackAborts, StackHasNoFile,
     StackHasFiles, Finish, Rerun, vars

(* So judgements are final.                                                 *)
LEMMA Settled ==
  ASSUME Learns, NEW s \in Stacks
  PROVE  /\ Stacks' = Stacks /\ Duty(s)' = Duty(s) /\ RegexOf(s)' = RegexOf(s)
         /\ (Usable(s)' <=> Usable(s))
         /\ \A f \in Duty(s) : /\ Sound(s, f) => Sound(s, f)' /\ (Blamed(s, f)' <=> Blamed(s, f))
                               /\ Stuck(s, f) => Stuck(s, f)'
         /\ Through(s) => Through(s)' /\ (Objects(s)' <=> Objects(s))
<1>1. /\ Stacks' = Stacks /\ Duty(s)' = Duty(s) /\ RegexOf(s)' = RegexOf(s)
      /\ (Usable(s)' <=> Usable(s)) /\ Duty(s) \subseteq input.files
  BY DEF Learns, Stacks, Duty, RegexOf, Usable
<1>2. ASSUME NEW f \in Duty(s)
      PROVE  /\ Sound(s, f) => Sound(s, f)' /\ (Blamed(s, f)' <=> Blamed(s, f))
             /\ Stuck(s, f) => Stuck(s, f)'
  <2>1. /\ readable[f] # Unknown => readable'[f] = readable[f]
        /\ content[s][f] # Unknown => content'[s][f] = content[s][f]
        /\ input' = input
    BY <1>1 DEF Learns
  <2>2. First(s, f)' <=> First(s, f)
    BY <1>1 DEF First
  <2>3. Forgiven(s, f)' <=> input.allowFirst /\ content'[s][f] = "mismatch" /\ First(s, f)
    BY <2>1, <2>2 DEF Forgiven
  <2>4. Sound(s, f) => Sound(s, f)' /\ content'[s][f] = content[s][f]
    BY <2>1 DEF Sound, Unknown
  <2>5. Stuck(s, f) => Stuck(s, f)'
    BY <2>1 DEF Stuck, Unknown
  <2> QED
    BY <2>3, <2>4, <2>5 DEF Blamed, Forgiven
<1> QED
  BY <1>1, <1>2 DEF Through, Objects

LEMMA StacksAreNumbered ==
  ASSUME TypeOK
  PROVE  \E k \in Nat : Stacks = 1..k
BY InputType, AnalyzerAssumption DEF Stacks

LEMMA InitWalk == Init => Walk
<1> SUFFICES ASSUME Init PROVE Walk
  OBVIOUS
<1>1. Control /\ (exit = 0 => WellEnded(0))
  BY DEF Init, Control, Running
<1> QED
  BY <1>1 DEF Init, Walk, Behind, Gone, Recorded, Kept

(* The profiles a stack speaks about are in the folder, if only as dumps.   *)
LEMMA DutyIsMatched ==
  ASSUME Kept, NEW s
  PROVE  Duty(s) \subseteq Matching(RegexOf(s))
BY DEF Kept, Duty, Matching

(* The current file was a profile if an assertion could be made on it, and  *)
(* MayFail asks whether it is the first of all profiles of its stack.       *)
LEMMA AssertedFile ==
  ASSUME TypeInv, Walk, Learns, NEW s \in Stacks, stack = s,
         NEW f \in todo, Current(f), Asserted(f)
  PROVE  /\ f \in Duty(s) /\ Sound(s, f)' /\ \A g \in todo : Leq(f, g)
         /\ failed' <=> failed \/ Blamed(s, f)'
<1>1. PICK c \in {"match", "mismatch"} :
        Reads(f, "yes") /\ Shows(f, c) /\ (failed' <=> failed \/ (c = "mismatch" /\ ~MayFail))
  <2>1. failed \in BOOLEAN /\ Reads(f, "yes")
    BY DEF Asserted, TypeInv, TypeOK, ControlOK
  <2>2. CASE Shows(f, "match") /\ failed' = failed
    BY <2>1, <2>2
  <2>3. CASE Shows(f, "mismatch") /\ failed' = (failed \/ ~MayFail)
    BY <2>1, <2>3 DEF MayFail
  <2> QED
    BY <2>2, <2>3 DEF Asserted
<1>2. /\ readable' = [readable EXCEPT ![f] = "yes"] /\ content' = [content EXCEPT ![s][f] = c]
      /\ ~IsDump(f)
  BY <1>1 DEF Reads, Shows
<1>3. f \in input.files /\ f \in Duty(s) /\ pc = "file"
  <2>1. f \in input.files /\ f \in matched /\ pc = "file"
    BY <1>2, CurrentFile DEF Current
  <2>2. Accepts(RegexOf(s), f)
    BY <2>1 DEF Walk, Gone
  <2> QED
    BY <2>1, <2>2 DEF Duty
<1>4. readable'[f] = "yes" /\ content'[s][f] = c /\ input' = input
  BY <1>2, <1>3 DEF TypeInv, TypeOK, ScenarioOK, Learns
<1>5. input.writable
  BY <1>3 DEF Asserted, Dumpable, DumpDue, Walk, Control
<1>6. input.allowFirst => (MayFail <=> First(s, f))
  <2>1. ASSUME todo = matched PROVE First(s, f)
    BY <1>3, <2>1 DEF Current, First, Walk, Gone
  <2>2. ASSUME First(s, f), todo # matched PROVE FALSE
    <3>1. PICK g \in matched \ todo : g \in Duty(s) /\ Leq(g, f)
      BY <1>3, <2>2 DEF Walk, Gone, TypeInv, TypeOK, ControlOK
    <3>2. Leq(f, g) /\ g \in input.files
      BY <2>2, <3>1 DEF First, Duty
    <3> QED
      BY <1>3, <3>1, <3>2, InputType, AnalyzerAssumption DEF TypeInv
  <2> QED
    BY <2>1, <2>2 DEF MayFail
<1>7. First(s, f)' <=> First(s, f)
  BY Settled DEF First
<1>8. Blamed(s, f)' <=> c = "mismatch" /\ ~MayFail
  BY <1>4, <1>6, <1>7 DEF Blamed, Forgiven, MayFail
<1>9. Sound(s, f)'
  BY <1>4, <1>5 DEF Sound
<1> QED
  BY <1>1, <1>3, <1>8, <1>9 DEF Current

LEMMA AssertedWalk ==
  ASSUME TypeInv, TypeInv', Walk, Learns, NEW f \in todo, Current(f), Asserted(f),
         processed' = processed \cup {f}
  PROVE  Walk'
<1>1. PICK s \in Stacks : s = stack
  BY DEF Current, Walk, Control
<1>2. /\ f \in Duty(s) /\ Sound(s, f)' /\ \A g \in todo : Leq(f, g)
      /\ failed' <=> failed \/ Blamed(s, f)'
  BY <1>1, AssertedFile
<1>3. /\ pc = "file" /\ exit = Running /\ exit' = exit /\ todo' = todo \ {f}
      /\ \/ todo' = {} /\ pc' = "stack" /\ stack' = s + 1 /\ matched' = {}
         \/ todo' # {} /\ pc' = "file" /\ stack' = s /\ matched' = matched
  BY <1>1 DEF Current, Asserted, Advance, NextStack, Walk, Control
<1>4. \A g \in matched \ todo' : /\ g \in Duty(s) /\ Sound(s, g)' /\ \A h \in todo' : Leq(g, h)
                                 /\ g # f => (Blamed(s, g)' <=> Blamed(s, g))
  <2> SUFFICES ASSUME NEW g \in matched \ todo', g # f
               PROVE  /\ g \in Duty(s) /\ Sound(s, g)' /\ \A h \in todo' : Leq(g, h)
                      /\ Blamed(s, g)' <=> Blamed(s, g)
    BY <1>2, <1>3
  <2>1. g \in Duty(s) /\ Sound(s, g) /\ \A h \in todo : Leq(g, h)
    BY <1>1, <1>3 DEF Walk, Gone
  <2> QED
    BY <1>3, <2>1, Settled
<1>5. Duty(s) \subseteq matched /\ todo \subseteq matched /\ Usable(s)
      /\ \A g \in matched : Accepts(RegexOf(s), g)
  BY <1>1, <1>3 DEF Walk, Gone, Control, TypeInv, TypeOK, ControlOK
<1>6. ASSUME NEW t \in Stacks, t < s PROVE Through(t)' /\ (Objects(t)' <=> Objects(t))
  <2>1. Through(t)
    BY <1>1, <1>3, <1>6 DEF Walk, Behind
  <2> QED
    BY <2>1, Settled
<1>7. failed <=> \/ \E t \in Stacks : t < s /\ Objects(t)
                 \/ \E g \in matched \ todo : Blamed(s, g)
  BY <1>1, <1>3 DEF Walk, Recorded
<1>8. failed' <=> \/ \E t \in Stacks : t < s /\ Objects(t)'
                  \/ \E g \in matched \ todo' : Blamed(s, g)'
  <2>1. (\E t \in Stacks : t < s /\ Objects(t)) <=> \E t \in Stacks : t < s /\ Objects(t)'
    BY <1>6
  <2>2. (\E g \in matched \ todo' : Blamed(s, g)') <=>
          (\E g \in matched \ todo : Blamed(s, g)) \/ Blamed(s, f)'
    BY <1>3, <1>4, <1>5
  <2> QED
    BY <1>2, <1>7, <2>1, <2>2
<1>9. Control'
  <2>1. /\ input' = input /\ Begun /\ (Usable(s)' <=> Usable(s)) /\ Stacks' = Stacks
        /\ input.writable'
    BY <1>2, <1>3, Settled DEF Learns, Walk, Control, Sound
  <2> QED
    BY <1>3, <1>5, <2>1 DEF Control, Begun, Usable
<1>10. Kept'
  <2>1. profiles \cup DOMAIN captures \subseteq profiles' \cup DOMAIN captures'
    BY DumpType DEF Asserted
  <2> QED
    BY <2>1 DEF Walk, Kept, Learns
<1>11. s \in Nat /\ \A t \in Stacks : t \in Nat /\ (t < s + 1 <=> t < s \/ t = s)
  BY StacksAreNumbered DEF TypeInv
<1>12. CASE todo' # {}
  <2>1. Behind'
    BY <1>3, <1>6, <1>12, Settled DEF Behind
  <2>2. Gone'
    BY <1>3, <1>4, <1>5, <1>12, Settled DEF Gone
  <2>3. Recorded'
    BY <1>3, <1>8, <1>12, Settled DEF Recorded
  <2> QED
    BY <1>3, <1>9, <1>10, <2>1, <2>2, <2>3 DEF Walk, Running
<1>13. CASE todo' = {}
  <2>1. Duty(s) = matched /\ f \in matched
    BY <1>4, <1>5, <1>13
  <2>2. Through(s)'
    BY <1>4, <1>5, <1>13, <2>1, Settled DEF Through
  <2>3. Objects(s)' <=> \E g \in matched \ todo' : Blamed(s, g)'
    BY <1>13, <2>1, Settled DEF Objects
  <2>4. Behind'
    BY <1>3, <1>6, <1>11, <1>13, <2>2, Settled DEF Behind
  <2>5. Recorded'
    BY <1>3, <1>8, <1>11, <1>13, <2>3, Settled DEF Recorded
  <2>6. Gone'
    BY <1>3, <1>13 DEF Gone
  <2> QED
    BY <1>3, <1>9, <1>10, <2>4, <2>5, <2>6 DEF Walk, Running
<1> QED
  BY <1>12, <1>13

(* Every other step keeps the invariant, too.                               *)
LEMMA NextWalk == TypeInv /\ TypeInv' /\ Walk /\ [Next]_vars => Walk'
<1> SUFFICES ASSUME TypeInv, TypeInv', Walk, [Next]_vars PROVE Walk'
  OBVIOUS
<1> USE DEF Stop, Fatalf, Panic, Running
<1>1. Learns /\ Stacks' = Stacks
  BY NextLearns DEF Learns, Stacks
<1>2. ASSUME UNCHANGED <<input, profiles, captures>> PROVE Kept' /\ (Begun' <=> Begun)
  BY <1>2 DEF Walk, Kept, Begun
<1>3. PICK k \in Nat : Stacks = 1..k
  BY StacksAreNumbered DEF TypeInv
(* A step after which the loops are not running.                            *)
<1>4. ASSUME pc' \in {"main", "open", "exited"}, Control', Kept', exit' # 0 PROVE Walk'
  BY <1>4 DEF Walk, Behind, Gone, Recorded
<1>5. CASE Main
  <2>1. Control' /\ pc' \in {"open", "exited"} /\ exit' # 0
    BY <1>5 DEF Main, Walk, Control, scenario, folder, loop
  <2> QED
    BY <1>2, <1>4, <1>5, <2>1 DEF Main, scenario, folder
<1>6. CASE ReadExpectations
  <2>1. CASE pc' = "exited"
    <3>1. Control' /\ exit' # 0
      BY <1>6, <2>1 DEF ReadExpectations, Walk, Control, scenario, folder, loop
    <3> QED
      BY <1>2, <1>4, <1>6, <2>1, <3>1 DEF ReadExpectations, scenario, folder
  <2>2. CASE pc' = "stack"
    <3>1. stack' = 1 /\ ~failed' /\ exit' = Running
      BY <1>6, <2>2 DEF ReadExpectations, Walk, Control, loop
    <3>2. Control'
      BY <1>6, <2>2, <3>1 DEF ReadExpectations, Walk, Control, Begun, scenario, folder, loop
    <3>3. \A s \in Stacks' : ~(s < stack')
      BY <1>1, <1>3, <3>1
    <3>4. Kept'
      BY <1>2, <1>6 DEF ReadExpectations, scenario, folder
    <3> QED
      BY <2>2, <3>1, <3>2, <3>3, <3>4 DEF Walk, Behind, Gone, Recorded
  <2> QED
    BY <1>6, <2>1, <2>2 DEF ReadExpectations
<1>7. CASE StackAborts
  <2>1. Control' /\ pc' = "exited" /\ exit' # 0
    BY <1>7 DEF StackAborts, Walk, Control, scenario, folder, loop
  <2> QED
    BY <1>2, <1>4, <1>7, <2>1 DEF StackAborts, scenario, folder
<1>8. CASE StackHasNoFile
  <2>1. PICK s \in Stacks : s = stack
    BY <1>8 DEF StackHasNoFile
  <2>2. /\ pc = "stack" /\ pc' = "stack" /\ stack' = s + 1 /\ failed' /\ exit' = exit /\ exit = Running
        /\ Usable(s) /\ Duty(s) = {}
    BY <1>8, <2>1, DutyIsMatched DEF StackHasNoFile, NextStack, Walk, Control, Usable
  <2>3. Control' /\ Kept'
    BY <1>2, <1>8, <2>2 DEF StackHasNoFile, Walk, Control, scenario, folder
  <2>4. Through(s)' /\ Objects(s)'
    BY <1>1, <2>2, Settled DEF Through, Objects
  <2>5. \A t \in Stacks : t < s => Through(t)'
    BY <1>1, <2>1, <2>2, Settled DEF Walk, Behind
  <2>6. s \in Nat /\ \A t \in Stacks : t \in Nat /\ (t < s + 1 <=> t < s \/ t = s)
    BY <1>3
  <2>7. Behind' /\ Recorded'
    BY <1>1, <2>2, <2>4, <2>5, <2>6 DEF Behind, Recorded
  <2> QED
    BY <2>2, <2>3, <2>7 DEF Walk, Gone
<1>9. CASE StackHasFiles
  <2>1. PICK s \in Stacks : s = stack
    BY <1>9 DEF StackHasFiles
  <2>2. /\ pc = "stack" /\ pc' = "file" /\ stack' = s /\ failed' = failed /\ exit' = exit /\ exit = Running
        /\ Usable(s) /\ todo' = matched' /\ matched' = Matching(RegexOf(s)) /\ matched' # {}
        /\ Duty(s) \subseteq matched'
    BY <1>9, <2>1, DutyIsMatched DEF StackHasFiles, Walk, Control, Usable
  <2>3. Usable(s)'
    BY <1>1, <2>2, Settled
  <2>4. Control' /\ Kept'
    BY <1>1, <1>2, <1>9, <2>2, <2>3 DEF StackHasFiles, Walk, Control, scenario, folder
  <2>5. \A t \in Stacks : t < s => Through(t)' /\ (Objects(t)' <=> Objects(t))
    BY <1>1, <2>1, <2>2, Settled DEF Walk, Behind
  <2>6. Behind' /\ Recorded'
    BY <1>1, <2>1, <2>2, <2>5 DEF Walk, Behind, Recorded
  <2>7. Gone'
    BY <1>1, <2>2, Settled DEF Gone, Matching
  <2> QED
    BY <2>2, <2>4, <2>6, <2>7 DEF Walk
<1>10. CASE Finish
  <2>1. pc = "stack" /\ pc' = "exited" /\ exit' = (IF failed THEN 1 ELSE 0) /\ stack \notin Stacks
        /\ UNCHANGED <<scenario, folder, loop>>
    BY <1>10 DEF Finish
  <2>2. \A s \in Stacks : s < stack
    BY <1>3, <2>1 DEF TypeInv, TypeOK, ControlOK
  <2>3. Begun /\ (\A s \in Stacks : Through(s)) /\ (failed <=> \E s \in Stacks : Objects(s))
    BY <2>1, <2>2 DEF Walk, Control, Behind, Recorded
  <2>4. Begun' /\ \A s \in Stacks : Through(s)' /\ (Objects(s)' <=> Objects(s))
    BY <1>1, <1>2, <2>1, <2>3, Settled DEF scenario, folder
  <2>5. exit' = 0 => WellEnded(0)'
    BY <1>1, <2>1, <2>3, <2>4 DEF WellEnded
  <2>6. Control' /\ Kept'
    BY <1>2, <2>1 DEF Control, scenario, folder
  <2> QED
    BY <2>1, <2>5, <2>6 DEF Walk, Behind, Gone, Recorded
<1>11. ASSUME NEW f \in todo, AnalyzeFile(f) PROVE Walk'
  <2>1. CASE Asserted(f)
    BY <1>1, <1>11, <2>1, AssertedWalk DEF AnalyzeFile
  <2>2. CASE LoadFails(f) \/ CaptureFails(f)
    <3>1. Control' /\ pc' = "exited" /\ exit' # 0 /\ UNCHANGED <<input, folder>>
      BY <1>11, <2>2 DEF AnalyzeFile, LoadFails, CaptureFails, Control
    <3> QED
      BY <1>2, <1>4, <3>1 DEF folder
  <2>3. CASE AssertionAborts(f)
    <3>1. Control' /\ pc' = "exited" /\ exit' # 0 /\ input' = input
      BY <1>11, <2>3 DEF AnalyzeFile, AssertionAborts, Control
    <3>2. Kept'
      BY <2>3, <3>1, DumpType DEF AssertionAborts, Walk, Kept
    <3> QED
      BY <1>4, <3>1, <3>2
  <2> QED
    BY <1>11, <2>1, <2>2, <2>3 DEF AnalyzeFile
<1>12. CASE Rerun
  <2>1. Control' /\ pc' = "main" /\ exit' = Running
    BY <1>12 DEF Rerun, Control
  <2> QED
    BY <1>2, <1>4, <1>12, <2>1 DEF Rerun, scenario, folder
<1>13. CASE UNCHANGED vars
  <2>1. UNCHANGED <<scenario, profiles, captures, pc, stack, matched, todo, processed, failed, exit>>
    BY <1>13 DEF vars, folder, loop
  <2>2. Control' /\ Kept'
    BY <2>1 DEF Walk, Control, Kept, Begun, Usable, Stacks, scenario
  <2>3. \A s : /\ Through(s)' <=> Through(s)
               /\ Objects(s)' <=> Objects(s)
               /\ Duty(s)' = Duty(s) /\ RegexOf(s)' = RegexOf(s)
               /\ \A f : (Sound(s, f)' <=> Sound(s, f)) /\ (Blamed(s, f)' <=> Blamed(s, f))
    BY <2>1 DEF scenario, Through, Objects, Duty, RegexOf, Sound, Blamed, Forgiven, First, Usable
  <2>4. Behind' /\ Gone' /\ Recorded'
    BY <1>1, <2>1, <2>3 DEF Walk, Behind, Gone, Recorded
  <2>5. exit' = 0 => WellEnded(0)'
    BY <1>1, <2>1, <2>3 DEF Walk, WellEnded, Begun, scenario
  <2> QED
    BY <2>2, <2>4, <2>5 DEF Walk
<1> QED
  BY <1>5, <1>6, <1>7, <1>8, <1>9, <1>10, <1>11, <1>12, <1>13 DEF Next, Analyze

LEMMA WalkHolds == Spec => [](TypeInv /\ Walk)
BY InitTypeInv, NextTypeInv, InitWalk, NextWalk, PTL DEF Spec

(* An exit status of 0 is only given when every profile of every stack was  *)
(* read and matched, or was the first of its stack and may fail; also where *)
(* a pprof-regex takes dumps for profiles.                                  *)
THEOREM GreenIsEarned == Spec => []ZeroMeansVerified
<1>1. Walk => ZeroMeansVerified
  <2> SUFFICES ASSUME Walk, exit = 0, NEW s \in Stacks
               PROVE  Duty(s) # {} /\ \A f \in Duty(s) : Verified(s, f)
    BY DEF ZeroMeansVerified
  <2>1. Through(s) /\ ~Objects(s)
    BY DEF Walk, WellEnded
  <2> QED
    BY <2>1 DEF Through, Objects, Sound, Blamed, Verified
<1> QED
  BY <1>1, WalkHolds, PTL
-----------------------------------------------------------------------------
(* What a run has processed it has dumped, once; what its loops have gone   *)
(* through it has processed.                                                *)
Dumped ==
  /\ \A f \in input.files : dumps[f] <= 1 /\ (f \notin processed => dumps[f] = 0)
  /\ exit \in {Running, 0} =>
       /\ \A f \in processed : f \in input.files /\ dumps[f] = 1
       /\ \A s \in Stacks : exit = 0 \/ s < stack => Duty(s) \subseteq processed
  /\ pc = "file" => matched \ todo \subseteq processed

LEMMA DumpsOnce ==
  ASSUME TypeInv, Dumped, NEW f \in todo, Dump(f)
  PROVE  \A g \in input.files :
           /\ dumps'[g] <= 1 /\ (g \notin processed \cup {f} => dumps'[g] = 0)
           /\ g # f => dumps'[g] = dumps[g]
           /\ g = f /\ exit = Running => dumps'[g] = 1
<1>1. dumps \in [input.files -> Nat]
  BY DEF TypeInv, TypeOK, FolderOK
<1>2. CASE DumpDue(f)
  <2>1. \A g \in input.files : dumps'[g] = IF g = f THEN dumps[g] + 1 ELSE dumps[g]
    BY <1>1, <1>2 DEF Dump
  <2> QED
    BY <1>1, <1>2, <2>1 DEF Dumped, DumpDue
<1>3. CASE ~DumpDue(f)
  BY <1>3 DEF Dump, Dumped, DumpDue
<1> QED
  BY <1>2, <1>3

LEMMA AssertedDumped ==
  ASSUME TypeInv, Walk, Learns, Dumped, NEW f \in todo, AnalyzeFile(f), Asserted(f)
  PROVE  Dumped'
<1>1. PICK s \in Stacks : s = stack
  BY DEF AnalyzeFile, Current, Walk, Control
<1>2. f \in input.files /\ exit = Running /\ exit' = exit /\ pc = "file" /\ input' = input
      /\ processed' = processed \cup {f} /\ todo' = todo \ {f}
      /\ \/ todo' = {} /\ pc' = "stack" /\ stack' = s + 1
         \/ stack' = s /\ matched' = matched
  BY <1>1, AssertedFile DEF AnalyzeFile, Current, Asserted, Advance, NextStack, Walk, Control, Duty
<1>3. \A g \in input.files : dumps'[g] <= 1 /\ (g \notin processed' => dumps'[g] = 0)
  BY <1>2, DumpsOnce DEF Asserted
<1>4. \A g \in processed' : g \in input.files /\ dumps'[g] = 1
  <2>1. \A g \in processed : g \in input.files /\ dumps[g] = 1
    BY <1>2 DEF Dumped
  <2> QED
    BY <1>2, <2>1, DumpsOnce DEF Asserted
<1>5. Duty(s) \subseteq matched /\ todo \subseteq matched /\ matched \ todo \subseteq processed
  BY <1>1, <1>2 DEF Walk, Gone, Dumped, TypeInv, TypeOK, ControlOK
<1>6. \A t \in Stacks : t < stack' => Duty(t) \subseteq processed'
  <2>1. s \in Nat /\ \A t \in Stacks : t \in Nat /\ (t < s + 1 <=> t < s \/ t = s)
    BY StacksAreNumbered DEF TypeInv
  <2>2. \A t \in Stacks : t < s => Duty(t) \subseteq processed
    BY <1>1, <1>2 DEF Dumped
  <2>3. todo' = {} => Duty(s) \subseteq processed'
    BY <1>2, <1>5
  <2> QED
    BY <1>2, <2>1, <2>2, <2>3
<1>7. \A t \in Stacks' : t < stack' => Duty(t)' \subseteq processed'
  BY <1>6, Settled DEF Learns, Stacks
<1>8. pc' = "file" => matched' \ todo' \subseteq processed'
  BY <1>2, <1>5
<1> QED
  BY <1>2, <1>3, <1>4, <1>7, <1>8 DEF Dumped, Running

LEMMA NextDumped == TypeInv /\ TypeInv' /\ Walk /\ Dumped /\ [Next]_vars => Dumped'
<1> SUFFICES ASSUME TypeInv, TypeInv', Walk, Dumped, [Next]_vars PROVE Dumped'
  OBVIOUS
<1> USE DEF Stop, Fatalf, Panic, Running
<1>1. Learns /\ Stacks' = Stacks /\ input' = input /\ \A s \in Stacks : Duty(s)' = Duty(s)
  BY NextLearns, Settled DEF Learns, Stacks
<1>8. CASE Finish
  <2>1. exit = Running /\ pc' # "file" /\ UNCHANGED <<stack, processed, dumps>>
    BY <1>8 DEF Finish, loop, Walk, Control
  <2>2. \A s \in Stacks : s < stack
    BY <1>8, StacksAreNumbered DEF Finish, TypeInv, TypeOK, ControlOK
  <2> QED
    BY <1>1, <2>1, <2>2 DEF Dumped
<1>2. CASE Main \/ ReadExpectations \/ StackAborts
  <2>1. exit = Running /\ exit' # 0 /\ pc' # "file" /\ UNCHANGED <<stack, processed, dumps>>
    BY <1>2 DEF Main, ReadExpectations, StackAborts, loop, Walk, Control
  <2> QED
    BY <1>1, <2>1 DEF Dumped
<1>3. CASE StackHasNoFile
  <2>1. PICK s \in Stacks : s = stack
    BY <1>3 DEF StackHasNoFile
  <2>2. exit = Running /\ exit' = exit /\ pc' = "stack" /\ stack' = s + 1 /\ Duty(s) = {}
        /\ UNCHANGED <<processed, dumps>>
    BY <1>3, <2>1, DutyIsMatched DEF StackHasNoFile, NextStack, Walk, Control
  <2>3. s \in Nat /\ \A t \in Stacks : t \in Nat /\ (t < s + 1 <=> t < s \/ t = s)
    BY StacksAreNumbered DEF TypeInv
  <2> QED
    BY <1>1, <2>1, <2>2, <2>3 DEF Dumped
<1>4. CASE StackHasFiles
  <2>1. todo' = matched' /\ UNCHANGED <<exit, stack, processed, dumps>>
    BY <1>4 DEF StackHasFiles
  <2> QED
    BY <1>1, <2>1 DEF Dumped
<1>5. ASSUME NEW f \in todo, AnalyzeFile(f) PROVE Dumped'
  <2>1. CASE Asserted(f)
    BY <1>1, <1>5, <2>1, AssertedDumped
  <2>2. CASE LoadFails(f) \/ CaptureFails(f)
    BY <1>1, <1>5, <2>2 DEF AnalyzeFile, LoadFails, CaptureFails, Dumped
  <2>3. CASE AssertionAborts(f)
    BY <1>1, <1>5, <2>3, DumpsOnce DEF AnalyzeFile, AssertionAborts, Dumped
  <2> QED
    BY <1>5, <2>1, <2>2, <2>3 DEF AnalyzeFile
<1>6. CASE Rerun
  <2>1. /\ dumps' = [f \in input.files |-> 0] /\ processed' = {} /\ stack' = 1 /\ pc' = "main"
        /\ exit' = Running
    BY <1>6 DEF Rerun
  <2>2. \A s \in Stacks' : ~(s < stack')
    BY <1>1, <2>1, StacksAreNumbered DEF TypeInv
  <2> QED
    BY <1>1, <2>1, <2>2 DEF Dumped
<1>7. CASE UNCHANGED vars
  <2>1. UNCHANGED <<pc, stack, matched, todo, processed, exit, dumps>>
    BY <1>7 DEF vars, loop
  <2> QED
    BY <1>1, <2>1 DEF Dumped
<1> QED
  BY <1>8, <1>2, <1>3, <1>4, <1>5, <1>6, <1>7 DEF Next, Analyze

(* No run dumps a profile twice, and a green one has dumped each profile it *)
(* looked at, also where a pprof-regex takes dumps for profiles.            *)
THEOREM OneDumpPerProfile == Spec => []DumpedOnce
<1>1. Init => Dumped
  <2> SUFFICES ASSUME Init PROVE Dumped
    OBVIOUS
  <2>1. \A s \in Stacks : ~(s < stack)
    BY InitTypeInv, StacksAreNumbered DEF TypeInv, Init
  <2> QED
    BY <2>1 DEF Init, Dumped, Running
<1>2. TypeInv /\ Walk /\ Dumped => DumpedOnce
  <2> SUFFICES ASSUME TypeInv, Walk, Dumped PROVE DumpedOnce
    OBVIOUS
  <2>1. ASSUME exit = 0, NEW s \in Stacks, NEW f \in Duty(s) PROVE dumps[f] = 1
    <3>1. Sound(s, f) /\ f \in input.files
      BY <2>1 DEF Walk, WellEnded, Through, Duty
    <3> QED
      BY <2>1, <3>1 DEF Dumped
  <2> QED
    BY <2>1 DEF Dumped, DumpedOnce
<1> QED
  BY <1>1, <1>2, NextDumped, WalkHolds, InitTypeInv, NextTypeInv, PTL DEF Spec
-----------------------------------------------------------------------------
(* When names keep dumps and profiles apart, the folder is the profiles and *)
(* their dumps, and only profiles are matched.                              *)
Apart ==
  /\ profiles = input.files
  /\ \A n \in DOMAIN captures : \E f \in input.files : n = CapturePath(f)
  /\ matched \subseteq input.files

(* No pprof-regex of an analysis takes a dump.                              *)
LEMMA DumpsAreNotAccepted ==
  ASSUME NamesApart, TypeOK, NEW f \in input.files, NEW rx
  PROVE  CapturePath(f) \notin input.files /\ ~Accepts(rx, CapturePath(f))
<1>1. input.files \in Folders /\ f \in Name
  BY InputType
<1>2. CapturePath(f) \notin input.files /\ \A p \in Pattern : CapturePath(f) \notin Accepted[p]
  BY <1>1 DEF NamesApart
<1>3. ~DefaultAccepts(CapturePath(f))
  BY <1>1, CapturePathIsName DEF DefaultAccepts
<1> QED
  BY <1>2, <1>3 DEF Accepts

LEMMA MatchingIsDuty ==
  ASSUME NamesApart, TypeOK, Apart, NEW s
  PROVE  Matching(RegexOf(s)) = Duty(s)
<1>1. \A n \in DOMAIN captures : ~Accepts(RegexOf(s), n)
  BY DumpsAreNotAccepted DEF Apart
<1> QED
  BY <1>1 DEF Apart, Matching, Duty

(* The current file is a profile, and its dump replaces no profile.         *)
LEMMA DumpApart ==
  ASSUME NamesApart, TypeOK, Apart, NEW f \in todo, Dump(f), input' = input
  PROVE  /\ f \in input.files /\ ~IsDump(f)
         /\ profiles' = input.files
         /\ \A n \in DOMAIN captures' : \E g \in input.files : n = CapturePath(g)
<1>1. f \in input.files
  BY DEF TypeOK, ControlOK, Apart
<1>2. ~IsDump(f)
  BY <1>1, DumpsAreNotAccepted DEF IsDump, Apart
<1>3. CapturePath(f) \notin input.files
  BY <1>1, DumpsAreNotAccepted
<1>4. CASE ~DumpDue(f)
  BY <1>1, <1>2, <1>4 DEF Dump, folder, Apart
<1>5. CASE DumpDue(f)
  <2>1. DOMAIN captures' = DOMAIN captures \cup {CapturePath(f)}
        /\ profiles' = profiles \ {CapturePath(f)}
    BY <1>5 DEF Dump
  <2> QED
    BY <1>1, <1>2, <1>3, <2>1 DEF Apart
<1> QED
  BY <1>4, <1>5

LEMMA NextApart == NamesApart /\ TypeOK /\ Apart /\ [Next]_vars => Apart'
<1> SUFFICES ASSUME NamesApart, TypeOK, Apart, [Next]_vars PROVE Apart'
  OBVIOUS
<1> USE DEF scenario, folder, loop
<1>1. CASE Main \/ ReadExpectations \/ StackAborts \/ StackHasNoFile \/ Finish
  BY <1>1 DEF Main, ReadExpectations, StackAborts, StackHasNoFile, Finish, Apart
<1>2. CASE StackHasFiles
  <2>1. matched' = Duty(stack)
    BY <1>2, MatchingIsDuty DEF StackHasFiles
  <2> QED
    BY <1>2, <2>1 DEF StackHasFiles, Apart, Duty
<1>3. ASSUME NEW f \in todo, AnalyzeFile(f) PROVE Apart'
  <2>1. CASE LoadFails(f) \/ CaptureFails(f)
    BY <1>3, <2>1 DEF AnalyzeFile, LoadFails, CaptureFails, Apart
  <2>2. CASE AssertionAborts(f)
    BY <1>3, <2>2, DumpApart DEF AnalyzeFile, AssertionAborts, Apart
  <2>3. CASE Asserted(f)
    <3>1. matched' \subseteq matched
      BY <2>3 DEF Asserted, Advance
    <3> QED
      BY <1>3, <2>3, <3>1, DumpApart DEF AnalyzeFile, Asserted, Apart
  <2> QED
    BY <1>3, <2>1, <2>2, <2>3 DEF AnalyzeFile
<1>4. CASE Rerun
  BY <1>4 DEF Rerun, Apart
<1>5. CASE UNCHANGED vars
  BY <1>5 DEF vars, Apart
<1> QED
  BY <1>1, <1>2, <1>3, <1>4, <1>5 DEF Next, Analyze

LEMMA ApartHolds == NamesApart => (Spec => []Apart)
<1> SUFFICES ASSUME NamesApart PROVE Spec => []Apart
  OBVIOUS
<1>1. Init => Apart
  BY DEF Init, Apart
<1> QED
  BY <1>1, NextApart, TypeCorrect, PTL DEF Spec

(* No run over the folder, however often repeated, loses a profile.         *)
THEOREM ProfilesStayIntact == NamesApart => (Spec => []ProfilesIntact)
<1> SUFFICES ASSUME NamesApart PROVE Spec => []ProfilesIntact
  OBVIOUS
<1>1. Apart => ProfilesIntact
  BY DEF Apart, ProfilesIntact
<1> QED
  BY <1>1, ApartHolds, PTL

(* No walk takes a dump for a profile.                                      *)
THEOREM DumpsAreNeverMatched == NamesApart => (Spec => []OnlyProfilesMatched)
<1> SUFFICES ASSUME NamesApart PROVE Spec => []OnlyProfilesMatched
  OBVIOUS
<1>1. Apart => OnlyProfilesMatched
  BY DEF Apart, OnlyProfilesMatched
<1> QED
  BY <1>1, ApartHolds, PTL
-----------------------------------------------------------------------------
(* What ends a run is on record in the scenario: which status a run earns   *)
(* that comes to an end here or there.                                      *)
EndsAt(s, e) ==
  /\ Begun /\ \A t \in Stacks : t < s => Through(t)
  /\ \/ e = 2 /\ input.own[s] = Invalid
     \/ e = 1 /\ input.own[s] # Invalid /\ (~input.dir \/ \E f \in Duty(s) : Stuck(s, f))

EndsEarly(e) ==
  \/ e = 2 /\ (~input.flags \/ (input.json /\ input.top = Invalid))
  \/ e = 1 /\ input.flags /\ ~input.json

Earned(e) == EndsEarly(e) \/ (\E s \in Stacks : EndsAt(s, e)) \/ WellEnded(e)

(* No two statuses are earned by one scenario.                              *)
LEMMA OneIsEarned == ASSUME TypeOK, NEW d, NEW e, Earned(d), Earned(e) PROVE d = e
<1>1. ASSUME NEW s \in Stacks, NEW c, EndsAt(s, c) PROVE ~Through(s)
  BY <1>1 DEF EndsAt, Through, Usable, Sound, Stuck
<1>2. CASE EndsEarly(d) \/ EndsEarly(e)
  BY <1>2 DEF EndsEarly, Earned, EndsAt, WellEnded, Begun
<1>3. ASSUME NEW s \in Stacks, NEW t \in Stacks, EndsAt(s, d), EndsAt(t, e) PROVE d = e
  <2>1. ~(s < t) /\ ~(t < s)
    BY <1>1, <1>3 DEF EndsAt
  <2>2. s = t
    BY <2>1, StacksAreNumbered
  <2> QED
    BY <1>3, <2>2 DEF EndsAt
<1>4. CASE WellEnded(d) /\ WellEnded(e)
  BY <1>4 DEF WellEnded
<1>5. CASE (WellEnded(d) /\ \E s \in Stacks : EndsAt(s, e)) \/ (WellEnded(e) /\ \E s \in Stacks : EndsAt(s, d))
  BY <1>1, <1>5 DEF WellEnded
<1> QED
  BY <1>2, <1>3, <1>4, <1>5 DEF Earned

(* Nothing that is learnt later makes a difference.                         *)
LEMMA EarnedStays == ASSUME Learns, NEW e, Earned(e) PROVE Earned(e)'
<1>1. Stacks' = Stacks /\ input' = input /\ (Begun' <=> Begun)
  BY DEF Learns, Stacks, Begun
<1>2. CASE EndsEarly(e)
  BY <1>1, <1>2 DEF EndsEarly, Earned
<1>3. ASSUME NEW s \in Stacks, EndsAt(s, e) PROVE EndsAt(s, e)'
  <2>1. \A t \in Stacks : t < s => Through(t)'
    BY <1>3, Settled DEF EndsAt
  <2>2. (\E f \in Duty(s) : Stuck(s, f)) => (\E f \in Duty(s) : Stuck(s, f))'
    BY Settled
  <2> QED
    BY <1>1, <1>3, <2>1, <2>2 DEF EndsAt
<1>4. CASE WellEnded(e)
  <2>1. \A s \in Stacks : Through(s)' /\ (Objects(s)' <=> Objects(s))
    BY <1>4, Settled DEF WellEnded
  <2> QED
    BY <1>1, <1>4, <2>1 DEF WellEnded, Earned
<1> QED
  BY <1>1, <1>2, <1>3, <1>4 DEF Earned

(* Names kept apart, a run ends with what it has earned.                    *)
Settling ==
  /\ exit # Running => Earned(exit)
  /\ lastExit # Running => Earned(lastExit)

LEMMA AnalyzeFileEarns ==
  ASSUME NamesApart, TypeInv, Walk, Apart, Learns, NEW f \in todo, AnalyzeFile(f),
         NEW e, e = exit', e # Running
  PROVE  Earned(e)'
<1>1. PICK s \in Stacks : s = stack
  BY DEF AnalyzeFile, Current, Walk, Control
<1>2. /\ pc = "file" /\ f \in Duty(s) /\ f \in input.files /\ ~IsDump(f) /\ Begun /\ Usable(s)
      /\ \A t \in Stacks : t < s => Through(t)
  <2>1. f \in input.files /\ ~IsDump(f)
    BY DumpsAreNotAccepted DEF Apart, IsDump, TypeInv, TypeOK, ControlOK
  <2> QED
    BY <1>1, <2>1, CurrentFile DEF AnalyzeFile, Current, Walk, Control, Behind, Gone, Duty
<1>3. CASE Asserted(f)
  BY <1>2, <1>3 DEF Asserted, Walk, Control
<1>4. CASE LoadFails(f) \/ CaptureFails(f) \/ AssertionAborts(f)
  <2>1. e = 1 /\ input' = input
    BY <1>4 DEF LoadFails, CaptureFails, AssertionAborts, Fatalf, Stop, Learns
  <2>2. Stuck(s, f)'
    <3>1. CASE LoadFails(f)
      BY <1>2, <3>1 DEF LoadFails, Reads, Stuck, TypeInv, TypeOK, ScenarioOK
    <3>2. CASE CaptureFails(f)
      BY <2>1, <3>2 DEF CaptureFails, Dumpable, Stuck
    <3>3. CASE AssertionAborts(f)
      BY <1>1, <1>2, <3>3 DEF AssertionAborts, Shows, Stuck, TypeInv, TypeOK, ScenarioOK
    <3> QED
      BY <1>4, <3>1, <3>2, <3>3
  <2>3. Begun' /\ Stacks' = Stacks /\ \A t \in Stacks : t < s => Through(t)'
    BY <1>2, <2>1, Settled DEF Begun, Stacks
  <2>4. f \in Duty(s)' /\ input'.own[s] # Invalid
    BY <1>2, <2>1, Settled DEF Usable
  <2>5. EndsAt(s, 1)'
    BY <2>2, <2>3, <2>4 DEF EndsAt
  <2> QED
    BY <2>1, <2>3, <2>5 DEF Earned
<1> QED
  BY <1>3, <1>4 DEF AnalyzeFile

LEMMA NextSettling ==
  NamesApart /\ TypeInv /\ Walk /\ Walk' /\ Apart /\ Settling /\ [Next]_vars => Settling'
<1> SUFFICES ASSUME NamesApart, TypeInv, Walk, Walk', Apart, Settling, [Next]_vars PROVE Settling'
  OBVIOUS
<1>1. Learns /\ input' = input /\ Stacks' = Stacks /\ (Begun' <=> Begun)
  BY NextLearns DEF Learns, Stacks, Begun
<1>2. ASSUME NEW e, Earned(e) PROVE Earned(e)'
  BY <1>1, <1>2, EarnedStays
<1>0. PICK e : e = exit'
  OBVIOUS
<1>3. ASSUME e = exit \/ e = Running \/ Earned(e)',
             lastExit' = lastExit \/ lastExit' = exit
      PROVE  Settling'
  <2>1. e # Running => Earned(e)'
    BY <1>2, <1>3 DEF Settling
  <2>2. lastExit' # Running => \E d : d = lastExit' /\ Earned(d)'
    BY <1>2, <1>3 DEF Settling
  <2> QED
    BY <1>0, <2>1, <2>2 DEF Settling
<1>4. CASE Main
  <2>1. e = exit \/ EndsEarly(e)'
    BY <1>1, <1>0, <1>4 DEF Main, Stop, EndsEarly
  <2> QED
    BY <1>3, <1>4, <2>1 DEF Main, Earned
<1>5. CASE ReadExpectations
  <2>1. e = exit \/ EndsEarly(e)'
    BY <1>1, <1>0, <1>5 DEF ReadExpectations, Fatalf, Panic, Stop, EndsEarly, Walk, Control
  <2> QED
    BY <1>3, <1>5, <2>1 DEF ReadExpectations, Earned
<1>6. CASE StackAborts
  <2>1. PICK s \in Stacks : s = stack
    BY <1>6 DEF StackAborts
  <2>2. Begun /\ \A t \in Stacks : t < s => Through(t)
    BY <1>6, <2>1 DEF StackAborts, Walk, Control, Behind
  <2>3. \A t \in Stacks : t < s => Through(t)'
    BY <1>1, <2>2, Settled
  <2>4. EndsAt(s, e)'
    BY <1>1, <1>0, <1>6, <2>1, <2>2, <2>3 DEF StackAborts, Fatalf, Panic, Stop, EndsAt
  <2> QED
    BY <1>1, <1>3, <1>6, <2>4 DEF StackAborts, Earned
<1>7. CASE StackHasNoFile \/ StackHasFiles
  BY <1>0, <1>3, <1>7 DEF StackHasNoFile, StackHasFiles
<1>8. CASE Finish
  <2>1. pc = "stack" /\ exit' = (IF failed THEN 1 ELSE 0) /\ stack \notin Stacks
        /\ UNCHANGED <<scenario, lastExit>>
    BY <1>8 DEF Finish, Stop
  <2>2. \A s \in Stacks : s < stack
    BY <2>1, StacksAreNumbered DEF TypeInv, TypeOK, ControlOK
  <2>3. WellEnded(e)
    BY <1>0, <2>1, <2>2 DEF Walk, Control, Behind, Recorded, WellEnded
  <2> QED
    BY <1>2, <1>3, <2>1, <2>3 DEF Earned
<1>9. ASSUME NEW f \in todo, AnalyzeFile(f) PROVE Settling'
  BY <1>1, <1>0, <1>3, <1>9, AnalyzeFileEarns DEF AnalyzeFile
<1>10. CASE Rerun
  BY <1>0, <1>3, <1>10 DEF Rerun
<1>11. CASE UNCHANGED vars
  BY <1>0, <1>3, <1>11 DEF vars
<1> QED
  BY <1>4, <1>5, <1>6, <1>7, <1>8, <1>9, <1>10, <1>11 DEF Next, Analyze

LEMMA SettlingHolds == NamesApart => (Spec => []Settling)
<1> SUFFICES ASSUME NamesApart PROVE Spec => []Settling
  OBVIOUS
<1>1. Init => Settling
  BY DEF Init, Settling
<1> QED
  BY <1>1, NextSettling, WalkHolds, ApartHolds, PTL DEF Spec

(* Status 1 always has a reason a user can act on.                          *)
THEOREM RedHasAReason == NamesApart => (Spec => []OneHasAReason)
<1> SUFFICES ASSUME NamesApart PROVE Spec => []OneHasAReason
  OBVIOUS
<1>1. Settling => OneHasAReason
  <2> SUFFICES ASSUME Earned(1), exit = 1 PROVE OneHasAReason
    BY DEF Settling, OneHasAReason, Running
  <2>1. CASE EndsEarly(1)
    BY <2>1 DEF EndsEarly, OneHasAReason
  <2>2. ASSUME NEW s \in Stacks, EndsAt(s, 1) PROVE OneHasAReason
    BY <2>2 DEF EndsAt, Stuck, OneHasAReason
  <2>3. CASE WellEnded(1)
    <3>1. PICK s \in Stacks : Objects(s)
      BY <2>3 DEF WellEnded
    <3> QED
      BY <3>1 DEF Objects, Blamed, OneHasAReason
  <2> QED
    BY <2>1, <2>2, <2>3 DEF Earned
<1> QED
  BY <1>1, SettlingHolds, PTL

(* However far a run over the folder gets, another one that ends agrees.    *)
THEOREM RerunsAgree == NamesApart => (Spec => []RerunAgrees)
<1> SUFFICES ASSUME NamesApart PROVE Spec => []RerunAgrees
  OBVIOUS
<1>1. TypeInv /\ Settling => RerunAgrees
  BY OneIsEarned DEF TypeInv, Settling, RerunAgrees
<1> QED
  BY <1>1, SettlingHolds, InitTypeInv, NextTypeInv, PTL DEF Spec
-----------------------------------------------------------------------------
(* The duties: a stack and a profile it speaks about, or a stack without.   *)
LEMMA DutiesAre ==
  ASSUME TypeInv
  PROVE  /\ \A s \in Stacks : Duty(s) = {} => <<s, NoFile>> \in DutySet
         /\ \A s \in Stacks : \A f \in Duty(s) : <<s, f>> \in DutySet /\ f # NoFile
         /\ \A d \in DutySet : /\ d = <<d[1], d[2]>> /\ d[1] \in Stacks
                               /\ \/ d[2] = NoFile /\ Duty(d[1]) = {}
                                  \/ d[2] \in Duty(d[1]) /\ d[2] # NoFile
<1>1. \A s : NoFile \notin Duty(s)
  BY InputType, NoFileAssumption DEF TypeInv, Duty
<1> QED
  BY <1>1 DEF DutySet

LEMMA StatusIs == StatusOf[Running] = "running" /\ StatusOf[0] = "green"
                  /\ StatusOf[1] = "red" /\ StatusOf[2] = "broken"
BY DEF StatusOf, Running

LEMMA DutiesStay ==
  ASSUME TypeInv, Learns
  PROVE  DutySet' = DutySet /\ dutyKinds' = dutyKinds
<1>1. Stacks' = Stacks /\ (\A s : Duty(s)' = Duty(s)) /\ input' = input
  BY DEF Learns, Stacks, Duty, RegexOf
<1>2. DutySet' = DutySet
  BY <1>1 DEF DutySet
<1>3. \A s, f : KindOf(s, f)' = KindOf(s, f)
  BY <1>1 DEF KindOf, First
<1> QED
  BY <1>2, <1>3 DEF dutyKinds

(* What is judged is judged for good, until the next run.                   *)
LEMMA JudgedIsSound ==
  ASSUME TypeInv, Walk, pc \in {"stack", "file"}, NEW s \in Stacks, NEW f \in Duty(s), Judged(s, f)
  PROVE  Sound(s, f)
<1>1. CASE s < stack
  BY <1>1 DEF Walk, Behind, Through
<1>2. CASE ~(s < stack)
  <2>1. s = stack /\ f \in matched \ todo
    BY <1>2 DEF Judged
  <2>2. pc = "file"
    BY <2>1 DEF Walk, Control
  <2> QED
    BY <2>1, <2>2 DEF Walk, Gone
<1> QED
  BY <1>1, <1>2

LEMMA VerdictStays ==
  ASSUME TypeInv, Walk, Learns, NEW d \in DutySet, Judged(d[1], d[2])' <=> Judged(d[1], d[2]),
         pc \in {"stack", "file"} \/ UNCHANGED scenario
  PROVE  VerdictOn(d[1], d[2])' = VerdictOn(d[1], d[2])
<1>1. PICK s, f : s \in Stacks /\ d[1] = s /\ d[2] = f /\ (f = NoFile \/ f \in Duty(s))
  BY DutiesAre
<1>2. ASSUME f # NoFile, Judged(s, f)
      PROVE  content'[s][f] = content[s][f] /\ (Forgiven(s, f)' <=> Forgiven(s, f))
  <2>1. First(s, f)' <=> First(s, f)
    BY <1>1, Settled DEF First
  <2>2. content'[s][f] = content[s][f]
    <3>1. CASE UNCHANGED scenario
      BY <3>1 DEF scenario
    <3>2. CASE pc \in {"stack", "file"}
      <4>1. Sound(s, f) /\ f \in input.files
        BY <1>1, <1>2, <3>2, JudgedIsSound DEF Duty
      <4> QED
        BY <1>1, <4>1 DEF Sound, Learns, Unknown
    <3> QED
      BY <3>1, <3>2
  <2> QED
    BY <2>1, <2>2 DEF Forgiven, Learns
<1>3. Judged(s, f)' <=> Judged(s, f)
  BY <1>1
<1>4. VerdictOn(s, f)' = VerdictOn(s, f)
  BY <1>2, <1>3 DEF VerdictOn
<1> QED
  BY <1>1, <1>4

(* One duty is judged, the others are left as they are.                     *)
LEMMA JudgeStep ==
  ASSUME TypeInv, Walk, Learns, pc \in {"stack", "file"}, exit' = exit,
         NEW d \in DutySet, NEW v \in {"ok", "forgiven", "bad"},
         ~Judged(d[1], d[2]), VerdictOn(d[1], d[2])' = v,
         v = "forgiven" => KindOf(d[1], d[2]) = "forgivable",
         KindOf(d[1], d[2]) = "hopeless" => v = "bad",
         \A e \in DutySet \ {d} : Judged(e[1], e[2])' <=> Judged(e[1], e[2])
  PROVE  Contract!Next
<1>1. \A e \in DutySet \ {d} : VerdictOn(e[1], e[2])' = VerdictOn(e[1], e[2])
  BY VerdictStays
<1>2. dutyVerdicts' = [dutyVerdicts EXCEPT ![d] = v]
  BY <1>1, DutiesStay DEF dutyVerdicts
<1>3. dutyVerdicts[d] = "open" /\ dutyKinds[d] = KindOf(d[1], d[2]) /\ d \in DOMAIN dutyKinds
  BY DEF dutyVerdicts, dutyKinds, VerdictOn
<1>4. StatusOf[exit] = "running" /\ StatusOf[exit]' = StatusOf[exit]
  <2>1. exit = Running
    BY DEF Walk, Control
  <2>2. StatusOf' = StatusOf
    BY DEF StatusOf
  <2> QED
    BY <2>1, <2>2, StatusIs
<1>5. Contract!Judge(d, v)
  BY <1>2, <1>3, <1>4, DutiesStay DEF Contract!Judge
<1> QED
  BY <1>3, <1>5 DEF Contract!Next, Contract!Duties

LEMMA NoFileAssesses ==
  ASSUME TypeInv, Walk, Learns, StackHasNoFile PROVE Contract!Next
<1>1. PICK s \in Stacks : s = stack
  BY DEF StackHasNoFile
<1>2. pc = "stack" /\ exit' = exit /\ Duty(s) = {} /\ stack' = s + 1 /\ matched = {} /\ matched' = {}
  BY <1>1, DutyIsMatched DEF StackHasNoFile, NextStack, Walk, Control
<1>3. PICK d \in DutySet : d = <<s, NoFile>> /\ d[1] = s /\ d[2] = NoFile
  BY <1>2, DutiesAre
<1>4. s \in Nat /\ \A t \in Stacks : t \in Nat /\ (t < s + 1 <=> t < s \/ t = s)
  BY StacksAreNumbered DEF TypeInv
<1>5. ~Judged(s, NoFile) /\ Judged(s, NoFile)'
  BY <1>1, <1>2, <1>4 DEF Judged
<1>6. KindOf(s, NoFile) = "hopeless" /\ VerdictOn(s, NoFile)' = "bad"
  BY <1>5 DEF KindOf, VerdictOn
<1>7. \A e \in DutySet \ {d} : Judged(e[1], e[2])' <=> Judged(e[1], e[2])
  <2> SUFFICES ASSUME NEW e \in DutySet \ {d} PROVE Judged(e[1], e[2])' <=> Judged(e[1], e[2])
    OBVIOUS
  <2>1. e[1] \in Stacks /\ e[1] # s
    BY <1>2, <1>3, DutiesAre
  <2> QED
    BY <1>1, <1>2, <1>4, <2>1 DEF Judged
<1> QED
  BY <1>2, <1>3, <1>5, <1>6, <1>7, JudgeStep

LEMMA AssertedAssesses ==
  ASSUME TypeInv, Walk, Learns, NEW f \in todo, Current(f), Asserted(f) PROVE Contract!Next
<1>1. PICK s \in Stacks : s = stack
  BY DEF Current, Walk, Control
<1>2. f \in Duty(s) /\ Sound(s, f)'
  BY <1>1, AssertedFile
<1>3. /\ pc = "file" /\ exit' = exit /\ todo' = todo \ {f}
      /\ \/ todo' = {} /\ stack' = s + 1 /\ matched' = {}
         \/ todo' # {} /\ stack' = s /\ matched' = matched
  BY <1>1 DEF Current, Asserted, Advance, NextStack
<1>4. Duty(s) \subseteq matched /\ todo \subseteq matched
  BY <1>1, <1>3 DEF Walk, Gone, TypeInv, TypeOK, ControlOK
<1>5. PICK d \in DutySet : d = <<s, f>> /\ d[1] = s /\ d[2] = f /\ f # NoFile
  BY <1>2, DutiesAre
<1>6. s \in Nat /\ \A t \in Stacks : t \in Nat /\ (t < s + 1 <=> t < s \/ t = s) /\ ~(t < t)
  BY StacksAreNumbered DEF TypeInv
<1>7. ~Judged(s, f) /\ Judged(s, f)'
  BY <1>1, <1>3, <1>4, <1>6 DEF Judged
<1>8. PICK v \in {"ok", "forgiven", "bad"} :
        VerdictOn(s, f)' = v /\ (v = "forgiven" => Forgiven(s, f)')
  BY <1>5, <1>7 DEF VerdictOn
<1>9. KindOf(s, f) # "hopeless" /\ (v = "forgiven" => KindOf(s, f) = "forgivable")
  <2>1. First(s, f)' <=> First(s, f)
    BY Settled DEF First
  <2> QED
    BY <1>5, <1>8, <2>1 DEF KindOf, Forgiven, Learns
<1>10. \A e \in DutySet \ {d} : Judged(e[1], e[2])' <=> Judged(e[1], e[2])
  <2> SUFFICES ASSUME NEW t \in Stacks, NEW g, <<t, g>> # <<s, f>>, t = s => g \in Duty(s)
               PROVE  Judged(t, g)' <=> Judged(t, g)
    BY <1>2, <1>5, DutiesAre
  <2>1. CASE t # s
    BY <1>1, <1>3, <1>6, <2>1 DEF Judged
  <2>2. CASE t = s
    BY <1>1, <1>3, <1>4, <1>6, <2>2 DEF Judged
  <2> QED
    BY <2>1, <2>2
<1> QED
  BY <1>3, <1>5, <1>7, <1>8, <1>9, <1>10, JudgeStep

LEMMA FinishAssesses ==
  ASSUME TypeInv, Walk, Learns, Finish PROVE Contract!Next
<1>1. /\ pc = "stack" /\ exit = Running /\ exit' = (IF failed THEN 1 ELSE 0)
      /\ stack \notin Stacks /\ UNCHANGED <<scenario, loop>>
  BY DEF Finish, Stop, Walk, Control
<1>2. \A s \in Stacks : s < stack
  BY <1>1, StacksAreNumbered DEF TypeInv, TypeOK, ControlOK
<1>3. (\A s \in Stacks : Through(s)) /\ (failed <=> \E s \in Stacks : Objects(s))
  BY <1>1, <1>2 DEF Walk, Behind, Recorded
<1>4. \A d \in DutySet : /\ dutyVerdicts[d] # "open"
                         /\ dutyVerdicts[d] = "bad" <=> d[2] = NoFile \/ Blamed(d[1], d[2])
  <2> SUFFICES ASSUME NEW d \in DutySet
               PROVE  /\ VerdictOn(d[1], d[2]) # "open"
                      /\ VerdictOn(d[1], d[2]) = "bad" <=> d[2] = NoFile \/ Blamed(d[1], d[2])
    BY DEF dutyVerdicts
  <2>1. d[1] \in Stacks /\ Judged(d[1], d[2])
        /\ (d[2] = NoFile \/ (d[2] # NoFile /\ Sound(d[1], d[2])))
    BY <1>2, <1>3, DutiesAre DEF Judged, Through
  <2> QED
    BY <2>1 DEF VerdictOn, Blamed, Sound, Forgiven
<1>5. (\E d \in DutySet : dutyVerdicts[d] = "bad") <=> failed
  <2>1. ASSUME NEW d \in DutySet, dutyVerdicts[d] = "bad" PROVE failed
    <3>1. d[1] \in Stacks /\ Objects(d[1])
      BY <1>4, <2>1, DutiesAre DEF Objects
    <3> QED
      BY <1>3, <3>1
  <2>2. ASSUME NEW s \in Stacks, Objects(s) PROVE \E d \in DutySet : dutyVerdicts[d] = "bad"
    <3>1. PICK d \in DutySet : d[2] = NoFile \/ Blamed(d[1], d[2])
      <4>1. CASE Duty(s) = {}
        BY <4>1, DutiesAre
      <4>2. CASE Duty(s) # {}
        <5>1. PICK f \in Duty(s) : Blamed(s, f)
          BY <2>2, <4>2 DEF Objects
        <5>2. <<s, f>> \in DutySet /\ <<s, f>>[1] = s /\ <<s, f>>[2] = f
          BY DutiesAre
        <5> QED
          BY <5>1, <5>2
      <4> QED
        BY <4>1, <4>2
    <3> QED
      BY <1>4, <3>1
  <2> QED
    BY <1>3, <2>1, <2>2
<1>6. dutyVerdicts' = dutyVerdicts /\ dutyKinds' = dutyKinds
  <2>1. \A d \in DutySet : VerdictOn(d[1], d[2])' = VerdictOn(d[1], d[2])
    BY <1>1, VerdictStays DEF Judged, loop
  <2> QED
    BY <2>1, DutiesStay DEF dutyVerdicts
<1>7. StatusOf[exit] = "running" /\ StatusOf[exit]' = IF failed THEN "red" ELSE "green"
  <2>1. StatusOf' = StatusOf
    BY DEF StatusOf
  <2> QED
    BY <1>1, <2>1, StatusIs
<1>8. DOMAIN dutyKinds = DutySet
  BY DEF dutyKinds
<1>9. Contract!Conclude
  BY <1>4, <1>5, <1>6, <1>7, <1>8 DEF Contract!Conclude, Contract!Duties
<1> QED
  BY <1>9 DEF Contract!Next

(* A step that judges nothing: it stutters, or the run breaks off.          *)
LEMMA QuietAssesses ==
  ASSUME TypeInv, Walk, Learns, UNCHANGED scenario \/ pc \in {"stack", "file"},
         \A d \in DutySet : Judged(d[1], d[2])' <=> Judged(d[1], d[2]),
         exit' = exit \/ (exit = Running /\ exit' \in {1, 2})
  PROVE  [Contract!Next]_(Contract!vars)
<1>1. dutyVerdicts' = dutyVerdicts /\ dutyKinds' = dutyKinds
  <2>1. \A d \in DutySet : VerdictOn(d[1], d[2])' = VerdictOn(d[1], d[2])
    BY VerdictStays
  <2> QED
    BY <2>1, DutiesStay DEF dutyVerdicts
<1>2. StatusOf' = StatusOf
  BY DEF StatusOf
<1>3. CASE exit' = exit
  <2>1. StatusOf[exit]' = StatusOf[exit]
    BY <1>2, <1>3
  <2> QED
    BY <1>1, <2>1 DEF Contract!vars
<1>4. CASE exit = Running /\ exit' \in {1, 2}
  <2>1. StatusOf[exit] = "running" /\ StatusOf[exit]' \in {"red", "broken"}
    BY <1>2, <1>4, StatusIs
  <2>2. Contract!BreakOff
    BY <1>1, <2>1 DEF Contract!BreakOff
  <2> QED
    BY <2>2 DEF Contract!Next
<1> QED
  BY <1>3, <1>4

LEMMA RerunAssesses ==
  ASSUME TypeInv, Walk, Learns, Rerun PROVE Contract!Next
<1>1. /\ exit # Running /\ exit' = Running /\ stack' = 1 /\ matched' = {}
  BY DEF Rerun, Walk, Control
<1>2. StatusOf[exit] # "running" /\ StatusOf[exit]' = "running"
  <2>1. StatusOf' = StatusOf
    BY DEF StatusOf
  <2>2. exit \in {0, 1, 2}
    BY <1>1 DEF TypeInv, TypeOK, ControlOK
  <2>3. StatusOf[exit] # "running"
    BY <2>2, StatusIs
  <2> QED
    BY <1>1, <2>1, <2>3, StatusIs
<1>3. \A d \in DutySet : VerdictOn(d[1], d[2])' = "open"
  <2>1. \A s \in Stacks : ~(s < stack')
    BY <1>1, StacksAreNumbered DEF TypeInv
  <2>2. \A d \in DutySet : ~Judged(d[1], d[2])'
    BY <1>1, <2>1, DutiesAre DEF Judged
  <2> QED
    BY <2>2 DEF VerdictOn
<1>4. dutyVerdicts' = [d \in DutySet |-> "open"] /\ dutyKinds' = dutyKinds /\ DOMAIN dutyKinds = DutySet
  BY <1>3, DutiesStay DEF dutyVerdicts, dutyKinds
<1>5. Contract!Again
  BY <1>2, <1>4 DEF Contract!Again, Contract!Duties
<1> QED
  BY <1>5 DEF Contract!Next

LEMMA NextAssesses == TypeInv /\ Walk /\ [Next]_vars => [Contract!Next]_(Contract!vars)
<1> SUFFICES ASSUME TypeInv, Walk, [Next]_vars PROVE [Contract!Next]_(Contract!vars)
  OBVIOUS
<1> USE DEF Stop, Fatalf, Panic, scenario, folder, loop
<1>1. Learns
  BY NextLearns
<1>2. CASE Main \/ ReadExpectations \/ StackAborts
  <2>1. UNCHANGED <<scenario, stack, matched, todo>>
        /\ (exit' = exit \/ (exit = Running /\ exit' \in {1, 2}))
    BY <1>2 DEF Main, ReadExpectations, StackAborts, Walk, Control
  <2>2. \A d \in DutySet : Judged(d[1], d[2])' <=> Judged(d[1], d[2])
    BY <2>1 DEF Judged
  <2> QED
    BY <1>1, <2>1, <2>2, QuietAssesses
<1>3. CASE StackHasNoFile
  BY <1>1, <1>3, NoFileAssesses
<1>4. CASE StackHasFiles
  <2>1. UNCHANGED <<scenario, stack, exit>> /\ matched = {} /\ todo' = matched'
    BY <1>4 DEF StackHasFiles, Walk, Control
  <2>2. \A d \in DutySet : Judged(d[1], d[2])' <=> Judged(d[1], d[2])
    BY <2>1 DEF Judged
  <2> QED
    BY <1>1, <2>1, <2>2, QuietAssesses
<1>5. CASE Finish
  BY <1>1, <1>5, FinishAssesses
<1>6. ASSUME NEW f \in todo, AnalyzeFile(f) PROVE [Contract!Next]_(Contract!vars)
  <2>1. CASE Asserted(f)
    BY <1>1, <1>6, <2>1, AssertedAssesses DEF AnalyzeFile
  <2>2. CASE LoadFails(f) \/ CaptureFails(f) \/ AssertionAborts(f)
    <3>1. UNCHANGED <<stack, matched, todo>> /\ exit = Running /\ exit' = 1 /\ pc = "file"
      BY <1>6, <2>2 DEF AnalyzeFile, Current, LoadFails, CaptureFails, AssertionAborts, Walk, Control
    <3>2. \A d \in DutySet : Judged(d[1], d[2])' <=> Judged(d[1], d[2])
      BY <3>1 DEF Judged
    <3> QED
      BY <1>1, <3>1, <3>2, QuietAssesses
  <2> QED
    BY <1>6, <2>1, <2>2 DEF AnalyzeFile
<1>7. CASE Rerun
  BY <1>1, <1>7, RerunAssesses
<1>8. CASE UNCHANGED vars
  <2>1. UNCHANGED <<scenario, stack, matched, todo, exit>>
    BY <1>8 DEF vars
  <2>2. \A d \in DutySet : Judged(d[1], d[2])' <=> Judged(d[1], d[2])
    BY <2>1 DEF Judged
  <2> QED
    BY <1>1, <2>1, <2>2, QuietAssesses
<1> QED
  BY <1>2, <1>3, <1>4, <1>5, <1>6, <1>7, <1>8 DEF Next, Analyze

LEMMA InitAssesses == Init => Contract!Init
<1> SUFFICES ASSUME Init PROVE Contract!Init
  OBVIOUS
<1>1. TypeInv
  BY InitTypeInv
<1>2. \A d \in DutySet : VerdictOn(d[1], d[2]) = "open"
  <2>1. \A s \in Stacks : ~(s < stack)
    BY <1>1, StacksAreNumbered DEF TypeInv, Init
  <2>2. \A d \in DutySet : ~Judged(d[1], d[2])
    BY <1>1, <2>1, DutiesAre DEF Judged, Init
  <2> QED
    BY <2>2 DEF VerdictOn
<1>3. \A d \in DutySet : KindOf(d[1], d[2]) \in {"plain", "forgivable", "hopeless"}
  BY DEF KindOf
<1>4. DOMAIN dutyKinds = DutySet /\ dutyVerdicts = [d \in DutySet |-> "open"]
      /\ \A d \in DutySet : dutyKinds[d] \in {"plain", "forgivable", "hopeless"}
  BY <1>2, <1>3 DEF dutyKinds, dutyVerdicts
<1>5. StatusOf[exit] = "running"
  BY StatusIs DEF Init
<1> QED
  BY <1>4, <1>5 DEF Contract!Init, Contract!Duties

(* The analyzer implements Assessment: each of its steps judges one duty    *)
(* that was open, concludes, breaks off or starts again, or none of these.  *)
THEOREM AnalyzerAssesses == Spec => Assesses
BY InitAssesses, NextAssesses, WalkHolds, PTL DEF Spec, Assesses, Contract!Spec
=============================================================================
