--------------------------- MODULE DiscoveryProofs ---------------------------
(***************************************************************************)
(* findDockerConfigs on every flat tree, for any number of directories.    *)
(***************************************************************************)
EXTENDS Discovery, TLAPS

AllFlat == \A w \in Walk : Flat(w)

(* A Dockerfile whose directory the walk has not left, and whose json it    *)
(* has not met, is the one remembered.                                      *)
RemembersHere ==
  \A i \in 1..(pos - 1) :
    /\ walk[i].kind = Dockerfile /\ walk[i].dir \in selected
    /\ \A k \in i..(pos - 1) : walk[k].dir = walk[i].dir /\ walk[k].kind # Json
    => dockerfilePath = walk[i].dir

DockerfileIsReal ==
  dockerfilePath # NoDir =>
    dockerfilePath \in selected /\ Has(dockerfilePath, Dockerfile, pos - 1)

(* A json that is still remembered has no Dockerfile anywhere.              *)
JsonIsLonely ==
  jsonFilePath # NoDir =>
    jsonFilePath \in selected /\ ~Has(jsonFilePath, Dockerfile, Len(walk))

IInv ==
  /\ TypeOK
  /\ Flat(walk)
  /\ RemembersHere
  /\ DockerfileIsReal
  /\ JsonIsLonely
  /\ FindsTheComplete
  /\ BlamesTheIncomplete

-----------------------------------------------------------------------------
(* Has looks at one more file per step.                                     *)
LEMMA HasStep ==
  ASSUME NEW d, NEW kind, pos \in Nat \ {0}, pos <= Len(walk)
  PROVE  Has(d, kind, pos) <=> Has(d, kind, pos - 1) \/ walk[pos] = [dir |-> d, kind |-> kind]
  BY DEF Has

(* The initial state satisfies the invariant: nothing was visited.          *)
LEMMA InitIInv == AllFlat /\ Init => IInv
<1> SUFFICES ASSUME AllFlat, Init PROVE IInv
  OBVIOUS
<1>1. TypeOK
  BY DiscoveryAssumption DEF Init, TypeOK
<1>2. Flat(walk) /\ RemembersHere /\ DockerfileIsReal /\ JsonIsLonely
  BY DEF Init, AllFlat, RemembersHere, DockerfileIsReal, JsonIsLonely
<1>3. FindsTheComplete /\ BlamesTheIncomplete
  BY DEF Init, FindsTheComplete, NoDuplicates, Found, Complete, Has, BlamesTheIncomplete
<1> QED
  BY <1>1, <1>2, <1>3 DEF IInv

(* Every step keeps the types.                                              *)
LEMMA StepTypeOK == TypeOK /\ [Next]_vars => TypeOK'
<1> SUFFICES ASSUME TypeOK, [Next]_vars PROVE TypeOK'
  OBVIOUS
<1> USE DiscoveryAssumption
<1>0. pos <= Len(walk) => Here \in Entry
  BY DEF TypeOK, Here
<1>1. CASE Skip
  BY <1>1 DEF Skip, TypeOK
<1>2. CASE Wait
  BY <1>0, <1>2 DEF Wait, TypeOK, Remember, JsonNow, DockerfileNow, Entry
<1>3. CASE Mismatch
  BY <1>0, <1>3 DEF Mismatch, TypeOK, Remember, JsonNow, DockerfileNow, Entry
<1>4. CASE Pair
  BY <1>0, <1>4 DEF Pair, TypeOK, Forget, JsonNow, Entry
<1>5. CASE UNCHANGED vars
  BY <1>5 DEF vars, TypeOK
<1> QED
  BY <1>1, <1>2, <1>3, <1>4, <1>5 DEF Next

-----------------------------------------------------------------------------
(* The file the walk is at.                                                 *)
LEMMA AtFile ==
  ASSUME TypeOK, pos <= Len(walk)
  PROVE  /\ pos \in 1..Len(walk) /\ DOMAIN walk = 1..Len(walk)
         /\ Here = walk[pos] /\ Here \in Entry
         /\ Here = [dir |-> Here.dir, kind |-> Here.kind]
<1>1. pos \in 1..Len(walk) /\ DOMAIN walk = 1..Len(walk)
  BY DEF TypeOK
<1>2. Here = walk[pos] /\ Here \in Entry
  BY <1>1 DEF Here, TypeOK
<1>3. Here = [dir |-> Here.dir, kind |-> Here.kind]
  BY <1>2 DEF Entry
<1> QED
  BY <1>1, <1>2, <1>3

(* A json that completes no pair comes from a directory without Dockerfile. *)
LEMMA UnpairedJsonIsLonely ==
  ASSUME IInv, pos <= Len(walk), Here.kind = Json, Here.dir \in selected,
         dockerfilePath # Here.dir
  PROVE  ~Has(Here.dir, Dockerfile, Len(walk))
<1> SUFFICES ASSUME NEW i \in 1..Len(walk),
                    walk[i] = [dir |-> Here.dir, kind |-> Dockerfile]
             PROVE  FALSE
  BY DEF Has
<1>1. pos \in 1..Len(walk) /\ Here = walk[pos] /\ DOMAIN walk = 1..Len(walk)
  BY AtFile DEF IInv
<1>2. walk[i].dir = walk[pos].dir /\ walk[i].kind = Dockerfile /\ walk[pos].kind = Json
  BY <1>1
<1>3. i # pos
  BY <1>2 DEF Dockerfile, Json
<1>4. ~(pos < i)
  BY <1>1, <1>2 DEF IInv, Flat
<1>5. i < pos
  BY <1>1, <1>3, <1>4
<1>6. ASSUME NEW k \in i..(pos - 1) PROVE walk[k].dir = walk[i].dir /\ walk[k].kind # Json
  <2>1. k \in i..pos /\ k \in DOMAIN walk /\ k < pos
    BY <1>1, <1>5
  <2>2. walk[k].dir = walk[i].dir
    BY <1>1, <1>2, <1>5, <2>1 DEF IInv, Flat
  <2>3. walk[k].kind = walk[pos].kind => walk[k].kind = Other
    BY <1>1, <1>2, <2>1, <2>2 DEF IInv, Flat
  <2> QED
    BY <1>2, <2>2, <2>3 DEF Json, Other
<1>7. dockerfilePath = walk[i].dir
  <2>1. i \in 1..(pos - 1) /\ walk[i].dir \in selected
    BY <1>1, <1>2, <1>5
  <2> QED
    BY <1>2, <1>6, <2>1 DEF IInv, RemembersHere
<1> QED
  BY <1>1, <1>2, <1>7

(* When the walk meets a Dockerfile, its directory has no json yet.         *)
LEMMA DockerfileComesFirst ==
  ASSUME IInv, pos <= Len(walk), Here.kind = Dockerfile
  PROVE  ~Has(Here.dir, Json, pos) /\ jsonFilePath # Here.dir
<1>1. pos \in 1..Len(walk) /\ Here = walk[pos] /\ DOMAIN walk = 1..Len(walk)
      /\ Here = [dir |-> Here.dir, kind |-> Dockerfile] /\ Here.dir \in Dir
  BY AtFile DEF IInv, Entry
<1>2. ~Has(Here.dir, Json, pos)
  <2> SUFFICES ASSUME NEW i \in 1..pos, walk[i] = [dir |-> Here.dir, kind |-> Json]
               PROVE  FALSE
    BY DEF Has
  <2>1. i # pos
    BY <1>1 DEF Dockerfile, Json
  <2>2. i < pos /\ i \in DOMAIN walk
    BY <1>1, <2>1
  <2> QED
    BY <1>1, <2>2 DEF IInv, Flat
<1>3. Has(Here.dir, Dockerfile, Len(walk))
  BY <1>1 DEF Has
<1>4. jsonFilePath # Here.dir
  BY <1>1, <1>3, DiscoveryAssumption DEF IInv, JsonIsLonely
<1> QED
  BY <1>2, <1>4

(* What a step adds to the visited files of a directory.                    *)
LEMMA CompleteStep ==
  ASSUME TypeOK, pos <= Len(walk), NEW d \in Dir,
         ~(d = Here.dir /\ d \in selected /\ Here.kind # Other)
  PROVE  Complete(d, pos) <=> Complete(d, pos - 1)
<1>1. ASSUME NEW kind \in {Dockerfile, Json}, d \in selected
      PROVE  Has(d, kind, pos) <=> Has(d, kind, pos - 1)
  <2>1. walk[pos] # [dir |-> d, kind |-> kind]
    BY <1>1, AtFile DEF Dockerfile, Json, Other
  <2> QED
    BY <2>1, HasStep DEF TypeOK
<1> QED
  BY <1>1 DEF Complete

(* A step that makes no config completes no scenario.                       *)
LEMMA NothingCompleted ==
  ASSUME IInv, pos <= Len(walk), NEW d \in Dir,
         \/ Ignored(Here)
         \/ JsonNow(Here) = NoDir \/ DockerfileNow(Here) = NoDir
         \/ JsonNow(Here) # DockerfileNow(Here)
  PROVE  Complete(d, pos) <=> Complete(d, pos - 1)
<1> USE DiscoveryAssumption
<1>0. TypeOK /\ Here \in Entry /\ pos \in 1..Len(walk)
  BY AtFile DEF IInv
<1>1. CASE ~(d = Here.dir /\ d \in selected /\ Here.kind # Other)
  BY <1>0, <1>1, CompleteStep
<1>2. CASE d = Here.dir /\ d \in selected /\ Here.kind = Dockerfile
  <2>1. ~Has(d, Json, pos)
    BY <1>2, DockerfileComesFirst
  <2>2. ~Has(d, Json, pos - 1)
    BY <1>0, <2>1 DEF Has
  <2> QED
    BY <2>1, <2>2 DEF Complete
<1>3. CASE d = Here.dir /\ d \in selected /\ Here.kind = Json
  <2>1. ~Ignored(Here) /\ JsonNow(Here) = d /\ DockerfileNow(Here) = dockerfilePath
    BY <1>3 DEF Ignored, JsonNow, DockerfileNow, Dockerfile, Json, Other
  <2>2. ~Has(d, Dockerfile, Len(walk))
    BY <1>3, <2>1, UnpairedJsonIsLonely
  <2>3. ~Has(d, Dockerfile, pos) /\ ~Has(d, Dockerfile, pos - 1)
    BY <1>0, <2>2 DEF Has
  <2> QED
    BY <2>3 DEF Complete
<1> QED
  BY <1>0, <1>1, <1>2, <1>3 DEF Entry
-----------------------------------------------------------------------------
(* RemembersHere after a step that keeps or sets the Dockerfile as a step   *)
(* without a pair does.                                                     *)
LEMMA StepRemembersHere ==
  ASSUME IInv, pos <= Len(walk), walk' = walk, selected' = selected, pos' = pos + 1,
         \/ Ignored(Here) /\ dockerfilePath' = dockerfilePath
         \/ Here.kind = Json
         \/ dockerfilePath' = DockerfileNow(Here)
  PROVE  RemembersHere'
<1>0. TypeOK /\ Here \in Entry /\ pos \in 1..Len(walk) /\ Here = walk[pos]
      /\ DOMAIN walk = 1..Len(walk)
  BY AtFile DEF IInv
<1> SUFFICES ASSUME NEW i \in 1..pos,
                    walk[i].kind = Dockerfile, walk[i].dir \in selected,
                    \A k \in i..pos : walk[k].dir = walk[i].dir /\ walk[k].kind # Json
             PROVE  dockerfilePath' = walk[i].dir
  BY <1>0 DEF RemembersHere
<1>1. Here.dir = walk[i].dir /\ Here.kind # Json
  BY <1>0
<1>2. CASE i = pos
  BY <1>0, <1>1, <1>2 DEF Ignored, DockerfileNow, Dockerfile, Other
<1>3. CASE i < pos
  <2>1. Here.kind # Dockerfile
    BY <1>0, <1>1, <1>3 DEF IInv, Flat, Dockerfile, Other
  <2>2. dockerfilePath = walk[i].dir
    <3>1. i \in 1..(pos - 1) /\ \A k \in i..(pos - 1) : k \in i..pos
      BY <1>0, <1>3
    <3> QED
      BY <3>1 DEF IInv, RemembersHere
  <2> QED
    BY <1>1, <2>1, <2>2 DEF DockerfileNow
<1> QED
  BY <1>0, <1>2, <1>3

(* FindsTheComplete survives a step that makes no config.                   *)
LEMMA StillFindsTheComplete ==
  ASSUME IInv, pos <= Len(walk), walk' = walk, selected' = selected,
         pos' = pos + 1, configs' = configs,
         \/ Ignored(Here)
         \/ JsonNow(Here) = NoDir \/ DockerfileNow(Here) = NoDir
         \/ JsonNow(Here) # DockerfileNow(Here)
  PROVE  FindsTheComplete'
<1>1. pos' - 1 = pos
  BY DEF IInv, TypeOK
<1>2. \A d \in Dir : Complete(d, pos - 1)' <=> Complete(d, pos)
  BY <1>1 DEF Complete, Has
<1>3. \A d \in Dir : Complete(d, pos) <=> Complete(d, pos - 1)
  BY NothingCompleted
<1> QED
  BY <1>2, <1>3 DEF IInv, FindsTheComplete, NoDuplicates, Found

LEMMA StepSkip == IInv /\ Skip => IInv'
<1> SUFFICES ASSUME IInv, Skip PROVE IInv'
  OBVIOUS
<1>0. TypeOK /\ TypeOK' /\ pos \in 1..Len(walk)
  BY AtFile, StepTypeOK DEF IInv, Skip, Next
<1>1. RemembersHere'
  BY StepRemembersHere DEF Skip
<1>2. DockerfileIsReal' /\ JsonIsLonely'
  BY <1>0 DEF Skip, IInv, DockerfileIsReal, JsonIsLonely, Has
<1>3. FindsTheComplete'
  BY StillFindsTheComplete DEF Skip
<1>4. BlamesTheIncomplete' /\ Flat(walk)'
  BY DEF Skip, IInv, BlamesTheIncomplete, Has
<1> QED
  BY <1>0, <1>1, <1>2, <1>3, <1>4 DEF IInv

LEMMA StepWait == IInv /\ Wait => IInv'
<1> SUFFICES ASSUME IInv, Wait PROVE IInv'
  OBVIOUS
<1> USE DiscoveryAssumption
<1>0. TypeOK /\ TypeOK' /\ pos \in 1..Len(walk) /\ pos' - 1 = pos /\ Here \in Entry
      /\ Here = walk[pos] /\ Here = [dir |-> Here.dir, kind |-> Here.kind]
  BY AtFile, StepTypeOK DEF IInv, Wait, Next
<1>a. Here.dir \in selected /\ Here.kind \in {Dockerfile, Json} /\ Here.dir # NoDir
  BY <1>0 DEF Wait, Ignored, Entry
<1>1. RemembersHere'
  BY StepRemembersHere DEF Wait, Remember
<1>2. DockerfileIsReal'
  BY <1>0, <1>a DEF Wait, Remember, DockerfileNow, IInv, DockerfileIsReal, Has
<1>3. JsonIsLonely'
  <2>1. CASE Here.kind = Json
    <3>1. jsonFilePath' = Here.dir /\ dockerfilePath # Here.dir
      BY <1>a, <2>1 DEF Wait, Remember, JsonNow, DockerfileNow, Dockerfile, Json
    <3> QED
      BY <1>0, <1>a, <2>1, <3>1, UnpairedJsonIsLonely DEF Wait, JsonIsLonely, Has
  <2>2. CASE Here.kind = Dockerfile
    BY <2>2 DEF Wait, Remember, JsonNow, Dockerfile, Json, IInv, JsonIsLonely, Has
  <2> QED
    BY <1>a, <2>1, <2>2
<1>4. FindsTheComplete'
  BY StillFindsTheComplete DEF Wait
<1>5. BlamesTheIncomplete' /\ Flat(walk)'
  BY DEF Wait, IInv, BlamesTheIncomplete, Has
<1> QED
  BY <1>0, <1>1, <1>2, <1>3, <1>4, <1>5 DEF IInv

LEMMA StepMismatch == IInv /\ Mismatch => IInv'
<1> SUFFICES ASSUME IInv, Mismatch PROVE IInv'
  OBVIOUS
<1> USE DiscoveryAssumption
<1>0. TypeOK /\ TypeOK' /\ pos \in 1..Len(walk) /\ pos' - 1 = pos /\ Here \in Entry
      /\ Here = walk[pos] /\ Here = [dir |-> Here.dir, kind |-> Here.kind]
  BY AtFile, StepTypeOK DEF IInv, Mismatch, Next
<1>a. Here.dir \in selected /\ Here.kind \in {Dockerfile, Json} /\ Here.dir # NoDir
  BY <1>0 DEF Mismatch, Ignored, Entry
<1>b. JsonNow(Here) \in selected /\ ~Has(JsonNow(Here), Dockerfile, Len(walk))
  <2>1. CASE Here.kind = Json
    <3>1. JsonNow(Here) = Here.dir /\ dockerfilePath # Here.dir
      BY <2>1 DEF Mismatch, JsonNow, DockerfileNow, Dockerfile, Json
    <3> QED
      BY <1>0, <1>a, <2>1, <3>1, UnpairedJsonIsLonely
  <2>2. CASE Here.kind = Dockerfile
    <3>1. JsonNow(Here) = jsonFilePath /\ jsonFilePath # NoDir
      BY <2>2 DEF Mismatch, JsonNow, Dockerfile, Json
    <3> QED
      BY <3>1 DEF IInv, JsonIsLonely
  <2> QED
    BY <1>a, <2>1, <2>2
<1>1. RemembersHere'
  BY StepRemembersHere DEF Mismatch, Remember
<1>2. DockerfileIsReal'
  BY <1>0, <1>a DEF Mismatch, Remember, DockerfileNow, IInv, DockerfileIsReal, Has
<1>3. JsonIsLonely'
  BY <1>b DEF Mismatch, Remember, JsonIsLonely, Has
<1>4. FindsTheComplete'
  BY StillFindsTheComplete DEF Mismatch
<1>5. BlamesTheIncomplete' /\ Flat(walk)'
  BY <1>b DEF Mismatch, IInv, BlamesTheIncomplete, Has
<1> QED
  BY <1>0, <1>1, <1>2, <1>3, <1>4, <1>5 DEF IInv

(* A pair is made by the json, and by the Dockerfile just before it.        *)
LEMMA StepPair == IInv /\ Pair => IInv'
<1> SUFFICES ASSUME IInv, Pair PROVE IInv'
  OBVIOUS
<1> USE DiscoveryAssumption
<1>0. TypeOK /\ TypeOK' /\ pos \in 1..Len(walk) /\ pos' - 1 = pos /\ Here \in Entry
      /\ Here = walk[pos] /\ Here = [dir |-> Here.dir, kind |-> Here.kind]
      /\ DOMAIN walk = 1..Len(walk)
  BY AtFile, StepTypeOK DEF IInv, Pair, Next
<1>a. Here.kind = Json /\ Here.dir \in selected
  <2>1. Here.kind \in {Dockerfile, Json} /\ Here.dir \in selected
    BY <1>0 DEF Pair, Ignored, Entry
  <2>2. Here.kind = Dockerfile => jsonFilePath = Here.dir
    BY DEF Pair, JsonNow, DockerfileNow, Dockerfile, Json
  <2>3. Here.kind = Dockerfile => jsonFilePath # Here.dir
    BY DockerfileComesFirst DEF Pair
  <2> QED
    BY <2>1, <2>2, <2>3
<1>b. JsonNow(Here) = Here.dir /\ dockerfilePath = Here.dir /\ Here.dir \in Dir
  BY <1>0, <1>a DEF Pair, JsonNow, DockerfileNow, Dockerfile, Json, Entry
<1>c. Has(Here.dir, Dockerfile, pos - 1) /\ Has(Here.dir, Json, pos)
  <2>1. Has(Here.dir, Dockerfile, pos - 1)
    BY <1>b DEF IInv, DockerfileIsReal
  <2> QED
    BY <1>0, <1>a, <2>1 DEF Has
<1>d. ~Has(Here.dir, Json, pos - 1)
  <2> SUFFICES ASSUME NEW i \in 1..(pos - 1), walk[i] = [dir |-> Here.dir, kind |-> Json]
               PROVE  FALSE
    BY DEF Has
  <2>1. i < pos /\ i \in DOMAIN walk /\ walk[i].dir = walk[pos].dir
    BY <1>0
  <2> QED
    BY <1>0, <1>a, <2>1 DEF IInv, Flat, Json, Other
<1>1. RemembersHere'
  BY <1>a, StepRemembersHere DEF Pair
<1>2. DockerfileIsReal' /\ JsonIsLonely'
  BY DEF Pair, Forget, DockerfileIsReal, JsonIsLonely
<1>3. FindsTheComplete'
  <2>1. configs' = Append(configs, Here.dir) /\ configs \in Seq(Dir)
    BY <1>0, <1>b DEF Pair, TypeOK
  <2>2. Here.dir \notin Found
    BY <1>b, <1>d DEF IInv, FindsTheComplete, Complete
  <2>3. NoDuplicates'
    BY <2>1, <2>2 DEF IInv, FindsTheComplete, NoDuplicates, Found
  <2>4. Found' = Found \cup {Here.dir}
    <3>1. DOMAIN configs' = DOMAIN configs \cup {Len(configs) + 1}
      BY <2>1
    <3>2. \A i \in DOMAIN configs : configs'[i] = configs[i]
      BY <2>1
    <3>3. configs'[Len(configs) + 1] = Here.dir
      BY <2>1
    <3> QED
      BY <3>1, <3>2, <3>3 DEF Found
  <2>5. \A d \in Dir : Complete(d, pos - 1)' <=> Complete(d, pos)
    BY <1>0 DEF Pair, Complete, Has
  <2>6. \A d \in Dir : Complete(d, pos) <=> Complete(d, pos - 1) \/ d = Here.dir
    <3> SUFFICES ASSUME NEW d \in Dir
                 PROVE  Complete(d, pos) <=> Complete(d, pos - 1) \/ d = Here.dir
      OBVIOUS
    <3>1. CASE d = Here.dir
      <4>1. Has(d, Dockerfile, pos)
        BY <1>0, <1>c, <3>1 DEF Has
      <4> QED
        BY <1>a, <1>c, <3>1, <4>1 DEF Complete
    <3>2. CASE d # Here.dir
      BY <1>0, <3>2, CompleteStep
    <3> QED
      BY <3>1, <3>2
  <2> QED
    BY <2>3, <2>4, <2>5, <2>6 DEF IInv, FindsTheComplete
<1>4. BlamesTheIncomplete' /\ Flat(walk)'
  BY DEF Pair, IInv, BlamesTheIncomplete, Has
<1> QED
  BY <1>0, <1>1, <1>2, <1>3, <1>4 DEF IInv

-----------------------------------------------------------------------------
(* Every variable has its type, in every reachable state of any tree.       *)
THEOREM TypeCorrect == Spec => []TypeOK
<1>1. Init => TypeOK
  BY DiscoveryAssumption DEF Init, TypeOK
<1> QED
  BY <1>1, StepTypeOK, PTL DEF Spec

(* The inductive invariant holds on every flat tree.                       *)
THEOREM InvariantHolds == AllFlat => (Spec => []IInv)
<1> SUFFICES ASSUME AllFlat PROVE Spec => []IInv
  OBVIOUS
<1>1. Init => IInv
  BY InitIInv
<1>2. IInv /\ [Next]_vars => IInv'
  <2> SUFFICES ASSUME IInv, [Next]_vars PROVE IInv'
    OBVIOUS
  <2>1. CASE Next
    BY <2>1, StepSkip, StepWait, StepMismatch, StepPair DEF Next
  <2>2. CASE UNCHANGED vars
    BY <2>2, StepTypeOK DEF vars, IInv, TypeOK, RemembersHere, DockerfileIsReal, JsonIsLonely,
       FindsTheComplete, NoDuplicates, Found, Complete, Has, BlamesTheIncomplete
  <2> QED
    BY <2>1, <2>2
<1> QED
  BY <1>1, <1>2, PTL DEF Spec

(* On a flat tree of any number of directories, complete or not, every      *)
(* complete scenario is found, once, and nothing else.                      *)
THEOREM EveryScenarioIsFound == AllFlat => (Spec => []FindsTheComplete)
<1> SUFFICES ASSUME AllFlat PROVE Spec => []FindsTheComplete
  OBVIOUS
<1>1. IInv => FindsTheComplete
  BY DEF IInv
<1> QED
  BY <1>1, InvariantHolds, PTL

(* On a flat tree no error blames a directory that has its Dockerfile.      *)
THEOREM OnlyTheIncompleteAreBlamed == AllFlat => (Spec => []BlamesTheIncomplete)
<1> SUFFICES ASSUME AllFlat PROVE Spec => []BlamesTheIncomplete
  OBVIOUS
<1>1. IInv => BlamesTheIncomplete
  BY DEF IInv
<1> QED
  BY <1>1, InvariantHolds, PTL
=============================================================================
