---------------------------- MODULE HarnessProofs ----------------------------
(***************************************************************************)
(* The shards partition the scenarios, and the jobs run and judge each of  *)
(* them once, for any listing, chunk size and number of jobs.              *)
(***************************************************************************)
EXTENDS Harness, WellFoundedInduction, TLAPS

Types ==
  /\ names \in Listing
  /\ i \in Nat \ {0}
  /\ chunks \in Seq(Seq(Name))
  /\ listing \in {"packing", "emitted", "error"}

(* The names before i, and only those, have been put into a chunk; ...      *)
Covered ==
  \A j \in DOMAIN names : (\E k \in DOMAIN chunks : InChunk(k, names[j])) <=> j < i

(* ... each in one chunk, and every chunk has its size.                     *)
Once ==
  \A k, l \in DOMAIN chunks : \A n \in Name : InChunk(k, n) /\ InChunk(l, n) => k = l

FromNames ==
  \A k \in DOMAIN chunks : \A p \in DOMAIN chunks[k] :
    \E j \in DOMAIN names : j < i /\ names[j] = chunks[k][p]

Sized == \A k \in DOMAIN chunks : Len(chunks[k]) \in 1..ChunkSize

AllCut == listing = "emitted" => i > Len(names)

ShardInv == Types /\ Covered /\ Once /\ FromNames /\ Sized /\ AllCut

LEMMA InitShardInv == SInit => ShardInv
BY ShardingAssumption
   DEF SInit, ShardInv, Types, Covered, Once, FromNames, Sized, AllCut, InChunk

(* The chunk that Pack cuts holds the names from i to End, in order.        *)
LEMMA NewChunk ==
  ASSUME Types, i <= Len(names)
  PROVE  /\ End \in i..Len(names)
         /\ SubSeq(names, i, End) \in Seq(Name)
         /\ Len(SubSeq(names, i, End)) = End - i + 1
         /\ End - i + 1 \in 1..ChunkSize
         /\ \A p \in 1..(End - i + 1) : SubSeq(names, i, End)[p] = names[i + p - 1]
<1>1. names \in Seq(Name) /\ Len(names) \in Nat /\ ChunkSize \in Nat \ {0} /\ i \in Nat \ {0}
  BY ShardingAssumption DEF Types
<1>2. End \in i..Len(names) /\ End - i + 1 \in 1..ChunkSize
  BY <1>1 DEF End
<1>3. \A p \in i..End : names[p] \in Name
  BY <1>1, <1>2
<1> QED
  BY <1>1, <1>2, <1>3

LEMMA PackKeepsShardInv == ShardInv /\ Pack => ShardInv'
<1> SUFFICES ASSUME ShardInv, Pack PROVE ShardInv'
  OBVIOUS
<1> DEFINE c == SubSeq(names, i, End)
<1>a. names \in Seq(Name) /\ Len(names) \in Nat /\ ChunkSize \in Nat \ {0} /\ i \in Nat \ {0}
      /\ chunks \in Seq(Seq(Name)) /\ \A j, k \in DOMAIN names : names[j] = names[k] => j = k
  BY ShardingAssumption DEF ShardInv, Types
<1>b. /\ End \in i..Len(names) /\ c \in Seq(Name) /\ Len(c) = End - i + 1
      /\ End - i + 1 \in 1..ChunkSize
      /\ \A p \in 1..(End - i + 1) : c[p] = names[i + p - 1]
  BY NewChunk DEF ShardInv, Pack
<1>c. /\ chunks' = Append(chunks, c) /\ i' = i + ChunkSize
      /\ names' = names /\ listing' = listing /\ listing = "packing"
  BY DEF Pack
<1> HIDE DEF c
<1>1. Types'
  BY <1>a, <1>b, <1>c DEF Types, ShardInv
<1>2. /\ DOMAIN chunks' = 1..(Len(chunks) + 1) /\ DOMAIN chunks = 1..Len(chunks)
      /\ \A k \in DOMAIN chunks : chunks'[k] = chunks[k]
      /\ chunks'[Len(chunks) + 1] = c
      /\ DOMAIN c = 1..(End - i + 1)
  BY <1>a, <1>b, <1>c
<1> DEFINE m == Len(chunks) + 1
           New(k, n) == \E p \in DOMAIN chunks'[k] : chunks'[k][p] = n
<1>3. \A n : New(m, n) <=> \E p \in DOMAIN c : c[p] = n
  BY <1>2
<1>4. \A k \in DOMAIN chunks : \A n : New(k, n) <=> InChunk(k, n)
  BY <1>2 DEF InChunk
<1>5. \A j \in DOMAIN names : New(m, names[j]) <=> j \in i..End
  <2> SUFFICES ASSUME NEW j \in DOMAIN names
               PROVE  (\E p \in DOMAIN c : c[p] = names[j]) <=> j \in i..End
    BY <1>3
  <2>1. ASSUME NEW p \in DOMAIN c, c[p] = names[j] PROVE j \in i..End
    <3>1. i + p - 1 \in 1..Len(names) /\ names[i + p - 1] = names[j] /\ i + p - 1 \in i..End
      BY <2>1, <1>a, <1>b, <1>2
    <3>2. i + p - 1 = j
      BY <3>1, <1>a
    <3> QED
      BY <3>1, <3>2
  <2>2. ASSUME j \in i..End PROVE \E p \in DOMAIN c : c[p] = names[j]
    <3>1. j - i + 1 \in DOMAIN c /\ i + (j - i + 1) - 1 = j
      BY <2>2, <1>a, <1>b, <1>2
    <3> QED
      BY <3>1, <1>b, <1>2
  <2> QED
    BY <2>1, <2>2
<1>d. m \in DOMAIN chunks' /\ m \notin DOMAIN chunks /\ DOMAIN chunks' = DOMAIN chunks \cup {m}
  BY <1>2, <1>a
<1> HIDE DEF m, New
<1>6. Covered'
  <2> SUFFICES ASSUME NEW j \in DOMAIN names
               PROVE  (\E k \in DOMAIN chunks' : New(k, names[j])) <=> j < i'
    BY <1>c DEF Covered, InChunk, New
  <2>1. (\E k \in DOMAIN chunks' : New(k, names[j]))
          <=> (\E k \in DOMAIN chunks : InChunk(k, names[j])) \/ j \in i..End
    BY <1>d, <1>4, <1>5
  <2>2. (\E k \in DOMAIN chunks : InChunk(k, names[j])) <=> j < i
    BY DEF ShardInv, Covered
  <2>3. j < i' <=> j < i \/ j \in i..End
    BY <1>a, <1>c, <1>b DEF End
  <2> QED
    BY <2>1, <2>2, <2>3
<1>7. FromNames'
  <2> SUFFICES ASSUME NEW k \in DOMAIN chunks', NEW p \in DOMAIN chunks'[k]
               PROVE  \E j \in DOMAIN names : j < i' /\ names[j] = chunks'[k][p]
    BY <1>c DEF FromNames
  <2>1. CASE k \in DOMAIN chunks
    BY <2>1, <1>2, <1>a, <1>c DEF ShardInv, FromNames
  <2>2. CASE k = m
    <3>1. p \in 1..(End - i + 1) /\ chunks'[k][p] = c[p]
      BY <2>2, <1>2 DEF m
    <3>a. i + p - 1 \in 1..Len(names) /\ i + p - 1 < i + ChunkSize
      BY <3>1, <1>a, <1>b
    <3>2. i + p - 1 \in DOMAIN names /\ c[p] = names[i + p - 1] /\ i + p - 1 < i'
      <4>1. DOMAIN names = 1..Len(names)
        BY <1>a
      <4> QED
        BY <3>a, <3>1, <4>1, <1>b, <1>c
    <3>3. names[i + p - 1] = chunks'[k][p]
      BY <3>1, <3>2
    <3> QED
      BY <3>2, <3>3
  <2> QED
    BY <2>1, <2>2, <1>d
<1>8. \A k \in DOMAIN chunks : \A n : InChunk(k, n) => ~New(m, n)
  <2> SUFFICES ASSUME NEW k \in DOMAIN chunks, NEW n, InChunk(k, n) PROVE ~New(m, n)
    OBVIOUS
  <2>1. PICK j \in DOMAIN names : j < i /\ names[j] = n
    BY DEF ShardInv, FromNames, InChunk
  <2>2. j \notin i..End
    BY <2>1, <1>a, <1>b
  <2> QED
    BY <2>1, <2>2, <1>5
<1>9. Once'
  <2> SUFFICES ASSUME NEW k \in DOMAIN chunks', NEW l \in DOMAIN chunks', NEW n \in Name,
                      New(k, n), New(l, n)
               PROVE  k = l
    BY DEF Once, InChunk, New
  <2>1. CASE k \in DOMAIN chunks /\ l \in DOMAIN chunks
    BY <2>1, <1>4 DEF ShardInv, Once
  <2>2. CASE k = m \/ l = m
    BY <2>2, <1>4, <1>8, <1>d
  <2> QED
    BY <2>1, <2>2, <1>d
<1>10. Sized'
  BY <1>2, <1>b, <1>d DEF ShardInv, Sized, m
<1>11. AllCut'
  BY <1>c DEF AllCut
<1> QED
  BY <1>1, <1>6, <1>7, <1>9, <1>10, <1>11 DEF ShardInv

LEMMA NextShardInv == ShardInv /\ [SNext]_plan => ShardInv'
<1> SUFFICES ASSUME ShardInv, [SNext]_plan PROVE ShardInv'
  OBVIOUS
<1>1. CASE Pack
  BY <1>1, PackKeepsShardInv
<1>2. CASE Refuse \/ Emit \/ UNCHANGED plan
  <2>1. /\ names' = names /\ i' = i /\ chunks' = chunks
        /\ listing' \in {"packing", "emitted", "error"}
        /\ listing' = "emitted" => i > Len(names)
    BY <1>2 DEF Refuse, Emit, plan, ShardInv, Types, AllCut
  <2> QED
    BY <2>1 DEF ShardInv, Types, Covered, Once, FromNames, Sized, AllCut, InChunk
<1> QED
  BY <1>1, <1>2 DEF SNext

(* For any listing and any chunk size, every matching scenario is in        *)
(* exactly one of the emitted shards, and none of them is empty.            *)
THEOREM ShardsPartition == SSpec => []Partitioned
<1>1. ShardInv => Partitioned
  BY ShardingAssumption DEF ShardInv, Types, Covered, Once, Sized, AllCut, Partitioned
<1> QED
  BY <1>1, InitShardInv, NextShardInv, PTL DEF SSpec
-----------------------------------------------------------------------------
(* The least-number principle, for the order in which sub-tests are taken.  *)
Below == {r \in Nat \X Nat : r[1] < r[2]}

LEMMA BelowIsWellFounded == IsWellFoundedOn(Below, Nat)
BY NatLessThanWellFounded DEF OpToRel, Below

LEMMA MinIsIn ==
  ASSUME NEW S, S \subseteq Nat, S # {}
  PROVE  Min(S) \in S /\ \A y \in S : Min(S) <= y
<1>1. PICK x \in S : \A y \in S : ~(<<y, x>> \in Below)
  BY BelowIsWellFounded, WFMin
<1>2. ASSUME NEW y \in S PROVE x <= y
  <2>1. <<y, x>> \in Nat \X Nat /\ <<y, x>>[1] = y /\ <<y, x>>[2] = x
    OBVIOUS
  <2>2. ~(y < x)
    BY <1>1, <2>1 DEF Below
  <2> QED
    BY <2>2
<1> QED
  BY <1>1, <1>2 DEF Min

-----------------------------------------------------------------------------
(* What the shard k has to run, as positions in AllDirs.                    *)
Found(k) == {p \in DOMAIN AllDirs : kind[AllDirs[p]] = "complete" /\ Selected(k, AllDirs[p])}

States == {"queued", "find", "next", "run", "running", "analyze", "green", "red"}

Image == Name \cup {NoImage}

JobTypes ==
  /\ kind \in Kinds
  /\ Job = {} \/ (listing = "emitted" /\ Job = DOMAIN chunks)
  /\ at \in [Job -> States]
  /\ configs \in [Job -> SUBSET DOMAIN AllDirs]
  /\ bases \in [Job -> SUBSET {Base[n] : n \in Name}]
  /\ broken \in [Job -> BOOLEAN]
  /\ tagged \in [Job -> Image]
  /\ loaded \in [Job -> Image]
  /\ analysed \subseteq [job : Job, scenario : Name, image : Image,
                         verdict : {"pass", "fail", "panic"}]

(* From its build to its analysis a scenario owns the tag, then the         *)
(* container of its job.                                                    *)
Imaged(k) ==
  /\ at[k] \in {"run", "running", "analyze"} => configs[k] # {}
  /\ at[k] = "run" => tagged[k] = Current(k)
  /\ at[k] \in {"running", "analyze"} => loaded[k] = Current(k)

(* Before it has found its scenarios a job has nothing to run and has       *)
(* analysed nothing.                                                        *)
Fresh(k) == at[k] \in {"queued", "find"} => configs[k] = {} /\ \A a \in analysed : a.job # k

Passed(k, p) == \E a \in analysed : a.job = k /\ a.scenario = AllDirs[p] /\ a.verdict = "pass"

(* A scenario found is still to do, or it has passed, or the job will be    *)
(* red.                                                                     *)
Owed(k) ==
  /\ configs[k] \subseteq Found(k)
  /\ at[k] \in {"next", "run", "running", "analyze", "green"} =>
       \A p \in Found(k) : p \in configs[k] \/ broken[k] \/ Passed(k, p)
  /\ at[k] = "green" => configs[k] = {} /\ ~broken[k]

(* What was analysed was found by its job and is no longer to do.           *)
Judged(a) ==
  /\ a.image = a.scenario
  /\ \E p \in Found(a.job) \ configs[a.job] : AllDirs[p] = a.scenario

OncePerJob == \A a, b \in analysed : a.job = b.job /\ a.scenario = b.scenario => a = b

JobInv ==
  /\ ShardInv /\ JobTypes /\ OncePerJob
  /\ \A k \in Job : Imaged(k) /\ Fresh(k) /\ Owed(k)
  /\ \A a \in analysed : Judged(a)

LEMMA InitJobInv == Init => JobInv
<1> SUFFICES ASSUME Init PROVE JobInv
  OBVIOUS
<1>1. ShardInv
  BY InitShardInv DEF Init
<1>2. Job = {}
  BY DEF Init, Job
<1>3. JobTypes
  BY <1>2 DEF Init, JobTypes, Job
<1> QED
  BY <1>1, <1>2, <1>3 DEF Init, JobInv, OncePerJob

LEMMA CurrentIsFound ==
  ASSUME JobTypes, NEW k \in Job, configs[k] # {}
  PROVE  Min(configs[k]) \in configs[k] /\ Current(k) = AllDirs[Min(configs[k])] /\ Current(k) \in Name
<1>1. configs[k] \subseteq DOMAIN AllDirs /\ AllDirs \in Seq(Name)
  BY HarnessAssumption DEF JobTypes
<1>2. configs[k] \subseteq Nat
  BY <1>1
<1>3. Min(configs[k]) \in configs[k]
  BY <1>2, MinIsIn
<1> QED
  BY <1>1, <1>3 DEF Current

(* The plan is not touched once there are jobs.                             *)
LEMMA PlanningKeeps == ASSUME JobInv, Planning \/ UNCHANGED hvars PROVE JobInv'
<1>1. ShardInv' /\ UNCHANGED <<kind, jobs>>
  BY NextShardInv DEF JobInv, Planning, hvars
<1>2. CASE Job = {}
  <2>1. Job' = {} /\ analysed = {}
    BY <1>1, <1>2 DEF jobs, Job, JobInv, JobTypes
  <2>2. JobTypes'
    BY <1>1, <1>2, <2>1 DEF JobInv, JobTypes, jobs, Job
  <2> QED
    BY <1>1, <2>1, <2>2 DEF JobInv, jobs, OncePerJob
<1>3. CASE Job # {}
  <2>1. UNCHANGED <<plan, kind, jobs>>
    BY <1>1, <1>3 DEF JobInv, JobTypes, Planning, hvars, plan, SNext, Refuse, Pack, Emit
  <2> QED
    BY <1>1, <2>1 DEF JobInv, JobTypes, Imaged, Fresh, Owed, Judged, OncePerJob, Found, Selected,
       InChunk, Current, Passed, plan, jobs, Job
<1> QED
  BY <1>2, <1>3

LEMMA DispatchKeeps == ASSUME JobInv, Dispatch PROVE JobInv'
<1>1. Job' = DOMAIN chunks /\ Job = {} /\ listing' = "emitted" /\ chunks' = chunks /\ UNCHANGED <<plan, kind>>
  BY DEF Dispatch, Job, plan
<1>2. analysed = {} /\ analysed' = {}
  BY <1>1 DEF JobInv, JobTypes, Dispatch
<1>3. ShardInv'
  BY <1>1, NextShardInv DEF JobInv
<1>4. \A k \in Job' : at'[k] = "queued" /\ configs'[k] = {}
  BY <1>1 DEF Dispatch
<1>5. JobTypes'
  <2>1. kind' \in Kinds /\ at' \in [Job' -> States] /\ configs' \in [Job' -> SUBSET DOMAIN AllDirs]
    BY <1>1 DEF Dispatch, JobInv, JobTypes, States
  <2>2. bases' \in [Job' -> SUBSET {Base[n] : n \in Name}] /\ broken' \in [Job' -> BOOLEAN]
        /\ tagged' \in [Job' -> Image] /\ loaded' \in [Job' -> Image]
    BY <1>1 DEF Dispatch, Image
  <2> QED
    BY <1>1, <1>2, <2>1, <2>2 DEF JobTypes
<1>6. \A k \in Job' : Imaged(k)' /\ Fresh(k)' /\ Owed(k)'
  BY <1>2, <1>4 DEF Imaged, Fresh, Owed
<1> QED
  BY <1>2, <1>3, <1>5, <1>6 DEF JobInv, OncePerJob

-----------------------------------------------------------------------------
(* A step of the job k leaves what the other jobs are at alone.             *)
Alone(k) ==
  /\ UNCHANGED <<plan, kind>> /\ Job' = Job
  /\ \A l \in Job \ {k} : /\ at'[l] = at[l] /\ configs'[l] = configs[l] /\ broken'[l] = broken[l]
                          /\ tagged'[l] = tagged[l] /\ loaded'[l] = loaded[l]
  /\ analysed \subseteq analysed' /\ \A a \in analysed' \ analysed : a.job = k

LEMMA OtherJobs ==
  ASSUME JobInv, NEW k \in Job, Alone(k), NEW l \in Job \ {k}
  PROVE  Imaged(l)' /\ Fresh(l)' /\ Owed(l)'
<1>1. Imaged(l) /\ Fresh(l) /\ Owed(l) /\ Found(l)' = Found(l)
  BY DEF JobInv, Alone, Found, Selected, InChunk, plan
<1>2. Current(l)' = Current(l) /\ at'[l] = at[l] /\ configs'[l] = configs[l] /\ broken'[l] = broken[l]
      /\ tagged'[l] = tagged[l] /\ loaded'[l] = loaded[l]
  BY DEF Alone, Current
<1>3. \A p : Passed(l, p) => Passed(l, p)'
  BY DEF Passed, Alone
<1>4. Imaged(l)'
  BY <1>1, <1>2 DEF Imaged
<1>5. Fresh(l)'
  BY <1>1, <1>2 DEF Fresh, Alone
<1>6. Owed(l)'
  BY <1>1, <1>2, <1>3 DEF Owed
<1> QED
  BY <1>4, <1>5, <1>6

(* A step that analyses nothing keeps the invariant if it does so for its   *)
(* own job.                                                                 *)
LEMMA QuietStep ==
  ASSUME JobInv, NEW k \in Job, Alone(k), analysed' = analysed, JobTypes',
         configs'[k] \subseteq configs[k] \/ at[k] = "find",
         Imaged(k)', Fresh(k)', Owed(k)'
  PROVE  JobInv'
<1>1. ShardInv' /\ OncePerJob'
  BY NextShardInv DEF JobInv, Alone, OncePerJob
<1>2. \A l \in Job' : Imaged(l)' /\ Fresh(l)' /\ Owed(l)'
  BY OtherJobs DEF Alone
<1>3. ASSUME NEW a \in analysed PROVE Judged(a)'
  <2>1. Judged(a) /\ a.job \in Job /\ (\A l \in Job : Found(l)' = Found(l))
    BY DEF JobInv, JobTypes, Alone, Found, Selected, InChunk, plan
  <2>2. CASE a.job = k /\ at[k] = "find"
    BY <2>2 DEF JobInv, Fresh
  <2>3. CASE a.job # k \/ configs'[k] \subseteq configs[k]
    <3>1. configs'[a.job] \subseteq configs[a.job]
      BY <2>1, <2>3 DEF Alone
    <3> QED
      BY <2>1, <3>1 DEF Judged
  <2> QED
    BY <2>2, <2>3
<1> QED
  BY <1>1, <1>2, <1>3 DEF JobInv

(* The current sub-test goes, however it ended.                             *)
LEMMA NextConfigType ==
  ASSUME JobTypes, NEW k \in Job, NEW ok \in BOOLEAN, NextConfig(k, ok)
  PROVE  /\ configs' \in [Job -> SUBSET DOMAIN AllDirs] /\ broken' \in [Job -> BOOLEAN]
         /\ configs'[k] = configs[k] \ {Min(configs[k])}
         /\ broken'[k] = (broken[k] \/ ~ok)
         /\ \A l \in Job \ {k} : configs'[l] = configs[l] /\ broken'[l] = broken[l]
BY DEF JobTypes, NextConfig

LEMMA GotoType ==
  ASSUME JobTypes, NEW k \in Job, NEW from, NEW to \in States, Goto(k, from, to)
  PROVE  /\ at' \in [Job -> States] /\ Job' = Job
         /\ at[k] = from /\ at'[k] = to /\ \A l \in Job \ {k} : at'[l] = at[l]
BY DEF JobTypes, Goto, Job

LEMMA StartKeeps == ASSUME JobInv, NEW k \in Job, Start(k) PROVE JobInv'
<1>1. /\ at' \in [Job -> States] /\ Job' = Job /\ at[k] = "queued" /\ at'[k] = "find"
      /\ \A l \in Job \ {k} : at'[l] = at[l]
  BY GotoType DEF Start, JobInv, States
<1>2. JobTypes' /\ Alone(k)
  BY <1>1 DEF Start, JobInv, JobTypes, Alone, plan
<1>3. Imaged(k)' /\ Fresh(k)' /\ Owed(k)'
  BY <1>1 DEF Start, JobInv, Imaged, Fresh, Owed
<1> QED
  BY <1>2, <1>3, QuietStep DEF Start

LEMMA FindKeeps == ASSUME JobInv, NEW k \in Job, Find(k) PROVE JobInv'
<1> DEFINE to == IF Found(k) = {} THEN "red" ELSE "next"
<1>1. /\ Goto(k, "find", to) /\ configs' = [configs EXCEPT ![k] = Found(k)]
      /\ bases' = [bases EXCEPT ![k] = BasesOf(Found(k))]
      /\ \E b \in BOOLEAN : broken' = [broken EXCEPT ![k] = b]
      /\ UNCHANGED <<plan, kind, tagged, loaded, analysed>>
  BY DEF Find, Found
<1>2. /\ at' \in [Job -> States] /\ Job' = Job /\ at[k] = "find" /\ at'[k] = to
      /\ \A l \in Job \ {k} : at'[l] = at[l]
  BY <1>1, GotoType DEF JobInv, States
<1>3. BasesOf(Found(k)) \subseteq {Base[n] : n \in Name}
  <2>1. \A p \in DOMAIN AllDirs : AllDirs[p] \in Name
    BY HarnessAssumption
  <2> QED
    BY <2>1 DEF BasesOf, Found
<1>4. JobTypes'
  <2>1. Found(k) \in SUBSET DOMAIN AllDirs
    BY DEF Found
  <2>2. configs' \in [Job -> SUBSET DOMAIN AllDirs]
    BY <1>1, <2>1 DEF JobInv, JobTypes
  <2>3. bases' \in [Job -> SUBSET {Base[n] : n \in Name}]
    BY <1>1, <1>3 DEF JobInv, JobTypes
  <2>4. broken' \in [Job -> BOOLEAN]
    BY <1>1 DEF JobInv, JobTypes
  <2>5. /\ listing' = listing /\ chunks' = chunks /\ kind' = kind /\ tagged' = tagged
        /\ loaded' = loaded /\ analysed' = analysed /\ Job' = Job /\ at' \in [Job -> States]
    BY <1>1, <1>2 DEF plan
  <2>6. JobTypes
    BY DEF JobInv
  <2> QED
    BY <2>2, <2>3, <2>4, <2>5, <2>6 DEF JobTypes
<1>5. Alone(k)
  BY <1>1, <1>2 DEF JobInv, JobTypes, Alone
<1>6. configs'[k] = Found(k) /\ Found(k)' = Found(k)
  BY <1>1 DEF JobInv, JobTypes, Found, Selected, InChunk, plan
<1>7. Imaged(k)' /\ Fresh(k)' /\ Owed(k)'
  BY <1>2, <1>6 DEF Imaged, Fresh, Owed
<1> QED
  BY <1>1, <1>2, <1>4, <1>5, <1>7, QuietStep

LEMMA BuildBaseKeeps == ASSUME JobInv, NEW k \in Job, BuildBase(k) PROVE JobInv'
<1>1. /\ at' \in [Job -> States] /\ Job' = Job /\ at[k] = "next" /\ at'[k] \in {"next", "red"}
      /\ \A l \in Job \ {k} : at'[l] = at[l]
  BY GotoType DEF BuildBase, JobInv, States
<1>2. JobTypes' /\ Alone(k)
  BY <1>1 DEF BuildBase, JobInv, JobTypes, Alone, plan
<1>3. Imaged(k)' /\ Fresh(k)' /\ Owed(k)'
  BY <1>1 DEF BuildBase, JobInv, Imaged, Fresh, Owed, Found, Selected, InChunk, Passed, plan
<1> QED
  BY <1>2, <1>3, QuietStep DEF BuildBase

LEMMA BuildKeeps == ASSUME JobInv, NEW k \in Job, Build(k) PROVE JobInv'
<1>1. /\ at' \in [Job -> States] /\ Job' = Job /\ at[k] = "next" /\ at'[k] = "run"
      /\ \A l \in Job \ {k} : at'[l] = at[l]
  BY GotoType DEF Build, JobInv, States
<1>2. configs[k] # {} /\ Current(k) \in Name /\ Current(k)' = Current(k)
      /\ tagged' = [tagged EXCEPT ![k] = Current(k)]
  BY CurrentIsFound DEF Build, DaemonOf, JobInv, Current
<1>3. JobTypes'
  <2>1. tagged' \in [Job -> Image]
    BY <1>2 DEF JobInv, JobTypes, Image
  <2>2. /\ listing' = listing /\ chunks' = chunks /\ kind' = kind /\ configs' = configs
        /\ bases' = bases /\ broken' = broken /\ loaded' = loaded /\ analysed' = analysed
    BY DEF Build, plan
  <2>3. JobTypes
    BY DEF JobInv
  <2> QED
    BY <1>1, <2>1, <2>2, <2>3 DEF JobTypes
<1>4. Alone(k) /\ tagged'[k] = Current(k)
  BY <1>1, <1>2 DEF Build, JobInv, JobTypes, Alone
<1>5. Imaged(k)' /\ Fresh(k)' /\ Owed(k)'
  BY <1>1, <1>2, <1>4 DEF Build, JobInv, Imaged, Fresh, Owed, Found, Selected, InChunk, Passed, plan
<1> QED
  BY <1>3, <1>4, <1>5, QuietStep DEF Build

LEMMA RunKeeps == ASSUME JobInv, NEW k \in Job, Run(k) PROVE JobInv'
<1>1. /\ at' \in [Job -> States] /\ Job' = Job /\ at[k] = "run" /\ at'[k] = "running"
      /\ \A l \in Job \ {k} : at'[l] = at[l]
  BY GotoType DEF Run, JobInv, States
<1>2. loaded' = [loaded EXCEPT ![k] = tagged[k]] /\ Current(k)' = Current(k)
  BY DEF Run, DaemonOf, Current
<1>3. JobTypes' /\ Alone(k) /\ loaded'[k] = tagged[k]
  BY <1>1, <1>2 DEF Run, JobInv, JobTypes, Alone, plan
<1>4. Imaged(k)' /\ Fresh(k)' /\ Owed(k)'
  BY <1>1, <1>2, <1>3 DEF Run, JobInv, Imaged, Fresh, Owed, Found, Selected, InChunk, Passed, plan
<1> QED
  BY <1>3, <1>4, QuietStep DEF Run

(* A sub-test that fails before its analysis: the job will be red.          *)
LEMMA FailedConfigKeeps ==
  ASSUME JobInv, NEW k \in Job, at[k] \in {"next", "running"}, Goto(k, at[k], "next"),
         NextConfig(k, FALSE), UNCHANGED <<plan, kind, bases, tagged, loaded, analysed>>
  PROVE  JobInv'
<1>1. /\ at' \in [Job -> States] /\ Job' = Job /\ at'[k] = "next"
      /\ \A l \in Job \ {k} : at'[l] = at[l]
  BY GotoType DEF JobInv, States
<1>2. /\ configs' \in [Job -> SUBSET DOMAIN AllDirs] /\ broken' \in [Job -> BOOLEAN]
      /\ configs'[k] \subseteq configs[k] /\ broken'[k]
      /\ \A l \in Job \ {k} : configs'[l] = configs[l] /\ broken'[l] = broken[l]
  BY NextConfigType DEF JobInv
<1>3. JobTypes' /\ Alone(k)
  BY <1>1, <1>2 DEF JobInv, JobTypes, Alone, plan
<1>4. Imaged(k)' /\ Fresh(k)' /\ Owed(k)'
  BY <1>1, <1>2 DEF JobInv, Imaged, Fresh, Owed, Found, Selected, InChunk, plan
<1> QED
  BY <1>2, <1>3, <1>4, QuietStep

LEMMA RunEndsKeeps == ASSUME JobInv, NEW k \in Job, RunEnds(k) PROVE JobInv'
<1>1. CASE Goto(k, "running", "analyze") /\ UNCHANGED <<configs, broken>>
  <2>1. /\ at' \in [Job -> States] /\ Job' = Job /\ at[k] = "running" /\ at'[k] = "analyze"
        /\ \A l \in Job \ {k} : at'[l] = at[l]
    BY <1>1, GotoType DEF JobInv, States
  <2>2. JobTypes' /\ Alone(k)
    BY <1>1, <2>1 DEF RunEnds, JobInv, JobTypes, Alone, plan
  <2>3. Imaged(k)' /\ Fresh(k)' /\ Owed(k)'
    BY <1>1, <2>1 DEF RunEnds, JobInv, Imaged, Fresh, Owed, Found, Selected, InChunk, Passed, plan, Current
  <2> QED
    BY <1>1, <2>2, <2>3, QuietStep DEF RunEnds
<1>2. CASE Goto(k, "running", "next") /\ NextConfig(k, FALSE)
  BY <1>2, FailedConfigKeeps DEF RunEnds, Goto
<1> QED
  BY <1>1, <1>2 DEF RunEnds

(* A job that ends: green only with nothing left to do and nothing broken.  *)
LEMMA EndKeeps ==
  ASSUME JobInv, NEW k \in Job, NEW to \in {"red", "green"}, Goto(k, at[k], to),
         to = "green" => at[k] = "next" /\ configs[k] = {} /\ ~broken[k],
         UNCHANGED <<plan, kind, configs, bases, broken, tagged, loaded, analysed>>
  PROVE  JobInv'
<1>1. /\ at' \in [Job -> States] /\ Job' = Job /\ at'[k] = to
      /\ \A l \in Job \ {k} : at'[l] = at[l]
  BY GotoType DEF JobInv, States
<1>2. JobTypes' /\ Alone(k)
  BY <1>1 DEF JobInv, JobTypes, Alone, plan
<1>3. Imaged(k)' /\ Fresh(k)' /\ Owed(k)'
  BY <1>1 DEF JobInv, Imaged, Fresh, Owed, Found, Selected, InChunk, Passed, plan
<1> QED
  BY <1>2, <1>3, QuietStep

(* The scenario that is analysed leaves the list in the same step, and with *)
(* the verdict the list of what the job owes.                               *)
LEMMA AnalyzeKeeps == ASSUME JobInv, NEW k \in Job, Analyze(k) PROVE JobInv'
<1>1. PICK verdict \in {"pass", "fail", "panic"} :
        /\ Goto(k, "analyze", IF verdict = "panic" THEN "red" ELSE "next")
        /\ NextConfig(k, verdict = "pass")
        /\ analysed' = analysed \cup {[job |-> k, scenario |-> Current(k),
                                       image |-> loaded[k], verdict |-> verdict]}
        /\ UNCHANGED <<plan, kind, bases, tagged, loaded>>
  BY DEF Analyze
<1> DEFINE to == IF verdict = "panic" THEN "red" ELSE "next"
           m == Min(configs[k])
<1>r. PICK r : /\ r = [job |-> k, scenario |-> Current(k), image |-> loaded[k], verdict |-> verdict]
               /\ analysed' = analysed \cup {r}
  BY <1>1
<1>2. /\ at' \in [Job -> States] /\ Job' = Job /\ at[k] = "analyze" /\ at'[k] = to
      /\ \A l \in Job \ {k} : at'[l] = at[l]
  BY <1>1, GotoType DEF JobInv, States
<1>3. /\ configs' \in [Job -> SUBSET DOMAIN AllDirs] /\ broken' \in [Job -> BOOLEAN]
      /\ configs'[k] = configs[k] \ {m} /\ broken'[k] = (broken[k] \/ verdict # "pass")
      /\ \A l \in Job \ {k} : configs'[l] = configs[l] /\ broken'[l] = broken[l]
  BY <1>1, NextConfigType DEF JobInv
<1>4. m \in configs[k] /\ Current(k) = AllDirs[m] /\ Current(k) \in Name /\ loaded[k] = Current(k)
  BY <1>2, CurrentIsFound DEF JobInv, Imaged
<1>5. configs[k] \subseteq Found(k) /\ \A l \in Job : Found(l)' = Found(l)
  BY <1>1 DEF JobInv, Owed, Found, Selected, InChunk, plan
<1> HIDE DEF m, to
<1>6. JobTypes'
  <2>1. r \in [job : Job, scenario : Name, image : Image, verdict : {"pass", "fail", "panic"}]
    BY <1>r, <1>4 DEF Image
  <2>2. /\ listing' = listing /\ chunks' = chunks /\ kind' = kind /\ tagged' = tagged
        /\ loaded' = loaded /\ bases' = bases
    BY <1>1 DEF plan
  <2>3. JobTypes
    BY DEF JobInv
  <2> QED
    BY <1>r, <1>2, <1>3, <2>1, <2>2, <2>3 DEF JobTypes
<1>7. Alone(k)
  BY <1>1, <1>r, <1>2, <1>3 DEF JobInv, JobTypes, Alone
<1>8. ShardInv'
  BY <1>1, NextShardInv DEF JobInv
<1>9. \A a \in analysed' : Judged(a)'
  <2>1. ASSUME NEW a \in analysed PROVE Judged(a)'
    <3>1. Judged(a) /\ a.job \in Job
      BY DEF JobInv, JobTypes
    <3>2. configs'[a.job] \subseteq configs[a.job]
      BY <1>3, <3>1
    <3> QED
      BY <1>5, <3>1, <3>2 DEF Judged
  <2>2. Judged(r)'
    <3>1. r.job = k /\ r.image = AllDirs[m] /\ r.scenario = AllDirs[m]
      BY <1>r, <1>4
    <3>2. m \in Found(k)' \ configs'[k]
      BY <1>3, <1>4, <1>5
    <3> QED
      BY <3>1, <3>2 DEF Judged
  <2> QED
    BY <1>r, <2>1, <2>2
<1>10. ASSUME NEW a \in analysed, a.job = k, a.scenario = Current(k) PROVE FALSE
  <2>1. PICK p \in Found(k) \ configs[k] : AllDirs[p] = AllDirs[m]
    BY <1>4, <1>10 DEF JobInv, Judged
  <2>2. p = m
    BY <1>4, <1>5, <2>1, HarnessAssumption DEF Found
  <2> QED
    BY <1>4, <2>1, <2>2
<1>11. OncePerJob'
  BY <1>r, <1>10 DEF JobInv, OncePerJob
<1>12. Owed(k)'
  <2>1. configs'[k] \subseteq Found(k)' /\ to # "green"
    BY <1>3, <1>5 DEF to
  <2>2. ASSUME NEW p \in Found(k) PROVE p \in configs'[k] \/ broken'[k] \/ Passed(k, p)'
    <3>1. p \in configs[k] \/ broken[k] \/ Passed(k, p)
      BY <1>2 DEF JobInv, Owed
    <3>2. CASE p = m
      <4>1. verdict = "pass" => Passed(k, p)'
        <5>1. verdict = "pass" => r.job = k /\ r.scenario = AllDirs[p] /\ r.verdict = "pass"
          BY <1>r, <1>4, <3>2
        <5>2. r \in analysed'
          BY <1>r
        <5> QED
          BY <5>1, <5>2 DEF Passed
      <4> QED
        BY <1>3, <4>1
    <3>3. CASE p # m
      <4>1. Passed(k, p) => Passed(k, p)'
        BY <1>r DEF Passed
      <4> QED
        BY <1>3, <3>1, <3>3, <4>1
    <3> QED
      BY <3>2, <3>3
  <2> QED
    BY <1>2, <1>5, <2>1, <2>2 DEF Owed
<1>13. Imaged(k)' /\ Fresh(k)'
  BY <1>2 DEF Imaged, Fresh, to
<1>14. \A l \in Job' : Imaged(l)' /\ Fresh(l)' /\ Owed(l)'
  BY <1>2, <1>7, <1>12, <1>13, OtherJobs
<1> QED
  BY <1>6, <1>8, <1>9, <1>11, <1>14 DEF JobInv

LEMMA NextJobInv == JobInv /\ [Next]_hvars => JobInv'
<1> SUFFICES ASSUME JobInv, [Next]_hvars PROVE JobInv'
  OBVIOUS
<1>1. CASE Planning \/ UNCHANGED hvars
  BY <1>1, PlanningKeeps
<1>2. CASE Dispatch
  BY <1>2, DispatchKeeps
<1>3. ASSUME NEW k \in Job, Work(k) \/ RunEnds(k) PROVE JobInv'
  <2>1. CASE BuildFails(k)
    BY <2>1, FailedConfigKeeps DEF BuildFails, Goto
  <2>2. CASE Finish(k)
    <3>1. PICK to \in {"red", "green"} : to = IF broken[k] THEN "red" ELSE "green"
      OBVIOUS
    <3>2. Goto(k, at[k], to)
      BY <2>2, <3>1 DEF Finish, Goto
    <3>3. to = "green" => at[k] = "next" /\ configs[k] = {} /\ ~broken[k]
      BY <2>2, <3>1 DEF Finish, Goto
    <3> QED
      BY <2>2, <3>2, <3>3, EndKeeps DEF Finish
  <2>3. CASE TimesOut(k)
    BY <2>3, EndKeeps DEF TimesOut, Goto
  <2> QED
    BY <1>3, <2>1, <2>2, <2>3, StartKeeps, FindKeeps, BuildBaseKeeps, BuildKeeps, RunKeeps,
       RunEndsKeeps, AnalyzeKeeps DEF Work
<1> QED
  BY <1>1, <1>2, <1>3 DEF Next

LEMMA JobInvHolds == Spec => []JobInv
BY InitJobInv, NextJobInv, PTL DEF Spec

(* Although all scenarios are built under one tag, what is analysed for one *)
(* was left behind by a container of its own image (DaemonOf, buildTestApp).*)
THEOREM ImagesAreOwn == Spec => []OwnImage
<1>1. JobInv => OwnImage
  BY DEF JobInv, Judged, OwnImage
<1> QED
  BY <1>1, JobInvHolds, PTL

(* The names of a shard are not quoted in its regex; this is so when each   *)
(* selects its own directory only.                                          *)
SelectsItself == \A n \in Name : Selects[n] = {n}

(* Then no scenario is run twice, in one job or in two (list-scenarios,     *)
(* testScenarios).                                                          *)
THEOREM NothingRunsTwice == SelectsItself => (Spec => []RunsOnce)
<1> SUFFICES ASSUME SelectsItself PROVE Spec => []RunsOnce
  OBVIOUS
<1>1. JobInv => RunsOnce
  <2> SUFFICES ASSUME JobInv PROVE RunsOnce
    OBVIOUS
  <2>1. ASSUME NEW k \in Job, NEW l \in Job, NEW p \in Found(k), NEW q \in Found(l),
               AllDirs[p] = AllDirs[q]
        PROVE  k = l /\ p = q
    <3>1. p = q /\ AllDirs[p] \in Name
      BY <2>1, HarnessAssumption DEF Found
    <3>2. InChunk(k, AllDirs[p]) /\ InChunk(l, AllDirs[p])
      BY <2>1, <3>1 DEF Found, Selected, SelectsItself
    <3>3. k \in DOMAIN chunks /\ l \in DOMAIN chunks
      BY DEF JobInv, JobTypes
    <3> QED
      BY <3>1, <3>2, <3>3 DEF JobInv, ShardInv, Once
  <2>2. \A a \in analysed : a.job \in Job /\ \E p \in Found(a.job) \ configs[a.job] : AllDirs[p] = a.scenario
    BY DEF JobInv, JobTypes, Judged
  <2>3. \A a, b \in analysed : a.scenario = b.scenario => a = b
    BY <2>1, <2>2 DEF JobInv, OncePerJob
  <2>4. ASSUME NEW a \in analysed, NEW k \in Job, NEW p \in configs[k], AllDirs[p] = a.scenario
        PROVE  FALSE
    <3>1. p \in Found(k)
      BY DEF JobInv, Owed
    <3>2. PICK q \in Found(a.job) \ configs[a.job] : AllDirs[q] = a.scenario
      BY <2>2
    <3> QED
      BY <2>1, <2>2, <2>4, <3>1, <3>2
  <2> QED
    BY <2>3, <2>4 DEF RunsOnce
<1> QED
  BY <1>1, JobInvHolds, PTL

(* When all jobs of a workflow are green, every complete scenario that was  *)
(* asked for has been analysed and has passed: none is lost between the     *)
(* listing, the shards, their regexes and the discovery.                    *)
THEOREM GreenIsComplete == Spec => []GreenMeansAllPassed
<1>1. JobInv => GreenMeansAllPassed
  <2> SUFFICES ASSUME JobInv, Job # {}, \A k \in Job : at[k] = "green",
                      NEW j \in DOMAIN names, kind[names[j]] = "complete"
               PROVE  \E a \in analysed : a.scenario = names[j] /\ a.verdict = "pass"
    BY DEF GreenMeansAllPassed
  <2>1. Job = DOMAIN chunks /\ listing = "emitted" /\ names \in Listing
    BY DEF JobInv, JobTypes, ShardInv, Types
  <2>2. PICK k \in Job : InChunk(k, names[j])
    <3>1. names \in Seq(Name) /\ i > Len(names) /\ i \in Nat
      BY <2>1, ShardingAssumption DEF JobInv, ShardInv, AllCut, Types
    <3>2. j < i
      BY <3>1
    <3> QED
      BY <2>1, <3>2 DEF JobInv, ShardInv, Covered
  <2>3. PICK p \in DOMAIN AllDirs : AllDirs[p] = names[j]
    BY <2>1, HarnessAssumption
  <2>4. names[j] \in Name /\ names[j] \in Selects[names[j]]
    BY <2>3, HarnessAssumption
  <2>5. p \in Found(k)
    BY <2>2, <2>3, <2>4 DEF Found, Selected
  <2>6. Passed(k, p)
    BY <2>5 DEF JobInv, Owed
  <2> QED
    BY <2>3, <2>6 DEF Passed
<1> QED
  BY <1>1, JobInvHolds, PTL
=============================================================================
