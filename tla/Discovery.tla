------------------------------ MODULE Discovery ------------------------------
(***************************************************************************)
(* findDockerConfigs: one walk over the scenarios pairs every Dockerfile   *)
(* with the expected_profile.json next to it.  The callback of the walk    *)
(* keeps the last of each in two variables that outlive a directory.       *)
(***************************************************************************)
EXTENDS Naturals, Sequences

CONSTANTS
  Dir,       \* directories of the tree
  NoDir,     \* the path "" of a file not seen yet
  Walk       \* the walks to consider: each a sequence of the files of a tree,
             \* in the order filepath.Walk visits them

Dockerfile == "Dockerfile"
Json       == "expected_profile.json"
Other      == "other"

Entry == [dir : Dir, kind : {Dockerfile, Json, Other}]

ASSUME DiscoveryAssumption ==
  /\ NoDir \notin Dir
  /\ Walk \subseteq Seq(Entry)

VARIABLES
  walk,           \* the files of the tree
  selected,       \* directories that match the scenario regex
  pos,            \* the file the walk is at
  jsonFilePath,   \* directory of the json remembered, or NoDir
  dockerfilePath, \* directory of the Dockerfile remembered, or NoDir
  configs,        \* directories paired so far, in order
  blamed          \* directories named by a "miss matching file structure" error

vars == <<walk, selected, pos, jsonFilePath, dockerfilePath, configs, blamed>>

Init ==
  /\ walk \in Walk
  /\ selected \in SUBSET Dir
  /\ pos = 1
  /\ jsonFilePath = NoDir /\ dockerfilePath = NoDir
  /\ configs = <<>> /\ blamed = {}

Here == walk[pos]

Ignored(e) == e.dir \notin selected \/ e.kind = Other

(* The callback returns early for a directory outside the regex and for     *)
(* other files.                                                             *)
Skip ==
  /\ pos <= Len(walk) /\ Ignored(Here)
  /\ pos' = pos + 1
  /\ UNCHANGED <<walk, selected, jsonFilePath, dockerfilePath, configs, blamed>>

JsonNow(e) == IF e.kind = Json THEN e.dir ELSE jsonFilePath

(* mutant: a Dockerfile does not replace the one of an earlier directory    *)
FirstDockerfile(e) ==
  IF e.kind = Dockerfile /\ dockerfilePath = NoDir THEN e.dir ELSE dockerfilePath

DockerfileNow(e) == IF e.kind = Dockerfile THEN e.dir ELSE dockerfilePath

(* The file is remembered ...                                               *)
Remember(e) == jsonFilePath' = JsonNow(e) /\ dockerfilePath' = DockerfileNow(e)

(* ... and waits for the other one of its directory,                        *)
Wait ==
  /\ pos <= Len(walk) /\ ~Ignored(Here)
  /\ JsonNow(Here) = NoDir \/ DockerfileNow(Here) = NoDir
  /\ Remember(Here)
  /\ pos' = pos + 1
  /\ UNCHANGED <<walk, selected, configs, blamed>>

(* meets a file of another directory: an error, and nothing is forgotten,   *)
Mismatch ==
  /\ pos <= Len(walk) /\ ~Ignored(Here)
  /\ JsonNow(Here) # NoDir /\ DockerfileNow(Here) # NoDir
  /\ JsonNow(Here) # DockerfileNow(Here)
  /\ Remember(Here)
  /\ blamed' = blamed \cup {JsonNow(Here)}
  /\ pos' = pos + 1
  /\ UNCHANGED <<walk, selected, configs>>

(* mutant: after a pair the json is kept                                    *)
ForgetDockerfile == jsonFilePath' = JsonNow(Here) /\ dockerfilePath' = NoDir

Forget == jsonFilePath' = NoDir /\ dockerfilePath' = NoDir

(* or completes a scenario, and both are forgotten.                         *)
Pair ==
  /\ pos <= Len(walk) /\ ~Ignored(Here)
  /\ JsonNow(Here) # NoDir /\ JsonNow(Here) = DockerfileNow(Here)
  /\ configs' = Append(configs, JsonNow(Here))
  /\ Forget
  /\ pos' = pos + 1
  /\ UNCHANGED <<walk, selected, blamed>>

Next == Skip \/ Wait \/ Mismatch \/ Pair

Spec == Init /\ [][Next]_vars
-----------------------------------------------------------------------------
(* Every variable has its type, and what is remembered is never a pair.     *)
TypeOK ==
  /\ walk \in Seq(Entry)
  /\ selected \subseteq Dir
  /\ pos \in 1..(Len(walk) + 1)
  /\ jsonFilePath \in Dir \cup {NoDir}
  /\ dockerfilePath \in Dir \cup {NoDir}
  /\ jsonFilePath # NoDir => jsonFilePath # dockerfilePath
  /\ configs \in Seq(Dir)
  /\ blamed \subseteq Dir

(* A flat tree, as the repository has: the files of a directory follow each *)
(* other, "Dockerfile" before "expected_profile.json", once each.           *)
Flat(w) ==
  \A i, j \in DOMAIN w :
    i < j /\ w[i].dir = w[j].dir =>
      /\ \A k \in i..j : w[k].dir = w[i].dir
      /\ ~(w[i].kind = Json /\ w[j].kind = Dockerfile)
      /\ w[i].kind = w[j].kind => w[i].kind = Other

Has(d, kind, n) == \E i \in 1..n : i <= Len(walk) /\ walk[i] = [dir |-> d, kind |-> kind]

(* The selected scenarios the walk has gone past, both files seen.          *)
Complete(d, n) == d \in selected /\ Has(d, Dockerfile, n) /\ Has(d, Json, n)

Found == {configs[i] : i \in DOMAIN configs}

NoDuplicates == \A i, j \in DOMAIN configs : configs[i] = configs[j] => i = j

(* Whatever incomplete directories lie between them, each complete scenario *)
(* becomes exactly one config as soon as both its files were visited, and   *)
(* nothing else becomes one.                                                *)
FindsTheComplete ==
  /\ NoDuplicates
  /\ \A d \in Dir : d \in Found <=> Complete(d, pos - 1)

(* The error names a directory that really lacks its Dockerfile, never a    *)
(* complete scenario that happens to stand next to an incomplete one.       *)
BlamesTheIncomplete == \A d \in blamed : d \in selected /\ ~Has(d, Dockerfile, Len(walk))
=============================================================================
