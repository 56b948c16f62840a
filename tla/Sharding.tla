------------------------------ MODULE Sharding ------------------------------
(***************************************************************************)
(* list-scenarios: the names of the scenario directories that match a      *)
(* pattern, sorted, are cut into shards of at most ChunkSize names.        *)
(***************************************************************************)
EXTENDS Integers, Sequences

CONSTANTS
  Name,      \* names of scenario directories
  Listing,   \* the sorted lists of matching names to consider
  ChunkSize  \* -chunk-size

ASSUME ShardingAssumption ==
  /\ ChunkSize \in Nat \ {0}
  /\ Listing \subseteq Seq(Name)
  /\ \A l \in Listing : \A j, k \in DOMAIN l : l[j] = l[k] => j = k

VARIABLES
  names,   \* the names that match
  i,       \* where the next chunk starts
  chunks,  \* the chunks cut so far
  listing  \* "packing", "emitted" or "error"

plan == <<names, i, chunks, listing>>

SInit ==
  /\ names \in Listing
  /\ i = 1 /\ chunks = <<>> /\ listing = "packing"

(* The pattern does not compile, the directory cannot be read, or no name   *)
(* matches: an error and no shards.                                         *)
Refuse ==
  /\ listing = "packing" /\ i = 1
  /\ listing' = "error"
  /\ UNCHANGED <<names, i, chunks>>

EndShort == i + ChunkSize - 2   \* mutants: a chunk ends one name early
EndLong  == IF i + ChunkSize > Len(names) THEN Len(names) ELSE i + ChunkSize   \* or late

(* The last name of the chunk that starts at i.                             *)
End == IF i + ChunkSize - 1 > Len(names) THEN Len(names) ELSE i + ChunkSize - 1

Pack ==
  /\ listing = "packing" /\ i <= Len(names)
  /\ chunks' = Append(chunks, SubSeq(names, i, End))
  /\ i' = i + ChunkSize
  /\ UNCHANGED <<names, listing>>

Emit ==
  /\ listing = "packing" /\ i > Len(names) /\ names # <<>>
  /\ listing' = "emitted"
  /\ UNCHANGED <<names, i, chunks>>

SNext == Refuse \/ Pack \/ Emit

SSpec == SInit /\ [][SNext]_plan
-----------------------------------------------------------------------------
InChunk(k, n) == \E p \in DOMAIN chunks[k] : chunks[k][p] = n

(* What is emitted is a partition of the matching names into non-empty      *)
(* shards of at most ChunkSize: no scenario is left out or run twice.       *)
Partitioned ==
  listing = "emitted" =>
    /\ \A j \in DOMAIN names : \E k \in DOMAIN chunks : InChunk(k, names[j])
    /\ \A k, l \in DOMAIN chunks : \A n \in Name : InChunk(k, n) /\ InChunk(l, n) => k = l
    /\ \A k \in DOMAIN chunks : Len(chunks[k]) \in 1..ChunkSize
=============================================================================
