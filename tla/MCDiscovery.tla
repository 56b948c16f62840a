----------------------------- MODULE MCDiscovery -----------------------------
(* Instances of Discovery: every flat tree of four directories in which a   *)
(* directory has any subset of the two files, and trees with a nested one.  *)
EXTENDS Discovery, SequencesExt

CONSTANTS NDirs

MCDir == 1..NDirs

FilesOf(d, has) ==
  SelectSeq(<<[dir |-> d, kind |-> Dockerfile], [dir |-> d, kind |-> Other], [dir |-> d, kind |-> Json]>>,
            LAMBDA e : e.kind \in has)

FlatWalks ==
  {FoldLeft(LAMBDA w, d : w \o FilesOf(d, has[d]), <<>>, [d \in MCDir |-> d]) :
     has \in [MCDir -> SUBSET {Dockerfile, Json}]}
  \cup {FilesOf(1, {Dockerfile, Other, Json}) \o FilesOf(2, {Other, Json})}

ASSUME FlatWalksAreFlat == \A w \in FlatWalks : Flat(w)
=============================================================================
