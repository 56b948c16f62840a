------------------------------ MODULE MCHarness ------------------------------
(* An instance of Harness: shards of two out of four directories, with      *)
(* incomplete ones, a base image shared by two scenarios and one without.   *)
EXTENDS Harness

MCName    == {"a", "b", "c", "d"}
MCListing == {<<"a", "b", "c", "d">>, <<"a", "c", "d">>, <<"b">>}
MCAllDirs == <<"a", "b", "c", "d">>
MCSelects == [n \in MCName |-> {n}]
MCBase    == [n \in MCName |-> CASE n \in {"a", "c"} -> "py" [] n = "b" -> "ddprof" [] n = "d" -> "none"]

Holding(docker, json) ==
  [n \in MCName |-> CASE n \in docker -> "docker" [] n \in json -> "json" [] OTHER -> "complete"]
MCKinds == {Holding({}, {}), Holding({"b"}, {"d"}), Holding({"c", "d"}, {})}
=============================================================================
