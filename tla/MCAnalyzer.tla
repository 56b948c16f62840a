----------------------------- MODULE MCAnalyzer -----------------------------
(* Instances of Analyzer: two profiles of one Python process and one OTLP   *)
(* export, whose dump is told apart from it by captureJSONPath's guard.     *)
EXTENDS AnalyzerProperties

N(stem, ext) == [stem |-> stem, gen |-> 0, ext |-> ext]

Profile0 == N("profile.7", "0")
Profile1 == N("profile.7", "1")
Otlp     == N("x.otlp", "json")
OtlpPb   == N("x.otlp", "pb")

MCStem        == {"profile.7", "x.otlp"}
MCProfileStem == {"profile.7"}
MCExt         == {"0", "1", "json", "pb"}

(* Lexical order: "capture" sorts before the extensions that begin with a   *)
(* later letter and after digits.                                           *)
ExtRank == [e \in MCExt |-> CASE e = "0" -> 0 [] e = "1" -> 1 [] e = "json" -> 8 [] e = "pb" -> 9]
RankOf(n) == (IF n.stem = "x.otlp" THEN 10 ELSE 0)
             + (IF n.gen = 0 THEN ExtRank[n.ext] ELSE 7 - n.gen)
MCLeq(m, n) == RankOf(m) <= RankOf(n)

(* Patterns that leave dumps alone.                                         *)
SafePattern  == {"otlp", "any"}
SafeAccepted == [p \in SafePattern |-> IF p = "otlp" THEN {Otlp} ELSE {Profile0, Profile1, Otlp}]
SafeFolders  == {{Profile0, Profile1, Otlp}, {Profile0, Profile1}}

(* Patterns and names that do not: "json" matches what ends in .json.       *)
LoosePattern  == {"json", "otlp"}
LooseAccepted == [p \in LoosePattern |->
                   IF p = "otlp" THEN {Otlp, OtlpPb}
                   ELSE {[stem |-> s, gen |-> g, ext |-> "json"] : s \in MCStem, g \in 0..2}]
LooseFolders  == {{Profile0, Otlp}, {Otlp, OtlpPb}}

(* The dumps of these profiles: NamesApart holds of the safe instance.      *)
SafeDumps == {N("profile.7", "json"), [stem |-> "x.otlp", gen |-> 1, ext |-> "json"]}

ASSUME SafeNames ==
  SafeDumps \cap UNION (SafeFolders \cup {SafeAccepted[p] : p \in SafePattern}) = {}
=============================================================================
