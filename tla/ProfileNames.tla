---------------------------- MODULE ProfileNames ----------------------------
(***************************************************************************)
(* File names of a profile folder, as far as the analyzer looks at them.   *)
(*                                                                         *)
(* A name is a stem, a number of ".capture" infixes and an extension (what *)
(* filepath.Ext returns): "profile.7.0" is [stem |-> "profile.7", gen |-> 0,*)
(* ext |-> "0"], and "x.otlp.capture.json" is [stem |-> "x.otlp",          *)
(* gen |-> 1, ext |-> "json"].                                             *)
(***************************************************************************)
EXTENDS Naturals

CONSTANTS
  Stem,         \* stems of the files of a profile folder
  ProfileStem,  \* the stems that begin like a profile: ^(profile|.*pprof)
  Ext,          \* extensions
  Pattern,      \* pprof-regex values of an expected_profile.json that compile
  Accepted      \* what each of them matches: [Pattern -> SUBSET Name]

Name == [stem : Stem, gen : Nat, ext : Ext]

Unset   == "unset"     \* "pprof-regex" absent or ""
Invalid == "invalid"   \* a "pprof-regex" that regexp.MustCompile rejects
Regex   == Pattern \cup {Unset, Invalid}

ASSUME NamesAssumption ==
  /\ ProfileStem \subseteq Stem
  /\ "json" \in Ext
  /\ Unset \notin Pattern /\ Invalid \notin Pattern
  /\ Accepted \in [Pattern -> SUBSET Name]

DefaultAcceptsAnyExt(n) == n.stem \in ProfileStem   \* mutant: .json not excluded

(* The default pprof-regex: profile-like names that do not end in .json.   *)
DefaultAccepts(n) == n.stem \in ProfileStem /\ n.ext # "json"

Accepts(rx, n) == \/ rx = Unset /\ DefaultAccepts(n)
                  \/ rx \in Pattern /\ n \in Accepted[rx]

WithJson(n) == [n EXCEPT !.ext = "json"]

(* captureJSONPath: where the dump of the profile n is written, with its   *)
(* guard against a dump named like its own source.                         *)
CapturePath(n) == IF WithJson(n) = n THEN [n EXCEPT !.gen = @ + 1] ELSE WithJson(n)
=============================================================================
