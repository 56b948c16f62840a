------------------------------ MODULE MCCapture ------------------------------
(* An instance of Capture: files of up to two OTLP profiles, or a pprof     *)
(* file of two sample types, with labels to keep (1, 2) and to ignore (9).  *)
EXTENDS Capture

S(stack, val, labels) == [stack |-> stack, val |-> val, labels |-> labels]

None     == [k \in {} |-> <<>>]
Volatile == [k \in {9} |-> <<<<7>>>>]
OneKept  == [k \in {2, 9} |-> <<<<k>>>>]
TwoKept  == [k \in {1, 2} |-> <<<<k>>>>]
Pair     == [k \in {1} |-> <<<<4>>, <<5>>>>]

Plain  == <<S("a", 150, None), S("b", 3, None), S("a", 151, Volatile), S("b", 1, OneKept)>>
Twice  == <<S("a", 1, TwoKept), S("a", 250, TwoKept), S("a", 1, OneKept), S("b", 0, Pair)>>

P(type, samples, secs) == [type |-> type, samples |-> samples, secs |-> secs]

MCProfiles ==
  {P("cpu", Plain, 1), P("cpu", Twice, 2), P("cpu", Plain, 3), P("cpu", <<>>, 2), P("cpu", Twice, 0),
   P("alloc", Twice, 2), P("alloc", Plain, 0), P("alloc", <<S("c", 0, None)>>, 4)}

MCPprofFiles == {<<P("cpu", Plain, d), P("alloc", <<S("a", 7, None), S("b", 0, None), S("a", 9, Volatile),
                                                    S("b", 203, OneKept)>>, d)>> : d \in {0, 2}}

(* labelsKey tells the labels of all these samples apart, whichever are     *)
(* loaded together (GroupsStayWhole).                                       *)
ASSUME KeysDiffer == LabelsTellApart
=============================================================================
