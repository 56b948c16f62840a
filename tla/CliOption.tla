----------------------------- MODULE CliOption -----------------------------
(* The options of a CLI11 command: what an option may be given, what it      *)
(* keeps of the words it is given, and the callback that hands its values    *)
(* to the program.                                                           *)
(*                                                                           *)
(* A word of a command line is a record: d dashes in front, a text n (a      *)
(* sequence of atoms: the letters of a group of short flags, or the pieces   *)
(* between the separators of a list) and the text v after "=".  Everything   *)
(* an operator may change is in a record p, the parse in progress, whose     *)
(* field error is None until something is thrown.                            *)
EXTENDS CliConfig, FiniteSets, TLC

CONSTANTS MaxVec,    \* expected_max_vector_size, the count of an unlimited vector
          Digits,    \* the atoms that are digits
          Shapes     \* the programs looked at: their commands, options, configuration files

ASSUME MaxVecAssumption == MaxVec \in Nat /\ MaxVec >= 64

VARIABLE input       \* the program (commands, options, configuration files), the words and
                     \* the environment of one call

Word(d, n, v) == [d |-> d, n |-> n, v |-> v]
Plain(n) == Word(0, n, <<>>)
Empty == Plain(<<>>)
Mark == Word(2, <<>>, <<>>)              \* "--"
Braces == Plain(<<"{}">>)                \* an empty container
Separator == Plain(<<"%%">>)
TrueWord == Plain(<<"true">>)
FalseWord == Plain(<<"false">>)

(***************************************************************************)
(* Options as the program declares them.                                   *)
(***************************************************************************)
DefaultOption ==
    [long |-> {}, short |-> {}, pos |-> <<>>, tmin |-> 1, tmax |-> 1, emin |-> 1, emax |-> 1,
     flagLike |-> FALSE, extra |-> FALSE, inject |-> FALSE, required |-> FALSE, policy |-> "Throw",
     comma |-> FALSE, needs |-> {}, excludes |-> {}, trigger |-> FALSE, force |-> FALSE,
     env |-> None,
     configurable |-> TRUE, locked |-> FALSE, default |-> Empty, fvalue |-> [name \in {} |-> Empty],
     invalid |-> {}, unconvertible |-> {}]

\* expected(value): a negative count means at least that many.
Expected(o, value) ==
    CASE value < 0 -> [o EXCEPT !.emin = -value, !.emax = IF @ < -value THEN -value ELSE @,
                                !.extra = TRUE, !.flagLike = FALSE]
      [] value = MaxVec -> [o EXCEPT !.emin = 1, !.emax = MaxVec, !.extra = TRUE, !.flagLike = FALSE]
      [] OTHER -> [o EXCEPT !.emin = value, !.emax = value, !.flagLike = value = 0]

\* expected(min, max)
ExpectedRange(o, lo, hi) ==
    LET min == IF lo < 0 THEN -lo ELSE lo
        max == IF hi < 0 THEN MaxVec ELSE hi
    IN  [o EXCEPT !.emin = IF max < min THEN max ELSE min, !.emax = IF max < min THEN min ELSE max]

\* type_size(min, max)
TypeSize(o, lo, hi) ==
    [o EXCEPT !.tmin = IF lo > hi THEN hi ELSE lo, !.tmax = IF lo > hi THEN lo ELSE hi,
              !.required = @ /\ hi # 0, !.inject = @ \/ hi >= MaxVec]

\* multi_option_policy(value), with the condition it keeps for backward compatibility
WithPolicy(o, value) ==
    [o EXCEPT !.policy = value,
              !.emax = IF value # o.policy /\ o.policy = "Throw" /\ o.emax = MaxVec /\ o.emin > 1
                       THEN o.emin ELSE @]

\* add_option(name, variable): one value, or a vector when the variable is one.
AddOption(long, short, pos, vector) ==
    Expected([DefaultOption EXCEPT !.long = long, !.short = short, !.pos = pos],
             IF vector THEN MaxVec ELSE 1)

\* add_flag: no value is expected and the last one given counts.
AddFlag(long, short) ==
    Expected(WithPolicy([DefaultOption EXCEPT !.long = long, !.short = short], "TakeLast"), 0)

\* add_flag of an integer: the flag counts, and is set even when it is not given.
AddCounter(long, short) ==
    [WithPolicy(AddFlag(long, short), "Sum") EXCEPT !.default = Plain(<<"0">>), !.force = TRUE]

Shape == input.program
Opt(o) == Shape.opt[o]
ItemsMin(o) == Opt(o).tmin * Opt(o).emin
ItemsMax(o) == Opt(o).tmax * Opt(o).emax

(***************************************************************************)
(* A parse in progress: exceptions and results.                            *)
(***************************************************************************)
Throw(p, error) == IF p.error = None THEN [p EXCEPT !.error = error] ELSE p

\* The non-empty texts between the separators sep of the text n.
Split(n, sep) ==
    SelectSeq(FoldLeft(LAMBDA parts, c : IF c = sep THEN Append(parts, <<>>)
                                         ELSE [parts EXCEPT ![Len(parts)] = Append(@, c)],
                       << <<>> >>, n),
              LAMBDA part : part # <<>>)

\* What _add_result makes of one word: a list in brackets and a text with the
\* option's delimiter are taken apart.
Pieces(o, w) ==
    LET n == w.n
        text == w.d = 0 /\ w.v = <<>>
        isList == Opt(o).extra /\ Len(n) >= 2 /\ n[1] = "[" /\ n[Len(n)] = "]"
        parts == Split(IF isList THEN SubSeq(n, 2, Len(n) - 1) ELSE n, ",")
    IN  IF text /\ (isList \/ (Opt(o).comma /\ Contains(n, ",")))
        THEN [i \in DOMAIN parts |-> Plain(parts[i])]
        ELSE <<w>>

AddResult(p, o, w) ==
    IF p.error # None THEN p
    ELSE [p EXCEPT !.results[o] = @ \o Pieces(o, w), !.fired[o] = FALSE]

\* Mutant: the state of the callback is not reset.
ClearResults(p, o) == [p EXCEPT !.results[o] = <<>>]

ClearOption(p, o) == [p EXCEPT !.results[o] = <<>>, !.fired[o] = FALSE]

\* _validate of one word: an empty word is fine where nothing is expected.
Rejects(o, w) ==
    /\ ~(w = Empty /\ Opt(o).emin = 0)
    /\ w \in Opt(o).invalid

\* _validate_results: separators of variable-size types are not values.
AllValid(o, ws) ==
    \A i \in DOMAIN ws :
        \/ Opt(o).tmax > 1 /\ ws[i] \in {Separator, Empty} /\ Opt(o).tmax # Opt(o).tmin
        \/ ~Rejects(o, ws[i])

FlagNumber(w) == CASE w = TrueWord -> 1 [] w = FalseWord -> -1 [] OTHER -> 0

AtLeastOne(k) == IF k < 1 THEN 1 ELSE k

\* _reduce_results: the values the policy leaves, or the number of words is wrong.
WrongCount(o, ws) ==
    /\ Opt(o).policy = "Throw"
    /\ \/ Len(ws) < AtLeastOne(ItemsMin(o))
       \/ Len(ws) > AtLeastOne(ItemsMax(o))

Reduced(o, ws) ==
    LET keep == IF AtLeastOne(ItemsMax(o)) < Len(ws) THEN AtLeastOne(ItemsMax(o)) ELSE Len(ws)
        kept == CASE Opt(o).policy = "TakeLast"  -> SubSeq(ws, Len(ws) - keep + 1, Len(ws))
                  [] Opt(o).policy = "TakeFirst" -> SubSeq(ws, 1, keep)
                  [] Opt(o).policy = "Join"      -> <<Plain(FlattenSeq([i \in DOMAIN ws |-> ws[i].n]))>>
                  [] Opt(o).policy = "Sum"       ->
                        <<Plain(<<ToString(FoldLeft(LAMBDA s, w : s + FlagNumber(w), 0, ws))>>)>>
                  [] OTHER -> ws
    IN  IF kept = <<Braces>> /\ ItemsMin(o) > 0 THEN <<Braces, Separator>> ELSE kept

\* The conversion of the values: all of a vector, the first of anything else.
Converts(o, ws) ==
    IF Opt(o).emax > 1 \/ Opt(o).tmax > 1
    THEN \A i \in DOMAIN ws : ws[i] \notin Opt(o).unconvertible
    ELSE ws # <<>> => Head(ws) \notin Opt(o).unconvertible

Forced(p, o) == IF Opt(o).force /\ p.results[o] = <<>> THEN AddResult(p, o, Opt(o).default) ELSE p

\* The option hands the values vs, to which its words ws are reduced, to the program.
HandOver(p, o, ws, vs) ==
    IF p.error # None THEN p
    ELSE IF ~AllValid(o, ws) THEN Throw(p, "ValidationError")
    ELSE IF WrongCount(o, ws) THEN Throw(p, "ArgumentMismatch")
    ELSE IF ~Converts(o, vs) THEN Throw([p EXCEPT !.fired[o] = TRUE], "ConversionError")
    ELSE [p EXCEPT !.fired[o] = TRUE, !.calls = Append(@, <<o, vs>>)]

HandOverAll(p, o) == HandOver(p, o, p.results[o], Reduced(o, p.results[o]))

\* run_callback: default for a forced callback, validation, reduction, conversion.
RunCallback(p, o) == HandOverAll(Forced(p, o), o)

\* get_flag_value: what a flag called name stands for, given the text after "=".
FlagValue(o, name, w) ==
    LET none == w \in {Empty, Braces}
        known == name \in DOMAIN Opt(o).fvalue
        own == IF known THEN Opt(o).fvalue[name] ELSE TrueWord
    IN  IF none THEN IF known \/ Opt(o).flagLike THEN own ELSE Opt(o).default
        ELSE IF known /\ own = FalseWord /\ w \in {TrueWord, FalseWord}
             THEN IF w = TrueWord THEN FalseWord ELSE TrueWord
             ELSE w

\* disable_flag_override: the flag may only be given the value it stands for.
OverridesFlag(o, name, w) ==
    /\ Opt(o).locked
    /\ w \notin {Empty, Braces}
    /\ w # IF name \in DOMAIN Opt(o).fvalue THEN Opt(o).fvalue[name] ELSE TrueWord
=============================================================================
