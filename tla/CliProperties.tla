--------------------------- MODULE CliProperties ---------------------------
(* What a program that hands its command line to CLI11 relies on.            *)
EXTENDS CliRun

CONSTANT Values      \* the atoms that are values: no name of an option or a command

Commands == DOMAIN Shape.app
Options == DOMAIN Shape.opt
Words == [d : 0..2, n : Seq(STRING), v : Seq(STRING)]
OwnerOf(o) == CHOOSE a \in Commands : o \in Range(Cmd(a).opts)

\* The command a or one it is below.
RECURSIVE Line(_)
Line(a) == {a} \cup IF IsTop(a) THEN {} ELSE Line(Cmd(a).parent)

Done == pc = "done"
Succeeded == Done /\ p.error = None

\* Type invariant of the parse of App::parse.
TypeOK ==
    /\ pc \in {"validate", "parse", "config", "env", "callbacks", "help", "requirements", "extras", "run", "done"}
    /\ p.error \in {None} \cup DOMAIN ExitCode
    /\ p.args \in Seq(Words)
    /\ p.results \in [Options -> Seq(Words)]
    /\ p.fired \in [Options -> BOOLEAN]
    /\ p.parsed \in [Commands -> Nat]
    /\ p.subs \in [Commands -> Seq(Commands)]
    /\ \A i \in DOMAIN p.frames : p.frames[i].app \in Commands

(***************************************************************************)
(* Words.                                                                  *)
(***************************************************************************)
Occurrences(x, ws) ==
    FoldLeft(LAMBDA k, w : k + Cardinality({i \in DOMAIN w.n : w.n[i] = x})
                             + Cardinality({i \in DOMAIN w.v : w.v[i] = x}), 0, ws)

OccurrencesIn(x, f) == FoldFunction(+, 0, [e \in DOMAIN f |-> Occurrences(x, f[e])])

\* Commands that drop words on purpose: an option that fires on every use forgets
\* the last one, an immediate subcommand starts afresh.
Forgetful == (\E o \in Options : Opt(o).trigger) \/ (\E a \in Commands : Cmd(a).immediate)

\* Every value of the command line is in the end, or when an exception is thrown, in
\* exactly one place: still to be parsed, in the results of one option or left over in one
\* command; none is dropped or taken twice, whatever splits, groups and
\* fallthrough it went through.
NothingLost ==
    Done /\ ~Forgetful =>
        \A x \in Values :
            Occurrences(x, input.words)
              = Occurrences(x, p.args) + OccurrencesIn(x, p.results)
                + OccurrencesIn(x, [a \in Commands |-> [i \in DOMAIN p.missing[a] |-> p.missing[a][i][2]]])

\* The values as they follow one another in a sequence of words.
ValuesOf(ws) == SelectSeq(FlattenSeq([i \in DOMAIN ws |-> ws[i].n \o ws[i].v]), LAMBDA x : x \in Values)

\* The results of an option are in the order of the command line, so that TakeLast
\* and TakeFirst mean what they say, also for values given before and after a subcommand.
OrderKept ==
    \A o \in Options :
        LET line == ValuesOf(input.words)
            mine == SelectSeq(ValuesOf(p.results[o]), LAMBDA x : Contains(line, x))
            at(x) == CHOOSE k \in DOMAIN line : line[k] = x
        IN  IsInjective(line) => \A i, j \in DOMAIN mine : i < j => at(mine[i]) < at(mine[j])

\* No word is lost and none overtakes another.
WordsKept == NothingLost /\ (Done => OrderKept)

(***************************************************************************)
(* Sources.                                                                *)
(***************************************************************************)
FileWords == UNION {UNION {Range(Shape.files[w].lines[i].inputs) : i \in DOMAIN Shape.files[w].lines}
                        : w \in DOMAIN Shape.files}
EnvWords == {input.env[e] : e \in DOMAIN input.env} \ {Empty}
From(o) == (IF \E w \in Range(p.results[o]) : w \in FileWords THEN {"file"} ELSE {})
             \cup (IF \E w \in Range(p.results[o]) : w \in EnvWords THEN {"env"} ELSE {})
             \cup (IF \E w \in Range(p.results[o]) : Range(w.n) \cap Values # {} THEN {"line"} ELSE {})

\* The values of an option come from one source only: the command line if it is
\* given there, else the configuration file, else its environment variable.
\* (A subcommand with a parse-complete callback reads its environment when its own
\* words end, so it may be given more words after that.)
OneSource ==
    Done => \A o \in Options :
        (\A a \in Line(OwnerOf(o)) : ~Cmd(a).complete) => Cardinality(From(o)) <= 1

\* The path of the open section after an item, or that of no section: a section is opened within
\* the one around it and the innermost is closed first.
NoSection == <<"++">>
AfterItem(open, item) ==
    CASE open = NoSection -> open
      [] item.name = "++" -> IF Front(item.parents) = open THEN item.parents ELSE NoSection
      [] item.name = "--" -> IF item.parents = open THEN Front(open) ELSE NoSection
      [] OTHER -> open

\* Whatever its headers, the sections of a configuration file nest: each is opened
\* once it is entered and closed before the file ends.  (A header of the default
\* section leaves those around the last one open.)
SectionsNest ==
    pc = "config" => \A w \in DOMAIN Shape.files :
        LET lines == Shape.files[w].lines
        IN  (\A i \in DOMAIN lines : lines[i].kind = "header" => lines[i].path # <<>>)
                => FoldLeft(AfterItem, <<>>, FromConfig(lines, None, -1)) = <<>>

(***************************************************************************)
(* Outcome.                                                                *)
(***************************************************************************)
\* When App::parse returns, every command that was met has what it requires: its
\* required options, what those given need, nothing they exclude, and as many
\* subcommands as it asks for, whatever groups and early returns lie between.
RequirementsMet ==
    Succeeded =>
        \A a \in Commands : (Named(a) /\ p.parsed[a] > 0) =>
            /\ Len(p.subs[a]) >= Cmd(a).subMin
            /\ \A i \in DOMAIN Cmd(a).opts :
                  LET o == Cmd(a).opts[i]
                  IN  /\ Opt(o).required => Count(p, o) > 0
                      /\ Count(p, o) > 0 => /\ \A n \in Opt(o).needs : Count(p, n) > 0
                                            /\ \A x \in Opt(o).excludes : Count(p, x) = 0

\* And no word is left over that somebody did not ask to have left over.
NoLeftOver ==
    Succeeded =>
        \A a \in Commands : Remaining(p, a) # <<>> =>
            Cmd(a).extras \/ Cmd(a).prefix \/ p.parsed[a] = 0

\* A command line that is accepted meets all that the program asks of it.
SuccessMeansSatisfied == RequirementsMet /\ NoLeftOver

\* Who asks for help gets it, and no complaint about what is missing, excluded or
\* left over, where no subcommand is completed before the command line ends.
HelpWins ==
    (/\ p.error \in {"RequiredError", "RequiresError", "ExcludesError", "ExtrasError"}
     /\ \A a \in Commands : ~Cmd(a).complete /\ ~Cmd(a).atEnd)
        => (Cmd(Top).help # None => Count(p, Cmd(Top).help) = 0)

\* The program is handed the values of an option once, unless the option asks to be
\* called on every use or belongs to a subcommand that is completed by itself.
CalledOnce ==
    \A o \in Options :
        (~Opt(o).trigger /\ \A a \in Line(OwnerOf(o)) : ~Cmd(a).complete) =>
            Cardinality({i \in DOMAIN p.calls : p.calls[i][1] = o}) <= 1

\* The program's own callbacks see a command line that was accepted: the final ones
\* run only when nothing was thrown, and each once.
FinalAfterAll ==
    \A i \in DOMAIN p.ran :
        p.ran[i][2] = "final" =>
            /\ Succeeded
            /\ \A j \in DOMAIN p.ran : p.ran[j] = p.ran[i] => j = i

\* The program's callbacks run in their turn: no value is delivered twice and no
\* final callback runs for a command line that is refused later.
CallbacksInTurn == Done => CalledOnce /\ FinalAfterAll

\* Parsing again gives what parsing gave: nothing of the first parse is left, be it
\* an option, a count, a leftover word or a state of a callback, also after an error.
ParsesAgain == Done /\ first # None => Outcome(p) = first

\* Every turn of the loop of _parse takes a word, but for the ends of subcommands:
\* no command line keeps the program parsing for ever, and none leads to the error
\* that the code says nobody should see.
KeepsMoving ==
    /\ turns <= Cardinality(Commands)
    /\ p.error # "HorribleError"
=============================================================================
