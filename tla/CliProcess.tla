----------------------------- MODULE CliProcess -----------------------------
(* What CLI11 does once the words of a command line are taken: the           *)
(* configuration file, the environment, the callbacks of the options, help,  *)
(* the requirements, what is left over, and the callbacks of the commands.   *)
EXTENDS CliParse

\* The elements of the sequence s in turn, until something is thrown.
InTurn(p, s, Do(_, _)) == FoldLeft(LAMBDA q, x : IF q.error = None THEN Do(q, x) ELSE q, p, s)

(***************************************************************************)
(* Options by the names a configuration file has for them.                 *)
(***************************************************************************)
\* get_option_no_throw for a name without dashes.
RECURSIVE OptionCalled(_, _)
OptionCalled(a, name) ==
    LET here == FirstSuch(Cmd(a).opts, LAMBDA o : Opt(o).pos = <<name>> \/ Opt(o).env = name)
        below == SelectSeq([i \in DOMAIN Groups(a) |-> OptionCalled(Groups(a)[i], name)],
                           LAMBDA o : o # None)
    IN  IF here # None THEN here ELSE IF below # <<>> THEN Head(below) ELSE None

ConfiguredOption(a, name) ==
    LET long == OptionNamed(a, name, "long")
        short == OptionNamed(a, name, "short")
    IN  IF long # None THEN long ELSE IF short # None THEN short ELSE OptionCalled(a, name)

\* run_callback of a command: its own callback, those of its subcommands and
\* groups, and the final one unless it is suppressed.
RECURSIVE RunApp(_, _, _, _)
RunApp(p, a, finalMode, suppress) ==
    LET own == IF ~finalMode /\ Cmd(a).complete
               THEN [p EXCEPT !.ran = Append(@, <<a, "complete">>)] ELSE p
        below(q, s) == RunApp(q, s, TRUE, suppress)
        met == FoldLeft(below, own, SelectSeq(own.subs[a], LAMBDA s : Cmd(s).parent = a))
        all == FoldLeft(LAMBDA q, g : IF Used(q, g) THEN below(q, g) ELSE q, met, Groups(a))
    IN  IF /\ Cmd(a).final /\ p.parsed[a] > 0 /\ ~suppress
           /\ Named(a) \/ Used(p, a) \/ IsTop(a)
        THEN [all EXCEPT !.ran = Append(@, <<a, "final">>)]
        ELSE all

\* Mutant: the environment is read for every option.
TakesAlways(p, o) == Opt(o).env # None /\ input.env[Opt(o).env] # Empty

TakesEnv(p, o) == Count(p, o) = 0 /\ Opt(o).env # None /\ input.env[Opt(o).env] # Empty

\* _process_env: an option nobody gave takes the value of its variable.
RECURSIVE ProcessEnv(_, _)
ProcessEnv(p, a) ==
    LET own == FoldLeft(LAMBDA q, o : IF TakesEnv(q, o) THEN AddResult(q, o, input.env[Opt(o).env]) ELSE q,
                        p, Cmd(a).opts)
    IN  FoldLeft(ProcessEnv, own, SelectSeq(Cmd(a).subs, LAMBDA s : ~Named(s) \/ ~Cmd(s).complete))

\* _process_callbacks: groups with a callback of their own first, then the
\* options that have results, then the subcommands.
RECURSIVE ProcessCallbacks(_, _)
ProcessCallbacks(p, a) ==
    LET first == SelectSeq(Groups(a), LAMBDA g : Cmd(g).complete)
        last == SelectSeq(Cmd(a).subs, LAMBDA s : ~Cmd(s).complete)
        groups == InTurn(p, first, LAMBDA q, g :
                      IF ~Used(q, g) THEN q
                      ELSE LET r == ProcessCallbacks(q, g)
                           IN  IF r.error = None THEN RunApp(r, g, FALSE, FALSE) ELSE r)
        own == InTurn(groups, Cmd(a).opts, LAMBDA q, o :
                      IF (Count(q, o) > 0 \/ Opt(o).force) /\ ~q.fired[o] THEN RunCallback(q, o) ELSE q)
    IN  InTurn(own, last, ProcessCallbacks)

\* _process_help_flags: the last subcommand met answers, all help before help.
RECURSIVE ProcessHelp(_, _, _, _)
ProcessHelp(p, a, help, helpAll) ==
    LET given(o) == o # None /\ Count(p, o) > 0
        h == help \/ given(Cmd(a).help)
        all == helpAll \/ given(Cmd(a).helpAll)
    IN  IF p.subs[a] # <<>>
        THEN InTurn(p, p.subs[a], LAMBDA q, s : ProcessHelp(q, s, h, all))
        ELSE IF all THEN Throw(p, "CallForAllHelp")
        ELSE IF h THEN Throw(p, "CallForHelp")
        ELSE p

\* Mutant: what the option excludes is not looked at.
CheckNeeds(p, o) ==
    IF Opt(o).required /\ Count(p, o) = 0 THEN Throw(p, "RequiredError")
    ELSE IF Count(p, o) > 0 /\ \E n \in Opt(o).needs : Count(p, n) = 0 THEN Throw(p, "RequiresError")
    ELSE p

\* What an option of a command lacks: itself, one it needs, or the absence of
\* one it excludes.
CheckOption(p, o) ==
    IF Opt(o).required /\ Count(p, o) = 0 THEN Throw(p, "RequiredError")
    ELSE IF Count(p, o) > 0 /\ \E n \in Opt(o).needs : Count(p, n) = 0 THEN Throw(p, "RequiresError")
    ELSE IF Count(p, o) > 0 /\ \E x \in Opt(o).excludes : Count(p, x) # 0 THEN Throw(p, "ExcludesError")
    ELSE p

\* _process_requirements
RECURSIVE ProcessRequirements(_, _)
ProcessRequirements(p, a) ==
    LET c == Cmd(a)
        excluded == \/ \E o \in c.notOpts : Count(p, o) > 0
                    \/ \E s \in c.notSubs : Used(p, s)
        lacking == \/ \E o \in c.needOpts : Count(p, o) = 0
                   \/ \E s \in c.needSubs : ~Used(p, s)
        options == InTurn(p, c.opts, CheckOption)
        used == Len(SelectSeq(c.opts, LAMBDA o : Count(p, o) # 0))
                + Len(SelectSeq(OpenGroups(a), LAMBDA g : Used(p, g)))
        wrongNumber == c.optMin > used \/ (c.optMax > 0 /\ c.optMax < used)
        met(s) == /\ ~Named(s) /\ ~Cmd(s).required /\ ~Used(p, s)
                  /\ \/ c.optMin > 0 /\ c.optMin <= used
                     \/ c.optMax > 0 /\ used >= c.optMin
        check(q, s) ==
            LET r == IF q.parsed[s] > 0 \/ ~Named(s) THEN ProcessRequirements(q, s) ELSE q
            IN  IF r.error = None /\ Cmd(s).required /\ ~Used(r, s) THEN Throw(r, "RequiredError") ELSE r
    IN  IF excluded THEN IF Used(p, a) THEN Throw(p, "ExcludesError") ELSE p
        ELSE IF lacking THEN IF Used(p, a) THEN Throw(p, "RequiresError") ELSE p
        ELSE IF options.error # None THEN options
        ELSE IF c.subMin > Len(p.subs[a]) \/ wrongNumber THEN Throw(p, "RequiredError")
        ELSE InTurn(p, SelectSeq(c.subs, LAMBDA s : ~Cmd(s).disabled /\ ~met(s)), check)

\* _process_extras
RECURSIVE ProcessExtras(_, _)
ProcessExtras(p, a) ==
    IF ~Cmd(a).extras /\ ~Cmd(a).prefix /\ Remaining(p, a) # <<>> THEN Throw(p, "ExtrasError")
    ELSE InTurn(p, SelectSeq(Cmd(a).subs, LAMBDA s : p.parsed[s] > 0), ProcessExtras)

\* The same where an exception has not ended it already.
HelpIfFine(p, a) == IF p.error = None THEN ProcessHelp(p, a, FALSE, FALSE) ELSE p
RequireIfFine(p, a) == IF p.error = None THEN ProcessRequirements(p, a) ELSE p
RunIfFine(p, a, suppress) == IF p.error = None THEN RunApp(p, a, FALSE, suppress) ELSE p

(***************************************************************************)
(* Reading the items of a configuration file.                              *)
(***************************************************************************)
SetByItem(p, o, item) ==
    IF Opt(o).emin = 0
    THEN LET w == IF item.inputs = <<>> THEN Braces ELSE Head(item.inputs)     \* to_flag
         IN  IF Len(item.inputs) > 1 THEN Throw(p, "ConversionError")
             ELSE IF OverridesFlag(o, item.name, w) THEN Throw(p, "ArgumentMismatch")
             ELSE AddResult(p, o, FlagValue(o, item.name, w))
    ELSE RunCallback(FoldLeft(LAMBDA q, w : AddResult(q, o, w), p, item.inputs), o)

OpenSection(p, a) ==
    LET q == TriggerPreParse(IncrementParsed(p, a), a)
    IN  IF IsTop(a) THEN q ELSE [q EXCEPT !.subs[Cmd(a).parent] = Append(@, a)]

CloseSection(p, a) ==
    RunIfFine(RequireIfFine(ProcessCallbacks(p, a), a), a, FALSE)

\* _parse_single_config
RECURSIVE ParseItem(_, _, _, _)
ParseItem(p, a, item, level) ==
    LET sub == FindIn(p, Cmd(a).subs, Plain(<<item.parents[level + 1]>>), FALSE, FALSE)
        o == ConfiguredOption(a, item.name)
        mode == Shape.configExtras
    IN  IF level < Len(item.parents)
        THEN IF sub = None THEN Left(p) ELSE ParseItem(p, sub, item, level + 1)
        ELSE IF item.name = "++" THEN Took(IF Cmd(a).configurable THEN OpenSection(p, a) ELSE p)
        ELSE IF item.name = "--" THEN Took(IF Cmd(a).configurable THEN CloseSection(p, a) ELSE p)
        ELSE IF o = None
             THEN Left(IF mode = "capture"
                       THEN [p EXCEPT !.missing[a] = Append(@, <<"none", Plain(<<item.name>>)>>)] ELSE p)
        ELSE IF ~Opt(o).configurable
             THEN Left(IF mode = "ignore_all" THEN p ELSE Throw(p, "ConfigError"))
        ELSE Took(IF Count(p, o) = 0 THEN SetByItem(p, o, item) ELSE p)

\* _parse_config
ParseItems(p, a, items) ==
    InTurn(p, items, LAMBDA q, item :
        LET r == ParseItem(q, a, item, 0)
        IN  IF ~r.ok /\ Shape.configExtras = "error" THEN Throw(r.p, "ConfigError") ELSE r.p)
=============================================================================
