------------------------------- MODULE MCCli -------------------------------
(* The programs whose command lines TLC parses: small enough that every      *)
(* command line of up to `length' words can be tried, and between them with  *)
(* every kind of option and command the parser treats differently.           *)
EXTENDS CliProperties

Long(n) == Word(2, <<n>>, <<>>)
LongIs(n, v) == Word(2, <<n>>, <<v>>)
Short(n) == Word(1, n, <<>>)
Val(x) == Plain(<<x>>)

Group(parent) == [DefaultApp EXCEPT !.parent = parent, !.final = FALSE]
Child(parent, name) == [DefaultApp EXCEPT !.parent = parent, !.name = name]
Prog == [DefaultApp EXCEPT !.name = <<"prog">>]
Required(o) == [o EXCEPT !.required = TRUE]

File(state, lines) == [state |-> state, lines |-> lines]
NoFiles == [w \in {} |-> File("ok", <<>>)]

Program(title, app, opt, words, length, envs) ==
    [program |-> [title |-> title, app |-> Configured(app), opt |-> opt, files |-> NoFiles,
                  config |-> None, configExtras |-> "ignore", configSection |-> None, configIndex |-> -1],
     words |-> words, length |-> length, envs |-> envs]

Help == AddFlag({"help"}, {"h"})

\* simple_malloc: two of its options of one value, the vector, the flag.
Malloc(title, prefix, length) ==
    Program(title,
        [top |-> [Prog EXCEPT !.prefix = prefix, !.help = "help", !.opts = <<"help", "loop", "exec", "timeout", "profile">>]],
        [help |-> Help,
         loop |-> [AddOption({"loop"}, {}, <<>>, FALSE) EXCEPT
                      !.unconvertible = {Val("a"), Val("b"), Long("profile"), Long("help"), Mark, Long("exec"),
                                         Long("timeout"), Long("loop"), LongIs("loop", "a"), Short(<<"h">>)}],
         exec |-> Expected(AddOption({"exec"}, {}, <<>>, TRUE), -1),
         timeout |-> [AddOption({"timeout"}, {}, <<>>, FALSE) EXCEPT
                         !.env = "T", !.invalid = {Short(<<"1">>), Val("a"), Val("b"), Long("profile")}],
         profile |-> AddFlag({"profile"}, {})],
        {Long("loop"), LongIs("loop", "a"), Long("exec"), Long("timeout"), Long("profile"), Long("help"), Mark,
         Val("a"), Val("b"), Short(<<"1">>), Short(<<"h">>)}, length,
        {[T |-> Empty], [T |-> Val("e")]})

\* A vector of positionals and one more, a counter, a value, a list.
Positionals(title, top) ==
    Program(title,
        [top |-> [top EXCEPT !.name = <<"prog">>, !.opts = <<"verbose", "out", "files", "dest">>]],
        [verbose |-> AddCounter({"verbose"}, {"v"}),
         out |-> AddOption({}, {"o"}, <<>>, FALSE),
         files |-> [AddOption({}, {"f"}, <<"files">>, TRUE) EXCEPT !.comma = TRUE, !.invalid = {Val("c")}],
         dest |-> Required(AddOption({}, {}, <<"dest">>, FALSE))],
        {Short(<<"v">>), Short(<<"v", "v">>), Short(<<"v", "o">>), Short(<<"o", "a">>), Short(<<"f">>), Mark,
         Val("a"), Val("b"), Val("c"), Plain(<<"[", "a", ",", "b", "]">>), Plain(<<"b", ",", "c">>)}, 3,
        {[E |-> Empty]})

\* A subcommand with a flag and a positional, and one more in an option group.
Subcommands(title, run, max) ==
    Program(title,
        [top |-> [Prog EXCEPT !.subs = <<"run", "group">>, !.opts = <<"out">>, !.subMax = max],
         run |-> [run EXCEPT !.parent = "top", !.name = <<"run">>, !.opts = <<"x", "file">>],
         group |-> [Group("top") EXCEPT !.subs = <<"add">>, !.opts = <<"g">>, !.subMax = max],
         add |-> [Child("group", <<"add">>) EXCEPT !.subMax = max]],
        [out |-> AddOption({}, {"o"}, <<>>, FALSE),
         x |-> [AddFlag({}, {"x"}) EXCEPT !.env = "X"],
         file |-> Required(AddOption({}, {}, <<"file">>, FALSE)),
         g |-> AddFlag({}, {"g"})],
        {Val("run"), Val("add"), Short(<<"o">>), Short(<<"x">>), Short(<<"g">>), Short(<<"x", "g">>), Mark,
         Terminator, Val("a"), Val("b")}, 3,
        {[X |-> Empty], [X |-> TrueWord]})

\* What needs, excludes and asks for a number of what: options, a group of which one
\* is to be given, a subcommand with a required option, another with a switch.
Requirements ==
    Program("requirements",
        [top |-> [Prog EXCEPT !.help = "help", !.opts = <<"help", "A", "B", "C">>,
                              !.subs = <<"one", "sub", "off">>, !.subMin = 1],
         one |-> [Group("top") EXCEPT !.opts = <<"x", "y">>, !.optMin = 1, !.optMax = 1],
         sub |-> [Child("top", <<"sub">>) EXCEPT !.opts = <<"z">>, !.notOpts = {"B"}],
         off |-> [Child("top", <<"off">>) EXCEPT !.needOpts = {"A"}, !.required = TRUE]],
        [help |-> Help,
         A |-> [AddFlag({}, {"A"}) EXCEPT !.needs = {"B"}],
         B |-> AddFlag({}, {"B"}),
         C |-> [AddFlag({}, {"C"}) EXCEPT !.excludes = {"A"}],
         x |-> AddFlag({}, {"x"}), y |-> AddFlag({}, {"y"}),
         z |-> Required(AddFlag({}, {"z"}))],
        {Short(<<"A">>), Short(<<"B">>), Short(<<"C">>), Short(<<"A", "B">>), Short(<<"x">>), Short(<<"x", "y">>),
         Short(<<"z">>), Short(<<"h">>), Val("sub"), Val("off")}, 3,
        {[E |-> Empty]})

\* An option that fires on every use, one of pairs of words, a flag that stands for
\* a value and may not be given another, and a silent subcommand that starts afresh
\* whenever it is met.
Triggers ==
    Program("triggers",
        [top |-> [Prog EXCEPT !.opts = <<"t", "pair", "no">>, !.subs = <<"again", "hidden">>, !.extras = TRUE],
         again |-> [Child("top", <<"again">>) EXCEPT !.immediate = TRUE, !.complete = TRUE, !.final = FALSE,
                                                     !.opts = <<"k">>, !.extras = TRUE],
         hidden |-> [Child("top", <<"hidden">>) EXCEPT !.silent = TRUE, !.disabled = FALSE]],
        [t |-> [AddOption({}, {"t"}, <<>>, TRUE) EXCEPT !.trigger = TRUE],
         pair |-> TypeSize(AddOption({}, {"p"}, <<>>, TRUE), 2, 2),
         no |-> [AddFlag({"no", "yes"}, {}) EXCEPT !.locked = TRUE,
                     !.fvalue = [name \in {"no"} |-> FalseWord]],
         k |-> AddOption({}, {"k"}, <<>>, FALSE)],
        {Short(<<"t">>), Short(<<"p">>), Short(<<"k">>), Long("no"), LongIs("no", "true"), LongIs("yes", "true"),
         Val("again"), Val("hidden"), Val("a"), Val("b")}, 3,
        {[E |-> Empty]})

\* A program with a configuration file, read by default, whose section is that of a
\* configurable subcommand.
Configuration(title, extras, required, final) ==
    LET made == Program(title,
        [top |-> [Prog EXCEPT !.opts = <<"cfg", "val", "flag", "other">>, !.subs = <<"run">>, !.help = None],
         run |-> [Child("top", <<"run">>) EXCEPT !.configurable = TRUE, !.opts = <<"r">>, !.final = final]],
        [cfg |-> [Expected(AddOption({"cfg"}, {}, <<>>, FALSE), 1) EXCEPT
                      !.default = Val("good"), !.configurable = FALSE, !.required = required],
         val |-> [AddOption({"val"}, {}, <<>>, FALSE) EXCEPT !.env = "V"],
         flag |-> AddFlag({"flag"}, {"f"}),
         other |-> [AddOption({"other"}, {}, <<>>, TRUE) EXCEPT !.excludes = {"flag"}],
         r |-> Required(AddOption({}, {"r"}, <<>>, FALSE))],
        {LongIs("cfg", "good"), LongIs("cfg", "empty"), LongIs("cfg", "missing"), LongIs("cfg", "bad"),
         LongIs("val", "a"), Short(<<"f">>), Val("run"), Short(<<"r", "b">>)}, 3,
        {[V |-> Empty], [V |-> Val("e")]})
    IN  [made EXCEPT !.program.config = "cfg", !.program.configExtras = extras,
            !.program.files =
               Val("good") :> File("ok", <<Setting(<<>>, "val", <<Val("m")>>), Setting(<<>>, "flag", <<TrueWord>>),
                                           Header(<<"run">>), Setting(<<>>, "r", <<Val("n")>>)>>)
               @@ Val("empty") :> File("ok", <<>>)
               @@ Val("missing") :> File("missing", <<>>)
               @@ Val("bad") :> File("ok", <<Setting(<<>>, "val", <<Val("m")>>), Setting(<<>>, "unknown", <<Val("n")>>),
                                             Setting(<<>>, "cfg", <<Val("n")>>),
                                             Setting(<<>>, "other", <<Val("n"), Val("m")>>),
                                             Header(<<"walk">>), Setting(<<>>, "r", <<Val("n")>>)>>)]

\* A program with no words but any file of up to three of these lines, read by default.
Sections(lines) ==
    LET made == Program("sections",
        [top |-> [Prog EXCEPT !.opts = <<"cfg", "val">>, !.subs = <<"run">>],
         run |-> [Child("top", <<"run">>) EXCEPT !.configurable = TRUE, !.opts = <<"r">>, !.subs = <<"fast">>, !.final = FALSE],
         fast |-> [Child("run", <<"fast">>) EXCEPT !.configurable = TRUE, !.opts = <<"q">>, !.complete = TRUE, !.final = FALSE]],
        [cfg |-> [AddOption({"cfg"}, {}, <<>>, FALSE) EXCEPT !.default = Val("it"), !.configurable = FALSE],
         val |-> AddOption({"val"}, {}, <<>>, FALSE),
         r |-> AddOption({}, {"r"}, <<>>, TRUE),
         q |-> Required(AddFlag({}, {"q"}))],
        {}, 0, {[E |-> Empty]})
    IN  [made EXCEPT !.program.config = "cfg", !.program.files = Val("it") :> File("ok", lines)]

FileLines ==
    {Header(<<>>), Header(<<"run">>), Header(<<"run", "fast">>), Header(<<"run", "slow", "er">>),
     Setting(<<>>, "val", <<Val("m")>>), Setting(<<"run">>, "r", <<Val("n")>>), Setting(<<>>, "r", <<Val("n"), Val("m")>>),
     Setting(<<>>, "q", <<TrueWord>>), Setting(<<"fast">>, "q", <<>>)}

MCShapes ==
    {Malloc("malloc", FALSE, 3), Malloc("prefix", TRUE, 2),
     Positionals("positionals", DefaultApp),
     Positionals("atEnd", [DefaultApp EXCEPT !.atEnd = TRUE, !.validatePos = TRUE, !.validateOpt = TRUE]),
     Subcommands("sub", DefaultApp, 0),
     Subcommands("subMax", DefaultApp, 1),
     Subcommands("fall", [DefaultApp EXCEPT !.fallthrough = TRUE], 0),
     Subcommands("fallExtras", [DefaultApp EXCEPT !.fallthrough = TRUE, !.extras = TRUE], 1),
     Subcommands("completed", [DefaultApp EXCEPT !.complete = TRUE, !.fallthrough = TRUE], 0),
     Requirements, Triggers,
     Configuration("config", "ignore", FALSE, FALSE),
     Configuration("configCapture", "capture", FALSE, FALSE),
     Configuration("configIgnore", "ignore_all", FALSE, FALSE),
     Configuration("configError", "error", TRUE, FALSE)}
    \cup {Sections(lines) : lines \in BoundedSeq(FileLines, 3)}

\* A program with an option group that is given an empty word.
EmptyWordShapes == {[Subcommands("sub", DefaultApp, 0) EXCEPT !.words = @ \cup {Empty}, !.length = 2]}
=============================================================================
