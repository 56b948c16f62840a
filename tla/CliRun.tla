------------------------------- MODULE CliRun -------------------------------
(* App::parse of CLI11 from the command line to the exit status: one action  *)
(* per word taken and per step of _process, for one tree of commands, one    *)
(* command line, one environment and one set of configuration files, all of  *)
(* them chosen at the start.                                                 *)
EXTENDS CliProcess

VARIABLES p,         \* the parse in progress
          pc,        \* the step of App::parse that comes next
          turns,     \* history: turns of the loop of _parse since a word was last taken
          first      \* history: what the first parse came to, when there is a second

vars == <<input, p, pc, turns, first>>

\* Bound: turns are counted up to this many.
MaxTurns == 9

Top == CHOOSE a \in DOMAIN Shape.app : IsTop(a)
Current == p.frames[Len(p.frames)]
Word1 == Head(p.args)

\* ExitCodes
ExitCode ==
    [CallForHelp |-> 0, CallForAllHelp |-> 0, FileError |-> 103, ConversionError |-> 104,
     ValidationError |-> 105, RequiredError |-> 106, RequiresError |-> 107, ExcludesError |-> 108,
     ExtrasError |-> 109, ConfigError |-> 110, InvalidError |-> 111, HorribleError |-> 112,
     ArgumentMismatch |-> 114]

Init ==
    /\ \E shape \in Shapes :
          \E env \in shape.envs, words \in BoundedSeq(shape.words, shape.length) :
              input = [program |-> shape.program, words |-> words, env |-> env]
    /\ p = StartOf(input.words)
    /\ pc = "validate"
    /\ turns = 0
    /\ first = None

\* The parse becomes q: an exception ends it, otherwise the step named comes next.
Becomes(q, next) ==
    /\ p' = q
    /\ pc' = IF q.error = None THEN next ELSE "done"
    /\ turns' = IF pc = "parse" /\ q.args = p.args THEN IF turns < MaxTurns THEN turns + 1 ELSE turns
                ELSE 0
    /\ UNCHANGED <<input, first>>

\* The parse becomes q, and the current frame is over if its command gave the
\* word back, which only a subcommand heeds.
Continues(r) ==
    LET depth == Len(p.frames)
    IN  Becomes([r.p EXCEPT !.frames[depth].over = ~r.ok /\ ~IsTop(Current.app)], "parse")

Parsing(classes) ==
    /\ pc = "parse" /\ p.frames # <<>>
    /\ p.args # <<>> /\ ~Current.over
    /\ (IF Current.marked THEN "none" ELSE Recognize(p, Current.app, Word1, TRUE)) \in classes

\* parse: the tree is checked, then _parse of the main command begins.
Validate ==
    /\ pc = "validate"
    /\ IF \E a \in DOMAIN Shape.app : Invalid(a)
       THEN Becomes(Throw(p, "InvalidError"), "done")
       ELSE Becomes(Enter(p, Top, None, <<>>), "parse")

\* "--": all that follows is positional, here or for the command above.
PositionalMark ==
    /\ Parsing({"mark"})
    /\ LET a == Current.app
           q == [Pop(p) EXCEPT !.frames[Len(p.frames)].marked = TRUE]
       IN  Continues(IF ~HasRemainingPositionals(p, a) /\ ~IsTop(a) THEN Left(q)
                     ELSE Took(MoveToMissing(q, a, "mark", Mark)))

SubcommandTerminator ==
    /\ Parsing({"terminator"})
    /\ Continues(Left(Pop(p)))

Subcommand ==
    /\ Parsing({"sub"})
    /\ Continues(ParseSubcommand(p, Current.app))

\* An option: whether _parse_arg took the word is not looked at.
Argument ==
    /\ Parsing({"long", "short"})
    /\ Continues(Took(ParseArg(p, Current.app, Recognize(p, Current.app, Word1, TRUE)).p))

Positional ==
    /\ Parsing({"none"})
    /\ LET r == ParsePositional(p, Current.app, FALSE)
           depth == Len(p.frames)
       IN  Continues([r EXCEPT !.p.frames[depth].marked = @ \/ (r.ok /\ Cmd(Current.app).atEnd)])

\* Mutant: the final callbacks do not wait.
CompletedWithFinal(q, a) ==
    RunIfFine(RequireIfFine(HelpIfFine(ProcessCallbacks(ProcessEnv(q, a), a), a), a), a, FALSE)

\* What a subcommand with a callback of its own does when its words end: all but the
\* final callbacks, which wait for the whole command line.
Completed(q, a) ==
    RunIfFine(RequireIfFine(HelpIfFine(ProcessCallbacks(ProcessEnv(q, a), a), a), a), a, TRUE)

\* The words are used up or the subcommand gave one back: what has a callback of
\* its own is completed, and the caller goes on.
ReturnFrom(q, f) == IF q.error # None THEN q ELSE AfterReturn([q EXCEPT !.frames = Front(@)], f)

LeaveSubcommand ==
    /\ pc = "parse" /\ Len(p.frames) > 1
    /\ p.args = <<>> \/ Current.over
    /\ Becomes(ReturnFrom(IF Cmd(Current.app).complete THEN Completed(p, Current.app) ELSE p, Current), "parse")

LeaveTop ==
    /\ pc = "parse" /\ Len(p.frames) = 1 /\ p.args = <<>>
    /\ Becomes([p EXCEPT !.frames = <<>>], "config")

\* The names of the configuration files: as given, or the default.
FileNames ==
    LET o == Shape.config
    IN  IF Count(p, o) > 0 THEN Reduced(o, p.results[o])
        ELSE IF Opt(o).default # Empty THEN Pieces(o, Opt(o).default) ELSE <<Empty>>

\* What is read of one file; the default one is only noted as read if all went well.
ReadItems(q, w) == ParseItems(q, Top, FromConfig(Shape.files[w].lines, Shape.configSection, Shape.configIndex))
NoteFile(q, w) ==
    IF q.error # None \/ Count(p, Shape.config) > 0 THEN q ELSE AddResult(q, Shape.config, w)

\* A file that is missing or cannot be read only matters when it was asked for.
ReadFile(q, w) ==
    IF Shape.files[w].state = "ok" THEN NoteFile(ReadItems(q, w), w)
    ELSE IF Count(p, Shape.config) > 0 \/ Opt(Shape.config).required THEN Throw(q, "FileError")
    ELSE q

ReadFiles(names) ==
    IF Head(names) = Empty
    THEN IF Opt(Shape.config).required THEN Throw(p, "FileError") ELSE p
    ELSE InTurn(p, Reverse(names), ReadFile)

ConfigRead ==
    IF Shape.config = None THEN p
    ELSE IF Count(p, Shape.config) > 0 /\ WrongCount(Shape.config, p.results[Shape.config])
    THEN Throw(p, "ArgumentMismatch")
    ELSE ReadFiles(FileNames)

\* _process_config_file: the last file first; a file error is kept for later.
AfterConfig(q) ==
    IF q.error = "FileError"
    THEN Becomes([q EXCEPT !.error = None, !.fileError = TRUE], "callbacks")
    ELSE Becomes(q, "env")

ReadConfig == pc = "config" /\ AfterConfig(ConfigRead)

ReadEnv == pc = "env" /\ Becomes(ProcessEnv(p, Top), "callbacks")

\* Mutant: the requirements come before help.
RunCallbacksNoHelp == pc = "callbacks" /\ Becomes(ProcessCallbacks(p, Top), "requirements")

RunCallbacks == pc = "callbacks" /\ Becomes(ProcessCallbacks(p, Top), "help")

\* Help comes before a complaint about the configuration file, which comes before
\* the requirements.
ShowHelp ==
    /\ pc = "help"
    /\ LET q == ProcessHelp(p, Top, FALSE, FALSE)
       IN  Becomes(IF q.error = None /\ p.fileError THEN Throw(q, "FileError") ELSE q, "requirements")

CheckRequirements == pc = "requirements" /\ Becomes(ProcessRequirements(p, Top), "extras")

CheckExtras == pc = "extras" /\ Becomes(ProcessExtras(p, Top), "run")

RunApps == pc = "run" /\ Becomes(RunApp(p, Top, FALSE, FALSE), "done")

\* What a program can see of a parse.
Outcome(q) == [error |-> q.error, results |-> q.results, parsed |-> q.parsed, missing |-> q.missing,
               subs |-> q.subs, calls |-> q.calls, ran |-> q.ran]

\* The program has the same words parsed once more by the same App, which starts
\* with a clear.
ParseAgain ==
    /\ pc = "done" /\ first = None
    /\ first' = Outcome(p)
    /\ p' = [ClearApp(p, Top) EXCEPT !.args = input.words, !.error = None, !.frames = <<>>,
                                     !.calls = <<>>, !.ran = <<>>, !.fileError = FALSE]
    /\ pc' = "validate" /\ turns' = 0
    /\ UNCHANGED input

\* The program goes on, or ends with the exit code of the error.
Returned == pc = "done" /\ first # None /\ UNCHANGED vars

Next ==
    \/ Validate \/ PositionalMark \/ SubcommandTerminator \/ Subcommand \/ Argument \/ Positional
    \/ LeaveSubcommand \/ LeaveTop \/ ReadConfig \/ ReadEnv \/ RunCallbacks \/ ShowHelp
    \/ CheckRequirements \/ CheckExtras \/ RunApps \/ ParseAgain \/ Returned

Spec == Init /\ [][Next]_vars
=============================================================================
