------------------------------ MODULE CliParse ------------------------------
(* How CLI11 takes a command line apart: one word, of whatever class, taken  *)
(* by the command being parsed, by one of its option groups or by a command  *)
(* above it.  A function of the code that returns whether it took the word   *)
(* is an operator that returns [p |-> the parse, ok |-> that Boolean].       *)
(*                                                                           *)
(* A frame of p.frames is a call of _parse: its command, whether "--" made   *)
(* all that follows positional, whether it is over, the command whose        *)
(* _parse_subcommand called it and the groups a positional came through.     *)
EXTENDS CliApp

Took(p) == [p |-> p, ok |-> TRUE]
Left(p) == [p |-> p, ok |-> FALSE]
Pop(p) == [p EXCEPT !.args = Tail(@)]

Frame(a, by, through) ==
    [app |-> a, marked |-> FALSE, over |-> FALSE, by |-> by, through |-> through]

\* The start of _parse of the command a.
Enter(p, a, by, through) ==
    LET q == TriggerPreParse(IncrementParsed(p, a), a)
    IN  [q EXCEPT !.frames = Append(@, Frame(a, by, through))]

\* The first group that takes the word, tried in turn by Try(parse, group).  The
\* group it came through gets its pre-parse callback when the taking returns.
FirstGroup(p, groups, Try(_, _)) ==
    LET returned(r, g, depth) ==
            IF ~r.ok \/ r.p.error # None THEN r
            ELSE IF Len(r.p.frames) > depth
            THEN Took([r.p EXCEPT !.frames[Len(r.p.frames)].through = Append(@, g)])
            ELSE Took(IF r.p.pre[g] THEN r.p ELSE TriggerPreParse(r.p, g))
    IN  FoldLeft(LAMBDA r, g : IF r.ok \/ r.p.error # None THEN r
                               ELSE returned(Try(r.p, g), g, Len(r.p.frames)),
                 Left(p), groups)

(***************************************************************************)
(* Options.                                                                *)
(***************************************************************************)
\* What happens to an option before it is given a word: a separator between the
\* uses of a vector of vectors, a fresh start for one that fires as it is parsed.
Prepared(p, o) ==
    LET ws == p.results[o]
        separated == IF Opt(o).inject /\ ws # <<>> /\ ws[Len(ws)] # Empty THEN AddResult(p, o, Empty) ELSE p
    IN  IF Opt(o).trigger /\ separated.fired[o] THEN ClearOption(separated, o) ELSE separated

Fire(p, o) == IF Opt(o).trigger THEN RunCallback(p, o) ELSE p

\* add_result of a word met while parsing the command a.
Give(p, a, o, w) == [AddResult(p, o, w) EXCEPT !.order[a] = Append(@, o)]

GiveFlag(p, a, o, name, w) ==
    IF OverridesFlag(o, name, w) THEN Throw(p, "ArgumentMismatch")
    ELSE Give(p, a, o, FlagValue(o, name, w))

\* The words an option must have, whatever they look like.
RECURSIVE GiveMinimum(_, _, _, _, _)
GiveMinimum(p, a, o, min, base) ==
    IF min > Count(p, o) - base /\ p.args # <<>>
    THEN GiveMinimum(Give(Pop(p), a, o, Head(p.args)), a, o, min, base)
    ELSE p

\* The words it may have: not options or subcommands, none that a required
\* positional still waits for.
RECURSIVE GiveOptional(_, _, _, _, _, _)
GiveOptional(p, a, o, max, base, reserved) ==
    IF /\ Count(p, o) - base < max \/ Opt(o).extra
       /\ p.args # <<>>
       /\ Recognize(p, a, Head(p.args), FALSE) = "none"
       /\ reserved < Len(p.args)
       /\ ~(Cmd(a).validateOpt /\ Rejects(o, Head(p.args)))
    THEN GiveOptional(Give(Pop(p), a, o, Head(p.args)), a, o, max, base, reserved)
    ELSE p

MaxWords(o) ==
    IF ItemsMax(o) >= MaxVec \div 16 /\ ~Opt(o).extra THEN Opt(o).tmax * Opt(o).emin ELSE ItemsMax(o)

\* The use u of the option u.o by the command u.a: what it had before, how many words
\* it must and may take, its name, the value after "=" and the short flags after it.
Use(a, o, base, w, class) ==
    [a |-> a, o |-> o, base |-> base, max |-> MaxWords(o), name |-> Head(w.n),
     min |-> IF Opt(o).tmin < ItemsMin(o) THEN Opt(o).tmin ELSE ItemsMin(o),
     value |-> IF class = "long" THEN Plain(w.v) ELSE Empty,
     rest |-> IF class = "short" THEN Plain(Tail(w.n)) ELSE Empty]

Taken(p, u) == Count(p, u.o) - u.base

TakeAttached(p, u) ==
    IF u.max = 0 THEN GiveFlag(p, u.a, u.o, u.name, u.value)
    ELSE IF u.value # Empty THEN Give(p, u.a, u.o, u.value)
    ELSE IF u.rest # Empty THEN Give(p, u.a, u.o, u.rest)
    ELSE p

Enough(p, u) == IF u.min > Taken(p, u) THEN Throw(p, "ArgumentMismatch") ELSE p

TakeMinimum(p, u) ==
    IF p.error # None THEN p ELSE Enough(GiveMinimum(p, u.a, u.o, u.min, u.base), u)

EndOfList(p) == IF p.args # <<>> /\ Head(p.args) = Mark THEN Pop(p) ELSE p

FlagIfBare(p, u) ==
    IF u.min = 0 /\ Taken(p, u) = 0 THEN GiveFlag(p, u.a, u.o, u.name, Empty) ELSE p

TakeMore(p, u) ==
    IF p.error # None \/ u.max = 0 \/ ~(u.max > Taken(p, u) \/ Opt(u.o).extra) THEN p
    ELSE FlagIfBare(EndOfList(GiveOptional(p, u.a, u.o, u.max, u.base, RemainingPositionals(p, u.a, TRUE))), u)

\* A tuple that is not complete: an error, or ended by a separator.
CompleteTuple(p, u) ==
    IF p.error # None \/ u.min = 0 \/ Taken(p, u) % Opt(u.o).tmax = 0 THEN p
    ELSE IF Opt(u.o).tmin = Opt(u.o).tmax THEN Throw(p, "ArgumentMismatch")
    ELSE AddResult(p, u.o, Empty)

FireUse(p, u) == IF p.error = None THEN Fire(p, u.o) ELSE p

\* The other short flags of the word are still to be parsed.
PutBack(p, u) ==
    IF u.max = 0 /\ u.rest # Empty /\ p.error = None
    THEN [p EXCEPT !.args = <<Word(1, u.rest.n, <<>>)>> \o @]
    ELSE p

UseOption(p, u) == PutBack(FireUse(CompleteTuple(TakeMore(TakeMinimum(TakeAttached(p, u), u), u), u), u), u)

StartUse(p, a, o, w, class) == UseOption(p, Use(a, o, Count(p, o), w, class))

\* The rest of _parse_arg, once the option o of the command a is found by name.
ParseOption(p, a, o, class) == StartUse(Prepared(Pop(p), o), a, o, Head(p.args), class)

\* _parse_arg
RECURSIVE ParseArg(_, _, _)
ParseArg(p, a, class) ==
    LET w == Head(p.args)
        o == FirstSuch(Cmd(a).opts, LAMBDA x : Head(w.n) \in
                            IF class = "long" THEN Opt(x).long ELSE Opt(x).short)
        inGroups == FirstGroup(p, OpenGroups(a), LAMBDA q, g : ParseArg(q, g, class))
    IN  IF o # None THEN Took(ParseOption(p, a, o, class))
        ELSE IF inGroups.ok \/ inGroups.p.error # None THEN inGroups
        ELSE IF ~IsTop(a) /\ ~Named(a) THEN Left(p)
        ELSE IF ~IsTop(a) /\ Cmd(a).fallthrough THEN ParseArg(p, FallthroughParent(a), class)
        ELSE Took(MoveToMissing(Pop(p), a, class, w))

(***************************************************************************)
(* Positionals and subcommands.                                            *)
(***************************************************************************)
Fits(a, o, w) == Cmd(a).validatePos => ~Rejects(o, w)

\* Mutant: the word is not taken off the command line.
TakeAndKeep(p, a, o) ==
    Took(Fire([AddResult(Prepared(p, o), o, Head(p.args)) EXCEPT !.order[a] = Append(@, o)], o))

TakePositional(p, a, o) ==
    Took(Fire([AddResult(Prepared(Pop(p), o), o, Head(p.args)) EXCEPT !.order[a] = Append(@, o)], o))

\* Mutant: the words after the first one are dropped.
LeaveOverFirst(p, a) ==
    LET q == MoveToMissing(Pop(p), a, "none", Head(p.args))
    IN  IF Cmd(a).prefix THEN [q EXCEPT !.args = <<>>] ELSE q

\* With prefix_command_ everything from the first word nobody takes is left over.
LeaveOver(p, a) ==
    LET q == MoveToMissing(Pop(p), a, "none", Head(p.args))
    IN  IF Cmd(a).prefix
        THEN [FoldLeft(LAMBDA r, w : MoveToMissing(r, a, "none", w), q, q.args) EXCEPT !.args = <<>>]
        ELSE q

\* _parse_positional
RECURSIVE ParsePositional(_, _, _)
ParsePositional(p, a, halt) ==
    LET w == Head(p.args)
        lacking(o) == Opt(o).pos # <<>> /\ Count(p, o) < ItemsMin(o) /\ Fits(a, o, w)
        atEnd == Cmd(a).atEnd /\ Len(p.args) <= RemainingPositionals(p, a, TRUE)
        last == FirstSuch(Cmd(a).opts, LAMBDA o : atEnd /\ Opt(o).required /\ lacking(o))
        next == FirstSuch(Cmd(a).opts,
                    LAMBDA o : Opt(o).pos # <<>> /\ Fits(a, o, w) /\ (Count(p, o) < ItemsMin(o) \/ Opt(o).extra))
        inGroups == FirstGroup(p, OpenGroups(a), LAMBDA q, g : ParsePositional(q, g, FALSE))
        again == FindSubcommand(p, a, w, FALSE)
        top == IF IsTop(a) THEN a ELSE FallthroughParent(a)
        elsewhere == FindSubcommand(p, top, w, FALSE)
    IN  IF last # None THEN TakePositional(p, a, last)
        ELSE IF next # None THEN TakePositional(p, a, next)
        ELSE IF inGroups.ok \/ inGroups.p.error # None THEN inGroups
        ELSE IF ~IsTop(a) /\ Cmd(a).fallthrough
             THEN ParsePositional(p, FallthroughParent(a), Cmd(a).complete)
        ELSE IF again # None /\ ~SubcommandsFull(p, a)
             THEN IF halt THEN Left(p) ELSE Took(Enter(Pop(p), again, None, <<>>))
        ELSE IF elsewhere # None /\ ~SubcommandsFull(p, Cmd(elsewhere).parent) THEN Left(p)
        ELSE IF Cmd(a).atEnd THEN Left(Throw(p, "ExtrasError"))
        ELSE IF ~IsTop(a) /\ ~Named(a) THEN Left(p)
        ELSE Took(LeaveOver(p, a))

\* _parse_subcommand: a required positional goes first, even before a subcommand.
ParseSubcommand(p, a) ==
    LET w == Head(p.args)
        com == FindSubcommand(p, a, w, TRUE)
    IN  IF RemainingPositionals(p, a, TRUE) > 0 THEN Took(ParsePositional(p, a, FALSE).p)
        ELSE IF com # None
             THEN Took(Enter(IF Cmd(com).silent THEN Pop(p)
                             ELSE [Pop(p) EXCEPT !.subs[a] = Append(@, com)], com, a, <<>>))
        ELSE IF IsTop(a) THEN Left(Throw(p, "HorribleError"))
        ELSE Left(p)

\* The commands from the one above com up to, and without, the command a.
RECURSIVE Between(_, _)
Between(com, a) ==
    LET up == Cmd(com).parent IN IF up = a THEN <<>> ELSE <<up>> \o Between(up, a)

\* What the callers of _parse do when the parse of a subcommand returns.
AfterReturn(p, f) ==
    LET noted == IF f.by = None THEN p
                 ELSE FoldLeft(LAMBDA q, up : IF Cmd(f.app).silent THEN TriggerPreParse(q, up)
                                              ELSE [TriggerPreParse(q, up) EXCEPT !.subs[up] = Append(@, f.app)],
                               p, Between(f.app, f.by))
    IN  FoldLeft(LAMBDA q, g : IF q.pre[g] THEN q ELSE TriggerPreParse(q, g), noted, f.through)
=============================================================================
