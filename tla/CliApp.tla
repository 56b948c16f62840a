------------------------------- MODULE CliApp -------------------------------
(* The commands of CLI11: a tree of App objects.  A command with a name is a *)
(* subcommand, one without is an option group, whose options count as those  *)
(* of the command it belongs to.  This module holds what parsing asks of the *)
(* tree and what it keeps for each command.                                  *)
EXTENDS CliOption

\* A command as the constructor of App leaves it.
DefaultApp ==
    [name |-> <<>>, parent |-> None, subs |-> <<>>, opts |-> <<>>, disabled |-> FALSE,
     extras |-> FALSE, prefix |-> FALSE, fallthrough |-> FALSE, atEnd |-> FALSE,
     validatePos |-> FALSE, validateOpt |-> FALSE, required |-> FALSE, silent |-> FALSE,
     immediate |-> FALSE, complete |-> FALSE, final |-> TRUE, configurable |-> FALSE,
     subMin |-> 0, subMax |-> 0, optMin |-> 0, optMax |-> 0,
     needOpts |-> {}, needSubs |-> {}, notOpts |-> {}, notSubs |-> {}, help |-> None, helpAll |-> None]

Cmd(a) == Shape.app[a]
Named(a) == Cmd(a).name # <<>>
IsTop(a) == Cmd(a).parent = None
Groups(a) == SelectSeq(Cmd(a).subs, LAMBDA s : ~Named(s))
OpenGroups(a) == SelectSeq(Groups(a), LAMBDA s : ~Cmd(s).disabled)

\* The first element of the sequence s that passes the test, or None.
FirstSuch(s, Test(_)) ==
    LET good == SelectSeq(s, Test) IN IF good = <<>> THEN None ELSE Head(good)

\* _configure: option groups neither fall through nor take a whole command line.
Configured(apps) ==
    [a \in DOMAIN apps |->
        IF apps[a].parent # None /\ apps[a].name = <<>>
        THEN [apps[a] EXCEPT !.fallthrough = FALSE, !.prefix = FALSE] ELSE apps[a]]

Unlimited(o) == ItemsMax(o) >= MaxVec /\ Opt(o).long = {} /\ Opt(o).short = {}

\* _validate: a tree whose positionals or option counts contradict themselves.
Invalid(a) ==
    LET unlimited == {o \in Range(Cmd(a).opts) : Unlimited(o)}
        c == Cmd(a)
    IN  \/ /\ Cardinality(unlimited) > 1
           /\ Cardinality({o \in unlimited : ~Opt(o).required}) > 1
        \/ c.optMin > 0 /\ c.optMax > 0 /\ c.optMax < c.optMin
        \/ c.optMin > Len(c.opts) + Len(Groups(a))

(***************************************************************************)
(* What a parse keeps: results and fired of each option; how often each    *)
(* command was parsed, the words nobody took, the subcommands met, whether *)
(* its pre-parse callback ran, the order of its options; the words left    *)
(* and the commands being parsed.                                          *)
(***************************************************************************)
StartOf(words) ==
    [error |-> None, args |-> words, frames |-> <<>>, calls |-> <<>>, ran |-> <<>>, fileError |-> FALSE,
     results |-> [o \in DOMAIN Shape.opt |-> <<>>],
     fired   |-> [o \in DOMAIN Shape.opt |-> FALSE],
     parsed  |-> [a \in DOMAIN Shape.app |-> 0],
     missing |-> [a \in DOMAIN Shape.app |-> <<>>],
     subs    |-> [a \in DOMAIN Shape.app |-> <<>>],
     pre     |-> [a \in DOMAIN Shape.app |-> FALSE],
     order   |-> [a \in DOMAIN Shape.app |-> <<>>]]

Count(p, o) == Len(p.results[o])

\* count_all() > 0
RECURSIVE Used(_, _)
Used(p, a) ==
    \/ \E i \in DOMAIN Cmd(a).opts : Count(p, Cmd(a).opts[i]) > 0
    \/ \E i \in DOMAIN Cmd(a).subs : Used(p, Cmd(a).subs[i])
    \/ Named(a) /\ p.parsed[a] > 0

\* App::clear, for the command and all below it; the parse order stays.
RECURSIVE ClearApp(_, _)
ClearApp(p, a) ==
    LET own == [FoldLeft(ClearOption, p, Cmd(a).opts) EXCEPT
                    !.parsed[a] = 0, !.pre[a] = FALSE, !.missing[a] = <<>>, !.subs[a] = <<>>]
    IN  FoldLeft(ClearApp, own, Cmd(a).subs)

\* increment_parsed: a command is met, and its option groups with it.
RECURSIVE IncrementParsed(_, _)
IncrementParsed(p, a) == FoldLeft(IncrementParsed, [p EXCEPT !.parsed[a] = @ + 1], Groups(a))

\* _trigger_pre_parse: an immediate subcommand that is met again starts afresh.
TriggerPreParse(p, a) ==
    IF ~p.pre[a] THEN [p EXCEPT !.pre[a] = TRUE]
    ELSE IF Cmd(a).immediate /\ Named(a)
    THEN [ClearApp(p, a) EXCEPT !.parsed[a] = p.parsed[a], !.pre[a] = TRUE, !.missing[a] = p.missing[a]]
    ELSE p

\* _move_to_missing: a word nobody takes goes where extras are allowed.
MoveToMissing(p, a, class, w) ==
    LET open == FirstSuch(Groups(a), LAMBDA s : Cmd(s).extras)
        to == IF Cmd(a).extras \/ Cmd(a).subs = <<>> \/ open = None THEN a ELSE open
    IN  [p EXCEPT !.missing[to] = Append(@, <<class, w>>)]

\* remaining_size
Remaining(p, a) == SelectSeq(p.missing[a], LAMBDA m : m[1] # "mark")

\* _get_fallthrough_parent: the closest command above that has a name, or the top.
RECURSIVE FallthroughParent(_)
FallthroughParent(a) ==
    LET up == Cmd(a).parent
    IN  IF IsTop(up) \/ Named(up) THEN up ELSE FallthroughParent(up)

\* _find_subcommand, which looks into option groups too.
RECURSIVE FindIn(_, _, _, _, _)
FindIn(p, subs, w, ignoreDisabled, ignoreUsed) ==
    IF subs = <<>> THEN None
    ELSE LET s == Head(subs)
             open == ~Cmd(s).disabled \/ ~ignoreDisabled
             below == IF Named(s) THEN None ELSE FindIn(p, Cmd(s).subs, w, ignoreDisabled, ignoreUsed)
             here == w = Plain(Cmd(s).name) /\ (p.parsed[s] = 0 \/ ~ignoreUsed)
         IN  IF open /\ below # None THEN below
             ELSE IF open /\ here THEN s
             ELSE FindIn(p, Tail(subs), w, ignoreDisabled, ignoreUsed)

FindSubcommand(p, a, w, ignoreUsed) == FindIn(p, Cmd(a).subs, w, TRUE, ignoreUsed)

SubcommandsFull(p, a) == Cmd(a).subMax # 0 /\ Len(p.subs[a]) >= Cmd(a).subMax

\* _valid_subcommand
RECURSIVE ValidSubcommand(_, _, _, _)
ValidSubcommand(p, a, w, ignoreUsed) ==
    \/ ~SubcommandsFull(p, a) /\ FindSubcommand(p, a, w, ignoreUsed) # None
    \/ ~IsTop(a) /\ ValidSubcommand(p, Cmd(a).parent, w, ignoreUsed)

\* get_option_no_throw for a name with dashes, down into the option groups.
RECURSIVE OptionNamed(_, _, _)
OptionNamed(a, name, class) ==
    LET here == FirstSuch(Cmd(a).opts,
                    LAMBDA o : name \in IF class = "long" THEN Opt(o).long ELSE Opt(o).short)
        below == SelectSeq([i \in DOMAIN Groups(a) |-> OptionNamed(Groups(a)[i], name, class)],
                           LAMBDA o : o # None)
    IN  IF here # None THEN here ELSE IF below # <<>> THEN Head(below) ELSE None

Terminator == Plain(<<"++">>)

\* _recognize: the class of a word for the command a.
Recognize(p, a, w, ignoreUsed) ==
    IF w = Mark THEN "mark"
    ELSE IF ValidSubcommand(p, a, w, ignoreUsed) THEN "sub"
    ELSE IF w.d = 2 THEN "long"
    ELSE IF w.d = 1 /\ w.n # <<>>
         THEN IF Head(w.n) \in Digits /\ OptionNamed(a, Head(w.n), "short") = None
              THEN "none" ELSE "short"
    ELSE IF w = Terminator /\ Named(a) /\ ~IsTop(a) THEN "terminator"
    ELSE "none"

\* _count_remaining_positionals
RemainingPositionals(p, a, requiredOnly) ==
    LET open == SelectSeq(Cmd(a).opts, LAMBDA o : /\ Opt(o).pos # <<>> /\ (Opt(o).required \/ ~requiredOnly)
                                                  /\ ItemsMin(o) > 0 /\ Count(p, o) < ItemsMin(o))
    IN  FoldLeft(LAMBDA n, o : n + ItemsMin(o) - Count(p, o), 0, open)

HasRemainingPositionals(p, a) ==
    \E i \in DOMAIN Cmd(a).opts : LET o == Cmd(a).opts[i] IN Opt(o).pos # <<>> /\ Count(p, o) < ItemsMin(o)
=============================================================================
