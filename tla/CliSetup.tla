------------------------------ MODULE CliSetup ------------------------------
(* How a program declares its command line to CLI11: the calls that add,     *)
(* rename, link, move and remove options and subcommands before anything is  *)
(* parsed.  Each call looks for names that would no longer tell two options, *)
(* or two subcommands, apart; one that would throw leaves what it undoes.    *)
(*                                                                           *)
(* A name is that of a short or long option, with its dashes, or of a        *)
(* subcommand; Lower and Bare are the name in lower case and the name        *)
(* without underscores.  Positional names play no part in the checks.        *)
EXTENDS Naturals, FiniteSets

CONSTANTS None, Root,
          Subs,          \* the identities a subcommand or option group may have
          Options,       \* the identities an option may have
          Names, Unnamed, Lower, Bare,
          Declared,      \* the sets of names an option may be declared with
          Later,         \* the names a subcommand may get afterwards
          MaxCalls       \* bound: the calls of the program that change anything

Commands == {Root} \cup Subs
Kinds == {"case", "under"}     \* what may be ignored in a name

ASSUME NamesAssumption ==
    /\ Lower \in [Names -> Names] /\ Bare \in [Names -> Names]
    /\ \A n \in Names : Lower[Bare[n]] = Bare[Lower[n]]
    /\ Declared \subseteq SUBSET Names /\ Later \subseteq Names
ASSUME IdentitiesAssumption ==
    /\ None \notin Commands \cup Options /\ Root \notin Subs /\ Unnamed \notin Names
    /\ MaxCalls \in Nat

VARIABLES opts,          \* the options of all commands
          cmds,          \* the commands
          calls          \* how many calls changed anything

vars == <<opts, cmds, calls>>

(***************************************************************************)
(* Options: at is the command that holds the option, home the one it was   *)
(* made for (parent_); made, moved, astray and stripped are history: the   *)
(* options that were ever made, those that changed hands, those that came  *)
(* to ignore more after that, and those that a command which does not hold *)
(* them was asked to remove.                                               *)
(***************************************************************************)
NoOptions ==
    [at |-> [o \in Options |-> None], home |-> [o \in Options |-> None],
     names |-> [o \in Options |-> {}], flags |-> [o \in Options |-> {}],
     needs |-> [o \in Options |-> {}], excludes |-> [o \in Options |-> {}],
     made |-> {}, moved |-> {}, astray |-> {}, stripped |-> {}]

Live(q, o) == q.at[o] # None

\* find_member compares names in this form.
Norm(fs, n) ==
    IF "under" \in fs THEN IF "case" \in fs THEN Lower[Bare[n]] ELSE Bare[n]
    ELSE IF "case" \in fs THEN Lower[n] ELSE n

\* check_sname, check_lname of an option with the names ns that ignores fs
Answers(ns, fs, n) == \E m \in ns : Norm(fs, m) = Norm(fs, n)

\* Mutant: the inverse is left out.
MatchingOneWay(q, x, ns, fs) == \E n \in q.names[x] : Answers(ns, fs, n)

\* matching_name of the option x and one with the names ns that ignores fs; the
\* inverse is only looked at when x ignores something itself.
Matching(q, x, ns, fs) ==
    \/ \E n \in q.names[x] : Answers(ns, fs, n)
    \/ q.flags[x] # {} /\ \E n \in ns : Answers(q.names[x], q.flags[x], n)

Clashes(q, a, o, ns, fs) == \E x \in Options \ {o} : q.at[x] = a /\ Matching(q, x, ns, fs)

\* Option::ignore_case and ignore_underscore: looks at the options of the parent.
Ignore(q, o, k) ==
    IF Clashes(q, q.home[o], o, q.names[o], q.flags[o] \cup {k}) THEN q
    ELSE [q EXCEPT !.flags[o] = @ \cup {k},
                   !.astray = IF q.at[o] = q.home[o] THEN @ ELSE @ \cup {o}]

Heed(q, o, k) == [q EXCEPT !.flags[o] = @ \ {k}]

Made(q, a, o, ns) ==
    [q EXCEPT !.at[o] = a, !.home[o] = a, !.names[o] = ns, !.flags[o] = {},
              !.needs[o] = {}, !.excludes[o] = {}, !.made = @ \cup {o}]

\* add_option: nothing is added when a name is taken; the defaults of the command
\* are copied last, and one that throws leaves the option there.
Added(q, a, o, ns, defaults) ==
    LET r == Made(q, a, o, ns)
        c == IF "case" \in defaults THEN Ignore(r, o, "case") ELSE r
        done == "case" \in defaults => "case" \in c.flags[o]
    IN  IF Clashes(q, a, o, ns, {}) THEN q
        ELSE IF "under" \in defaults /\ done THEN Ignore(c, o, "under") ELSE c

Accepted(q, o, defaults) == o \in q.made /\ q.flags[o] = defaults

\* Mutant: the links to the option stay.
RemovedWithLinks(q, a, o) ==
    [q EXCEPT !.at[o] = IF @ = a THEN None ELSE @,
              !.stripped = IF q.at[o] = a THEN @ ELSE @ \cup {o}]

\* remove_option: the command a forgets its links to o, and o when it is its own.
Removed(q, a, o) ==
    [q EXCEPT !.needs = [x \in Options |-> IF q.at[x] = a THEN q.needs[x] \ {o} ELSE q.needs[x]],
              !.excludes = [x \in Options |-> IF q.at[x] = a THEN q.excludes[x] \ {o} ELSE q.excludes[x]],
              !.at[o] = IF @ = a THEN None ELSE @,
              !.stripped = IF q.at[o] = a THEN @ ELSE @ \cup {o}]

LinkedNeeds(q, o, x) == IF o = x THEN q ELSE [q EXCEPT !.needs[o] = @ \cup {x}]

\* Mutant: only one side is told.
ExcludedOneWay(q, o, x) == IF o = x THEN q ELSE [q EXCEPT !.excludes[o] = @ \cup {x}]

\* excludes: an option cannot exclude itself; the other one is told.
LinkedExcludes(q, o, x) ==
    IF o = x THEN q ELSE [q EXCEPT !.excludes = [y \in Options |->
        IF y = o THEN q.excludes[o] \cup {x} ELSE IF y = x THEN q.excludes[x] \cup {o} ELSE q.excludes[y]]]

\* _move_option to the subcommand c; its parent_ stays what it was.
MovedTo(q, o, c) ==
    IF Clashes(q, c, o, q.names[o], q.flags[o]) THEN q
    ELSE [q EXCEPT !.at[o] = c, !.moved = @ \cup {o}]

\* The options of commands that are destroyed go with them.
Dropped(q, cs) == [q EXCEPT !.at = [o \in Options |-> IF q.at[o] \in cs THEN None ELSE q.at[o]]]

(***************************************************************************)
(* Commands; muted and blurred are history: those that were ever disabled, *)
(* and those that ever ignored both kinds at once.                         *)
(***************************************************************************)
NoSubcommands ==
    [parent |-> [c \in Subs |-> None], name |-> [c \in Commands |-> Unnamed],
     aliases |-> [c \in Commands |-> {}], flags |-> [c \in Commands |-> {}],
     off |-> {}, not |-> [c \in Commands |-> {}], defaults |-> [c \in Commands |-> {}],
     help |-> [c \in Commands |-> None], config |-> None, made |-> {}, muted |-> {}, blurred |-> {}]

Exists(k, c) == c = Root \/ (c \in Subs /\ k.parent[c] # None)
IsGroup(k, c) == c # Root /\ k.name[c] = Unnamed
Kids(k, a) == {s \in Subs : k.parent[s] = a}

\* _get_fallthrough_parent; groups within groups are not made (see AddSubcommand).
Scope(k, c) == IF IsGroup(k, k.parent[c]) THEN k.parent[k.parent[c]] ELSE k.parent[c]

NamesOf(k, c) == k.aliases[c] \cup IF k.name[c] = Unnamed THEN {} ELSE {k.name[c]}

\* App::check_name: in lower case the name keeps its underscores.
CheckName(k, c, n) ==
    LET fs == k.flags[c]
        own == IF "case" \in fs THEN Lower[k.name[c]] ELSE Norm(fs, k.name[c])
    IN  \/ k.name[c] # Unnamed /\ own = Norm(fs, n)
        \/ Answers(k.aliases[c], fs, n)

SameName(k, s, c) ==
    \/ \E n \in NamesOf(k, s) : CheckName(k, c, n)
    \/ \E n \in NamesOf(k, c) : CheckName(k, s, n)

\* A command and what is in it, as far as it can be reached through commands without a name.
Inside(k, c) ==
    LET ks == Kids(k, c) \ k.off
        deep == UNION {Kids(k, g) \ k.off : g \in {x \in ks : k.name[x] = Unnamed}}
    IN  {c} \cup IF k.name[c] = Unnamed THEN ks \cup deep ELSE {}

\* Mutant: what is in an option group is not compared.
CompareFlat(k, s, base) ==
    s \notin k.off /\ \E c \in Kids(k, base) \ (k.off \cup {s}) : SameName(k, s, c)

\* _compare_subcommand_names: does s have a name in common with the commands of base?
Compare(k, s, base) ==
    /\ s \notin k.off
    /\ \E c \in Kids(k, base) \ (k.off \cup {s}) :
          \E x \in Inside(k, s), y \in Inside(k, c) : x # y /\ SameName(k, x, y)

Unless(clash, k, new) == IF clash THEN k ELSE new

\* The command c ignores fs.
Ignoring(k, c, fs) ==
    [k EXCEPT !.flags[c] = fs, !.blurred = IF fs = Kinds THEN @ \cup {c} ELSE @]

\* All below c, itself included.
Doomed(k, c) ==
    {s \in Subs : \A D \in SUBSET Subs :
        (c \in D /\ \A x \in Subs : k.parent[x] \in D => x \in D) => s \in D}

\* remove_subcommand: the command a forgets the links of its other subcommands to c.
Without(k, a, c) ==
    [k EXCEPT !.parent[c] = None,
              !.not = [x \in Commands |-> IF x = c THEN k.not[c] \ Kids(k, a)
                                          ELSE IF x \in Kids(k, a) THEN k.not[x] \ {c} ELSE k.not[x]]]

Destroyed(k, a, c) ==
    LET r == Without(k, a, c)
    IN  [r EXCEPT !.parent = [x \in Subs |-> IF x \in Doomed(k, c) THEN None ELSE @[x]],
                  !.off = @ \ Doomed(k, c)]

(***************************************************************************)
(* The calls.                                                              *)
(***************************************************************************)
Init == opts = NoOptions /\ cmds = NoSubcommands /\ calls = 0

\* A call that leaves the options q and the commands k.  Only calls that change
\* something are counted: one that throws mostly does not.
Leaves(q, k) ==
    /\ opts' = q /\ cmds' = k
    /\ calls' = IF q = opts /\ k = cmds THEN calls ELSE calls + 1

Asked(s) == IF calls < MaxCalls THEN s ELSE {}

Present == {c \in Commands : Exists(cmds, c)}
Holding == {o \in Options : Live(opts, o)}

\* What is made is new; which of the identities it gets does not matter.
New(ids) == IF ids = {} THEN {} ELSE {CHOOSE x \in ids : TRUE}
NewOptions == New(Options \ opts.made)
NewSubs == New(Subs \ cmds.made)

\* The pointer to the help option is cleared when that option is removed.
Unhelped(k, a, o) == IF k.help[a] = o THEN [k EXCEPT !.help[a] = None] ELSE k

AddOption(a, o, ns) == Leaves(Added(opts, a, o, ns, cmds.defaults[a]), cmds)

RemoveOption(a, o) == Leaves(Removed(opts, a, o), Unhelped(cmds, a, o))

\* retire_option: the option is replaced by one with its names that does nothing.
RetireOption(a, o, n) ==
    Leaves(Added(Removed(opts, a, o), a, n, opts.names[o], cmds.defaults[a]), Unhelped(cmds, a, o))

Needs(o, x) == Leaves(LinkedNeeds(opts, o, x), cmds)

Excludes(o, x) == Leaves(LinkedExcludes(opts, o, x), cmds)

\* Option::remove_needs
StopNeeding(o, x) == Leaves([opts EXCEPT !.needs[o] = @ \ {x}], cmds)

\* The command the option was made for has to be there.
IgnoreOption(o, i) == Exists(cmds, opts.home[o]) /\ Leaves(Ignore(opts, o, i), cmds)

HeedOption(o, i) == Leaves(Heed(opts, o, i), cmds)

\* option_defaults(), for the options added from now on
SetDefaults(a, i) == Leaves(opts, [cmds EXCEPT !.defaults[a] = @ \cup {i}])

\* Option_group::add_option and _move_option: never the help or the config option.
MoveOption(a, c, o) ==
    /\ opts.at[o] = a /\ cmds.help[a] # o /\ (a = Root => cmds.config # o)
    /\ Leaves(MovedTo(opts, o, c), cmds)

\* set_help_flag: what was there goes first, and nothing is there when the name is taken.
SetHelp(a, o, ns) ==
    LET q == IF cmds.help[a] = None THEN opts ELSE Removed(opts, a, cmds.help[a])
        r == IF ns = {} THEN q ELSE Added(q, a, o, ns, cmds.defaults[a])
        there == ns # {} /\ Accepted(r, o, cmds.defaults[a])
    IN  Leaves(r, [cmds EXCEPT !.help[a] = IF there THEN o ELSE None])

\* set_config, of the program itself
SetConfig(o, ns) ==
    LET q == IF cmds.config = None THEN opts ELSE Removed(opts, Root, cmds.config)
        r == IF ns = {} THEN q ELSE Added(q, Root, o, ns, cmds.defaults[Root])
        there == ns # {} /\ Accepted(r, o, cmds.defaults[Root])
        k == IF cmds.config = None THEN cmds ELSE Unhelped(cmds, Root, cmds.config)
    IN  Leaves(r, [k EXCEPT !.config = IF there THEN o ELSE None])

\* add_subcommand (of a name) and add_option_group (of none): the new command takes
\* the help flag of its parent as the option o, then the defaults.
AddSubcommand(a, c, n, o) ==
    LET k == [Ignoring(cmds, c, cmds.flags[a]) EXCEPT
                !.parent[c] = a, !.name[c] = n, !.defaults[c] = cmds.defaults[a],
                !.help[c] = o, !.made = @ \cup {c}]
        q == IF o = None THEN opts ELSE Made(opts, c, o, opts.names[cmds.help[a]])
    IN  /\ n = Unnamed => ~IsGroup(cmds, a)
        /\ o = None <=> cmds.help[a] = None
        /\ IF Compare(k, c, Scope(k, c)) THEN Leaves(opts, cmds) ELSE Leaves(q, k)

\* remove_subcommand, of one's own
RemoveSubcommand(c) ==
    Leaves(Dropped(opts, Doomed(cmds, c)), Destroyed(cmds, cmds.parent[c], c))

\* Option_group::add_subcommand: removed where it is, then added here; it is lost
\* when its name is taken.
MoveSubcommand(c, g) ==
    LET k == [Without(cmds, cmds.parent[c], c) EXCEPT !.parent[c] = g]
    IN  IF Compare(k, c, Scope(k, c)) THEN RemoveSubcommand(c) ELSE Leaves(opts, k)

\* App::name; the name of the program itself plays no part.
Rename(c, n) ==
    LET k == [cmds EXCEPT !.name[c] = n]
    IN  Leaves(opts, Unless(Compare(k, c, Scope(k, c)), cmds, k))

\* App::alias
Alias(c, n) ==
    LET k == [cmds EXCEPT !.aliases[c] = @ \cup {n}]
    IN  Leaves(opts, Unless(Compare(k, c, Scope(k, c)), cmds, k))

\* App::ignore_case and ignore_underscore; the program itself looks at its own.
IgnoreCommand(c, i) ==
    LET k == Ignoring(cmds, c, cmds.flags[c] \cup {i})
        base == IF c = Root THEN Root ELSE Scope(cmds, c)
    IN  Leaves(opts, Unless(Compare(k, c, base), cmds, k))

HeedCommand(c, i) == Leaves(opts, [cmds EXCEPT !.flags[c] = @ \ {i}])

\* App::disabled
Disable(c) == Leaves(opts, [cmds EXCEPT !.off = @ \cup {c}, !.muted = @ \cup {c}])

Enable(c) == Leaves(opts, [cmds EXCEPT !.off = @ \ {c}])

\* App::excludes: the other one is told the first time.
ExcludesCommand(c, d) ==
    Leaves(opts, IF d \in cmds.not[c] THEN cmds
                 ELSE [cmds EXCEPT !.not[c] = @ \cup {d}, !.not[d] = @ \cup {c}])

\* App::remove_excludes: the other one is told.
StopExcluding(c, d) ==
    Leaves(opts, IF d \notin cmds.not[c] THEN cmds
                 ELSE [cmds EXCEPT !.not[c] = @ \ {d}, !.not[d] = @ \ {c}])

\* Bound: defaults are set for the program as a whole.
Next ==
    \/ \E a \in Asked(Present), o \in NewOptions, ns \in Declared \ {{}} : AddOption(a, o, ns)
    \/ \E a \in Asked(Present), o \in Holding : RemoveOption(a, o)
    \/ \E a \in Asked(Present), o \in Holding, n \in NewOptions : RetireOption(a, o, n)
    \/ \E o, x \in Asked(Holding) : Needs(o, x)
    \/ \E o, x \in Asked(Holding) : Excludes(o, x)
    \/ \E o, x \in Asked(Holding) : StopNeeding(o, x)
    \/ \E o \in Asked(Holding), i \in Kinds : IgnoreOption(o, i)
    \/ \E o \in Asked(Holding), i \in Kinds : HeedOption(o, i)
    \/ \E i \in Asked(Kinds) : SetDefaults(Root, i)
    \/ \E a \in Asked(Present), o \in Holding : \E c \in Kids(cmds, a) : MoveOption(a, c, o)
    \/ \E a \in Asked(Present), o \in NewOptions, ns \in Declared : SetHelp(a, o, ns)
    \/ \E o \in Asked(NewOptions), ns \in Declared : SetConfig(o, ns)
    \/ \E a \in Asked(Present), c \in NewSubs, n \in Names \cup {Unnamed}, o \in NewOptions \cup {None} :
          AddSubcommand(a, c, n, o)
    \/ \E c \in Asked(Present \ {Root}) : RemoveSubcommand(c)
    \/ \E c, g \in Asked(Present \ {Root}) :
          /\ IsGroup(cmds, g) /\ ~IsGroup(cmds, c) /\ g \notin Doomed(cmds, c)
          /\ MoveSubcommand(c, g)
    \/ \E c \in Asked(Present \ {Root}), n \in Later : ~IsGroup(cmds, c) /\ Rename(c, n)
    \/ \E c \in Asked(Present \ {Root}), n \in Later : Alias(c, n)
    \/ \E c \in Asked(Present), i \in Kinds : IgnoreCommand(c, i)
    \/ \E c \in Asked(Present), i \in Kinds : HeedCommand(c, i)
    \/ \E c \in Asked(Present \ {Root}) : Disable(c)
    \/ \E c \in Asked(Present \ {Root}) : Enable(c)
    \/ \E c, d \in Asked(Present) : c # d /\ ExcludesCommand(c, d)
    \/ \E c, d \in Asked(Present) : c # d /\ StopExcluding(c, d)

Spec == Init /\ [][Next]_vars

(***************************************************************************)
(* What must hold whatever a program calls.                                *)
(***************************************************************************)
OptionTables ==
    [at : [Options -> Commands \cup {None}], home : [Options -> Commands \cup {None}],
     names : [Options -> SUBSET Names], flags : [Options -> SUBSET Kinds],
     needs : [Options -> SUBSET Options], excludes : [Options -> SUBSET Options],
     made : SUBSET Options, moved : SUBSET Options, astray : SUBSET Options,
     stripped : SUBSET Options]

CommandTables ==
    [parent : [Subs -> Commands \cup {None}], name : [Commands -> Names \cup {Unnamed}],
     aliases : [Commands -> SUBSET Names], flags : [Commands -> SUBSET Kinds],
     off : SUBSET Subs, not : [Commands -> SUBSET Commands],
     defaults : [Commands -> SUBSET Kinds], help : [Commands -> Options \cup {None}],
     config : Options \cup {None}, made : SUBSET Subs, muted : SUBSET Subs,
     blurred : SUBSET Commands]

TypeOK == opts \in OptionTables /\ cmds \in CommandTables /\ calls \in 0..MaxCalls

(* A name on the command line leads to one option of a command: no other     *)
(* option there answers to any name of an option, whatever was ignored or    *)
(* moved, and in whatever order (Option::matching_name, App::add_option,     *)
(* _move_option, Option::ignore_case).  Not so for an option that ignores    *)
(* more after a move: it is compared with those it left.                     *)
OptionsApart ==
    \A o, x \in Holding \ opts.astray : o # x /\ opts.at[o] = opts.at[x] =>
        \A n \in opts.names[o] : ~Answers(opts.names[x], opts.flags[x], n)

(* The same for subcommands: as long as nothing was disabled, no two of one  *)
(* scope, which takes in those of its option groups, answer to a name of     *)
(* each other (App::check_name, _compare_subcommand_names).  Not so for one  *)
(* that ever ignored both case and underscores: App::check_name then keeps   *)
(* the underscores of its name, and the comparison misses what it answers to *)
(* when it heeds the case again.                                             *)
Heard == {c \in Present \ {Root} :
            {c, cmds.parent[c]} \cap cmds.muted = {} /\ c \notin cmds.blurred /\ ~IsGroup(cmds, c)}
CommandsApart ==
    \A c, d \in Heard : c # d /\ Scope(cmds, c) = Scope(cmds, d) =>
        \A n \in NamesOf(cmds, c) : ~CheckName(cmds, d, n)

(* Exclusion stays mutual: of two options, or two commands, that exist,      *)
(* neither rules the other out alone, so that the order of the words cannot  *)
(* decide whether they are refused (Option::excludes, App::excludes,         *)
(* remove_excludes).  Except for options that a command which does not hold  *)
(* them was asked to remove.                                                 *)
ExclusionsMutual ==
    /\ \A o, x \in Holding \ opts.stripped : x \in opts.excludes[o] => o \in opts.excludes[x]
    /\ \A c, d \in Present : d \in cmds.not[c] => c \in cmds.not[d]

(* No pointer outlives its option: what an option needs or excludes, when    *)
(* both were made in one command and stayed there, and the help flag of a    *)
(* command, are still there to be looked at (App::remove_option,             *)
(* set_help_flag, retire_option).                                            *)
LinksLive ==
    /\ \A o \in Holding \ opts.moved :
          \A x \in (opts.needs[o] \cup opts.excludes[o]) \ opts.moved :
              opts.home[x] = opts.home[o] => Live(opts, x)
    /\ \A a \in Present : cmds.help[a] # None => opts.at[cmds.help[a]] = a

(* "Check the name, case insensitive and underscore insensitive if set"      *)
(* (App::check_name): a command answers to its own name and aliases.  Not    *)
(* so when it ignores both: its name keeps its underscores while the word    *)
(* loses them, and a name with an underscore is never found.                 *)
AnswersToItsName == \A c \in Present : \A n \in NamesOf(cmds, c) : CheckName(cmds, c, n)
=============================================================================
