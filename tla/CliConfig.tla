----------------------------- MODULE CliConfig -----------------------------
(* ConfigBase::from_config of CLI11: the items that the lines of a           *)
(* configuration file stand for.                                             *)
(*                                                                           *)
(* A line is a section header, with the path between its dots, or sets a     *)
(* name below a path of its own to values; the path <<>> is the default      *)
(* section.  An item has the path of the command it is for, a name and its   *)
(* values; the names "++" and "--" open and close the section of a command.  *)
EXTENDS Integers, Sequences, SequencesExt

CONSTANT None        \* nothing

Header(path) == [kind |-> "header", path |-> path, name |-> "", inputs |-> <<>>]
Setting(path, name, inputs) == [kind |-> "setting", path |-> path, name |-> name, inputs |-> inputs]

Item(parents, name, inputs) == [parents |-> parents, name |-> name, inputs |-> inputs]
Opens(path) == Item(path, "++", <<>>)
Closes(path) == Item(path, "--", <<>>)

Lesser(i, j) == IF i < j THEN i ELSE j
First(n) == 1..IF n > 0 THEN n ELSE 0

\* Mutant: the outermost of them stays open.
CloseToButOne(output, n) ==
    LET path == Last(output).parents
    IN  output \o [i \in First(Len(path) - n - 1) |-> Closes(SubSeq(path, 1, Len(path) - i))]

\* After a closing marker: those of the sections around it, down to depth n.
CloseTo(output, n) ==
    LET path == Last(output).parents
    IN  output \o [i \in First(Len(path) - n) |-> Closes(SubSeq(path, 1, Len(path) - i))]

\* The opening markers of the sections around path that are deeper than n, and of it.
OpenFrom(path, n) == [i \in First(Len(path) - n) |-> Opens(SubSeq(path, 1, n + i))]

\* How many of the sections around the new one are around the last one as well.
CommonDepth(last, around) ==
    LET most == Lesser(Len(last), Len(around))
        same == {n \in 0..most : SubSeq(last, 1, n) = SubSeq(around, 1, n)}
    IN  CHOOSE n \in same : \A m \in same : m <= n

\* checkParentSegments: what is closed and opened before the section path begins.
EnterSection(output, path) ==
    LET around == Front(path)
        leaving == output # <<>> /\ Last(output).name = "--"
        closed == CloseTo(output, IF around = <<>> THEN 1 ELSE Len(around))
        last == Last(closed).parents
        common == CommonDepth(last, around)
        kept == IF common = Lesser(Len(last), Len(around)) THEN Front(closed)  \* it stays open
                ELSE CloseTo(closed, common + 1)
    IN  IF ~leaving THEN output \o OpenFrom(path, 0)
        ELSE IF around = <<>> THEN closed \o OpenFrom(path, 0)
        ELSE kept \o OpenFrom(path, common)

\* What reading has come to: the items, the section, how many headers of the same
\* name precede, and whether the section asked for was met under this header.
Reading0 == [items |-> <<>>, section |-> <<>>, previous |-> <<>>, index |-> 0, inSection |-> FALSE]

ReadHeader(r, path) ==
    LET left == IF r.section = <<>> THEN r.items ELSE Append(r.items, Closes(r.section))
    IN  [items |-> IF path = <<>> THEN left ELSE EnterSection(left, path),
         section |-> path, previous |-> path, inSection |-> FALSE,
         index |-> IF path = r.previous THEN r.index + 1 ELSE 0]

\* Values of one name in a row are those of one item.
AddItem(items, parents, name, inputs) ==
    IF items # <<>> /\ Last(items).name = name /\ Last(items).parents = parents
    THEN [items EXCEPT ![Len(items)].inputs = @ \o inputs]
    ELSE Append(items, Item(parents, name, inputs))

\* section and index: only this section is read, only its index-th occurrence unless -1.
ReadSetting(r, line, section, index) ==
    LET parents == r.section \o line.path
        asked == section # None
        skipped == \/ parents = <<>> \/ Head(parents) # section
                   \/ index >= 0 /\ r.index # index
    IN  IF ~asked \/ r.inSection THEN [r EXCEPT !.items = AddItem(@, parents, line.name, line.inputs)]
        ELSE IF skipped THEN r
        ELSE [r EXCEPT !.items = AddItem(@, Tail(parents), line.name, line.inputs), !.inSection = TRUE]

\* from_config; what is open at the end is closed.
FromConfig(lines, section, index) ==
    LET read(r, line) == IF line.kind = "header" THEN ReadHeader(r, line.path)
                         ELSE ReadSetting(r, line, section, index)
        r == FoldLeft(read, Reading0, lines)
    IN  IF r.section = <<>> THEN r.items ELSE CloseTo(Append(r.items, Closes(r.section)), 1)
=============================================================================
