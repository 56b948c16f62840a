--------------------------- MODULE CliSetupProofs ---------------------------
(***************************************************************************)
(* The declaration of any command line, by any calls in any order.         *)
(***************************************************************************)
EXTENDS CliSetup, TLAPS

-----------------------------------------------------------------------------
(* Options.  What is said of the tables q of all options, so that it can be *)
(* followed from operator to operator.                                      *)
NamesApart(q) ==
  \A o, x \in Options \ q.astray : o # x /\ Live(q, o) /\ q.at[o] = q.at[x] =>
    \A n \in q.names[o] : ~Answers(q.names[x], q.flags[x], n)

(* Where an option is that was never moved, and whom its links can name.    *)
Placed(q) ==
  \A o \in Options : /\ Live(q, o) => o \in q.made /\ (o \in q.moved \/ q.at[o] = q.home[o])
                     /\ q.needs[o] \cup q.excludes[o] \subseteq q.made

LinksUsable(q) ==
  \A o \in Options \ q.moved : Live(q, o) =>
    \A x \in (q.needs[o] \cup q.excludes[o]) \ q.moved : q.home[x] = q.home[o] => Live(q, x)

Mutual(q) ==
  \A o, x \in Options \ q.stripped :
    Live(q, o) /\ Live(q, x) /\ x \in q.excludes[o] => o \in q.excludes[x]

OptionInv(q) == q \in OptionTables /\ NamesApart(q) /\ Placed(q) /\ LinksUsable(q) /\ Mutual(q)

(* Ignoring less, a name is not answered to that was not before.            *)
LEMMA HeedingAnswersLess ==
  ASSUME NEW ns \in SUBSET Names, NEW fs \in SUBSET Kinds, NEW i \in Kinds, NEW n \in Names,
         Answers(ns, fs \ {i}, n)
  PROVE  Answers(ns, fs, n)
<1>1. PICK m \in ns : Norm(fs \ {i}, m) = Norm(fs \ {i}, n)
  BY DEF Answers
<1>2. Norm(fs, m) = Norm(fs, n)
  <2>1. \A l \in Names : Lower[l] \in Names /\ Bare[l] \in Names /\ Lower[Bare[l]] = Bare[Lower[l]]
    BY NamesAssumption
  <2>2. i = "case" \/ i = "under"
    BY DEF Kinds
  <2> QED
    BY <1>1, <2>1, <2>2 DEF Norm
<1> QED
  BY <1>2 DEF Answers

(* Two options that do not match do not answer to each other.               *)
LEMMA UnmatchedAreApart ==
  ASSUME NEW q, NEW x, NEW ns, NEW fs, ~Matching(q, x, ns, fs)
  PROVE  /\ \A n \in q.names[x] : ~Answers(ns, fs, n)
         /\ \A n \in ns : ~Answers(q.names[x], q.flags[x], n)
<1>1. \A n \in q.names[x] : ~Answers(ns, fs, n)
  BY DEF Matching
<1>2. ASSUME NEW n \in ns, Answers(q.names[x], q.flags[x], n), q.flags[x] = {} PROVE FALSE
  <2>1. n \in q.names[x]
    BY <1>2 DEF Answers, Norm
  <2> QED
    BY <1>1, <1>2, <2>1 DEF Answers
<1> QED
  BY <1>1, <1>2 DEF Matching

(* An option that does not clash with those of the command a stays apart    *)
(* from them there, whatever else becomes of it.                            *)
LEMMA PlacedApart ==
  ASSUME NEW q, NEW r, NEW a, NEW o \in Options, NamesApart(q),
         ~Clashes(q, a, o, r.names[o], r.flags[o]), r.at[o] \in {a, None},
         q.astray \subseteq r.astray \cup {o},
         \A x \in Options \ {o} :
            r.at[x] = q.at[x] /\ r.names[x] = q.names[x] /\ r.flags[x] = q.flags[x]
  PROVE  NamesApart(r)
<1> SUFFICES ASSUME NEW y \in Options \ r.astray, NEW x \in Options \ r.astray, y # x,
                    Live(r, y), r.at[y] = r.at[x], NEW n \in r.names[y]
             PROVE  ~Answers(r.names[x], r.flags[x], n)
  BY DEF NamesApart
<1>1. CASE y # o /\ x # o
  BY <1>1 DEF NamesApart, Live
<1>2. CASE y = o
  <2>1. ~Matching(q, x, r.names[o], r.flags[o])
    BY <1>2 DEF Clashes, Live
  <2> QED
    BY <1>2, <2>1, UnmatchedAreApart
<1>3. CASE x = o
  <2>1. ~Matching(q, y, r.names[o], r.flags[o])
    BY <1>3 DEF Clashes, Live
  <2> QED
    BY <1>3, <2>1, UnmatchedAreApart
<1> QED
  BY <1>1, <1>2, <1>3

(* Options that go, or are not touched, stay apart.                         *)
LEMMA FewerApart ==
  ASSUME NEW q, NEW r, NamesApart(q), r.astray = q.astray,
         \A x \in Options : /\ r.at[x] \in {q.at[x], None}
                            /\ r.names[x] = q.names[x] /\ r.flags[x] = q.flags[x]
  PROVE  NamesApart(r)
BY DEF NamesApart, Live

(* Every operator on options keeps OptionInv.                               *)
LEMMA IgnoreKeeps ==
  ASSUME NEW q, OptionInv(q), NEW o \in Options, NEW i \in Kinds
  PROVE  /\ OptionInv(Ignore(q, o, i))
         /\ Ignore(q, o, i).at = q.at /\ Ignore(q, o, i).made = q.made
<1> DEFINE r == [q EXCEPT !.flags[o] = @ \cup {i},
                          !.astray = IF q.at[o] = q.home[o] THEN @ ELSE @ \cup {o}]
<1>1. CASE Clashes(q, q.home[o], o, q.names[o], q.flags[o] \cup {i})
  BY <1>1 DEF Ignore
<1>2. CASE ~Clashes(q, q.home[o], o, q.names[o], q.flags[o] \cup {i})
  <2>1. Ignore(q, o, i) = r
    BY <1>2 DEF Ignore
  <2>2. /\ r \in OptionTables
        /\ r.at = q.at /\ r.made = q.made /\ r.home = q.home /\ r.moved = q.moved
        /\ r.needs = q.needs /\ r.excludes = q.excludes /\ r.stripped = q.stripped
        /\ r.names = q.names /\ r.flags[o] = q.flags[o] \cup {i}
        /\ \A x \in Options \ {o} : r.flags[x] = q.flags[x]
        /\ r.astray = IF q.at[o] = q.home[o] THEN q.astray ELSE q.astray \cup {o}
    BY DEF OptionInv, OptionTables
  <2> HIDE DEF r
  <2>3. NamesApart(r)
    <3>1. CASE q.at[o] = q.home[o]
      <4>1. ~Clashes(q, q.home[o], o, r.names[o], r.flags[o])
        BY <1>2, <2>2
      <4>2. /\ r.at[o] \in {q.home[o], None} /\ NamesApart(q)
            /\ q.astray \subseteq r.astray \cup {o}
        BY <2>2, <3>1 DEF OptionInv
      <4>3. \A x \in Options \ {o} :
              r.at[x] = q.at[x] /\ r.names[x] = q.names[x] /\ r.flags[x] = q.flags[x]
        BY <2>2
      <4> QED
        BY <4>1, <4>2, <4>3, PlacedApart
    <3>2. CASE q.at[o] # q.home[o]
      BY <2>2, <3>2 DEF NamesApart, Live, OptionInv
    <3> QED
      BY <3>1, <3>2
  <2>4. Placed(r) /\ LinksUsable(r) /\ Mutual(r)
    BY <2>2 DEF OptionInv, Placed, LinksUsable, Mutual, Live
  <2> QED
    BY <2>1, <2>2, <2>3, <2>4 DEF OptionInv
<1> QED
  BY <1>1, <1>2

LEMMA HeedKeeps ==
  ASSUME NEW q, OptionInv(q), NEW o \in Options, NEW i \in Kinds
  PROVE  OptionInv(Heed(q, o, i)) /\ Heed(q, o, i).at = q.at
<1> DEFINE r == Heed(q, o, i)
<1>1. /\ r \in OptionTables
      /\ r.at = q.at /\ r.made = q.made /\ r.home = q.home /\ r.moved = q.moved
      /\ r.needs = q.needs /\ r.excludes = q.excludes /\ r.stripped = q.stripped
      /\ r.names = q.names /\ r.flags[o] = q.flags[o] \ {i} /\ r.astray = q.astray
      /\ \A x \in Options \ {o} : r.flags[x] = q.flags[x]
  BY DEF OptionInv, OptionTables, Heed
<1>2. NamesApart(r)
  <2> SUFFICES ASSUME NEW y \in Options \ r.astray, NEW x \in Options \ r.astray, y # x,
                      Live(r, y), r.at[y] = r.at[x], NEW n \in r.names[y],
                      Answers(r.names[x], r.flags[x], n)
               PROVE  FALSE
    BY DEF NamesApart
  <2>1. ~Answers(q.names[x], q.flags[x], n)
    BY <1>1 DEF OptionInv, NamesApart, Live
  <2>2. q.names[x] \in SUBSET Names /\ q.flags[x] \in SUBSET Kinds /\ n \in Names
    BY <1>1 DEF OptionInv, OptionTables
  <2>3. x = o
    BY <1>1, <2>1
  <2> QED
    BY <1>1, <2>1, <2>2, <2>3, HeedingAnswersLess
<1>3. Placed(r) /\ LinksUsable(r) /\ Mutual(r)
  BY <1>1 DEF OptionInv, Placed, LinksUsable, Mutual, Live
<1> QED
  BY <1>1, <1>2, <1>3 DEF OptionInv

(* A new option, put where it clashes with none or where there are none.    *)
LEMMA MadeKeeps ==
  ASSUME NEW q, OptionInv(q), NEW a \in Commands, NEW o \in Options \ q.made,
         NEW ns \in SUBSET Names, ~Clashes(q, a, o, ns, {})
  PROVE  /\ OptionInv(Made(q, a, o, ns))
         /\ Made(q, a, o, ns).at = [q.at EXCEPT ![o] = a]
         /\ Made(q, a, o, ns).made = q.made \cup {o}
<1> DEFINE r == Made(q, a, o, ns)
<1>1. /\ r \in OptionTables
      /\ r.at = [q.at EXCEPT ![o] = a] /\ r.made = q.made \cup {o}
      /\ r.home = [q.home EXCEPT ![o] = a] /\ r.moved = q.moved
      /\ r.names = [q.names EXCEPT ![o] = ns] /\ r.flags = [q.flags EXCEPT ![o] = {}]
      /\ r.needs = [q.needs EXCEPT ![o] = {}] /\ r.excludes = [q.excludes EXCEPT ![o] = {}]
      /\ r.astray = q.astray /\ r.stripped = q.stripped
  BY DEF OptionInv, OptionTables, Made, Commands, Kinds
<1>t. q \in OptionTables
  BY DEF OptionInv
<1> HIDE DEF r
<1>2. NamesApart(r)
  <2>1. r.at[o] = a /\ r.names[o] = ns /\ r.flags[o] = {}
    BY <1>1, <1>t DEF OptionTables
  <2>2. \A x \in Options \ {o} :
          r.at[x] = q.at[x] /\ r.names[x] = q.names[x] /\ r.flags[x] = q.flags[x]
    BY <1>1, <1>t DEF OptionTables
  <2>3. ~Clashes(q, a, o, r.names[o], r.flags[o])
    BY <2>1
  <2>4. r.at[o] \in {a, None} /\ q.astray \subseteq r.astray \cup {o} /\ NamesApart(q) /\ o \in Options
    BY <1>1, <2>1 DEF OptionInv
  <2> QED
    BY <2>2, <2>3, <2>4, PlacedApart
<1>3. \A x \in Options \ {o} :
        /\ r.at[x] = q.at[x] /\ r.home[x] = q.home[x]
        /\ r.needs[x] = q.needs[x] /\ r.excludes[x] = q.excludes[x]
        /\ o \notin q.needs[x] /\ o \notin q.excludes[x]
  BY <1>1, <1>t DEF OptionTables, OptionInv, Placed
<1>4. r.at[o] = a /\ r.home[o] = a /\ r.needs[o] = {} /\ r.excludes[o] = {} /\ a # None
  BY <1>1, <1>t, IdentitiesAssumption DEF OptionTables
<1>5. Placed(r)
  BY <1>1, <1>3, <1>4 DEF OptionInv, Placed, Live
<1>6. LinksUsable(r)
  BY <1>1, <1>3, <1>4 DEF OptionInv, LinksUsable, Live
<1>7. Mutual(r)
  BY <1>1, <1>3, <1>4 DEF OptionInv, Mutual, Live
<1> QED
  BY <1>1, <1>2, <1>5, <1>6, <1>7 DEF OptionInv, r

(* An option that is accepted is there; one that is not changes no other.   *)
LEMMA AddedKeeps ==
  ASSUME NEW q, OptionInv(q), NEW a \in Commands, NEW o \in Options \ q.made,
         NEW ns \in SUBSET Names, NEW ds \in SUBSET Kinds
  PROVE  /\ OptionInv(Added(q, a, o, ns, ds))
         /\ \A x \in Options : Added(q, a, o, ns, ds).at[x] \in {q.at[x], a}
         /\ \A x \in Options \ {o} : Added(q, a, o, ns, ds).at[x] = q.at[x]
         /\ Accepted(Added(q, a, o, ns, ds), o, ds) => Added(q, a, o, ns, ds).at[o] = a
<1>t. q.at \in [Options -> Commands \cup {None}]
  BY DEF OptionInv, OptionTables
<1> DEFINE g == Added(q, a, o, ns, ds)
<1>1. CASE Clashes(q, a, o, ns, {})
  <2>1. g = q
    BY <1>1 DEF Added
  <2> HIDE DEF g
  <2> QED
    <3>1. /\ OptionInv(g) /\ ~Accepted(g, o, ds)
          /\ \A x \in Options : g.at[x] = q.at[x]
      BY <2>1 DEF Accepted
    <3> QED
      BY <3>1 DEF g
<1>2. CASE ~Clashes(q, a, o, ns, {})
  <2> DEFINE r == Made(q, a, o, ns)
             c == IF "case" \in ds THEN Ignore(r, o, "case") ELSE r
             done == "case" \in ds => "case" \in c.flags[o]
             u == IF "under" \in ds /\ done THEN Ignore(c, o, "under") ELSE c
  <2>1. g = u
    BY <1>2 DEF Added
  <2> HIDE DEF g
  <2>2. OptionInv(r) /\ r.at = [q.at EXCEPT ![o] = a]
    BY <1>2, MadeKeeps
  <2> HIDE DEF r
  <2>3. OptionInv(c) /\ c.at = r.at
    BY <2>2, IgnoreKeeps DEF Kinds
  <2> HIDE DEF c
  <2>4. OptionInv(u) /\ u.at = c.at
    BY <2>3, IgnoreKeeps DEF Kinds
  <2> HIDE DEF u
  <2>5. u.at[o] = a /\ \A x \in Options \ {o} : u.at[x] = q.at[x]
    BY <1>t, <2>2, <2>3, <2>4
  <2>6. /\ OptionInv(g) /\ g.at[o] = a
        /\ \A x \in Options \ {o} : g.at[x] = q.at[x]
    BY <2>1, <2>4, <2>5
  <2> QED
    BY <2>6 DEF g
<1> QED
  BY <1>1, <1>2

(* Whoever removes an option forgets the links to it, so that no link leads *)
(* to an option that is gone from where both were made.                     *)
LEMMA RemovedKeeps ==
  ASSUME NEW q, OptionInv(q), NEW a \in Commands, NEW o \in Options
  PROVE  /\ OptionInv(Removed(q, a, o))
         /\ Removed(q, a, o).made = q.made /\ Removed(q, a, o).names = q.names
         /\ Removed(q, a, o).at = [q.at EXCEPT ![o] = IF @ = a THEN None ELSE @]
<1> DEFINE r == Removed(q, a, o)
<1>t. q \in OptionTables
  BY DEF OptionInv
<1>1. /\ r.at = [q.at EXCEPT ![o] = IF @ = a THEN None ELSE @]
      /\ r.home = q.home /\ r.names = q.names /\ r.flags = q.flags
      /\ r.made = q.made /\ r.moved = q.moved /\ r.astray = q.astray
      /\ r.stripped = IF q.at[o] = a THEN q.stripped ELSE q.stripped \cup {o}
      /\ r.needs = [x \in Options |-> IF q.at[x] = a THEN q.needs[x] \ {o} ELSE q.needs[x]]
      /\ r.excludes = [x \in Options |->
                          IF q.at[x] = a THEN q.excludes[x] \ {o} ELSE q.excludes[x]]
  BY <1>t DEF OptionTables, Removed
<1>2. r \in OptionTables
  BY <1>t DEF OptionTables, Removed
<1> HIDE DEF r
<1>3. \A x \in Options : /\ x # o => r.at[x] = q.at[x]
                         /\ r.at[x] \in {q.at[x], None}
                         /\ r.needs[x] \subseteq q.needs[x]
                         /\ r.excludes[x] \subseteq q.excludes[x]
                         /\ q.at[x] = a => o \notin r.needs[x] \cup r.excludes[x]
                         /\ q.excludes[x] \subseteq r.excludes[x] \cup {o}
  BY <1>1, <1>t DEF OptionTables
<1>4. r.at[o] = IF q.at[o] = a THEN None ELSE q.at[o]
  BY <1>1, <1>t DEF OptionTables
<1>5. NamesApart(r)
  BY <1>1, <1>3, FewerApart DEF OptionInv
<1>6. Placed(r)
  BY <1>1, <1>3, <1>4 DEF OptionInv, Placed, Live
<1>7. LinksUsable(r)
  <2> SUFFICES ASSUME NEW x \in Options \ r.moved, Live(r, x),
                      NEW y \in (r.needs[x] \cup r.excludes[x]) \ r.moved, r.home[y] = r.home[x]
               PROVE  Live(r, y)
    BY DEF LinksUsable
  <2>1. y \in Options /\ y \in (q.needs[x] \cup q.excludes[x]) \ q.moved
    BY <1>1, <1>2, <1>3 DEF OptionTables
  <2>2. Live(q, x) /\ q.at[x] = q.home[x] /\ x \notin q.moved
    BY <1>1, <1>3 DEF OptionInv, Placed, Live
  <2>3. Live(q, y) /\ q.at[y] = q.home[y]
    BY <1>1, <2>1, <2>2 DEF OptionInv, LinksUsable, Placed
  <2>4. y = o => q.at[o] # a
    BY <1>1, <1>3, <2>2, <2>3
  <2> QED
    BY <1>3, <1>4, <2>1, <2>3, <2>4 DEF Live
<1>8. Mutual(r)
  <2> SUFFICES ASSUME NEW x \in Options \ r.stripped, NEW y \in Options \ r.stripped,
                      Live(r, x), Live(r, y), y \in r.excludes[x]
               PROVE  x \in r.excludes[y]
    BY DEF Mutual
  <2>1. x # o
    BY <1>1, <1>4 DEF Live
  <2>2. x \in q.excludes[y]
    BY <1>1, <1>3 DEF OptionInv, Mutual, Live
  <2> QED
    BY <1>3, <2>1, <2>2
<1> QED
  BY <1>1, <1>2, <1>5, <1>6, <1>7, <1>8 DEF OptionInv, r

LEMMA DroppedKeeps ==
  ASSUME NEW q, OptionInv(q), NEW cs
  PROVE  OptionInv(Dropped(q, cs))
<1> DEFINE r == Dropped(q, cs)
<1>t. q \in OptionTables
  BY DEF OptionInv
<1>1. /\ r \in OptionTables
      /\ r.at = [o \in Options |-> IF q.at[o] \in cs THEN None ELSE q.at[o]]
      /\ r.home = q.home /\ r.names = q.names /\ r.flags = q.flags
      /\ r.made = q.made /\ r.moved = q.moved /\ r.astray = q.astray
      /\ r.stripped = q.stripped /\ r.needs = q.needs /\ r.excludes = q.excludes
  BY <1>t DEF OptionTables, Dropped
<1> HIDE DEF r
<1>2. NamesApart(r)
  BY <1>1, FewerApart DEF OptionInv
<1>3. Placed(r) /\ Mutual(r)
  BY <1>1 DEF OptionInv, Placed, Mutual, Live
<1>4. LinksUsable(r)
  <2> SUFFICES ASSUME NEW x \in Options \ r.moved, Live(r, x),
                      NEW y \in (r.needs[x] \cup r.excludes[x]) \ r.moved, r.home[y] = r.home[x]
               PROVE  Live(r, y)
    BY DEF LinksUsable
  <2>1. y \in Options
    BY <1>1 DEF OptionTables
  <2>2. Live(q, x) /\ q.at[x] = q.home[x] /\ q.at[x] \notin cs
    BY <1>1 DEF OptionInv, Placed, Live
  <2>3. Live(q, y) /\ q.at[y] = q.home[y]
    BY <1>1, <2>1, <2>2 DEF OptionInv, LinksUsable, Placed
  <2> QED
    BY <1>1, <2>1, <2>2, <2>3 DEF Live
<1> QED
  BY <1>1, <1>2, <1>3, <1>4 DEF OptionInv, r

LEMMA LinkingKeeps ==
  ASSUME NEW q, OptionInv(q), NEW o \in Options, NEW x \in Options, Live(q, o), Live(q, x)
  PROVE  /\ OptionInv(LinkedNeeds(q, o, x)) /\ LinkedNeeds(q, o, x).at = q.at
         /\ OptionInv(LinkedExcludes(q, o, x)) /\ LinkedExcludes(q, o, x).at = q.at
         /\ OptionInv([q EXCEPT !.needs[o] = @ \ {x}])
         /\ [q EXCEPT !.needs[o] = @ \ {x}].at = q.at
<1>t. q \in OptionTables /\ NamesApart(q) /\ Placed(q) /\ LinksUsable(q) /\ Mutual(q)
  BY DEF OptionInv
<1>m. x \in q.made /\ o \in q.made
  BY <1>t DEF Placed
<1>1. OptionInv(LinkedNeeds(q, o, x)) /\ LinkedNeeds(q, o, x).at = q.at
  <2> DEFINE r == [q EXCEPT !.needs[o] = @ \cup {x}]
  <2>1. /\ r \in OptionTables /\ r.at = q.at /\ r.home = q.home /\ r.names = q.names
        /\ r.flags = q.flags /\ r.made = q.made /\ r.moved = q.moved /\ r.astray = q.astray
        /\ r.stripped = q.stripped /\ r.excludes = q.excludes
        /\ r.needs[o] = q.needs[o] \cup {x}
        /\ \A y \in Options \ {o} : r.needs[y] = q.needs[y]
    BY <1>t DEF OptionTables
  <2> HIDE DEF r
  <2>2. NamesApart(r) /\ Placed(r) /\ Mutual(r)
    BY <2>1, <1>t, <1>m DEF NamesApart, Placed, Mutual, Live
  <2>3. LinksUsable(r)
    BY <2>1, <1>t DEF LinksUsable, Live
  <2>4. OptionInv(r) /\ r.at = q.at
    BY <2>1, <2>2, <2>3 DEF OptionInv
  <2> QED
    BY <2>4 DEF LinkedNeeds, r
<1>2. OptionInv(LinkedExcludes(q, o, x)) /\ LinkedExcludes(q, o, x).at = q.at
  <2> DEFINE r == [q EXCEPT !.excludes = [y \in Options |->
                     IF y = o THEN q.excludes[o] \cup {x}
                     ELSE IF y = x THEN q.excludes[x] \cup {o} ELSE q.excludes[y]]]
  <2>1. /\ r \in OptionTables /\ r.at = q.at /\ r.home = q.home /\ r.names = q.names
        /\ r.flags = q.flags /\ r.made = q.made /\ r.moved = q.moved /\ r.astray = q.astray
        /\ r.stripped = q.stripped /\ r.needs = q.needs
        /\ \A y \in Options : r.excludes[y] =
               IF y = o THEN q.excludes[o] \cup {x}
               ELSE IF y = x THEN q.excludes[x] \cup {o} ELSE q.excludes[y]
    BY <1>t DEF OptionTables
  <2> HIDE DEF r
  <2>2. NamesApart(r) /\ Placed(r)
    BY <2>1, <1>t, <1>m DEF NamesApart, Placed, Live
  <2>3. LinksUsable(r)
    BY <2>1, <1>t DEF LinksUsable, Live
  <2>4. ASSUME o # x PROVE Mutual(r)
    BY <2>1, <2>4, <1>t DEF Mutual, Live
  <2> QED
    BY <2>1, <2>2, <2>3, <2>4, <1>t DEF OptionInv, LinkedExcludes, r
<1>3. OptionInv([q EXCEPT !.needs[o] = @ \ {x}]) /\ [q EXCEPT !.needs[o] = @ \ {x}].at = q.at
  <2> DEFINE r == [q EXCEPT !.needs[o] = @ \ {x}]
  <2>1. /\ r \in OptionTables /\ r.at = q.at /\ r.home = q.home /\ r.names = q.names
        /\ r.flags = q.flags /\ r.made = q.made /\ r.moved = q.moved /\ r.astray = q.astray
        /\ r.stripped = q.stripped /\ r.excludes = q.excludes
        /\ \A y \in Options : r.needs[y] \subseteq q.needs[y]
    BY <1>t DEF OptionTables
  <2> HIDE DEF r
  <2>2. NamesApart(r) /\ Placed(r) /\ Mutual(r)
    BY <2>1, <1>t DEF NamesApart, Placed, Mutual, Live
  <2>3. LinksUsable(r)
    BY <2>1, <1>t DEF LinksUsable, Live
  <2> QED
    BY <2>1, <2>2, <2>3 DEF OptionInv, r
<1> QED
  BY <1>1, <1>2, <1>3

(* An option that is moved is compared with those it comes to.              *)
LEMMA MovedKeeps ==
  ASSUME NEW q, OptionInv(q), NEW o \in Options, Live(q, o), NEW c \in Commands
  PROVE  /\ OptionInv(MovedTo(q, o, c))
         /\ MovedTo(q, o, c).at \in {q.at, [q.at EXCEPT ![o] = c]}
<1>1. CASE Clashes(q, c, o, q.names[o], q.flags[o])
  BY <1>1 DEF MovedTo
<1>2. CASE ~Clashes(q, c, o, q.names[o], q.flags[o])
  <2>t. q \in OptionTables /\ NamesApart(q) /\ Placed(q) /\ LinksUsable(q) /\ Mutual(q)
    BY DEF OptionInv
  <2> DEFINE r == [q EXCEPT !.at[o] = c, !.moved = @ \cup {o}]
  <2>1. /\ r \in OptionTables /\ r.at = [q.at EXCEPT ![o] = c] /\ r.home = q.home
        /\ r.names = q.names /\ r.flags = q.flags /\ r.made = q.made
        /\ r.moved = q.moved \cup {o} /\ r.astray = q.astray /\ r.stripped = q.stripped
        /\ r.needs = q.needs /\ r.excludes = q.excludes
    BY <2>t DEF OptionTables
  <2> HIDE DEF r
  <2>2. r.at[o] = c /\ c # None /\ \A x \in Options \ {o} : r.at[x] = q.at[x]
    BY <2>1, <2>t, IdentitiesAssumption DEF OptionTables
  <2>3. NamesApart(r)
    <3>1. ~Clashes(q, c, o, r.names[o], r.flags[o])
      BY <1>2, <2>1
    <3>2. r.at[o] \in {c, None} /\ q.astray \subseteq r.astray \cup {o}
      BY <2>1, <2>2
    <3>3. \A x \in Options \ {o} :
            r.at[x] = q.at[x] /\ r.names[x] = q.names[x] /\ r.flags[x] = q.flags[x]
      BY <2>1, <2>2
    <3> QED
      BY <2>t, <3>1, <3>2, <3>3, PlacedApart
  <2>4. Placed(r)
    BY <2>1, <2>2, <2>t DEF Placed, Live
  <2>5. Mutual(r)
    BY <2>1, <2>2, <2>t DEF Mutual, Live
  <2>6. LinksUsable(r)
    BY <2>1, <2>2, <2>t DEF LinksUsable, Live
  <2> QED
    BY <1>2, <2>1, <2>3, <2>4, <2>5, <2>6 DEF OptionInv, MovedTo, r
<1> QED
  BY <1>1, <1>2

-----------------------------------------------------------------------------
(* Commands.  A command that is there was made in one that still is, and an *)
(* option group is never in another.                                        *)
Rooted(k) ==
  \A c \in Subs : k.parent[c] # None =>
    /\ c \in k.made /\ Exists(k, k.parent[c])
    /\ IsGroup(k, c) => ~IsGroup(k, k.parent[c])

(* What the history of commands remembers.                                  *)
Marked(k) ==
  /\ k.off \subseteq k.muted /\ k.muted \subseteq k.made
  /\ \A c \in Commands : k.flags[c] = Kinds => c \in k.blurred

Excluded(k) ==
  /\ \A c \in Commands : \A d \in k.not[c] : {c, d} \subseteq k.made \cup {Root}
  /\ \A c, d \in Commands : Exists(k, c) /\ Exists(k, d) /\ d \in k.not[c] => c \in k.not[d]

HeardIn(k) ==
  {c \in Subs : /\ k.parent[c] # None /\ {c, k.parent[c]} \cap k.muted = {}
                /\ c \notin k.blurred /\ ~IsGroup(k, c)}

Distinct(k) ==
  \A c, d \in HeardIn(k) : c # d /\ Scope(k, c) = Scope(k, d) =>
    \A n \in NamesOf(k, c) : ~CheckName(k, d, n)

CommandInv(k) == k \in CommandTables /\ Rooted(k) /\ Marked(k) /\ Excluded(k) /\ Distinct(k)

(* What is said of a command reads no more than this of it.                 *)
SameCommand(k, r, c) ==
  k.name[c] = r.name[c] /\ k.aliases[c] = r.aliases[c] /\ k.flags[c] = r.flags[c]

(* A command is found from its scope, through its option group if it is in  *)
(* one, unless one of them was disabled.                                    *)
LEMMA ReachedFromScope ==
  ASSUME NEW k, k \in CommandTables, Rooted(k), Marked(k), NEW d \in HeardIn(k)
  PROVE  \E c \in Kids(k, Scope(k, d)) \ k.off :
            d \in Inside(k, c) /\ (c = d \/ IsGroup(k, c))
<1>1. d \in Subs /\ d \notin k.off /\ k.parent[d] # None /\ k.parent[d] \notin k.off
  BY DEF HeardIn, Marked
<1>2. CASE ~IsGroup(k, k.parent[d])
  <2>1. d \in Kids(k, Scope(k, d)) \ k.off
    BY <1>1, <1>2 DEF Kids, Scope
  <2> QED
    BY <2>1 DEF Inside
<1>3. CASE IsGroup(k, k.parent[d])
  <2> DEFINE g == k.parent[d]
  <2>1. g \in Subs /\ k.name[g] = Unnamed
    BY <1>1, <1>3 DEF IsGroup, Commands, CommandTables
  <2>2. g \in Kids(k, Scope(k, d)) \ k.off
    BY <1>1, <1>3, <2>1 DEF Kids, Scope
  <2>3. d \in Kids(k, g) \ k.off
    BY <1>1 DEF Kids
  <2> HIDE DEF g
  <2>4. d \in Inside(k, g)
    BY <2>1, <2>3 DEF Inside
  <2> QED
    BY <1>3, <2>2, <2>4 DEF g
<1> QED
  BY <1>2, <1>3

(* A command that shares no name with those of its scope stays apart from   *)
(* all of them, and they from one another.                                  *)
LEMMA SettledApart ==
  ASSUME NEW k, NEW r, NEW s \in Subs, k \in CommandTables, r \in CommandTables,
         Rooted(k), Rooted(r), Marked(r), Distinct(k),
         IsGroup(r, s) \/ ~Compare(r, s, Scope(r, s)),
         \/ k.parent[s] = None
         \/ IsGroup(k, s) /\ IsGroup(r, s) /\ k.parent[s] = r.parent[s]
         \/ ~IsGroup(k, s) /\ ~IsGroup(r, s),
         \A c \in Commands \ {s} : SameCommand(k, r, c),
         \A c \in Subs \ {s} : k.parent[c] = r.parent[c],
         k.muted \subseteq r.muted, k.blurred \subseteq r.blurred
  PROVE  Distinct(r)
<1> SUFFICES ASSUME NEW c \in HeardIn(r), NEW d \in HeardIn(r), c # d,
                    Scope(r, c) = Scope(r, d), NEW n \in NamesOf(r, c), CheckName(r, d, n)
             PROVE  FALSE
  BY DEF Distinct
<1>0. /\ c \in Subs /\ d \in Subs /\ Subs \subseteq Commands
      /\ r.parent[c] # None /\ r.parent[d] # None
  BY DEF HeardIn, Commands
<1>1. CASE c # s /\ d # s
  <2>1. ASSUME NEW x \in {c, d} PROVE x \in HeardIn(k) /\ Scope(k, x) = Scope(r, x)
    <3>1. x \in Subs \ {s} /\ k.parent[x] = r.parent[x] /\ k.parent[x] # None
      BY <1>0, <1>1
    <3>2. k.parent[x] \in Commands /\ Exists(k, k.parent[x])
      BY <3>1 DEF Rooted, CommandTables
    <3>3. IsGroup(k, k.parent[x]) <=> IsGroup(r, k.parent[x])
      <4>1. CASE k.parent[x] = s
        BY <3>2, <4>1, IdentitiesAssumption DEF Exists
      <4>2. CASE k.parent[x] # s
        BY <3>2, <4>2 DEF SameCommand, IsGroup
      <4> QED
        BY <4>1, <4>2
    <3>4. Scope(k, x) = Scope(r, x)
      <4>1. CASE IsGroup(k, k.parent[x])
        <5>1. k.parent[x] \in Subs /\ k.parent[k.parent[x]] = r.parent[k.parent[x]]
          BY <3>2, <4>1, IdentitiesAssumption DEF Exists, IsGroup, Commands
        <5> QED
          BY <3>1, <3>3, <4>1, <5>1 DEF Scope
      <4>2. CASE ~IsGroup(k, k.parent[x])
        BY <3>1, <3>3, <4>2 DEF Scope
      <4> QED
        BY <4>1, <4>2
    <3>5. x \in HeardIn(k)
      BY <1>0, <3>1 DEF HeardIn, SameCommand, IsGroup
    <3> QED
      BY <3>4, <3>5
  <2>2. SameCommand(k, r, c) /\ SameCommand(k, r, d)
    BY <1>0, <1>1
  <2>3. n \in NamesOf(k, c) /\ CheckName(k, d, n)
    BY <2>2 DEF SameCommand, NamesOf, CheckName
  <2> QED
    BY <2>1, <2>3 DEF Distinct
<1>2. ASSUME NEW x \in {c, d}, x # s, s \in {c, d} PROVE ~SameName(r, s, x)
  <2>1. x \in HeardIn(r) /\ s \in HeardIn(r) /\ Scope(r, x) = Scope(r, s)
    BY <1>2
  <2>2. s \notin r.off /\ ~Compare(r, s, Scope(r, s)) /\ ~IsGroup(r, s)
    BY <2>1 DEF HeardIn, Marked
  <2>3. PICK y \in Kids(r, Scope(r, s)) \ r.off :
           x \in Inside(r, y) /\ (y = x \/ IsGroup(r, y))
    BY <2>1, ReachedFromScope
  <2>4. y # s
    BY <1>2, <2>2, <2>3
  <2>5. s \in Inside(r, s)
    BY DEF Inside
  <2> QED
    BY <1>2, <2>2, <2>3, <2>4, <2>5 DEF Compare
<1>3. CASE c = s \/ d = s
  <2>1. SameName(r, c, d) /\ SameName(r, d, c)
    BY DEF SameName
  <2> QED
    BY <1>2, <1>3, <2>1
<1> QED
  BY <1>1, <1>3

(* Commands of which fewer are heard, or which answer to less, stay apart.  *)
LEMMA FewerDistinct ==
  ASSUME NEW k, NEW r, Distinct(k), HeardIn(r) \subseteq HeardIn(k),
         \A c \in HeardIn(r) : /\ Scope(k, c) = Scope(r, c) /\ NamesOf(r, c) = NamesOf(k, c)
                              /\ \A m \in Names : CheckName(r, c, m) => CheckName(k, c, m),
         \A c \in HeardIn(r) : NamesOf(r, c) \subseteq Names
  PROVE  Distinct(r)
BY DEF Distinct

(* The names of a command are names.                                        *)
LEMMA NamesAreNames ==
  ASSUME NEW k \in CommandTables, NEW c \in Commands
  PROVE  NamesOf(k, c) \subseteq Names
BY DEF NamesOf, CommandTables

(* What commands are called and where they are stays; more may be disabled. *)
LEMMA NamedAlikeKeeps ==
  ASSUME NEW k, CommandInv(k), NEW r \in CommandTables,
         r.parent = k.parent, r.name = k.name, r.aliases = k.aliases, r.flags = k.flags,
         r.made = k.made, r.blurred = k.blurred, r.off \subseteq r.muted,
         k.muted \subseteq r.muted, r.muted \subseteq r.made, Excluded(r)
  PROVE  CommandInv(r)
<1>1. Rooted(r) /\ Marked(r)
  BY DEF CommandInv, Rooted, Marked, Exists, IsGroup
<1>2. Distinct(r)
  <2>1. HeardIn(r) \subseteq HeardIn(k)
    BY DEF HeardIn, IsGroup
  <2>2. ASSUME NEW c \in HeardIn(r)
        PROVE  /\ Scope(k, c) = Scope(r, c) /\ NamesOf(r, c) = NamesOf(k, c)
               /\ \A m \in Names : CheckName(r, c, m) => CheckName(k, c, m)
               /\ NamesOf(r, c) \subseteq Names
    <3>1. c \in Commands
      BY DEF HeardIn, Commands
    <3> QED
      BY <3>1, NamesAreNames DEF Scope, IsGroup, NamesOf, CheckName
  <2> QED
    BY <2>1, <2>2, FewerDistinct DEF CommandInv
<1> QED
  BY <1>1, <1>2 DEF CommandInv

(* What is not read by any of this may change.                              *)
LEMMA UnreadKeeps ==
  ASSUME NEW k, CommandInv(k), NEW r \in CommandTables,
         r.parent = k.parent, r.name = k.name, r.aliases = k.aliases, r.flags = k.flags,
         r.off = k.off, r.not = k.not, r.made = k.made, r.muted = k.muted, r.blurred = k.blurred
  PROVE  CommandInv(r)
<1>1. Excluded(r) /\ r.off \subseteq r.muted /\ r.muted \subseteq r.made
  BY DEF CommandInv, Excluded, Exists, Marked
<1> QED
  BY <1>1, NamedAlikeKeeps

(* A command that gets a name, or ignores more, and shares no name with     *)
(* those of its scope then.                                                 *)
LEMMA RenamedKeeps ==
  ASSUME NEW k, CommandInv(k), NEW r \in CommandTables, NEW c \in Subs, k.parent[c] # None,
         r.parent = k.parent, r.off = k.off, r.not = k.not, r.made = k.made, r.muted = k.muted,
         k.blurred \subseteq r.blurred, r.flags[c] = Kinds => c \in r.blurred,
         \A d \in Commands \ {c} : SameCommand(k, r, d), IsGroup(k, c) <=> IsGroup(r, c),
         ~Compare(r, c, Scope(r, c))
  PROVE  CommandInv(r)
<1>0. k \in CommandTables /\ Rooted(k) /\ Marked(k) /\ Excluded(k) /\ Distinct(k)
  BY DEF CommandInv
<1>1. Rooted(r)
  <2> SUFFICES ASSUME NEW d \in Subs, r.parent[d] # None
               PROVE  /\ d \in r.made /\ Exists(r, r.parent[d])
                      /\ IsGroup(r, d) => ~IsGroup(r, r.parent[d])
    BY DEF Rooted
  <2>1. /\ d \in r.made /\ Exists(r, r.parent[d]) /\ r.parent[d] \in Commands
        /\ IsGroup(k, d) => ~IsGroup(k, r.parent[d])
    BY <1>0 DEF Rooted, Exists, CommandTables
  <2>2. \A x \in Commands : IsGroup(k, x) <=> IsGroup(r, x)
    BY DEF SameCommand, IsGroup
  <2> QED
    BY <2>1, <2>2 DEF Commands
<1>2. Marked(r)
  BY <1>0 DEF Marked, SameCommand
<1>3. Excluded(r)
  BY <1>0 DEF Excluded, Exists
<1>4. Distinct(r)
  BY <1>0, <1>1, <1>2, SettledApart
<1> QED
  BY <1>1, <1>2, <1>3, <1>4 DEF CommandInv

(* A command that ignored one thing and heeds it again answers to less.     *)
LEMMA HeedingCommandAnswersLess ==
  ASSUME NEW k \in CommandTables, NEW r \in CommandTables, NEW c \in Commands, NEW i \in Kinds,
         k.flags[c] # Kinds, r.flags[c] = k.flags[c] \ {i},
         r.name = k.name, r.aliases = k.aliases, NEW m \in Names, CheckName(r, c, m)
  PROVE  CheckName(k, c, m)
<1>1. /\ k.aliases[c] \in SUBSET Names /\ k.flags[c] \in SUBSET Kinds
      /\ k.name[c] \in Names \cup {Unnamed}
  BY DEF CommandTables
<1>2. CASE Answers(r.aliases[c], r.flags[c], m)
  <2>1. Answers(k.aliases[c], k.flags[c], m)
    BY <1>1, <1>2, HeedingAnswersLess
  <2> QED
    BY <2>1 DEF CheckName
<1>3. CASE ~Answers(r.aliases[c], r.flags[c], m)
  <2> DEFINE fs == k.flags[c]
             gs == r.flags[c]
             l == k.name[c]
  <2>1. l # Unnamed /\ (IF "case" \in gs THEN Lower[l] ELSE Norm(gs, l)) = Norm(gs, m)
    BY <1>3 DEF CheckName
  <2>2. fs = {} \/ fs = {"case"} \/ fs = {"under"}
    BY <1>1 DEF Kinds
  <2>3. gs = fs \/ gs = {}
    BY <2>2
  <2>4. (IF "case" \in fs THEN Lower[l] ELSE Norm(fs, l)) = Norm(fs, m)
    BY <2>1, <2>2, <2>3 DEF Norm
  <2> QED
    BY <2>1, <2>4 DEF CheckName
<1> QED
  BY <1>2, <1>3

LEMMA HeedCommandKeeps ==
  ASSUME NEW k, CommandInv(k), NEW c \in Commands, NEW i \in Kinds
  PROVE  CommandInv([k EXCEPT !.flags[c] = @ \ {i}])
<1> DEFINE r == [k EXCEPT !.flags[c] = @ \ {i}]
<1>0. k \in CommandTables /\ Rooted(k) /\ Marked(k) /\ Excluded(k) /\ Distinct(k)
  BY DEF CommandInv
<1>1. /\ r \in CommandTables /\ r.parent = k.parent /\ r.name = k.name
      /\ r.aliases = k.aliases /\ r.off = k.off /\ r.not = k.not /\ r.made = k.made
      /\ r.muted = k.muted /\ r.blurred = k.blurred /\ r.flags[c] = k.flags[c] \ {i}
      /\ \A d \in Commands \ {c} : r.flags[d] = k.flags[d]
  BY <1>0 DEF CommandTables
<1> HIDE DEF r
<1>2. Rooted(r) /\ Excluded(r)
  BY <1>0, <1>1 DEF Rooted, Excluded, Exists, IsGroup
<1>3. Marked(r)
  <2>1. r.flags[c] # Kinds
    BY <1>1
  <2> QED
    BY <1>0, <1>1, <2>1 DEF Marked
<1>4. Distinct(r)
  <2>1. HeardIn(r) = HeardIn(k)
    BY <1>1 DEF HeardIn, IsGroup
  <2>2. ASSUME NEW d \in HeardIn(r)
        PROVE  /\ Scope(k, d) = Scope(r, d) /\ NamesOf(r, d) = NamesOf(k, d)
               /\ \A m \in Names : CheckName(r, d, m) => CheckName(k, d, m)
               /\ NamesOf(r, d) \subseteq Names
    <3>1. d \in Commands /\ d \notin k.blurred
      BY <2>1 DEF HeardIn, Commands
    <3>2. Scope(k, d) = Scope(r, d) /\ NamesOf(r, d) = NamesOf(k, d) /\ NamesOf(r, d) \subseteq Names
      BY <1>1, <3>1, NamesAreNames DEF Scope, IsGroup, NamesOf
    <3>3. CASE d # c
      BY <1>1, <3>1, <3>2, <3>3 DEF CheckName
    <3>4. CASE d = c
      <4>1. k.flags[c] # Kinds
        BY <1>0, <3>1, <3>4 DEF Marked
      <4> QED
        BY <1>0, <1>1, <3>2, <3>4, <4>1, HeedingCommandAnswersLess
    <3> QED
      BY <3>3, <3>4
  <2> QED
    BY <1>0, <2>1, <2>2, FewerDistinct
<1> QED
  BY <1>0, <1>1, <1>2, <1>3, <1>4 DEF CommandInv, r

LEMMA IgnoreCommandKeeps ==
  ASSUME NEW k, CommandInv(k), NEW c \in Commands, Exists(k, c), NEW i \in Kinds,
         c # Root => ~Compare(Ignoring(k, c, k.flags[c] \cup {i}), c, Scope(k, c))
  PROVE  CommandInv(Ignoring(k, c, k.flags[c] \cup {i}))
<1> DEFINE r == Ignoring(k, c, k.flags[c] \cup {i})
<1>0. k \in CommandTables /\ Rooted(k) /\ Marked(k) /\ Excluded(k) /\ Distinct(k)
  BY DEF CommandInv
<1>1. /\ r \in CommandTables /\ r.parent = k.parent /\ r.name = k.name
      /\ r.aliases = k.aliases /\ r.off = k.off /\ r.not = k.not /\ r.made = k.made
      /\ r.muted = k.muted /\ k.blurred \subseteq r.blurred /\ r.blurred \subseteq k.blurred \cup {c}
      /\ r.flags[c] = Kinds => c \in r.blurred
      /\ \A d \in Commands \ {c} : r.flags[d] = k.flags[d]
  BY <1>0 DEF CommandTables, Ignoring
<1>2. \A x : IsGroup(k, x) <=> IsGroup(r, x)
  BY <1>1 DEF IsGroup
<1>3. \A d \in Commands \ {c} : SameCommand(k, r, d)
  BY <1>1 DEF SameCommand
<1>4. ASSUME c # Root PROVE CommandInv(r)
  <2>1. c \in Subs /\ k.parent[c] # None /\ Scope(r, c) = Scope(k, c)
    BY <1>1, <1>2, <1>4 DEF Commands, Exists, Scope
  <2> HIDE DEF r
  <2>2. ~Compare(r, c, Scope(r, c))
    BY <1>4, <2>1 DEF r
  <2> QED
    BY <1>1, <1>2, <1>3, <2>1, <2>2, RenamedKeeps
<1>5. ASSUME c = Root PROVE CommandInv(r)
  <2> HIDE DEF r
  <2>1. Rooted(r) /\ Excluded(r)
    BY <1>0, <1>1, <1>2 DEF Rooted, Excluded, Exists
  <2>2. Marked(r)
    BY <1>0, <1>1 DEF Marked
  <2>3. HeardIn(r) = HeardIn(k)
    BY <1>1, <1>5, IdentitiesAssumption DEF HeardIn, IsGroup
  <2>4. ASSUME NEW d \in HeardIn(r)
        PROVE  /\ Scope(k, d) = Scope(r, d) /\ NamesOf(r, d) = NamesOf(k, d)
               /\ \A m \in Names : CheckName(r, d, m) => CheckName(k, d, m)
               /\ NamesOf(r, d) \subseteq Names
    <3>1. d \in Commands \ {c}
      BY <1>5, IdentitiesAssumption DEF HeardIn, Commands
    <3> QED
      BY <1>1, <1>2, <3>1, NamesAreNames DEF Scope, NamesOf, CheckName
  <2> QED
    BY <1>0, <1>1, <2>1, <2>2, <2>3, <2>4, FewerDistinct DEF CommandInv
<1> QED
  BY <1>4, <1>5

LEMMA NamingKeeps ==
  ASSUME NEW k, CommandInv(k), NEW c \in Subs, k.parent[c] # None, NEW n \in Later
  PROVE  LET r == [k EXCEPT !.name[c] = n]
             a == [k EXCEPT !.aliases[c] = @ \cup {n}]
         IN  /\ ~IsGroup(k, c) /\ ~Compare(r, c, Scope(r, c)) => CommandInv(r)
             /\ ~Compare(a, c, Scope(a, c)) => CommandInv(a)
<1> DEFINE r == [k EXCEPT !.name[c] = n]
           a == [k EXCEPT !.aliases[c] = @ \cup {n}]
<1>0. k \in CommandTables /\ c \in Commands /\ n \in Names /\ n # Unnamed
      /\ (k.flags[c] = Kinds => c \in k.blurred)
  BY NamesAssumption, IdentitiesAssumption DEF CommandInv, Commands, Marked
<1>1. /\ r \in CommandTables /\ r.parent = k.parent /\ r.flags = k.flags
      /\ r.aliases = k.aliases /\ r.off = k.off /\ r.not = k.not /\ r.made = k.made
      /\ r.muted = k.muted /\ r.blurred = k.blurred
      /\ r.name[c] = n /\ \A d \in Commands \ {c} : r.name[d] = k.name[d]
  BY <1>0 DEF CommandTables
<1>2. /\ a \in CommandTables /\ a.parent = k.parent /\ a.flags = k.flags
      /\ a.name = k.name /\ a.off = k.off /\ a.not = k.not /\ a.made = k.made
      /\ a.muted = k.muted /\ a.blurred = k.blurred
      /\ \A d \in Commands \ {c} : a.aliases[d] = k.aliases[d]
  BY <1>0 DEF CommandTables
<1> HIDE DEF r, a
<1>3. ASSUME ~IsGroup(k, c), ~Compare(r, c, Scope(r, c)) PROVE CommandInv(r)
  <2>1. IsGroup(k, c) <=> IsGroup(r, c)
    BY <1>0, <1>1, <1>3 DEF IsGroup
  <2>2. \A d \in Commands \ {c} : SameCommand(k, r, d)
    BY <1>1 DEF SameCommand
  <2> QED
    BY <1>0, <1>1, <1>3, <2>1, <2>2, RenamedKeeps
<1>4. ASSUME ~Compare(a, c, Scope(a, c)) PROVE CommandInv(a)
  <2>1. IsGroup(k, c) <=> IsGroup(a, c)
    BY <1>2 DEF IsGroup
  <2>2. \A d \in Commands \ {c} : SameCommand(k, a, d)
    BY <1>2 DEF SameCommand
  <2> QED
    BY <1>0, <1>2, <1>4, <2>1, <2>2, RenamedKeeps
<1> QED
  BY <1>3, <1>4 DEF r, a

LEMMA MutingKeeps ==
  ASSUME NEW k, CommandInv(k), NEW c \in Subs, k.parent[c] # None
  PROVE  /\ CommandInv([k EXCEPT !.off = @ \cup {c}, !.muted = @ \cup {c}])
         /\ CommandInv([k EXCEPT !.off = @ \ {c}])
<1>0. k \in CommandTables /\ Rooted(k) /\ Marked(k) /\ Excluded(k)
  BY DEF CommandInv
<1>1. CommandInv([k EXCEPT !.off = @ \cup {c}, !.muted = @ \cup {c}])
  <2> DEFINE r == [k EXCEPT !.off = @ \cup {c}, !.muted = @ \cup {c}]
  <2>1. /\ r \in CommandTables /\ r.parent = k.parent /\ r.name = k.name
        /\ r.aliases = k.aliases /\ r.flags = k.flags /\ r.not = k.not /\ r.made = k.made
        /\ r.blurred = k.blurred /\ r.off \subseteq r.muted
        /\ k.muted \subseteq r.muted /\ r.muted \subseteq r.made
    BY <1>0 DEF CommandTables, Marked, Rooted
  <2> HIDE DEF r
  <2>2. Excluded(r)
    BY <1>0, <2>1 DEF Excluded, Exists
  <2>3. CommandInv(r)
    BY <2>1, <2>2, NamedAlikeKeeps
  <2> QED
    BY <2>3 DEF r
<1>2. CommandInv([k EXCEPT !.off = @ \ {c}])
  <2> DEFINE r == [k EXCEPT !.off = @ \ {c}]
  <2>1. /\ r \in CommandTables /\ r.parent = k.parent /\ r.name = k.name
        /\ r.aliases = k.aliases /\ r.flags = k.flags /\ r.not = k.not /\ r.made = k.made
        /\ r.blurred = k.blurred /\ r.off \subseteq r.muted
        /\ k.muted \subseteq r.muted /\ r.muted \subseteq r.made
    BY <1>0 DEF CommandTables, Marked, Rooted
  <2> HIDE DEF r
  <2>2. Excluded(r)
    BY <1>0, <2>1 DEF Excluded, Exists
  <2>3. CommandInv(r)
    BY <2>1, <2>2, NamedAlikeKeeps
  <2> QED
    BY <2>3 DEF r
<1> QED
  BY <1>1, <1>2

(* Of two commands both are told that they exclude each other, or no longer *)
(* do.                                                                      *)
LEMMA ExcludingKeeps ==
  ASSUME NEW k, CommandInv(k), NEW c \in Commands, NEW d \in Commands, c # d,
         Exists(k, c), Exists(k, d)
  PROVE  /\ CommandInv([k EXCEPT !.not[c] = @ \cup {d}, !.not[d] = @ \cup {c}])
         /\ CommandInv([k EXCEPT !.not[c] = @ \ {d}, !.not[d] = @ \ {c}])
<1>0. k \in CommandTables /\ Rooted(k) /\ Marked(k) /\ Excluded(k)
  BY DEF CommandInv
<1>m. {c, d} \subseteq k.made \cup {Root}
  BY <1>0 DEF Rooted, Exists
<1>2. CommandInv([k EXCEPT !.not[c] = @ \cup {d}, !.not[d] = @ \cup {c}])
  <2> DEFINE r == [k EXCEPT !.not[c] = @ \cup {d}, !.not[d] = @ \cup {c}]
  <2>1. /\ r \in CommandTables /\ r.parent = k.parent /\ r.name = k.name
        /\ r.aliases = k.aliases /\ r.flags = k.flags /\ r.made = k.made
        /\ r.blurred = k.blurred /\ r.off \subseteq r.muted
        /\ k.muted \subseteq r.muted /\ r.muted \subseteq r.made
        /\ r.not[c] = k.not[c] \cup {d} /\ r.not[d] = k.not[d] \cup {c}
        /\ \A x \in Commands \ {c, d} : r.not[x] = k.not[x]
    BY <1>0 DEF CommandTables, Marked
  <2> HIDE DEF r
  <2>2. Excluded(r)
    BY <1>0, <1>m, <2>1 DEF Excluded, Exists
  <2>3. CommandInv(r)
    BY <2>1, <2>2, NamedAlikeKeeps
  <2> QED
    BY <2>3 DEF r
<1>3. CommandInv([k EXCEPT !.not[c] = @ \ {d}, !.not[d] = @ \ {c}])
  <2> DEFINE r == [k EXCEPT !.not[c] = @ \ {d}, !.not[d] = @ \ {c}]
  <2>1. /\ r \in CommandTables /\ r.parent = k.parent /\ r.name = k.name
        /\ r.aliases = k.aliases /\ r.flags = k.flags /\ r.made = k.made
        /\ r.blurred = k.blurred /\ r.off \subseteq r.muted
        /\ k.muted \subseteq r.muted /\ r.muted \subseteq r.made
        /\ r.not[c] = k.not[c] \ {d} /\ r.not[d] = k.not[d] \ {c}
        /\ \A x \in Commands \ {c, d} : r.not[x] = k.not[x]
    BY <1>0 DEF CommandTables, Marked
  <2> HIDE DEF r
  <2>2. Excluded(r)
    BY <1>0, <2>1 DEF Excluded, Exists
  <2>3. CommandInv(r)
    BY <2>1, <2>2, NamedAlikeKeeps
  <2> QED
    BY <2>3 DEF r
<1> QED
  BY <1>2, <1>3

(* What is below a command that goes, goes.                                 *)
LEMMA DoomedBelow ==
  ASSUME NEW k, NEW c \in Subs
  PROVE  /\ c \in Doomed(k, c) /\ Doomed(k, c) \subseteq Subs
         /\ \A s \in Subs : k.parent[s] \in Doomed(k, c) => s \in Doomed(k, c)
BY DEF Doomed

(* A command that leaves the one it is in, and those that stay there, no    *)
(* longer exclude each other.                                               *)
LEMMA WithoutExcludes ==
  ASSUME NEW k \in CommandTables, Excluded(k), NEW c \in Subs, k.parent[c] \in Commands, NEW r,
         r.not = Without(k, k.parent[c], c).not, r.made = k.made,
         \A x \in Commands : Exists(r, x) => Exists(k, x)
  PROVE  Excluded(r)
<1> DEFINE K == Kids(k, k.parent[c])
<1>1. \A x \in Commands : r.not[x] = IF x = c THEN k.not[c] \ K
                                     ELSE IF x \in K THEN k.not[x] \ {c} ELSE k.not[x]
  BY DEF Without, CommandTables
<1>2. c \in K /\ K \subseteq Subs
  BY DEF Kids
<1> HIDE DEF K
<1>3. \A x \in Commands : k.not[x] \in SUBSET Commands
  BY DEF CommandTables
<1>4. \A x \in Commands : \A y \in r.not[x] : {x, y} \subseteq r.made \cup {Root}
  BY <1>1 DEF Excluded
<1>5. ASSUME NEW x \in Commands, NEW y \in Commands, Exists(r, x), Exists(r, y), y \in r.not[x]
      PROVE  x \in r.not[y]
  <2>1. x \in k.not[y]
    BY <1>1, <1>5 DEF Excluded
  <2> QED
    BY <1>1, <1>2, <1>5, <2>1
<1> QED
  BY <1>4, <1>5 DEF Excluded

LEMMA DestroyedKeeps ==
  ASSUME NEW k, CommandInv(k), NEW c \in Subs, k.parent[c] # None
  PROVE  LET r == Destroyed(k, k.parent[c], c)
         IN  /\ CommandInv(r) /\ r.help = k.help /\ r.made = k.made
             /\ \A x \in Subs : r.parent[x] = IF x \in Doomed(k, c) THEN None ELSE k.parent[x]
<1> DEFINE r == Destroyed(k, k.parent[c], c)
           w == Without(k, k.parent[c], c)
           D == Doomed(k, c)
<1>0. /\ k \in CommandTables /\ Rooted(k) /\ Marked(k) /\ Excluded(k) /\ Distinct(k)
      /\ k.parent[c] \in Commands
  BY DEF CommandInv, CommandTables
<1>1. c \in D /\ D \subseteq Subs /\ \A s \in Subs : k.parent[s] \in D => s \in D
  BY DoomedBelow
<1>2. /\ w \in CommandTables /\ w.parent = [k.parent EXCEPT ![c] = None]
      /\ w.name = k.name /\ w.aliases = k.aliases /\ w.flags = k.flags
      /\ w.off = k.off /\ w.made = k.made /\ w.muted = k.muted
      /\ w.blurred = k.blurred /\ w.help = k.help
  BY <1>0 DEF Without, CommandTables
<1>3. r = [w EXCEPT !.parent = [x \in Subs |-> IF x \in D THEN None ELSE @[x]], !.off = @ \ D]
  BY DEF Destroyed
<1> HIDE DEF r, w, D
<1>4. /\ r \in CommandTables /\ r.not = w.not
      /\ r.name = k.name /\ r.aliases = k.aliases /\ r.flags = k.flags
      /\ r.off = k.off \ D /\ r.made = k.made /\ r.muted = k.muted
      /\ r.blurred = k.blurred /\ r.help = k.help
      /\ \A x \in Subs : r.parent[x] = IF x \in D THEN None ELSE w.parent[x]
  BY <1>2, <1>3 DEF CommandTables
<1>5. \A x \in Subs : r.parent[x] = IF x \in D THEN None ELSE k.parent[x]
  BY <1>0, <1>1, <1>2, <1>4 DEF CommandTables
<1>6. ASSUME NEW x \in Subs, r.parent[x] # None
      PROVE  /\ k.parent[x] = r.parent[x] /\ Exists(k, k.parent[x])
             /\ Exists(r, r.parent[x]) /\ Scope(k, x) = Scope(r, x)
  <2>1. k.parent[x] = r.parent[x] /\ Exists(k, k.parent[x]) /\ k.parent[x] \notin D
    BY <1>0, <1>1, <1>5, <1>6 DEF Rooted
  <2>2. Exists(r, r.parent[x])
    BY <1>5, <2>1 DEF Exists
  <2>3. Scope(k, x) = Scope(r, x)
    BY <1>4, <1>5, <2>1 DEF Scope, IsGroup, Exists
  <2> QED
    BY <2>1, <2>2, <2>3
<1>7. Rooted(r)
  BY <1>0, <1>4, <1>6 DEF Rooted, IsGroup
<1>8. Marked(r)
  BY <1>0, <1>4 DEF Marked
<1>9. Excluded(r)
  <2>1. \A x \in Commands : Exists(r, x) => Exists(k, x)
    BY <1>5 DEF Exists
  <2>2. r.not = Without(k, k.parent[c], c).not
    BY <1>4 DEF w
  <2> QED
    BY <1>0, <1>4, <2>1, <2>2, WithoutExcludes
<1>10. Distinct(r)
  <2>1. HeardIn(r) \subseteq HeardIn(k)
    BY <1>4, <1>6 DEF HeardIn, IsGroup
  <2>2. ASSUME NEW d \in HeardIn(r)
        PROVE  /\ Scope(k, d) = Scope(r, d) /\ NamesOf(r, d) = NamesOf(k, d)
               /\ \A m \in Names : CheckName(r, d, m) => CheckName(k, d, m)
               /\ NamesOf(r, d) \subseteq Names
    <3>1. d \in Subs /\ d \in Commands /\ r.parent[d] # None
      BY DEF HeardIn, Commands
    <3> QED
      BY <1>4, <1>6, <3>1, NamesAreNames DEF NamesOf, CheckName
  <2> QED
    BY <1>0, <2>1, <2>2, FewerDistinct
<1>11. CommandInv(r)
  BY <1>4, <1>7, <1>8, <1>9, <1>10 DEF CommandInv
<1> QED
  BY <1>4, <1>5, <1>11 DEF r, D

(* The commands k with c in g instead of where it was.                      *)
Transferred(k, c, g) == [Without(k, k.parent[c], c) EXCEPT !.parent[c] = g]

(* A command that moves to an option group.                                 *)
LEMMA MovedCommandKeeps ==
  ASSUME NEW k, CommandInv(k), NEW c \in Subs, k.parent[c] # None, ~IsGroup(k, c),
         NEW g \in Subs, k.parent[g] # None, NEW r,
         r = Transferred(k, c, g), ~Compare(r, c, Scope(r, c))
  PROVE  CommandInv(r) /\ r.help = k.help /\ \A x : Exists(r, x) <=> Exists(k, x)
<1> DEFINE w == Without(k, k.parent[c], c)
<1>0. /\ k \in CommandTables /\ Rooted(k) /\ Marked(k) /\ Excluded(k) /\ Distinct(k)
      /\ k.parent[c] \in Commands /\ g \in Commands /\ g # None
  BY IdentitiesAssumption DEF CommandInv, CommandTables, Commands
<1>1. /\ w \in CommandTables /\ w.parent = [k.parent EXCEPT ![c] = None]
      /\ w.name = k.name /\ w.aliases = k.aliases /\ w.flags = k.flags
      /\ w.off = k.off /\ w.made = k.made /\ w.muted = k.muted
      /\ w.blurred = k.blurred /\ w.help = k.help
  BY <1>0 DEF Without, CommandTables
<1>2. r = [w EXCEPT !.parent[c] = g]
  BY DEF Transferred
<1> HIDE DEF w
<1>3. /\ r \in CommandTables /\ r.not = w.not
      /\ r.name = k.name /\ r.aliases = k.aliases /\ r.flags = k.flags
      /\ r.off = k.off /\ r.made = k.made /\ r.muted = k.muted
      /\ r.blurred = k.blurred /\ r.help = k.help
      /\ r.parent = [k.parent EXCEPT ![c] = g]
  BY <1>0, <1>1, <1>2 DEF CommandTables
<1>4. r.parent[c] = g /\ \A x \in Subs \ {c} : r.parent[x] = k.parent[x]
  BY <1>0, <1>3 DEF CommandTables
<1>5. Rooted(r)
  <2> SUFFICES ASSUME NEW d \in Subs, r.parent[d] # None
               PROVE  /\ d \in r.made /\ Exists(r, r.parent[d])
                      /\ IsGroup(r, d) => ~IsGroup(r, r.parent[d])
    BY DEF Rooted
  <2>1. \A x : Exists(k, x) => Exists(r, x)
    BY <1>0, <1>4 DEF Exists
  <2>2. CASE d = c
    BY <1>0, <1>3, <1>4, <2>2 DEF Rooted, IsGroup, Exists
  <2>3. CASE d # c
    BY <1>0, <1>3, <1>4, <2>1, <2>3 DEF Rooted, IsGroup
  <2> QED
    BY <2>2, <2>3
<1>6. Marked(r)
  BY <1>0, <1>3 DEF Marked
<1>7. Excluded(r)
  <2>1. \A x \in Commands : Exists(r, x) => Exists(k, x)
    BY <1>4 DEF Exists
  <2>2. r.not = Without(k, k.parent[c], c).not
    BY <1>3 DEF w
  <2> QED
    BY <1>0, <1>3, <2>1, <2>2, WithoutExcludes
<1>8. Distinct(r)
  <2>1. ~IsGroup(k, c) /\ ~IsGroup(r, c)
    BY <1>3 DEF IsGroup
  <2>2. \A d \in Commands \ {c} : SameCommand(k, r, d)
    BY <1>3 DEF SameCommand
  <2>3. \A x \in Subs \ {c} : k.parent[x] = r.parent[x]
    BY <1>4
  <2>4. k.muted \subseteq r.muted /\ k.blurred \subseteq r.blurred
    BY <1>3
  <2>5. IsGroup(r, c) \/ ~Compare(r, c, Scope(r, c))
    OBVIOUS
  <2>6. \/ k.parent[c] = None
        \/ IsGroup(k, c) /\ IsGroup(r, c) /\ k.parent[c] = r.parent[c]
        \/ ~IsGroup(k, c) /\ ~IsGroup(r, c)
    BY <2>1
  <2>7. k \in CommandTables /\ r \in CommandTables /\ Rooted(k) /\ Rooted(r) /\ Marked(r) /\ Distinct(k)
    BY <1>0, <1>3, <1>5, <1>6
  <2> QED
    BY <2>2, <2>3, <2>4, <2>5, <2>6, <2>7, SettledApart
<1>9. \A x : Exists(r, x) <=> Exists(k, x)
  BY <1>0, <1>4 DEF Exists
<1> QED
  BY <1>3, <1>5, <1>6, <1>7, <1>8, <1>9 DEF CommandInv

(* The commands k with c in a, named n, with the help option h.             *)
Joined(k, a, c, n, h) ==
  [Ignoring(k, c, k.flags[a]) EXCEPT
     !.parent[c] = a, !.name[c] = n, !.defaults[c] = k.defaults[a],
     !.help[c] = h, !.made = @ \cup {c}]

(* A new command, or option group.                                          *)
LEMMA AddedCommandKeeps ==
  ASSUME NEW k, CommandInv(k), NEW a \in Commands, Exists(k, a), NEW c \in Subs, c \notin k.made,
         NEW n \in Names \cup {Unnamed}, n = Unnamed => ~IsGroup(k, a),
         NEW h \in Options \cup {None}, NEW r, r = Joined(k, a, c, n, h),
         ~Compare(r, c, Scope(r, c))
  PROVE  /\ CommandInv(r) /\ r.parent = [k.parent EXCEPT ![c] = a]
         /\ r.help = [k.help EXCEPT ![c] = h] /\ k.parent[c] = None
<1>t. k \in CommandTables /\ Rooted(k) /\ Marked(k) /\ Excluded(k) /\ Distinct(k)
  BY DEF CommandInv
<1>p. /\ c \in Subs /\ c \in Commands /\ c # Root /\ a # None
      /\ k.parent[c] = None
  BY <1>t, IdentitiesAssumption DEF Commands, Rooted
<1>0. /\ k \in CommandTables /\ Rooted(k) /\ Marked(k) /\ Excluded(k) /\ Distinct(k)
      /\ c \in Commands /\ k.parent[c] = None /\ a # c /\ a # None /\ c # Root
  BY <1>t, <1>p DEF Exists
<1> DEFINE w == Ignoring(k, c, k.flags[a])
<1>i. /\ w \in CommandTables /\ w.parent = k.parent /\ w.name = k.name
      /\ w.aliases = k.aliases /\ w.flags = [k.flags EXCEPT ![c] = k.flags[a]]
      /\ w.off = k.off /\ w.not = k.not /\ w.help = k.help /\ w.made = k.made
      /\ w.muted = k.muted
      /\ w.blurred = IF k.flags[a] = Kinds THEN k.blurred \cup {c} ELSE k.blurred
  BY <1>0 DEF CommandTables, Ignoring
<1>r. r = [w EXCEPT !.parent[c] = a, !.name[c] = n, !.defaults[c] = k.defaults[a],
                    !.help[c] = h, !.made = @ \cup {c}]
  BY DEF Joined
<1> HIDE DEF w
<1>d. k.defaults[a] \in SUBSET Kinds
  BY <1>0 DEF CommandTables
<1>1. /\ r \in CommandTables /\ r.parent = [k.parent EXCEPT ![c] = a]
      /\ r.name = [k.name EXCEPT ![c] = n] /\ r.aliases = k.aliases
      /\ r.flags = [k.flags EXCEPT ![c] = k.flags[a]] /\ r.off = k.off /\ r.not = k.not
      /\ r.help = [k.help EXCEPT ![c] = h] /\ r.made = k.made \cup {c} /\ r.muted = k.muted
      /\ r.blurred = IF k.flags[a] = Kinds THEN k.blurred \cup {c} ELSE k.blurred
  <2>1. /\ r.parent = [w.parent EXCEPT ![c] = a] /\ r.name = [w.name EXCEPT ![c] = n]
        /\ r.defaults = [w.defaults EXCEPT ![c] = k.defaults[a]]
        /\ r.help = [w.help EXCEPT ![c] = h] /\ r.made = w.made \cup {c}
        /\ r.aliases = w.aliases /\ r.flags = w.flags /\ r.off = w.off /\ r.not = w.not
        /\ r.config = w.config /\ r.muted = w.muted /\ r.blurred = w.blurred
    BY <1>i, <1>r DEF CommandTables
  <2> DEFINE P == [w.parent EXCEPT ![c] = a]
             N == [w.name EXCEPT ![c] = n]
             D == [w.defaults EXCEPT ![c] = k.defaults[a]]
             H == [w.help EXCEPT ![c] = h]
             M == w.made \cup {c}
  <2>2. /\ P \in [Subs -> Commands \cup {None}] /\ N \in [Commands -> Names \cup {Unnamed}]
        /\ D \in [Commands -> SUBSET Kinds] /\ H \in [Commands -> Options \cup {None}]
        /\ M \in SUBSET Subs
    BY <1>p, <1>i, <1>d DEF CommandTables
  <2>3. r = [w EXCEPT !.parent = P, !.name = N, !.defaults = D, !.help = H, !.made = M]
    BY <1>r
  <2> HIDE DEF P, N, D, H, M
  <2>4. r \in CommandTables
    <3>1. w = [parent |-> w.parent, name |-> w.name, aliases |-> w.aliases, flags |-> w.flags,
               off |-> w.off, not |-> w.not, defaults |-> w.defaults, help |-> w.help,
               config |-> w.config, made |-> w.made, muted |-> w.muted, blurred |-> w.blurred]
      BY <1>i DEF CommandTables
    <3>2. r = [parent |-> P, name |-> N, aliases |-> w.aliases, flags |-> w.flags,
               off |-> w.off, not |-> w.not, defaults |-> D, help |-> H,
               config |-> w.config, made |-> M, muted |-> w.muted, blurred |-> w.blurred]
      BY <2>3, <3>1
    <3>3. /\ w.aliases \in [Commands -> SUBSET Names] /\ w.flags \in [Commands -> SUBSET Kinds]
          /\ w.off \in SUBSET Subs /\ w.not \in [Commands -> SUBSET Commands]
          /\ w.config \in Options \cup {None} /\ w.muted \in SUBSET Subs
          /\ w.blurred \in SUBSET Commands
      BY <1>i DEF CommandTables
    <3> QED  BY <2>2, <3>2, <3>3 DEF CommandTables
  <2> QED
    BY <1>i, <2>1, <2>4
<1>2. /\ r.parent[c] = a /\ r.name[c] = n /\ r.flags[c] = k.flags[a]
      /\ \A x \in Subs \ {c} : r.parent[x] = k.parent[x]
      /\ \A x \in Commands \ {c} : SameCommand(k, r, x)
  BY <1>0, <1>1 DEF CommandTables, SameCommand
<1>3. \A x \in Commands \ {c} : (IsGroup(r, x) <=> IsGroup(k, x)) /\ (Exists(r, x) <=> Exists(k, x))
  BY <1>2 DEF IsGroup, Exists, SameCommand, Commands
<1>4. Rooted(r)
  <2> SUFFICES ASSUME NEW d \in Subs, r.parent[d] # None
               PROVE  /\ d \in r.made /\ Exists(r, r.parent[d])
                      /\ IsGroup(r, d) => ~IsGroup(r, r.parent[d])
    BY DEF Rooted
  <2>1. CASE d = c
    BY <1>0, <1>1, <1>2, <1>3, <2>1 DEF IsGroup
  <2>2. CASE d # c
    <3>1. /\ r.parent[d] = k.parent[d] /\ k.parent[d] \in Commands \ {c} /\ d \in k.made
          /\ Exists(k, k.parent[d]) /\ (IsGroup(k, d) => ~IsGroup(k, k.parent[d]))
      BY <1>0, <1>2, <2>2 DEF Rooted, Exists, CommandTables
    <3> QED
      BY <1>1, <1>3, <2>2, <3>1 DEF Commands
  <2> QED
    BY <2>1, <2>2
<1>5. Marked(r)
  BY <1>0, <1>1, <1>2 DEF Marked, SameCommand
<1>6. Excluded(r)
  <2>1. \A x \in Commands : k.not[x] \in SUBSET Commands
    BY <1>0 DEF CommandTables
  <2>2. \A x \in Commands : c \notin k.not[x] /\ (x = c => k.not[x] = {})
    BY <1>0, <2>1 DEF Excluded
  <2> QED
    BY <1>0, <1>1, <1>3, <2>2 DEF Excluded
<1>7. Distinct(r)
  <2>1. k.blurred \subseteq r.blurred /\ k.muted \subseteq r.muted
    BY <1>1
  <2>2. \A x \in Subs \ {c} : k.parent[x] = r.parent[x]
    BY <1>2
  <2>3. IsGroup(r, c) \/ ~Compare(r, c, Scope(r, c))
    OBVIOUS
  <2>4. k \in CommandTables /\ r \in CommandTables /\ Rooted(k) /\ Rooted(r) /\ Marked(r) /\ Distinct(k)
    BY <1>0, <1>1, <1>4, <1>5
  <2>5. k.parent[c] = None /\ c \in Subs /\ \A d \in Commands \ {c} : SameCommand(k, r, d)
    BY <1>p, <1>2
  <2> QED
    BY <2>1, <2>2, <2>3, <2>4, <2>5, SettledApart
<1> QED
  BY <1>0, <1>1, <1>4, <1>5, <1>6, <1>7 DEF CommandInv

-----------------------------------------------------------------------------
(* Options and commands together: an option is in a command that is there,  *)
(* and a command's help option in that command.                             *)
Joint(q, k) ==
  /\ \A o \in Options : Live(q, o) => Exists(k, q.at[o])
  /\ \A c \in Commands : Exists(k, c) /\ k.help[c] # None => q.at[k.help[c]] = c

SetupInv(q, k) == OptionInv(q) /\ CommandInv(k) /\ Joint(q, k)

Inv == SetupInv(opts, cmds) /\ calls \in 0..MaxCalls

(* A call that is made leaves one change more at most.                      *)
LEMMA LeavesKeeps ==
  ASSUME NEW q, NEW k, SetupInv(q, k), calls \in 0..MaxCalls, calls < MaxCalls, Leaves(q, k)
  PROVE  Inv'
<1>1. opts' = q /\ cmds' = k /\ calls' \in 0..MaxCalls
  BY IdentitiesAssumption DEF Leaves
<1> QED
  BY <1>1 DEF Inv

LEMMA NewIsNew ==
  ASSUME NEW ids, NEW x \in New(ids)
  PROVE  x \in ids
BY DEF New

LEMMA CommandsAreSome ==
  ASSUME NEW k, NEW c, Exists(k, c)
  PROVE  c \in Commands /\ c # None
BY IdentitiesAssumption DEF Exists, Commands

LEMMA JointWhenAdded ==
  ASSUME NEW q \in OptionTables, NEW r, NEW k \in CommandTables, Placed(q), Joint(q, k),
         NEW o \in Options, o \notin q.made, NEW a, Exists(k, a),
         \A x \in Options : r.at[x] \in {q.at[x], a},
         \A x \in Options \ {o} : r.at[x] = q.at[x]
  PROVE  Joint(r, k)
<1>1. q.at[o] = None
  BY DEF Placed, Live
<1>3. \A x \in Options : Live(r, x) => Exists(k, r.at[x])
  BY DEF Joint, Live
<1>4. ASSUME NEW c \in Commands, Exists(k, c), k.help[c] # None PROVE r.at[k.help[c]] = c
  <2>1. q.at[k.help[c]] = c /\ c # None
    BY <1>4, CommandsAreSome DEF Joint
  <2>2. k.help[c] # o
    BY <1>1, <2>1
  <2>3. r.at[k.help[c]] = q.at[k.help[c]]
    BY <1>4, <2>2 DEF CommandTables
  <2> QED
    BY <2>1, <2>3
<1> QED
  BY <1>3, <1>4 DEF Joint

LEMMA JointWhenRemoved ==
  ASSUME NEW q \in OptionTables, NEW r, NEW k \in CommandTables, Joint(q, k),
         NEW o \in Options, NEW a \in Commands,
         r.at = [q.at EXCEPT ![o] = IF @ = a THEN None ELSE @]
  PROVE  Joint(r, Unhelped(k, a, o))
<1> DEFINE l == Unhelped(k, a, o)
<1>1. /\ l.parent = k.parent
      /\ \A c \in Commands : l.help[c] = IF c = a /\ k.help[c] = o THEN None ELSE k.help[c]
  BY DEF Unhelped, CommandTables
<1> HIDE DEF l
<1>2. \A x : Exists(l, x) <=> Exists(k, x)
  BY <1>1 DEF Exists
<1>3. \A x \in Options : Live(r, x) => Exists(l, r.at[x])
  BY <1>2 DEF Joint, Live, OptionTables
<1>4. ASSUME NEW c \in Commands, Exists(l, c), l.help[c] # None PROVE r.at[l.help[c]] = c
  <2>1. l.help[c] = k.help[c] /\ q.at[k.help[c]] = c /\ (c = a => k.help[c] # o)
    BY <1>1, <1>2, <1>4 DEF Joint
  <2>2. k.help[c] = o => q.at[o] # a
    BY <2>1
  <2> QED
    BY <2>1, <2>2 DEF OptionTables
<1> QED
  BY <1>3, <1>4 DEF Joint, l

LEMMA UnhelpedKeeps ==
  ASSUME NEW k, CommandInv(k), NEW a \in Commands, NEW o
  PROVE  CommandInv(Unhelped(k, a, o))
<1> DEFINE r == [k EXCEPT !.help[a] = None]
<1>1. /\ r \in CommandTables /\ r.parent = k.parent /\ r.name = k.name /\ r.aliases = k.aliases
      /\ r.flags = k.flags /\ r.off = k.off /\ r.not = k.not /\ r.made = k.made
      /\ r.muted = k.muted /\ r.blurred = k.blurred
  BY DEF CommandInv, CommandTables
<1> HIDE DEF r
<1>2. CommandInv(r)
  BY <1>1, UnreadKeeps
<1> QED
  BY <1>2 DEF Unhelped, r

(* A command gets a help option that is there, or none.                     *)
LEMMA HelpKeeps ==
  ASSUME NEW q, NEW k, SetupInv(q, k), NEW a \in Commands, NEW h \in Options \cup {None},
         h # None => q.at[h] = a
  PROVE  SetupInv(q, [k EXCEPT !.help[a] = h])
<1> DEFINE r == [k EXCEPT !.help[a] = h]
<1>1. /\ r \in CommandTables /\ r.parent = k.parent /\ r.name = k.name /\ r.aliases = k.aliases
      /\ r.flags = k.flags /\ r.off = k.off /\ r.not = k.not /\ r.made = k.made
      /\ r.muted = k.muted /\ r.blurred = k.blurred
      /\ r.help[a] = h /\ \A c \in Commands \ {a} : r.help[c] = k.help[c]
  BY DEF SetupInv, CommandInv, CommandTables
<1> HIDE DEF r
<1>2. CommandInv(r)
  BY <1>1, UnreadKeeps DEF SetupInv
<1>3. Joint(q, r)
  BY <1>1 DEF SetupInv, Joint, Exists
<1> QED
  BY <1>2, <1>3 DEF SetupInv, r

(* What the calls that add and remove options leave.                        *)
LEMMA AddingKeeps ==
  ASSUME NEW q, NEW k, SetupInv(q, k), NEW a \in Commands, Exists(k, a),
         NEW o \in Options \ q.made, NEW ns \in SUBSET Names
  PROVE  /\ SetupInv(Added(q, a, o, ns, k.defaults[a]), k)
         /\ Accepted(Added(q, a, o, ns, k.defaults[a]), o, k.defaults[a]) =>
              Added(q, a, o, ns, k.defaults[a]).at[o] = a
<1>1. /\ OptionInv(q) /\ q \in OptionTables /\ Placed(q) /\ CommandInv(k)
      /\ k \in CommandTables /\ Joint(q, k) /\ k.defaults[a] \in SUBSET Kinds
  BY DEF SetupInv, OptionInv, CommandInv, CommandTables
<1> DEFINE ds == k.defaults[a]
<1>d. ds \in SUBSET Kinds
  BY <1>1
<1> HIDE DEF ds
<1> DEFINE r == Added(q, a, o, ns, ds)
<1>2. /\ OptionInv(r)
      /\ \A x \in Options : r.at[x] \in {q.at[x], a}
      /\ \A x \in Options \ {o} : r.at[x] = q.at[x]
      /\ Accepted(r, o, ds) => r.at[o] = a
  BY <1>1, <1>d, AddedKeeps
<1> HIDE DEF r
<1>3. Joint(r, k)
  BY <1>1, <1>2, JointWhenAdded
<1> QED
  BY <1>1, <1>2, <1>3 DEF SetupInv, r, ds

LEMMA RemovingKeeps ==
  ASSUME NEW q, NEW k, SetupInv(q, k), NEW a \in Commands, NEW o \in Options
  PROVE  SetupInv(Removed(q, a, o), Unhelped(k, a, o))
<1>1. /\ OptionInv(q) /\ q \in OptionTables /\ CommandInv(k) /\ k \in CommandTables /\ Joint(q, k)
  BY DEF SetupInv, OptionInv, CommandInv
<1>2. /\ OptionInv(Removed(q, a, o))
      /\ Removed(q, a, o).at = [q.at EXCEPT ![o] = IF @ = a THEN None ELSE @]
  BY <1>1, RemovedKeeps
<1>3. CommandInv(Unhelped(k, a, o))
  BY <1>1, UnhelpedKeeps
<1>4. Joint(Removed(q, a, o), Unhelped(k, a, o))
  BY <1>1, <1>2, JointWhenRemoved
<1> QED
  BY <1>2, <1>3, <1>4 DEF SetupInv

(* Whatever changes about commands but the commands there are and their     *)
(* help options.                                                            *)
LEMMA ChangedKeeps ==
  ASSUME NEW q, NEW k, NEW r, SetupInv(q, k), CommandInv(r),
         r.help = k.help, \A c \in Commands : Exists(r, c) <=> Exists(k, c)
  PROVE  SetupInv(q, r)
<1>1. \A o \in Options : Live(q, o) => q.at[o] \in Commands
  BY DEF SetupInv, OptionInv, OptionTables, Live
<1> QED
  BY <1>1 DEF SetupInv, Joint

-----------------------------------------------------------------------------
(* The calls, while more may be made.                                       *)
MayCall == Inv /\ calls < MaxCalls

LEMMA RetireOptionKeeps ==
  ASSUME MayCall, NEW a \in Present, NEW o \in Holding, NEW n \in NewOptions, RetireOption(a, o, n)
  PROVE  Inv'
<1> DEFINE q == Removed(opts, a, o)
           k == Unhelped(cmds, a, o)
<1>1. /\ SetupInv(opts, cmds) /\ a \in Commands /\ o \in Options /\ n \in Options \ opts.made
      /\ Exists(cmds, a) /\ opts \in OptionTables /\ opts.names[o] \in SUBSET Names
  BY NewIsNew DEF MayCall, Inv, Present, Holding, NewOptions, SetupInv, OptionInv, OptionTables
<1>2. SetupInv(q, k) /\ q.made = opts.made /\ k.parent = cmds.parent /\ k.defaults = cmds.defaults
  <2>1. SetupInv(q, k)
    BY <1>1, RemovingKeeps
  <2>2. q.made = opts.made
    BY <1>1 DEF Removed, OptionTables
  <2>3. k.parent = cmds.parent /\ k.defaults = cmds.defaults
    BY DEF Unhelped, SetupInv, CommandInv, CommandTables
  <2> QED
    BY <2>1, <2>2, <2>3
<1>3. RetireOption(a, o, n) => Leaves(Added(q, a, n, opts.names[o], k.defaults[a]), k)
  BY <1>2 DEF RetireOption
<1> HIDE DEF q, k
<1>4. Exists(k, a)
  BY <1>1, <1>2 DEF Exists
<1>5. SetupInv(Added(q, a, n, opts.names[o], k.defaults[a]), k)
  BY <1>1, <1>2, <1>4, AddingKeeps
<1> QED
  BY <1>3, <1>5, LeavesKeeps DEF MayCall, Inv

LEMMA SetHelpKeeps ==
  ASSUME MayCall, NEW a \in Present, NEW o \in NewOptions, NEW ns \in Declared, SetHelp(a, o, ns)
  PROVE  Inv'
<1> DEFINE h == cmds.help[a]
           ds == cmds.defaults[a]
           q == IF h = None THEN opts ELSE Removed(opts, a, h)
           k == [cmds EXCEPT !.help[a] = None]
           r == IF ns = {} THEN q ELSE Added(q, a, o, ns, ds)
           there == ns # {} /\ Accepted(r, o, ds)
           l == [cmds EXCEPT !.help[a] = IF there THEN o ELSE None]
<1>1. /\ SetupInv(opts, cmds) /\ a \in Commands /\ o \in Options \ opts.made
      /\ Exists(cmds, a) /\ ns \in SUBSET Names /\ cmds \in CommandTables
      /\ h \in Options \cup {None} /\ OptionInv(opts)
  BY NewIsNew, NamesAssumption
  DEF MayCall, Inv, Present, NewOptions, SetupInv, CommandInv, CommandTables
<1>2. SetupInv(q, k) /\ q.made = opts.made
  <2>1. CASE h = None
    BY <1>1, <2>1, HelpKeeps
  <2>2. CASE h # None
    <3>1. SetupInv(Removed(opts, a, h), Unhelped(cmds, a, h))
      BY <1>1, <2>2, RemovingKeeps
    <3>2. Unhelped(cmds, a, h) = k
      BY DEF Unhelped
    <3>3. Removed(opts, a, h).made = opts.made
      BY <1>1 DEF Removed, OptionInv, OptionTables
    <3> QED
      BY <2>2, <3>1, <3>2, <3>3
  <2> QED
    BY <2>1, <2>2
<1>3. /\ k.defaults = cmds.defaults /\ k.parent = cmds.parent
      /\ l = [k EXCEPT !.help[a] = IF there THEN o ELSE None]
  BY <1>1 DEF CommandTables
<1>4. SetHelp(a, o, ns) => Leaves(r, l)
  BY DEF SetHelp
<1> HIDE DEF q, k, h
<1>5. SetupInv(r, k) /\ (there => r.at[o] = a)
  <2>1. Exists(k, a) /\ k.defaults[a] = ds
    BY <1>1, <1>3 DEF Exists
  <2>2. CASE ns = {}
    BY <1>2, <2>2
  <2>3. CASE ns # {}
    BY <1>1, <1>2, <2>1, <2>3, AddingKeeps
  <2> QED
    BY <2>2, <2>3
<1> HIDE DEF r, there, l
<1>6. SetupInv(r, l)
  <2> DEFINE g == IF there THEN o ELSE None
  <2>1. g \in Options \cup {None} /\ (g # None => r.at[g] = a)
    BY <1>1, <1>5
  <2> HIDE DEF g
  <2>2. SetupInv(r, [k EXCEPT !.help[a] = g])
    BY <1>1, <1>5, <2>1, HelpKeeps
  <2> QED
    BY <1>3, <2>2 DEF g
<1> QED
  BY <1>4, <1>6, LeavesKeeps DEF MayCall, Inv

LEMMA SetConfigKeeps ==
  ASSUME MayCall, NEW o \in NewOptions, NEW ns \in Declared, SetConfig(o, ns)
  PROVE  Inv'
<1> DEFINE h == cmds.config
           ds == cmds.defaults[Root]
           q == IF h = None THEN opts ELSE Removed(opts, Root, h)
           k == IF h = None THEN cmds ELSE Unhelped(cmds, Root, h)
           r == IF ns = {} THEN q ELSE Added(q, Root, o, ns, ds)
           g == IF ns # {} /\ Accepted(r, o, ds) THEN o ELSE None
           l == [k EXCEPT !.config = g]
<1>1. /\ SetupInv(opts, cmds) /\ o \in Options \ opts.made /\ ns \in SUBSET Names
      /\ cmds \in CommandTables /\ h \in Options \cup {None} /\ OptionInv(opts)
  BY NewIsNew, NamesAssumption DEF MayCall, Inv, NewOptions, SetupInv, CommandInv, CommandTables
<1>2. /\ SetupInv(q, k) /\ q.made = opts.made
      /\ k.defaults = cmds.defaults /\ k.parent = cmds.parent
  <2>1. CASE h = None
    BY <1>1, <2>1
  <2>2. CASE h # None
    <3>1. SetupInv(Removed(opts, Root, h), Unhelped(cmds, Root, h))
      BY <1>1, <2>2, RemovingKeeps DEF Commands
    <3>2. Removed(opts, Root, h).made = opts.made
      BY <1>1 DEF Removed, OptionInv, OptionTables
    <3> QED
      BY <1>1, <2>2, <3>1, <3>2 DEF Unhelped, CommandTables
  <2> QED
    BY <2>1, <2>2
<1>4. SetConfig(o, ns) => Leaves(r, l)
  BY DEF SetConfig
<1> HIDE DEF q, k, h
<1>5. SetupInv(r, k)
  <2>1. Exists(k, Root) /\ k.defaults[Root] = ds /\ Root \in Commands
    BY <1>1, <1>2 DEF Exists, Commands
  <2>2. CASE ns = {}
    BY <1>2, <2>2
  <2>3. CASE ns # {}
    BY <1>1, <1>2, <2>1, <2>3, AddingKeeps
  <2> QED
    BY <2>2, <2>3
<1>6. g \in Options \cup {None}
  BY <1>1
<1> HIDE DEF r, g
<1>7. SetupInv(r, l)
  <2>1. /\ l \in CommandTables /\ l.parent = k.parent /\ l.name = k.name /\ l.aliases = k.aliases
        /\ l.flags = k.flags /\ l.off = k.off /\ l.not = k.not /\ l.made = k.made
        /\ l.muted = k.muted /\ l.blurred = k.blurred /\ l.help = k.help
    BY <1>5, <1>6 DEF SetupInv, CommandInv, CommandTables
  <2> HIDE DEF l
  <2>2. CommandInv(l)
    BY <1>5, <2>1, UnreadKeeps DEF SetupInv
  <2> QED
    BY <1>5, <2>1, <2>2, ChangedKeeps DEF Exists
<1> HIDE DEF l
<1> QED
  BY <1>4, <1>7, LeavesKeeps DEF MayCall, Inv

(* A new command brings at most a copy of the help option with it.          *)
LEMMA AddSubcommandKeeps ==
  ASSUME MayCall, NEW a \in Present, NEW c \in NewSubs, NEW n \in Names \cup {Unnamed},
         NEW o \in NewOptions \cup {None}, AddSubcommand(a, c, n, o)
  PROVE  Inv'
<1> DEFINE k == Joined(cmds, a, c, n, o)
           ns == opts.names[cmds.help[a]]
           q == IF o = None THEN opts ELSE Made(opts, c, o, ns)
<1>1. /\ SetupInv(opts, cmds) /\ OptionInv(opts) /\ CommandInv(cmds) /\ Joint(opts, cmds)
      /\ Rooted(cmds) /\ Placed(opts) /\ opts \in OptionTables /\ cmds \in CommandTables
  BY DEF MayCall, Inv, SetupInv, OptionInv, CommandInv
<1>2. /\ a \in Commands /\ Exists(cmds, a) /\ c \in Subs /\ c \notin cmds.made
      /\ o \in Options \cup {None} /\ (o # None => o \in Options \ opts.made)
  BY NewIsNew DEF Present, NewSubs, NewOptions
<1>3. c \in Commands /\ c # None /\ c # Root /\ cmds.parent[c] = None /\ ~Exists(cmds, c)
  BY <1>1, <1>2, IdentitiesAssumption DEF Commands, Rooted, Exists
<1>4. /\ n = Unnamed => ~IsGroup(cmds, a)
      /\ o = None <=> cmds.help[a] = None
      /\ IF Compare(k, c, Scope(k, c)) THEN Leaves(opts, cmds) ELSE Leaves(q, k)
  BY DEF AddSubcommand, Joined
<1>5. CASE Compare(k, c, Scope(k, c))
  BY <1>1, <1>4, <1>5, LeavesKeeps DEF MayCall, Inv
<1>6. CASE ~Compare(k, c, Scope(k, c))
  <2>1. /\ CommandInv(k) /\ k.parent = [cmds.parent EXCEPT ![c] = a]
        /\ k.help = [cmds.help EXCEPT ![c] = o]
    BY <1>1, <1>2, <1>4, <1>6, AddedCommandKeeps
  <2>2. /\ k.parent[c] = a /\ \A x \in Subs \ {c} : k.parent[x] = cmds.parent[x]
        /\ k.help[c] = o /\ \A x \in Commands \ {c} : k.help[x] = cmds.help[x]
    BY <1>1, <1>2, <1>3, <2>1 DEF CommandTables
  <2> HIDE DEF k
  <2>3. \A x : Exists(k, x) <=> x = c \/ Exists(cmds, x)
    BY <1>2, <1>3, <2>2, CommandsAreSome DEF Exists
  <2>4. \A x \in Options : opts.at[x] # c
    BY <1>1, <1>3 DEF Joint, Live
  <2>5. OptionInv(q) /\ (o # None => q.at[o] = c) /\ \A x \in Options \ {o} : q.at[x] = opts.at[x]
    <3>1. CASE o = None
      BY <1>1, <3>1
    <3>2. CASE o # None
      <4>1. ns \in SUBSET Names
        BY <1>1, <1>2, <1>4, <3>2 DEF OptionTables, CommandTables
      <4>2. ~Clashes(opts, c, o, ns, {})
        BY <2>4 DEF Clashes
      <4> HIDE DEF ns
      <4>3. OptionInv(Made(opts, c, o, ns))
        BY <1>1, <1>2, <1>3, <3>2, <4>1, <4>2, MadeKeeps
      <4>4. Made(opts, c, o, ns).at = [opts.at EXCEPT ![o] = c]
        BY <1>1 DEF Made, OptionTables
      <4> QED
        BY <1>1, <1>2, <3>2, <4>3, <4>4 DEF OptionTables
    <3> QED
      BY <3>1, <3>2
  <2> HIDE DEF q
  <2>6. \A x \in Options : Live(q, x) => Exists(k, q.at[x])
    BY <1>1, <2>3, <2>5, IdentitiesAssumption DEF Joint, Live
  <2>7. ASSUME NEW d \in Commands, Exists(k, d), k.help[d] # None PROVE q.at[k.help[d]] = d
    <3>1. CASE d = c
      BY <2>2, <2>5, <2>7, <3>1
    <3>2. CASE d # c
      <4>1. /\ k.help[d] = cmds.help[d] /\ opts.at[cmds.help[d]] = d /\ d # None
            /\ cmds.help[d] \in Options
        <5>1. k.help[d] = cmds.help[d] /\ Exists(cmds, d) /\ cmds.help[d] # None
          BY <2>2, <2>3, <2>7, <3>2
        <5>2. d # None
          BY <5>1, CommandsAreSome
        <5> QED
          BY <1>1, <5>1, <5>2 DEF Joint, CommandTables
      <4>2. cmds.help[d] # o
        BY <1>1, <1>2, <4>1, IdentitiesAssumption DEF Placed, Live
      <4> QED
        BY <2>5, <4>1, <4>2
    <3> QED
      BY <3>1, <3>2
  <2>8. SetupInv(q, k)
    BY <2>1, <2>5, <2>6, <2>7 DEF SetupInv, Joint
  <2> QED
    BY <1>4, <1>6, <2>8, LeavesKeeps DEF MayCall, Inv
<1> QED
  BY <1>5, <1>6

(* A command that goes takes what is in it, and the options of all these.   *)
LEMMA RemoveSubcommandKeeps ==
  ASSUME MayCall, NEW c \in Present \ {Root}, RemoveSubcommand(c)
  PROVE  Inv'
<1> DEFINE D == Doomed(cmds, c)
           q == Dropped(opts, D)
           k == Destroyed(cmds, cmds.parent[c], c)
<1>1. /\ OptionInv(opts) /\ CommandInv(cmds) /\ Joint(opts, cmds)
      /\ opts \in OptionTables /\ cmds \in CommandTables /\ c \in Subs /\ cmds.parent[c] # None
  BY DEF MayCall, Inv, SetupInv, OptionInv, CommandInv, Present, Commands, Exists
<1>2. /\ CommandInv(k) /\ k.help = cmds.help
      /\ \A x \in Subs : k.parent[x] = IF x \in D THEN None ELSE cmds.parent[x]
  BY <1>1, DestroyedKeeps
<1>3. OptionInv(q) /\ q.at = [o \in Options |-> IF opts.at[o] \in D THEN None ELSE opts.at[o]]
  BY <1>1, DroppedKeeps DEF Dropped, OptionTables
<1>4. D \subseteq Subs /\ Root \notin D
  BY <1>1, DoomedBelow, IdentitiesAssumption
<1>5. RemoveSubcommand(c) => Leaves(q, k)
  BY DEF RemoveSubcommand
<1> HIDE DEF D, q, k
<1>6. \A x : Exists(k, x) <=> Exists(cmds, x) /\ x \notin D
  BY <1>2, <1>4 DEF Exists
<1>7. Joint(q, k)
  <2>1. \A o \in Options : Live(q, o) => Exists(k, q.at[o])
    BY <1>1, <1>3, <1>6 DEF Joint, Live
  <2>2. ASSUME NEW d \in Commands, Exists(k, d), k.help[d] # None PROVE q.at[k.help[d]] = d
    BY <1>1, <1>2, <1>3, <1>6, <2>2 DEF Joint, CommandTables
  <2> QED
    BY <2>1, <2>2 DEF Joint
<1>8. SetupInv(q, k)
  BY <1>2, <1>3, <1>7 DEF SetupInv
<1> QED
  BY <1>5, <1>8, LeavesKeeps DEF MayCall, Inv

LEMMA MoveSubcommandKeeps ==
  ASSUME MayCall, NEW c \in Present \ {Root}, NEW g \in Present \ {Root},
         ~IsGroup(cmds, c), MoveSubcommand(c, g)
  PROVE  Inv'
<1> DEFINE k == Transferred(cmds, c, g)
<1>1. /\ SetupInv(opts, cmds) /\ CommandInv(cmds) /\ cmds \in CommandTables
      /\ c \in Subs /\ cmds.parent[c] # None /\ g \in Subs /\ cmds.parent[g] # None
  BY DEF MayCall, Inv, SetupInv, CommandInv, Present, Commands, Exists
<1>2. IF Compare(k, c, Scope(k, c)) THEN RemoveSubcommand(c) ELSE Leaves(opts, k)
  BY DEF MoveSubcommand, Transferred
<1>3. CASE Compare(k, c, Scope(k, c))
  BY <1>2, <1>3, RemoveSubcommandKeeps
<1>4. CASE ~Compare(k, c, Scope(k, c))
  <2>1. CommandInv(k) /\ k.help = cmds.help /\ \A x : Exists(k, x) <=> Exists(cmds, x)
    BY <1>1, <1>4, MovedCommandKeeps
  <2> HIDE DEF k
  <2>2. SetupInv(opts, k)
    BY <1>1, <2>1, ChangedKeeps
  <2> QED
    BY <1>2, <1>4, <2>2, LeavesKeeps DEF MayCall, Inv
<1> QED
  BY <1>3, <1>4

(* An option moves from a command to one in it, never a help option.        *)
LEMMA MoveOptionKeeps ==
  ASSUME MayCall, NEW a \in Present, NEW o \in Holding, NEW c \in Kids(cmds, a),
         MoveOption(a, c, o)
  PROVE  Inv'
<1> DEFINE q == MovedTo(opts, o, c)
<1>1. /\ SetupInv(opts, cmds) /\ OptionInv(opts) /\ Joint(opts, cmds) /\ opts \in OptionTables
      /\ cmds \in CommandTables /\ o \in Options /\ Live(opts, o)
      /\ c \in Commands /\ Exists(cmds, c) /\ a # None
  BY CommandsAreSome
  DEF MayCall, Inv, SetupInv, OptionInv, CommandInv, Present, Holding, Kids, Commands, Exists
<1>2. opts.at[o] = a /\ cmds.help[a] # o /\ Leaves(q, cmds)
  BY DEF MoveOption
<1>3. OptionInv(q)
  BY <1>1, MovedKeeps
<1>4. q.at[o] \in {a, c} /\ \A x \in Options \ {o} : q.at[x] = opts.at[x]
  BY <1>1, <1>2 DEF MovedTo, OptionTables
<1> HIDE DEF q
<1>5. Joint(q, cmds)
  <2>1. \A x \in Options : Live(q, x) => Exists(cmds, q.at[x])
    BY <1>1, <1>2, <1>4 DEF Joint, Live
  <2>2. ASSUME NEW d \in Commands, Exists(cmds, d), cmds.help[d] # None
        PROVE  q.at[cmds.help[d]] = d
    <3>1. opts.at[cmds.help[d]] = d /\ cmds.help[d] \in Options
      BY <1>1, <2>2 DEF Joint, CommandTables
    <3>2. cmds.help[d] # o
      BY <1>2, <3>1
    <3> QED
      BY <1>4, <3>1, <3>2
  <2> QED
    BY <2>1, <2>2 DEF Joint
<1>6. SetupInv(q, cmds)
  BY <1>1, <1>3, <1>5 DEF SetupInv
<1> QED
  BY <1>2, <1>6, LeavesKeeps DEF MayCall, Inv

(* Calls on options that put none anywhere.                                 *)
LEMMA OptionsInPlaceKeep ==
  ASSUME MayCall, NEW q, OptionInv(q), q.at = opts.at, Leaves(q, cmds)
  PROVE  Inv'
<1>1. SetupInv(q, cmds)
  BY DEF MayCall, Inv, SetupInv, Joint, Live
<1> QED
  BY <1>1, LeavesKeeps DEF MayCall, Inv

(* Calls on commands that neither add nor remove any.                       *)
LEMMA CommandsInPlaceKeep ==
  ASSUME MayCall, NEW k, CommandInv(k), k.help = cmds.help, k.parent = cmds.parent, Leaves(opts, k)
  PROVE  Inv'
<1>1. \A x : Exists(k, x) <=> Exists(cmds, x)
  BY DEF Exists
<1>2. SetupInv(opts, k)
  BY <1>1, ChangedKeeps DEF MayCall, Inv
<1> QED
  BY <1>2, LeavesKeeps DEF MayCall, Inv

LEMMA OptionCallsKeep ==
  ASSUME MayCall, NEW o \in Holding, NEW x \in Holding, NEW i \in Kinds,
         \/ Needs(o, x) \/ Excludes(o, x) \/ StopNeeding(o, x)
         \/ IgnoreOption(o, i) \/ HeedOption(o, i)
  PROVE  Inv'
<1>1. o \in Options /\ x \in Options /\ Live(opts, o) /\ Live(opts, x) /\ OptionInv(opts)
  BY DEF Holding, MayCall, Inv, SetupInv
<1>2. CASE Needs(o, x)
  <2>1. OptionInv(LinkedNeeds(opts, o, x)) /\ LinkedNeeds(opts, o, x).at = opts.at
    BY <1>1, LinkingKeeps
  <2> QED
    BY <1>2, <2>1, OptionsInPlaceKeep DEF Needs
<1>3. CASE Excludes(o, x)
  <2>1. OptionInv(LinkedExcludes(opts, o, x)) /\ LinkedExcludes(opts, o, x).at = opts.at
    BY <1>1, LinkingKeeps
  <2> QED
    BY <1>3, <2>1, OptionsInPlaceKeep DEF Excludes
<1>4. CASE StopNeeding(o, x)
  <2> DEFINE q == [opts EXCEPT !.needs[o] = @ \ {x}]
  <2>1. OptionInv(q) /\ q.at = opts.at
    BY <1>1, LinkingKeeps
  <2>2. Leaves(q, cmds)
    BY <1>4 DEF StopNeeding
  <2> HIDE DEF q
  <2> QED
    BY <2>1, <2>2, OptionsInPlaceKeep
<1>5. CASE IgnoreOption(o, i)
  <2>1. OptionInv(Ignore(opts, o, i)) /\ Ignore(opts, o, i).at = opts.at
    BY <1>1, IgnoreKeeps
  <2> QED
    BY <1>5, <2>1, OptionsInPlaceKeep DEF IgnoreOption
<1>6. CASE HeedOption(o, i)
  <2>1. OptionInv(Heed(opts, o, i)) /\ Heed(opts, o, i).at = opts.at
    BY <1>1, HeedKeeps
  <2> QED
    BY <1>6, <2>1, OptionsInPlaceKeep DEF HeedOption
<1> QED
  BY <1>2, <1>3, <1>4, <1>5, <1>6

LEMMA CommandCallsKeep ==
  ASSUME MayCall, NEW c \in Present \ {Root},
         \/ \E n \in Later : ~IsGroup(cmds, c) /\ Rename(c, n)
         \/ \E n \in Later : Alias(c, n)
         \/ Disable(c) \/ Enable(c)
  PROVE  Inv'
<1>1. CommandInv(cmds) /\ cmds \in CommandTables /\ c \in Subs /\ cmds.parent[c] # None
  BY DEF MayCall, Inv, SetupInv, CommandInv, Present, Commands, Exists
<1>2. ASSUME NEW n \in Later, ~IsGroup(cmds, c), Rename(c, n) PROVE Inv'
  <2> DEFINE k == [cmds EXCEPT !.name[c] = n]
             l == Unless(Compare(k, c, Scope(k, c)), cmds, k)
  <2>1. ~Compare(k, c, Scope(k, c)) => CommandInv(k)
    BY <1>1, <1>2, NamingKeeps
  <2>2. Leaves(opts, l)
    BY <1>2 DEF Rename
  <2>3. k.help = cmds.help /\ k.parent = cmds.parent
    BY <1>1 DEF CommandTables
  <2> HIDE DEF k
  <2>4. CommandInv(l) /\ l.help = cmds.help /\ l.parent = cmds.parent
    BY <1>1, <2>1, <2>3 DEF Unless
  <2> QED
    BY <2>2, <2>4, CommandsInPlaceKeep
<1>3. ASSUME NEW n \in Later, Alias(c, n) PROVE Inv'
  <2> DEFINE k == [cmds EXCEPT !.aliases[c] = @ \cup {n}]
             l == Unless(Compare(k, c, Scope(k, c)), cmds, k)
  <2>1. ~Compare(k, c, Scope(k, c)) => CommandInv(k)
    BY <1>1, NamingKeeps
  <2>2. Leaves(opts, l)
    BY <1>3 DEF Alias
  <2>3. k.help = cmds.help /\ k.parent = cmds.parent
    BY <1>1 DEF CommandTables
  <2> HIDE DEF k
  <2>4. CommandInv(l) /\ l.help = cmds.help /\ l.parent = cmds.parent
    BY <1>1, <2>1, <2>3 DEF Unless
  <2> QED
    BY <2>2, <2>4, CommandsInPlaceKeep
<1>4. CASE Disable(c)
  <2> DEFINE k == [cmds EXCEPT !.off = @ \cup {c}, !.muted = @ \cup {c}]
  <2>1. CommandInv(k) /\ k.help = cmds.help /\ k.parent = cmds.parent
    BY <1>1, MutingKeeps DEF CommandTables
  <2>2. Leaves(opts, k)
    BY <1>4 DEF Disable
  <2> HIDE DEF k
  <2> QED
    BY <2>1, <2>2, CommandsInPlaceKeep
<1>5. CASE Enable(c)
  <2> DEFINE k == [cmds EXCEPT !.off = @ \ {c}]
  <2>1. CommandInv(k) /\ k.help = cmds.help /\ k.parent = cmds.parent
    BY <1>1, MutingKeeps DEF CommandTables
  <2>2. Leaves(opts, k)
    BY <1>5 DEF Enable
  <2> HIDE DEF k
  <2> QED
    BY <2>1, <2>2, CommandsInPlaceKeep
<1> QED
  BY <1>2, <1>3, <1>4, <1>5

LEMMA CommandFlagsKeep ==
  ASSUME MayCall, NEW c \in Present, NEW i \in Kinds,
         IgnoreCommand(c, i) \/ HeedCommand(c, i) \/ SetDefaults(c, i)
  PROVE  Inv'
<1>1. CommandInv(cmds) /\ cmds \in CommandTables /\ c \in Commands /\ Exists(cmds, c)
  BY DEF MayCall, Inv, SetupInv, CommandInv, Present
<1>2. CASE IgnoreCommand(c, i)
  <2> DEFINE k == Ignoring(cmds, c, cmds.flags[c] \cup {i})
             base == IF c = Root THEN Root ELSE Scope(cmds, c)
             l == Unless(Compare(k, c, base), cmds, k)
  <2>1. ~Compare(k, c, base) => CommandInv(k)
    <3>1. ASSUME ~Compare(k, c, base) PROVE c # Root => ~Compare(k, c, Scope(cmds, c))
      BY <3>1
    <3> QED
      BY <1>1, <3>1, IgnoreCommandKeeps
  <2>2. Leaves(opts, l)
    BY <1>2 DEF IgnoreCommand
  <2>3. k.help = cmds.help /\ k.parent = cmds.parent
    BY <1>1 DEF CommandTables, Ignoring
  <2> HIDE DEF k, base
  <2>4. CommandInv(l) /\ l.help = cmds.help /\ l.parent = cmds.parent
    BY <1>1, <2>1, <2>3 DEF Unless
  <2> QED
    BY <2>2, <2>4, CommandsInPlaceKeep
<1>3. CASE HeedCommand(c, i)
  <2> DEFINE k == [cmds EXCEPT !.flags[c] = @ \ {i}]
  <2>1. CommandInv(k) /\ k.help = cmds.help /\ k.parent = cmds.parent
    BY <1>1, HeedCommandKeeps DEF CommandTables
  <2>2. Leaves(opts, k)
    BY <1>3 DEF HeedCommand
  <2> HIDE DEF k
  <2> QED
    BY <2>1, <2>2, CommandsInPlaceKeep
<1>4. CASE SetDefaults(c, i)
  <2> DEFINE k == [cmds EXCEPT !.defaults[c] = @ \cup {i}]
  <2>1. /\ k \in CommandTables /\ k.parent = cmds.parent /\ k.name = cmds.name
        /\ k.aliases = cmds.aliases /\ k.flags = cmds.flags /\ k.off = cmds.off
        /\ k.not = cmds.not /\ k.made = cmds.made /\ k.muted = cmds.muted
        /\ k.blurred = cmds.blurred /\ k.help = cmds.help
    BY <1>1 DEF CommandTables
  <2>2. Leaves(opts, k)
    BY <1>4 DEF SetDefaults
  <2> HIDE DEF k
  <2>3. CommandInv(k)
    BY <1>1, <2>1, UnreadKeeps
  <2> QED
    BY <2>1, <2>2, <2>3, CommandsInPlaceKeep
<1> QED
  BY <1>2, <1>3, <1>4

LEMMA ExclusionCallsKeep ==
  ASSUME MayCall, NEW c \in Present, NEW d \in Present, c # d,
         ExcludesCommand(c, d) \/ StopExcluding(c, d)
  PROVE  Inv'
<1>1. /\ CommandInv(cmds) /\ cmds \in CommandTables /\ c \in Commands /\ Exists(cmds, c)
      /\ d \in Commands /\ Exists(cmds, d)
  BY DEF MayCall, Inv, SetupInv, CommandInv, Present
<1> DEFINE more == [cmds EXCEPT !.not[c] = @ \cup {d}, !.not[d] = @ \cup {c}]
           less == [cmds EXCEPT !.not[c] = @ \ {d}, !.not[d] = @ \ {c}]
<1>2. /\ CommandInv(more) /\ more.help = cmds.help /\ more.parent = cmds.parent
      /\ CommandInv(less) /\ less.help = cmds.help /\ less.parent = cmds.parent
  BY <1>1, ExcludingKeeps DEF CommandTables
<1>3. \/ Leaves(opts, IF d \in cmds.not[c] THEN cmds ELSE more)
      \/ Leaves(opts, IF d \notin cmds.not[c] THEN cmds ELSE less)
  BY DEF ExcludesCommand, StopExcluding
<1> HIDE DEF more, less
<1>4. Leaves(opts, cmds) \/ Leaves(opts, more) \/ Leaves(opts, less)
  BY <1>3
<1> QED
  BY <1>1, <1>2, <1>4, CommandsInPlaceKeep

LEMMA OptionListKeeps ==
  ASSUME MayCall, NEW a \in Present,
         \/ \E o \in NewOptions, ns \in Declared : AddOption(a, o, ns)
         \/ \E o \in Holding : RemoveOption(a, o)
  PROVE  Inv'
<1>1. SetupInv(opts, cmds) /\ a \in Commands /\ Exists(cmds, a)
  BY DEF MayCall, Inv, Present
<1>2. ASSUME NEW o \in NewOptions, NEW ns \in Declared, AddOption(a, o, ns) PROVE Inv'
  <2>1. o \in Options \ opts.made /\ ns \in SUBSET Names
    BY NewIsNew, NamesAssumption DEF NewOptions
  <2>2. SetupInv(Added(opts, a, o, ns, cmds.defaults[a]), cmds)
    BY <1>1, <2>1, AddingKeeps
  <2> QED
    BY <1>2, <2>2, LeavesKeeps DEF AddOption, MayCall, Inv
<1>3. ASSUME NEW o \in Holding, RemoveOption(a, o) PROVE Inv'
  <2>1. SetupInv(Removed(opts, a, o), Unhelped(cmds, a, o))
    BY <1>1, RemovingKeeps DEF Holding
  <2> QED
    BY <1>3, <2>1, LeavesKeeps DEF RemoveOption, MayCall, Inv
<1> QED
  BY <1>2, <1>3

-----------------------------------------------------------------------------
(* All of it holds after any calls in any order.                            *)
LEMMA InvInit == Init => Inv
<1> SUFFICES ASSUME Init PROVE Inv
  OBVIOUS
<1>1. /\ opts = NoOptions /\ cmds = NoSubcommands /\ calls \in 0..MaxCalls
  BY IdentitiesAssumption DEF Init
<1>2. NoOptions \in OptionTables
  BY DEF NoOptions, OptionTables
<1>3. OptionInv(NoOptions)
  <2>1. \A o \in Options : ~Live(NoOptions, o)
    BY DEF NoOptions, Live
  <2>2. Placed(NoOptions)
    BY <2>1 DEF Placed, NoOptions
  <2> QED
    BY <1>2, <2>1, <2>2 DEF OptionInv, NamesApart, LinksUsable, Mutual
<1>4. NoSubcommands \in CommandTables
  BY DEF NoSubcommands, CommandTables
<1>5. CommandInv(NoSubcommands)
  <2>1. HeardIn(NoSubcommands) = {}
    BY DEF HeardIn, NoSubcommands
  <2>2. Rooted(NoSubcommands)
    BY DEF Rooted, NoSubcommands
  <2>3. Marked(NoSubcommands) /\ Excluded(NoSubcommands)
    BY DEF Marked, Excluded, NoSubcommands, Kinds
  <2> QED
    BY <1>4, <2>1, <2>2, <2>3 DEF CommandInv, Distinct
<1>6. Joint(NoOptions, NoSubcommands)
  BY DEF Joint, NoOptions, NoSubcommands, Live
<1> QED
  BY <1>1, <1>3, <1>5, <1>6 DEF Inv, SetupInv

LEMMA InvNext == Inv /\ [Next]_vars => Inv'
<1> SUFFICES ASSUME Inv, [Next]_vars PROVE Inv'
  OBVIOUS
<1>0. CASE UNCHANGED vars
  BY <1>0 DEF vars, Inv
<1>a. \A S : Asked(S) # {} => Asked(S) = S /\ MayCall
  BY DEF Asked, MayCall
<1>k. "case" \in Kinds
  BY DEF Kinds
<1>1. ASSUME NEW a \in Asked(Present), NEW o \in NewOptions, NEW ns \in Declared \ {{}},
             AddOption(a, o, ns)
      PROVE  Inv'
  BY <1>1, <1>a, OptionListKeeps
<1>2. ASSUME NEW a \in Asked(Present), NEW o \in Holding, RemoveOption(a, o) PROVE Inv'
  BY <1>2, <1>a, OptionListKeeps
<1>3. ASSUME NEW a \in Asked(Present), NEW o \in Holding, NEW n \in NewOptions, RetireOption(a, o, n)
      PROVE  Inv'
  BY <1>3, <1>a, RetireOptionKeeps
<1>4. ASSUME NEW o \in Asked(Holding), NEW x \in Asked(Holding),
             Needs(o, x) \/ Excludes(o, x) \/ StopNeeding(o, x)
      PROVE  Inv'
  BY <1>4, <1>a, <1>k, OptionCallsKeep
<1>5. ASSUME NEW o \in Asked(Holding), NEW i \in Kinds, IgnoreOption(o, i) \/ HeedOption(o, i)
      PROVE  Inv'
  BY <1>5, <1>a, OptionCallsKeep
<1>6. ASSUME NEW i \in Asked(Kinds), SetDefaults(Root, i) PROVE Inv'
  <2>1. Root \in Present
    BY DEF Present, Commands, Exists
  <2> QED
    BY <1>6, <1>a, <2>1, CommandFlagsKeep
<1>7. ASSUME NEW a \in Asked(Present), NEW o \in Holding, NEW c \in Kids(cmds, a), MoveOption(a, c, o)
      PROVE  Inv'
  BY <1>7, <1>a, MoveOptionKeeps
<1>8. ASSUME NEW a \in Asked(Present), NEW o \in NewOptions, NEW ns \in Declared, SetHelp(a, o, ns)
      PROVE  Inv'
  BY <1>8, <1>a, SetHelpKeeps
<1>9. ASSUME NEW o \in Asked(NewOptions), NEW ns \in Declared, SetConfig(o, ns) PROVE Inv'
  BY <1>9, <1>a, SetConfigKeeps
<1>10. ASSUME NEW a \in Asked(Present), NEW c \in NewSubs, NEW n \in Names \cup {Unnamed},
              NEW o \in NewOptions \cup {None}, AddSubcommand(a, c, n, o)
       PROVE  Inv'
  BY <1>10, <1>a, AddSubcommandKeeps
<1>11. ASSUME NEW c \in Asked(Present \ {Root}), RemoveSubcommand(c) PROVE Inv'
  BY <1>11, <1>a, RemoveSubcommandKeeps
<1>12. ASSUME NEW c \in Asked(Present \ {Root}), NEW g \in Asked(Present \ {Root}),
              ~IsGroup(cmds, c), MoveSubcommand(c, g)
       PROVE  Inv'
  BY <1>12, <1>a, MoveSubcommandKeeps
<1>13. ASSUME NEW c \in Asked(Present \ {Root}),
              \/ \E n \in Later : ~IsGroup(cmds, c) /\ Rename(c, n)
              \/ \E n \in Later : Alias(c, n)
              \/ Disable(c) \/ Enable(c)
       PROVE  Inv'
  BY <1>13, <1>a, CommandCallsKeep
<1>14. ASSUME NEW c \in Asked(Present), NEW i \in Kinds, IgnoreCommand(c, i) \/ HeedCommand(c, i)
       PROVE  Inv'
  BY <1>14, <1>a, CommandFlagsKeep
<1>15. ASSUME NEW c \in Asked(Present), NEW d \in Asked(Present), c # d,
              ExcludesCommand(c, d) \/ StopExcluding(c, d)
       PROVE  Inv'
  BY <1>15, <1>a, ExclusionCallsKeep
<1> QED
  BY <1>0, <1>1, <1>2, <1>3, <1>4, <1>5, <1>6, <1>7, <1>8, <1>9, <1>10, <1>11, <1>12,
     <1>13, <1>14, <1>15 DEF Next

LEMMA InvHolds == Spec => []Inv
BY InvInit, InvNext, PTL DEF Spec

(* The tables keep their types, and every counted call is within the bound. *)
THEOREM TypeCorrect == Spec => []TypeOK
<1>1. Inv => TypeOK
  BY DEF Inv, SetupInv, OptionInv, CommandInv, TypeOK
<1> QED
  BY <1>1, InvHolds, PTL

(* Whatever is added, moved, removed or made to ignore case or underscores, *)
(* in whatever order, a name leads to one option of a command at most; what *)
(* came to ignore more away from where it was made apart                    *)
(* (Option::matching_name, App::add_option, _move_option).                  *)
THEOREM OptionsStayApart == Spec => []OptionsApart
<1>1. Inv => OptionsApart
  BY DEF Inv, SetupInv, OptionInv, NamesApart, OptionsApart, Holding
<1> QED
  BY <1>1, InvHolds, PTL

(* And as long as nothing is disabled, to one subcommand of its scope at    *)
(* most, those in option groups included (App::_compare_subcommand_names).  *)
THEOREM CommandsStayApart == Spec => []CommandsApart
<1>1. Inv => CommandsApart
  <2> SUFFICES ASSUME Inv PROVE CommandsApart
    OBVIOUS
  <2>1. Distinct(cmds)
    BY DEF Inv, SetupInv, CommandInv
  <2>2. Heard \subseteq HeardIn(cmds)
    BY DEF Heard, HeardIn, Present, Exists, Commands
  <2> QED
    BY <2>1, <2>2 DEF Distinct, CommandsApart
<1> QED
  BY <1>1, InvHolds, PTL

(* Of two options, or two commands, neither ever rules the other out alone  *)
(* (Option::excludes, App::excludes, remove_excludes, remove_subcommand).   *)
THEOREM ExclusionsStayMutual == Spec => []ExclusionsMutual
<1>1. Inv => ExclusionsMutual
  <2> SUFFICES ASSUME Inv PROVE ExclusionsMutual
    OBVIOUS
  <2>1. Mutual(opts) /\ Excluded(cmds)
    BY DEF Inv, SetupInv, OptionInv, CommandInv
  <2> QED
    BY <2>1 DEF Mutual, Excluded, ExclusionsMutual, Holding, Present
<1> QED
  BY <1>1, InvHolds, PTL

(* No call leaves a link, or the help flag of a command, that leads to an   *)
(* option that is gone from the command both were made in                   *)
(* (App::remove_option, set_help_flag, set_config, remove_subcommand).      *)
THEOREM LinksStayLive == Spec => []LinksLive
<1>1. Inv => LinksLive
  <2> SUFFICES ASSUME Inv PROVE LinksLive
    OBVIOUS
  <2>1. LinksUsable(opts) /\ Joint(opts, cmds)
    BY DEF Inv, SetupInv, OptionInv
  <2> QED
    BY <2>1 DEF LinksUsable, Joint, LinksLive, Holding, Present
<1> QED
  BY <1>1, InvHolds, PTL
=============================================================================
