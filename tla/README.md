# prof-correctness in TLA+

A verification project for this repository: models of the analyzer that decides
whether a profiler told the truth, of the tests and jobs that run it, of the
programs it is run on and of the command line parser one of them carries. TLC
checks the models on small instances, TLAPS proves what matters most for every
value of their constants.

`PROJECT.json` lists for every definition the lines it models, for every run its
properties, for every property a plausible bug that it notices, for every
hazard the properties that would show it, and the theorems.

## 1. The system

A scenario (`scenarios/<name>/`) is a Dockerfile, a program and an
`expected_profile.json`. The harness builds the image, runs the container, which
leaves profiles in a folder, and has the analyzer compare them with the
expectation.

| Component | State it keeps | Operations | What is hard about it |
|---|---|---|---|
| Analyzer driver (`analysis/analysis.go`) | the folder, the stack and file it is at, `processedProfilesMap`, the failed flag | `AnalyzeResults`, `AnalyzePprofFile` | it writes into the folder it reads; every error ends two nested loops differently |
| Reporter and prof-analyze (`analysis/reporter.go`, `cmd/prof-analyze`) | `failed`, the exit status | `Errorf`, `Fatalf`, `Run` | control flow by panic; 0 must be earned |
| Capture (`captureProfData`) | groups of samples per type | group, close a type, write | map order, truncation, percentages before rates |
| Assertions | none | `checkLabels`, percentages, `relDiff` | 0, truncation, rates against absolute values |
| Expectation file | none | `ReadJSONFile` | what is optional |
| Neutral model (`analysis/model.go`) | samples and durations per type | add, `addProfileDuration`, `finalize` | durations of many profiles become one |
| OTLP and pprof adapters | none | `FromOTLP`, `FromPprof` | order of profiles, snapshots |
| Scenario discovery (`findDockerConfigs`) | two remembered paths, the pairs | the callback of one walk | paths remembered across directories |
| Flakiness test | WaitGroup, one slot of results per run | N goroutines, one analysis | defers, panics, shared slice, containers that never end |
| Scenario harness (`testScenarios`) | configs, base images, the tag `test-app` | find, build, run, analyse | one tag for all, fatal and non-fatal failures |
| Sharding and CI (`cmd/list-scenarios`, `test.yml`) | the shards, the jobs | list, cut, emit, dispatch | ends of chunks, regexes made of names, time limits |
| Workloads (`scenarios/`) | a pause, a queue, a barrier, a sleep budget, flags, spans, backlogs | loops and threads of the programs under test | rates and shares an `expected_profile.json` takes for granted depend on scheduling, oversleeping and joins |
| Command line, CLI11 (`scenarios/ddprof_allocations/CLI/CLI11.hpp`) | the words left, per option its results, per command its count, leftovers and subcommands | `App::parse`, `_parse_*`, `_process_*`, `from_config` | recursion over subcommands and option groups, exceptions in the middle, three sources for one option |
| Declarations, CLI11 | the tree of commands, names, needs, excludes | `add_option`, `add_subcommand`, `remove_*`, `move_option`, `ignore_case`, ... | names are compared at every call, each time over another set |
| Conversions, CLI11 | none | `integral_conversion`, `checked_multiply`, `Range`, `Bound`, `AsNumberWithUnit` | widths, signs, the smallest value |
| prof-dump, profiler installation, other scenarios and images | | | straight-line code, downloads |

list-scenarios hands its shards to the workflow's jobs; a job finds its
scenarios, builds, runs and calls `AnalyzeResults`, which users also call through
prof-analyze. The flakiness test does the middle part N times concurrently.
The only shared state between these components is the file system: scenario
folders, the profile folder and the docker daemon's images.

In the container one workload runs. The environment variables of its image, most
often `EXECUTION_TIME_SEC`, say for how long, and the profile it leaves is what
the expectations speak about. simple_malloc takes its options from a command
line, `--timeout`, `--loop`, `--threads`, `--fork`, `--exec` among them, through
a copy of CLI11 that the repository carries and that is by far its largest C++
source.

## 2. The modules

| Module | What it models |
|---|---|
| `ProfileNames` | names of files, the default regex, `captureJSONPath` |
| `Analyzer`, `AnalyzerProperties`, `AnalyzerProofs` | prof-analyze over one folder, run after run; what is checked of it; proofs |
| `Assessment` | the contract the analyzer implements |
| `Discovery`, `DiscoveryProofs` | one walk over the scenarios, and proofs |
| `Flakiness`, `FlakinessProofs` | `TestFlakiness` and its goroutines, and proofs |
| `Sharding` | list-scenarios |
| `Harness`, `HarnessProofs` | the jobs of the workflow (extends `Sharding`), and proofs of both |
| `ProfileSet` | the neutral model and how the adapters fill it (extends `Assertions` for its sums) |
| `Assertions` | what is asserted of the samples of a type |
| `Capture`, `CaptureProofs` | `captureProfData` (extends the two above), and proofs |
| `CliNumbers`, `CliNumbersProofs` | conversions of words to machine integers, and proofs |
| `CliConfig` | the items that the lines of a configuration file become |
| `CliOption` | options: what they may be given, keep and hand to the program |
| `CliApp` | the tree of commands: recognising words, finding options and subcommands |
| `CliParse` | one word, taken by a command, a group, or a command above |
| `CliProcess` | file, environment, callbacks, help, requirements, leftovers |
| `CliRun`, `CliProperties` | `App::parse` from the words to the outcome, twice, and what is checked of it |
| `CliSetup`, `CliSetupProofs` | the calls that declare, link, rename, move and remove options and subcommands, and proofs |
| `Pacing`, `SimpleMalloc` | simple_malloc: the pacing of one thread; forks, threads, statistics |
| `LiveHeap` | ddprof_live_heap: the flag that stops the workers |
| `CpuShares` | ddprof_inline, ddprof_clang_pie, full_host: thirds of the CPU |
| `QueryQueue` | dotnet_wall: two threads at one queue |
| `BusySpans` | node_code_hotspots: timers, immediates, spans |
| `Rendezvous` | python_many_threads: the barrier |
| `HeapBudget` | flaky_ruby_heap: the sleep budget |
| `SelfStop` | python_gunicorn: a server that is asked to stop |
| `Workloads`, `WorkloadProofs` | the programs side by side, one per container, and proofs |
| `MC...` | instances for TLC |

Operators named as mutants in a comment (`LastSlot`, `OnlyHands`, ...) are
the plausible bugs the properties have to notice; no specification uses them.

### Analyzer and Assessment

`input` is what a run is given: flags, expectation, folder, regexes, profiles.
What a profile holds (`readable`, `content`) is decided when it is first looked
at and stays, so a second run meets the same profiles. `pc` follows the code:
`main`, `open` (`ReadJSONFile`), `stack` (a turn of the outer loop), `file` (a
turn of the inner one), `exited`. `Fatalf` is recorded and unwinds to status 1;
any other panic leaves the process with 2. `captures` maps each dump to the
profile it was last written for; a dump written over a profile takes it out of
`profiles`. A walk matches profiles and dumps alike.

`Assessment` knows neither walks nor dumps nor an order: there are duties (a
stack and a profile it speaks about, or a stack without any), each is judged at
most once, and green needs all judged and none bad. `AnalyzerProperties` maps
the loops onto it (`Contract`).

### Discovery

The callback of `filepath.Walk` is four actions, by whether the file is skipped,
waits for its partner, meets one of another directory, or completes a pair.
`jsonFilePath` and `dockerfilePath` outlive a directory as in the code.

### Flakiness

Each goroutine goes through `runTestAppSafe`: its directory, its container,
`output.txt`, its slot of `results` (also from the deferred recover), and
`wg.Done`, which is deferred first and so runs last. `ContainerEnds` belongs to
docker and is external. The sub-tests run one after the other once `wg.Wait`
returns.

### Sharding and Harness

`names`, `i` and `chunks` are those of list-scenarios. `Dispatch` gives each
shard a job on a machine of its own (`DaemonOf`), at most `MaxParallel` at once. In
a job: `Find` (Discovery's result for the shard's regex), `BuildBase`, then per
scenario `Build` or `BuildFails`, `Run`, `RunEnds`, `Analyze`; `Finish`. `tagged`
is what `test-app` stands for on a daemon. `TimesOut` is `go test -timeout 20m`.

### ProfileSet, Assertions and Capture

Floats are exact rationals (`num`/`den`), values are not negative and unbounded.
`FromOTLP` adds one profile of the file, `Finalize` sorts, `FromPprof` does a whole
file. `Group` puts one sample into its group, for any order in which a map may hand out
its labels; `CloseType` makes the percentages and rates. Labels' keys are
numbers in the order of their names, values are sequences of characters, and
`labelsKey` is that of the code with its separators. A missing percentage (a
type whose total is 0) is 0.

### The command line: CliConfig to CliProperties

`Shape` is the program: a tree of commands (`DefaultApp` and what the program
sets), its options (`AddOption`, `AddFlag`, `AddCounter`) and the configuration
files it may meet. `input` fixes it together with the words and the environment.
A word is a record of its dashes, its text and what follows `=`; texts are
sequences of atoms, so that bundled short flags and lists can be split. What a
value converts to is not modelled, only whether it converts or is valid.

Everything `App::parse` changes is in one record `p`, as the parser keeps it in
the fields of its App and Option objects. The C++ recursion of `_parse` is
`p.frames`, one frame per call; all else that recurses (groups, fallthrough,
requirements) is a recursive operator, and a function that returns whether it
took the word returns a pair of the new `p` and that Boolean. An exception is
`p.error`: every operator leaves `p` alone once it is set, and what was changed
before stays changed. `CliRun` has one action per turn of the loop of `_parse`
(by class of word, as in `_parse_single`), two for its end, and one per step of
`_process` and `_process_extras`. After the first outcome `ParseAgain` has the
same App parse the same words again.

The model was compared with the compiled header: on 24 954 inputs (programs,
command lines, files, environments) the error, results, counts, leftovers and
callbacks were the same.

### CliSetup

The state is the tree, the options of each command with their names, what each
ignores and their links; `calls` counts the calls. Each action is one call, with
the comparisons the code makes, and where it throws, what it has done by then
stays. Five histories say what later calls may no longer rely on: `moved`
(options that changed hands), `astray` (options that came to ignore case or
underscores after that: the code compares them with those of the command they
were made in), `stripped` (options that a command which does not hold them was
asked to remove), `muted` (commands that were ever disabled, which are not
compared meanwhile) and `blurred` (commands that ever ignored both case and
underscores). The properties except exactly these, and say why; each is a way
to break the property with legal calls. An option group that refuses a
subcommand has already taken it from its parent, so that it is lost; that takes
six calls and is not reached with five.

### CliNumbers

Sizes of types are parameters, so that the theorems hold for every width; a word
is the integer it spells. `strtoll` and `strtoull` are external.

### Workloads

`Workloads` chooses a program and lets it run alone, as a container does; the
variables of the others keep their initial values (`Only`). Times are integers
in a unit the module names. External are the timers and immediates of Node,
gunicorn's sync worker, Python's `Barrier`, the operating system's scheduler,
how long work takes and how long a sleep oversleeps: choices from the constants'
sets.

- `Pacing`: `Turn` is one turn of the loop of `do_lot_of_allocations` with the
  evaluation when one is due, divisions as C++ rounds them. `Change` is the
  machine getting faster or slower.
- `SimpleMalloc`: a process forks the next; then it execs or starts its
  threads, does its own share, joins and prints. fork, exec and the start of a
  thread may fail; `--threads 0` writes past an empty vector, which ends well
  or aborts.
- `LiveHeap`: `Test` and `TakeTurn` are two steps, so that the flag can change
  between them.
- `CpuShares`: a round of `intensiveTask` and `foo`, which share a second by
  the clock, or a pair of `a` and `b`, which share it by their loop counts.
- `QueryQueue`: time advances to the next thread that is ready.
- `BusySpans`: a single thread; the queue of timers is in the order they come due.
- `Rendezvous`: the main thread starts the workers, then the profiler, and is a
  party itself.
- `HeapBudget`: one action per loop, which reads the clock, works and sleeps.
- `SelfStop`: the server works through its backlog whether or not anybody still
  waits for the answer.

## 3. Runs

| Run | Question | Bounds |
|---|---|---|
| `analyzer` | does the exit status say what the profiles deserve, over two runs on one folder; are profiles safe from dumps, and dumps from being profiles; is each profile dumped once; does every run exit; does the analyzer implement `Assessment` | two stacks, two runs, folders of two and three profiles with names of both families, an OTLP JSON file whose dump needs the guard, patterns `otlp` and `any` |
| `analyzer_loose` | is green still earned when a custom regex matches dumps, and when two profiles share a dump name | the same, with a pattern that matches every `.json` |
| `discovery` | are exactly the complete scenarios found, once, and only the incomplete blamed | all flat trees of four directories and all selections |
| `flakiness` | is everybody waited for, kept apart, counted once; does the test end if its containers do | three runs, directory names for all of them |
| `harness` | is every complete scenario run once, from its own image, and does all green mean that each passed; does every job end although a container may not | four directories, shards of two, three listings, three ways to be incomplete, a base image that two scenarios share |
| `capture` | are durations aggregate rates, groups complete and unique, rates grouped before they are truncated, and does a dump hold of its own profile | files of up to two out of eight OTLP profiles, in any order, and two pprof files; snapshots, empty and all-zero profiles, labels to keep and to ignore |
| `cli` | is no word lost, taken twice or out of order; has each option one source; do sections nest; does success mean that all requirements hold; does help win; do callbacks come once and in turn; does a second parse see nothing of the first; does every turn make progress | fifteen programs, all their command lines of up to three words (two for one of them), with and without a value in the environment; one more with every configuration file of up to three lines out of nine |
| `cli_setup` | can no name mean two options or two subcommands; are exclusions mutual; do links name options that exist | three subcommands, two options, three spellings of one name, five calls |
| `workloads` | are rates kept under changing load, statistics complete, barriers and stop flags sound, shares as expected; does every program end | see below |
| `every_profile_has_its_dump`, `cli_hang`, `cli_own_name` | disagreements, see below | |

Two stacks and two runs are enough for the analyzer: a stack meets the dumps of
the one before it, a run those of the run before, and a third would meet no name
it has not met. Three directories suffice for a Dockerfile to be remembered from
one, across another, into a third; there are four. Three goroutines show each
order of two against one. Two profiles of one type give two durations to
aggregate, two labels two map orders. The label values of `capture` are free of
separators.

The programs of `cli` are simple_malloc's kind of options (with and without
`prefix_command`, which it uses for the program it execs), unlimited and bounded
positionals, subcommands in and outside an option group with every combination
of fallthrough, extras and limits that the parser treats differently, needs and
excludes, triggered and multi-valued options, and configuration files in all
four modes. Three words let an option be given, its value be something else's
name, and one thing follow. In `cli_setup` five calls make two owners, two
options and one link or move, or three nested subcommands and a rename.

In `workloads` times are scaled down and ratios kept: an allocation every 30
units, evaluated every second turn, loads of 3 and 90 (one that the pause makes
up for, one that nothing does), at most two changes and four evaluations under a
hopeless load, after which 17 evaluations reach the target (16 do not, from the
lowest pause that may be left); chains of up to three processes and groups of
up to three threads; three workers and a clock of two seconds; five rounds with stalls of 0
and 40 ms; the two kinds of query twice each with another kind between them;
three parties and the main thread at the barrier; six loops with work of less
and more than a loop's time; three requests before `/stop`. Each program has
finished, and its interesting case has happened, well within these.

Deadlock is checked in `cli`, where the end of a parse is a step; elsewhere it
is not: the programs end.

Three runs show a disagreement between the code and what its documentation says:

- `every_profile_has_its_dump`: the README says that the data "is captured at
  every run in the matching folder"; `profile.7.0` and `profile.7.1` share
  `profile.7.json`.
- `cli_hang`: in a program with an option group, an empty word followed by an
  unknown option leaves `parse` in its loop for ever. `_parse_single` does not
  look at whether `_parse_arg` took the word (CLI11.hpp:7788), although the
  comment above it says "return false if the parse has failed and needs to
  return to parent" (7761-7762) and another names the aim "to prevent infinite
  loop" (7231). The run shows it as a loop of `_parse` that has more turns than
  the program has commands and still the same words; simple_malloc has no option
  group and is not affected.
- `cli_own_name`: a subcommand that ignores case and underscores should be found
  by its name "case insensitive and underscore insensitive" (7080); `check_name`
  lowers the name as given, not the one without underscores (7088), so a name
  with an underscore is not found by any spelling.

### Other disagreements

The models contain this behaviour, but no run of its own states it.

- `allow_first_profile_failure`: the comment says "Allow failure for the first
  profile if the setting is enabled" (`analysis/analysis.go:709`); a first
  profile that cannot be read or lacks the sample type still ends the run.
- prof-analyze documents 2 as "usage error (missing/invalid flags)"
  (`cmd/prof-analyze/main.go:10`); a `pprof-regex` that does not compile panics
  and also exits with 2.
- Samples are to be grouped "by (stack, kept-labels)"
  (`analysis/analysis.go:272`); the values `x`, `y` and the one value `x,y` have
  the same key (250).
- The comment on the field says that a value is a rate when the profile has a
  duration (`analysis/analysis.go:121`); without `scale_by_duration` the
  analysis takes it as absolute (652), and the dump holds rates and leaves that
  setting unset.
- `full_host` documents 100 and 200 million iterations and runs 500 and 1000;
  the ratio is the same.
- `flaky_ruby_heap` calls `toss_order.shuffle` (main.rb:153), which changes
  nothing.

Options no scenario gives divide by zero in simple_malloc (`--alloc-per-sec 0`,
or both sizes 0); `execvp` gets an array without a terminating null (252).
An option group that refuses a subcommand it is handed loses it
(CLI11.hpp:8351), a `[default]` header leaves sections open (8715), a subcommand
with a parse-complete callback that is met again adds words to what the
environment gave (7639), and a `--` after an unlimited list is eaten (8156).
`CliSetup`, `CliConfig`, `CliProcess` and `CliParse` have these steps, and the
properties they touch name them as exceptions.

### Fairness

`EveryRunExits` needs weak fairness of the analyzer's steps: a sequential
process runs. `SummaryEventually` needs weak fairness of the test and of each
goroutine, which the Go scheduler gives; it assumes of the containers, in the
property itself, that they end, because `docker run` has no timeout. (`go test`
itself kills a test after ten minutes by default; that is an end without a
summary and not modelled there.) `JobsEnd` needs weak fairness of the runners'
work and of the workflow's `-timeout 20m` (`TimesOut`), none of the
containers'.

`WorkloadsEnd` needs weak fairness of the running program: clocks advance,
sleeps end, and some thread that can go on does. That is enough for all whose
steps are finitely many. In `LiveHeap` workers can turn for ever while the main
thread is never scheduled, so the main thread and each worker have weak fairness
of their own, as the threads of an operating system do. simple_malloc without
`--timeout` and `--loop` is exempt, as it is meant to run until killed. A main
thread of python_many_threads that raised counts as ended; its container does
not end then.

## 4. Proofs

Each theorem holds for every value of the constants that satisfies the named
assumptions of its modules. Most of these only give constants their types. The
others are: `Leq` tells names apart (`AnalyzerAssumption`; `sort.Strings` does),
no profile has the empty name (`NoFileAssumption`), lowering a name and taking
out its underscores commute (`NamesAssumption` of `CliSetup`), a listing names
each directory once and among those there are (`ShardingAssumption`,
`HarnessAssumption`; it comes from reading one directory), the profiles of one
pprof file have one duration (`ProfileSetAssumption`), and the suggested margin
is at least one percent (`CaptureAssumption`; a dump suggests one). Where a
theorem needs more, the hypothesis is in its statement.

- `AnalyzerProofs`. `Walk` is the invariant of the two loops: the stacks and
  files behind them were all usable (`Behind`, `Gone`), and a failure is
  recorded exactly when one of them objects (`Recorded`). It holds for names of
  any kind, and gives `ZeroMeansVerified`, with `Dumped` also `DumpedOnce`. With
  `NamesApart`, which says that no dump is named like a profile and no custom
  regex matches one, the folder is the profiles and their dumps and only
  profiles are matched (`Apart`); that is `ProfilesIntact` and
  `OnlyProfilesMatched`. `Settling` says that a run ends with a status the
  scenario has earned (`Earned`), and one scenario earns one (`OneIsEarned`):
  so `OneHasAReason` and `RerunAgrees`. `AnalyzerAssesses` proves the refinement:
  each step judges one open duty, concludes, breaks off, starts again, or
  stutters.
- `DiscoveryProofs`, for walks of flat trees (`AllFlat`): a Dockerfile whose
  directory the walk has not left is the one remembered, and a json that is
  still remembered has no Dockerfile anywhere. Without these two
  `FindsTheComplete` is not inductive.
- `FlakinessProofs`: the WaitGroup counts the goroutines that are not done
  (`Counted`), where a goroutine is tells what it has (`Local`), directories are
  its own (`Distinct`), and what is counted adds up (`Tallied`).
- `HarnessProofs`: `ShardInv` for the cutting of shards, `JobInv` for the jobs:
  a scenario owns the tag from its build to its analysis (`Imaged`), one that was
  found is still to do, or passed, or the job will be red (`Owed`), and one that
  was analysed is no longer to do (`Judged`). `RunsOnce` needs that a name, put
  into a regex as it is, selects its own directory only (`SelectsItself`);
  the other three need nothing.
- `CaptureProofs`, for any profiles in any order and any number. Loading: types
  are listed once and have samples (`WellSet`), and a type's duration is the sum of the
  rates of the profiles it came from, over one common denominator
  (`Aggregated`); that is `AggregateRate` (`DurationsAggregate`), which asks
  nothing more. Capturing: the samples seen so far are grouped and summed, those
  of each group and all of them (`Collected`), and of the types that are closed each
  entry has the rate and the percentage of the samples it stands for
  (`Valued`). Labels have exactly one order of their keys (`SortByKeySorts`,
  `OneOrder`), so the order of a map does not matter. This gives
  `OneEntryPerGroup` (`GroupsStayWhole`), `RatesAreGrouped` (`LowCountsSurvive`)
  and `RoundTrip` (`DumpsBootstrap`, with `RateRoundTrip` for the truncation and
  `PercentInRange`), provided that labelsKey tells different labels apart
  (`LabelsTellApart`), which it does not for values with separators in them. The
  run checks that its instance is so (`KeysDiffer`). Sums, products and lists of
  profiles are recursive functions. The prover has no induction over data, so a
  fold is shown to exist for every length (`FoldsExist`) and what is said of it
  to have no least counterexample.
- `CliNumbersProofs`: a conversion to a type narrower than 64 bits takes a number
  exactly if the type has it (`NarrowUnsignedExact`, `NarrowSignedExact`), the
  unsigned 64-bit one takes them all (`WideUnsignedTakesAll`), and
  `checked_multiply` refuses exactly the products that overflow
  (`MultiplyExact`, `ScalingExact`). No run has these as a property: a state
  machine would add nothing to a function. `MCCliSetup` evaluates the same
  statements on types of a few bits.
- `CliSetupProofs`: `OptionInv` and `CommandInv` speak of tables rather than
  states, so that they can be followed from operator to operator of one call,
  and a joint part ties the two. An option is placed where it was made until it
  is moved (`Placed`), links name options that are usable (`LinksUsable`) and
  exclusions are mutual (`Mutual`); a command that is there was made in one that
  still is, and a group is never in another (`Rooted`); histories remember what
  they should (`Marked`); names in one scope are apart (`Distinct`). The key
  lemma is that heeding more answers to less: an option or command that passed a
  comparison when it ignored more still passes.
- `WorkloadProofs`, for any number of processes, threads, workers, parties and
  rounds, and any times. A step of one program leaves the others' variables
  alone (`OneProgramSteps`), so each has an invariant of its own. `MallocInv`:
  what a process has joined and printed is filled, line by line, and no later
  process has begun before the one that forks it. `ManyInv`: whoever passed the
  barrier did so after all its parties arrived, which is a fact about
  cardinalities. `LiveInv`: after the flag is cleared a worker ends the turn it
  had tested for and no other. `HeapInv`: the clock, the budget and the time in
  no budget add up to the loops done. `PaceInv`: an evaluation sees at least the
  pauses it corrects, so a pause above the ceiling would have made the measured
  time exceed the target. `SettleInv`: what an evaluation measures are turns of one
  cost (`Measured`); an evaluation under a load too high takes the pause at most
  one `Drop` below 0, and there are at most `MaxSlow` of them; since the load
  last changed the pauses are those of one recursive function, `After`
  (`OnCourse`); and a pause that is near the target stays so (`NearStays`). So
  `PaceHolds` holds (`PaceIsKept`) of every `SettlesIn` that is enough from any
  pause that may be left then (`SettlesSoon`, a formula about the constants
  alone); the run checks that its instance is so (`PaceSettles`). `CpuInv`, `QueryInv` and `SpansInv` give `SharesHold`, as long
  as clocks stay within the margins of the expected profiles (`SteadyClock`) and
  four queries of small delay are queued (`FourQueries`); the run checks that its
  instance is so (`WithinMargins`).

Only model-checked:

- the liveness properties `EveryRunExits`, `SummaryEventually`, `JobsEnd` and
  `WorkloadsEnd`: the prover has no rules for ENABLED and fairness;
- the properties of the command line parser: its functions are recursive, as the
  code's are.

## 5. Not modelled

- the format dispatch of `LoadProfileSet`: whether bytes of one format parse in
  another is up to the decoders, which are libraries;
- `value-matching-sum`, margins per stack content, the width of int64 and the
  rounding of floats, the rules of `Validate`;
- the label adapters, which make one expectation mean the same for pprof and
  OTLP;
- profiler installation and its fallback chain;
- of CLI11: formatting help and errors, writing configuration files, the lexing of
  their lines, Windows style options, deprecated calls, and conversions to
  strings, enumerations, containers and floating point. Setters that only store a
  value are parts of `DefaultApp` and of the options' records;
- of the workloads: what they allocate or compute, signed overflow in the loops
  of clang_pie and full_host (undefined; their iteration counts are what
  `CpuShares` has), and the flask server, which stops as the gunicorn one does;
- prof-dump, which prints what it loaded; image recipes, straight-line workloads,
  protobuf decoding, decompression (a failure of either is a profile that cannot
  be read), wording and layout of logs.
