# A specification of rudb-compat

rudb-compat measures how compatible rudb is with DuckDB. It runs DuckDB's own
test corpus, and statements of its own, against both engines, and publishes
numbers. What can be wrong with such a program is mostly not a crash: it is a
number that is quietly about something else. A record that passes for a reason
the file was written to rule out, a file that is counted twice or not at all, a
run over half a corpus, a merged page that misses a part, a "minimal" case that
is another bug than the one it was found in. The specifications here are about
those, and every one is written from the Rust source (and from `scripts/shard`).

Line numbers are of the commit this was written against; `PROJECT.json` maps
each definition to the lines it stands for.

## 1. The system

| component | state it keeps | operations | talks to | module |
|---|---|---|---|---|
| conformance runner, `conform.rs` | a `Summary` of counters; per file the mode depth, the labels, the settings, the paths loaded; an engine shared by every file | `run_file_telling`, one arm per directive; `check`; `runnable` | calls an `Engine` (`run`, `reset`, `reconnect`), reads `slt.rs` records, is read by `sweep`, `spend`, `oracles`, `kinds`, `report` | `ConformVerdict`, `ConformRun` |
| isolated run, `isolate.rs` | the list of running children, the results by file | `run_corpus`, `spawn`, `poll`, `kill`, `take`, `absorb`; `encode_run`, `decode` | a process per file, over pipes and files in the temporary directory | `Isolate`, `CorpusRun`, `Wire` |
| shell session, `shell.rs` | history, settings, the database file, whether it is on it | `run`, `accepts`, `reset`, `leave_the_file`, `drop` | a shell process per statement | `ShellSession`, `LiveSession` |
| corpus checkout, `vendor.rs` | a directory under `target`, in a clone of its own | `checkout`, `own`, `commit`, `filled` | git, the upstream branch, whatever caches `target` | `Checkout` |
| sharded run, `shard.rs`, `main.rs`, `scripts/shard` | a checkout and `target/shard.out` per machine, the runs in the background | the script's three loops, `slt --shard --out`, `merge` | machines over ssh; `isolate` for the slice, `vendor` for the list | `ShardedRun`, `Wire` |
| reducer, `reduce.rs`, `ask.rs`, `main.rs` | the best statement, the failure kept alive, the distinct cases | `shrink`, `cuts`, `Alive`, `Distinct`, `triage`, `ask` | both engines at once, rudb in the process | `Triage`, `Cuts`, `Reducer` |
| reader, `slt.rs` | none: text to records | blocks, loops, includes, conditions, `continue` | gives `conform` its records | `Reader` |
| comparison, `compare.rs` | none | outcomes to differences, sorted or in order | `ask`, `bisect`, `suite`, `oracles`, `tlp` | `Compare` |
| second oracle, `oracles.rs` | verdict counts, splits | two runs of one file, paired by record | `conform` twice | `SecondOracle` |
| sweep, bisect, `sweep.rs`, `bisect.rs` | a run per optimizer pass; which passes are off | the whole corpus, or one statement, per pass | `conform`, an engine's settings | `Sweep`, `Bisect` |
| costs, `spend.rs`, `cost.rs`, `resource.rs` | usages by record | passes, middles, pairing, cutting a benchmark down | sessions on files, processes that report what they cost | `Spend`, `Benchmarks`, `Resource` |
| timed list, `suite.rs` | a report | `run`, `repeat`, `run_parse` | both engines | `Suite` |
| coverage, `coverage.rs`, `functions.rs`, `kinds.rs` | scores by name, counts by kind | `score`, `coverage`, `charge`, `absorb` | both engines; `conform`'s records | `Coverage`, `Kinds` |
| metamorphic, `tlp.rs`, `norec.rs`, `predicate.rs` | findings | one engine asked twice for what has to agree | one engine, its optimizer setting | `Metamorphic`, `Predicates` |
| published page, `report.rs` | the books (append-only tables), the pages, the series | rows appended by sweeps and cost runs; `latest`, `page`, `record` | other commands on other machines through the directory | `Pages` |
| drivers, `rudb.rs`, `duckdb.rs` | a database and its connections; three temporary files per call | `run`, `reset`, `reconnect`, `accepts` | the engines | `RudbDriver`, `DuckdbDriver` |
| `cutoff.rs`, `grammar.rs`, `sqlsmith.rs`, `queries.rs`, `replay.rs` | none that outlives a call | `check`, generators | `isolate`'s result; a parser | not modelled |
| readers of output, levels, other scripts | none worth modelling | parse and format | | not modelled |

`PROJECT.json` lists every part with what is modelled of it, or why not.

What makes each of them hard, and is listed there as a hazard at its line:

* **Interleaving.** Children end between two looks of the parent; the list they
  are in is swept while it is removed from; machines keep on running after the
  script that started them left.
* **Partial failure and restart.** A fetch stops in the middle; a cache restores
  a directory without its files; a spawn, a removal, a seed or a reset fails in
  the middle of a file.
* **Stale state.** One engine for every file and for every candidate of a
  reduction; files an earlier call left; a branch that moves between machines;
  optimizer passes a statement or a panic left turned off.
* **Protocol.** What a sequence of directives does to the database a record is
  judged on; what a session must replay, in which order, to stand for an engine
  that never went away.
* **Bookkeeping.** Every record on exactly one counter, though it may be run,
  skipped alone, or skipped with the rest of its file by a function that has to
  agree with the loop; a number on a page that is about what it says it is about,
  after two runs of two engines were paired, divided, cut and appended to a book.

## 2. The modules

### ConformVerdict and ConformRun

`ConformVerdict` is `check` with what it calls: what one record is worth given
what the engine said, the lists of errors that are ignored or never accepted,
and the labels. A result is one value and a width, an error a class and a word
of its text; that is all the verdicts tell apart. How a value is rendered and
what tolerance a number has is left out.

`ConformRun` is `run_file_telling`. `at` is the loop's record; `skipping`,
`labels`, `loaded` and `settings` are its locals; `tally` is the `Summary`, with
a row per counter; `told` is what it tells the second oracle. There is one action
for each arm of the loop and for each way the arm may leave it (`Seed` and
`EndAtSeed`, `Load` and `EndAtLoad`), and `Break` for the `?` behind every call
of the engine. `SkipWhole` is the `require` lines read ahead. Two histories ride
along: `row`, the counter each record went on, and `held`, `disk` and `open`,
which compare the database the engine really has with the one upstream's runner
would have, statement by statement.

* `TallyCountsRecords`: every counter is the number of records on its row, which
  relates the loop to `runnable`, the function that counts a skipped rest.
* `NothingVanishes`: a finished run has put every SQL record before a `halt` on a
  counter. The README of the program says that several hundred files were once
  on none.
* `OrderlyFileIsJudgedFairly`: in a file that spells each of its paths in one
  way and has no `statement maybe`, no record is judged on a database with other
  statements in it than the file meant. This is what the rules about `load`,
  `restart` and `reconnect` are for.
* `ModeSkipBrackets`, `LabelledQueriesAgree`, `InternalErrorNeverPasses`: what
  passes inside brackets, under one label, and against an error.

Where the code differs from its words, and an orderly file is defined not to meet
it: `{TEST_DIR}/a` and `{TEMP_DIR}/a` are one file on disk and two to `effect`,
which compares what was written (conform.rs:1136 against 1266-1268), so a second
load under the other name empties a database the file meant to keep. The comment at conform.rs:1131 says a `load` with
no path makes a later `restart` a wipe; 1144 asks whether *any* load named a path,
so the file ends instead (its records go on the engine's gap, no verdict is
wrong). A `statement maybe` is set aside without being run (848), so what it
would have done to the database is missing later, which is why orderly files
have none; upstream runs it. And `runnable` counts a skipped `maybe` and a
`skipif` record (1186) that the loop would have put on other rows.

### Isolate and CorpusRun

`Isolate` is `run_corpus` with its children as the environment: `child` is where
each process is (not started, alive, exited, reaped), `running` the vector that
`swap_remove` is done on, `done` the slots. A `poll` is two steps, `SeeAlive`
and what follows, because the process runs between `try_wait` and the kill.
`SpawnFails` and `WaitFails` are the errors of 314 and 403. Time is a tick of
half a second, the least the code waits before asking about memory.

`CorpusRun` is what is promised: each file is heard once, and a page has a result
for each file. `KeepsPromise` is the refinement, with `done` as `answer` and
`total` as `page`. `HeldOrHeard` is the one a wrong removal breaks; `FinishedIsHeard`
says the only finished child whose words are thrown away is one that ended between the
two halves of one look. Output that is not UTF-8 reads as none (isolate.rs:435) and is
not told from silence here.
`NothingLeftBehind` excludes exactly what `SpawnFails` and `WaitFails` leave.

Liveness: `RunEnds`. `WF_vars(Parent)` is the loop, which never blocks but in
`kill`/`wait` and in `ps`; `WF_vars(Tick)` is the clock. Nothing is assumed of a
child: it may hang for ever, and it is the deadline that ends it. That `wait`
after a `SIGKILL` returns, and that `ps` does, is assumed, and nothing in the
code bounds them.

### ShellSession and LiveSession

A `Session` promises an engine that stays up over a process per statement.
`ShellSession` has its fields and the directory on disk. What a statement leaves
is a *mark*, its text and its turn, so two states are equal exactly when the same
statements made them; `Run` puts a statement on what the settings, the file, or
the whole replayed history build. A statement can fail, print something that
cannot be read, or (`Torn`) fail having left something.

`StaysUp` is the refinement of `LiveSession`, where every statement runs on what
all the others left. It holds of statements whose words say what they leave
(`Plain`), which is an assumption on the data: `session_printing` shows what a
statement that prints rows *and* changes the file does to it.
`HistoryHoldsTheFile` is the reason a fallback is sound, `NothingLeftOnDisk` is
about the directories. `StaysUp` compares sets of marks, so the order of what is put
in front is a theorem of its own, `ReplaysInOrder`. A statement that fails having left
something is run in the model, and nothing is promised of it. Two things are left out: a `USE` prints nothing and is no setting, so on a file it is
forgotten; and the usage that `usage()` answers.

### Checkout

One checkout and the runs that use it, one after the other. `git` is what git
finds at the directory, `held` how much of each part is there, `from` the commit
those files came from. `Look`, `LookAgain`, `Sparse...`, `Remove...`, `Clone`
and `CheckLayout` are the branches of `checkout`; removing and filling are one
step per part so that a kill may come between. `RestoreCache` is what
vendor.rs:216 describes; `MoveBranch` is the upstream branch, which main.rs:866
calls one that moves. Two runs at once on one directory are left out: the code
has no lock and promises nothing.

`NothingMeasuredAsZero`: no run is given a part with nothing in it.
`OuterIntact`: git walks up, and the sparse checkout must never be put to the
repository around. `StampIsTheCorpus`: the commit a run names is the one its
files came from. `checkout_half` refutes what the comment at 117 is after, that
no corpus is a part of one: a fetch that stops in the middle of its last part is
taken for a checkout from then on. The error at the end of `tests` (85-92) is
proved unreachable: `Filled` has always been asked before.

### ShardedRun

`scripts/shard` called any number of times, over machines with a checkout and a
`target/shard.out` each. `job` is where each background run is, so a call that
left early leaves its runs going; with `Quiet` a call waits for those of an
earlier one. `Slice` is `Shard::keep`; `Foldable` is what `merge` refuses, and
`Folded` what it adds up. A stamp is true or unknown, which is what `Checkout`
shows, and a slice has one result per file, which is what `CorpusRun` says.

`MergedIsWhole`: what `merge` prints has every file of one commit once. It holds
when calls wait for each other, and `sharded_leftover` shows why they must: the
files carry their `k/n` and `merge` does not read it. `RefusedForAReason`: it
refuses only shards of two commits, or of one it cannot name, although every
machine fetches by itself and the branch moves.

### Triage, Cuts, Reducer

`Triage` is `reduce --file`: a statement is put to both engines (`Agree`,
`Differ`), reduced (`Pass`, `GiveUp`, `Keep`, `Drop`, `NothingLeftToCut`,
`Tidy`), and counted (`Add`). DuckDB is a process per statement; rudb is one
database for the run, so `behind` says whether something was left in it, until a
panic resets it. What the parser, the cuts and the engines do are operator
constants. `Cuts` is the list of cuts itself, over statements as sequences of
words: clauses, groups, runs of tokens, items, literals, in that order. Each cut is
two places of the statement and what is put between them, where the code has two
offsets into its text. `Reducer` is the one with the other for its cuts; what the
parser takes and how the engines answer stay open there.

* `CaseReproduces`: a case fails, on two engines that were asked nothing before,
  in one of the ways the statement it was found in does. It holds of the
  reductions no leftover was seen in (`clean`), and not of the others: with the
  library driver the statements of a file see each other's leftovers on one side.
* `MinimumOrSaysSo` and `NoTokenToSpare`: a reduction that does not say it gave
  up has no cut left that still fails, and no single token to spare. The second is
  about both modules: the runs of tokens must halve down to one (reduce.rs:473), and
  the reducer must have tried them all on the statement it ends with.
* `EveryStatementCountedOnce`: agreed or under one case, one case per text.

`triage_signatures`: a case's signatures are those of the unreduced statement.
Left as notes: the last candidate, the tidied one, is asked past the budget, so
`tried` can be one more than it; and nothing stops a statement that does not come
back in the library, so no liveness is claimed.

### Reader

A file is put together from chunks (`WriteChunk`) and read (`ReadFile`). Reading
is the code's functions one to one: `Block` and `One`, where a statement and a
result block end, `resolve` and `substitute` when a loop is expanded, `Include`
with its limit. Loops are expanded inside out while the file is read, and the
property says that this is the same as interpreting the file from the top with
the variables of the loops around each line: `ExpansionIsTheProgram`. The run has
loops around an include and not inside the included file.

It is claimed of files whose `loop` and `endloop` are read as such, and whose
conditions name a variable of a loop around them. Both exclude something the code
does: a result block runs to an empty line, and an `endloop` right behind it is
part of the result; and a `continue` asked of an *outer* loop's variable inside
an inner loop is only settled when the outer one is expanded, and then ends the
outer turn and not the inner one. `substitute` also leaves the text of a
`statement maybe`, a connection's name, a label and a load's path alone.

### Wire and Kinds

`Wire` is one of the works of `Tools`. It is what a child prints and its parent
reads (`encode_run`, `decode`), what a machine writes and `merge` reads
(`decode_run`), and what is added up. Words are sequences of characters out of the
ones that are escaped and two that are not. A child may have printed other lines in
between; the file of a shard may be cut at *any* character. `WireKeepsTheRun` is
what the crash costs: never a count that is larger, never a failure that was not
there. A whole text is read back as it was written but for the time a child ran until
it was stopped, which is a `Duration` and is written in whole seconds (`as_secs` at
isolate.rs:507, `from_secs` at 624): the model has it in milliseconds, `StopText` cuts
it down, and the property has the run in seconds (`InSeconds`). A digit cut from a
number makes it smaller, and an escape cut in two is another word, which is why nothing
stronger holds. Text is written and read by
recursive functions, one character or one line at a time as the code's loops are,
and a summary is any value of the shape `IsRun`. `Kinds` is what `conform` charges
to a statement kind and how two runs' kinds are put together, which `SumIsOfTheRuns`
checks across the wire: supported is passed somewhere and failed nowhere, a rate of
a hundred has nothing failing.

### Metamorphic and Predicates

`Predicates` has every shape predicate.rs can write down to a depth, with the
three values of SQL over a row; the seeded choice of one is a choice of any.
`Metamorphic` is the four forms: the rows of the three partitions as a bag, an
aggregate folded back from them, groups, and norec's count against a select list.
An engine has at most one thing wrong with it: a rewrite that keeps a row the
predicate does not, a filter that does, an evaluator that loses one, or types that
depend on what was there. `OraclesBlameTheGuilty` is the soundness of the method and
that its verdict with the passes off points to the right half.

### Spend, Benchmarks, Resource

`Resource` is the middle of a list, the ratio, the quantiles and the report by
group. `Spend` is the corpus through one engine in several passes and then through
the other; a pass has a number for a record or none, and one for each turn of a
loop. `Benchmarks` is one benchmark after another: skipped, cut down, its load and
then its query measured on both engines, or refused by one of them.
`SpendsPair` and `BenchmarksAreFair` relate the published number to the runs behind
it. `Spends.unmeasured` (never increased, though printed) and records under the
floor are as in the code: `per_file` and `per_group` ask for enough records before
the ones under the floor are dropped (spend.rs:69-73), so a row may stand for fewer,
and the property says "one at least"; `worst` lists them too.
A size written in scientific notation, or as a product, is not one the code cuts
(cost.rs:30), and is not in the model's texts.

### Coverage

The catalog of functions is read, a row is skipped for the first reason it has or
gets its calls, both engines are asked each of them, and an engine that panics is
reset before it is asked the next. Up to two calls of a run are in trouble, wherever
they are. `PassedIsEarned` goes through rows, names and the whole, in that order,
and checks the calls themselves: every edge, a NULL and a wrong type in each
position. One thing is not claimed and not so: a scalar row whose varargs have an
unknown type is called without them, and is neither untested nor in the list of
unknown types.

### Pages

The books are tables that commands append to, on whichever machine they run. `open`
is a book whose last write did not reach its newline. `LookForBook` and `AppendRows`
are two steps, because two commands may both find no book and both write a header;
the engine may be rebuilt and the clock may stay in one second. `ReadBooks` and
`WritePage` are a report.

A write may stop anywhere: in a line or in front of its newline (`TearRows`), behind
the newline of a line or before it began (`StopRows`). `Cut` has the places in a line
that a reader can tell apart, because `parse` looks at the number of fields and at the
numbers and at nothing else: inside the last field, where what is left may be a smaller
number; inside the first field, a *stub*, which has no tab yet; and anywhere else.
Nothing ends a cut line but the next write, which goes on in it (`Glued`). Behind a
line that was cut in the middle the next row has too many fields and is dropped with
it. Behind a stub it has the right number, and is a row like any other but for its
stamp, which is the stub and the run's own stamp in one (`behind`). And a row that was
cut in its last field is lengthened by a stub of digits, a beginning of the year. Two
lines that were cut in middle fields, one behind the other, can have the right number
of fields as well, but then words stand where the numbers are: the scope and the name of
a row are moved along with the rest. That these are all the cases is not checked but
read off the columns (report.rs:84-215), where a name is taken to be no number, and
off `stamp`, whose texts are all of one length, so that one with something in front of
it is no other.

`PageCarriesOneRun` is exact in a book no write was cut off in, and says what is left
to be relied on in one where it was: rows of one run in their order, never rows of two,
and the totals of the run if its own write was not the one cut off. A page can carry a
run nobody measured in one way: a row behind a stub is the last of its book, `latest`
takes its stamp for the run, and the page has that one row under a stamp no run has;
the property says that it takes a write cut off before, and that it is one row. The
comments at report.rs:391 and 539, that a row a half written file left behind is
stepped over, are not true of that row. The clauses for a cut-off run claim no more
than that, and less than one would want: a run cut off between two rows is read as a
run, its totals may have lost digits or gained some of a year, a report that dies
between the page and the series leaves a page without its row, and the commit on the
page is read after the runs it names it for. The text is taken to be ASCII: a cut
inside a longer character makes the whole file unreadable (`read_to_string`), and the
report then finds no run. Opening the file and writing to it are one step. It is proved
too.

### Compare, Suite

`Compare` is `compare`: columns, rows in order or sorted, errors by kind or with
their message. `Suite` puts a list of statements to both engines and times again
what is worth it; `ToldTheSame` is about statements that change something,
`CostsAreFair` about which run is published and which way round.

### RudbDriver, Bisect, Sweep, SecondOracle

`RudbDriver` is the library driver, which the sweep is over: a database with
connections by name, and passes turned off in it.

`Bisect` asks rudb with each pass off and with all of them. Its bugs are sets of
passes that are wrong when all in the set are on; a statement that writes is right
only once. `BlameIsExact` is about the ones that only read, and `SettingPutBack`
about all of them: what is left off after a refused SET or a panic is what the code
leaves, since a panic unwinds past the RESET.

`Sweep` is the corpus under every pass alone. Records are told apart by file and
line, so a file may hide a pass behind another turn of the same line.
`NamedPassDidIt` says what it may not do: blame a pass for what was failing without
it, or for what two passes do together. It is exact for a corpus that leaves the
setting alone; a file that sets the passes itself (corpus/slt/engine.test:22) has
them on for what follows it in the baseline too (sweep.rs:55 and 17), so there only
the first half is claimed. `NothingRunsOnAnOldDatabase` is over fresh databases,
reconnects and named connections.

`SecondOracle` pairs two runs of a file, either of which may break off anywhere.

All of `Tools`' properties are also proved.

### DuckdbDriver

A process per statement, its three files named by a number drawn from a shared
counter, by threads in any order. The child writes its files one after another and
may be killed at any of them; the caller may be refused at each step. `lost` has the
numbers where the code gives up on cleaning (an error of `wait`, a file that cannot
be read), and `CleansUp` says that those are all. Removing a file is taken to succeed:
the code ignores an error of it (duckdb.rs:255-267).

### MC modules

`MCConformRun`, `MCShellSession`, `MCCheckout`, `MCShardedRun` and `MCTriage`
instantiate one component; `Isolate` needs numbers only and is run as it is. `Tools`
picks one of the tools over live engines, or the wire they share, and `Books` one of
the modules that count and write down; the others stay at a value of their own, so each
is the disjoint union of its parts, and what is proved of it is proved of each. `MCTools` instantiates the one; `MCBooks` the other,
with the two modules that compute by recursion, `Reader` and `Metamorphic`, beside
it as two more works.

## 3. The runs

| run | question | bounds, and why they are enough |
|---|---|---|
| `conform` | are the counters exact, does nothing vanish, is an orderly file judged fairly, what does a pass mean under labels, modes and error lists | every file of 3 lines over 17 kinds and over the expected errors, of 4 over the 10 about the database and the 6 about labels and modes; eight answers; a wrong verdict on a database takes a load, a write, a second load and a record, and a label three records with a reset between |
| `isolate` | files lost or counted twice, children left, the end, the promise | 3 files, 2 at once, 2 ticks: a third child takes the place of one that is swapped out |
| `session` | is a session an engine that stays up | 4 statements of 6 kinds, 2 directories: a setting, data, a fallback and a statement behind it |
| `session_printing` | *violation:* a statement that prints and changes | 3 statements |
| `checkout` | nothing empty measured, the outer repository, the stamp | 3 parts, 3 commits of which one lost a part |
| `checkout_half` | *violation:* half a corpus | the same |
| `sharded` | is what is merged whole, is a refusal deserved | 2 calls over 2 and 3 machines in another order, 5 files, 2 commits |
| `sharded_leftover` | *violation:* a call that does not wait for the last one's runs | 2 calls over 2 machines and 1 |
| `triage` | reproduction, minimum, no token to spare, counting | files of 2 out of 9 statements, cut with the real cuts to the end; budgets 3 and 100 |
| `triage_signatures` | *violation:* a case's signatures | the same |
| `tools` | is a blame exact, is the setting put back, is a named pass guilty, are old databases left behind, are verdicts counted once, are answers and files a caller's own, does a run survive the wire | 2 passes with every set of culprits over them; corpora of 2 files, one of 2 lines, out of 9 lines, with turns, sets, reconnects and a named connection; 2 records and 2 files for the oracles; 2 callers and 3 processes; runs with every escaped character and counts of two digits, other output at every line, cut at every character, two added up |
| `books` | is the flat file the program, do the oracles blame the guilty, are both engines told the same, are costs what was measured, are numbers paired, cut and earned, does a page carry one run | test files of up to 5 chunks, so a loop in a loop around three of them, one level of include; 5 engines over every predicate of depth 1 and a fixture with NULLs apart and together; 2 statements run 3 times at 3 costs; 2 passes of a record with 1 turn and one with 2; 4 benchmarks whose brackets nest, run on and never close, 2 in a run; 4 catalogs with any two calls in trouble; 2 machines, 2 writes, 2 seconds and 1 finished page; a number is one up to 3 digits |

Every property of a passing run has a mutant, a plausible slip in the code it is
about, that breaks it; the mutants are the operators above the ones they replace.
`CHECK_DEADLOCK FALSE` is where the program ends: a file, a run, a session, a
script, a reduction and every tool stop. The checkout never does, and is checked.

Bounds that are not of the code are `MaxLines`, `MaxTurns`, `MaxHomes`, `MaxCommit`,
`MaxChunks`, `MaxReads`, `MaxAsked`, `MaxBenches`, `MaxSeconds`, `MaxWrites`,
`MaxPages`, `MaxCases`, `MaxFiles`, `MaxRuns`; and smaller than in the code are
`NESTING`, `DEPTH`, `ENOUGH`, `RUNS`, `CAP`, `FLOOR`, `Fits` (the digits of a
`usize`), the digits of `YEAR` and, for ticks, `Deadline`, in half seconds.

## 4. The proofs

Each is for every value of the constants, from the assumptions the module names.

* `ConformRun_proofs`. `RunTypes`, `CountersAreExact`, `EverySqlRecordIsCounted`,
  `TellingIsTheRate`, `OrderlyFilesAreJudgedFairly`, `InternalErrorsAlwaysFail`,
  `LabelsAreKept`, `SkipsNest`. The counters are proved with the history `row`: a
  counter is the cardinality of its row, a step adds one record or, at a stop, the
  finite set `RunnableSet`. For fairness the invariant says what `loaded` knows: a
  path that was not named was not written to. For labels it says that a label holds
  what every query that passed under it, with no reset since, saw (`LabelsHold`);
  for internal errors, that the list of errors which always fail is the one the file
  began with unless a line of it replaced the list; for modes, that `skipping` is the
  most skips left open over the record from any line before it, and that some line
  has as many (`DepthIsOpen`), which unskips with nothing to close do not disturb.
* `Isolate_proofs`. The inductive invariant says where each file is: before
  `next` it is in `running` once, or done, and a process is up only when it is in
  `running`; within a sweep, what is before `at` was polled. From it `RunTypes`,
  `EveryFileIsHeldOrHeard`, `EverySweepMissesNobody`, `EveryFinishedChildIsHeard`,
  `AFinishedRunLeavesNothing`, `ChildrenAreBounded`, and `RunKeepsPromise`, the
  refinement of `CorpusRun` (its safety; `RunEnds` is left to TLC).
* `ShellSession_proofs`. The strengthening keeps turns in order, settings as the
  subsequence of the history they are, and, for plain statements, what is left
  live as the file together with the settings, or as the history when the file
  was given up. `SessionTypes`, `ReplaysKeepOrder`, `SessionsCleanUp`,
  `NothingIsLostToTheFile`, `FallingBackRebuilds`, `SessionStaysUp`.
* `Checkout_proofs`. `CloneInv` ties files and head to one commit, `StepInv` says
  what has been asked by each step. `CheckoutTypes`, `NothingIsMeasuredAsZero`,
  `OuterStaysIntact`, `StampsAreTrue`.
* `ShardedRun_proofs`. Under `Quiet`, that a call waits for the runs an earlier
  one left; `sharded_leftover` shows why it is needed. Then one call at a time
  touches the machines (`OneAtATime`), so the checkout a run stamps is the one it
  listed (`ListedAtHead`), what it wrote is still there when it is copied
  (`OutIsItsSlice`, `CollectedIsOut`), and `OneSliceEach`, that index modulo n
  gives every file to exactly one of n places, makes the total whole.
  `ShardedTypes` (without `Quiet`), `TotalsAreWhole`, `RefusalsHaveReasons`.
* `Triage_proofs`. What a clean reduction was told is what two engines nobody has
  talked to would say: `wanted` is the failure of the statement as it stood,
  `best` still has part of it, and the cuts before `next` have none. `TriageTypes`,
  `CasesReproduce`, `MinimaAreReal`, `CasesAreDistinct`. `StatementsAddUp`
  (`EveryStatementCountedOnce`) adds hits up along the cases: the sums are recursive
  functions, known only by their equations, so that one hit more makes a sum one
  larger is had from the least place where it would not (`WFMin`), and not from an
  induction over the operator. `NoTokenIsToSpare` is over `Reducer`: the halvings of
  a length end at one (`HalvesEndAtOne`), so the runs of tokens, and with them the
  list of all cuts, have every single token in them (`TokensAreCut`), and what the
  invariant says of every cut of a minimum is true of those. It holds for any
  statements, any parser and any engines.
* `Tools_proofs`. One invariant for each tool, and a step of one leaves the others'
  alone. `bisect`: `found` is the passes, of those before `asking`, that put the
  answer right on their own, and all of them off is only asked with none found;
  `HelpingAreNeeded` turns that into what the culprits need (`BlamesAreExact`,
  `SettingsArePutBack`). `sweep`: what a database knows is what the file did to it
  since it was opened (`PassesAreNamed`, `DatabasesAreCurrent`). `oracles`: how far
  each run of the file is, and the splits as a set whose cardinality grows by one
  (`RecordsAreCountedOnce`). The subprocess driver: nobody who is busy has another's
  number (`NumberInv`), so a file with it is its own (`FileInv`), for any number of
  callers (`AnswersAreTheirOwn`, `RunsCleanUp`). The wire (`RunsComeBack`,
  `SumsAreOfTheRuns`) is for every finite summary, with any words and any numbers:
  * What writes and reads is a recursive function, known by its equations
    (`ConcatSteps` to `PassedSteps`). What it does for every word is had from the set
    of the prefixes it is right for: that set has the empty one and each next one
    (`ListsGrow`), so it has them all.
  * A word that is escaped has no tab and no newline in it and is read back
    (`WordsAreRead`), and so is a number (`NumbersAreRead`). So a line comes apart into
    the fields it was written from (`LinesComeApart`), and one that was cut comes apart
    into some of them, whole but the last, which is a beginning of its own
    (`LinesCutOff`).
  * Each kind of line, read on top of what the lines before it said, says one thing
    more, and cut, no more than the run (`CountsAreRead` to `FailureIsRead`, `CutCounts`
    to `CutFailure`). So the lines lead from `Nobody` to the run, a line at a time
    (`Leads`, `LinesLead`); for the kinds, which are written in no order, what is in
    between is the run's tallies restricted to those listed so far.
  * A list of lines that leads somewhere is read that way when it is whole, with
    another process's line in it, and cut at any character (`Readable`, `MoreIsReadable`,
    `TextsAreRead`), the three ways the text reaches a reader. The invariant, `WireInv`,
    is that the text is one of those. What is read is the run in seconds, not the run:
    the time a child ran loses what is less than a second on the way.
  * `TotalIs`, that the total is what the runs read so far said, is kept by one more
    (`OneMoreAddedUp`). A rate of a hundred is a set as large as the surface around it,
    so it is the surface (`FullMeansNoneFails`).

  What this assumes of the data is that the rows have names, the surface is finite
  and what is written are summaries (`IsRun`), all in `ToolsAssumption`.
* `Books_proofs`. An invariant for each of the five works, and `WhatIsCountedIsKept`,
  that all five are kept; a work that is not at it keeps its own by changing nothing.
  Sorting, selecting and adding up are written in the modules without a fold or an
  operator for an argument (a value's place is how many are ahead of it, `Placed`; a
  selection is where its members stand, `Nth`), so that they can be reasoned about,
  and the lemmas in front are about those: `SublistIs`, `SortedIs`, `MiddleIs`,
  `SpreadIs`, each from a counting argument over finite sets.
  * Functions (`NumbersOfFunctionsAreEarned`). `CoverInv` says of the sweep what was
    heard of each row so far: `differing` is exactly the calls before `call` that are
    in trouble, `half` is empty, and a row that was scored was scored from all of its
    calls. What a row's calls are is a list built from sets and flattened lists: every
    element of every piece is in the whole (`FlattenedLists`), a set is all in its
    list (`SetInAList`), the rows of a name keep their order. The numbers then are
    cardinalities of equal sets, and the crashes an injection into `trouble`.
  * Costs of the corpus (`RecordsArePairedOnce`). The records paired are the image of
    the places both engines could time, one to one because no two places are the same
    line and turn, and the three numbers are the cardinalities of an intersection and
    two differences. A row of a file is one because it kept a pair.
  * The timed list (`EnginesHearTheSame`, `CostsOfASuiteAreFair`). `HeardInv` is what
    both were told by each step of a statement, `CostedInv` that a published cost is
    the middle of samples that are all there. When each of ours is slower, each share
    is a hundred or more, so every quantile of them is, and the quantiles are in order.
  * Benchmarks (`BothEnginesAreMeasured`). `GivenInv` counts how often each of the four
    processes ran by how far the measuring is. For the cut, `Open`, opens less closes
    of a stretch of words, is what the code's depth is compared with: the least word
    where the two readings of a bracket would differ is taken, and there is none.
  * Pages (`PagesAreOfOneRun`). `BooksInv` says that the lines of a book that are rows
    of one run stand in a stretch with nobody's line in between, only the first of
    them behind a stub and only the last no number at its end (`StandsFrom`); that
    a run with a row behind a stub came after one that was cut off, and that a line a
    write will go on in is of a run that was cut off itself (`CutBefore`); that every
    row is of a run in `order`; and that the newest run of a book nothing was cut off
    in is all at its end (`EndsWhole`). A write keeps that whether it begins on a line
    of its own or behind one that was cut: each of its lines is one of its own rows or
    more digits for the last line of the book (`OwnLine`, `LongerLine`, `WroteRows`).
    A run is told by its second and its machine, so no two runs have one line. What
    `latest` collects (`Seen`) is then a stretch of the rows of one run, or the one row
    behind a stub (`SeenLies`), and the first, the last and each scope of it follow.

  `BooksAssumption` has what these need of the data: catalogs, places and texts are
  lists, edges of a type are finitely many, places are different, costs and counts are
  numbers, and the row over the whole corpus is the first of a run's rows, where every
  writer of them puts it. No size is bounded.

The type invariants of the conformance runner and of the isolated run are proved and
are not among the runs' properties, nor is `ReplaysInOrder`; the runs spend their
time on the others.

Only model-checked:

* liveness (`RunEnds`), since fairness and ENABLED are out of the prover's reach;
* `ExpansionIsTheProgram` and `OraclesBlameTheGuilty`, of the two modules that are
  written with RECURSIVE operators (an expansion that calls itself on what it made, a
  predicate with predicates in it), which the prover cannot take in. What a recursive
  *function* computes is proved where it is needed, by hand, since the library's
  induction rules cannot be instantiated; these two are functions of a whole tree.

## 5. What is left, in order

1. The composition of the reader with the runner: files of `Reader` as the files of
   `ConformRun`, and two of those as the answers of `SecondOracle`. The pieces agree
   by their alphabets now, and nothing checks that they do.
2. A proof of `ExpansionIsTheProgram`, with the reader's expansion written as a
   function of how deep the loops of a file go.
3. Two checkouts at once on one directory, should the code ever take a lock.
4. The process under the session (`Shell::run`), which is `DuckdbDriver` again with
   one file less, and `describe` and `accepts` of the drivers.
5. Two processes racing on the lock file and the page (report.rs:265).

### Not modelled

* `cutoff.rs` is two set differences over a run and a committed list, with nothing
  kept between calls. One thing a reader of it should know: `finished` is every
  listed file that exists and was not cut off, so one that was never run is in it.
* The generators (`grammar.rs`, `sqlsmith.rs`, `queries.rs`, `replay.rs`) keep nothing
  from one statement to the next.
* What reads the output of another program character by character (`csv`, `quote`,
  `pattern`, `hash`, `reach`), the literals the generators are tables of, the page's
  text, the constants of the crate and the gates' scripts. Unit tests reach those
  better.
* Of the parts that are modelled: how a value is rendered and which tolerance a
  number has, the clock behind a statement's limit (an error in the model), two
  runs over one checkout at once, what `ps` reports, and the parsing of arguments.
  `bisect` always compares sorted (main.rs:392), which is how it is modelled.
