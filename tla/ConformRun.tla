----------------------------- MODULE ConformRun -----------------------------
(***************************************************************************)
(* Running one parsed .test file against one engine: `run_file_telling` of *)
(* conform.rs, record by record, with the counters it hands to the report. *)
(*                                                                         *)
(* The file is a sequence of lines.  A line is a record whose `kind` is    *)
(* the directive; the fields it has besides depend on the kind:            *)
(*   every line           applies, whether its skipif/onlyif lets it run   *)
(*   statement, query     connection, whether it names one; see also       *)
(*                        ConformVerdict                                   *)
(*   require              gap, whose gap it is, or NoGap when it is met    *)
(*   load                 path, or NoPath; readonly                        *)
(*   set-ignore, set-always-fail   words, the list it writes               *)
(*   reset-label          label                                            *)
(* `note` stands for the lines that only change text or time: a variable,  *)
(* a test-env, a sleep.                                                    *)
(*                                                                         *)
(* Two histories ride along.  `row` says which counter each record went    *)
(* on.  `held`, `disk` and `open` say which statements the engine's        *)
(* database has been given, and which ones each database of upstream's own *)
(* runner would have been given, so that a record judged against a         *)
(* database the file did not mean can be seen.                             *)
(***************************************************************************)
EXTENDS ConformVerdict, Integers, Sequences, FiniteSets

CONSTANTS
  Lines,        (* The lines a file may hold.                              *)
  Files,        (* The files a run may be given, each a sequence of lines. *)
  Answers,      (* What the engine may say to a statement or a query.      *)
  Engines,      (* Whether the engine can hold a second connection: a      *)
                (* subset of BOOLEAN, one engine for each element.         *)
  Labels        (* The labels a query may carry.                           *)

VARIABLES
  file,         (* The file being run.                                     *)
  connections,  (* Whether the engine holds more than one connection.      *)
  phase,        (* Where the run is.                                       *)
  at,           (* The record the loop is about to look at.                *)
  skipping,     (* How many `mode skip` are open.                          *)
  labels,       (* What each label's first query returned.                 *)
  loaded,       (* Every path a `load` has named.                          *)
  settings,     (* What the file has said about errors.                    *)
  tally,        (* The counters of the summary.                            *)
  told,         (* What each record that ran did.                          *)
  row,          (* History: the counter each record went on.               *)
  held,         (* History: the statements the engine's database was given.*)
  disk,         (* History: the statements each database was meant to get. *)
  open,         (* History: the database the file means to be in.          *)
  astray,       (* History: records judged on a database not meant.        *)
  answered      (* History: what the engine said to each record judged.    *)

-----------------------------------------------------------------------------
(***************************************************************************)
(* Lines.                                                                  *)
(***************************************************************************)
NoGap  == "none"
NoPath == [dir |-> "none", name |-> "none"]

Sql     == {"statement", "query"}
Carried == {"load", "restart", "reconnect", "unzip"}   \* Directive::Unsupported
Kinds   == Sql \cup Carried \cup
           {"mode-skip", "mode-unskip", "halt", "hash-threshold", "require",
            "reset-label", "continue", "maybe", "set-ignore",
            "set-always-fail", "set-seed", "note"}

ASSUME LinesAssumption ==
  /\ Files \subseteq Seq(Lines)
  /\ \A line \in Lines :
       /\ line.kind \in Kinds
       /\ line.applies \in BOOLEAN
       /\ line.kind = "require" =>
            line.gap \in {NoGap, "engine", "harness", "machine"}
  /\ Engines \subseteq BOOLEAN

\* A label is a word of its own, rows are never the mark of a query not yet run,
\* and a record says which of the two things it expects.
ASSUME AnswersAssumption ==
  /\ NoLabel \notin Labels
  /\ \A answer \in Answers : ~Failed(answer) => answer.values # NoAnswer
  /\ \A line \in Lines : line.kind \in Sql => line.expects \in {"success", "error"}

\* The spellings of the directory a file gets for itself; all name one directory.
Scratch == {"{TEST_DIR}", "{TEMP_DIR}", "__TEST_DIR__"}

\* A `statement maybe` is a kind of its own here: it is set aside before any other.
Counted == Sql \cup Carried \cup {"maybe"}

(***************************************************************************)
(* How many of the records from i on a file would have put in front of the *)
(* engine: those down to a halt that are SQL or a carried directive.       *)
(***************************************************************************)
HaltedBefore(f, from, i) == \E j \in from..(i - 1) : f[j].kind = "halt"

\* Mutant: the count runs on past the halt.
RunnablePastHalt(f, from) == {i \in from..Len(f) : f[i].kind \in Counted}

RunnableSet(f, from) ==
  {i \in from..Len(f) : /\ f[i].kind \in Counted
                        /\ ~HaltedBefore(f, from, i + 1)}

\* Mutant: the directive that ends the file is left out of the count.
RunnableAfter(f, from) == Cardinality(RunnableSet(f, from + 1))

Runnable(f, from) == Cardinality(RunnableSet(f, from))

-----------------------------------------------------------------------------
(***************************************************************************)
(* The counters.  A gap owes its records to one row.                       *)
(***************************************************************************)
SkipRows == {"conditional", "mode", "maybe", "unsupported", "engine", "machine"}
RowNames == {"passed", "failed"} \cup SkipRows
NoRow    == "no row"
NotRun   == "not run"
Nothing  == [said |-> "nothing"]

OweTo(gap) ==
  CASE gap = "excused" -> "conditional"
    [] gap = "engine"  -> "engine"
    [] gap = "harness" -> "unsupported"
    [] gap = "machine" -> "machine"

Charge(r, n)      == tally' = [tally EXCEPT ![r] = @ + n]
Enter(records, r) == row' = [i \in DOMAIN row |-> IF i \in records THEN r ELSE row[i]]

-----------------------------------------------------------------------------
(***************************************************************************)
(* The database the file means.  Upstream opens the file a `load` names,   *)
(* so a path keeps what was written under any spelling of its directory;   *)
(* a file it did not make has something in it already, which is record 0.  *)
(***************************************************************************)
Memory     == <<"memory", "none">>
Place(path) == IF path.dir \in Scratch THEN <<"scratch", path.name>>
                                       ELSE <<path.dir, path.name>>

LoadsIn(f)   == {f[i].path : i \in {j \in 1..Len(f) : f[j].kind = "load"}} \ {NoPath}
Places(f)    == {Memory} \cup {Place(p) : p \in LoadsIn(f)}
FirstDisk(f) == [p \in Places(f) |-> IF p[1] \in {"memory", "scratch"} THEN {} ELSE {0}]

vars == <<file, connections, phase, at, skipping, labels, loaded, settings,
          tally, told, row, held, disk, open, astray, answered>>

Init ==
  /\ file \in Files
  /\ connections \in Engines
  /\ phase = "ready"
  /\ at = 1
  /\ skipping = 0
  /\ labels = [l \in Labels |-> NoAnswer]
  /\ loaded = {}
  /\ settings = [ignore |-> {}, alwaysFail |-> {"INTERNAL Error"}]
  /\ tally = [r \in RowNames |-> 0]
  /\ told = [i \in 1..Len(file) |-> NotRun]
  /\ row = [i \in 1..Len(file) |-> NoRow]
  /\ held = {}
  /\ disk = FirstDisk(file)
  /\ open = Memory
  /\ astray = {}
  /\ answered = [i \in 1..Len(file) |-> Nothing]

-----------------------------------------------------------------------------
database == <<held, disk, open, astray, answered>>
said     == <<labels, loaded, settings>>
given    == <<file, connections>>

Line == file[at]

\* The loop has a record in hand, and nothing has turned it off.
Looking == phase = "running" /\ at <= Len(file)

Live(kinds) ==
  /\ Looking
  /\ Line.kind \in kinds
  /\ skipping = 0
  /\ Line.applies

Step == at' = at + 1 /\ UNCHANGED phase

(***************************************************************************)
(* The file stops here, and every record from here on is owed to the gap.  *)
(***************************************************************************)
EndFile(gap) ==
  /\ phase' = "done"
  /\ Charge(OweTo(gap), Runnable(file, at))
  /\ Enter(RunnableSet(file, at), OweTo(gap))
  /\ UNCHANGED <<given, at, skipping, said, told, database>>

(***************************************************************************)
(* The engine is reset, and then a requirement nothing here can meet turns *)
(* the whole file off, wherever in the file it is written.                 *)
(***************************************************************************)
Unmet(f) == {i \in 1..Len(f) : f[i].kind = "require" /\ f[i].gap # NoGap}

SkipWhole ==
  /\ phase = "ready"
  /\ \E i \in Unmet(file) :
       /\ \A j \in Unmet(file) : i <= j
       /\ EndFile(file[i].gap)

Begin ==
  /\ phase = "ready"
  /\ Unmet(file) = {}
  /\ phase' = "running"
  /\ UNCHANGED <<given, at, skipping, said, tally, told, row, database>>

-----------------------------------------------------------------------------
(***************************************************************************)
(* Lines the loop obeys whether or not anything has turned them off.       *)
(***************************************************************************)
\* Mutant: one unskip closes every skip.
UnskipAll(open_skips)   == 0

Unskip(open_skips) == IF open_skips = 0 THEN 0 ELSE open_skips - 1

FollowMode ==
  /\ Looking
  /\ \/ Line.kind = "mode-skip"   /\ skipping' = skipping + 1
     \/ Line.kind = "mode-unskip" /\ skipping' = Unskip(skipping)
  /\ Step
  /\ UNCHANGED <<given, said, tally, told, row, database>>

Halt ==
  /\ Looking
  /\ Line.kind = "halt"
  /\ phase' = "done"
  /\ UNCHANGED <<given, at, skipping, said, tally, told, row, database>>

PassOver ==
  /\ Looking
  /\ Line.kind \in {"hash-threshold", "require"}
  /\ Step
  /\ UNCHANGED <<given, skipping, said, tally, told, row, database>>

ForgetLabel ==
  /\ Looking
  /\ Line.kind = "reset-label"
  /\ labels' = [labels EXCEPT ![Line.label] = NoAnswer]
  /\ Step
  /\ UNCHANGED <<given, skipping, loaded, settings, tally, told, row, database>>

(***************************************************************************)
(* A line that is turned off goes on a counter whatever it is.             *)
(***************************************************************************)
Unconditional == {"mode-skip", "mode-unskip", "halt", "hash-threshold",
                  "require", "reset-label"}

SetAside(r) ==
  /\ Charge(r, 1)
  /\ Enter({at}, r)
  /\ Step
  /\ UNCHANGED <<given, skipping, said, told>>

SkipForMode ==
  /\ Looking
  /\ Line.kind \notin Unconditional
  /\ skipping > 0
  /\ SetAside("mode")
  /\ UNCHANGED database

SkipForCondition ==
  /\ Looking
  /\ Line.kind \notin Unconditional
  /\ skipping = 0
  /\ ~Line.applies
  /\ SetAside("conditional")
  /\ UNCHANGED database

EndAtContinue ==
  /\ Live({"continue"})
  /\ EndFile("harness")

\* Upstream runs a `statement maybe`; this runner sets it aside without running it.
ExcuseMaybe ==
  /\ Live({"maybe"})
  /\ SetAside("maybe")
  /\ disk' = [disk EXCEPT ![open] = @ \cup {at}]
  /\ UNCHANGED <<held, open, astray, answered>>

-----------------------------------------------------------------------------
(***************************************************************************)
(* Settings of the file.  A `set` of a list replaces the list.             *)
(***************************************************************************)
TakeSetting ==
  /\ Live({"set-ignore", "set-always-fail", "note"})
  /\ settings' = CASE Line.kind = "set-ignore"      -> [settings EXCEPT !.ignore = Line.words]
                   [] Line.kind = "set-always-fail" -> [settings EXCEPT !.alwaysFail = Line.words]
                   [] Line.kind = "note"            -> settings
  /\ Step
  /\ UNCHANGED <<given, skipping, labels, loaded, tally, told, row, database>>

\* A seed is a statement: the engine takes it, or its error ends the file.
Seed ==
  /\ Live({"set-seed"})
  /\ Step
  /\ UNCHANGED <<given, skipping, said, tally, told, row, database>>

EndAtSeed ==
  /\ Live({"set-seed"})
  /\ EndFile("engine")

-----------------------------------------------------------------------------
(***************************************************************************)
(* The directives that are about the database or the connection.           *)
(***************************************************************************)
Reconnect ==
  /\ Live({"reconnect"})
  /\ connections
  /\ Step
  /\ UNCHANGED <<given, skipping, said, tally, told, row, database>>

\* Mutant: what was loaded before is not looked at.
AsksForScratch(line) ==
  \/ line.path = NoPath
  \/ line.path.dir \in Scratch /\ ~line.readonly

\* A path nothing has loaded yet, in the file's own directory, opened to be written.
AsksForEmpty(line) ==
  \/ line.path = NoPath
  \/ /\ line.path.dir \in Scratch
     /\ ~line.readonly
     /\ line.path \notin loaded

Load ==
  /\ Live({"load"})
  /\ AsksForEmpty(Line)
  /\ loaded' = IF Line.path = NoPath THEN loaded ELSE loaded \cup {Line.path}
  /\ held' = {}
  /\ IF Line.path = NoPath
       THEN open' = Memory /\ disk' = [disk EXCEPT ![Memory] = {}]
       ELSE open' = Place(Line.path) /\ UNCHANGED disk
  /\ Step
  /\ UNCHANGED <<given, skipping, labels, settings, tally, told, row, astray, answered>>

\* Upstream reopens the path it has open, and an empty path is a wipe.
Restart ==
  /\ Live({"restart"})
  /\ loaded = {}
  /\ held' = {}
  /\ disk' = IF open = Memory THEN [disk EXCEPT ![Memory] = {}] ELSE disk
  /\ Step
  /\ UNCHANGED <<given, skipping, said, tally, told, row, open, astray, answered>>

EndAtLoad ==
  /\ Live({"load"})
  /\ ~AsksForEmpty(Line)
  /\ EndFile("engine")

EndAtRestart ==
  /\ Live({"restart"})
  /\ loaded # {}
  /\ EndFile("engine")

\* A second connection, on an engine with one, and a file to unpack.
EndAtConnection ==
  /\ \/ Live({"reconnect"}) /\ ~connections
     \/ Live({"unzip"})
     \/ Live(Sql) /\ Line.connection /\ ~connections
  /\ EndFile("harness")

-----------------------------------------------------------------------------
(***************************************************************************)
(* A record that reaches the engine.                                       *)
(***************************************************************************)
ReachesEngine == Live(Sql) /\ (Line.connection => connections)

Run(answer) ==
  LET verdict == Judge(Line, answer, labels, settings)
      r       == IF verdict = "passed" THEN "passed" ELSE "failed"
  IN
  /\ ReachesEngine
  /\ verdict # "ignored"
  /\ Charge(r, 1)
  /\ Enter({at}, r)
  /\ told' = [told EXCEPT ![at] = verdict]
  /\ labels' = Remembered(Line, answer, labels)
  /\ held' = held \cup {at}
  /\ disk' = [disk EXCEPT ![open] = @ \cup {at}]
  /\ astray' = IF held = disk[open] THEN astray ELSE astray \cup {at}
  /\ answered' = [answered EXCEPT ![at] = answer]
  /\ Step
  /\ UNCHANGED <<given, skipping, loaded, settings, open>>

\* The error is one the file said to stop on.
StopOnIgnored(answer) ==
  /\ ReachesEngine
  /\ Judge(Line, answer, labels, settings) = "ignored"
  /\ EndFile("excused")

(***************************************************************************)
(* The engine could not be run at all: the error goes up instead of the    *)
(* summary, and nothing of it is reported.                                 *)
(***************************************************************************)
AsksEngine ==
  \/ phase = "ready"
  \/ ReachesEngine
  \/ Live({"set-seed"})
  \/ Live({"reconnect"}) /\ connections
  \/ Live({"load"}) /\ AsksForEmpty(Line)
  \/ Live({"restart"}) /\ loaded = {}

Break ==
  /\ AsksEngine
  /\ phase' = "broken"
  /\ UNCHANGED <<given, at, skipping, said, tally, told, row, database>>

Finish ==
  /\ phase = "running"
  /\ at > Len(file)
  /\ phase' = "done"
  /\ UNCHANGED <<given, at, skipping, said, tally, told, row, database>>

Next ==
  \/ SkipWhole \/ Begin \/ Finish \/ Break
  \/ FollowMode \/ Halt \/ PassOver \/ ForgetLabel
  \/ SkipForMode \/ SkipForCondition \/ EndAtContinue \/ ExcuseMaybe
  \/ TakeSetting \/ Seed \/ EndAtSeed
  \/ Reconnect \/ Load \/ Restart \/ EndAtLoad \/ EndAtRestart \/ EndAtConnection
  \/ \E answer \in Answers : Run(answer) \/ StopOnIgnored(answer)

Spec == Init /\ [][Next]_vars

-----------------------------------------------------------------------------
(***************************************************************************)
(* Properties.                                                             *)
(***************************************************************************)

\* Every variable has the type its field has in the code, and the histories theirs.
TypeOK ==
  /\ file \in Files
  /\ connections \in BOOLEAN
  /\ phase \in {"ready", "running", "done", "broken"}
  /\ at \in 1..(Len(file) + 1)
  /\ skipping \in Nat
  /\ tally \in [RowNames -> Nat]
  /\ told \in [1..Len(file) -> (Verdicts \ {"ignored"}) \cup {NotRun}]
  /\ row \in [1..Len(file) -> RowNames \cup {NoRow}]

\* Each counter of the summary is the number of records that went on it: no
\* record is charged twice, by the loop and again by the count of what a stop
\* left behind, and none is charged to a counter it is not on.
TallyCountsRecords ==
  \A r \in RowNames : tally[r] = Cardinality({i \in DOMAIN row : row[i] = r})

\* When the run has ended every SQL record the file puts before a halt is on a
\* counter and nothing from the halt on is: no stop, skip or requirement makes
\* the corpus smaller without a line of the report saying so.
NothingVanishes ==
  phase = "done" =>
    \A i \in 1..Len(file) :
      /\ file[i].kind \in Sql /\ ~HaltedBefore(file, 1, i) => row[i] # NoRow
      /\ HaltedBefore(file, 1, i) => row[i] = NoRow

\* The records a second oracle lines up are exactly the ones on the two columns
\* of the pass rate, on the side the verdict says.
ToldIsTheRate ==
  \A i \in 1..Len(file) :
    /\ told[i] = "passed" <=> row[i] = "passed"
    /\ told[i] \in Reasons <=> row[i] = "failed"

\* A record is judged only if no `mode skip` is open over it, where a skip is
\* open while there are more skips than unskips since it: unskips with nothing
\* to close are not saved up against the next skip.
Marks(kind, from, to) == Cardinality({k \in from..to : file[k].kind = kind})

InsideSkip(i) ==
  \E j \in 1..i :
    /\ file[j].kind = "mode-skip"
    /\ \A k \in j..i : Marks("mode-skip", j, k) > Marks("mode-unskip", j, k)

ModeSkipBrackets ==
  \A i \in 1..Len(file) :
    /\ row[i] = "mode" /\ phase = "running" => InsideSkip(i)
    /\ told[i] # NotRun => ~InsideSkip(i)

\* Every record is judged against a database that was given exactly the
\* statements the file's own database would hold, whatever was loaded,
\* restarted or set aside before it.
JudgedOnMeantDatabase == astray = {}

\* It holds of a file with no `statement maybe` that spells no path of its own
\* directory in two ways: what `effect` lets through as empty then is.
Orderly(f) ==
  /\ \A i \in 1..Len(f) : f[i].kind # "maybe"
  /\ \A p, q \in LoadsIn(f) : Place(p) = Place(q) => p = q

OrderlyFileIsJudgedFairly == Orderly(file) => JudgedOnMeantDatabase

\* Two queries that passed under one label with no `reset label` between them
\* saw the same rows, so a label is never forgotten or replaced part-way.
Labelled(i, label) ==
  file[i].kind = "query" /\ file[i].label = label /\ told[i] = "passed"

LabelledQueriesAgree ==
  \A label \in Labels : \A i, j \in 1..Len(file) :
    /\ i < j
    /\ Labelled(i, label) /\ ~Failed(answered[i])
    /\ Labelled(j, label) /\ ~Failed(answered[j])
    /\ \A k \in i..j : ~(file[k].kind = "reset-label" /\ file[k].label = label)
    => answered[i].values = answered[j].values

\* A record that asked for an error never passes on an internal one, unless the
\* file had replaced the always-fail list by one without it.
InternalErrorNeverPasses ==
  \A i \in 1..Len(file) :
    /\ told[i] = "passed"
    /\ answered[i].said = "error"
    /\ answered[i].class = "INTERNAL Error"
    => \E j \in 1..(i - 1) : /\ file[j].kind = "set-always-fail"
                              /\ "INTERNAL Error" \notin file[j].words
=============================================================================
