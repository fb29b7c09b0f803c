-------------------------------- MODULE Tools --------------------------------
(***************************************************************************)
(* The tools that drive live engines: `bisect`, `sweep`, `oracles`, and    *)
(* DuckDB as a process per statement; and the wire a run comes back over   *)
(* from the process it was made in.  A process is at one of them, and the  *)
(* rest of the state stays where a value of it is.                         *)
(***************************************************************************)
EXTENDS Naturals, Sequences, FiniteSets

CONSTANTS
  Passes,                                                   \* Bisect
  Optimizers, Connections, Order, Corpora,                  \* Sweep
  Records, Reasons, MaxFiles,                               \* SecondOracle
  Callers, MaxRuns,                                         \* DuckdbDriver
  SummariesRun, Rows7, MaxReads, Surface                    \* Wire

VARIABLES
  tool,
  culprits, writes, bisect_at, asking, off, got, found, blame, times,
  optimizer, database, disabled, current, named,
  corpus, sweep_run, file, line, failures, stale, company,
  oracle_at, told, counts, splits, unpaired, files, broke, answers,
  runs, pc, number, query, child, scratch, answer, lost,
  written, text, torn, decoded, wire_total, wholes

TheBisect == INSTANCE Bisect
TheSweep  == INSTANCE Sweep
TheOracle == INSTANCE SecondOracle
TheDuckdb == INSTANCE DuckdbDriver
TheWire   == INSTANCE Wire

\* The lines of the corpora.
CorpusLines == UNION {{f[i] : i \in DOMAIN f} : f \in UNION {{c[i] : i \in DOMAIN c} : c \in Corpora}}

\* What is asked one by one, or published, is a pass there is, and so is what a bug
\* needs; no pass is called "on" or "off", and no reason to fail "passed".  The grammar
\* has so many kinds, and what is written is a run.
ASSUME ToolsAssumption ==
  /\ Passes \in Seq(Optimizers)
  /\ Order \in Seq(Optimizers)
  /\ {"on", "off"} \cap Optimizers = {}
  /\ Corpora \subseteq Seq(Seq(CorpusLines))
  /\ \A l \in CorpusLines : l.kind = "record" => l.culprits \subseteq SUBSET Optimizers
  /\ IsFiniteSet(Records)
  /\ "passed" \notin Reasons
  /\ Rows7 \in Seq(STRING)
  /\ IsFiniteSet(Surface)
  /\ \A run \in SummariesRun : TheWire!IsRun(run)

-----------------------------------------------------------------------------
(***************************************************************************)
(* One tool is picked, and the others stay where a value of theirs is.     *)
(***************************************************************************)
Tools == {"bisect", "sweep", "oracles", "duckdb", "wire"}

Init ==
  /\ tool \in Tools
  /\ IF tool = "bisect" THEN TheBisect!Init
     ELSE culprits = {} /\ writes = FALSE /\ TheBisect!Begin
  /\ IF tool = "sweep" THEN TheSweep!Init ELSE corpus = <<>> /\ TheSweep!Begin
  /\ TheOracle!Init
  /\ TheDuckdb!Init
  /\ TheWire!Init

bisectVars == <<culprits, writes, bisect_at, asking, off, got, found, blame, times>>
sweepVars  == <<optimizer, database, disabled, current, named,
                corpus, sweep_run, file, line, failures, stale, company>>
oracleVars == <<oracle_at, told, counts, splits, unpaired, files, broke, answers>>
duckdbVars == <<runs, pc, number, query, child, scratch, answer, lost>>
wireVars   == <<written, text, torn, decoded, wire_total, wholes>>

vars == <<tool, bisectVars, sweepVars, oracleVars, duckdbVars, wireVars>>

Bisecting ==
  /\ tool = "bisect"
  /\ TheBisect!Next
  /\ UNCHANGED <<tool, sweepVars, oracleVars, duckdbVars, wireVars>>

Sweeping ==
  /\ tool = "sweep"
  /\ TheSweep!Next
  /\ UNCHANGED <<tool, bisectVars, oracleVars, duckdbVars, wireVars>>

AskingBoth ==
  /\ tool = "oracles"
  /\ TheOracle!Next
  /\ UNCHANGED <<tool, bisectVars, sweepVars, duckdbVars, wireVars>>

Driving ==
  /\ tool = "duckdb"
  /\ TheDuckdb!Next
  /\ UNCHANGED <<tool, bisectVars, sweepVars, oracleVars, wireVars>>

Wiring ==
  /\ tool = "wire"
  /\ TheWire!Next
  /\ UNCHANGED <<tool, bisectVars, sweepVars, oracleVars, duckdbVars>>

Next == Bisecting \/ Sweeping \/ AskingBoth \/ Driving \/ Wiring

Spec == Init /\ [][Next]_vars

-----------------------------------------------------------------------------
\* Bisect: the verdict is what the bugs say, and the setting is put back.
BlameIsExact   == TheBisect!BlameIsExact
SettingPutBack == TheBisect!SettingPutBack

\* Sweep: a pass is named for what it does alone, on the database of the moment.
NamedPassDidIt             == TheSweep!NamedPassDidIt
NothingRunsOnAnOldDatabase == TheSweep!NothingRunsOnAnOldDatabase

\* The second oracle counts a record once.
OraclesCountOnce == TheOracle!OraclesCountOnce

\* A process per statement: answers are not mixed up and nothing is left to lie.
AnswerIsItsOwn == TheDuckdb!AnswerIsItsOwn
CleansUp       == TheDuckdb!CleansUp

\* Wire: what one process says of a run the other one hears, and the sum is of them.
WireKeepsTheRun == TheWire!WireKeepsTheRun
SumIsOfTheRuns  == TheWire!SumIsOfTheRuns
=============================================================================
