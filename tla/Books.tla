-------------------------------- MODULE Books --------------------------------
(***************************************************************************)
(* What is counted and written down: a list of statements compared and     *)
(* timed, the timings of the corpus and of the benchmarks, the functions   *)
(* an engine has, and the books beside the page.                           *)
(* A process does one of them, and the rest of the state stays where it    *)
(* begins; reading and asking are work of MCBooks.                         *)
(***************************************************************************)
EXTENDS Resource, Functions, FiniteSets, TLC

CONSTANTS
  Statements, orders, Outcomes, Reports, Couples, MaxCases,   \* Suite
  Places, turns, Costs, Repeats, ENOUGH,                    \* Spend
  Benches, Prices, CAP, MaxBenches,                         \* Benchmarks
  Catalogs, Edges, VOLATILE,                                \* Coverage
  Machines, Measured, Fits, MaxSeconds, MaxWrites, MaxPages \* Pages

VARIABLES
  at_work,
  suite_mode, names, suite_at, suite_sql, said, samples, rounds, cases, heard,
  spend_at, pass, place, seen, spends,
  bench, measuring, sampled, middles, costs, given,
  rows, trouble, pinned, cover_at, overload, call, half, differing, scored, recorded,
  clock, commit, book, open, measured, order, page, pages

TheSuite      == INSTANCE Suite
TheSpend      == INSTANCE Spend
TheBenchmarks == INSTANCE Benchmarks
TheCoverage   == INSTANCE Coverage
ThePages      == INSTANCE Pages

IsList(s) == s \in Seq(Range(s))

\* A function table is a list, and the parameters of a row are; the edges of a type
\* are as many as were thought of.  A record of the corpus is named by its file and its
\* line, and what a run costs is a time or a size.  A load of a benchmark is words with
\* sizes, and a run has one row over the whole corpus at most, which is the first one;
\* a total that was written down whole is a number.
ASSUME BooksAssumption ==
  /\ \A catalog \in Catalogs :
       IsList(catalog) /\ \A i \in DOMAIN catalog : IsList(catalog[i].parameters)
  /\ \A type \in DOMAIN Edges : IsFiniteSet(Edges[type])
  /\ IsList(Places)
  /\ \A p \in DOMAIN Places : Places[p] = <<Places[p][1], Places[p][2]>> /\ turns[p] \in Nat
  /\ \A p, q \in DOMAIN Places : Places[p] = Places[q] => p = q
  /\ Costs \cup Prices \subseteq [wall : Nat, cpu : Nat, peak : Nat]
  /\ \A r \in Reports : \A label \in Wanted \cap DOMAIN r : r[label] \in Nat
  /\ CAP \in Nat
  /\ \A b \in Benches :
       /\ b = [group |-> b.group, requires |-> b.requires, load |-> b.load, sql |-> b.sql]
       /\ IsList(b.sql.text)
       /\ \A i \in DOMAIN b.sql.text : LET word == b.sql.text[i] IN
            word = [is |-> word.is, size |-> word.size] /\ word.size \in Nat
  /\ \A b \in DOMAIN Measured : \A list \in Measured[b] :
       IsList(list) /\ \A k \in DOMAIN list : list[k][1] = "corpus" => k = 1
  /\ Fits \in Nat /\ Fits > 1

-----------------------------------------------------------------------------
(***************************************************************************)
(* One of them is picked, and the others stay where they begin.            *)
(***************************************************************************)
Works == {"reader", "oracles", "suite", "spend", "benchmarks", "coverage", "pages"}

Init ==
  /\ at_work \in Works
  /\ TheSuite!Init
  /\ at_work # "suite" => suite_mode = "run" /\ names["left"] = names["right"]
  /\ TheSpend!Init
  /\ TheBenchmarks!Init
  /\ TheCoverage!Init
  /\ at_work # "coverage" => Len(rows) = 1 /\ ~pinned
  /\ ThePages!Init

suiteVars  == <<suite_mode, names, suite_at, suite_sql, said, samples, rounds, cases, heard>>
spendVars  == <<spend_at, pass, place, seen, spends>>
benchVars  == <<bench, measuring, sampled, middles, costs, given>>
coverVars  == <<rows, trouble, pinned, cover_at, overload, call, half, differing, scored, recorded>>
pageVars   == <<clock, commit, book, open, measured, order, page, pages>>

vars == <<at_work, suiteVars, spendVars, benchVars, coverVars, pageVars>>

Comparing ==
  /\ at_work = "suite"
  /\ TheSuite!Next
  /\ UNCHANGED <<at_work, spendVars, benchVars, coverVars, pageVars>>

Spending ==
  /\ at_work = "spend"
  /\ TheSpend!Next
  /\ UNCHANGED <<at_work, suiteVars, benchVars, coverVars, pageVars>>

Benchmarking ==
  /\ at_work = "benchmarks"
  /\ TheBenchmarks!Next
  /\ UNCHANGED <<at_work, suiteVars, spendVars, coverVars, pageVars>>

Covering ==
  /\ at_work = "coverage"
  /\ TheCoverage!Next
  /\ UNCHANGED <<at_work, suiteVars, spendVars, benchVars, pageVars>>

Publishing ==
  /\ at_work = "pages"
  /\ ThePages!Next
  /\ UNCHANGED <<at_work, suiteVars, spendVars, benchVars, coverVars>>

Next == Comparing \/ Spending \/ Benchmarking \/ Covering \/ Publishing

Spec == Init /\ [][Next]_vars

-----------------------------------------------------------------------------
\* Suite: both engines hear the same, and what is published is ours over theirs.
ToldTheSame  == TheSuite!ToldTheSame
CostsAreFair == TheSuite!CostsAreFair

\* Spend: a record is counted once, at the middle of its runs.
SpendsPair == TheSpend!SpendsPair

\* Benchmarks: both engines are handed the same text equally often.
BenchmarksAreFair == TheBenchmarks!BenchmarksAreFair

\* Coverage: what is claimed was asked, and nobody is blamed for a panic before it.
PassedIsEarned == TheCoverage!PassedIsEarned

\* Pages: a page carries one run, and says when it is another measurement.
PageCarriesOneRun == ThePages!PageCarriesOneRun
=============================================================================
