---------------------------- MODULE SecondOracle ----------------------------
(***************************************************************************)
(* Every file through rudb and then through DuckDB, and what each said of  *)
(* a record against what the other said: oracles.rs.  What a run of one    *)
(* file tells is a function from the records it reached; ConformRun says   *)
(* how it comes about.  A run that broke has told what it had by then.     *)
(***************************************************************************)
EXTENDS Naturals, Sequences, FiniteSets

CONSTANTS
  Records,      (* The places of the records in a file.                    *)
  Reasons,      (* Why a record may fail.                                  *)
  MaxFiles      (* How many files there are.                               *)

VARIABLES
  oracle_at,    (* Whose turn it is.                                       *)
  told,         (* What each engine said of the file in hand.              *)
  counts,       (* How many records came out each way.                     *)
  splits,       (* The records the two did not answer the same way.        *)
  unpaired,     (* How many records only one run reached.                  *)
  files,        (* How many files went in.                                 *)
  broke,        (* How many files each engine ended by breaking.           *)
  answers       (* History: what both said of every file.                  *)

oracleVars == <<oracle_at, told, counts, splits, unpaired, files, broke, answers>>

Said    == {"passed"} \cup Reasons
Telling == UNION {[reached -> Said] : reached \in SUBSET Records}
Nobody  == [r \in {} |-> "passed"]
Oracles == {"rudb", "duckdb"}

Verdicts == {"agreed", "gap", "stale", "harness"}

VerdictOf(rudb, duckdb) ==
  CASE rudb = "passed" /\ duckdb = "passed"  -> "agreed"
    [] rudb # "passed" /\ duckdb = "passed"  -> "gap"
    [] rudb # "passed" /\ duckdb # "passed"  -> "stale"
    [] rudb = "passed" /\ duckdb # "passed"  -> "harness"

Init ==
  /\ oracle_at = "rudb"
  /\ told = [o \in Oracles |-> Nobody]
  /\ counts = [v \in Verdicts |-> 0]
  /\ splits = {}
  /\ unpaired = 0
  /\ files = 0
  /\ broke = [o \in Oracles |-> 0]
  /\ answers = <<>>

RunOver(o) ==
  /\ oracle_at = o
  /\ files < MaxFiles
  /\ \E t \in Telling : told' = [told EXCEPT ![o] = t]
  /\ \/ UNCHANGED broke
     \/ broke' = [broke EXCEPT ![o] = @ + 1]
  /\ oracle_at' = IF o = "rudb" THEN "duckdb" ELSE "take"
  /\ UNCHANGED <<counts, splits, unpaired, files, answers>>

Both == DOMAIN told["rudb"] \cap DOMAIN told["duckdb"]

VerdictAt(r) == VerdictOf(told["rudb"][r], told["duckdb"][r])

\* Mutant: what only DuckDB reached is not looked for.
UnpairedHere == Cardinality(DOMAIN told["rudb"] \ DOMAIN told["duckdb"])

Unpaired ==
  Cardinality(DOMAIN told["rudb"] \ DOMAIN told["duckdb"])
    + Cardinality(DOMAIN told["duckdb"] \ DOMAIN told["rudb"])

\* `take`, and `absorb` into the run's.
Take ==
  /\ oracle_at = "take"
  /\ counts' = [v \in Verdicts |-> counts[v] + Cardinality({r \in Both : VerdictAt(r) = v})]
  /\ splits' = splits \cup
       {[file |-> files + 1, at |-> r, verdict |-> VerdictAt(r), duckdb |-> told["duckdb"][r]] :
          r \in {x \in Both : VerdictAt(x) # "agreed"}}
  /\ unpaired' = unpaired + Unpaired
  /\ files' = files + 1
  /\ answers' = Append(answers, told)
  /\ told' = [o \in Oracles |-> Nobody]
  /\ oracle_at' = "rudb"
  /\ UNCHANGED broke

Next == RunOver("rudb") \/ RunOver("duckdb") \/ Take

\* What the report says over it.
Paired     == counts["agreed"] + counts["gap"] + counts["stale"] + counts["harness"]
Claimed    == counts["agreed"] + counts["harness"]
WhyStale   == [why \in Reasons |->
                 Cardinality({s \in splits : s.verdict = "stale" /\ s.duckdb = why})]
ExitsWell  == counts["harness"] = 0

-----------------------------------------------------------------------------
(***************************************************************************)
(* Properties.                                                             *)
(***************************************************************************)

\* Where a record of a file was reached by both runs, and by either.
Spots    == (DOMAIN answers) \X Records
ByBoth   == {p \in Spots : \A o \in Oracles : p[2] \in DOMAIN answers[p[1]][o]}
ByEither == {p \in Spots : \E o \in Oracles : p[2] \in DOMAIN answers[p[1]][o]}

What(o, p) == answers[p[1]][o][p[2]]

\* Every record either run reached is counted once, as a verdict when both reached
\* it and as unpaired when one did, whatever broke and wherever; what the one
\* oracle run would claim is what rudb passed of the first; and every stale one is
\* under the reason DuckDB gave.
OraclesCountOnce ==
  /\ Paired = Cardinality(ByBoth)
  /\ Paired + unpaired = Cardinality(ByEither)
  /\ Claimed = Cardinality({p \in ByBoth : What("rudb", p) = "passed"})
  /\ \A why \in Reasons :
       WhyStale[why] = Cardinality({p \in ByBoth : /\ What("rudb", p) # "passed"
                                                  /\ What("duckdb", p) = why})
  /\ ExitsWell <=> \A s \in splits : s.verdict # "harness"
=============================================================================
