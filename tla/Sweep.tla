-------------------------------- MODULE Sweep --------------------------------
(***************************************************************************)
(* The corpus once with every pass off and once per pass with only that    *)
(* pass on: sweep.rs, over the library driver.  A corpus is a sequence of  *)
(* files and a file of lines.  A line is a record, with the file's line it *)
(* is reported under and the culprits it meets (see Bisect); or it sets    *)
(* the passes, asks for an empty database, reconnects, or runs on a        *)
(* connection it names.  The turns of a loop are records under one line.   *)
(***************************************************************************)
EXTENDS RudbDriver, Sequences, FiniteSets

CONSTANTS
  Order,         (* The passes in the order they are published.            *)
  Corpora        (* The corpora to sweep.                                  *)

VARIABLES
  corpus,
  sweep_run,     (* 0 for the baseline, then one for each pass, then over. *)
  file,          (* The file being run, 0 before the first.                *)
  line,          (* The line of it.                                        *)
  failures,      (* What each run failed, by file and line.                *)
  stale,         (* History: statements that ran on a database let go of.  *)
  company        (* History: failures of a run whose passes were not its.  *)

sweepVars == <<driverVars, corpus, sweep_run, file, line, failures, stale, company>>

Runs == 0..Len(Order)

Begin ==
  /\ sweep_run = 0
  /\ file = 0
  /\ line = 1
  /\ failures = [r \in Runs |-> {}]
  /\ stale = {}
  /\ company = {}
  /\ optimizer = "off"
  /\ database = 1
  /\ disabled = TurnedOff("off")
  /\ current = None
  /\ named = [c \in Connections |-> None]

Init == corpus \in Corpora /\ Begin

Here == corpus[file][line]

Reading == sweep_run \in Runs /\ file > 0 /\ line <= Len(corpus[file])

\* The engine is reset in front of every file.
NextFile ==
  /\ sweep_run \in Runs
  /\ file < Len(corpus)
  /\ file > 0 => line > Len(corpus[file])
  /\ file' = file + 1
  /\ line' = 1
  /\ Reset
  /\ UNCHANGED <<corpus, sweep_run, failures, stale, company>>

StepLine == line' = line + 1 /\ UNCHANGED <<corpus, sweep_run, file>>

Obey ==
  /\ Reading
  /\ \/ Here.kind = "set" /\ Disable(Here.passes)
     \/ Here.kind = "fresh" /\ Reset
     \/ Here.kind = "reconnect" /\ Reconnect
  /\ StepLine
  /\ UNCHANGED <<failures, stale, company>>

Fails(record) == \E c \in record.culprits : c \cap disabled = {}

Own(r) == IF r = 0 THEN Optimizers ELSE Optimizers \ {Order[r]}

Record ==
  /\ Reading
  /\ Here.kind = "record"
  /\ IF Here.on \in Connections THEN RunOn(Here.on) ELSE RunUnnamed
  /\ stale' = IF Reached(IF Here.on \in Connections THEN named[Here.on] ELSE current) = database
                THEN stale ELSE stale \cup {<<file, line>>}
  /\ IF Fails(Here)
       THEN /\ failures' = [failures EXCEPT ![sweep_run] = @ \cup {<<file, Here.line>>}]
            /\ company' = IF disabled = Own(sweep_run) THEN company
                          ELSE company \cup {<<sweep_run, file, Here.line>>}
       ELSE UNCHANGED <<failures, company>>
  /\ StepLine

NextRun ==
  /\ sweep_run \in Runs
  /\ file = Len(corpus) /\ line > Len(corpus[file])
  /\ sweep_run' = sweep_run + 1
  /\ file' = 0
  /\ line' = 1
  /\ IF sweep_run < Len(Order) THEN Opened(Order[sweep_run + 1]) ELSE UNCHANGED driverVars
  /\ UNCHANGED <<corpus, failures, stale, company>>

Next == NextFile \/ Obey \/ Record \/ NextRun

Over == sweep_run = Len(Order) + 1

\* Mutant: the baseline is not set aside.
ChangedAnyway ==
  UNION {{<<r, at[1], at[2]>> : at \in failures[r]} : r \in Runs \ {0}}

\* `changed`: what a run with one pass failed and the baseline did not.
Changed ==
  UNION {{<<r, at[1], at[2]>> : at \in failures[r] \ failures[0]} : r \in Runs \ {0}}

\* `clean`, which is what the exit code of the command says.
Clean == Changed = {}

-----------------------------------------------------------------------------
(***************************************************************************)
(* Properties.                                                             *)
(***************************************************************************)

Turns(f, l) == {r \in {corpus[f][i] : i \in DOMAIN corpus[f]} : r.kind = "record" /\ r.line = l}

LeavesPassesAlone ==
  \A f \in DOMAIN corpus : \A i \in DOMAIN corpus[f] : corpus[f][i].kind # "set"

\* A record named against a pass failed while that pass was the only rewrite on,
\* even in a file that sets the passes itself.  In a corpus that leaves the setting
\* alone it is named exactly when the pass alone gives some turn of it a wrong
\* answer and no turn of it is wrong without any pass: never a pass that needs
\* another, never one for a bug of the executor, and none is missed but behind a
\* turn the baseline fails.
NamedPassDidIt ==
  Over =>
    /\ Changed \cap company = {}
    /\ LeavesPassesAlone =>
         \A r \in Runs \ {0} : \A f \in DOMAIN corpus :
           \A l \in {t.line : t \in {x \in {corpus[f][i] : i \in DOMAIN corpus[f]} : x.kind = "record"}} :
             <<r, f, l>> \in Changed <=>
               /\ \E t \in Turns(f, l) : {Order[r]} \in t.culprits
               /\ \A t \in Turns(f, l) : {} \notin t.culprits

\* No statement of a file runs on a database an earlier file, or an earlier load of
\* this one, had open, whichever connection it names and however it reconnected.
NothingRunsOnAnOldDatabase == stale = {}
=============================================================================
