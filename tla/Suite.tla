-------------------------------- MODULE Suite --------------------------------
(***************************************************************************)
(* A list of statements through two engines: suite.rs.  Each statement is  *)
(* put to the left engine and then to the right one, and a record that is  *)
(* worth timing is put to both of them again until it has been run RUNS    *)
(* times.  An engine says what it says and costs what it costs: both are   *)
(* chosen anew each time it is asked.                                      *)
(***************************************************************************)
EXTENDS Compare, Resource

CONSTANTS
  Statements,   (* The statements the list is made of.                     *)
  orders,       (* Which of them fix their own row order.                  *)
  Outcomes,     (* What an engine may say.                                 *)
  Reports,      (* What GNU time may write beside it.                      *)
  Couples,      (* The pairs of names the two engines may have.            *)
  MaxCases      (* How many statements a list has.                         *)

VARIABLES
  suite_mode,   (* "parse", "run", or "measure": a run with Measure::On.   *)
  names,        (* What the two engines call themselves, by side.          *)
  suite_at,     (* "left" or "right", whose turn it is, or where it ended. *)
  suite_sql,    (* The statement in hand.                                  *)
  said,         (* What the engines said to it first.                      *)
  samples,      (* What each run of it cost, by side.                      *)
  rounds,       (* How many times it has been put to both.                 *)
  cases,        (* The report.                                             *)
  heard         (* History: everything each engine was told.               *)

suiteVars == <<suite_mode, names, suite_at, suite_sql, said, samples, rounds, cases, heard>>

Sides  == {"left", "right"}
NoSql  == "no statement"
Silent == [said |-> "nothing"]

Fresh ==
  /\ said' = [side \in Sides |-> Silent]
  /\ samples' = [side \in Sides |-> <<>>]
  /\ rounds' = 0

Init ==
  /\ suite_mode \in {"parse", "run", "measure"}
  /\ names \in Couples
  /\ suite_at = "next"
  /\ suite_sql = NoSql
  /\ said = [side \in Sides |-> Silent]
  /\ samples = [side \in Sides |-> <<>>]
  /\ rounds = 0
  /\ cases = <<>>
  /\ heard = [side \in Sides |-> <<>>]

Take ==
  /\ suite_at = "next"
  /\ Len(cases) < MaxCases
  /\ suite_sql' \in Statements
  /\ suite_at' = "left"
  /\ Fresh
  /\ UNCHANGED <<suite_mode, names, cases, heard>>

\* Only the first answer is kept; a run for the timing is not looked at again.
Ask(side, outcome, usage) ==
  /\ suite_at = side
  /\ said' = IF rounds = 0 THEN [said EXCEPT ![side] = outcome] ELSE said
  /\ samples' = [samples EXCEPT ![side] = IF usage = Nothing THEN @ ELSE Append(@, usage)]
  /\ heard' = [heard EXCEPT ![side] = Append(@, suite_sql)]
  /\ suite_at' = IF side = "left" THEN "right" ELSE "judge"
  /\ rounds' = IF side = "left" THEN rounds ELSE rounds + 1
  /\ UNCHANGED <<suite_mode, names, suite_sql, cases>>

AskLeft  == \E o \in Outcomes, r \in Reports : Ask("left", o, Metered(suite_mode = "measure", r))
AskRight == \E o \in Outcomes, r \in Reports : Ask("right", o, Metered(suite_mode = "measure", r))

OrderingOf(sql) == IF sql \in orders THEN "as written" ELSE "sorted"

Found ==
  IF suite_mode = "parse"
    THEN AcceptanceDifferences(said["left"], said["right"], "kind")
    ELSE Differences(said["left"], said["right"], OrderingOf(suite_sql), "kind")

\* Rows on both sides that agree, a cost on both, and one of them above the floor.
WorthTiming ==
  /\ suite_mode = "measure"
  /\ Found = {}
  /\ IsRows(said["left"]) /\ IsRows(said["right"])
  /\ samples["left"] # <<>> /\ samples["right"] # <<>>
  /\ samples["left"][1].wall >= FLOOR \/ samples["right"][1].wall >= FLOOR

NoCost == <<Nothing, Nothing>>

Close(cost) ==
  /\ cases' = Append(cases, [sql |-> suite_sql, agreed |-> Found = {}, cost |-> cost])
  /\ suite_at' = "next"
  /\ suite_sql' = NoSql
  /\ UNCHANGED <<suite_mode, names, said, samples, rounds, heard>>

\* Mutant: the left engine is run for its timing on its own.
RepeatLeftOnly ==
  /\ suite_at = "judge"
  /\ rounds < RUNS
  /\ rounds = 1 => WorthTiming
  /\ suite_at' = "judge"
  /\ rounds' = rounds + 1
  /\ heard' = [heard EXCEPT !["left"] = Append(@, suite_sql)]
  /\ UNCHANGED <<suite_mode, names, suite_sql, said, samples, cases>>

Repeat ==
  /\ suite_at = "judge"
  /\ rounds < RUNS
  /\ rounds = 1 => WorthTiming
  /\ suite_at' = "left"
  /\ UNCHANGED <<suite_mode, names, suite_sql, said, samples, rounds, cases, heard>>

Untimed ==
  /\ suite_at = "judge"
  /\ rounds = 1
  /\ ~WorthTiming
  /\ Close(NoCost)

\* `zip`: both middles, or neither.
Timed ==
  /\ suite_at = "judge"
  /\ rounds = RUNS
  /\ RUNS > 1 \/ WorthTiming
  /\ Close(<<Middle(samples["left"]), Middle(samples["right"])>>)

\* An engine that could not be run ends the run without a report.
Break ==
  /\ suite_at \in Sides
  /\ suite_at' = "broken"
  /\ UNCHANGED <<suite_mode, names, suite_sql, said, samples, rounds, cases, heard>>

Finish ==
  /\ suite_at = "next"
  /\ Len(cases) = MaxCases
  /\ suite_at' = "done"
  /\ UNCHANGED <<suite_mode, names, suite_sql, said, samples, rounds, cases, heard>>

Next == Take \/ AskLeft \/ AskRight \/ Repeat \/ Untimed \/ Timed \/ Break \/ Finish

-----------------------------------------------------------------------------
\* `side`: which engine is ours, by the name it gives, or neither.
Ours ==
  CASE names["left"] = "rudb" /\ names["right"] # "rudb" -> "left"
    [] names["left"] # "rudb" /\ names["right"] = "rudb" -> "right"
    [] OTHER                                             -> "neither"

\* Mutant: rudb is taken to be the left engine.
OrientedLeft(cost) == cost

\* A cost as ours and theirs.
Oriented(cost) == IF Ours = "left" THEN cost ELSE <<cost[2], cost[1]>>

Costed == Sublist(cases, {i \in DOMAIN cases : cases[i].cost # NoCost})

ReportRatios ==
  IF Ours = "neither" THEN NoRatios
  ELSE Ratios([i \in DOMAIN Costed |-> Oriented(Costed[i].cost)])

\* `share`, in hundredths: no cases is zero and not a division.
Agreed == Cardinality({i \in DOMAIN cases : cases[i].agreed})
Share  == IF cases = <<>> THEN 0 ELSE (100 * Agreed) \div Len(cases)

\* `verdict`: what the exit code of the command says.
ExitsWell == Agreed = Len(cases)

\* `worst`: the slowest of them, by the ratio of wall clocks.
Worst ==
  LET rising == Sorted(Shares([i \in DOMAIN Costed |-> Oriented(Costed[i].cost)], "wall"))
  IN  IF Ours = "neither" THEN <<>>
      ELSE [i \in 1..Len(rising) |-> rising[(Len(rising) - i) + 1]]

-----------------------------------------------------------------------------
(***************************************************************************)
(* Properties.                                                             *)
(***************************************************************************)

\* Whenever a statement is about to be put to the engines, both have been told
\* the same statements in the same order, the runs that were only for the timing
\* included: a statement that changes something changes it as often on both.
ToldTheSame ==
  /\ suite_at \in {"next", "done"} => heard["left"] = heard["right"]
  /\ suite_at = "right" => heard["left"] = Append(heard["right"], suite_sql)

\* Every timed run of ours was slower than theirs.
AlwaysSlower ==
  \A i \in DOMAIN cases :
    cases[i].cost # NoCost =>
      LET pair == IF names["left"] = "rudb" THEN cases[i].cost
                  ELSE <<cases[i].cost[2], cases[i].cost[1]>>
      IN  pair[1].wall > pair[2].wall

\* A record that is published with a cost was asked of both engines RUNS times
\* and its number is one of the runs, with no more than half of them on either
\* side of it; and the ratio is ours over theirs whichever side is which: when
\* every timed run of ours was slower than every one of theirs, the median is
\* one or more, and so is the worst of them.
CostsAreFair ==
  /\ suite_at = "next" /\ cases # <<>> /\ cases[Len(cases)].cost # NoCost =>
       /\ rounds = RUNS
       /\ IsTheMiddle(cases[Len(cases)].cost[1], samples["left"])
       /\ IsTheMiddle(cases[Len(cases)].cost[2], samples["right"])
  /\ suite_at = "done" /\ ReportRatios # NoRatios /\ AlwaysSlower =>
       /\ ReportRatios.time.median >= 400
       /\ ReportRatios.time.low <= ReportRatios.time.median
       /\ ReportRatios.time.median <= ReportRatios.time.high
       /\ \A i \in DOMAIN Worst : Worst[i] >= 100 /\ Worst[i] <= Worst[1]
=============================================================================
