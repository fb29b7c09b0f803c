----------------------------- MODULE Benchmarks -----------------------------
(***************************************************************************)
(* What the benchmark queries cost: cost.rs and the command over it.  Each *)
(* benchmark is a load and a query; the load on its own is measured first  *)
(* and ours before theirs at each step, every process on its own.  A text  *)
(* is a sequence of words: a call that says how big a table is, another    *)
(* open bracket, a close, a number with its size, or anything else.        *)
(***************************************************************************)
EXTENDS Resource

CONSTANTS
  Benches,     (* The benchmarks somebody may run.                         *)
  Prices,      (* What a process may cost.                                 *)
  CAP,         (* The most rows a load may build.                          *)
  MaxBenches   (* A bound on how many are run.                             *)

VARIABLES
  bench,       (* The benchmark in hand.                                   *)
  measuring,   (* Which of the four measurements it is in.                 *)
  sampled,     (* What the processes of that one cost.                     *)
  middles,     (* The measurements made.                                   *)
  costs,       (* The measured, the skipped and the refused.               *)
  given        (* History: the processes started for the one in hand.      *)

benchVars == <<bench, measuring, sampled, middles, costs, given>>

NoBench   == [group |-> "none"]
NAME == <<[is |-> "name", size |-> 0]>>     \* what is asked of a load: nothing
IsOpen(w)   == w.is \in {"range(", "f("}
IsClose(w)  == w.is = ")"
IsNumber(w) == w.is = "number"

-----------------------------------------------------------------------------
\* How many brackets a stretch of words leaves open.
Depth(text, from, to) ==
  Cardinality({i \in from..to : IsOpen(text[i])}) - Cardinality({i \in from..to : IsClose(text[i])})

NoClose == 0

\* Mutant: the first close bracket ends the call.
ClosingFirst(text, opens) ==
  LET closes == {i \in opens..Len(text) : IsClose(text[i])}
  IN  IF closes = {} THEN NoClose ELSE CHOOSE i \in closes : \A j \in closes : i <= j

\* `closing`: the matching close bracket, counting the ones in between.
Closing(text, opens) ==
  LET closes == {i \in opens..Len(text) : Depth(text, opens, i) = 0}
  IN  IF closes = {} THEN NoClose ELSE CHOOSE i \in closes : \A j \in closes : i <= j

\* The words between the brackets of the calls, up to one that is never closed; a call
\* among them is inside the brackets of the one around it.
Arguments(text) ==
  LET calls  == {i \in DOMAIN text : text[i].is = "range("}
      closed == {i \in calls : \A j \in calls : j <= i => Closing(text, j) # NoClose}
  IN  UNION {(i + 1)..(Closing(text, i) - 1) : i \in closed}

Capped(word) == IF IsNumber(word) /\ word.size > CAP THEN [word EXCEPT !.size = CAP] ELSE word

\* `cut`: the numbers of those calls, brought down to the cap.
Cut(text) ==
  LET inside == Arguments(text)
  IN  [i \in DOMAIN text |-> IF i \in inside THEN Capped(text[i]) ELSE text[i]]

\* `skipped`: what it requires, and then statement by statement what it mentions.
Skipped(b) ==
  LET statements == Append(b.load, b.sql)
      Why(s)     == IF "generator" \in s.mentions THEN "generator" ELSE "file"
      stops      == {i \in DOMAIN statements : statements[i].mentions # {}}
      first      == CHOOSE i \in stops : \A j \in stops : i <= j
  IN  CASE b.requires                  -> "requires"
        [] ~b.requires /\ stops # {}   -> Why(statements[first])
        [] ~b.requires /\ stops = {}   -> "no"

-----------------------------------------------------------------------------
\* The four measurements: whose process, and whether it is of the query.
Four == <<<<"ours", "load">>, <<"theirs", "load">>, <<"ours", "query">>, <<"theirs", "query">>>>

Init ==
  /\ bench = NoBench
  /\ measuring = 0
  /\ sampled = <<>>
  /\ middles = <<>>
  /\ costs = [measured |-> <<>>, skipped |-> <<>>, refused |-> <<>>]
  /\ given = <<>>

Done == Len(costs.measured) + Len(costs.skipped) + Len(costs.refused)

TakeBenchmark ==
  /\ bench = NoBench
  /\ Done < MaxBenches
  /\ \E b \in Benches :
       IF Skipped(b) # "no"
         THEN /\ costs' = [costs EXCEPT !.skipped = Append(@, Skipped(b))]
              /\ UNCHANGED <<bench, measuring>>
         ELSE /\ bench' = b
              /\ measuring' = 1
              /\ UNCHANGED costs
  /\ sampled' = <<>>
  /\ middles' = <<>>
  /\ given' = <<>>

TheLoad == [i \in DOMAIN bench.load |-> Cut(bench.load[i].text)]

Process(m) == [engine |-> Four[m][1], what |-> Four[m][2], load |-> TheLoad,
               sql    |-> IF Four[m][2] = "query" THEN Cut(bench.sql.text) ELSE NAME]

Leave == bench' = NoBench /\ measuring' = 0

\* A process that answered and was measured.
Measure ==
  /\ measuring \in DOMAIN Four
  /\ given' = Append(given, Process(measuring))
  /\ \E usage \in Prices :
       LET runs == Append(sampled, usage) IN
       IF Len(runs) < RUNS
         THEN /\ sampled' = runs
              /\ UNCHANGED <<bench, measuring, middles, costs>>
         ELSE /\ sampled' = <<>>
              /\ middles' = Append(middles, Middle(runs))
              /\ IF measuring < Len(Four)
                   THEN measuring' = measuring + 1 /\ UNCHANGED <<bench, costs>>
                   ELSE /\ costs' = [costs EXCEPT !.measured = Append(@,
                             [group |-> bench.group, pair |-> <<middles'[3], middles'[4]>>,
                              load  |-> <<middles'[1], middles'[2]>>])]
                        /\ Leave

\* Mutant: a load that was refused is only left out of its share.
RefuseTheQuery ==
  /\ measuring \in DOMAIN Four
  /\ given' = Append(given, Process(measuring))
  /\ sampled' = <<>>
  /\ IF Four[measuring][2] = "load"
       THEN /\ middles' = Append(middles, Nothing)
            /\ measuring' = measuring + 1
            /\ UNCHANGED <<bench, costs>>
       ELSE /\ costs' = [costs EXCEPT !.refused = Append(@, Four[measuring])]
            /\ Leave
            /\ UNCHANGED middles

\* A statement an engine refused, one that ran out of time, or no measurement.
RefuseBenchmark ==
  /\ measuring \in DOMAIN Four
  /\ given' = Append(given, Process(measuring))
  /\ costs' = [costs EXCEPT !.refused = Append(@, Four[measuring])]
  /\ Leave
  /\ UNCHANGED <<sampled, middles>>

\* An engine that cannot be run ends the command, and nothing it found is printed.
StopBenchmarks ==
  /\ measuring \in DOMAIN Four
  /\ bench' = [group |-> "broken"]
  /\ measuring' = 0
  /\ costs' = [measured |-> <<>>, skipped |-> <<>>, refused |-> <<>>]
  /\ UNCHANGED <<sampled, middles, given>>

Next == TakeBenchmark \/ Measure \/ RefuseBenchmark \/ StopBenchmarks

-----------------------------------------------------------------------------
\* `record_costs`: whether a run is written down where the page reads it.
Recorded(narrowed, pinned) == ~narrowed /\ pinned

\* `load_share`, in hundredths, on the pin and never more than all of it.
LoadShare(one) ==
  LET share == (100 * one.load[2].wall) \div one.pair[2].wall
  IN  IF one.pair[2].wall = 0 THEN 0 ELSE IF share > 100 THEN 100 ELSE share

-----------------------------------------------------------------------------
(***************************************************************************)
(* Properties.                                                             *)
(***************************************************************************)

Balanced(text) ==
  Depth(text, 1, Len(text)) = 0 /\ \A i \in DOMAIN text : Depth(text, 1, i) >= 0

Within(text, i) ==
  \E k \in 1..i : text[k].is = "range(" /\ \A j \in k..i : Depth(text, k, j) > 0

\* Cutting a text touches the numbers over the cap inside a call that says how big a
\* table is and nothing else, however the brackets nest; in a text whose brackets
\* match it leaves none of them.
CutIsExact(text) ==
  \A i \in DOMAIN text :
    /\ Cut(text)[i] # text[i] =>
         /\ Within(text, i) /\ IsNumber(text[i]) /\ text[i].size > CAP /\ Cut(text)[i].size = CAP
    /\ Balanced(text) /\ IsNumber(text[i]) /\ Within(text, i) => Cut(text)[i].size <= CAP

\* A ratio is over two engines that were handed the same thing equally often: no
\* process of a query is started before both engines have answered its load as often
\* as it is run, what is measured was run so often by each, and what they were handed
\* is the text with its row counts cut.
BenchmarksAreFair ==
  /\ measuring # 0 =>
       LET Ran(e, what) == {i \in DOMAIN given : given[i].engine = e /\ given[i].what = what}
       IN  /\ CutIsExact(bench.sql.text)
           /\ Ran("ours", "query") # {} =>
                \A e \in {"ours", "theirs"} : Cardinality(Ran(e, "load")) = RUNS
           /\ Ran("theirs", "query") # {} => Cardinality(Ran("ours", "query")) = RUNS
           /\ \A i, j \in DOMAIN given :
                given[i].load = given[j].load
                /\ given[i].what = given[j].what => given[i].sql = given[j].sql
  /\ \A i \in DOMAIN costs.measured :
       /\ \A u \in Range(costs.measured[i].pair) \cup Range(costs.measured[i].load) :
            u \in Prices
       /\ LoadShare(costs.measured[i]) \in 0..100
=============================================================================
