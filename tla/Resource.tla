------------------------------ MODULE Resource ------------------------------
(***************************************************************************)
(* What a statement cost: resource.rs.  A duration and a size are numbers. *)
(* A ratio is in hundredths, rounded down, and a quantile in quarters of   *)
(* one, so that the interpolation between neighbours is exact.             *)
(***************************************************************************)
EXTENDS Integers, Sequences, FiniteSets, Functions, Sublists

CONSTANTS
  FLOOR,    (* Below it on both engines a record is not worth a ratio.     *)
  RUNS      (* How many times a record that is worth timing is run.        *)

ASSUME ResourceAssumption == FLOOR \in Nat /\ RUNS \in Nat \ {0}

Nothing == [wall |-> -1, cpu |-> -1, peak |-> -1]     \* Option<Usage>'s None

(***************************************************************************)
(* `Usage::parse`: all three of what GNU time says, or nothing.  A report  *)
(* is a function from the labels found in it to the numbers beside them.   *)
(***************************************************************************)
Wanted == {"user", "system", "elapsed", "maximum"}

Parse(report) ==
  IF Wanted \subseteq DOMAIN report
    THEN [wall |-> report["elapsed"], cpu |-> report["user"] + report["system"],
          peak |-> report["maximum"] * 1024]
    ELSE Nothing

\* Whether a run comes back with numbers: a meter, and a report it got to write.
Metered(measures, report) == IF measures THEN Parse(report) ELSE Nothing

-----------------------------------------------------------------------------
\* `sort_by`, which is stable: who comes before one, and who is at a place.
Ahead(keys, i) == {j \in DOMAIN keys : keys[j] < keys[i] \/ (keys[j] = keys[i] /\ j < i)}
Placed(keys, k) == CHOOSE i \in DOMAIN keys : Cardinality(Ahead(keys, i)) = k - 1
Sorted(values) == [k \in DOMAIN values |-> values[Placed(values, k)]]

\* `quantile`, at a number of quarters of the way, in quarters of a ratio.
Quantile(sorted, quarters) ==
  LET position == quarters * (Len(sorted) - 1)
      below    == position \div 4
      above    == IF below + 1 < Len(sorted) THEN below + 1 ELSE Len(sorted) - 1
      fraction == position % 4
  IN  sorted[below + 1] * (4 - fraction) + sorted[above + 1] * fraction

NoSpread == [count |-> 0]

Spread(values) ==
  LET sorted == Sorted(values)
  IN  IF values = <<>> THEN NoSpread
      ELSE [median |-> Quantile(sorted, 2), low |-> Quantile(sorted, 1),
            high |-> Quantile(sorted, 3), count |-> Len(sorted)]

\* `share`: nothing when the divisor is zero.
Shares(pairs, field) ==
  LET Over(pair) == (100 * pair[1][field]) \div pair[2][field]
      kept       == Sublist(pairs, {i \in DOMAIN pairs : pairs[i][2][field] > 0})
  IN  [i \in DOMAIN kept |-> Over(kept[i])]

\* Below the floor on both engines a pair is dropped, below it on one it is not.
WorthDividing(pair) == pair[1].wall >= FLOOR \/ pair[2].wall >= FLOOR

NoRatios == [time |-> NoSpread, cpu |-> NoSpread, memory |-> NoSpread]

\* The three ratios, ours over theirs, or none at all when one of them is.
Ratios(pairs) ==
  LET kept   == Sublist(pairs, {i \in DOMAIN pairs : WorthDividing(pairs[i])})
      ratios == [time   |-> Spread(Shares(kept, "wall")),
                 cpu    |-> Spread(Shares(kept, "cpu")),
                 memory |-> Spread(Shares(kept, "peak"))]
  IN  IF \E what \in DOMAIN ratios : ratios[what] = NoSpread THEN NoRatios ELSE ratios

\* `middle`: one run's three numbers, the run in the middle by wall clock.
Middle(runs) ==
  IF runs = <<>> THEN Nothing
  ELSE runs[Placed([i \in DOMAIN runs |-> runs[i].wall], (Len(runs) \div 2) + 1)]

\* A row for every group with at least so many pairs in it, over those worth dividing.
PerGroup(measured, enough) ==
  LET Pairs(g) == {one \in measured : one.group = g}
      Order(g) == CHOOSE f \in Bijection(1..Cardinality(Pairs(g)), Pairs(g)) : TRUE
      Listed(g) == [i \in 1..Cardinality(Pairs(g)) |-> Order(g)[i].pair]
      groups == {one.group : one \in measured}
      rows   == {g \in groups : Cardinality(Pairs(g)) >= enough /\ Ratios(Listed(g)) # NoRatios}
  IN  [g \in rows |-> Ratios(Listed(g))]

\* What it is to be in the middle of some runs.
IsTheMiddle(usage, runs) ==
  /\ \E i \in DOMAIN runs : runs[i] = usage
  /\ 2 * Cardinality({i \in DOMAIN runs : runs[i].wall < usage.wall}) <= Len(runs)
  /\ 2 * Cardinality({i \in DOMAIN runs : runs[i].wall > usage.wall}) <= Len(runs)
=============================================================================
