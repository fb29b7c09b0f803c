-------------------------------- MODULE Kinds --------------------------------
(***************************************************************************)
(* Statement coverage: kinds.rs.  What a run saw of the statement surface  *)
(* is a tally for every kind it has a record of, and how many records the  *)
(* grammar could not sort.                                                 *)
(***************************************************************************)
EXTENDS Naturals, FiniteSets

CONSTANT Surface    (* The kinds the vendored grammar has.                 *)

NoTally == [passed |-> 0, failed |-> 0]
NoKinds == [seen |-> [k \in {} |-> NoTally], unclassified |-> 0]

\* `tally`: nothing at all for a kind with no records.
TallyOf(kinds, kind) == IF kind \in DOMAIN kinds.seen THEN kinds.seen[kind] ELSE NoTally

\* `charged`: so many more records of a kind, known before or not.
Charged(kinds, kind, passed, failed) ==
  LET had == TallyOf(kinds, kind)
  IN  [kinds EXCEPT !.seen = [k \in DOMAIN @ \cup {kind} |->
         IF k = kind THEN [passed |-> had.passed + passed, failed |-> had.failed + failed]
         ELSE @[k]]]

\* Mutant: what the other run saw of a kind takes the place of what was there.
AbsorbKindsOver(kinds, other) ==
  [seen |-> [k \in DOMAIN kinds.seen \cup DOMAIN other.seen |->
               IF k \in DOMAIN other.seen THEN other.seen[k] ELSE kinds.seen[k]],
   unclassified |-> kinds.unclassified + other.unclassified]

\* `absorb`: the counts of another run, kind by kind.
AbsorbKinds(kinds, other) ==
  LET Sum(k) == [passed |-> TallyOf(kinds, k).passed + TallyOf(other, k).passed,
                 failed |-> TallyOf(kinds, k).failed + TallyOf(other, k).failed]
  IN  [seen |-> [k \in DOMAIN kinds.seen \cup DOMAIN other.seen |-> Sum(k)],
       unclassified |-> kinds.unclassified + other.unclassified]

\* Every record of it passed and there was at least one.
IsSupported(tally) == tally.failed = 0 /\ tally.passed > 0

Supported(kinds) == {k \in Surface : IsSupported(TallyOf(kinds, k))}
Failing(kinds)   == {k \in Surface : TallyOf(kinds, k).failed > 0}
Untouched(kinds) == {k \in Surface : TallyOf(kinds, k) = NoTally}

\* `rate`, in percent, over the whole surface and not over what was reached.
Rate(kinds) ==
  IF Surface = {} THEN 0 ELSE (100 * Cardinality(Supported(kinds))) \div Cardinality(Surface)
=============================================================================
