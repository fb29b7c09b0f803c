----------------------------- MODULE Metamorphic -----------------------------
(***************************************************************************)
(* The oracles that need one engine: tlp.rs and norec.rs.  A predicate is  *)
(* put to an engine in two forms that have to agree: the rows, aggregates  *)
(* or groups of a query against those of its three parts, or how many rows *)
(* a filter keeps against how many of them the select list says are true.  *)
(* The engine is the environment.  It has one thing wrong with it or none, *)
(* in a rewrite, in its filter or in its evaluator, and it may refuse what *)
(* it likes.                                                               *)
(***************************************************************************)
EXTENDS Predicates, Compare, FiniteSets, SequencesExt

CONSTANTS
  Rows,        (* The fixture: rows of two columns, i and b.               *)
  Wrongs,      (* What an engine may have wrong, and where.                *)
  MaxAsked     (* A bound on the predicates a run tries.                   *)

VARIABLES
  form,        (* "where", "aggregate", "having", or "norec".              *)
  plain,       (* Whether norec has an engine with the passes off to ask.  *)
  wrong,       (* What is wrong with the engine, and where.                *)
  meta_at,     (* Where the run is.                                        *)
  asked,       (* The case: the predicate, and whether it may be refused.  *)
  results,     (* The tables its queries came back with.                   *)
  found        (* What the run reports.                                    *)

metaVars == <<form, plain, wrong, meta_at, asked, results, found>>

NoCase  == <<"none">>
NoFound == [cases |-> 0, held |-> 0, sharp |-> 0, refused |-> 0, broken |-> <<>>]
Typed(name) == [name |-> name, type |-> "INTEGER"]

-----------------------------------------------------------------------------
(***************************************************************************)
(* The engine: a predicate, or a clause over one, on rows or on groups.    *)
(***************************************************************************)
Wrong(what, sites) == wrong.what = what /\ wrong.site \in sites

\* A clause that keeps a row of unknown truth, or a table whose column has the
\* type of the rows that are left, is what an engine gets wrong here.
Clause(part, p, row, sites) ==
  LET t == Truth(p, row)
  IN  CASE part = "is true"  -> t = "true" \/ (Wrong("keeps", sites) /\ t = "unknown")
        [] part = "is false" -> Not(t) = "true"
        [] part = "is null"  -> t = "unknown" /\ ~Wrong("drops", sites)
        [] part = "whole"    -> TRUE

Kept(rows, part, p, sites) ==
  LET Keep(row) == Clause(part, p, row, sites) IN SelectSeq(rows, Keep)

RowsOf(rows) ==
  Table(<<Typed("i"), IF rows = <<>> /\ wrong.what = "types" THEN [name |-> "b", type |-> "NULL"]
                      ELSE Typed("b")>>,
        [k \in DOMAIN rows |-> <<rows[k].i, rows[k].b>>])

NotNull(rows) == {k \in DOMAIN rows : rows[k].i # NULL}
Values(rows)  == {rows[k].i : k \in NotNull(rows)}
Least(rows) == IF NotNull(rows) = {} THEN NULL ELSE Min(Values(rows))
Most(rows)  == IF NotNull(rows) = {} THEN NULL ELSE Max(Values(rows))
Total(rows) == IF NotNull(rows) = {} THEN NULL
               ELSE FoldFunction(+, 0, [k \in NotNull(rows) |-> rows[k].i])

AggregatesOf(rows) ==
  Table(<<Typed("count"), Typed("sum"), Typed("min"), Typed("max")>>,
        <<<<Len(rows), Total(rows), Least(rows), Most(rows)>>>>)

\* The groups of the fixture by b, with a NULL group like any other.
Groups ==
  LET keys == SetToSeq({Rows[k].b : k \in DOMAIN Rows})
      In(key, row) == row.b = key
      Of(key) == SelectSeq(Rows, LAMBDA row : In(key, row))
  IN  [g \in DOMAIN keys |-> [key |-> keys[g], count |-> Len(Of(keys[g])),
                              least |-> Least(Of(keys[g]))]]

GroupsOf(groups) ==
  Table(<<Typed("key"), Typed("count"), Typed("min")>>,
        [k \in DOMAIN groups |-> <<groups[k].key, groups[k].count, groups[k].least>>])

-----------------------------------------------------------------------------
(***************************************************************************)
(* A case and its queries.  `site` is where a query can go wrong: a filter *)
(* can in a rewrite, unless the passes are off, and in the filter itself;  *)
(* a select list only in the evaluator.                                    *)
(***************************************************************************)
Filtering(passes) == {"filter", "evaluator"} \cup (IF passes THEN {"rewrite"} ELSE {})

\* `whole`, and then `parts`: true first, then false, then unknown.
Parts == <<"whole", "is true", "is false", "is null">>

Partition(part) ==
  LET sites == Filtering(TRUE)
  IN  CASE form = "where"     -> RowsOf(Kept(Rows, part, asked, sites))
        [] form = "aggregate" -> AggregatesOf(Kept(Rows, part, asked, sites))
        [] form = "having"    -> GroupsOf(Kept(Groups, part, asked, sites))

\* `optimized` and `reference`.
Optimized(passes) == RowsOf(Kept(Rows, "is true", asked, Filtering(passes)))
Reference ==
  LET Says(row) == IF Clause("is true", asked, row, {"evaluator"}) THEN 1 ELSE 0
  IN  Table(<<Typed("is true")>>, [k \in DOMAIN Rows |-> <<Says(Rows[k])>>])

Queries == IF form = "norec" THEN 2 ELSE Len(Parts)

Query(n) ==
  IF form # "norec" THEN Partition(Parts[n])
  ELSE IF n = 1 THEN Optimized(meta_at = "asking") ELSE Reference

-----------------------------------------------------------------------------
(***************************************************************************)
(* What the answers come to.                                               *)
(***************************************************************************)
\* `reach`: the rows of a table, or what count(*) says.
Reach(table) == IF form = "aggregate" THEN table.rows[1][1] ELSE Len(table.rows)

\* `trues`
Trues(table) == Cardinality({k \in DOMAIN table.rows : table.rows[k] = <<1>>})

FOLDS == <<"total", "total", "least", "most">>

\* Mutant: a part that has nothing to say counts as zero.
FoldedFromZero(parts) ==
  LET Cells(at) == {k \in DOMAIN parts : TRUE}
      Cell(k, at) == IF parts[k].rows[1][at] = NULL THEN 0 ELSE parts[k].rows[1][at]
      Fold(at) ==
        LET cells == {Cell(k, at) : k \in Cells(at)}
        IN  CASE FOLDS[at] = "least" -> Min(cells)
              [] FOLDS[at] = "most"  -> Max(cells)
              [] FOLDS[at] = "total" -> FoldFunction(+, 0, [k \in Cells(at) |-> Cell(k, at)])
  IN  Table(parts[1].columns, <<[at \in DOMAIN parts[1].columns |-> Fold(at)]>>)

\* `folded`: the three aggregates added back up. One that is NULL in a part adds
\* nothing, and one that is NULL in all of them stays NULL.
Folded(parts) ==
  LET Cells(at) == {k \in DOMAIN parts : parts[k].rows[1][at] # NULL}
      Cell(k, at) == parts[k].rows[1][at]
      Fold(at) ==
        LET cells == {Cell(k, at) : k \in Cells(at)}
        IN  CASE cells = {}                          -> NULL
              [] cells # {} /\ FOLDS[at] = "least" -> Min(cells)
              [] cells # {} /\ FOLDS[at] = "most"  -> Max(cells)
              [] cells # {} /\ FOLDS[at] = "total" ->
                   FoldFunction(+, 0, [k \in Cells(at) |-> Cell(k, at)])
  IN  Table(parts[1].columns, <<[at \in DOMAIN parts[1].columns |-> Fold(at)]>>)

\* `united`
United(parts) == Table(parts[1].columns, parts[1].rows \o parts[2].rows \o parts[3].rows)

\* `shapes`: the columns of the parts against those of the first.
Bare(table) == Table(table.columns, <<>>)
Shapes(parts) ==
  UNION {Differences(Bare(parts[1]), Bare(parts[k]), "as written", "kind") : k \in 2..3}

PartsDiffer ==
  LET parts == Tail(results)
      together == IF form = "aggregate" THEN Folded(parts) ELSE United(parts)
  IN  Shapes(parts) \cup Differences(results[1], together, "sorted", "kind") # {}

CountsDiffer == Len(results[1].rows) # Trues(results[2])

Differs == IF form = "norec" THEN CountsDiffer ELSE PartsDiffer

\* Whether the predicate told rows apart at all.
Sharp ==
  IF form = "norec"
    THEN Trues(results[2]) > 0 /\ Trues(results[2]) < Len(results[2].rows)
    ELSE Cardinality({k \in 2..4 : Reach(results[k]) > 0}) > 1

-----------------------------------------------------------------------------
Init ==
  /\ form \in {"where", "aggregate", "having", "norec"}
  /\ plain \in {FALSE, form = "norec"}
  /\ wrong \in Wrongs
  /\ meta_at = "load"
  /\ asked = NoCase
  /\ results = <<>>
  /\ found = NoFound

\* `load`: a reset and the fixture. An engine that will not take it ends the run.
Load ==
  /\ meta_at = "load"
  /\ meta_at' \in {"next", "stopped"}
  /\ UNCHANGED <<form, plain, wrong, asked, results, found>>

Generate ==
  /\ meta_at = "next"
  /\ found.cases < MaxAsked
  /\ asked' \in Nested(IF form = "having" THEN Aggregate ELSE Leaf({"i"}, {"b"}))
  /\ meta_at' = "asking"
  /\ results' = <<>>
  /\ UNCHANGED <<form, plain, wrong, found>>

\* A query that is answered, by the engine or by the one with its passes off.
Ask ==
  /\ meta_at \in {"asking", "without"}
  /\ Len(results) < Queries
  /\ results' = Append(results, Query(Len(results) + 1))
  /\ UNCHANGED <<form, plain, wrong, meta_at, asked, found>>

Conclude(as) ==
  /\ found' = as
  /\ meta_at' = "next"
  /\ asked' = NoCase
  /\ results' = <<>>
  /\ UNCHANGED <<form, plain, wrong>>

\* One that is refused. norec asks both of its own again for what was said, and says
\* so when nothing is refused then.
Refuse ==
  /\ meta_at = "asking"
  /\ Len(results) < Queries
  /\ Conclude([found EXCEPT !.cases = @ + 1, !.refused = @ + 1])

Hold ==
  /\ meta_at = "asking"
  /\ Len(results) = Queries
  /\ ~Differs
  /\ Conclude([found EXCEPT !.cases = @ + 1, !.held = @ + 1,
                            !.sharp = @ + (IF Sharp THEN 1 ELSE 0)])

Broken(verdict) == [found EXCEPT !.cases = @ + 1, !.broken = Append(@, verdict)]

\* A predicate the two forms disagree about. Only norec has another engine to ask.
Split ==
  /\ meta_at = "asking"
  /\ Len(results) = Queries
  /\ Differs
  /\ IF form = "norec" /\ plain
       THEN /\ meta_at' = "without"
            /\ results' = <<>>
            /\ UNCHANGED <<form, plain, wrong, asked, found>>
       ELSE Conclude(Broken("none"))

\* `verdict`: what the engine with its passes off says of the same predicate.
Judge ==
  /\ meta_at = "without"
  /\ Len(results) = Queries
  /\ Conclude(Broken(IF CountsDiffer THEN "deeper" ELSE "optimizer"))

RefuseWithout ==
  /\ meta_at = "without"
  /\ Len(results) < Queries
  /\ Conclude(Broken("unknown"))

\* An engine that could not be run ends the run with nothing reported.
Stop ==
  /\ meta_at \in {"asking", "without"}
  /\ meta_at' = "stopped"
  /\ found' = NoFound
  /\ asked' = NoCase
  /\ results' = <<>>
  /\ UNCHANGED <<form, plain, wrong>>

Next == Load \/ Generate \/ Ask \/ Refuse \/ Hold \/ Split \/ Judge \/ RefuseWithout \/ Stop

\* `recorded`: what of a run the series counts as usable.
Usable == found.cases - found.refused

-----------------------------------------------------------------------------
(***************************************************************************)
(* Properties.                                                             *)
(***************************************************************************)

\* An engine that evaluates every predicate right is never blamed, in any form, over
\* any predicate the generator can write, NULLs and empty parts included. And norec's
\* verdict is where the bug is: the optimizer only for a rewrite, deeper only for what
\* is wrong with the passes off as well.
OraclesBlameTheGuilty ==
  /\ found.broken # <<>> => wrong.what # "none"
  /\ \A k \in DOMAIN found.broken :
       /\ found.broken[k] = "optimizer" => wrong.site = "rewrite"
       /\ found.broken[k] = "deeper" => wrong.site = "filter"
  /\ Usable = found.held + Len(found.broken) /\ found.sharp <= found.held
=============================================================================
