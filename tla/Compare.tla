------------------------------- MODULE Compare -------------------------------
(***************************************************************************)
(* `compare` of compare.rs: what two engines said, line by line against    *)
(* each other.  An outcome is an error, with its kind and the first line   *)
(* of its message, or a table: columns with a name and a type, and rows of *)
(* cells.  A cell is a number, NULL the smallest of them, so that rows     *)
(* sort the way the code sorts them.  The differences are a set, since     *)
(* nothing here depends on the order they are printed in.                  *)
(***************************************************************************)
EXTENDS Naturals, Sequences, TLC

Error(kind, headline) == [said |-> "error", kind |-> kind, headline |-> headline]
Table(columns, rows)  == [said |-> "rows", columns |-> columns, rows |-> rows]

IsRows(outcome) == outcome.said = "rows"

\* The derived order of rows: cell by cell.
Less(x, y) ==
  \E k \in DOMAIN x : /\ \A j \in 1..(k - 1) : x[j] = y[j]
                      /\ x[k] < y[k]

Arranged(rows, ordering) ==
  IF ordering = "sorted" THEN SortSeq(rows, Less) ELSE rows

Errors(a, b, messages) ==
  IF a.kind # b.kind THEN {[what |-> "error kind", left |-> a.kind, right |-> b.kind]}
  ELSE IF messages = "headline" /\ a.headline # b.headline
    THEN {[what |-> "error text"]}
    ELSE {}

ColumnDifferences(a, b) ==
  UNION {(IF a[at].name # b[at].name THEN {[what |-> "column name", at |-> at]} ELSE {})
         \cup (IF a[at].type # b[at].type THEN {[what |-> "column type", at |-> at]} ELSE {})
         : at \in DOMAIN a}

\* A width ends the comparison, a height ends it after the columns.
Tables(a, b, ordering) ==
  IF Len(a.columns) # Len(b.columns) THEN {[what |-> "width"]}
  ELSE ColumnDifferences(a.columns, b.columns) \cup
       IF Len(a.rows) # Len(b.rows) THEN {[what |-> "height"]}
       ELSE LET x == Arranged(a.rows, ordering)
                y == Arranged(b.rows, ordering)
                Differ(cell) == x[cell[1]][cell[2]] # y[cell[1]][cell[2]]
            IN  {[what |-> "value", row |-> cell[1], at |-> cell[2]] :
                   cell \in {c \in (DOMAIN x) \X (DOMAIN a.columns) : Differ(c)}}

Differences(left, right, ordering, messages) ==
  CASE ~IsRows(left) /\ ~IsRows(right) -> Errors(left, right, messages)
    [] ~IsRows(left) /\ IsRows(right)  -> {[what |-> "only left errored", kind |-> left.kind]}
    [] IsRows(left) /\ ~IsRows(right)  -> {[what |-> "only right errored", kind |-> right.kind]}
    [] IsRows(left) /\ IsRows(right)   -> Tables(left, right, ordering)

\* The same question about a text nobody runs: an acceptance is a table of nothing.
AcceptanceDifferences(left, right, messages) ==
  CASE IsRows(left) /\ IsRows(right)   -> {}
    [] ~IsRows(left) /\ IsRows(right)  -> {[what |-> "only left rejected", kind |-> left.kind]}
    [] IsRows(left) /\ ~IsRows(right)  -> {[what |-> "only right rejected", kind |-> right.kind]}
    [] ~IsRows(left) /\ ~IsRows(right) -> Errors(left, right, messages)
=============================================================================
