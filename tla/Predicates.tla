------------------------------ MODULE Predicates ------------------------------
(***************************************************************************)
(* The predicates the metamorphic oracles are written over: predicate.rs,  *)
(* and what an engine that has SQL's three truth values makes of them.  A  *)
(* predicate is a tuple, what it is first and then what it is over; a row  *)
(* is a function from the names a predicate may use to numbers or NULL,    *)
(* and a boolean is 0 or 1.                                                *)
(***************************************************************************)
EXTENDS Integers

CONSTANTS
  DEPTH,       (* How deep a predicate may nest.                           *)
  Literals     (* The numbers a comparison may be made against.            *)

NULL   == -9                         \* the smallest cell, as compare.rs sorts
Truths == {"true", "false", "unknown"}
Pool   == Literals \cup {NULL}

-----------------------------------------------------------------------------
\* `term`: a column, or something computed from it that NULL passes through.
Terms(names) == {<<"column", n>> : n \in names} \cup {<<"minus", n>> : n \in names}
                  \cup {<<"coalesce", n>> : n \in names}

\* `leaf`: everything a predicate may be at the bottom.
Leaf(names, booleans) ==
  LET terms == Terms(names)
  IN  {<<"compare", op, t, v>> : op \in {"=", "<"}, t \in terms, v \in Pool}
        \cup {<<"null", t, is>> : t \in terms, is \in BOOLEAN}
        \cup {<<"between", t, v, w>> : t \in terms, v \in Pool, w \in Pool}
        \cup {<<"in", t, v, w>> : t \in terms, v \in Pool, w \in Pool}
        \cup {<<"distinct", t, v>> : t \in terms, v \in Pool}
        \cup {<<"bare", b>> : b \in booleans}

\* `aggregate`: the same over a group, whose count is never NULL.
Aggregate ==
  {<<"compare", op, <<"column", n>>, v>> : op \in {"=", "<"}, n \in {"least", "key"}, v \in Pool}
    \cup {<<"compare", op, <<"column", "count">>, v>> : op \in {"=", "<"}, v \in Literals}
    \cup {<<"null", <<"column", "least">>, is>> : is \in BOOLEAN}

\* `expr` and `aggregated`: a leaf, or an operator over what nests less.
Nested(leaves) ==
  LET Of[d \in 0..DEPTH] ==
        IF d = 0 THEN leaves
        ELSE leaves \cup {<<"not", p>> : p \in Of[d - 1]}
                    \cup {<<"is null", p>> : p \in Of[d - 1]}
                    \cup {<<c, p, q>> : c \in {"and", "or"}, p \in Of[d - 1], q \in Of[d - 1]}
  IN  Of[DEPTH]

-----------------------------------------------------------------------------
Known(b) == IF b THEN "true" ELSE "false"

Not(t) == CASE t = "true" -> "false" [] t = "false" -> "true" [] t = "unknown" -> "unknown"

And(s, t) ==
  IF "false" \in {s, t} THEN "false" ELSE IF "unknown" \in {s, t} THEN "unknown" ELSE "true"

Or(s, t) == Not(And(Not(s), Not(t)))

Compared(op, x, y) ==
  IF NULL \in {x, y} THEN "unknown" ELSE Known(IF op = "=" THEN x = y ELSE x < y)

Value(term, row) ==
  LET x == row[term[2]]
  IN  CASE term[1] = "column"   -> x
        [] term[1] = "minus"    -> IF x = NULL THEN NULL ELSE -x
        [] term[1] = "coalesce" -> IF x = NULL THEN 0 ELSE x

RECURSIVE Truth(_, _)
Truth(p, row) ==
  CASE p[1] = "compare"  -> Compared(p[2], Value(p[3], row), p[4])
    [] p[1] = "null"     -> Known((Value(p[2], row) = NULL) = p[3])
    [] p[1] = "between"  -> And(Not(Compared("<", Value(p[2], row), p[3])),
                                Not(Compared("<", p[4], Value(p[2], row))))
    [] p[1] = "in"       -> Or(Compared("=", Value(p[2], row), p[3]),
                               Compared("=", Value(p[2], row), p[4]))
    [] p[1] = "distinct" -> Known(Value(p[2], row) # p[3])
    [] p[1] = "bare"     -> Compared("=", row[p[2]], 1)
    [] p[1] = "not"      -> Not(Truth(p[2], row))
    [] p[1] = "is null"  -> Known(Truth(p[2], row) = "unknown")
    [] p[1] = "and"      -> And(Truth(p[2], row), Truth(p[3], row))
    [] p[1] = "or"       -> Or(Truth(p[2], row), Truth(p[3], row))
=============================================================================
