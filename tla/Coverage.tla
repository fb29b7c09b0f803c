------------------------------- MODULE Coverage -------------------------------
(***************************************************************************)
(* Function coverage: functions.rs writes calls for every row of DuckDB's  *)
(* function table, coverage.rs puts them to both engines and scores them,  *)
(* and ask.rs is what happens when an engine comes apart instead of        *)
(* answering: it is reset before it is asked anything else.  What is wrong *)
(* with the engines is the environment's: some calls they disagree about   *)
(* and some that one of them panics on.                                    *)
(***************************************************************************)
EXTENDS Naturals, Sequences, SequencesExt, FiniteSets, Sublists

CONSTANTS
  Catalogs,    (* What the function table may say.                         *)
  Edges,       (* The types with a boundary set, and their edges.          *)
  VOLATILE     (* The names whose answers are not in the call.             *)

VARIABLES
  rows,        (* The rows of the function table.                          *)
  trouble,     (* The calls something is wrong with, two at most, and what. *)
  pinned,      (* Whether the binary is the pinned one.                    *)
  cover_at,    (* Where the sweep is.                                      *)
  overload,    (* The row it is at.                                        *)
  call,        (* The call it is at, of that row.                          *)
  half,        (* The engines a panic left half done.                      *)
  differing,   (* The calls of this row they disagreed about.              *)
  scored,      (* What was said of the rows before this one.               *)
  recorded     (* The numbers a page would read.                           *)

coverVars == <<rows, trouble, pinned, cover_at, overload, call, half, differing, scored, recorded>>

KINDS == {"scalar", "aggregate", "window", "table", "macro", "table_macro", "pragma"}

-----------------------------------------------------------------------------
(***************************************************************************)
(* The calls.                                                              *)
(***************************************************************************)
\* `boundaries`: None for a type that is not in the table.
HasBoundaries(type) == type \in DOMAIN Edges

\* A call is the arguments that are not at their ordinary value, or how many there are.
Argument(at, value) == [at |-> at, value |-> value]

\* Mutant: only the first argument is ever made NULL.
CallsNullFirst(row) ==
  LET Values(at) == SetToSeq({Argument(at, v) : v \in Edges[row.parameters[at]]})
      known == row.kind = "scalar" /\ \A at \in DOMAIN row.parameters : HasBoundaries(row.parameters[at])
  IN  IF ~known THEN <<>>
      ELSE FlattenSeq([at \in DOMAIN row.parameters |-> Values(at)])
             \o [at \in DOMAIN row.parameters |-> Argument(1, "NULL")]
             \o [at \in DOMAIN row.parameters |-> Argument(at, "wrong")]

\* `calls`: one argument at a time over its edges, then each of them NULL, then each
\* of them of the wrong type. A function of no arguments is called once, and one that
\* takes any number of them with three more, when their type is one of the table.
Calls(row) ==
  LET each == DOMAIN row.parameters
      known == row.kind = "scalar" /\ \A at \in each : HasBoundaries(row.parameters[at])
      Values(at) == SetToSeq({Argument(at, v) : v \in Edges[row.parameters[at]]})
      Every(value) == [at \in each |-> Argument(at, value)]
  IN  IF ~known THEN <<>>
      ELSE FlattenSeq([at \in each |-> Values(at)])
             \o Every("NULL") \o Every("wrong")
             \o (IF each = {} THEN <<Argument(0, "no arguments")>> ELSE <<>>)
             \o (IF HasBoundaries(row.varargs) THEN <<Argument(0, "three trailing")>> ELSE <<>>)

\* `volatile`: by name, but for age of one argument, which is counted from today.
Volatile(row) == IF row.name = "age" THEN Len(row.parameters) = 1 ELSE row.name \in VOLATILE

\* `untested`
Untested(row) ==
  CASE Volatile(row) -> "volatile"
    [] ~Volatile(row) /\ Calls(row) = <<>> ->
         IF row.kind = "scalar" THEN "no boundary set" ELSE "kind not called"
    [] OTHER -> "no"

\* `inventory`: how many rows can be called, and who is in the way of the others.
Callable == {i \in DOMAIN rows : Calls(rows[i]) # <<>>}
Unknown(type) ==
  Cardinality({x \in UNION {{i} \X DOMAIN rows[i].parameters : i \in DOMAIN rows} :
                 /\ x[1] \notin Callable
                 /\ rows[x[1]].parameters[x[2]] = type
                 /\ ~HasBoundaries(type)})

-----------------------------------------------------------------------------
(***************************************************************************)
(* The sweep.                                                              *)
(***************************************************************************)
Sides == {"left", "right"}

Troubles(catalog) ==
  UNION {[row : {i}, call : DOMAIN Calls(catalog[i]), what : {"differs", "left panics", "right panics"}]
          : i \in DOMAIN catalog}

Nothing0 == [passed |-> 0, failed |-> 0, untested |-> 0, total |-> 0]
NotRecorded == [names |-> Nothing0, overloads |-> Nothing0, crashes |-> 0]

Init ==
  /\ rows \in Catalogs
  /\ trouble = {}
  /\ pinned \in BOOLEAN
  /\ cover_at = "catalog"
  /\ overload = 1
  /\ call = 1
  /\ half = {}
  /\ differing = {}
  /\ scored = <<>>
  /\ recorded = NotRecorded

\* The rows of a name, or all of them.
Named(name) == {i \in DOMAIN rows : name \in {"every", rows[i].name}}

\* `read`: a kind it has never seen is a changed catalog and ends the run. A name
\* narrows what is left to its own rows.
ReadCatalog ==
  /\ cover_at = "catalog"
  /\ \E name \in {"every"} \cup {rows[i].name : i \in DOMAIN rows} :
       /\ rows' = Sublist(rows, Named(name))
       /\ cover_at' = IF \E i \in DOMAIN rows : rows[i].kind \notin KINDS THEN "stopped"
                      ELSE IF name = "every" THEN "next" ELSE "narrowed"
  /\ trouble' \in {{}} \cup {{t, u} : t, u \in Troubles(rows')}
  /\ UNCHANGED <<pinned, overload, call, half, differing, scored, recorded>>

Scored(verdict, failures) ==
  /\ scored' = Append(scored, [name |-> rows[overload].name, verdict |-> verdict, failures |-> failures])
  /\ overload' = overload + 1
  /\ call' = 1
  /\ differing' = {}

Working == cover_at \in {"next", "narrowed"} /\ overload <= Len(rows)

SkipRow ==
  /\ Working
  /\ Untested(rows[overload]) # "no"
  /\ Scored(Untested(rows[overload]), {})
  /\ UNCHANGED <<rows, trouble, pinned, cover_at, half, recorded>>

Here(what) == [row |-> overload, call |-> call, what |-> what] \in trouble
Panics(side) == Here(IF side = "left" THEN "left panics" ELSE "right panics")

\* What both come back with: a panic is a difference on its own, and an engine that
\* is half done answers anything.
Answers ==
  {side \in Sides : Panics(side)}
    \cup (IF Here("differs") \/ half # {} THEN {"answers"} ELSE {})

Heard(broken) ==
  /\ Working
  /\ Untested(rows[overload]) = "no"
  /\ call <= Len(Calls(rows[overload]))
  /\ differing' = IF Answers = {} THEN differing
                  ELSE differing \cup {[call |-> call, crash |-> \E side \in Sides : Panics(side)]}
  /\ half' = broken
  /\ call' = call + 1
  /\ UNCHANGED <<rows, trouble, pinned, cover_at, overload, scored, recorded>>

\* Mutant: an engine that panicked is asked the next one as it is.
AskBothWithoutReset == Heard(half \cup {side \in Sides : Panics(side)})

\* `differences`: one statement to both, an engine that panicked reset before the next.
AskBoth == Heard({})

\* An engine that cannot be run, or put back, ends the sweep with nothing said.
StopSweep ==
  /\ Working
  /\ Untested(rows[overload]) = "no"
  /\ cover_at' = "stopped"
  /\ scored' = <<>>
  /\ UNCHANGED <<rows, trouble, pinned, overload, call, half, differing, recorded>>

ScoreRow ==
  /\ Working
  /\ Untested(rows[overload]) = "no"
  /\ call = Len(Calls(rows[overload])) + 1
  /\ Scored(IF differing = {} THEN "passed" ELSE "failed", differing)
  /\ UNCHANGED <<rows, trouble, pinned, cover_at, half, recorded>>

-----------------------------------------------------------------------------
(***************************************************************************)
(* The numbers.                                                            *)
(***************************************************************************)
Ran == {"passed", "failed"}
Verdicts(name) == {scored[i].verdict : i \in {j \in DOMAIN scored : scored[j].name = name}}
Names == {scored[i].name : i \in DOMAIN scored}

TallyOf(verdicts) ==
  LET Count(S) == Cardinality({x \in DOMAIN verdicts : verdicts[x] \in S}) IN
  [total    |-> Cardinality(DOMAIN verdicts),
   passed   |-> Count({"passed"}),
   failed   |-> Count({"failed"}),
   untested |-> Cardinality(DOMAIN verdicts) - Count(Ran)]

\* Mutant: what nobody tested does not count against a name.
NameUntestedIsFine(name) == IF "failed" \in Verdicts(name) THEN "failed" ELSE "passed"

\* A name fails when any row of it does, and passes when all of them do.
NameVerdict(name) ==
  IF "failed" \in Verdicts(name) THEN "failed"
  ELSE IF Verdicts(name) \subseteq {"passed"} THEN "passed" ELSE "untested"

RowVerdict(i) == scored[i].verdict

\* `coverage`
Coverage ==
  [names     |-> TallyOf([n \in Names |-> NameVerdict(n)]),
   overloads |-> TallyOf([i \in DOMAIN scored |-> RowVerdict(i)]),
   crashes   |-> Cardinality({x \in UNION {{i} \X scored[i].failures : i \in DOMAIN scored} :
                               x[2].crash})]

\* The end of the sweep: recorded when it was the whole catalog of the pinned binary.
Publish ==
  /\ cover_at \in {"next", "narrowed"}
  /\ overload = Len(rows) + 1
  /\ recorded' = IF cover_at = "next" /\ pinned THEN Coverage ELSE NotRecorded
  /\ cover_at' = "done"
  /\ UNCHANGED <<rows, trouble, pinned, overload, call, half, differing, scored>>

Next == ReadCatalog \/ SkipRow \/ AskBoth \/ StopSweep \/ ScoreRow \/ Publish

-----------------------------------------------------------------------------
(***************************************************************************)
(* Properties.                                                             *)
(***************************************************************************)

\* What a row has to be right about: every edge of every argument, and that each of
\* them may be NULL, or of a type it is not.
Examined(row) ==
  \A at \in DOMAIN row.parameters :
    \A v \in Edges[row.parameters[at]] \cup {"NULL", "wrong"} :
      \E c \in DOMAIN Calls(row) : Calls(row)[c] = Argument(at, v)

InTrouble(i) == \E t \in trouble : t.row = i

RightAbout(i) ==
  /\ Untested(rows[i]) = "no"
  /\ Examined(rows[i])
  /\ ~InTrouble(i)

\* A number is earned.  A row that passed was asked about every edge, NULL and wrong
\* type of every argument and has nothing wrong with it, and one that failed has: no
\* row is blamed for the panic of one before it.  A name that is claimed is right in
\* every row of it, the ones nobody could call included, and everything is over the
\* whole catalog: a row nothing could call is in the total.
PassedIsEarned ==
  /\ \A i \in DOMAIN scored :
       /\ scored[i].verdict = "passed" => RightAbout(i)
       /\ scored[i].verdict = "failed" => InTrouble(i)
  /\ recorded # NotRecorded =>
       LET Overloads(name) == {i \in DOMAIN rows : rows[i].name = name}
           names == {rows[i].name : i \in DOMAIN rows}
       IN  /\ recorded.names.passed
                = Cardinality({n \in names : \A i \in Overloads(n) : RightAbout(i)})
           /\ recorded.names.total = Cardinality(names)
           /\ recorded.overloads.total = Len(rows)
           /\ recorded.overloads.passed + recorded.overloads.failed
                = Cardinality({i \in Callable : ~Volatile(rows[i])})
           /\ \A i \in DOMAIN rows \ Callable :
                rows[i].kind = "scalar" => \E type \in Range(rows[i].parameters) : Unknown(type) > 0
           /\ recorded.crashes <= Cardinality(trouble)
=============================================================================
