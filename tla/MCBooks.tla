------------------------------- MODULE MCBooks -------------------------------
(***************************************************************************)
(* What is read, what is asked of one engine, and what is written down:    *)
(* one of the modules at a time, on instances small enough to look at      *)
(* every step of each.                                                     *)
(***************************************************************************)
EXTENDS Books, Compare

CONSTANTS
  Chunks, MaxChunks, Template, NESTING,                     \* Reader
  Rows, Wrongs, MaxAsked, DEPTH, Literals                   \* Metamorphic

VARIABLES
  reader_file, reader_size, parsed,
  form, plain, wrong, meta_at, asked, results, found

TheReader  == INSTANCE Reader
TheOracles == INSTANCE Metamorphic

-----------------------------------------------------------------------------
(***************************************************************************)
(* Instances.                                                              *)
(***************************************************************************)
\* Test files: a loop over one variable and one over two, the end of one, and what
\* may stand in them, with and without a blank line behind it.
Is(what) == [is |-> what]
Says(words) == [is |-> "text", words |-> words]
Loop(variables, values) == [is |-> "loop", names |-> variables, values |-> values]
If(how, variable, wanted) ==
  [is |-> "condition", condition |-> [how |-> how, variable |-> variable, wanted |-> wanted]]
Body == <<Says(<<"i", "j">>), Is("dashes"), Says(<<"i", "k">>), Is("blank")>>

SomeChunks ==
  {<<Loop(<<"i">>, <<<<"0">>, <<"1">>>>)>>,
   <<Loop(<<"j", "k">>, <<<<"0", "x">>, <<"1", "y">>>>)>>,
   <<Is("endloop")>>,
   <<Is("query")>> \o Body,
   <<If("onlyif", "j", "1"), Is("statement ok"), Says(<<"j">>)>>,
   <<If("skipif", "j", "0"), Is("continue")>>,
   <<If("onlyif", "i", "0"), Is("continue")>>,
   <<Is("include")>>,
   <<Is("statement maybe"), Says(<<"i">>), Is("dashes"), Says(<<"x">>), Is("comment"), Is("blank")>>}
OneTemplate == <<Is("statement error"), Says(<<"i">>), Is("dashes"), Says(<<"i">>)>>

\* A fixture whose columns are NULL apart and together, and engines.
Null == -9
Row(i, b) == [i |-> i, b |-> b]
Fixture == <<Row(1, 1), Row(2, 0), Row(Null, 1), Row(1, Null), Row(Null, Null)>>
Has(what, site) == [what |-> what, site |-> site]
SomeWrongs ==
  {Has("none", "none"), Has("types", "none"), Has("keeps", "rewrite"), Has("keeps", "filter"),
   Has("drops", "evaluator")}

\* What an engine says: two orders of one result, another result, and an error.
Columns == <<[name |-> "a", type |-> "INTEGER"]>>
Shown(lines) == Table(Columns, lines)
SomeOutcomes == {Shown(<<<<1>>, <<2>>>>), Shown(<<<<2>>, <<1>>>>), Error("Error", "no")}

Cost(ms) == [user |-> ms, system |-> 0, elapsed |-> ms, maximum |-> 1]
\* One quick, one slow, and one the meter never got to write.
SomeReports == {Cost(1), Cost(20), [user |-> 1, system |-> 1]}
SomeCouples ==
  {[left |-> "duckdb", right |-> "rudb"], [left |-> "rudb", right |-> "duckdb"],
   [left |-> "duckdb", right |-> "duckdb"]}

\* A cheap run and one over the floor.
Usage(wall) == [wall |-> wall, cpu |-> wall, peak |-> 1]
Usages == {Usage(5), Usage(20)}
SomePlaces == <<<<"a", 1>>, <<"a", 2>>>>
SomeTurns == <<1, 2>>

\* Benchmarks whose brackets nest, never close, and come after one another.
Word(what) == [is |-> what, size |-> 0]
Number(n)  == [is |-> "number", size |-> n]
Plain      == <<Word("word")>>
Inner      == <<Word("range("), Word("f("), Number(3), Word(")"), Number(90), Word(")"), Number(91)>>
Unclosed   == <<Word("range("), Number(90)>>
Several    == <<Number(90), Word("range("), Number(7), Word(")"), Word("f("), Number(95), Word(")"),
                Word("range("), Word("range("), Number(93), Word(")"), Word(")")>>
Statement(words, mentions) == [text |-> words, mentions |-> mentions]
Bench(requires, load, sql) == [group |-> "g", requires |-> requires, load |-> load, sql |-> sql]
SomeBenches ==
  {Bench(TRUE, <<>>, Statement(Plain, {})),
   Bench(FALSE, <<Statement(Plain, {"file"})>>, Statement(Plain, {"generator"})),
   Bench(FALSE, <<Statement(Inner, {})>>, Statement(Unclosed, {})),
   Bench(FALSE, <<Statement(Several, {})>>, Statement(Inner, {}))}

\* Function tables: a name of two rows, one with a type nobody knows, the volatile
\* ones, and one with a kind nobody has seen.
Overload(name, kind, parameters, varargs) ==
  [name |-> name, kind |-> kind, parameters |-> parameters, varargs |-> varargs]
Scalar(name, parameters) == Overload(name, "scalar", parameters, "none")
SomeCatalogs ==
  {<<Scalar("f", <<"INTEGER">>), Scalar("f", <<"INTEGER", "VARCHAR">>)>>,
   <<Overload("f", "scalar", <<"INTEGER">>, "VARCHAR"), Scalar("f", <<"ANY">>), Scalar("g", <<>>)>>,
   <<Scalar("age", <<"INTEGER">>), Scalar("age", <<"INTEGER", "INTEGER">>), Scalar("random", <<>>),
     Overload("g", "aggregate", <<"INTEGER">>, "none")>>,
   <<Overload("h", "union", <<>>, "none")>>}
SomeEdges == "INTEGER" :> {"0", "most"} @@ "VARCHAR" :> {"long"}

\* A cost run with nothing in it, and one with everything.
SomeRows == {<<>>, <<<<"corpus", 1>>, <<"group", 2>>, <<"worst", 3>>, <<"worst", 4>>>>}
SomeBooks == "cost.tsv" :> SomeRows

-----------------------------------------------------------------------------
(***************************************************************************)
(* Reading and asking beside the books: while one of them is at work the   *)
(* books stay where they begin, so that this is Books with two more works. *)
(***************************************************************************)
readerVars == <<reader_file, reader_size, parsed>>
metaVars   == <<form, plain, wrong, meta_at, asked, results, found>>

AllInit ==
  /\ Init
  /\ TheReader!Init
  /\ TheOracles!Init
  /\ at_work # "oracles" => form = "where" /\ ~plain /\ wrong.what = "none"

Reading ==
  /\ at_work = "reader"
  /\ TheReader!Next
  /\ UNCHANGED <<vars, metaVars>>

AskingOne ==
  /\ at_work = "oracles"
  /\ TheOracles!Next
  /\ UNCHANGED <<vars, readerVars>>

WritingDown == Next /\ UNCHANGED <<readerVars, metaVars>>

AllNext == Reading \/ AskingOne \/ WritingDown

AllSpec == AllInit /\ [][AllNext]_<<vars, readerVars, metaVars>>

-----------------------------------------------------------------------------
\* Reader: the flat list of records is what an interpreter of the file would do.
ExpansionIsTheProgram == TheReader!ExpansionIsTheProgram

\* Metamorphic: an engine that is right is never blamed, and the verdict is exact.
OraclesBlameTheGuilty == TheOracles!OraclesBlameTheGuilty
=============================================================================
