------------------------------- MODULE MCTools -------------------------------
(***************************************************************************)
(* The tools that drive live engines, one of them at a time, on instances  *)
(* small enough to look at every step of each.                             *)
(***************************************************************************)
EXTENDS Tools, TLC

TwoPasses == <<"p", "q">>

Record(l, cs) == [kind |-> "record", line |-> l, culprits |-> cs, on |-> "unnamed"]
OnNamed(l, cs) == [Record(l, cs) EXCEPT !.on = "k"]
Passes1 == {"p"}
Lines ==
  {Record(1, {}), Record(1, {Passes1}), Record(1, {{"p", "q"}}), Record(1, {{}}),
   Record(2, {{"q"}}), OnNamed(2, {}),
   [kind |-> "fresh"], [kind |-> "reconnect"], [kind |-> "set", passes |-> {}]}
SmallFiles   == UNION {[1..n -> Lines] : n \in 1..2}
SmallCorpora == {<<f>> : f \in SmallFiles}
                  \cup {<<f, <<g>>>> : f \in SmallFiles, g \in Lines}

\* Runs to be written: words with every character that is escaped, counts of more than
\* one digit, and a time that is not a whole number of seconds.
Words == {<<"backslash", "n">>, <<"newline", "a">>, <<"a", "tab">>, <<"backslash">>}
Seven == <<"conditional", "mode", "maybe", "unsupported", "engine", "machine", "unreadable">>
NothingSeen == [seen |-> <<>>, unclassified |-> 0]
Saw(kind, passed, failed) ==
  [NothingSeen EXCEPT !.seen = <<kind>> :> [passed |-> passed, failed |-> failed]]
Empty == [files |-> 0, passed |-> 0, failed |-> 0, skips |-> <<0, 0, 0, 0, 0, 0, 0>>,
          kinds |-> NothingSeen, skipped_files |-> <<>>, stopped |-> <<>>, failures |-> <<>>]
Broke(w) == [file |-> <<"f">>, line |-> 12, sql |-> w, reason |-> "rows", detail |-> w]
SomeSummaries ==
  {[Empty EXCEPT !.files = 1, !.passed = 12, !.failed = 1, !.skips = <<0, 11, 0, 0, 0, 0, 2>>,
                 !.kinds = Saw("select", 12, 1), !.failures = <<Broke(w)>>] : w \in Words}
  \cup
  {[Empty EXCEPT !.files = 2, !.passed = 3, !.kinds = [Saw(k, 3, 0) EXCEPT !.unclassified = 10],
                 !.skipped_files = <<<<w, w>>>>,
                 !.stopped = <<<<w, "died", w>>, <<w, "time", 10750>>, <<w, "memory", 2048>>>>] :
     k \in {"select", "insert"}, w \in Words}
\* The kinds there are; nothing says anything of the last.
ThreeKinds == {<<"select">>, <<"insert">>, <<"merge">>}
=============================================================================
