---------------------------- MODULE MCConformRun ----------------------------
(***************************************************************************)
(* Small files for ConformRun.  Each run of TLC is given one set of lines  *)
(* and every file of at most MaxLines of them, or one more for the sets    *)
(* whose hazards take one more line to show.                               *)
(***************************************************************************)
EXTENDS ConformRun

CONSTANT MaxLines

FilesOf(lines, most) == UNION {[1..n -> lines] : n \in 0..most}

-----------------------------------------------------------------------------
(***************************************************************************)
(* Lines.                                                                  *)
(***************************************************************************)
Plain(kind)   == [kind |-> kind, applies |-> TRUE]
Other(kind)   == [kind |-> kind, applies |-> FALSE]
Require(gap)  == [kind |-> "require", applies |-> TRUE, gap |-> gap]
Words(k, ws)  == [kind |-> k, applies |-> TRUE, words |-> ws]
Forget(label) == [kind |-> "reset-label", applies |-> TRUE, label |-> label]

LoadOf(dir, name, readonly) ==
  [kind |-> "load", applies |-> TRUE, path |-> [dir |-> dir, name |-> name],
   readonly |-> readonly]
BareLoad == [kind |-> "load", applies |-> TRUE, path |-> NoPath, readonly |-> FALSE]

Works == [kind |-> "statement", applies |-> TRUE, connection |-> FALSE,
          expects |-> "success", wanted |-> AnyError]
Fails(wanted) == [Works EXCEPT !.expects = "error", !.wanted = wanted]
Elsewhere     == [Works EXCEPT !.connection = TRUE]

Query(label, width, block) ==
  [kind |-> "query", applies |-> TRUE, connection |-> FALSE,
   expects |-> "success", wanted |-> AnyError,
   label |-> label, width |-> width, block |-> block]

-----------------------------------------------------------------------------
\* Every kind of line, for the counters.
CountingLines ==
  {Works, Elsewhere, [Works EXCEPT !.applies = FALSE],
   Plain("maybe"), Plain("mode-skip"), Plain("mode-unskip"), Plain("halt"),
   Require("machine"), Require(NoGap), Plain("continue"), Plain("note"),
   Words("set-ignore", {"IO Error"}), Plain("set-seed"), Plain("reconnect"),
   LoadOf("{TEST_DIR}", "a", FALSE), Plain("restart"), Plain("unzip")}

CountingAnswers == {Rows(1, "a"), Error("IO Error", "gone")}

\* What a file can do to the database it is in.
DatabaseLines ==
  {Works, BareLoad, LoadOf("{TEST_DIR}", "a", FALSE), LoadOf("{TEST_DIR}", "b", FALSE),
   LoadOf("{TEST_DIR}", "a", TRUE), LoadOf("data", "c", FALSE), Plain("restart"),
   Plain("reconnect"), Plain("mode-skip"), Plain("mode-unskip")}

\* Labels, errors and modes, for what a record is worth.
JudgingLines ==
  {Query("l", 1, Empty), Query("l", 1, "a"), Query("l", 2, "a"),
   Forget("l"), Plain("mode-skip"), Plain("mode-unskip")}

JudgingAnswers == {Rows(1, "a"), Rows(1, "b"), Error("Parser Error", "near")}

ErrorLines ==
  {Works, Fails(AnyError), Fails(Saying("Catalog Error")), Fails(Saying("missing")),
   Fails(Unreadable), Words("set-ignore", {"missing"}),
   Words("set-always-fail", {"IO Error"}), Words("set-always-fail", {"INTERNAL Error", "IO Error"})}

ErrorAnswers ==
  {Rows(1, "a"), Error("INTERNAL Error", "missing"), Error("INTERNAL Error", "near"),
   Error("Catalog Error", "missing"), Error("IO Error", "near"),
   Error("Interrupt Error", "near")}

-----------------------------------------------------------------------------
BooksFiles   == FilesOf(CountingLines, MaxLines) \cup FilesOf(DatabaseLines, MaxLines + 1)
VerdictFiles == FilesOf(JudgingLines, MaxLines + 1) \cup FilesOf(ErrorLines, MaxLines)
SmallLines   == CountingLines \cup DatabaseLines \cup JudgingLines \cup ErrorLines
SmallFiles   == BooksFiles \cup VerdictFiles
SmallAnswers == JudgingAnswers \cup ErrorAnswers

\* An engine without connections answers a file that names none as one with them.
NamesOne(f) == \E i \in DOMAIN f : "connection" \in DOMAIN f[i] /\ f[i].connection
SmallInit   == Init /\ (connections \/ NamesOne(file))
SmallSpec   == SmallInit /\ [][Next]_vars
=============================================================================
