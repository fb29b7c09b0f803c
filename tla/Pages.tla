-------------------------------- MODULE Pages --------------------------------
(***************************************************************************)
(* The published page and the books beside it: report.rs, and the commands *)
(* that write them.  A sweep, a cost run and a record run leave rows in a  *)
(* book of their own, which only grows; a report takes the newest run of   *)
(* each, writes a page that nothing overwrites and adds its row to the     *)
(* series.  Machines share the directory, the engine is rebuilt between    *)
(* runs, and a write may end anywhere, with the disk full or the process   *)
(* gone.                                                                   *)
(***************************************************************************)
EXTENDS Naturals, Sequences, FiniteSets, Sublists

CONSTANTS
  Machines,    (* What the machines call themselves.                       *)
  Measured,    (* The rows a run may have to write, for each book.         *)
  Fits,        (* The digits of the longest number that is one.            *)
  MaxSeconds,  (* A bound on the clock.                                    *)
  MaxWrites,   (* A bound on the runs that are written down.               *)
  MaxPages     (* A bound on the reports that are finished.                *)

VARIABLES
  clock,       (* The second it is.                                        *)
  commit,      (* The engine the lock file pins.                           *)
  book,        (* The lines of each book.                                  *)
  open,        (* The books that do not end with a newline.                *)
  measured,    (* The runs that are to be written down, or were.           *)
  order,       (* The runs of each book as they were written; the first    *)
               (* of them made the file.                                   *)
  page,        (* The report being made.                                   *)
  pages        (* The pages written, and whether their row was.            *)

pageVars == <<clock, commit, book, open, measured, order, page, pages>>

BOOKS == DOMAIN Measured
Header == [is |-> "header"]
NoPage == [at |-> "none"]

-----------------------------------------------------------------------------
(***************************************************************************)
(* Lines.  A row says when and where it was measured, what it is about,    *)
(* what it measured, and at its end how many there were in all, which is   *)
(* the one field whose digits matter here.                                 *)
(*                                                                         *)
(* Nothing ends a line that was cut but the next write, which goes on in   *)
(* it.  A line that was cut in its first field, a stub, has no tab yet: a  *)
(* row that is added to it has the right number of fields, and a stamp     *)
(* with something in front of it.  A row that was cut in its last field    *)
(* has them all, and what a stub adds to it is more digits, if it begins   *)
(* with the year and stops there.  Every other mixture is short: it has    *)
(* too few fields or too many, or words where a number has to be.          *)
(***************************************************************************)
YEAR == <<2, 0>>
TotalOf(run) == <<1, Len(run.rows)>>

RowOf(run, k) ==
  [is |-> "row", behind |-> FALSE, stamp |-> run.stamp, host |-> run.host,
   commit |-> run.commit, scope |-> run.rows[k][1], ratio |-> run.rows[k][2],
   total |-> TotalOf(run)]

Short == [is |-> "short"]

\* A stub of nothing but digits says which; in one of anything else there are none.
Stub(digits) == [is |-> "stub", digits |-> digits]

\* `cost_rows` and the like, under a header when there was no book yet.
Text(run) ==
  (IF run.fresh THEN <<Header>> ELSE <<>>) \o [k \in DOMAIN run.rows |-> RowOf(run, k)]

\* `parse`: so many fields, and a number where there has to be one.
Parses(line) == line.is = "row" /\ Len(line.total) \in 1..Fits

\* A line a write stopped in, or stopped behind, in front of the newline.
Cut(line) ==
  {line, Short, Stub(<<>>)} \cup
    (IF line.is = "row"
       THEN {Stub(SubSeq(YEAR, 1, n)) : n \in DOMAIN YEAR}
              \cup {[line EXCEPT !.total = SubSeq(@, 1, n)] : n \in 0..Len(line.total)}
       ELSE {})

\* One line, of one that was cut and of what was written behind it.
Glued(line, next) ==
  IF line.is = "stub" /\ next.is = "row" THEN [next EXCEPT !.behind = TRUE]
  ELSE IF line.is = "stub" /\ next.is = "stub"
    THEN Stub(IF <<>> \in {line.digits, next.digits} THEN <<>> ELSE line.digits \o next.digits)
  ELSE IF line.is = "row" /\ next.is = "stub" /\ next.digits # <<>>
    THEN [line EXCEPT !.total = @ \o next.digits]
  ELSE Short

\* What a write adds: its first line goes on where the last one stopped.
Onto(lines, ends, text) ==
  IF ends \/ text = <<>> THEN lines \o text
  ELSE SubSeq(lines, 1, Len(lines) - 1) \o <<Glued(lines[Len(lines)], text[1])>> \o Tail(text)

-----------------------------------------------------------------------------
(***************************************************************************)
(* Reading back.                                                           *)
(***************************************************************************)
NoRun == [stamp |-> 0]

\* Mutant: the rows of one second are taken for one run.
SameRunBySecond(row, last) == row.behind = last.behind /\ row.stamp = last.stamp

\* Stamps are all of one length: with something in front of it one is no stamp of a run.
SameRun(row, last) ==
  row.behind = last.behind /\ row.stamp = last.stamp /\ row.host = last.host

\* `assembled`: the totals of the first row, and what each scope has to say, of the
\* lines in some places.
Assembled(lines, its) ==
  LET Of(scope) == Sublist(lines, {i \in its : lines[i].scope = scope})
      Ratios(list) == [k \in DOMAIN list |-> list[k].ratio]
      overall == Of("corpus")
      first == lines[Nth(its, 1)]
  IN  [behind |-> first.behind, stamp |-> first.stamp, host |-> first.host,
       commit |-> first.commit, total |-> first.total,
       overall |-> IF overall = <<>> THEN 0 ELSE overall[Len(overall)].ratio,
       groups |-> Ratios(Of("group")), worst |-> Ratios(Of("worst"))]

\* `latest`: the last row that is one names the run, and its rows are the run.
Latest(lines) ==
  LET rows == {i \in DOMAIN lines : Parses(lines[i])}
      last == lines[Nth(rows, Cardinality(rows))]
  IN  IF rows = {} THEN NoRun ELSE Assembled(lines, {i \in rows : SameRun(lines[i], last)})

-----------------------------------------------------------------------------
Init ==
  /\ clock = 1
  /\ commit = 1
  /\ book = [b \in BOOKS |-> <<>>]
  /\ open = {}
  /\ measured = <<>>
  /\ order = [b \in BOOKS |-> <<>>]
  /\ page = NoPage
  /\ pages = {}

Tick ==
  /\ clock < MaxSeconds
  /\ clock' = clock + 1
  /\ \E moved \in {0, 1} : commit' = commit + moved
  /\ UNCHANGED <<book, open, measured, order, page, pages>>

\* A run has ended: where and when. Nothing to write is an error and not an empty row.
Measure ==
  /\ Len(measured) < MaxWrites
  /\ \E b \in BOOKS, m \in Machines : \E rows \in Measured[b] :
       /\ \A i \in DOMAIN measured : ~(measured[i].stamp = clock /\ measured[i].host = m)
       /\ measured' = Append(measured,
            [book |-> b, stamp |-> clock, host |-> m, commit |-> commit, rows |-> rows,
             fresh |-> FALSE, at |-> IF rows = <<>> THEN "refused" ELSE "measured"])
  /\ UNCHANGED <<clock, commit, book, open, order, page, pages>>

\* `append`: first whether there is a file, and then the whole text in one write.
LookForBook ==
  /\ \E i \in DOMAIN measured :
       /\ measured[i].at = "measured"
       /\ measured' = [measured EXCEPT ![i].at = "looked", ![i].fresh = order[measured[i].book] = <<>>]
  /\ UNCHANGED <<clock, commit, book, open, order, page, pages>>

AppendRows ==
  /\ \E i \in DOMAIN measured :
       LET run == measured[i] IN
       /\ run.at = "looked"
       /\ book' = [book EXCEPT ![run.book] = Onto(@, run.book \notin open, Text(run))]
       /\ open' = open \ {run.book}
       /\ measured' = [measured EXCEPT ![i].at = "written"]
       /\ order' = [order EXCEPT ![run.book] = Append(@, i)]
  /\ UNCHANGED <<clock, commit, page, pages>>

\* A write that ended early, in the middle of a line or in front of its newline.
TearRows ==
  /\ \E i \in DOMAIN measured :
       LET run == measured[i]
           text == Text(run)
       IN
       /\ run.at = "looked"
       /\ \E k \in DOMAIN text : \E cut \in Cut(text[k]) :
            book' = [book EXCEPT ![run.book] =
                       Onto(@, run.book \notin open, Append(SubSeq(text, 1, k - 1), cut))]
       /\ open' = open \cup {run.book}
       /\ measured' = [measured EXCEPT ![i].at = "torn"]
       /\ order' = [order EXCEPT ![run.book] = Append(@, i)]
  /\ UNCHANGED <<clock, commit, page, pages>>

\* One that ended behind the newline of a line, or before it began.
StopRows ==
  /\ \E i \in DOMAIN measured :
       LET run == measured[i]
           text == Text(run)
       IN
       /\ run.at = "looked"
       /\ \E k \in 0..(Len(text) - 1) :
            /\ book' = [book EXCEPT ![run.book] = Onto(@, run.book \notin open, SubSeq(text, 1, k))]
            /\ open' = IF k = 0 THEN open ELSE open \ {run.book}
       /\ measured' = [measured EXCEPT ![i].at = "torn"]
       /\ order' = [order EXCEPT ![run.book] = Append(@, i)]
  /\ UNCHANGED <<clock, commit, page, pages>>

\* `gather`: when and where a report ran, once the corpus has.
StartReport ==
  /\ page = NoPage
  /\ Cardinality(pages) < MaxPages
  /\ \E m \in Machines :
       /\ \A done \in pages : ~(done.stamp = clock /\ done.host = m)
       /\ page' = [at |-> "gathered", stamp |-> clock, host |-> m, commit |-> commit]
  /\ UNCHANGED <<clock, commit, book, open, measured, order, pages>>

\* `matches`
Matches(read, p) == read.commit = p.commit /\ read.host = p.host

\* What is carried, and which of it the page says is another measurement.
ReadBooks ==
  /\ page.at = "gathered"
  /\ LET carried == [b \in BOOKS |-> Latest(book[b])]
     IN  page' = [at |-> "read", stamp |-> page.stamp, host |-> page.host, commit |-> page.commit,
                  carried |-> carried, before |-> order,
                  apart |-> {b \in BOOKS : carried[b] # NoRun /\ ~Matches(carried[b], page)}]
  /\ UNCHANGED <<clock, commit, book, open, measured, order, pages>>

\* `write`: a page of its own, and then the row.
WritePage ==
  /\ page.at = "read"
  /\ pages' = pages \cup {[stamp |-> page.stamp, host |-> page.host, row |-> FALSE]}
  /\ page' = [page EXCEPT !.at = "written"]
  /\ UNCHANGED <<clock, commit, book, open, measured, order>>

WriteRow ==
  /\ page.at = "written"
  /\ pages' = {IF done.stamp = page.stamp /\ done.host = page.host
                 THEN [done EXCEPT !.row = TRUE] ELSE done : done \in pages}
  /\ page' = NoPage
  /\ UNCHANGED <<clock, commit, book, open, measured, order>>

\* The report is gone before it was through.
LoseReport ==
  /\ page.at # "none"
  /\ page' = NoPage
  /\ UNCHANGED <<clock, commit, book, open, measured, order, pages>>

Next == Tick \/ Measure \/ LookForBook \/ AppendRows \/ TearRows \/ StopRows
          \/ StartReport \/ ReadBooks \/ WritePage \/ WriteRow \/ LoseReport

-----------------------------------------------------------------------------
(***************************************************************************)
(* Properties.                                                             *)
(***************************************************************************)
Ratio(run, scope) ==
  LET list == Sublist(run.rows, {k \in DOMAIN run.rows : run.rows[k][1] = scope})
  IN  [k \in DOMAIN list |-> list[k][2]]

\* What a run that is in its book without a flaw reads back as.
AsMeasured(run) ==
  LET overall == Ratio(run, "corpus")
  IN  [behind |-> FALSE, stamp |-> run.stamp, host |-> run.host, commit |-> run.commit,
       total |-> TotalOf(run),
       overall |-> IF overall = <<>> THEN 0 ELSE overall[Len(overall)],
       groups |-> Ratio(run, "group"), worst |-> Ratio(run, "worst")]

Stretch(list, of) == \E from \in 1..(Len(of) + 1) : list = SubSeq(of, from, from + Len(list) - 1)

\* What a page carries is what one run measured, whoever else writes in the book
\* meanwhile and wherever a write stopped.  In a book no write was cut off in that is
\* all of the newest run.  In another one it is rows that one run has, in their order,
\* and never the rows of two, under a total that is the run's own if its write was not
\* the one cut off.  There is one page nobody measured: a write that stopped in the
\* first field of a line, and a later one, make a row with a stamp of nobody's.  It
\* takes a write that was cut off before the run it is a row of, and it is that row
\* alone.  And the page says so when the run was of another engine or another machine.
PageCarriesOneRun ==
  page.at = "read" =>
    \A b \in BOOKS :
      LET read   == page.carried[b]
          before == page.before[b]
      IN  /\ (\A k \in DOMAIN before : measured[before[k]].at = "written") =>
               read = IF before = <<>> THEN NoRun ELSE AsMeasured(measured[before[Len(before)]])
          /\ read # NoRun =>
               \E k \in DOMAIN before :
                 LET run  == measured[before[k]]
                     full == AsMeasured(run)
                 IN
                 /\ run.stamp = read.stamp /\ run.host = read.host
                 /\ read.overall \in {0, full.overall}
                 /\ Stretch(read.groups, full.groups) /\ Stretch(read.worst, full.worst)
                 /\ run.at = "written" => read.total = full.total
                 /\ read.behind =>
                      /\ \E m \in 1..(k - 1) : measured[before[m]].at = "torn"
                      /\ Len(read.groups) + Len(read.worst) <= 1
                 /\ (b \in page.apart) = (run.commit # page.commit \/ run.host # page.host)
=============================================================================
