--------------------------- MODULE ConformVerdict ---------------------------
(***************************************************************************)
(* What one record of a .test file is worth once the engine has answered:  *)
(* the decision table of `check` in conform.rs, as operators without       *)
(* state.                                                                  *)
(*                                                                         *)
(* Text is abstracted to what the table tells apart.  An error has a class *)
(* (DuckDB's prefix) and one text its message contains; a fragment of text *)
(* is found in an error when it is either of them.  The values of a result *)
(* are one token, already flattened and sorted, and a result block is      *)
(* the token it agrees with.                                               *)
(***************************************************************************)
EXTENDS Naturals

(***************************************************************************)
(* What the engine can say: rows of some width, or an error.               *)
(***************************************************************************)
Rows(width, values)  == [said |-> "rows", width |-> width, values |-> values]
Error(class, text)   == [said |-> "error", class |-> class, text |-> text]

Failed(outcome) == outcome.said = "error"

\* The nine reasons a record did not pass.
Reasons == {"stopped", "syntax", "not-implemented", "unbound", "runtime",
            "wrong-answer", "missed-error", "error-class", "error-text"}

Verdicts == {"passed", "ignored"} \cup Reasons

-----------------------------------------------------------------------------
(***************************************************************************)
(* Reading an error.                                                       *)
(***************************************************************************)
ReasonOf(error) ==
  CASE error.class \in {"Interrupt Error", "Out of Memory Error"} -> "stopped"
    [] error.class = "Parser Error"                               -> "syntax"
    [] error.class = "Not implemented Error"                      -> "not-implemented"
    [] error.class \in {"Catalog Error", "Binder Error"}          -> "unbound"
    [] OTHER                                                      -> "runtime"

\* The list of a `set` line names an error when one of its entries is in the text.
Names(list, error) == {error.class, error.text} \cap list # {}

(***************************************************************************)
(* An expected error is any error at all, one whose text contains some     *)
(* words, or a pattern the matcher cannot read.  Words that are themselves *)
(* the name of a class pin the class.                                      *)
(***************************************************************************)
AnyError        == [form |-> "any"]
Saying(words)   == [form |-> "words", words |-> words]
Unreadable      == [form |-> "unreadable"]

NamesClass(words) == words \in {"Parser Error", "Catalog Error", "Binder Error",
                                "Interrupt Error", "INTERNAL Error", "IO Error"}

WrongError(error, words) ==
  IF NamesClass(words) /\ words # error.class THEN "error-class" ELSE "error-text"

Matches(error, wanted) ==
  IF wanted.form = "any" THEN "passed"
  ELSE IF wanted.form = "unreadable" THEN "error-text"
  ELSE IF wanted.words \in {error.class, error.text} THEN "passed"
  ELSE WrongError(error, wanted.words)

-----------------------------------------------------------------------------
(***************************************************************************)
(* A record expects "success" or "error".  An error the file said to stop  *)
(* on comes before everything else, and an always-fail error can satisfy   *)
(* no record that asked for one.                                           *)
(***************************************************************************)
\* Mutant: the always-fail list is not asked.
JudgeErrorAlone(line, error, settings) ==
  IF Names(settings.ignore, error) THEN "ignored"
  ELSE IF line.expects = "success" THEN ReasonOf(error)
  ELSE Matches(error, line.wanted)

JudgeError(line, error, settings) ==
  IF Names(settings.ignore, error) THEN "ignored"
  ELSE IF line.expects = "success" THEN ReasonOf(error)
  ELSE IF Names(settings.alwaysFail, error) THEN "error-class"
  ELSE Matches(error, line.wanted)

(***************************************************************************)
(* The rows of a query.  A label compares them with the ones the first     *)
(* query of that label returned, before the width and before the block     *)
(* under the `----`; a labelled query with an empty block asks for nothing *)
(* else.                                                                   *)
(***************************************************************************)
NoLabel  == "no label"
NoAnswer == "no answer"

Empty    == "empty"      \* a block with no lines, and a result with no rows

Contradicts(line, values, labels) ==
  /\ line.label # NoLabel
  /\ labels[line.label] \notin {NoAnswer, values}

JudgeRows(line, rows, labels) ==
  IF Contradicts(line, rows.values, labels) THEN "wrong-answer"
  ELSE IF \/ line.label # NoLabel /\ line.block = Empty
          \/ line.width = rows.width /\ line.block = rows.values
         THEN "passed"
         ELSE "wrong-answer"

Judge(line, outcome, labels, settings) ==
  IF Failed(outcome) THEN JudgeError(line, outcome, settings)
  ELSE IF line.expects = "error" THEN "missed-error"
  ELSE IF line.kind = "statement" THEN "passed"
  ELSE JudgeRows(line, outcome, labels)

(***************************************************************************)
(* The labels after the record: the first query of a label to return rows  *)
(* leaves them behind, whether or not it goes on to pass.                  *)
(***************************************************************************)
\* Mutant: the last query of a label to return rows leaves its own behind.
RememberedLast(line, outcome, labels) ==
  IF line.kind = "query" /\ line.expects = "success" /\ ~Failed(outcome) /\ line.label # NoLabel
    THEN [labels EXCEPT ![line.label] = outcome.values]
    ELSE labels

Remembered(line, outcome, labels) ==
  IF /\ line.kind = "query"
     /\ line.expects = "success"
     /\ ~Failed(outcome)
     /\ line.label # NoLabel
     /\ labels[line.label] = NoAnswer
    THEN [labels EXCEPT ![line.label] = outcome.values]
    ELSE labels
=============================================================================
