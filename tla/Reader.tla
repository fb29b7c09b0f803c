-------------------------------- MODULE Reader --------------------------------
(***************************************************************************)
(* Reading a test file: slt.rs.  A file is a sequence of lines, and a line *)
(* is what its first word makes of it.  Loops are expanded while the file  *)
(* is read, so that the runner sees a flat list of records; an included    *)
(* file is read where it stands.  A text is a sequence of words, and the   *)
(* name of a loop variable among them stands for it in braces.             *)
(***************************************************************************)
EXTENDS Integers, Sequences, SequencesExt, FiniteSets, Functions, TLC

CONSTANTS
  Chunks,      (* The stretches of lines a file is put together from.      *)
  MaxChunks,   (* A bound on how many of them.                             *)
  Template,    (* The one file of the corpus an include may name.          *)
  NESTING      (* How deep one include may reach through another.          *)

VARIABLES
  reader_file, (* The file being written.                                  *)
  reader_size, (* How many chunks are in it.                               *)
  parsed       (* What reading it came to.                                 *)

readerVars == <<reader_file, reader_size, parsed>>

Always == [how |-> "always"]
Never  == [how |-> "never"]

NotRead == [error |-> "not read", records |-> <<>>, at |-> 0]
Failure(error) == [error |-> error, records |-> <<>>, at |-> 0]
Ended(records, at) == [error |-> "no", records |-> records, at |-> at]

-----------------------------------------------------------------------------
(***************************************************************************)
(* What runs under a directive.                                            *)
(***************************************************************************)
First(lines, stops) ==
  IF stops = {} THEN Len(lines) + 1 ELSE CHOOSE i \in stops : \A j \in stops : i <= j

\* A line that is not read as one is text like any other.
WordsOf(line) == IF line.is = "text" THEN line.words ELSE <<line.is>>

Words(lines, from, to) == FlattenSeq([i \in 1..(to - from) |-> WordsOf(lines[from + i - 1])])

\* `sql_body` stops at what is written under it, and at an endloop.
EndsBody(line) == line.is \in {"dashes", "blank", "comment", "endloop"}

\* `ends_record`: an empty line, and only that.
EndsResult(line) == line.is = "blank"

SqlEnd(lines, at) == First(lines, {i \in at..Len(lines) : EndsBody(lines[i])})

HasResult(lines, at) == at <= Len(lines) /\ lines[at].is = "dashes"

ResultEnd(lines, at) ==
  IF HasResult(lines, at)
  THEN First(lines, {i \in at + 1 .. Len(lines) : EndsResult(lines[i])})
  ELSE at

Result(lines, at) ==
  IF HasResult(lines, at) THEN Words(lines, at + 1, ResultEnd(lines, at)) ELSE <<>>

Runnable == {"statement ok", "statement error", "statement maybe", "query"}

\* `one`: the conditions stack in front of a directive and the last of them wins. A
\* condition at the end of the file is nothing, and one above a loop is an error.
One(lines, at) ==
  LET from == First(lines, {i \in at..Len(lines) : lines[i].is # "condition"})
      line == lines[from]
      condition == IF from = at THEN Always ELSE lines[from - 1].condition
      sql == SqlEnd(lines, from + 1)
      Record(is, text, wanted) ==
        [line |-> from, condition |-> condition, is |-> is, text |-> text, wanted |-> wanted]
  IN  CASE from > Len(lines) -> Ended(<<>>, from)
        [] from <= Len(lines) /\ line.is \in Runnable ->
             IF sql = from + 1 THEN Failure("no SQL")
             ELSE IF line.is = "statement ok"
               THEN Ended(<<Record(line.is, Words(lines, from + 1, sql), <<>>)>>, sql)
               ELSE Ended(<<Record(line.is, Words(lines, from + 1, sql), Result(lines, sql))>>,
                          ResultEnd(lines, sql))
        [] from <= Len(lines) /\ line.is = "continue" ->
             Ended(<<Record("continue", <<>>, <<>>)>>, from + 1)
        [] OTHER -> Failure("not a directive")

-----------------------------------------------------------------------------
(***************************************************************************)
(* One turn of a loop.                                                     *)
(***************************************************************************)
\* `resolve`: a condition on this variable is settled, another one is left alone.
Resolve(condition, name, value) ==
  IF condition.how \notin {"skipif", "onlyif"} \/ condition.variable # name THEN condition
  ELSE IF (condition.wanted = value) = (condition.how = "onlyif") THEN Always ELSE Never

Put(text, name, value) == [i \in DOMAIN text |-> IF text[i] = name THEN value ELSE text[i]]

\* `substitute`: in the SQL, in the condition, and in what is expected of it, unless
\* that is the error of a statement that may fail.
Substitute(body, name, value) ==
  [i \in DOMAIN body |->
     [body[i] EXCEPT !.text = Put(@, name, value),
                     !.wanted = IF body[i].is = "statement maybe" THEN @ ELSE Put(@, name, value),
                     !.condition = Resolve(@, name, value)]]

\* The names of a loop one by one, when a value has a part for each of them.
PutIn(body, names, parts) ==
  LET After[k \in 0..Len(names)] ==
        IF k = 0 THEN body ELSE Substitute(After[k - 1], names[k], parts[k])
  IN  IF Len(names) = Len(parts) THEN After[Len(names)] ELSE body

\* Mutant: a continue ends the loop instead of one turn of it.
TurnsUntilContinue(body, names, values) ==
  LET all == FlattenSeq([i \in DOMAIN values |-> PutIn(body, names, values[i])])
      stops == {i \in DOMAIN all : all[i].is = "continue" /\ all[i].condition = Always}
  IN  IF stops = {} THEN all
      ELSE SubSeq(all, 1, (CHOOSE i \in stops : \A j \in stops : i <= j) - 1)

\* `iteration`: a continue that is sure to be taken cuts the turn short.
Iteration(body, names, parts) ==
  LET out == PutIn(body, names, parts)
      stops == {i \in DOMAIN out : out[i].is = "continue" /\ out[i].condition = Always}
  IN  IF stops = {} THEN out
      ELSE SubSeq(out, 1, (CHOOSE i \in stops : \A j \in stops : i <= j) - 1)

Turns(body, names, values) ==
  FlattenSeq([i \in DOMAIN values |-> Iteration(body, names, values[i])])

-----------------------------------------------------------------------------
\* `block`: records to the end of the file, or to an endloop when one is expected.
RECURSIVE Block(_, _, _, _, _)

\* `include`: a whole file, so a loop it opens has to close inside it.
Included(depth) ==
  IF depth >= NESTING THEN Failure("nested too deep") ELSE Block(Template, 1, FALSE, depth + 1, <<>>)

Block(lines, at, inside, depth, out) ==
  IF at > Len(lines)
    THEN IF inside THEN Failure("no endloop") ELSE Ended(out, at)
  ELSE
    LET line == lines[at]
        Read(got, next) ==
          IF got.error # "no" THEN got ELSE Block(lines, next, inside, depth, out \o got.records)
    IN  CASE line.is \in {"blank", "comment"} -> Block(lines, at + 1, inside, depth, out)
          [] line.is = "endloop" -> IF inside THEN Ended(out, at + 1) ELSE Failure("no loop")
          [] line.is = "loop" ->
               LET body == Block(lines, at + 1, TRUE, depth, <<>>)
               IN  Read([body EXCEPT !.records = Turns(@, line.names, line.values)], body.at)
          [] line.is = "include" -> Read(Included(depth), at + 1)
          [] OTHER -> LET got == One(lines, at) IN Read(got, got.at)

Parse(lines) == Block(lines, 1, FALSE, 0, <<>>)

-----------------------------------------------------------------------------
Init ==
  /\ reader_file = <<>>
  /\ reader_size = 0
  /\ parsed = NotRead

\* A file is written, and goes on as long as it can still be one.
Opens(lines) ==
  Cardinality({i \in DOMAIN lines : lines[i].is = "loop"})
    - Cardinality({i \in DOMAIN lines : lines[i].is = "endloop"})

WriteChunk ==
  /\ parsed = NotRead
  /\ reader_size < MaxChunks
  /\ Opens(reader_file) >= 0
  /\ \E chunk \in Chunks : reader_file' = reader_file \o chunk
  /\ reader_size' = reader_size + 1
  /\ UNCHANGED parsed

ReadFile ==
  /\ parsed = NotRead
  /\ parsed' = Parse(reader_file)
  /\ UNCHANGED <<reader_file, reader_size>>

Next == WriteChunk \/ ReadFile

-----------------------------------------------------------------------------
(***************************************************************************)
(* Properties.  Instead of being expanded a file could be interpreted: the *)
(* lines one after another, a variable with a value while its loop runs,   *)
(* and a continue back to the loop it is in.  What is done is a sequence   *)
(* of records with the values they saw.                                    *)
(***************************************************************************)
Close(lines, at) ==
  CHOOSE i \in (at + 1)..Len(lines) :
    /\ lines[i].is = "endloop"
    /\ Opens(SubSeq(lines, at, i)) = 0
    /\ \A j \in at..(i - 1) : Opens(SubSeq(lines, at, j)) > 0

Seen(text, env) == [i \in DOMAIN text |-> IF text[i] \in DOMAIN env THEN env[text[i]] ELSE text[i]]

Holds(condition, env) ==
  condition = Always \/ (env[condition.variable] = condition.wanted) = (condition.how = "onlyif")

RECURSIVE Interpret(_, _, _, _)
Interpret(lines, at, to, env) ==
  IF at > to THEN <<>>
  ELSE LET line == lines[at] IN
    CASE line.is = "loop" ->
           LET close == Close(lines, at)
               names == line.names
               With(v) == [n \in Range(names) |-> v[CHOOSE k \in DOMAIN names : names[k] = n]]
               Turn(v) == Interpret(lines, at + 1, close - 1,
                            IF Len(v) = Len(names) THEN With(v) @@ env ELSE env)
           IN  FlattenSeq([i \in DOMAIN line.values |-> Turn(line.values[i])])
                 \o Interpret(lines, close + 1, to, env)
      [] line.is = "include" ->
           Interpret(Template, 1, Len(Template), env) \o Interpret(lines, at + 1, to, env)
      [] line.is \in {"blank", "comment"} -> Interpret(lines, at + 1, to, env)
      [] OTHER ->
           LET got == One(lines, at)
               record == got.records[1]
           IN  IF got.records = <<>> THEN <<>>
               ELSE IF ~Holds(record.condition, env) THEN Interpret(lines, got.at, to, env)
               ELSE IF record.is = "continue" THEN <<>>
               ELSE <<<<record.line, Seen(record.text, env), Seen(record.wanted, env)>>>>
                      \o Interpret(lines, got.at, to, env)

Meaning == Interpret(reader_file, 1, Len(reader_file), <<>>)

Does(records) ==
  LET Runs(record) == record.condition = Always
      kept == SelectSeq(records, Runs)
  IN  [i \in DOMAIN kept |-> <<kept[i].line, kept[i].text, kept[i].wanted>>]

\* A line that is part of the result, or of the SQL, of the record above it.
Swallowed(lines, i) ==
  \E d \in 1..(i - 1) :
    \/ lines[d].is = "dashes" /\ \A k \in d..i : lines[k].is # "blank"
    \/ lines[d].is \in Runnable /\ \A k \in (d + 1)..i : ~EndsBody(lines[k])

IsRead ==
  /\ parsed.error = "no"
  /\ \A i \in DOMAIN reader_file :
       reader_file[i].is \in {"loop", "endloop"} => ~Swallowed(reader_file, i)

\* Whether every name is one of a loop around it, and a continue asks about the
\* innermost: one that asks about an outer one is settled only when that is expanded,
\* and then ends the turn of the outer loop.
Around(lines, at) == {i \in 1..at : lines[i].is = "loop" /\ Close(lines, i) > at}

Bound ==
  \A i \in DOMAIN reader_file :
    reader_file[i].is = "condition" =>
      LET variable == reader_file[i].condition.variable
          around == Around(reader_file, i)
          named == {k \in around : variable \in Range(reader_file[k].names)}
      IN  /\ named # {}
          /\ i < Len(reader_file) /\ reader_file[i + 1].is = "continue" =>
               \E k \in named : \A j \in around : j <= k

\* The flat list is what an interpreter would have done: every record as often, in the
\* same order, with the same values in it, over loops in loops, conditions on either
\* variable, included files, and bodies with no blank line in front of their endloop.
ExpansionIsTheProgram == IsRead /\ Bound => Does(parsed.records) = Meaning
=============================================================================
