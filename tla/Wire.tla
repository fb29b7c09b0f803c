--------------------------------- MODULE Wire ---------------------------------
(***************************************************************************)
(* How a run gets from one process to another: encode_run, decode and      *)
(* decode_run of isolate.rs, and the total the parent or merge adds it to. *)
(* A text is a sequence of characters, a word of a summary too; a keyword  *)
(* or a word from a fixed list is one character.  A child may have said    *)
(* other things in between, or nothing; a shard's file may end anywhere.   *)
(***************************************************************************)
EXTENDS Integers, Sequences, Kinds

CONSTANTS
  SummariesRun,  (* The runs that are written.                             *)
  Rows7,         (* The rows a skipped record may be on, in their order.   *)
  MaxReads       (* A bound on how many are folded together.               *)

VARIABLES
  written,     (* The run that was written.                                *)
  text,        (* What there is of it to read.                             *)
  torn,        (* Whether that is less than was written.                   *)
  decoded,     (* What was read.                                           *)
  wire_total,  (* What was added up.                                       *)
  wholes       (* History: the runs that were read whole.                  *)

wireVars == <<written, text, torn, decoded, wire_total, wholes>>

Whys   == {"rows", "error", "runtime"}
Caught == {"time", "memory", "died"}

Read(state) ==
  CASE state = "whole" -> "read whole" [] state = "mixed" -> "read mixed"
    [] state = "torn"  -> "read torn"  [] state = "empty" -> "read empty"

\* `Isolated` and `Stopped`: what is written is one of these.  A time is in parts of a
\* second, SECOND to the second, and what a child held is in bytes.
SECOND == 1000
IsWord(w) == w \in Seq(STRING)
Stops ==
  (Seq(STRING) \X {"died"} \X Seq(STRING)) \cup (Seq(STRING) \X {"time", "memory"} \X Nat)
Failures ==
  [file : Seq(STRING), line : Nat, sql : Seq(STRING), reason : Whys, detail : Seq(STRING)]
IsKinds(kinds) ==
  /\ kinds = [seen |-> kinds.seen, unclassified |-> kinds.unclassified]
  /\ kinds.unclassified \in Nat
  /\ IsFiniteSet(DOMAIN kinds.seen)
  /\ kinds.seen \in [DOMAIN kinds.seen -> [passed : Nat, failed : Nat]]
  /\ \A k \in DOMAIN kinds.seen : IsWord(k)
IsRun(run) ==
  /\ run = [files |-> run.files, passed |-> run.passed, failed |-> run.failed,
            skips |-> run.skips, kinds |-> run.kinds, skipped_files |-> run.skipped_files,
            stopped |-> run.stopped, failures |-> run.failures]
  /\ {run.files, run.passed, run.failed} \subseteq Nat
  /\ run.skips \in [1..Len(Rows7) -> Nat]
  /\ IsKinds(run.kinds)
  /\ run.skipped_files \in Seq(Seq(STRING) \X Seq(STRING))
  /\ run.stopped \in Seq(Stops)
  /\ run.failures \in Seq(Failures)

Nobody == [files |-> 0, passed |-> 0, failed |-> 0, skips |-> [r \in 1..Len(Rows7) |-> 0],
           kinds |-> NoKinds, skipped_files |-> <<>>, stopped |-> <<>>, failures |-> <<>>]

-----------------------------------------------------------------------------
(***************************************************************************)
(* Writing.                                                                *)
(***************************************************************************)
\* Lists one behind the other.
Concat(lists) ==
  LET upto[i \in 0..Len(lists)] == IF i = 0 THEN <<>> ELSE upto[i - 1] \o lists[i]
  IN  upto[Len(lists)]

Digits == <<"0", "1", "2", "3", "4", "5", "6", "7", "8", "9">>

NumberText(n) ==
  LET numeral[m \in 0..n] ==
        IF m < 10 THEN <<Digits[m + 1]>>
        ELSE Append(numeral[m \div 10], Digits[(m % 10) + 1])
  IN  numeral[n]

\* Mutant: the backslash itself is left as it is.
EscapeBlanks(c) ==
  CASE c = "newline" -> <<"backslash", "n">>
    [] c = "return"  -> <<"backslash", "r">>
    [] c = "tab"     -> <<"backslash", "t">>
    [] OTHER         -> <<c>>

\* `escape`
Escape(c) ==
  CASE c = "newline"   -> <<"backslash", "n">>
    [] c = "return"    -> <<"backslash", "r">>
    [] c = "tab"       -> <<"backslash", "t">>
    [] c = "backslash" -> <<"backslash", "backslash">>
    [] OTHER           -> <<c>>
Escaped(word) == Concat([i \in DOMAIN word |-> Escape(word[i])])

\* What a line starts with, and what comes behind it with a tab before each.
Line(word, fields) == [word |-> word, fields |-> fields]
Content(line) ==
  <<line.word>> \o Concat([i \in DOMAIN line.fields |-> <<"tab">> \o line.fields[i]])

\* The kinds that were seen, in some order.
Listed(S) == CHOOSE list \in [1..Cardinality(S) -> S] : \A k \in S : \E i \in DOMAIN list : list[i] = k

KindLine(k, tally) ==
  Line("kind", <<Escaped(k), NumberText(tally.passed), NumberText(tally.failed)>>)
SkipLine(s) == Line("skipfile", <<Escaped(s[1]), Escaped(s[2])>>)
\* `as_secs`: what is left of a second is not written.
StopText(s) ==
  CASE s[2] = "died" -> s[3] [] s[2] = "memory" -> NumberText(s[3])
    [] s[2] = "time" -> NumberText(s[3] \div SECOND)
StopLine(s) == Line("stopfile", <<Escaped(s[1]), <<s[2]>>, Escaped(StopText(s))>>)
FailureLine(f) ==
  Line("failure", <<Escaped(f.file), NumberText(f.line), Escaped(f.sql), <<f.reason>>,
                    Escaped(f.detail)>>)

\* `encode_run`
Lines(run) ==
  LET kinds == Listed(DOMAIN run.kinds.seen)
  IN  <<Line("counts", <<NumberText(run.files), NumberText(run.passed), NumberText(run.failed)>>
                         \o [r \in 1..Len(Rows7) |-> NumberText(run.skips[r])]),
        Line("unclassified", <<NumberText(run.kinds.unclassified)>>)>>
      \o [i \in DOMAIN kinds |-> KindLine(kinds[i], run.kinds.seen[kinds[i]])]
      \o [i \in DOMAIN run.skipped_files |-> SkipLine(run.skipped_files[i])]
      \o [i \in DOMAIN run.stopped |-> StopLine(run.stopped[i])]
      \o [i \in DOMAIN run.failures |-> FailureLine(run.failures[i])]

Encode(run) ==
  LET lines == Lines(run)
  IN  Concat([i \in DOMAIN lines |-> Content(lines[i]) \o <<"newline">>])

-----------------------------------------------------------------------------
(***************************************************************************)
(* Reading.                                                                *)
(***************************************************************************)
\* One more character in the last of them.
Longer(pieces, c) == [pieces EXCEPT ![Len(pieces)] = Append(@, c)]

\* `lines` and `split`, a character at a time.
Pieces(chars, at) ==
  LET upto[i \in 0..Len(chars)] ==
        IF i = 0 THEN <<<<>>>>
        ELSE IF chars[i] = at THEN Append(upto[i - 1], <<>>)
        ELSE Longer(upto[i - 1], chars[i])
  IN  upto[Len(chars)]

\* `unescape`: a backslash at the very end stands for itself.
Means(c) == CASE c = "n" -> "newline" [] c = "r" -> "return" [] c = "t" -> "tab" [] OTHER -> c
Heard(so, c) ==
  IF so.after THEN [out |-> Append(so.out, Means(c)), after |-> FALSE]
  ELSE IF c = "backslash" THEN [out |-> so.out, after |-> TRUE]
  ELSE [out |-> Append(so.out, c), after |-> FALSE]
Hearing(word) ==
  LET upto[i \in 0..Len(word)] ==
        IF i = 0 THEN [out |-> <<>>, after |-> FALSE] ELSE Heard(upto[i - 1], word[i])
  IN  upto[Len(word)]
Unescaped(word) ==
  LET end == Hearing(word) IN IF end.after THEN Append(end.out, "backslash") ELSE end.out

\* `parse().unwrap_or(0)`
DigitSet   == {Digits[d] : d \in 1..10}
DigitOf(c) == CHOOSE d \in 0..9 : Digits[d + 1] = c
Value(word) ==
  LET upto[i \in 0..Len(word)] == IF i = 0 THEN 0 ELSE 10 * upto[i - 1] + DigitOf(word[i])
  IN  upto[Len(word)]
Parsed(word) ==
  IF word = <<>> \/ \E i \in DOMAIN word : word[i] \notin DigitSet THEN 0 ELSE Value(word)

\* A word from a fixed list that is not on it is the most general one.
Named(part, names, otherwise) ==
  IF \E name \in names : part = <<name>> THEN part[1] ELSE otherwise

\* `from_secs`
StopOf(file, why, value) ==
  <<file, why, CASE why = "died" -> value [] why = "memory" -> Parsed(value)
                 [] why = "time" -> SECOND * Parsed(value)>>

\* By position, with a default for a counts line that is short.
ReadLine(out, line) ==
  LET parts == Pieces(line, "tab")
      word == parts[1]
      At(n) == IF n + 1 \in DOMAIN parts THEN Parsed(parts[n + 1]) ELSE 0
  IN  CASE word = <<"counts">> ->
             [out EXCEPT !.files = At(1), !.passed = At(2), !.failed = At(3),
                         !.skips = [r \in 1..Len(Rows7) |-> At(r + 3)]]
        [] word = <<"unclassified">> /\ Len(parts) = 2 ->
             [out EXCEPT !.kinds.unclassified = @ + At(1)]
        [] word = <<"kind">> /\ Len(parts) = 4 ->
             [out EXCEPT !.kinds = Charged(@, Unescaped(parts[2]), At(2), At(3))]
        [] word = <<"skipfile">> /\ Len(parts) = 3 ->
             [out EXCEPT !.skipped_files = Append(@, <<Unescaped(parts[2]), Unescaped(parts[3])>>)]
        [] word = <<"stopfile">> /\ Len(parts) = 4 ->
             [out EXCEPT !.stopped = Append(@,
                StopOf(Unescaped(parts[2]), Named(parts[3], Caught, "died"), Unescaped(parts[4])))]
        [] word = <<"failure">> /\ Len(parts) = 6 ->
             [out EXCEPT !.failures = Append(@,
                [file |-> Unescaped(parts[2]), line |-> Parsed(parts[3]),
                 sql |-> Unescaped(parts[4]), reason |-> Named(parts[5], Whys, "runtime"),
                 detail |-> Unescaped(parts[6])])]
        [] OTHER -> out

\* `read_lines`
ReadEach(lines) ==
  LET upto[i \in 0..Len(lines)] == IF i = 0 THEN Nobody ELSE ReadLine(upto[i - 1], lines[i])
  IN  upto[Len(lines)]
ReadLines(chars) == ReadEach(Pieces(chars, "newline"))

Counted(chars) ==
  LET lines == Pieces(chars, "newline")
  IN  \E i \in DOMAIN lines : Pieces(lines[i], "tab")[1] = <<"counts">>

SaidNothing == <<<<"name">>, "died", <<"said nothing">>>>

\* `decode`: a child that counted nothing is a file that was cut off.
DecodeChild(chars) ==
  IF Counted(chars) THEN ReadLines(chars)
  ELSE [ReadLines(chars) EXCEPT !.files = 1, !.stopped = Append(@, SaidNothing)]

\* `absorb`
Absorb(total, run) ==
  [files |-> total.files + run.files, passed |-> total.passed + run.passed,
   failed |-> total.failed + run.failed,
   skips |-> [r \in DOMAIN total.skips |-> total.skips[r] + run.skips[r]],
   kinds |-> AbsorbKinds(total.kinds, run.kinds),
   skipped_files |-> total.skipped_files \o run.skipped_files,
   stopped |-> total.stopped \o run.stopped,
   failures |-> total.failures \o run.failures]

-----------------------------------------------------------------------------
Init ==
  /\ written = Nobody
  /\ text = <<>>
  /\ torn = "nothing"
  /\ decoded = Nobody
  /\ wire_total = Nobody
  /\ wholes = <<>>

WriteOut ==
  /\ torn = "nothing"
  /\ Len(wholes) < MaxReads
  /\ written' \in SummariesRun
  /\ text' = Encode(written')
  /\ torn' = "whole"
  /\ UNCHANGED <<decoded, wire_total, wholes>>

\* What an engine, or a panic that was caught, says in between.
SaySomething ==
  /\ torn = "whole"
  /\ \E i \in DOMAIN text :
       /\ text[i] = "newline"
       /\ text' = SubSeq(text, 1, i) \o <<"thread", "tab", "newline">> \o SubSeq(text, i + 1, Len(text))
  /\ torn' = "mixed"
  /\ UNCHANGED <<written, decoded, wire_total, wholes>>

\* A child that left before it printed, or a file that was not written to its end.
Tear ==
  /\ torn = "whole"
  /\ \E n \in 0..(Len(text) - 1) : text' = SubSeq(text, 1, n)
  /\ torn' = IF text' = <<>> THEN "empty" ELSE "torn"
  /\ UNCHANGED <<written, decoded, wire_total, wholes>>

Fold(run) ==
  /\ decoded' = run
  /\ wire_total' = Absorb(wire_total, run)
  /\ torn' = Read(torn)
  /\ UNCHANGED <<written, text, wholes>>

ReadChild == torn \in {"whole", "mixed", "empty"} /\ Fold(DecodeChild(text))

ReadShard == torn \in {"whole", "torn"} /\ Fold(ReadLines(text))

\* The next file: what was read whole is kept, for the sum.
Another ==
  /\ torn \in {"read whole", "read mixed"}
  /\ torn' = "nothing"
  /\ wholes' = Append(wholes, written)
  /\ written' = Nobody
  /\ text' = <<>>
  /\ decoded' = Nobody
  /\ UNCHANGED wire_total

Next == WriteOut \/ SaySomething \/ Tear \/ ReadChild \/ ReadShard \/ Another

-----------------------------------------------------------------------------
(***************************************************************************)
(* Properties.                                                             *)
(***************************************************************************)

\* A list that was cut is the beginning of the one that was written; only what the
\* cut went through may differ.
Begins(less, list) ==
  /\ Len(less) <= Len(list)
  /\ \A i \in 1..(Len(less) - 1) : less[i] = list[i]

NoMore(less, run) ==
  /\ less.files <= run.files /\ less.passed <= run.passed /\ less.failed <= run.failed
  /\ \A r \in DOMAIN Rows7 : less.skips[r] <= run.skips[r]
  /\ less.kinds.unclassified <= run.kinds.unclassified
  /\ \A k \in DOMAIN less.kinds.seen :
       /\ k \in DOMAIN run.kinds.seen
       /\ TallyOf(less.kinds, k).passed <= TallyOf(run.kinds, k).passed
       /\ TallyOf(less.kinds, k).failed <= TallyOf(run.kinds, k).failed
  /\ Begins(less.skipped_files, run.skipped_files)
  /\ Begins(less.stopped, run.stopped)
  /\ Begins(less.failures, run.failures)

\* A run whose times are in whole seconds, what is over being dropped.
ToTheSecond(s) == IF s[2] = "time" THEN <<s[1], s[2], SECOND * (s[3] \div SECOND)>> ELSE s
InSeconds(run) == [run EXCEPT !.stopped = [i \in DOMAIN run.stopped |-> ToTheSecond(run.stopped[i])]]

\* A run comes back as it was written but for the part of a second in the time of a file
\* that was stopped, which is not kept: whatever characters are in its words and whatever
\* else was said in between; a child that said nothing is a file that was cut off; and a
\* file that was cut anywhere, in the middle of a number or of an escape, never says more
\* than was written: no counter is larger and no failure is made up.
WireKeepsTheRun ==
  CASE torn \in {"read whole", "read mixed"} -> decoded = InSeconds(written)
    [] torn = "read empty" -> decoded = [Nobody EXCEPT !.files = 1, !.stopped = <<SaidNothing>>]
    [] torn = "read torn"  -> NoMore(decoded, InSeconds(written))
    [] OTHER -> TRUE

\* What the runs that were read whole come to together is what each of them said: a
\* kind is supported when one of them saw it pass and none saw it fail, and every
\* record and failure is there once.
PassedBy(seq) ==
  LET upto[i \in 0..Len(seq)] == IF i = 0 THEN 0 ELSE upto[i - 1] + seq[i].passed
  IN  upto[Len(seq)]

SumIsOfTheRuns ==
  torn = "nothing" =>
    LET Saw(k, what) == \E i \in DOMAIN wholes : TallyOf(wholes[i].kinds, k)[what] > 0
    IN  /\ wire_total.failures = Concat([i \in DOMAIN wholes |-> wholes[i].failures])
        /\ wire_total.passed = PassedBy(wholes)
        /\ Supported(wire_total.kinds) = {k \in Surface : Saw(k, "passed") /\ ~Saw(k, "failed")}
        /\ Untouched(wire_total.kinds)
             = {k \in Surface : ~Saw(k, "passed") /\ ~Saw(k, "failed")}
        /\ Rate(wire_total.kinds) = 100 => Failing(wire_total.kinds) = {}
=============================================================================
