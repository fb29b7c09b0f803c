-------------------------- MODULE ConformRun_proofs --------------------------
(***************************************************************************)
(* What is proved of ConformRun for every set of files, answers, engines   *)
(* and labels: its types, that its counters count records, that nothing    *)
(* the file puts before a halt goes uncounted, that a file with no         *)
(* `statement maybe` and one spelling of each path is judged on the        *)
(* databases it means, and what a pass means against an internal error,    *)
(* under a label and inside the brackets of a mode.                        *)
(***************************************************************************)
EXTENDS ConformRun, FiniteSetTheorems, TLAPS

-----------------------------------------------------------------------------
(***************************************************************************)
(* Facts about files and rows.                                             *)
(***************************************************************************)

\* A file of the corpus is a sequence of lines.
LEMMA FileLines ==
  ASSUME NEW f \in Files
  PROVE  /\ Len(f) \in Nat
         /\ \A i \in 1..Len(f) : f[i] \in Lines
  BY LinesAssumption

\* Every gap is owed to one of the rows of the summary.
LEMMA OweToRow ==
  ASSUME NEW gap \in {"excused", "engine", "harness", "machine"}
  PROVE  OweTo(gap) \in SkipRows
  BY DEF OweTo, SkipRows

\* What a stop leaves behind is a finite set of records of the file.
LEMMA RunnableIsFinite ==
  ASSUME NEW f \in Files, NEW from \in 1..(Len(f) + 1)
  PROVE  /\ RunnableSet(f, from) \subseteq from..Len(f)
         /\ RunnableSet(f, from) \subseteq 1..Len(f)
         /\ IsFiniteSet(RunnableSet(f, from))
         /\ Runnable(f, from) \in Nat
  <1>0. Len(f) \in Nat
    BY FileLines
  <1>1. RunnableSet(f, from) \subseteq from..Len(f)
    BY DEF RunnableSet
  <1>2. from..Len(f) \subseteq 1..Len(f)
    BY <1>0
  <1>3. IsFiniteSet(from..Len(f))
    BY <1>0, FS_Interval
  <1>4. IsFiniteSet(RunnableSet(f, from))
    BY <1>1, <1>3, FS_Subset
  <1>5. QED
    BY <1>1, <1>2, <1>4, FS_CardinalityType DEF Runnable

\* A row that a set of new records enters grows by the size of the set.
LEMMA UnionCounts ==
  ASSUME NEW n \in Nat,
         NEW Old \in SUBSET (1..n),
         NEW S \in SUBSET (1..n),
         Old \cap S = {}
  PROVE  /\ Cardinality(S) \in Nat
         /\ Cardinality(Old) \in Nat
         /\ Cardinality(Old \cup S) = Cardinality(Old) + Cardinality(S)
  <1>1. IsFiniteSet(1..n)
    BY FS_Interval
  <1>2. IsFiniteSet(Old) /\ IsFiniteSet(S)
    BY <1>1, FS_Subset
  <1>3. Cardinality(Old) \in Nat /\ Cardinality(S) \in Nat
    BY <1>2, FS_CardinalityType
  <1>4. Cardinality(Old \cap S) = 0
    BY FS_EmptySet
  <1>5. Cardinality(Old \cup S) = Cardinality(Old) + Cardinality(S) - Cardinality(Old \cap S)
    BY <1>2, FS_Union
  <1>6. QED
    BY <1>3, <1>4, <1>5

-----------------------------------------------------------------------------
(***************************************************************************)
(* The shapes a step can have, as far as the counters can tell.            *)
(***************************************************************************)
Gaps == {"excused", "engine", "harness", "machine"}

\* The loop passes a line that is not SQL and puts nothing on a counter.
Passes ==
  /\ Looking
  /\ Line.kind \notin Sql \cup {"halt"}
  /\ phase' = phase /\ at' = at + 1
  /\ UNCHANGED <<file, connections, tally, row, told>>

\* It puts the line on one counter without running it.
SetsAside ==
  /\ Looking
  /\ Line.kind # "halt"
  /\ phase' = phase /\ at' = at + 1
  /\ \E r \in SkipRows : Charge(r, 1) /\ Enter({at}, r)
  /\ UNCHANGED <<file, connections, told>>

\* It runs the record and puts it on a column of the rate.
Judges ==
  /\ Looking
  /\ Line.kind \in Sql
  /\ phase' = phase /\ at' = at + 1
  /\ \E verdict \in Verdicts \ {"ignored"} :
       \E r \in {"passed", "failed"} :
         /\ r = "passed" <=> verdict = "passed"
         /\ Charge(r, 1) /\ Enter({at}, r)
         /\ told' = [told EXCEPT ![at] = verdict]
  /\ UNCHANGED <<file, connections>>

\* It owes the rest of the file to a gap.
Stops ==
  /\ phase \in {"ready", "running"}
  /\ \E gap \in Gaps : EndFile(gap)

\* It ends on a halt or at the end of the file.
Ends ==
  /\ phase = "running" /\ phase' = "done"
  /\ \/ Looking /\ Line.kind = "halt"
     \/ at > Len(file)
  /\ UNCHANGED <<file, connections, at, tally, row, told>>

\* It starts, or the engine breaks under it.
StartsOrBreaks ==
  /\ \/ phase = "ready" /\ phase' = "running"
     \/ phase' = "broken"
  /\ UNCHANGED <<file, connections, at, tally, row, told>>

Stutters == UNCHANGED <<file, connections, phase, at, tally, row, told>>

\* Whatever the engine answers, the verdict is one of the table's.
LEMMA JudgeType ==
  ASSUME NEW line, NEW answer, NEW l, NEW s
  PROVE  Judge(line, answer, l, s) \in Verdicts
  <1>1. ReasonOf(answer) \in Verdicts
    BY DEF ReasonOf, Verdicts, Reasons
  <1>2. Matches(answer, line.wanted) \in Verdicts
    BY DEF Matches, WrongError, Verdicts, Reasons
  <1>3. JudgeError(line, answer, s) \in Verdicts
    BY <1>1, <1>2 DEF JudgeError, Verdicts, Reasons
  <1>4. JudgeRows(line, answer, l) \in Verdicts
    BY DEF JudgeRows, Verdicts, Reasons
  <1>5. QED
    BY <1>3, <1>4 DEF Judge, Verdicts, Reasons

\* Every step of the run has one of the shapes.
LEMMA Shapes ==
  ASSUME TypeOK, [Next]_vars
  PROVE  Passes \/ SetsAside \/ Judges \/ Stops \/ Ends \/ StartsOrBreaks \/ Stutters
  <1> USE DEF given, said, database, Looking, Live, Line, Step
  <1>0. /\ Len(file) \in Nat
        /\ \A i \in 1..Len(file) : file[i] \in Lines
    BY FileLines DEF TypeOK
  <1>1. CASE SkipWhole
    <2>1. PICK i \in Unmet(file) : EndFile(file[i].gap)
      BY <1>1 DEF SkipWhole
    <2>2. file[i].gap \in Gaps
      BY <1>0, LinesAssumption DEF Unmet, Gaps
    <2>3. QED
      BY <1>1, <2>1, <2>2 DEF SkipWhole, Stops
  <1>2. CASE Begin \/ Break
    BY <1>2 DEF Begin, Break, StartsOrBreaks
  <1>3. CASE Finish \/ Halt
    BY <1>3 DEF Finish, Halt, Ends
  <1>4. CASE FollowMode \/ PassOver \/ ForgetLabel
    BY <1>4 DEF FollowMode, PassOver, ForgetLabel, Passes, Sql
  <1>5. CASE TakeSetting \/ Seed
    BY <1>5 DEF TakeSetting, Seed, Passes, Sql
  <1>6. CASE Reconnect \/ Load \/ Restart
    BY <1>6 DEF Reconnect, Load, Restart, Passes, Sql
  <1>7. CASE SkipForMode \/ SkipForCondition
    BY <1>7 DEF SkipForMode, SkipForCondition, SetAside, SetsAside, SkipRows, Unconditional
  <1>8. CASE ExcuseMaybe
    BY <1>8 DEF ExcuseMaybe, SetAside, SetsAside, SkipRows
  <1>9. CASE EndAtContinue \/ EndAtSeed \/ EndAtLoad \/ EndAtRestart \/ EndAtConnection
    <2>1. EndFile("harness") \/ EndFile("engine")
      BY <1>9 DEF EndAtContinue, EndAtSeed, EndAtLoad, EndAtRestart, EndAtConnection
    <2>2. phase = "running"
      BY <1>9 DEF EndAtContinue, EndAtSeed, EndAtLoad, EndAtRestart, EndAtConnection
    <2>3. QED
      BY <2>1, <2>2 DEF Stops, Gaps
  <1>10. ASSUME NEW answer \in Answers, StopOnIgnored(answer)
         PROVE  Stops
    BY <1>10 DEF StopOnIgnored, ReachesEngine, Stops, Gaps
  <1>11. ASSUME NEW answer \in Answers, Run(answer)
         PROVE  Judges
    <2> DEFINE verdict == Judge(Line, answer, labels, settings)
               r == IF verdict = "passed" THEN "passed" ELSE "failed"
    <2>1. verdict \in Verdicts \ {"ignored"}
      BY <1>11, JudgeType DEF Run
    <2>2. /\ Looking /\ Line.kind \in Sql
          /\ phase' = phase /\ at' = at + 1
          /\ UNCHANGED <<file, connections>>
      BY <1>11 DEF Run, ReachesEngine
    <2>3. /\ Charge(r, 1) /\ Enter({at}, r)
          /\ told' = [told EXCEPT ![at] = verdict]
      BY <1>11 DEF Run
    <2>4. r \in {"passed", "failed"} /\ (r = "passed" <=> verdict = "passed")
      OBVIOUS
    <2> HIDE DEF verdict, r
    <2>5. QED
      BY <2>1, <2>2, <2>3, <2>4 DEF Judges
  <1>12. CASE UNCHANGED vars
    BY <1>12 DEF vars, Stutters
  <1>13. QED
    BY <1>1, <1>2, <1>3, <1>4, <1>5, <1>6, <1>7, <1>8, <1>9, <1>10, <1>11, <1>12
       DEF Next

\* The depth of `mode skip` is never negative.
LEMMA DepthType ==
  ASSUME TypeOK, [Next]_vars
  PROVE  skipping' \in Nat
  <1> USE DEF TypeOK, SetAside, EndFile
  <1>1. CASE FollowMode
    BY <1>1 DEF FollowMode, Unskip
  <1>2. CASE ~FollowMode
    BY <1>2 DEF Next, vars, SkipWhole, Begin, Finish, Break, Halt, PassOver,
         ForgetLabel, SkipForMode, SkipForCondition, EndAtContinue, ExcuseMaybe,
         TakeSetting, Seed, EndAtSeed, Reconnect, Load, Restart, EndAtLoad,
         EndAtRestart, EndAtConnection, Run, StopOnIgnored
  <1>3. QED
    BY <1>1, <1>2

-----------------------------------------------------------------------------
(***************************************************************************)
(* The inductive invariant: while the run goes on, the records from `at`   *)
(* on are on no counter, the SQL records before it are all on one, and     *)
(* none of the records before it is a halt.                                *)
(***************************************************************************)
Going == phase \in {"ready", "running"}

Untouched ==
  Going => \A i \in 1..Len(file) : i >= at => row[i] = NoRow

AllCounted ==
  Going => \A i \in 1..Len(file) :
             i < at => /\ file[i].kind # "halt"
                       /\ file[i].kind \in Sql => row[i] # NoRow

IInv ==
  /\ TypeOK
  /\ TallyCountsRecords
  /\ ToldIsTheRate
  /\ Untouched
  /\ AllCounted
  /\ NothingVanishes

LEMMA InitIInv == Init => IInv
  <1> SUFFICES ASSUME Init PROVE IInv
    OBVIOUS
  <1>0. Len(file) \in Nat
    BY FileLines DEF Init
  <1>1. TypeOK
    <2>1. connections \in BOOLEAN
      BY LinesAssumption DEF Init
    <2>2. tally \in [RowNames -> Nat]
      BY DEF Init
    <2>3. /\ told \in [1..Len(file) -> (Verdicts \ {"ignored"}) \cup {NotRun}]
          /\ row \in [1..Len(file) -> RowNames \cup {NoRow}]
      BY DEF Init
    <2>4. file \in Files /\ phase = "ready" /\ skipping = 0 /\ at = 1
      BY DEF Init
    <2>5. QED
      BY <1>0, <2>1, <2>2, <2>3, <2>4 DEF TypeOK
  <1>2. TallyCountsRecords
    <2>0. /\ tally = [r \in RowNames |-> 0]
          /\ row = [i \in 1..Len(file) |-> NoRow]
      BY DEF Init
    <2>1. ASSUME NEW r \in RowNames
          PROVE  tally[r] = Cardinality({i \in DOMAIN row : row[i] = r})
      <3>1. {i \in DOMAIN row : row[i] = r} = {}
        BY <2>0 DEF RowNames, SkipRows, NoRow
      <3>2. QED
        BY <2>0, <3>1, FS_EmptySet
    <2>2. QED
      BY <2>1 DEF TallyCountsRecords
  <1>3. ToldIsTheRate
    BY DEF Init, ToldIsTheRate, NotRun, NoRow, Reasons
  <1>4. Untouched /\ AllCounted /\ NothingVanishes
    <2>1. /\ at = 1 /\ phase = "ready"
          /\ \A i \in 1..Len(file) : row[i] = NoRow
      BY DEF Init
    <2>2. QED
      BY <1>0, <2>1 DEF Untouched, AllCounted, NothingVanishes, Going
  <1>5. QED
    BY <1>1, <1>2, <1>3, <1>4 DEF IInv

\* Charging a row for the uncounted records that enter it keeps the counters
\* and the rows in step.
LEMMA ChargeKeepsTally ==
  ASSUME TypeOK, TallyCountsRecords,
         NEW r \in RowNames,
         NEW S \in SUBSET (1..Len(file)),
         \A i \in S : row[i] = NoRow,
         Charge(r, Cardinality(S)),
         Enter(S, r)
  PROVE  /\ TallyCountsRecords'
         /\ tally' \in [RowNames -> Nat]
         /\ row' \in [1..Len(file) -> RowNames \cup {NoRow}]
  <1>1. Len(file) \in Nat
    BY FileLines DEF TypeOK
  <1>2. /\ row \in [1..Len(file) -> RowNames \cup {NoRow}]
        /\ tally \in [RowNames -> Nat]
    BY DEF TypeOK
  <1>3. row' = [i \in 1..Len(file) |-> IF i \in S THEN r ELSE row[i]]
    BY <1>2 DEF Enter
  <1>4. row' \in [1..Len(file) -> RowNames \cup {NoRow}]
    BY <1>2, <1>3
  <1>5. tally' = [tally EXCEPT ![r] = @ + Cardinality(S)]
    BY DEF Charge
  <1>6. ASSUME NEW q \in RowNames
        PROVE  /\ tally'[q] = Cardinality({i \in 1..Len(file) : row'[i] = q})
               /\ tally'[q] \in Nat
    <2> DEFINE Old == {i \in 1..Len(file) : row[i] = q}
               New == {i \in 1..Len(file) : row'[i] = q}
    <2>0. NoRow \notin RowNames
      BY DEF NoRow, RowNames, SkipRows
    <2>1. tally[q] = Cardinality(Old)
      BY <1>2 DEF TallyCountsRecords
    <2>2. CASE q = r
      <3>1. New = Old \cup S
        BY <1>3, <2>2
      <3>2. Old \cap S = {}
        BY <2>0
      <3> HIDE DEF Old, New
      <3>3. /\ Cardinality(S) \in Nat
            /\ Cardinality(New) = Cardinality(Old) + Cardinality(S)
        <4>1. Old \in SUBSET (1..Len(file))
          BY DEF Old
        <4>2. Cardinality(Old \cup S) = Cardinality(Old) + Cardinality(S)
          BY <1>1, <3>2, <4>1, UnionCounts
        <4>3. QED
          BY <1>1, <3>1, <3>2, <4>1, <4>2, UnionCounts
      <3>4. QED
        BY <1>2, <1>5, <2>1, <2>2, <3>3 DEF New
    <2>3. CASE q # r
      <3>1. New = Old
        BY <1>3, <2>0, <2>3
      <3>2. QED
        BY <1>2, <1>5, <2>1, <2>3, <3>1
    <2>4. QED
      BY <2>2, <2>3
  <1>7. tally' \in [RowNames -> Nat]
    BY <1>2, <1>5, <1>6
  <1>8. TallyCountsRecords'
    BY <1>4, <1>6 DEF TallyCountsRecords
  <1>9. QED
    BY <1>4, <1>7, <1>8

\* One record charged is a set of one.
LEMMA ChargeOneKeepsTally ==
  ASSUME TypeOK, TallyCountsRecords, Looking, row[at] = NoRow,
         NEW r \in RowNames,
         Charge(r, 1),
         Enter({at}, r)
  PROVE  /\ TallyCountsRecords'
         /\ tally' \in [RowNames -> Nat]
         /\ row' \in [1..Len(file) -> RowNames \cup {NoRow}]
         /\ at \in 1..Len(file)
         /\ row' = [i \in 1..Len(file) |-> IF i = at THEN r ELSE row[i]]
  <1>0. Len(file) \in Nat
    BY FileLines DEF TypeOK
  <1>1. at \in 1..Len(file)
    BY <1>0 DEF TypeOK, Looking
  <1>2. Cardinality({at}) = 1
    BY FS_Singleton
  <1>3. Charge(r, Cardinality({at}))
    BY <1>2
  <1>4. /\ TallyCountsRecords'
        /\ tally' \in [RowNames -> Nat]
        /\ row' \in [1..Len(file) -> RowNames \cup {NoRow}]
    BY <1>1, <1>3, ChargeKeepsTally
  <1>5. row' = [i \in 1..Len(file) |-> IF i = at THEN r ELSE row[i]]
    BY DEF Enter, TypeOK
  <1>6. QED
    BY <1>1, <1>4, <1>5

LEMMA StepIInv ==
  ASSUME IInv, [Next]_vars
  PROVE  IInv'
  <1> USE DEF IInv
  <1>0. Len(file) \in Nat
    BY FileLines DEF TypeOK
  <1>d. skipping' \in Nat
    BY DepthType
  <1>n. NoRow \notin RowNames /\ {"passed", "failed"} \subseteq RowNames /\ SkipRows \subseteq RowNames
    BY DEF NoRow, RowNames, SkipRows
  <1>1. CASE Passes
    <2>1. at \in 1..Len(file) /\ phase = "running"
      BY <1>0, <1>1 DEF TypeOK, Passes, Looking
    <2>2. TypeOK'
      BY <1>0, <1>1, <1>d, <2>1 DEF TypeOK, Passes
    <2>3. TallyCountsRecords' /\ ToldIsTheRate'
      BY <1>1, <2>1 DEF Passes, TallyCountsRecords, ToldIsTheRate
    <2>6. NothingVanishes'
      BY <1>1, <2>1 DEF Passes, NothingVanishes
    <2>4. Untouched' /\ AllCounted'
      BY <1>0, <1>1, <2>1 DEF Passes, Untouched, AllCounted, Going, Line
    <2>5. QED
      BY <2>2, <2>3, <2>4, <2>6
  <1>2. CASE SetsAside
    <2>1. at \in 1..Len(file) /\ phase = "running" /\ row[at] = NoRow
      BY <1>0, <1>2 DEF TypeOK, SetsAside, Looking, Untouched, Going
    <2>2. PICK r \in SkipRows : Charge(r, 1) /\ Enter({at}, r)
      BY <1>2 DEF SetsAside
    <2>3. /\ TallyCountsRecords'
          /\ tally' \in [RowNames -> Nat]
          /\ row' \in [1..Len(file) -> RowNames \cup {NoRow}]
          /\ row' = [i \in 1..Len(file) |-> IF i = at THEN r ELSE row[i]]
      BY <1>2, <1>n, <2>1, <2>2, ChargeOneKeepsTally DEF SetsAside
    <2>4. TypeOK'
      BY <1>0, <1>2, <1>d, <2>1, <2>3 DEF TypeOK, SetsAside
    <2>5. ToldIsTheRate'
      <3>1. r \notin {"passed", "failed"} /\ NoRow \notin {"passed", "failed"}
        BY DEF SkipRows, NoRow
      <3>2. QED
        BY <1>2, <2>1, <2>3, <3>1 DEF SetsAside, ToldIsTheRate
    <2>6. NothingVanishes'
      BY <1>2, <2>1 DEF SetsAside, NothingVanishes
    <2>7. Untouched' /\ AllCounted'
      BY <1>0, <1>2, <1>n, <2>1, <2>3 DEF SetsAside, Untouched, AllCounted, Going, Line
    <2>8. QED
      BY <2>3, <2>4, <2>5, <2>6, <2>7
  <1>3. CASE Judges
    <2>1. at \in 1..Len(file) /\ phase = "running" /\ row[at] = NoRow
      BY <1>0, <1>3 DEF TypeOK, Judges, Looking, Untouched, Going
    <2>2. PICK verdict \in Verdicts \ {"ignored"}, r \in {"passed", "failed"} :
            /\ r = "passed" <=> verdict = "passed"
            /\ Charge(r, 1) /\ Enter({at}, r)
            /\ told' = [told EXCEPT ![at] = verdict]
      BY <1>3 DEF Judges
    <2>3. /\ TallyCountsRecords'
          /\ tally' \in [RowNames -> Nat]
          /\ row' \in [1..Len(file) -> RowNames \cup {NoRow}]
          /\ row' = [i \in 1..Len(file) |-> IF i = at THEN r ELSE row[i]]
      BY <1>3, <1>n, <2>1, <2>2, ChargeOneKeepsTally DEF Judges
    <2>4. /\ told' \in [1..Len(file) -> (Verdicts \ {"ignored"}) \cup {NotRun}]
          /\ told' = [i \in 1..Len(file) |-> IF i = at THEN verdict ELSE told[i]]
      BY <2>1, <2>2 DEF TypeOK
    <2>5. TypeOK'
      BY <1>0, <1>3, <1>d, <2>1, <2>3, <2>4 DEF TypeOK, Judges
    <2>6. ToldIsTheRate'
      <3>1. verdict \in Reasons <=> r = "failed"
        BY <2>2 DEF Verdicts, Reasons
      <3>2. QED
        BY <1>3, <2>1, <2>2, <2>3, <2>4, <3>1 DEF Judges, ToldIsTheRate
    <2>7. NothingVanishes'
      <3>1. phase' = "running"
        BY <1>3, <2>1 DEF Judges
      <3>2. QED
        BY <3>1 DEF NothingVanishes
    <2>8. Untouched' /\ AllCounted'
      <3>1. /\ file[at].kind # "halt" /\ file' = file
            /\ phase' = phase /\ at' = at + 1
        BY <1>3 DEF Judges, Line, Sql
      <3>2. QED
        BY <1>0, <1>n, <2>1, <2>2, <2>3, <3>1 DEF Untouched, AllCounted, Going
    <2>9. QED
      BY <2>3, <2>5, <2>6, <2>7, <2>8
  <1>4. CASE Stops
    <2> DEFINE S == RunnableSet(file, at)
    <2>1. PICK gap \in Gaps : EndFile(gap)
      BY <1>4 DEF Stops
    <2>2. OweTo(gap) \in SkipRows
      BY OweToRow DEF Gaps
    <2>3. S \subseteq 1..Len(file) /\ S \subseteq at..Len(file)
      BY RunnableIsFinite DEF TypeOK
    <2>4. \A i \in S : row[i] = NoRow
      BY <1>0, <1>4, <2>3 DEF Stops, Untouched, Going, TypeOK
    <2>5. Charge(OweTo(gap), Cardinality(S)) /\ Enter(S, OweTo(gap))
      BY <2>1 DEF EndFile, Runnable
    <2>6. /\ TallyCountsRecords'
          /\ tally' \in [RowNames -> Nat]
          /\ row' \in [1..Len(file) -> RowNames \cup {NoRow}]
      BY <1>n, <2>2, <2>3, <2>4, <2>5, ChargeKeepsTally
    <2>7. row' = [i \in 1..Len(file) |-> IF i \in S THEN OweTo(gap) ELSE row[i]]
      BY <2>5 DEF Enter, TypeOK
    <2>8. phase' = "done" /\ UNCHANGED <<file, connections, at, told>>
      BY <2>1 DEF EndFile, given
    <2>9. TypeOK'
      BY <1>d, <2>6, <2>8 DEF TypeOK
    <2>10. ToldIsTheRate'
      <3>1. OweTo(gap) \notin {"passed", "failed"} /\ NoRow \notin {"passed", "failed"}
        BY <2>2 DEF SkipRows, NoRow
      <3> HIDE DEF S
      <3>2. QED
        BY <2>4, <2>7, <2>8, <3>1 DEF ToldIsTheRate
    <2>11. Untouched' /\ AllCounted'
      BY <2>8 DEF Untouched, AllCounted, Going
    <2>12. NothingVanishes'
      <3>1. ASSUME NEW i \in 1..Len(file),
                   file[i].kind \in Sql, ~HaltedBefore(file, 1, i)
            PROVE  row'[i] # NoRow
        <4>1. CASE i < at
          <5>1. row[i] # NoRow
            BY <1>4, <3>1, <4>1 DEF Stops, AllCounted, Going
          <5>2. QED
            BY <1>n, <2>2, <2>7, <5>1
        <4>2. CASE i >= at
          <5>1. i \in S
            BY <1>0, <3>1, <4>2 DEF RunnableSet, HaltedBefore, Counted, Sql, TypeOK
          <5>2. QED
            BY <1>n, <2>2, <2>7, <5>1
        <4>3. QED
          BY <1>0, <4>1, <4>2 DEF TypeOK
      <3>2. ASSUME NEW i \in 1..Len(file), HaltedBefore(file, 1, i)
            PROVE  row'[i] = NoRow
        <4>1. PICK j \in 1..(i - 1) : file[j].kind = "halt"
          BY <3>2 DEF HaltedBefore
        <4>2. j \in 1..Len(file) /\ j >= at
          BY <1>0, <1>4, <4>1 DEF Stops, AllCounted, Going, TypeOK
        <4>3. i \notin S
          BY <1>0, <4>1, <4>2 DEF RunnableSet, HaltedBefore, TypeOK
        <4>4. row[i] = NoRow
          BY <1>0, <1>4, <4>1, <4>2 DEF Stops, Untouched, Going, TypeOK
        <4>5. QED
          BY <2>7, <4>3, <4>4
      <3>3. QED
        BY <2>8, <3>1, <3>2 DEF NothingVanishes, HaltedBefore
    <2>13. QED
      BY <2>6, <2>9, <2>10, <2>11, <2>12
  <1>5. CASE Ends
    <2>1. TypeOK' /\ TallyCountsRecords' /\ ToldIsTheRate'
      BY <1>5, <1>d DEF Ends, TypeOK, TallyCountsRecords, ToldIsTheRate
    <2>2. Untouched' /\ AllCounted'
      BY <1>5 DEF Ends, Untouched, AllCounted, Going
    <2>3. NothingVanishes'
      <3>1. ASSUME NEW i \in 1..Len(file),
                   file[i].kind \in Sql, ~HaltedBefore(file, 1, i)
            PROVE  row[i] # NoRow
        <4>1. i < at
          BY <1>0, <1>5, <3>1 DEF Ends, Looking, Line, HaltedBefore, TypeOK, Sql
        <4>2. QED
          BY <1>5, <3>1, <4>1 DEF Ends, AllCounted, Going
      <3>2. ASSUME NEW i \in 1..Len(file), HaltedBefore(file, 1, i)
            PROVE  row[i] = NoRow
        <4>1. PICK j \in 1..(i - 1) : file[j].kind = "halt"
          BY <3>2 DEF HaltedBefore
        <4>2. j \in 1..Len(file) /\ j >= at
          BY <1>0, <1>5, <4>1 DEF Ends, AllCounted, Going, TypeOK
        <4>3. QED
          BY <1>0, <1>5, <4>1, <4>2 DEF Ends, Untouched, Going, TypeOK
      <3>3. QED
        BY <1>5, <3>1, <3>2 DEF Ends, NothingVanishes, HaltedBefore
    <2>4. QED
      BY <2>1, <2>2, <2>3
  <1>6. CASE StartsOrBreaks
    <2>1. TypeOK' /\ TallyCountsRecords' /\ ToldIsTheRate'
      BY <1>6, <1>d DEF StartsOrBreaks, TypeOK, TallyCountsRecords, ToldIsTheRate
    <2>2. Untouched' /\ AllCounted' /\ NothingVanishes'
      BY <1>6 DEF StartsOrBreaks, Untouched, AllCounted, NothingVanishes, Going
    <2>3. QED
      BY <2>1, <2>2
  <1>7. CASE Stutters
    <2>1. TypeOK' /\ TallyCountsRecords' /\ ToldIsTheRate'
      BY <1>7, <1>d DEF Stutters, TypeOK, TallyCountsRecords, ToldIsTheRate
    <2>2. Untouched' /\ AllCounted' /\ NothingVanishes'
      BY <1>7 DEF Stutters, Untouched, AllCounted, NothingVanishes, Going, HaltedBefore
    <2>3. QED
      BY <2>1, <2>2
  <1>8. QED
    BY Shapes, <1>1, <1>2, <1>3, <1>4, <1>5, <1>6, <1>7

-----------------------------------------------------------------------------
(***************************************************************************)
(* Theorems.                                                               *)
(***************************************************************************)

\* The invariant the three theorems below are read off: it holds at the start of
\* `run_file_telling` and every turn of its loop and every return keeps it.
LEMMA Inductive == Spec => []IInv
  <1>1. IInv /\ [Next]_vars => IInv'
    BY StepIInv
  <1>2. QED
    BY InitIInv, <1>1, PTL DEF Spec

\* The run of a file keeps the types of its state, whatever lines the file has
\* and whatever the engine answers: `run_file_telling`.
THEOREM RunTypes == Spec => []TypeOK
  <1>1. IInv => TypeOK
    BY DEF IInv
  <1>2. QED
    BY Inductive, <1>1, PTL

\* The counters of a `Summary` are the numbers of records that went on them: the
\* count `runnable` makes of what a stop leaves behind never overlaps what the
\* loop had counted one record at a time.
THEOREM CountersAreExact == Spec => []TallyCountsRecords
  <1>1. IInv => TallyCountsRecords
    BY DEF IInv
  <1>2. QED
    BY Inductive, <1>1, PTL

\* However a run ends, on its last line, a halt, a requirement, a directive it
\* cannot follow or an error the file named, every SQL record before the halt is
\* on a counter and nothing after it is: the early returns of `run_file_telling`.
THEOREM EverySqlRecordIsCounted == Spec => []NothingVanishes
  <1>1. IInv => NothingVanishes
    BY DEF IInv
  <1>2. QED
    BY Inductive, <1>1, PTL

\* `told` and the two columns of the pass rate speak of the same records, so what
\* `oracles` pairs up is what the summary counted.
THEOREM TellingIsTheRate == Spec => []ToldIsTheRate
  <1>1. IInv => ToldIsTheRate
    BY DEF IInv
  <1>2. QED
    BY Inductive, <1>1, PTL

-----------------------------------------------------------------------------
(***************************************************************************)
(* The database a record is judged on.                                     *)
(***************************************************************************)

\* The path in hand is one of the file's, and has a place of its own.
Meant ==
  /\ file \in Files
  /\ DOMAIN disk = Places(file)
  /\ loaded \subseteq LoadsIn(file)
  /\ open = Memory \/ \E q \in loaded : open = Place(q)
  /\ \A p \in LoadsIn(file) :
       p.dir \in Scratch /\ p \notin loaded => disk[Place(p)] = {}
  /\ held = disk[open]
  /\ astray = {}

LEMMA InitMeant == Init => Meant
  <1> SUFFICES ASSUME Init PROVE Meant
    OBVIOUS
  <1>1. /\ file \in Files /\ loaded = {} /\ held = {} /\ astray = {}
        /\ open = Memory /\ disk = FirstDisk(file)
    BY DEF Init
  <1>2. disk[Memory] = {}
    BY <1>1 DEF FirstDisk, Places, Memory
  <1>3. ASSUME NEW p \in LoadsIn(file), p.dir \in Scratch
        PROVE  disk[Place(p)] = {}
    <2>1. Place(p) = <<"scratch", p.name>> /\ Place(p) \in Places(file)
      BY <1>3 DEF Place, Places
    <2>2. QED
      BY <1>1, <2>1 DEF FirstDisk
  <1>4. DOMAIN disk = Places(file)
    BY <1>1 DEF FirstDisk
  <1>5. QED
    BY <1>1, <1>2, <1>3, <1>4 DEF Meant

\* The steps that touch neither the engine's database nor what the file means.
LEMMA QuietDatabase ==
  ASSUME [Next]_vars,
         ~Load, ~Restart, ~ExcuseMaybe, \A answer \in Answers : ~Run(answer)
  PROVE  UNCHANGED <<file, loaded, held, disk, open, astray>>
  <1> USE DEF given, said, database, EndFile, SetAside
  <1>1. CASE SkipWhole \/ Begin \/ Finish \/ Break \/ Halt
    BY <1>1 DEF SkipWhole, Begin, Finish, Break, Halt
  <1>2. CASE FollowMode \/ PassOver \/ ForgetLabel \/ TakeSetting \/ Seed \/ Reconnect
    BY <1>2 DEF FollowMode, PassOver, ForgetLabel, TakeSetting, Seed, Reconnect
  <1>3. CASE SkipForMode \/ SkipForCondition
    BY <1>3 DEF SkipForMode, SkipForCondition
  <1>4. CASE EndAtContinue \/ EndAtSeed \/ EndAtLoad \/ EndAtRestart \/ EndAtConnection
    BY <1>4 DEF EndAtContinue, EndAtSeed, EndAtLoad, EndAtRestart, EndAtConnection
  <1>5. ASSUME NEW answer \in Answers, StopOnIgnored(answer)
        PROVE  UNCHANGED <<file, loaded, held, disk, open, astray>>
    BY <1>5 DEF StopOnIgnored
  <1>6. CASE UNCHANGED vars
    BY <1>6 DEF vars
  <1>7. QED
    BY <1>1, <1>2, <1>3, <1>4, <1>5, <1>6 DEF Next

LEMMA StepMeant ==
  ASSUME Orderly(file), Meant, TypeOK, [Next]_vars
  PROVE  Meant'
  <1> USE DEF Meant
  <1>0. Len(file) \in Nat
    BY FileLines DEF TypeOK
  <1>1. ASSUME Looking, Line.kind = "load", Line.path # NoPath
        PROVE  Line.path \in LoadsIn(file)
    BY <1>0, <1>1 DEF LoadsIn, Looking, Line, TypeOK
  <1>2. Memory \in DOMAIN disk /\ \A p \in LoadsIn(file) : Place(p) \in DOMAIN disk
    BY DEF Places
  <1>3. \A p : p.dir \in Scratch => Place(p) # Memory
    BY DEF Place, Memory
  <1>4. CASE Load
    <2>1. /\ Looking /\ Line.kind = "load" /\ AsksForEmpty(Line)
          /\ held' = {} /\ UNCHANGED <<file, astray>>
      BY <1>4 DEF Load, Live, given
    <2>2. CASE Line.path = NoPath
      <3>1. /\ loaded' = loaded /\ open' = Memory
            /\ disk' = [disk EXCEPT ![Memory] = {}]
        BY <1>4, <2>2 DEF Load
      <3>2. QED
        BY <1>2, <1>3, <2>1, <3>1
    <2>3. CASE Line.path # NoPath
      <3>1. /\ loaded' = loaded \cup {Line.path} /\ open' = Place(Line.path)
            /\ disk' = disk
        BY <1>4, <2>3 DEF Load
      <3>2. /\ Line.path \in LoadsIn(file)
            /\ Line.path.dir \in Scratch /\ Line.path \notin loaded
        BY <1>1, <2>1, <2>3 DEF AsksForEmpty
      <3>3. disk[Place(Line.path)] = {}
        BY <3>2
      <3>4. QED
        BY <2>1, <3>1, <3>2, <3>3
    <2>4. QED
      BY <2>2, <2>3
  <1>5. CASE Restart
    <2>1. /\ loaded = {} /\ held' = {} /\ open = Memory
          /\ disk' = [disk EXCEPT ![Memory] = {}]
          /\ UNCHANGED <<file, loaded, open, astray>>
      BY <1>5 DEF Restart, given, said
    <2>2. QED
      BY <1>2, <1>3, <2>1
  <1>6. ASSUME NEW answer \in Answers, Run(answer)
        PROVE  Meant'
    <2>1. /\ held' = held \cup {at}
          /\ disk' = [disk EXCEPT ![open] = @ \cup {at}]
          /\ astray' = astray
          /\ UNCHANGED <<file, loaded, open>>
      BY <1>6 DEF Run, given
    <2>2. open \in DOMAIN disk
      BY <1>2
    <2>3. ASSUME NEW p \in LoadsIn(file), p.dir \in Scratch, p \notin loaded
          PROVE  Place(p) # open
      BY <1>3, <2>3 DEF Orderly
    <2>4. QED
      BY <1>2, <2>1, <2>2, <2>3
  <1>7. ~ExcuseMaybe
    BY <1>0 DEF ExcuseMaybe, Live, Looking, Line, Orderly, TypeOK
  <1>8. CASE /\ ~Load /\ ~Restart
             /\ \A answer \in Answers : ~Run(answer)
    BY <1>7, <1>8, QuietDatabase
  <1>9. QED
    BY <1>4, <1>5, <1>6, <1>8

\* The file in hand is the one the run began with.
LEMMA FileKept ==
  ASSUME [Next]_vars
  PROVE  file' = file
  <1> USE DEF given, EndFile, SetAside
  <1>1. CASE Load \/ Restart \/ ExcuseMaybe
    BY <1>1 DEF Load, Restart, ExcuseMaybe
  <1>2. ASSUME NEW answer \in Answers, Run(answer)
        PROVE  file' = file
    BY <1>2 DEF Run
  <1>3. QED
    BY <1>1, <1>2, QuietDatabase

\* In a file with no `statement maybe` and one spelling of each of its paths, no
\* record is judged on a database given other statements than the file's own
\* database would hold: what `effect` lets through as an empty database is one.
THEOREM OrderlyFilesAreJudgedFairly == Spec => []OrderlyFileIsJudgedFairly
  <1> DEFINE Fair == Orderly(file) => Meant
  <1>1. Init => Fair
    BY InitMeant
  <1>2. ASSUME Fair, TypeOK, [Next]_vars
        PROVE  Fair'
    <2>1. file' = file
      BY <1>2, FileKept
    <2>2. CASE Orderly(file)
      BY <1>2, <2>2, StepMeant
    <2>3. CASE ~Orderly(file)
      BY <2>1, <2>3 DEF Orderly
    <2>4. QED
      BY <2>2, <2>3
  <1>3. Fair => OrderlyFileIsJudgedFairly
    BY DEF Meant, OrderlyFileIsJudgedFairly, JudgedOnMeantDatabase
  <1>4. QED
    BY RunTypes, <1>1, <1>2, <1>3, PTL DEF Spec

-----------------------------------------------------------------------------
(***************************************************************************)
(* Which actions write which variables.                                    *)
(***************************************************************************)
Runs == \E answer \in Answers : Run(answer)

Bracket == {"mode-skip", "mode-unskip"}

\* Only a record that runs is told and answered, only it and a `reset label` touch
\* the labels, only a `set` the settings, and only a mode line the depth.
LEMMA Writers ==
  ASSUME [Next]_vars
  PROVE  /\ Runs \/ UNCHANGED <<told, answered>>
         /\ Runs \/ ForgetLabel \/ UNCHANGED labels
         /\ TakeSetting \/ UNCHANGED settings
         /\ FollowMode \/ UNCHANGED skipping
  <1> USE DEF given, said, database, EndFile, SetAside
  <1>1. CASE SkipWhole \/ Begin \/ Finish \/ Break \/ Halt
    BY <1>1 DEF SkipWhole, Begin, Finish, Break, Halt
  <1>2. CASE FollowMode \/ PassOver \/ ForgetLabel \/ TakeSetting \/ Seed
    BY <1>2 DEF FollowMode, PassOver, ForgetLabel, TakeSetting, Seed
  <1>3. CASE SkipForMode \/ SkipForCondition \/ ExcuseMaybe
    BY <1>3 DEF SkipForMode, SkipForCondition, ExcuseMaybe
  <1>4. CASE Reconnect \/ Load \/ Restart
    BY <1>4 DEF Reconnect, Load, Restart
  <1>5. CASE EndAtContinue \/ EndAtSeed \/ EndAtLoad \/ EndAtRestart \/ EndAtConnection
    BY <1>5 DEF EndAtContinue, EndAtSeed, EndAtLoad, EndAtRestart, EndAtConnection
  <1>6. ASSUME NEW answer \in Answers, StopOnIgnored(answer)
        PROVE  UNCHANGED <<told, answered, labels, settings, skipping>>
    BY <1>6 DEF StopOnIgnored
  <1>7. ASSUME NEW answer \in Answers, Run(answer)
        PROVE  Runs /\ UNCHANGED <<settings, skipping>>
    BY <1>7 DEF Run, Runs
  <1>8. CASE UNCHANGED vars
    BY <1>8 DEF vars
  <1>9. QED
    BY <1>1, <1>2, <1>3, <1>4, <1>5, <1>6, <1>7, <1>8 DEF Next

\* The loop goes on by one line or not at all, and past a mode line only by
\* following it.
LEMMA Advances ==
  ASSUME [Next]_vars
  PROVE  \/ at' = at
         \/ /\ Looking /\ at' = at + 1
            /\ FollowMode \/ Line.kind \notin Bracket
  <1> USE DEF given, said, database, EndFile, SetAside, Step, Live, Looking, Bracket
  <1>1. CASE SkipWhole \/ Begin \/ Finish \/ Break \/ Halt
    BY <1>1 DEF SkipWhole, Begin, Finish, Break, Halt
  <1>2. CASE FollowMode
    BY <1>2 DEF FollowMode
  <1>3. CASE PassOver \/ ForgetLabel \/ TakeSetting \/ Seed
    BY <1>3 DEF PassOver, ForgetLabel, TakeSetting, Seed
  <1>4. CASE SkipForMode \/ SkipForCondition \/ ExcuseMaybe
    BY <1>4 DEF SkipForMode, SkipForCondition, ExcuseMaybe, Unconditional
  <1>5. CASE Reconnect \/ Load \/ Restart
    BY <1>5 DEF Reconnect, Load, Restart
  <1>6. CASE EndAtContinue \/ EndAtSeed \/ EndAtLoad \/ EndAtRestart \/ EndAtConnection
    BY <1>6 DEF EndAtContinue, EndAtSeed, EndAtLoad, EndAtRestart, EndAtConnection
  <1>7. ASSUME NEW answer \in Answers, StopOnIgnored(answer)
        PROVE  at' = at
    BY <1>7 DEF StopOnIgnored
  <1>8. ASSUME NEW answer \in Answers, Run(answer)
        PROVE  Looking /\ at' = at + 1 /\ Line.kind \notin Bracket
    BY <1>8 DEF Run, ReachesEngine, Sql
  <1>9. CASE UNCHANGED vars
    BY <1>9 DEF vars
  <1>10. QED
    BY <1>1, <1>2, <1>3, <1>4, <1>5, <1>6, <1>7, <1>8, <1>9 DEF Next

\* A record goes on the counter of modes only by being skipped for one.
LEMMA ModeRows ==
  ASSUME TypeOK, [Next]_vars, Going', NEW i \in 1..Len(file), row'[i] = "mode"
  PROVE  (Going /\ row[i] = "mode") \/ (SkipForMode /\ i = at)
  <1> USE DEF SetAside, Step, Live, Looking, Going
  <1>0. row \in [1..Len(file) -> RowNames \cup {NoRow}]
    BY DEF TypeOK
  <1>1. CASE SkipWhole \/ Finish \/ Break \/ Halt
    BY <1>1 DEF SkipWhole, EndFile, Finish, Break, Halt
  <1>2. CASE Begin \/ FollowMode \/ PassOver \/ ForgetLabel \/ TakeSetting \/ Seed
    BY <1>2 DEF Begin, FollowMode, PassOver, ForgetLabel, TakeSetting, Seed
  <1>3. CASE SkipForMode
    BY <1>0, <1>3 DEF SkipForMode, Enter
  <1>4. CASE SkipForCondition \/ ExcuseMaybe
    BY <1>0, <1>4 DEF SkipForCondition, ExcuseMaybe, Enter
  <1>5. CASE Reconnect \/ Load \/ Restart
    BY <1>5 DEF Reconnect, Load, Restart
  <1>6. CASE EndAtContinue \/ EndAtSeed \/ EndAtLoad \/ EndAtRestart \/ EndAtConnection
    BY <1>6 DEF EndAtContinue, EndAtSeed, EndAtLoad, EndAtRestart, EndAtConnection, EndFile
  <1>7. ASSUME NEW answer \in Answers, StopOnIgnored(answer)
        PROVE  FALSE
    BY <1>7 DEF StopOnIgnored, EndFile
  <1>8. ASSUME NEW answer \in Answers, Run(answer)
        PROVE  Going /\ row[i] = "mode"
    <2>1. \E r \in {"passed", "failed"} : Enter({at}, r)
      BY <1>8 DEF Run
    <2>2. row[i] = "mode"
      BY <1>0, <2>1 DEF Enter
    <2>3. phase = "running"
      BY <1>8 DEF Run, ReachesEngine
    <2>4. QED
      BY <2>2, <2>3
  <1>9. CASE UNCHANGED vars
    BY <1>9 DEF vars
  <1>10. QED
    BY <1>1, <1>2, <1>3, <1>4, <1>5, <1>6, <1>7, <1>8, <1>9 DEF Next

-----------------------------------------------------------------------------
(***************************************************************************)
(* Internal errors.                                                        *)
(***************************************************************************)

\* A line before the one in hand took the internal error off the list.
Dropped ==
  \E j \in 1..(at - 1) : /\ file[j].kind = "set-always-fail"
                        /\ "INTERNAL Error" \notin file[j].words

\* The list names the internal error for as long as no line has dropped it.
ListStands ==
  /\ settings = [ignore |-> settings.ignore, alwaysFail |-> settings.alwaysFail]
  /\ "INTERNAL Error" \in settings.alwaysFail \/ Dropped
  /\ DOMAIN answered = 1..Len(file)

\* An error on the list passes no record.
LEMMA ListedNeverPasses ==
  ASSUME NEW line, NEW answer, NEW l, NEW s,
         Failed(answer), answer.class \in s.alwaysFail,
         Judge(line, answer, l, s) = "passed"
  PROVE  FALSE
  <1>1. JudgeError(line, answer, s) = "passed"
    BY DEF Judge
  <1>2. ReasonOf(answer) # "passed"
    BY DEF ReasonOf
  <1>3. Names(s.alwaysFail, answer)
    BY DEF Names
  <1>4. QED
    BY <1>1, <1>2, <1>3 DEF JudgeError

LEMMA InitListStands == Init => ListStands
  <1> SUFFICES ASSUME Init PROVE ListStands
    OBVIOUS
  <1>1. settings = [ignore |-> {}, alwaysFail |-> {"INTERNAL Error"}]
    BY DEF Init
  <1>2. DOMAIN answered = 1..Len(file)
    BY DEF Init
  <1>3. QED
    BY <1>1, <1>2 DEF ListStands

LEMMA StepListStands ==
  ASSUME TypeOK, ListStands, [Next]_vars
  PROVE  ListStands'
  <1>0. Len(file) \in Nat /\ at \in 1..(Len(file) + 1) /\ file' = file
    BY FileLines, FileKept DEF TypeOK
  <1>1. at' = at \/ at' = at + 1
    BY Advances
  <1>2. Dropped => Dropped'
    <2>1. 1..(at - 1) \subseteq 1..(at' - 1)
      BY <1>0, <1>1
    <2>2. QED
      BY <1>0, <2>1 DEF Dropped
  <1>3. DOMAIN answered' = 1..Len(file')
    <2>1. CASE Runs
      BY <1>0, <2>1 DEF Runs, Run, ListStands
    <2>2. CASE ~Runs
      BY <1>0, <2>2, Writers DEF ListStands
    <2>3. QED
      BY <2>1, <2>2
  <1>4. CASE TakeSetting
    <2>1. /\ at' = at + 1 /\ Line.kind \in {"set-ignore", "set-always-fail", "note"}
          /\ settings' = CASE Line.kind = "set-ignore"      -> [settings EXCEPT !.ignore = Line.words]
                           [] Line.kind = "set-always-fail" -> [settings EXCEPT !.alwaysFail = Line.words]
                           [] Line.kind = "note"            -> settings
      BY <1>4 DEF TakeSetting, Live, Step
    <2>2. CASE Line.kind = "set-always-fail"
      <3>1. settings' = [ignore |-> settings.ignore, alwaysFail |-> Line.words]
        BY <2>1, <2>2 DEF ListStands
      <3>2. "INTERNAL Error" \notin Line.words => Dropped'
        <4>1. at \in 1..(at' - 1)
          BY <1>0, <2>1
        <4>2. file'[at] = Line
          BY <1>0 DEF Line
        <4>3. QED
          BY <2>2, <4>1, <4>2 DEF Dropped
      <3>3. QED
        BY <1>3, <3>1, <3>2 DEF ListStands
    <2>3. CASE Line.kind = "set-ignore"
      <3>1. settings' = [ignore |-> Line.words, alwaysFail |-> settings.alwaysFail]
        BY <2>1, <2>3 DEF ListStands
      <3>2. QED
        BY <1>2, <1>3, <3>1 DEF ListStands
    <2>4. CASE Line.kind = "note"
      BY <1>2, <1>3, <2>1, <2>4 DEF ListStands
    <2>5. QED
      BY <2>1, <2>2, <2>3, <2>4
  <1>5. CASE ~TakeSetting
    BY <1>2, <1>3, <1>5, Writers DEF ListStands
  <1>6. QED
    BY <1>4, <1>5

LEMMA StepInternalErrorNeverPasses ==
  ASSUME TypeOK, ListStands, InternalErrorNeverPasses, [Next]_vars
  PROVE  InternalErrorNeverPasses'
  <1>0. file' = file
    BY FileKept
  <1>1. CASE ~Runs
    <2>1. UNCHANGED <<told, answered>>
      BY <1>1, Writers
    <2>2. QED
      BY <1>0, <2>1 DEF InternalErrorNeverPasses
  <1>2. ASSUME NEW answer \in Answers, Run(answer)
        PROVE  InternalErrorNeverPasses'
    <2> DEFINE verdict == Judge(Line, answer, labels, settings)
    <2>1. /\ told' = [told EXCEPT ![at] = verdict]
          /\ answered' = [answered EXCEPT ![at] = answer]
      BY <1>2 DEF Run
    <2> HIDE DEF verdict
    <2>2. SUFFICES ASSUME NEW i \in 1..Len(file), told'[i] = "passed",
                          answered'[i].said = "error",
                          answered'[i].class = "INTERNAL Error"
                   PROVE  \E j \in 1..(i - 1) : /\ file[j].kind = "set-always-fail"
                                                /\ "INTERNAL Error" \notin file[j].words
      BY <1>0 DEF InternalErrorNeverPasses
    <2>3. CASE i # at
      <3>1. told[i] = "passed" /\ answered[i] = answered'[i]
        BY <2>1, <2>2, <2>3 DEF TypeOK, ListStands
      <3>2. QED
        BY <2>2, <3>1 DEF InternalErrorNeverPasses
    <2>4. CASE i = at
      <3>1. verdict = "passed" /\ answered'[i] = answer
        BY <2>1, <2>2, <2>4 DEF TypeOK, ListStands
      <3>2. answer.class \notin settings.alwaysFail
        BY <2>2, <3>1, ListedNeverPasses DEF Failed, verdict
      <3>3. QED
        BY <2>2, <2>4, <3>1, <3>2 DEF ListStands, Dropped
    <2>5. QED
      BY <2>3, <2>4
  <1>3. QED
    BY <1>1, <1>2 DEF Runs

\* Whatever a record asks for and the engine answers, an internal error passes
\* only in a file that had replaced the list `set always_fail` keeps: the order
\* of the tests in `check`.
THEOREM InternalErrorsAlwaysFail == Spec => []InternalErrorNeverPasses
  <1>1. Init => InternalErrorNeverPasses
    BY DEF Init, InternalErrorNeverPasses, NotRun
  <1>2. ASSUME TypeOK, ListStands /\ InternalErrorNeverPasses, [Next]_vars
        PROVE  (ListStands /\ InternalErrorNeverPasses)'
    BY <1>2, StepListStands, StepInternalErrorNeverPasses
  <1>3. QED
    BY RunTypes, InitListStands, <1>1, <1>2, PTL DEF Spec

-----------------------------------------------------------------------------
(***************************************************************************)
(* Labels.                                                                 *)
(***************************************************************************)
Resets(k, label) == file[k].kind = "reset-label" /\ file[k].label = label

\* A query that passed on rows under a label no line has forgotten since.
Remembering(i, label) ==
  /\ Labelled(i, label) /\ ~Failed(answered[i])
  /\ \A k \in i..(at - 1) : ~Resets(k, label)

\* The label holds what any such query saw.
LabelsHold ==
  /\ labels = [l \in Labels |-> labels[l]]
  /\ DOMAIN answered = 1..Len(file)
  /\ \A i \in 1..Len(file) :
       told[i] # NotRun => i < at /\ answered[i] \in Answers
  /\ \A i \in 1..Len(file), label \in Labels :
       Remembering(i, label) => labels[label] = answered[i].values

\* A label that holds rows keeps them, whatever runs.
LEMMA HeldIsKept ==
  ASSUME NEW line, NEW answer, NEW l, l = [x \in Labels |-> l[x]]
  PROVE  /\ \A label \in Labels :
              l[label] # NoAnswer => Remembered(line, answer, l)[label] = l[label]
         /\ Remembered(line, answer, l) =
              [x \in Labels |-> Remembered(line, answer, l)[x]]
  BY DEF Remembered

\* A query that passes on rows leaves them under its label, which held nothing
\* else.
LEMMA PassedIsRemembered ==
  ASSUME NEW line \in Lines, NEW answer \in Answers, NEW s, NEW label \in Labels,
         NEW l, l = [x \in Labels |-> l[x]],
         line.kind = "query", line.label = label,
         ~Failed(answer), Judge(line, answer, l, s) = "passed"
  PROVE  Remembered(line, answer, l)[label] = answer.values
  <1>1. line.expects = "success" /\ line.label # NoLabel
    BY AnswersAssumption DEF Judge, Sql
  <1>2. l[label] \in {NoAnswer, answer.values}
    <2>1. JudgeRows(line, answer, l) = "passed"
      BY <1>1 DEF Judge
    <2>2. QED
      BY <1>1, <2>1 DEF JudgeRows, Contradicts
  <1>3. CASE l[label] = NoAnswer
    <2>1. Remembered(line, answer, l) = [l EXCEPT ![label] = answer.values]
      BY <1>1, <1>3 DEF Remembered
    <2>2. label \in DOMAIN l
      OBVIOUS
    <2>3. QED
      BY <2>1, <2>2
  <1>4. CASE l[label] # NoAnswer
    BY <1>2, <1>4 DEF Remembered
  <1>5. QED
    BY <1>3, <1>4

LEMMA InitLabelsHold == Init => LabelsHold
  <1> SUFFICES ASSUME Init PROVE LabelsHold
    OBVIOUS
  <1>1. /\ labels = [l \in Labels |-> NoAnswer]
        /\ DOMAIN answered = 1..Len(file)
        /\ \A i \in 1..Len(file) : told[i] = NotRun
    BY DEF Init
  <1>2. NotRun # "passed"
    BY DEF NotRun
  <1>3. QED
    BY <1>1, <1>2 DEF LabelsHold, Remembering, Labelled

LEMMA StepLabels ==
  ASSUME TypeOK, LabelsHold, LabelledQueriesAgree, [Next]_vars
  PROVE  LabelsHold' /\ LabelledQueriesAgree'
  <1>0. /\ Len(file) \in Nat /\ at \in 1..(Len(file) + 1) /\ file' = file
        /\ \A i \in 1..Len(file) : file[i] \in Lines
    BY FileLines, FileKept DEF TypeOK
  <1>1. at' = at \/ (Looking /\ at' = at + 1)
    BY Advances
  <1>2. \A i \in 1..Len(file) : i..(at - 1) \subseteq i..(at' - 1)
    BY <1>0, <1>1
  <1>3. ASSUME ~Runs
        PROVE  LabelsHold' /\ LabelledQueriesAgree'
    <2>1. UNCHANGED <<told, answered>>
      BY <1>3, Writers
    <2>2. LabelledQueriesAgree'
      BY <1>0, <2>1 DEF LabelledQueriesAgree, Labelled
    <2>3. ASSUME NEW i \in 1..Len(file), told[i] # NotRun
          PROVE  i < at' /\ answered[i] \in Answers
      BY <1>0, <1>1, <2>3 DEF LabelsHold
    <2>4. ASSUME NEW i \in 1..Len(file), NEW label \in Labels, Remembering(i, label)'
          PROVE  Remembering(i, label)
      <3>1. Labelled(i, label) /\ ~Failed(answered[i])
        BY <1>0, <2>1, <2>4 DEF Remembering, Labelled
      <3>2. \A k \in i..(at' - 1) : ~Resets(k, label)
        BY <1>0, <2>4 DEF Remembering, Resets
      <3>3. QED
        BY <1>2, <3>1, <3>2 DEF Remembering
    <2>5. CASE ForgetLabel
      <3>1. /\ Looking /\ at' = at + 1
            /\ file[at].kind = "reset-label"
            /\ labels' = [labels EXCEPT ![file[at].label] = NoAnswer]
        BY <2>5 DEF ForgetLabel, Line, Step
      <3>2. labels' = [l \in Labels |-> labels'[l]]
        BY <3>1 DEF LabelsHold
      <3>3. ASSUME NEW i \in 1..Len(file), NEW label \in Labels, Remembering(i, label)'
            PROVE  labels'[label] = answered[i].values
        <4>1. Remembering(i, label)
          BY <2>4, <3>3
        <4>2. told[i] # NotRun
          BY <4>1 DEF Remembering, Labelled, NotRun
        <4>3. at \in i..(at' - 1)
          BY <1>0, <3>1, <4>2 DEF LabelsHold
        <4>4. file[at].label # label
          BY <1>0, <3>1, <3>3, <4>3 DEF Remembering, Resets
        <4>5. labels'[label] = labels[label]
          BY <3>1, <4>4 DEF LabelsHold
        <4>6. QED
          BY <4>1, <4>5 DEF LabelsHold
      <3>4. QED
        BY <1>0, <2>1, <2>2, <2>3, <3>2, <3>3 DEF LabelsHold
    <2>6. CASE ~ForgetLabel
      <3>1. labels' = labels
        BY <1>3, <2>6, Writers
      <3>2. QED
        BY <1>0, <2>1, <2>2, <2>3, <2>4, <3>1 DEF LabelsHold
    <2>7. QED
      BY <2>5, <2>6
  <1>4. ASSUME NEW answer \in Answers, Run(answer)
        PROVE  LabelsHold' /\ LabelledQueriesAgree'
    <2> DEFINE verdict == Judge(Line, answer, labels, settings)
    <2>1. /\ told' = [told EXCEPT ![at] = verdict]
          /\ answered' = [answered EXCEPT ![at] = answer]
          /\ labels' = Remembered(Line, answer, labels)
          /\ Looking /\ at' = at + 1 /\ Line.kind \in Sql
      BY <1>4 DEF Run, ReachesEngine, Live, Step
    <2> HIDE DEF verdict
    <2>2. at \in 1..Len(file) /\ Line \in Lines
      BY <1>0, <2>1 DEF Looking, Line
    <2>3. \A i \in 1..Len(file) :
            /\ told'[i] = IF i = at THEN verdict ELSE told[i]
            /\ answered'[i] = IF i = at THEN answer ELSE answered[i]
      BY <2>1 DEF TypeOK, LabelsHold
    <2>4. labels' = [l \in Labels |-> labels'[l]]
      BY <2>1, HeldIsKept DEF LabelsHold
    <2>5. ASSUME NEW i \in 1..Len(file), told'[i] # NotRun
          PROVE  i < at' /\ answered'[i] \in Answers
      BY <1>0, <2>1, <2>3, <2>5 DEF LabelsHold
    <2>6. ASSUME NEW i \in 1..Len(file), NEW label \in Labels, Remembering(i, label)'
          PROVE  /\ labels'[label] = answered'[i].values
                 /\ i # at => labels[label] = answered'[i].values
      <3>1. CASE i = at
        <4>1. /\ Line.kind = "query" /\ Line.label = label
              /\ ~Failed(answer) /\ verdict = "passed"
          BY <1>0, <2>3, <2>6, <3>1 DEF Remembering, Labelled, Line
        <4>2. QED
          <5>1. labels = [x \in Labels |-> labels[x]]
            BY DEF LabelsHold
          <5>2. Judge(Line, answer, labels, settings) = "passed"
            BY <4>1 DEF verdict
          <5>3. Remembered(Line, answer, labels)[label] = answer.values
            BY <2>2, <4>1, <5>1, <5>2, PassedIsRemembered
          <5>4. QED
            BY <2>1, <2>3, <3>1, <5>3
      <3>2. CASE i # at
        <4>1. Labelled(i, label) /\ ~Failed(answered[i])
          BY <1>0, <2>3, <2>6, <3>2 DEF Remembering, Labelled
        <4>2. \A k \in i..(at - 1) : ~Resets(k, label)
          BY <1>0, <1>2, <2>6 DEF Remembering, Resets
        <4>3. labels[label] = answered[i].values
          BY <4>1, <4>2 DEF LabelsHold, Remembering
        <4>4. answered[i] \in Answers
          BY <4>1 DEF LabelsHold, Labelled, NotRun
        <4>5. labels[label] # NoAnswer
          BY <4>1, <4>3, <4>4, AnswersAssumption
        <4>6. QED
          BY <2>1, <2>3, <3>2, <4>3, <4>5, HeldIsKept DEF LabelsHold
      <3>3. QED
        BY <3>1, <3>2
    <2>7. DOMAIN answered' = 1..Len(file')
      BY <1>0, <2>1 DEF LabelsHold
    <2>8. LabelsHold'
      BY <1>0, <2>4, <2>5, <2>6, <2>7 DEF LabelsHold
    <2>9. ASSUME NEW label \in Labels, NEW i \in 1..Len(file), NEW j \in 1..Len(file),
                 i < j,
                 Labelled(i, label)', ~Failed(answered'[i]),
                 Labelled(j, label)', ~Failed(answered'[j]),
                 \A k \in i..j : ~Resets(k, label)
          PROVE  answered'[i].values = answered'[j].values
      <3>1. told'[i] # NotRun /\ told'[j] # NotRun
        BY <2>9 DEF Labelled, NotRun
      <3>2. i < at' /\ j < at'
        BY <2>5, <3>1
      <3>3. CASE j = at
        <4>1. \A k \in i..(at' - 1) : ~Resets(k, label)'
          BY <1>0, <2>1, <2>9, <3>3 DEF Resets
        <4>2. Remembering(i, label)'
          BY <2>9, <4>1 DEF Remembering
        <4>3. \A k \in j..(at' - 1) : ~Resets(k, label)'
          BY <1>0, <2>1, <2>9, <3>3 DEF Resets
        <4>4. Remembering(j, label)'
          BY <2>9, <4>3 DEF Remembering
        <4>5. QED
          BY <2>6, <4>2, <4>4
      <3>4. CASE j # at
        <4>1. i # at /\ j # at
          BY <1>0, <2>1, <2>9, <3>2, <3>4
        <4>2. /\ Labelled(i, label) /\ ~Failed(answered[i])
              /\ Labelled(j, label) /\ ~Failed(answered[j])
          BY <1>0, <2>3, <2>9, <4>1 DEF Labelled
        <4>3. QED
          BY <2>3, <2>9, <4>1, <4>2 DEF LabelledQueriesAgree, Resets
      <3>5. QED
        BY <3>3, <3>4
    <2>10. LabelledQueriesAgree'
      BY <1>0, <2>9 DEF LabelledQueriesAgree, Resets, Labelled
    <2>11. QED
      BY <2>8, <2>10
  <1>5. QED
    BY <1>3, <1>4 DEF Runs

\* Two queries that passed under one label with no `reset label` between them saw
\* the same rows, however many records, errors and other labels lie between: the
\* map `labels` of `run_file_telling` and the tests `check` makes of it.
THEOREM LabelsAreKept == Spec => []LabelledQueriesAgree
  <1>1. Init => LabelledQueriesAgree
    BY DEF Init, LabelledQueriesAgree, Labelled, NotRun
  <1>2. ASSUME TypeOK, LabelsHold /\ LabelledQueriesAgree, [Next]_vars
        PROVE  (LabelsHold /\ LabelledQueriesAgree)'
    BY <1>2, StepLabels
  <1>3. QED
    BY RunTypes, InitLabelsHold, <1>1, <1>2, PTL DEF Spec

-----------------------------------------------------------------------------
(***************************************************************************)
(* Brackets of mode lines.                                                 *)
(***************************************************************************)
Skips(from, to)   == Marks("mode-skip", from, to)
Unskips(from, to) == Marks("mode-unskip", from, to)

\* From line j to line n more skips than unskips stand before every point.
OpenFrom(j, n) == \A k \in j..n : Skips(j, k) > Unskips(j, k)

\* The depth the loop keeps is the most skips that are open over the record in
\* hand from any line before it, and some line has as many.
DepthIsOpen(n, depth) ==
  /\ \A j \in 1..n : OpenFrom(j, n) => Skips(j, n) <= Unskips(j, n) + depth
  /\ depth > 0 =>
       \E j \in 1..n : OpenFrom(j, n) /\ Skips(j, n) = Unskips(j, n) + depth

\* One more line counts once if it is of the kind.
LEMMA MarksStep ==
  ASSUME NEW kind, NEW from \in Nat, NEW to \in Nat, from <= to + 1
  PROVE  /\ Marks(kind, from, to) \in Nat
         /\ Marks(kind, from, to + 1) =
              IF file[to + 1].kind = kind THEN Marks(kind, from, to) + 1
                                          ELSE Marks(kind, from, to)
  <1> DEFINE S == {k \in from..to : file[k].kind = kind}
             T == {k \in from..(to + 1) : file[k].kind = kind}
  <1>1. IsFiniteSet(S)
    <2>1. IsFiniteSet(from..to)
      BY FS_Interval
    <2>2. QED
      BY <2>1, FS_Subset
  <1>2. T = IF file[to + 1].kind = kind THEN S \cup {to + 1} ELSE S
    OBVIOUS
  <1>3. to + 1 \notin S
    OBVIOUS
  <1>4. Marks(kind, from, to) = Cardinality(S) /\ Marks(kind, from, to + 1) = Cardinality(T)
    BY DEF Marks
  <1> HIDE DEF S, T
  <1>5. Cardinality(S) \in Nat /\ Cardinality(S \cup {to + 1}) = Cardinality(S) + 1
    BY <1>1, <1>3, FS_AddElement, FS_CardinalityType
  <1>6. QED
    BY <1>2, <1>4, <1>5

\* Nothing stands before a line.
LEMMA MarksNone ==
  ASSUME NEW kind, NEW n \in Nat
  PROVE  Marks(kind, n + 1, n) = 0
  <1>1. {k \in (n + 1)..n : file[k].kind = kind} = {}
    OBVIOUS
  <1>2. QED
    BY <1>1, FS_EmptySet DEF Marks

\* What one line does to the counts from any line up to it, and from itself.
LEMMA OneMoreLine ==
  ASSUME NEW n \in Nat
  PROVE  /\ \A j \in 1..(n + 1) :
              /\ Skips(j, n) \in Nat /\ Unskips(j, n) \in Nat
              /\ Skips(j, n + 1) = IF file[n + 1].kind = "mode-skip"
                                     THEN Skips(j, n) + 1 ELSE Skips(j, n)
              /\ Unskips(j, n + 1) = IF file[n + 1].kind = "mode-unskip"
                                       THEN Unskips(j, n) + 1 ELSE Unskips(j, n)
              /\ OpenFrom(j, n + 1) <=>
                   OpenFrom(j, n) /\ Skips(j, n + 1) > Unskips(j, n + 1)
         /\ Skips(n + 1, n) = 0 /\ Unskips(n + 1, n) = 0
         /\ OpenFrom(n + 1, n)
  <1>1. ASSUME NEW j \in 1..(n + 1)
        PROVE  /\ Skips(j, n) \in Nat /\ Unskips(j, n) \in Nat
               /\ Skips(j, n + 1) = IF file[n + 1].kind = "mode-skip"
                                      THEN Skips(j, n) + 1 ELSE Skips(j, n)
               /\ Unskips(j, n + 1) = IF file[n + 1].kind = "mode-unskip"
                                        THEN Unskips(j, n) + 1 ELSE Unskips(j, n)
    BY <1>1, MarksStep DEF Skips, Unskips
  <1>2. ASSUME NEW j \in 1..(n + 1)
        PROVE  OpenFrom(j, n + 1) <=>
                 OpenFrom(j, n) /\ Skips(j, n + 1) > Unskips(j, n + 1)
    <2>1. j..(n + 1) = (j..n) \cup {n + 1}
      OBVIOUS
    <2>2. QED
      BY <2>1 DEF OpenFrom
  <1>3. Skips(n + 1, n) = 0 /\ Unskips(n + 1, n) = 0
    BY MarksNone DEF Skips, Unskips
  <1>4. OpenFrom(n + 1, n)
    <2>1. (n + 1)..n = {}
      OBVIOUS
    <2>2. QED
      BY <2>1 DEF OpenFrom
  <1>5. QED
    BY <1>1, <1>2, <1>3, <1>4

\* A line that is no bracket leaves the depth as it is, and lies inside a skip
\* exactly when the depth is not 0.
LEMMA PlainLine ==
  ASSUME NEW n \in Nat, NEW depth \in Nat, DepthIsOpen(n, depth),
         file[n + 1].kind \notin Bracket
  PROVE  DepthIsOpen(n + 1, depth) /\ (InsideSkip(n + 1) <=> depth > 0)
  <1>1. \A j \in 1..(n + 1) :
          Skips(j, n + 1) = Skips(j, n) /\ Unskips(j, n + 1) = Unskips(j, n)
    BY OneMoreLine DEF Bracket
  <1>2. ~OpenFrom(n + 1, n + 1)
    BY <1>1, OneMoreLine
  <1>3. 1..(n + 1) = (1..n) \cup {n + 1}
    OBVIOUS
  <1>4. DepthIsOpen(n + 1, depth)
    <2>1. ASSUME NEW j \in 1..n
          PROVE  OpenFrom(j, n + 1) => OpenFrom(j, n)
      BY OneMoreLine
    <2>2. ASSUME depth > 0
          PROVE  \E j \in 1..(n + 1) :
                   OpenFrom(j, n + 1) /\ Skips(j, n + 1) = Unskips(j, n + 1) + depth
      <3>1. PICK j \in 1..n : OpenFrom(j, n) /\ Skips(j, n) = Unskips(j, n) + depth
        BY <2>2 DEF DepthIsOpen
      <3>2. j \in 1..(n + 1)
        OBVIOUS
      <3>3. OpenFrom(j, n + 1)
        BY <1>1, <2>2, <3>1, <3>2, OneMoreLine
      <3>4. QED
        BY <1>1, <3>1, <3>2, <3>3
    <2>3. QED
      BY <1>1, <1>2, <1>3, <2>1, <2>2 DEF DepthIsOpen
  <1>5. InsideSkip(n + 1) => depth > 0
    <2>1. SUFFICES ASSUME NEW j \in 1..(n + 1), OpenFrom(j, n + 1)
                   PROVE  depth > 0
      BY DEF InsideSkip, OpenFrom, Skips, Unskips
    <2>2. /\ Skips(j, n + 1) <= Unskips(j, n + 1) + depth
          /\ Skips(j, n + 1) > Unskips(j, n + 1)
      BY <1>4, <2>1, OneMoreLine DEF DepthIsOpen
    <2>3. Skips(j, n + 1) \in Nat /\ Unskips(j, n + 1) \in Nat
      BY <1>1, OneMoreLine
    <2>4. QED
      BY <2>2, <2>3
  <1>6. depth > 0 => InsideSkip(n + 1)
    <2>1. SUFFICES ASSUME depth > 0
                   PROVE  InsideSkip(n + 1)
      OBVIOUS
    <2>2. PICK j \in 1..(n + 1) : OpenFrom(j, n + 1)
      BY <1>4, <2>1 DEF DepthIsOpen
    <2>3. file[j].kind = "mode-skip"
      <3>1. j \in j..(n + 1) /\ j - 1 \in Nat /\ (j - 1) + 1 = j
        OBVIOUS
      <3>2. Skips(j, j) > Unskips(j, j)
        BY <2>2, <3>1 DEF OpenFrom
      <3>3. /\ Skips(j, j - 1) = 0 /\ Unskips(j, j - 1) = 0
            /\ Skips(j, j) = IF file[j].kind = "mode-skip"
                               THEN Skips(j, j - 1) + 1 ELSE Skips(j, j - 1)
            /\ Unskips(j, j) = IF file[j].kind = "mode-unskip"
                                 THEN Unskips(j, j - 1) + 1 ELSE Unskips(j, j - 1)
        <4> DEFINE m == j - 1
        <4>1. m \in Nat /\ m + 1 = j /\ j \in 1..(m + 1)
          BY <3>1
        <4> HIDE DEF m
        <4>2. /\ Skips(m + 1, m) = 0 /\ Unskips(m + 1, m) = 0
              /\ Skips(j, m + 1) = IF file[m + 1].kind = "mode-skip"
                                     THEN Skips(j, m) + 1 ELSE Skips(j, m)
              /\ Unskips(j, m + 1) = IF file[m + 1].kind = "mode-unskip"
                                       THEN Unskips(j, m) + 1 ELSE Unskips(j, m)
          BY <4>1, OneMoreLine
        <4>3. QED
          BY <4>1, <4>2 DEF m
      <3>4. QED
        BY <3>2, <3>3
    <2>4. QED
      BY <2>2, <2>3 DEF InsideSkip, OpenFrom, Skips, Unskips
  <1>7. QED
    BY <1>4, <1>5, <1>6

\* A skip adds one to the depth.
LEMMA SkipLine ==
  ASSUME NEW n \in Nat, NEW depth \in Nat, DepthIsOpen(n, depth),
         file[n + 1].kind = "mode-skip"
  PROVE  DepthIsOpen(n + 1, depth + 1)
  <1>1. \A j \in 1..(n + 1) :
          /\ Skips(j, n) \in Nat /\ Unskips(j, n) \in Nat
          /\ Skips(j, n + 1) = Skips(j, n) + 1 /\ Unskips(j, n + 1) = Unskips(j, n)
    BY OneMoreLine
  <1>2. /\ Skips(n + 1, n + 1) = 1 /\ Unskips(n + 1, n + 1) = 0
        /\ OpenFrom(n + 1, n + 1)
    <2>1. n + 1 \in 1..(n + 1)
      OBVIOUS
    <2>2. Skips(n + 1, n + 1) = 1 /\ Unskips(n + 1, n + 1) = 0
      BY <1>1, <2>1, OneMoreLine
    <2>3. QED
      BY <2>1, <2>2, OneMoreLine
  <1>3. ASSUME NEW j \in 1..(n + 1), OpenFrom(j, n + 1)
        PROVE  Skips(j, n + 1) <= Unskips(j, n + 1) + (depth + 1)
    <2>1. CASE j \in 1..n
      <3>1. OpenFrom(j, n)
        BY <1>3, OneMoreLine
      <3>2. Skips(j, n) <= Unskips(j, n) + depth
        BY <2>1, <3>1 DEF DepthIsOpen
      <3>3. QED
        BY <1>1, <3>2
    <2>2. CASE j = n + 1
      BY <1>2, <2>2
    <2>3. QED
      BY <2>1, <2>2
  <1>4. \E j \in 1..(n + 1) :
          OpenFrom(j, n + 1) /\ Skips(j, n + 1) = Unskips(j, n + 1) + (depth + 1)
    <2>1. CASE depth = 0
      <3>1. n + 1 \in 1..(n + 1)
        OBVIOUS
      <3>2. QED
        BY <1>2, <2>1, <3>1
    <2>2. CASE depth > 0
      <3>1. PICK j \in 1..n : OpenFrom(j, n) /\ Skips(j, n) = Unskips(j, n) + depth
        BY <2>2 DEF DepthIsOpen
      <3>2. j \in 1..(n + 1)
        OBVIOUS
      <3>3. Skips(j, n + 1) = Unskips(j, n + 1) + (depth + 1)
        BY <1>1, <3>1, <3>2
      <3>4. Skips(j, n + 1) > Unskips(j, n + 1)
        BY <1>1, <3>1, <3>2
      <3>5. OpenFrom(j, n + 1)
        BY <3>1, <3>2, <3>4, OneMoreLine
      <3>6. QED
        BY <3>2, <3>3, <3>5
    <2>3. QED
      BY <2>1, <2>2
  <1>5. QED
    BY <1>3, <1>4 DEF DepthIsOpen

\* An unskip takes one from it, if there is one to take.
LEMMA UnskipLine ==
  ASSUME NEW n \in Nat, NEW depth \in Nat, DepthIsOpen(n, depth),
         file[n + 1].kind = "mode-unskip"
  PROVE  DepthIsOpen(n + 1, Unskip(depth))
  <1>1. \A j \in 1..(n + 1) :
          /\ Skips(j, n) \in Nat /\ Unskips(j, n) \in Nat
          /\ Skips(j, n + 1) = Skips(j, n) /\ Unskips(j, n + 1) = Unskips(j, n) + 1
    BY OneMoreLine
  <1>2. ASSUME NEW j \in 1..(n + 1), OpenFrom(j, n + 1)
        PROVE  Skips(j, n + 1) <= Unskips(j, n + 1) + Unskip(depth)
    <2>1. Skips(j, n + 1) > Unskips(j, n + 1) /\ OpenFrom(j, n)
      BY <1>2, OneMoreLine
    <2>2. j # n + 1
      <3>1. Skips(n + 1, n) = 0
        BY OneMoreLine
      <3>2. QED
        BY <1>1, <2>1, <3>1
    <2>3. Skips(j, n) <= Unskips(j, n) + depth
      BY <2>1, <2>2 DEF DepthIsOpen
    <2>4. QED
      BY <1>1, <2>1, <2>3 DEF Unskip
  <1>3. ASSUME Unskip(depth) > 0
        PROVE  \E j \in 1..(n + 1) :
                 /\ OpenFrom(j, n + 1)
                 /\ Skips(j, n + 1) = Unskips(j, n + 1) + Unskip(depth)
    <2>1. depth > 0 /\ Unskip(depth) = depth - 1
      BY <1>3 DEF Unskip
    <2>2. PICK j \in 1..n : OpenFrom(j, n) /\ Skips(j, n) = Unskips(j, n) + depth
      BY <2>1 DEF DepthIsOpen
    <2>3. j \in 1..(n + 1)
      OBVIOUS
    <2>4. /\ Skips(j, n + 1) = Unskips(j, n + 1) + Unskip(depth)
          /\ Skips(j, n + 1) > Unskips(j, n + 1)
      BY <1>1, <1>3, <2>1, <2>2, <2>3
    <2>5. OpenFrom(j, n + 1)
      BY <2>2, <2>3, <2>4, OneMoreLine
    <2>6. QED
      BY <2>3, <2>4, <2>5
  <1>4. QED
    BY <1>2, <1>3 DEF DepthIsOpen

\* The counter `mode` and what was judged, kept for as long as the loop goes on.
Brackets ==
  /\ DepthIsOpen(at - 1, skipping)
  /\ \A i \in 1..Len(file) :
       /\ row[i] = "mode" /\ Going => InsideSkip(i)
       /\ told[i] # NotRun => ~InsideSkip(i)

LEMMA InitBrackets == Init => Brackets
  <1> SUFFICES ASSUME Init PROVE Brackets
    OBVIOUS
  <1>1. /\ at = 1 /\ skipping = 0
        /\ \A i \in 1..Len(file) : row[i] = NoRow /\ told[i] = NotRun
    BY DEF Init
  <1>2. DepthIsOpen(at - 1, skipping)
    BY <1>1 DEF DepthIsOpen
  <1>3. QED
    BY <1>1, <1>2 DEF Brackets, NoRow

LEMMA StepBrackets ==
  ASSUME TypeOK, Brackets, [Next]_vars
  PROVE  Brackets'
  <1>0. /\ Len(file) \in Nat /\ at \in 1..(Len(file) + 1) /\ at - 1 \in Nat
        /\ skipping \in Nat /\ file' = file
    BY FileLines, FileKept DEF TypeOK
  <1>1. DepthIsOpen(at' - 1, skipping')
    <2>1. CASE at' = at
      <3>1. ~FollowMode
        BY <1>0, <2>1 DEF FollowMode, Step
      <3>2. QED
        BY <2>1, <3>1, Writers DEF Brackets
    <2>2. CASE at' = at + 1 /\ FollowMode
      <3> DEFINE n == at - 1
      <3>1. n \in Nat /\ n + 1 = at /\ at' - 1 = n + 1 /\ DepthIsOpen(n, skipping)
        BY <1>0, <2>2 DEF Brackets
      <3> HIDE DEF n
      <3>2. \/ file[n + 1].kind = "mode-skip" /\ skipping' = skipping + 1
            \/ file[n + 1].kind = "mode-unskip" /\ skipping' = Unskip(skipping)
        BY <2>2, <3>1 DEF FollowMode, Line
      <3>3. QED
        BY <1>0, <3>1, <3>2, SkipLine, UnskipLine
    <2>3. CASE at' = at + 1 /\ ~FollowMode
      <3> DEFINE n == at - 1
      <3>1. n \in Nat /\ n + 1 = at /\ at' - 1 = n + 1 /\ DepthIsOpen(n, skipping)
        BY <1>0, <2>3 DEF Brackets
      <3> HIDE DEF n
      <3>2. file[n + 1].kind \notin Bracket
        BY <1>0, <2>3, <3>1, Advances DEF Line
      <3>3. skipping' = skipping
        BY <2>3, Writers
      <3>4. QED
        BY <1>0, <3>1, <3>2, <3>3, PlainLine
    <2>4. QED
      BY <2>1, <2>2, <2>3, Advances
  <1>2. ASSUME Looking, Line.kind \notin Bracket
        PROVE  InsideSkip(at) <=> skipping > 0
    <2> DEFINE n == at - 1
    <2>1. n \in Nat /\ n + 1 = at /\ DepthIsOpen(n, skipping)
      BY <1>0 DEF Brackets
    <2> HIDE DEF n
    <2>2. file[n + 1].kind \notin Bracket
      BY <1>2, <2>1 DEF Line
    <2>3. QED
      BY <1>0, <2>1, <2>2, PlainLine
  <1>3. ASSUME NEW i \in 1..Len(file), row'[i] = "mode", Going'
        PROVE  InsideSkip(i)
    <2>1. CASE Going /\ row[i] = "mode"
      BY <2>1 DEF Brackets
    <2>2. CASE SkipForMode /\ i = at
      BY <1>2, <2>2 DEF SkipForMode, Bracket, Unconditional
    <2>3. QED
      BY <1>3, <2>1, <2>2, ModeRows
  <1>4. ASSUME NEW i \in 1..Len(file), told'[i] # NotRun
        PROVE  ~InsideSkip(i)
    <2>1. CASE told[i] # NotRun
      BY <2>1 DEF Brackets
    <2>2. CASE told[i] = NotRun
      <3>1. PICK answer \in Answers : Run(answer)
        BY <1>4, <2>2, Writers DEF Runs
      <3>2. i = at
        BY <1>4, <2>2, <3>1 DEF Run, TypeOK
      <3>3. Looking /\ Line.kind \notin Bracket /\ skipping = 0
        BY <3>1 DEF Run, ReachesEngine, Live, Sql, Bracket
      <3>4. QED
        BY <1>2, <3>2, <3>3
    <2>3. QED
      BY <2>1, <2>2
  <1>5. \A kind, from, to : Marks(kind, from, to)' = Marks(kind, from, to)
    BY <1>0 DEF Marks
  <1>6. \A i \in 1..Len(file) : InsideSkip(i)' <=> InsideSkip(i)
    BY <1>0, <1>5 DEF InsideSkip
  <1>7. DepthIsOpen(at - 1, skipping)'
    BY <1>1, <1>5 DEF DepthIsOpen, OpenFrom, Skips, Unskips
  <1>8. QED
    BY <1>0, <1>3, <1>4, <1>6, <1>7 DEF Brackets

\* A record is judged only outside every `mode skip` and set aside for one only
\* inside: the one number `skipping` of `run_file_telling` says which, at any
\* depth and after unskips with nothing to close.
THEOREM SkipsNest == Spec => []ModeSkipBrackets
  <1>1. ASSUME TypeOK, Brackets, [Next]_vars
        PROVE  Brackets'
    BY <1>1, StepBrackets
  <1>2. Brackets => ModeSkipBrackets
    BY DEF Brackets, ModeSkipBrackets, Going
  <1>3. QED
    BY RunTypes, InitBrackets, <1>1, <1>2, PTL DEF Spec
=============================================================================
